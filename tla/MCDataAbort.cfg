\* The tests of vm_tests and every order of the aborts they may cause.
CONSTANTS
    Domain = 1
    Tests <- AllTests
    Requests <- TestRequests
SPECIFICATION FairAbortSpec
INVARIANTS AbortTypeOK ServedStaysMapped
PROPERTIES GrowthInGapOnly TranslationsKept MappedRebootResets
CHECK_DEADLOCK FALSE

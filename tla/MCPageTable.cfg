\* Disciplined calls: the page table implements the abstract address space.
CONSTANT Requests <- GoodRequests
SPECIFICATION Spec
INVARIANTS ReplicasAgree
PROPERTIES ImplementsAddressSpace
CHECK_DEADLOCK FALSE

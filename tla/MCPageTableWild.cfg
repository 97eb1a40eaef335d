\* Any calls: what still holds when the callers are not disciplined.
CONSTANT Requests <- WildRequests
SPECIFICATION Spec
INVARIANT TablesOwned
PROPERTIES OwnMegabyteOnly
CHECK_DEADLOCK FALSE

\* The stack is cacheable, and so is the heap with the page table.
SPECIFICATION Spec
CONSTANTS
    Lines = {stack, table}
    Cacheable = {stack, table}
    Descriptors = {table}
    PageTables = {pt1, pt2}
    Values = {v1, v2}
    None = None
INVARIANTS
    CacheTypeOK
    LoadsSeeStores
    WalksSeeStores
    NoStaleFetch

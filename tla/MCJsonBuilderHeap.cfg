\* The report of the heap, with no other task.
CONSTANTS
    Caps <- MCCaps
    AppPartitions <- MCAppPartitions
    DataPartitions <- MCDataPartitions
SPECIFICATION Spec
INVARIANTS
    ReportsHeapBefore

\* A command that waits while another one is executed, and updates of two reads.
CONSTANTS
    Buffers = {b1, b2}
    NULL = NULL
    QueueLength = 1
    MilestoneBytes = 1
    KB = 1
    PartitionBytes = 1
SPECIFICATION NodeSpec
INVARIANTS
    RefreshedIsCurrent
PROPERTIES
    EveryChangeIsTold

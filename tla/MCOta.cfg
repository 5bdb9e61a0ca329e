\* The queue and the buffers: updates are short, the queue of two fills up, and
\* there is memory for two commands more than it holds.
CONSTANTS
    Buffers = {b1, b2, b3, b4}
    NULL = NULL
    QueueLength = 2
    MilestoneBytes = 1
    KB = 1
    PartitionBytes = 1
SYMMETRY BufferSymmetry
SPECIFICATION Spec
INVARIANTS
    OneOwner
PROPERTIES
    ImplementsService

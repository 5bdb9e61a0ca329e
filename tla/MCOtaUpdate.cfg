\* The course of updates: images of several milestones, each of several KB.
CONSTANTS
    Buffers = {b1, b2}
    NULL = NULL
    QueueLength = 1
    MilestoneBytes = 4
    KB = 2
    PartitionBytes = 9
SPECIFICATION Spec
INVARIANTS
    TypeOK
    HandleReleased
    IInv
    OutcomeIsTrue
PROPERTIES
    InstallsWholeImage
    ProgressGrows
    AcceptedIsProcessed

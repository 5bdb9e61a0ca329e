\* All messages, with every allocation failing.
CONSTANTS
    Caps <- MCCaps
    AppPartitions <- MCAppPartitions
    DataPartitions <- MCDataPartitions
SPECIFICATION Spec
INVARIANTS
    TypeOK
    NothingLeaks
    AllOrNothing

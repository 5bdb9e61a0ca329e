\* The assertion that no address is there when one arrives.
CONSTANTS
    NUM_RETRIES <- Endless
    RetryCap = 1
    QueueBound = 3
    Readers = {r1}
    Buffers = {b1, b2, b3}
    NULL = NULL
SPECIFICATION Spec
INVARIANTS
    NoAddressYet

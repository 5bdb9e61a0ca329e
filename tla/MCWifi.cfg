\* The station with the retries of the code, which never end, and two tasks that
\* ask for the address.
CONSTANTS
    NUM_RETRIES <- Endless
    RetryCap = 1
    QueueBound = 3
    Readers = {r1, r2}
    Buffers = {b1, b2, b3}
    NULL = NULL
SPECIFICATION Spec
INVARIANTS
    TypeOK
    NoUseAfterFree
    AddressOwned
    AddressFollowsStation
    OneAttempt
PROPERTIES
    StartWifiReturns

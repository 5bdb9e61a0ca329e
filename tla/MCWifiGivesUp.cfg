\* The station with a single retry: libiot_start_wifi may come back without an
\* address.
CONSTANTS
    NUM_RETRIES = 1
    RetryCap = 1
    QueueBound = 3
    Readers = {r1}
    Buffers = {b1, b2}
    NULL = NULL
SPECIFICATION Spec
INVARIANTS
    OneAttempt
PROPERTIES
    StartWifiReturns

\* A task that app_init has created asks for the start time before app_run().
\* The node stops when app_run() has returned and the clock is at its bound.
CONSTANTS
    NetworkTimes = {5}
    Causes = {}
    WordSize = 4
    MaxUptime = 0
    MaxClock = 5
    MaxFaults = 0
SPECIFICATION Spec
CHECK_DEADLOCK FALSE
INVARIANTS
    EarlyReadIsZero

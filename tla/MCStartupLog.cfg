\* A WiFi build whose app_init logs an error.
\* The node stops when app_run() has returned and the clock is at its bound.
CONSTANTS
    NetworkTimes = {5}
    Causes = {}
    WordSize = 4
    MaxUptime = 1
    MaxClock = 6
    MaxFaults = 1
SPECIFICATION Spec
CHECK_DEADLOCK FALSE
PROPERTIES
    InitMayLog

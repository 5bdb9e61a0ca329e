\* Every configuration, two faults: a server whose time is before the boot and one
\* whose time takes two words.
\* The node stops when app_run() has returned and the clock is at its bound.
CONSTANTS
    NetworkTimes = {0, 5}
    Causes = {"ESP_RST_SW", "ESP_RST_PANIC", "ESP_RST_TASK_WDT", "ESP_RST_BROWNOUT",
              "ESP_RST_EXT"}
    WordSize = 4
    MaxUptime = 2
    MaxClock = 11
    MaxFaults = 2
SPECIFICATION Spec
CHECK_DEADLOCK FALSE
INVARIANTS
    TypeOK
    StartTimeReads
    StartTimeNotAfterBoot
    WillNamesInstance
    StartupTellsCause
PROPERTIES
    Boots

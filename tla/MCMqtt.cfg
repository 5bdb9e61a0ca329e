\* The session of one node with the watchdog: safety.  The two timeouts differ,
\* so that neither can stand in for the other.
CONSTANTS
    FirstConnectTimeout = 3
    WatchdogTimeout = 2
    WatchdogEnabled = TRUE
SPECIFICATION Spec
INVARIANTS
    TypeOK
    NeverBothBits
    BitsFollowClient
    ConnectedMeansAnnounced
    StartupOncePerBoot
    IInv
PROPERTIES
    ExpiryMeansSilence
    StartEnds
    WatchdogRecovers

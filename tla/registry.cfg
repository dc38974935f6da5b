\* Processes under two numbers that are used again and again, in units of about
\* a heartbeat; a dead connection may outlast the time after which a collision
\* is reported.
CONSTANTS
    Processes = 2
    AtOnce = 2
    None = None
    PollInterval = 1
    ReapWithin = 2
    ReportAfter = 2
    BackoffCap = 2
    Expiry = 3
    SilentMinimum = 1
    SilentMaximum = 2
    MaxSecs = 3
SPECIFICATION FairSpec
INVARIANTS
    RestartIsNoCollision
    PresenceIsNotInvented
    SlowerIsTolerated
PROPERTIES
    ExpiryMeansGone
    CollisionsClear
    DarkIsNoticed
    VerdictRecovers
CHECK_DEADLOCK FALSE


\* One process, one reconnect: the row of the connection that replaced an
\* older one must survive the end of the older one.
CONSTANTS
    Processes = 2
    AtOnce = 2
    None = None
    PollInterval = 1
    ReapWithin = 1
    ReportAfter = 2
    BackoffCap = 2
    Expiry = 3
    SilentMinimum = 1
    SilentMaximum = 2
    MaxSecs = 3
SPECIFICATION Spec
INVARIANT LateCloseIsIgnored
CHECK_DEADLOCK FALSE

SPECIFICATION SysSpec
CONSTANTS
    Workers = {w1, w2, w3, w4}
    Threads = {t1, t2, t3, t4}
    NoWorker = NoWorker
    NoThread = NoThread
    Displays = {d1, d2}
    MaxEnumerations = 3
SYMMETRY Interchangeable
INVARIANTS
    SysTypeOK
    ListedAreReady
    MonitorHasOneOwner
    PlatformOutlivesMonitors

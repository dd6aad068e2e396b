SPECIFICATION FairSpec
CONSTANTS
    Workers = {w1, w2, w3}
    Threads = {t1, t2, t3, t4}
    NoWorker = NoWorker
    NoThread = NoThread
INVARIANTS
    TypeOK
    ThreadHasOneOwner
    ReleaseFindsWorker
    AddressIsFresh
    DoneMeansDestroyed
    CloseJoinsEverything
PROPERTIES
    WaitTerminates

SPECIFICATION SysFairSpec
CONSTANTS
    Workers = {w1, w2, w3}
    Threads = {t1, t2, t3}
    NoWorker = NoWorker
    NoThread = NoThread
    Displays = {d1}
    MaxEnumerations = 3
PROPERTIES
    EnumerationDelivers
    ShutdownCompletes

SPECIFICATION FairSpec
CONSTANTS
    Properties = {Brightness, Contrast}
    MaxWrites = 3
    Absent = Absent
    Unset = Unset
    NaN = NaN
    NoProperty = NoProperty
INVARIANTS
    TypeOK
    ActionIsNotified
    NothingLostAtDestruction
    InitializedIsComplete
    CacheSettles
PROPERTIES
    Initializes
    ImplementsChannel

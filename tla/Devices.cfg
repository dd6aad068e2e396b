SPECIFICATION Spec
CONSTANTS
    MaxPromises = 6
    Addresses = {"lan", "vpn", "localhost"}
    Loopback = {"localhost"}
    Datagrams <- MCDatagrams
    LowerCase <- MCLowerCase
    Trimmed <- MCTrimmed
    HeosTarget = "denon"
    MaxDatagrams = 3
    Topologies <- MCTopologies
    Ranges <- MCRanges
    Currents <- MCCurrents
    Properties = {"brightness"}
    OtherValues <- MCOtherValues
    NaN = NaN
    NaNResults = {0, 1000}
    MAX_RETRIES = 2
    MaxEnumerations = 2
INVARIANTS
    PromisesAreKept
    DevicesAreFound
    HandlesAreOwned
    WritesAreInRange
CHECK_DEADLOCK FALSE

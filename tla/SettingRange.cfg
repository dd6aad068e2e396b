SPECIFICATION Spec
CONSTANTS
    Devices = {speakers, headphones}
    NoDevice = NoDevice
    NaN = NaN
    Full = 4
    MaxEvents = 2
    Monitors = {m1, m2}
    Targets = {"volume", "brightness"}
    Step = 2
    Snap = 2
INVARIANTS
    SetValueInRange

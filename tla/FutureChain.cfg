SPECIFICATION FairSpec
CONSTANTS
    MaxChain = 3
    Handlers <- LastHandles
    CancelChains = FALSE
INVARIANTS
    ResultIsJustified
    DeliveryIsExpected
PROPERTIES
    PostIsSafe
    GetReturns
    CancelReturns

SPECIFICATION FairSpec
CONSTANTS
    MaxChain = 1
    Handlers = {}
    CancelChains = TRUE
PROPERTIES
    CancelReturns

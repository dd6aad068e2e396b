SPECIFICATION Spec
CONSTANTS
    MaxChain = 1
    Handlers = {}
    CancelChains = FALSE
INVARIANTS
    ParentHasContinuation

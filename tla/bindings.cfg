SPECIFICATION BindingsSpec
CONSTANTS
    Platform = "wasm"
    Tasks = {t1, t2, t3}
    Ops <- MCOps
    MaxCalls = 4
    MaxCode = 2
    Reentrant = FALSE
    None = None
CHECK_DEADLOCK FALSE
INVARIANTS
    BindingsTypeOK
    NoUseAfterClose
PROPERTY
    EveryCallReturns

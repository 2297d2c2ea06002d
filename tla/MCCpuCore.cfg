SPECIFICATION Spec
CONSTANTS
    Size = 3
    Kinds = {"Branch", "Flag", "ReturnFromInterrupt", "Timer", "Loop", "LoopCount"}
    Masks <- MCMasks
    Settings <- MCInterrupting
    Iterations = {2}
    UartPrescaler = 1
    TightLoop = 1
    StackDepth = 1
    MaxCalls = 0
INVARIANTS CoreIsConsistent
PROPERTIES BranchesLand LoopsAreNotDisturbed
VIEW Live
CHECK_DEADLOCK FALSE

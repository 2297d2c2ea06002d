SPECIFICATION QuickFairSpec
CONSTANTS
    Size = 2
    Kinds = {"Nop", "Branch", "Sleep", "Timer", "Uart"}
    Masks <- MCMasks
    Settings <- MCBoth
    Iterations = {}
    UartPrescaler = 2
    TightLoop = 2
    StackDepth = 1
    MaxCalls = 0
PROPERTIES ArmedWatchdogResets TimerWakesSleeper UartReachesRunningCore
CHECK_DEADLOCK FALSE

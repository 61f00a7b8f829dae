SPECIFICATION KernelFairSpec
CONSTANTS
    TickTask = tick  IdleTask = idle  ta = ta  tb = tb  tc = tc  td = td
    Null = Null
    Prio <- MCPrio
    OS_CFG_PRIO_MAX = 4
    DEF_INT_CPU_NBR_BITS = 2
    Sems = {s}
    MaxCtr = 1
    OSCfg_TickWheelSize = 2
    TimeQuanta = 1
    MaxLock = 1
    Tasks = {tick, idle, ta, tb}
    Calls <- TimeCalls
    Times = {1, 2}
    TickMod = 3
    OS_TICK_TH_INIT = 1
    OS_TICK_TH_RDY = 1
INVARIANTS ListsAgree HighestRuns
PROPERTIES ImplementsService DelayEnds

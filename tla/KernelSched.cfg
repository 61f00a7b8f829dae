SPECIFICATION KernelSpec
CONSTANTS
    TickTask = tick  IdleTask = idle  ta = ta  tb = tb  tc = tc  td = td
    Null = Null
    Prio <- MCPrio
    OS_CFG_PRIO_MAX = 4
    DEF_INT_CPU_NBR_BITS = 2
    Sems = {s}
    MaxCtr = 1
    OSCfg_TickWheelSize = 2
    TimeQuanta = 1
    MaxLock = 1
    Tasks = {tick, idle, tb, tc, td}
    Calls <- SchedCalls
    Times = {}
    TickMod = 1
    OS_TICK_TH_INIT = 0
    OS_TICK_TH_RDY = 0
INVARIANTS KTypeOK ListsAgree HighestRuns NoLostWakeup
PROPERTIES LockKeepsTask ImplementsService

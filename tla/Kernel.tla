------------------------------- MODULE Kernel -------------------------------
(***************************************************************************)
(* uC/OS-III as os_cfg.h configures it: the scheduler, the tick task and   *)
(* the wheel of delayed tasks, counting semaphores with timeouts, and the  *)
(* interrupts that call into the kernel.                                   *)
(*                                                                         *)
(* A critical section is interrupts off (OS_CFG_ISR_POST_DEFERRED_EN is 0),*)
(* so it is one step.  An interrupt runs between any two: the tick, at the *)
(* lowest priority, and a device's above it.  PendSV, which switches tasks,*)
(* has the tick's priority and a lower number: it runs when no interrupt   *)
(* is active and before the next tick.  The tasks of the application call  *)
(* whatever they like, in the order that os.h allows; a call that returns  *)
(* an error and changes nothing is a step that is not taken.               *)
(*                                                                         *)
(* os_cfg.h compiles the tests of arguments and object types out: a call   *)
(* on a deleted semaphore does what it does on any other.  The type itself *)
(* is written and never read, and is left out.                             *)
(***************************************************************************)
EXTENDS TaskLists, PriorityTable, SequencesExt

CONSTANTS
    TickTask, IdleTask,
    Prio,              \* priority of each task
    Sems,              \* OS_SEM
    MaxCtr,            \* the largest OS_SEM_CTR: 2^32 - 1
    TickMod,           \* OS_TICK is a number modulo 2^32
    OS_TICK_TH_INIT, OS_TICK_TH_RDY,
    OSCfg_TickWheelSize,
    Times,             \* ticks that tasks ask for
    Calls,             \* what each task of the application calls
    TimeQuanta,        \* OSSchedRoundRobinDfltTimeQuanta
    MaxLock            \* bound on nested OSSchedLock; 250 in the code

AppTasks == Tasks \ {TickTask, IdleTask}
TickNbrs == 0 .. TickMod - 1
Spokes == 0 .. OSCfg_TickWheelSize - 1
AllCalls == {"DLY", "MATCH", "PERIODIC", "PEND", "PEND_TIMEOUT", "POST", "SET", "CREATE_DEL", "LOCK",
             "ROUND_ROBIN"}

ASSUME KernelAssumption ==
    /\ {TickTask, IdleTask} \subseteq Tasks /\ TickTask # IdleTask
    /\ Null \notin Spokes /\ Null \notin {"post", "robin", "exit"}
    /\ {"NOTHING", "TASK_SEM"} \cap Sems = {}
    /\ Prio \in [Tasks -> Priorities]
    /\ \A t \in AppTasks : Prio[TickTask] < Prio[t] /\ Prio[t] < Prio[IdleTask]
    /\ MaxCtr \in Nat /\ TickMod \in Nat /\ OSCfg_TickWheelSize \in Nat \ {0}
    /\ OS_TICK_TH_INIT \in TickNbrs /\ OS_TICK_TH_RDY \in TickNbrs
    /\ (\E t \in AppTasks : "MATCH" \in Calls[t]) => OS_TICK_TH_RDY < TickMod - 1
    /\ Times \subseteq 1 .. TickMod - 1 /\ Calls \in [AppTasks -> SUBSET AllCalls]
    /\ TimeQuanta \in Nat \ {0} /\ MaxLock \in Nat

VARIABLES
    OSIntNestingCtr, OSSchedLockNestingCtr,
    OSPrioCur, OSTCBCurPtr,          \* the task that runs
    OSPrioHighRdy, OSTCBHighRdyPtr,  \* the task PendSV switches to
    pendSV,                          \* PendSV is pending
    OSPrioTbl, OSRdyList,
    OSSchedRoundRobinEn, TimeQuantaCtr,
    OSTickCtr, OSCfg_TickWheel, TickCtrMatch, TickSpokePtr, TickCtrPrev,
    Ctr, PendList,                   \* of each semaphore
    TaskState, PendStatus,
    PendOn,                          \* with PendObjPtr: the semaphore itself
    isr,                             \* where the tick interrupt is, Null outside it
    pc                               \* where each task is

switch == <<OSPrioCur, OSTCBCurPtr, OSPrioHighRdy, OSTCBHighRdyPtr, pendSV>>
locks == <<OSIntNestingCtr, OSSchedLockNestingCtr>>
ready == <<OSPrioTbl, OSRdyList>>
robin == <<OSSchedRoundRobinEn, TimeQuantaCtr>>
wheel == <<OSCfg_TickWheel, TickCtrMatch, TickSpokePtr>>
pends == <<PendList, PendOn, PendStatus, TaskState>>
kernelVars == <<switch, locks, ready, robin, wheel, TickCtrPrev, OSTickCtr, Ctr, pends, isr, pc>>

Pending == {"PEND", "PEND_TIMEOUT"}
Before(t, u) == Prio[t] < Prio[u]

\* Each OSTaskCreate puts its task at the end of the list of its priority.
CreatedLists(order) == FoldLeft(LAMBDA h, t : InsertTail(h, Prio[t], t), EmptyLists(Priorities), order)
CreatedTable(order) == FoldLeft(LAMBDA tbl, t : OS_PrioInsert(tbl, Prio[t]), EmptyTable, order)

\* After OSInit, the OSTaskCreate of every task, in any order among equals, the
\* OSSemCreate of every semaphore, and OSStart, which makes the first task the
\* current one and leaves the rest to PendSV.
KernelInit ==
    /\ OSIntNestingCtr = 0 /\ isr = Null /\ OSSchedLockNestingCtr = 0
    /\ \E order \in SetToSeqs(Tasks) :
          /\ \A i, j \in DOMAIN order : i < j => ~Before(order[j], order[i])
          /\ OSRdyList = CreatedLists(order) /\ OSPrioTbl = CreatedTable(order)
    /\ OSPrioHighRdy = OS_PrioGetHighest(OSPrioTbl) /\ OSPrioCur = OSPrioHighRdy
    /\ OSTCBHighRdyPtr = OSRdyList.HeadPtr[OSPrioHighRdy] /\ OSTCBCurPtr = OSTCBHighRdyPtr
    /\ pendSV = TRUE
    /\ OSSchedRoundRobinEn = FALSE /\ TimeQuantaCtr = [t \in Tasks |-> TimeQuanta]
    /\ OSTickCtr = 0
    /\ OSCfg_TickWheel = EmptyLists(Spokes)
    /\ TickCtrMatch = [t \in Tasks |-> 0] /\ TickSpokePtr = [t \in Tasks |-> Null]
    /\ TickCtrPrev = [t \in Tasks |-> OS_TICK_TH_INIT]
    /\ Ctr \in [Sems -> 0 .. MaxCtr]
    /\ PendList = EmptyLists(Sems)
    /\ TaskState = [t \in Tasks |-> "RDY"]
    /\ PendOn = [t \in Tasks |-> "NOTHING"] /\ PendStatus = [t \in Tasks |-> "OK"]
    /\ pc = [t \in Tasks |-> IF t = TickTask THEN "pend" ELSE "run"]

-----------------------------------------------------------------------------
\* Tasks out of the ready list and into it.

OS_RdyListInsert(h, t) ==
    IF Prio[t] = OSPrioCur THEN InsertTail(h, Prio[t], t) ELSE InsertHead(h, Prio[t], t)

OS_RdyListRemove(t) ==
    /\ OSRdyList' = Unlink(OSRdyList, Prio[t], t)
    /\ OSPrioTbl' = IF OSRdyList.PrevPtr[t] = Null /\ OSRdyList.NextPtr[t] = Null
                    THEN OS_PrioRemove(OSPrioTbl, Prio[t])
                    ELSE OSPrioTbl

\* Faulty: ordered by the match and not by what is left until it.
FaultyOS_TickListInsert(t, match) ==
    LET spoke == match % OSCfg_TickWheelSize IN
    /\ TickCtrMatch' = [TickCtrMatch EXCEPT ![t] = match]
    /\ TickSpokePtr' = [TickSpokePtr EXCEPT ![t] = spoke]
    /\ OSCfg_TickWheel' = InsertBeforeFirst(OSCfg_TickWheel, spoke, t,
                                            {u \in Tasks : match > TickCtrMatch[u]})

Remain(match) == (match - OSTickCtr) % TickMod

OS_TickListInsert(t, match) ==
    LET spoke == match % OSCfg_TickWheelSize IN
    /\ TickCtrMatch' = [TickCtrMatch EXCEPT ![t] = match]
    /\ TickSpokePtr' = [TickSpokePtr EXCEPT ![t] = spoke]
    /\ OSCfg_TickWheel' = InsertBeforeFirst(OSCfg_TickWheel, spoke, t,
                                            {u \in Tasks : Remain(match) > Remain(TickCtrMatch[u])})

\* The lists without some tasks that wait in them, and with them: the tasks
\* leave and enter one after the other.
OS_TickListRemove(ts) ==
    FoldLeft(LAMBDA h, t : IF TickSpokePtr[t] = Null THEN h ELSE Unlink(h, TickSpokePtr[t], t),
             OSCfg_TickWheel, ts)

OS_PendListRemove(ts) ==
    FoldLeft(LAMBDA h, t : IF PendOn[t] \in Sems THEN Unlink(h, PendOn[t], t) ELSE h, PendList, ts)

ReadyWith(ts) == FoldLeft(OS_RdyListInsert, OSRdyList, ts)
TableWith(ts) == FoldLeft(LAMBDA tbl, t : OS_PrioInsert(tbl, Prio[t]), OSPrioTbl, ts)

\* OS_Post, OS_PendObjDel and what OS_TickListUpdate does to a task whose time
\* has come, for some tasks in a row.
Wake(ts, status) ==
    /\ PendList' = OS_PendListRemove(ts) /\ OSCfg_TickWheel' = OS_TickListRemove(ts)
    /\ OSRdyList' = ReadyWith(ts) /\ OSPrioTbl' = TableWith(ts)
    /\ TickSpokePtr' = [t \in Tasks |-> IF t \in ToSet(ts) THEN Null ELSE TickSpokePtr[t]]
    /\ TickCtrMatch' = [t \in Tasks |-> IF t \in ToSet(ts) /\ TickSpokePtr[t] # Null
                                        THEN 0 ELSE TickCtrMatch[t]]
    /\ TaskState' = [t \in Tasks |-> IF t \in ToSet(ts) THEN "RDY" ELSE TaskState[t]]
    /\ PendStatus' = [t \in Tasks |-> IF t \in ToSet(ts) /\ TaskState[t] \in Pending
                                      THEN status ELSE PendStatus[t]]
    /\ PendOn' = [t \in Tasks |-> IF t \in ToSet(ts) THEN "NOTHING" ELSE PendOn[t]]

\* OS_Pend and OS_TaskBlock; a timeout of 0 is none.
OS_Pend(t, obj, timeout) ==
    /\ PendOn' = [PendOn EXCEPT ![t] = obj]
    /\ PendStatus' = [PendStatus EXCEPT ![t] = "OK"]
    /\ PendList' = IF obj \in Sems
                   THEN InsertBeforeFirst(PendList, obj, t, {u \in Tasks : ~Before(t, u)})
                   ELSE PendList
    /\ TaskState' = [TaskState EXCEPT ![t] = IF timeout = 0 THEN "PEND" ELSE "PEND_TIMEOUT"]
    /\ IF timeout = 0 THEN UNCHANGED wheel
       ELSE OS_TickListInsert(t, (OSTickCtr + timeout) % TickMod)
    /\ OS_RdyListRemove(t)

-----------------------------------------------------------------------------
\* Which task runs.

Running(t, at) == OSTCBCurPtr = t /\ isr = Null /\ ~pendSV /\ pc[t] = at
Goto(t, at) == pc' = [pc EXCEPT ![t] = at]

HighRdy == OSRdyList.HeadPtr[OS_PrioGetHighest(OSPrioTbl)]

\* What OSSched and OSIntExit choose from these ready lists.
SelectHighest(tbl, lists) ==
    LET prio == OS_PrioGetHighest(tbl) IN
    /\ OSPrioHighRdy' = prio
    /\ OSTCBHighRdyPtr' = lists.HeadPtr[prio]
    /\ pendSV' = (pendSV \/ lists.HeadPtr[prio] # OSTCBCurPtr)
    /\ UNCHANGED <<OSPrioCur, OSTCBCurPtr>>

\* The last thing that most calls do.  A task that blocked goes on from here
\* when it is woken.
OSSched(t) ==
    /\ \/ Running(t, "sched") /\ Goto(t, "run")
       \/ Running(t, "sched_pend") /\ Goto(t, "resume")
    /\ IF OSIntNestingCtr > 0 \/ OSSchedLockNestingCtr > 0 THEN UNCHANGED switch
       ELSE SelectHighest(OSPrioTbl, OSRdyList)
    /\ UNCHANGED <<locks, ready, robin, wheel, TickCtrPrev, OSTickCtr, Ctr, pends, isr>>

OS_CPU_PendSVHandler ==
    /\ pendSV /\ isr = Null
    /\ OSPrioCur' = OSPrioHighRdy /\ OSTCBCurPtr' = OSTCBHighRdyPtr /\ pendSV' = FALSE
    /\ UNCHANGED <<OSPrioHighRdy, OSTCBHighRdyPtr, locks, ready, robin, wheel, TickCtrPrev, OSTickCtr,
                   Ctr, pends, isr, pc>>

OSSchedLock(t) ==
    /\ Running(t, "run") /\ OSSchedLockNestingCtr < MaxLock
    /\ OSSchedLockNestingCtr' = OSSchedLockNestingCtr + 1
    /\ UNCHANGED <<switch, OSIntNestingCtr, ready, robin, wheel, TickCtrPrev, OSTickCtr, Ctr, pends,
                   isr, pc>>

\* Faulty: what was made ready while the scheduler was locked waits on.
FaultyOSSchedUnlock(t) ==
    /\ Running(t, "run") /\ OSSchedLockNestingCtr > 0
    /\ OSSchedLockNestingCtr' = OSSchedLockNestingCtr - 1
    /\ UNCHANGED <<switch, OSIntNestingCtr, ready, robin, wheel, TickCtrPrev, OSTickCtr, Ctr, pends,
                   isr, pc>>

OSSchedUnlock(t) ==
    /\ Running(t, "run") /\ OSSchedLockNestingCtr > 0
    /\ OSSchedLockNestingCtr' = OSSchedLockNestingCtr - 1
    /\ IF OSSchedLockNestingCtr = 1 THEN Goto(t, "sched") ELSE UNCHANGED pc
    /\ UNCHANGED <<switch, OSIntNestingCtr, ready, robin, wheel, TickCtrPrev, OSTickCtr, Ctr, pends,
                   isr>>

OSSchedRoundRobinCfg(t, en) ==
    /\ Running(t, "run")
    /\ OSSchedRoundRobinEn' = en
    /\ UNCHANGED <<switch, locks, ready, TimeQuantaCtr, wheel, TickCtrPrev, OSTickCtr, Ctr, pends, isr, pc>>

\* The head of a list goes to its end; the next one gets a new quantum.
Rotate(prio, quanta) ==
    LET rotated == MoveHeadToTail(OSRdyList, prio) IN
    /\ OSRdyList' = rotated
    /\ TimeQuantaCtr' = [quanta EXCEPT ![rotated.HeadPtr[prio]] = TimeQuanta]
    /\ UNCHANGED OSPrioTbl

OSSchedRoundRobinYield(t) ==
    /\ Running(t, "run")
    /\ OSSchedLockNestingCtr = 0 /\ OSSchedRoundRobinEn /\ OSRdyList.NbrEntries[OSPrioCur] >= 2
    /\ Rotate(OSPrioCur, TimeQuantaCtr)
    /\ Goto(t, "sched")
    /\ UNCHANGED <<switch, locks, OSSchedRoundRobinEn, wheel, TickCtrPrev, OSTickCtr, Ctr, pends, isr>>

-----------------------------------------------------------------------------
\* Time.

\* The tick count at which a delay ends.
Match(t, time, opt) ==
    LET next == (TickCtrPrev[t] + time) % TickMod IN
    CASE opt = "DLY" -> (OSTickCtr + time) % TickMod
      [] opt = "MATCH" -> time
      [] opt = "PERIODIC" -> IF (next - OSTickCtr - 1) % TickMod < time THEN next
                             ELSE (OSTickCtr + time) % TickMod

OSTimeDly(t, time, opt) ==
    /\ Running(t, "run") /\ OSSchedLockNestingCtr = 0
    /\ TaskState' = [TaskState EXCEPT ![t] = "DLY"]
    /\ OS_TickListInsert(t, Match(t, time, opt))
    /\ TickCtrPrev' = IF opt = "PERIODIC" THEN [TickCtrPrev EXCEPT ![t] = Match(t, time, opt)]
                      ELSE TickCtrPrev
    /\ OS_RdyListRemove(t)
    /\ Goto(t, "sched")
    /\ UNCHANGED <<switch, locks, robin, OSTickCtr, Ctr, PendList, PendOn, PendStatus, isr>>

TooFar(time) == (time - OSTickCtr - 1) % TickMod > OS_TICK_TH_RDY

\* A match in the past: an error, and the task runs on in state DLY.
OSTimeDly_zero(t, time) ==
    /\ Running(t, "run") /\ OSSchedLockNestingCtr = 0
    /\ TooFar(time)
    /\ TaskState' = [TaskState EXCEPT ![t] = "DLY"]
    /\ TickCtrMatch' = [TickCtrMatch EXCEPT ![t] = 0]
    /\ TickSpokePtr' = [TickSpokePtr EXCEPT ![t] = Null]
    /\ UNCHANGED <<switch, locks, ready, robin, OSCfg_TickWheel, TickCtrPrev, OSTickCtr, Ctr,
                   PendList, PendOn, PendStatus, isr, pc>>

Delay(t) ==
    \/ \E opt \in {"DLY", "PERIODIC"} \cap Calls[t], time \in Times : OSTimeDly(t, time, opt)
    \/ "MATCH" \in Calls[t] /\ \E time \in TickNbrs :
          \/ ~TooFar(time) /\ OSTimeDly(t, time, "MATCH")
          \/ OSTimeDly_zero(t, time)

\* The tick task waits for its semaphore, which does not count.
OSTaskSemPend ==
    /\ OSSchedLockNestingCtr = 0
    /\ \/ /\ Running(TickTask, "pend") /\ Goto(TickTask, "sched_pend")
          /\ OS_Pend(TickTask, "TASK_SEM", 0)
       \/ /\ Running(TickTask, "resume") /\ Goto(TickTask, "update")
          /\ UNCHANGED <<ready, wheel, pends>>
    /\ UNCHANGED <<switch, locks, robin, TickCtrPrev, OSTickCtr, Ctr, isr>>

\* Faulty: the spoke of the tick before.
FaultyExpired(tick) ==
    LET chain == Chain(OSCfg_TickWheel, OSTickCtr % OSCfg_TickWheelSize)
        now == {n \in 0 .. Len(chain) : \A i \in 1 .. n : TickCtrMatch[chain[i]] = tick}
    IN  SubSeq(chain, 1, CHOOSE n \in now : \A m \in now : m <= n)

\* The tasks at the front of a spoke whose time is now.
Expired(tick) ==
    LET chain == Chain(OSCfg_TickWheel, tick % OSCfg_TickWheelSize)
        now == {n \in 0 .. Len(chain) : \A i \in 1 .. n : TickCtrMatch[chain[i]] = tick}
    IN  SubSeq(chain, 1, CHOOSE n \in now : \A m \in now : m <= n)

\* Faulty: only the first one.
FaultyOS_TickListUpdate ==
    LET tick == (OSTickCtr + 1) % TickMod
        due == Expired(tick)
    IN  /\ Running(TickTask, "update") /\ Goto(TickTask, "pend")
        /\ OSTickCtr' = tick
        /\ Wake(SubSeq(due, 1, IF due = <<>> THEN 0 ELSE 1), "TIMEOUT")
        /\ UNCHANGED <<switch, locks, robin, TickCtrPrev, Ctr, isr>>

OS_TickListUpdate ==
    LET tick == (OSTickCtr + 1) % TickMod IN
    /\ Running(TickTask, "update") /\ Goto(TickTask, "pend")
    /\ OSTickCtr' = tick
    /\ Wake(Expired(tick), "TIMEOUT")
    /\ UNCHANGED <<switch, locks, robin, TickCtrPrev, Ctr, isr>>

-----------------------------------------------------------------------------
\* Semaphores.

OS_PendListInit(h, s) == [h EXCEPT !.HeadPtr[s] = Null, !.TailPtr[s] = Null, !.NbrEntries[s] = 0]

\* Whatever the semaphore was before: who waited in its list is in none after it.
OSSemCreate(t, s, cnt) ==
    /\ Running(t, "run")
    /\ Ctr' = [Ctr EXCEPT ![s] = cnt]
    /\ PendList' = OS_PendListInit(PendList, s)
    /\ UNCHANGED <<switch, locks, ready, robin, wheel, TickCtrPrev, OSTickCtr, PendOn, PendStatus,
                   TaskState, isr, pc>>

OSSemPend_take(t, s) ==
    /\ Running(t, "run") /\ Ctr[s] > 0
    /\ Ctr' = [Ctr EXCEPT ![s] = @ - 1]
    /\ UNCHANGED <<switch, locks, ready, robin, wheel, TickCtrPrev, OSTickCtr, pends, isr, pc>>

\* Faulty: the counter is not looked at again with interrupts off.
FaultyOSSemPend_block(t, s, timeout) ==
    /\ Running(t, "run")
    /\ OSSchedLockNestingCtr = 0
    /\ OS_Pend(t, s, timeout)
    /\ Goto(t, "sched_pend")
    /\ UNCHANGED <<switch, locks, robin, TickCtrPrev, OSTickCtr, Ctr, isr>>

OSSemPend_block(t, s, timeout) ==
    /\ Running(t, "run") /\ Ctr[s] = 0
    /\ OSSchedLockNestingCtr = 0
    /\ OS_Pend(t, s, timeout)
    /\ Goto(t, "sched_pend")
    /\ UNCHANGED <<switch, locks, robin, TickCtrPrev, OSTickCtr, Ctr, isr>>

\* Back from OSSched: what PendStatus says is the result.
OSSemPend_return(t) ==
    /\ t \in AppTasks /\ Running(t, "resume")
    /\ Goto(t, "run")
    /\ UNCHANGED <<switch, locks, ready, robin, wheel, TickCtrPrev, OSTickCtr, Ctr, pends, isr>>

\* Faulty: without the test for the limit.
FaultyOS_SemPost(s, all) ==
    LET waiting == Chain(PendList, s) IN
    IF PendList.NbrEntries[s] = 0
    THEN Ctr' = [Ctr EXCEPT ![s] = @ + 1] /\ UNCHANGED <<ready, wheel, pends>>
    ELSE Wake(IF all THEN waiting ELSE <<Head(waiting)>>, "OK") /\ UNCHANGED Ctr

\* With nobody waiting the counter goes up, unless it is at its limit.
OS_SemPost(s, all) ==
    LET waiting == Chain(PendList, s) IN
    IF PendList.NbrEntries[s] = 0
    THEN /\ Ctr[s] # MaxCtr
         /\ Ctr' = [Ctr EXCEPT ![s] = @ + 1]
         /\ UNCHANGED <<ready, wheel, pends>>
    ELSE /\ Wake(IF all THEN waiting ELSE <<Head(waiting)>>, "OK")
         /\ UNCHANGED Ctr

OSSemPost(t, s, all) ==
    /\ Running(t, "run")
    /\ OS_SemPost(s, all)
    /\ IF PendList.NbrEntries[s] > 0 THEN Goto(t, "sched") ELSE UNCHANGED pc
    /\ UNCHANGED <<switch, locks, robin, TickCtrPrev, OSTickCtr, isr>>

OSSemSet(t, s, cnt) ==
    /\ Running(t, "run")
    /\ Ctr[s] > 0 \/ PendList.NbrEntries[s] = 0
    /\ Ctr' = [Ctr EXCEPT ![s] = cnt]
    /\ UNCHANGED <<switch, locks, ready, robin, wheel, TickCtrPrev, OSTickCtr, pends, isr, pc>>

\* Faulty: only the first of those who wait is woken.
FaultyOSSemDel(t, s, always) ==
    LET waiting == Chain(PendList, s) IN
    /\ Running(t, "run")
    /\ always \/ PendList.NbrEntries[s] = 0
    /\ Wake(SubSeq(waiting, 1, IF waiting = <<>> THEN 0 ELSE 1), "DEL")
    /\ Ctr' = [Ctr EXCEPT ![s] = 0]
    /\ IF always THEN Goto(t, "sched") ELSE UNCHANGED pc
    /\ UNCHANGED <<switch, locks, robin, TickCtrPrev, OSTickCtr, isr>>

\* Without the option ALWAYS a semaphore with waiting tasks is kept.
OSSemDel(t, s, always) ==
    /\ Running(t, "run")
    /\ always \/ PendList.NbrEntries[s] = 0
    /\ Wake(Chain(PendList, s), "DEL")
    /\ Ctr' = [Ctr EXCEPT ![s] = 0]
    /\ IF always THEN Goto(t, "sched") ELSE UNCHANGED pc
    /\ UNCHANGED <<switch, locks, robin, TickCtrPrev, OSTickCtr, isr>>

-----------------------------------------------------------------------------
\* Interrupts.

\* Faulty: the lock is for tasks only.
FaultyOSIntExit(nesting) ==
    IF nesting > 0 THEN UNCHANGED switch
    ELSE SelectHighest(OSPrioTbl', OSRdyList')

\* The end of an interrupt that found the nesting counter at nesting.
OSIntExit(nesting) ==
    IF nesting > 0 \/ OSSchedLockNestingCtr > 0 THEN UNCHANGED switch
    ELSE SelectHighest(OSPrioTbl', OSRdyList')

OS_CPU_SysTickHandler ==
    /\ isr = Null /\ ~pendSV
    /\ isr' = "post" /\ OSIntNestingCtr' = OSIntNestingCtr + 1
    /\ UNCHANGED <<switch, OSSchedLockNestingCtr, ready, robin, wheel, TickCtrPrev, OSTickCtr, Ctr,
                   pends, pc>>

\* A post to a task that does not wait for it is forgotten.
OSTaskSemPost ==
    /\ isr = "post" /\ isr' = "robin"
    /\ IF PendOn[TickTask] = "TASK_SEM" THEN Wake(<<TickTask>>, "OK")
       ELSE UNCHANGED <<ready, wheel, pends>>
    /\ UNCHANGED <<switch, locks, robin, TickCtrPrev, OSTickCtr, Ctr, pc>>

OS_SchedRoundRobin ==
    LET head == OSRdyList.HeadPtr[OSPrioCur]
        left == TimeQuantaCtr[head] - 1
        used == [TimeQuantaCtr EXCEPT ![head] = IF left > 0 THEN left ELSE 0]
    IN  /\ isr = "robin" /\ isr' = "exit"
        /\ IF ~OSSchedRoundRobinEn \/ head \in {Null, IdleTask}
           THEN UNCHANGED <<ready, TimeQuantaCtr>>
           ELSE IF left > 0 \/ OSRdyList.NbrEntries[OSPrioCur] < 2 \/ OSSchedLockNestingCtr > 0
           THEN TimeQuantaCtr' = used /\ UNCHANGED ready
           ELSE Rotate(OSPrioCur, used)
        /\ UNCHANGED <<switch, locks, OSSchedRoundRobinEn, wheel, TickCtrPrev, OSTickCtr, Ctr, pends, pc>>

TickReturns ==
    /\ isr = "exit" /\ isr' = Null
    /\ OSIntNestingCtr' = OSIntNestingCtr - 1
    /\ UNCHANGED <<OSSchedLockNestingCtr, ready, robin, wheel, TickCtrPrev, OSTickCtr, Ctr, pends, pc>>
    /\ OSIntExit(OSIntNestingCtr')

\* Any other interrupt, from OSIntEnter to OSIntExit: nothing interrupts it.
\* It posts to a semaphore.
BSP_IntHandler ==
    /\ \E s \in Sems, all \in BOOLEAN : OS_SemPost(s, all)
    /\ UNCHANGED <<locks, robin, TickCtrPrev, OSTickCtr, isr, pc>>
    /\ OSIntExit(OSIntNestingCtr)

-----------------------------------------------------------------------------
\* What the application owes OSSemCreate, which does not look: os_sem.c promises
\* an error for a semaphore that exists and the function has none.
NobodyWaits(s) == PendList.NbrEntries[s] = 0

Semaphore(t, s) ==
    \/ {"PEND", "PEND_TIMEOUT"} \cap Calls[t] # {} /\ OSSemPend_take(t, s)
    \/ "PEND" \in Calls[t] /\ OSSemPend_block(t, s, 0)
    \/ "PEND_TIMEOUT" \in Calls[t] /\ \E timeout \in Times : OSSemPend_block(t, s, timeout)
    \/ "POST" \in Calls[t] /\ \E all \in BOOLEAN : OSSemPost(t, s, all)
    \/ "SET" \in Calls[t] /\ \E cnt \in 0 .. MaxCtr : OSSemSet(t, s, cnt)
    \/ /\ "CREATE_DEL" \in Calls[t]
       /\ \/ NobodyWaits(s) /\ \E cnt \in 0 .. MaxCtr : OSSemCreate(t, s, cnt)
          \/ \E always \in BOOLEAN : OSSemDel(t, s, always)

AppTask(t) ==
    \/ Delay(t)
    \/ \E s \in Sems : Semaphore(t, s)
    \/ OSSemPend_return(t)
    \/ OSSched(t)
    \/ "LOCK" \in Calls[t] /\ (OSSchedLock(t) \/ OSSchedUnlock(t))
    \/ /\ "ROUND_ROBIN" \in Calls[t]
       /\ \/ OSSchedRoundRobinYield(t)
          \/ \E en \in BOOLEAN : OSSchedRoundRobinCfg(t, en)

OS_TickTask == OSTaskSemPend \/ OS_TickListUpdate \/ OSSched(TickTask)

Interrupts ==
    OS_CPU_SysTickHandler \/ OSTaskSemPost \/ OS_SchedRoundRobin \/ TickReturns \/ BSP_IntHandler

KernelNext == (\E t \in AppTasks : AppTask(t)) \/ OS_TickTask \/ Interrupts \/ OS_CPU_PendSVHandler

KernelSpec == KernelInit /\ [][KernelNext]_kernelVars
-----------------------------------------------------------------------------
Waiting(t) == TaskState[t] \in Pending
Delayed(t) == TickSpokePtr[t] # Null

\* Type invariant.
KTypeOK ==
    /\ OSIntNestingCtr = (IF isr = Null THEN 0 ELSE 1) /\ OSSchedLockNestingCtr \in 0 .. MaxLock
    /\ {OSPrioCur, OSPrioHighRdy} \subseteq Priorities /\ {OSTCBCurPtr, OSTCBHighRdyPtr} \subseteq Tasks
    /\ OSPrioTbl \in Tables
    /\ \A t \in Tasks : TimeQuantaCtr[t] \in 0 .. TimeQuanta
    /\ OSTickCtr \in TickNbrs /\ TickCtrMatch \in [Tasks -> TickNbrs]
    /\ TickCtrPrev \in [Tasks -> TickNbrs] /\ TickSpokePtr \in [Tasks -> Spokes \cup {Null}]
    /\ Ctr \in [Sems -> 0 .. MaxCtr]
    /\ TaskState \in [Tasks -> {"RDY", "DLY"} \cup Pending]
    /\ PendStatus \in [Tasks -> {"OK", "TIMEOUT", "DEL"}]
    /\ PendOn \in [Tasks -> Sems \cup {"NOTHING", "TASK_SEM"}]

\* The lists that hold a task and the fields that say which they are always
\* agree: a task is ready, or in the list of the semaphore it waits for, or on
\* the spoke of its match, or both of these; lists are ordered as the code that
\* stops early when it reads them relies on; and the priority table has the
\* priorities whose list is not empty.
ListsAgree ==
    /\ \A p \in Priorities :
          /\ WellLinked(OSRdyList, p)
          /\ Members(OSRdyList, p) = {t \in Tasks : Prio[t] = p /\ ~Waiting(t) /\ ~Delayed(t)}
          /\ p \in Inserted(OSPrioTbl) <=> OSRdyList.NbrEntries[p] > 0
    /\ \A s \in Sems :
          LET c == Chain(PendList, s) IN
          /\ WellLinked(PendList, s)
          /\ Members(PendList, s) = {t \in Tasks : Waiting(t) /\ PendOn[t] = s}
          /\ \A i, j \in DOMAIN c : i < j => ~Before(c[j], c[i])
    /\ \A k \in Spokes :
          LET c == Chain(OSCfg_TickWheel, k) IN
          /\ WellLinked(OSCfg_TickWheel, k)
          /\ Members(OSCfg_TickWheel, k) = {t \in Tasks : TickSpokePtr[t] = k}
          /\ \A i \in DOMAIN c : Remain(TickCtrMatch[c[i]]) > 0 /\ TaskState[c[i]] \in {"DLY", "PEND_TIMEOUT"}
          /\ \A i, j \in DOMAIN c : i < j => Remain(TickCtrMatch[c[i]]) <= Remain(TickCtrMatch[c[j]])

\* When no interrupt is active and the scheduler is not locked, a task that is
\* not about to call OSSched itself is the first ready one of the highest
\* priority: every wake-up, from a task or from nested interrupts, has reached
\* the scheduler.
HighestRuns ==
    isr = Null /\ ~pendSV /\ OSSchedLockNestingCtr = 0 /\ pc[OSTCBCurPtr] \notin {"sched", "sched_pend"}
        => /\ OSTCBCurPtr = HighRdy
           /\ \A t \in Tasks : Before(t, OSTCBCurPtr) => Waiting(t) \/ Delayed(t)

\* A post is never left in the counter while a task waits for it, whatever
\* timeouts, deletions and interrupts come between.
NoLostWakeup == \A s \in Sems : Ctr[s] > 0 => PendList.NbrEntries[s] = 0

\* While the scheduler is locked no other task runs, however many interrupts
\* wake tasks of higher priority.
LockKeepsTask == [][OSSchedLockNestingCtr > 0 => OSTCBCurPtr' = OSTCBCurPtr]_kernelVars

\* A delay or a timeout ends, whatever else happens on the spokes and at the
\* semaphores.
DelayEnds == \A t \in AppTasks : Delayed(t) ~> ~Delayed(t)

\* The tick interrupt goes on and returns, and PendSV follows; neither the
\* interrupts nor the other tasks keep the tick task, or a task that is about to
\* give the processor away, from it forever; who locks the scheduler unlocks it.
KernelFairness ==
    /\ SF_kernelVars(OS_CPU_SysTickHandler)
    /\ WF_kernelVars(OSTaskSemPost \/ OS_SchedRoundRobin \/ TickReturns \/ OS_CPU_PendSVHandler)
    /\ SF_kernelVars(OS_TickTask)
    /\ SF_kernelVars(\E t \in AppTasks : OSSchedUnlock(t) \/ OSSched(t))

KernelFairSpec == KernelSpec /\ KernelFairness

\* To its callers the kernel is KernelService: a delay is a number that every
\* tick takes one from, a semaphore a number and a queue.
Queues == [s \in Sems |-> Chain(PendList, s)]
TicksLeft == [t \in AppTasks |-> IF Delayed(t) THEN Remain(TickCtrMatch[t]) ELSE 0]
Results == [t \in AppTasks |-> PendStatus[t]]

Service == INSTANCE KernelService WITH
    Callers <- AppTasks, Limit <- TickMod - 1,
    tokens <- Ctr, queue <- Queues, left <- TicksLeft, result <- Results

\* What a task can see of its delays and of the semaphores is what KernelService
\* promises.
ImplementsService == Service!ServiceSpec
=============================================================================

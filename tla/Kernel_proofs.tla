---------------------------- MODULE Kernel_proofs ----------------------------
(***************************************************************************)
(* Results about the kernel, for any number of tasks, priorities and       *)
(* semaphores, any tick wheel and any delays.  The priority table of       *)
(* os_prio.c is a set, and OS_PrioGetHighest its least element, although   *)
(* it looks at words first and at bits second.  A task that locks the      *)
(* scheduler keeps the processor.  And KInv, the inductive invariant from  *)
(* which the invariants of the runs follow:                                *)
(*                                                                         *)
(*   ListsInv     each task is where its fields say: in the ready list of  *)
(*                its priority, in the pend list of what it waits for, on  *)
(*                the spoke of its match; each list is linked both ways    *)
(*                and in its order; the table has the priorities of the    *)
(*                ready tasks                                              *)
(*   SemsInv      nobody waits for a semaphore that is free or deleted     *)
(*   SwitchInv    the task that PendSV would switch to is the first ready  *)
(*                one, and so is the one that runs, unless it is about to  *)
(*                call the scheduler; no switch is pending in an interrupt *)
(*                or while the scheduler is locked                         *)
(*   CountsTyped  the numbers are in range                                 *)
(*                                                                         *)
(* A spoke is in the order of what is left until the matches, modulo       *)
(* TickMod.  It stays so when the clock moves because every task that      *)
(* would go round, from nothing left to TickMod - 1, is taken off in the   *)
(* critical section that moves it (ExpiredAreDue, OneTickLess).            *)
(*                                                                         *)
(* The last part is the refinement: every step, seen through the queues    *)
(* that the pointers spell and the ticks that are left, is a step of       *)
(* KernelService or none.                                                  *)
(***************************************************************************)
EXTENDS Kernel, TaskLists_proofs

-----------------------------------------------------------------------------
\* The priority table.

Width == DEF_INT_CPU_NBR_BITS

\* A number is its word and its bit, and these are in range.
LEMMA Digits ==
  ASSUME NEW n \in Nat
  PROVE  /\ n \div Width \in Nat /\ n % Width \in Bits
         /\ n = ((n \div Width) * Width) + (n % Width)
BY PrioAssumption DEF Width, Bits

\* Any word and bit are those of the number they make.
LEMMA DigitsUnique ==
  ASSUME NEW ix \in Nat, NEW bit \in Bits
  PROVE  /\ (ix * Width + bit) \in Nat
         /\ (ix * Width + bit) \div Width = ix /\ (ix * Width + bit) % Width = bit
BY PrioAssumption, Z3 DEF Width, Bits

\* The word decides before the bit does.
LEMMA DigitsOrder ==
  ASSUME NEW ix \in Nat, NEW jx \in Nat, NEW x \in Bits, NEW y \in Bits, ix < jx
  PROVE  ix * Width + x < jx * Width + y
BY PrioAssumption, Z3 DEF Width, Bits

\* Numbers with the same word and bit are equal.
LEMMA DigitsEqual ==
  ASSUME NEW p \in Nat, NEW q \in Nat, p \div Width = q \div Width, p % Width = q % Width
  PROVE  p = q
BY Digits

\* The word and the bit of a priority are in the table.
LEMMA WordOfPriority ==
  ASSUME NEW p \in Priorities
  PROVE  p \in Nat /\ p \div Width \in WordNbrs /\ p % Width \in Bits
<1> DEFINE last == OS_CFG_PRIO_MAX - 1
<1>1. p \in Nat /\ last \in Nat /\ p <= last
  BY PrioAssumption DEF Priorities
<1>2. p \div Width \in Nat /\ p % Width \in Bits /\ p = ((p \div Width) * Width) + (p % Width)
  BY <1>1, Digits
<1>3. last \div Width \in Nat /\ last % Width \in Bits /\ last = ((last \div Width) * Width) + (last % Width)
  BY <1>1, Digits
<1>4. ~(last \div Width < p \div Width)
  <2> SUFFICES ASSUME last \div Width < p \div Width PROVE FALSE
    OBVIOUS
  <2>1. ((last \div Width) * Width) + (last % Width) < ((p \div Width) * Width) + (p % Width)
    BY <1>2, <1>3, DigitsOrder
  <2> QED BY <1>1, <1>2, <1>3, <2>1
<1>5. p \div Width \in 0 .. last \div Width
  BY <1>2, <1>3, <1>4
<1> QED BY <1>1, <1>2, <1>5 DEF WordNbrs, Width

-----------------------------------------------------------------------------
(***************************************************************************)
(* OS_PrioInsert and OS_PrioRemove change one priority and no other, also  *)
(* at the first and the last bit of a word.                                *)
(***************************************************************************)
THEOREM TableIsSet ==
  ASSUME NEW tbl \in Tables, NEW prio \in Priorities
  PROVE  /\ OS_PrioInsert(tbl, prio) \in Tables
         /\ OS_PrioRemove(tbl, prio) \in Tables
         /\ Inserted(OS_PrioInsert(tbl, prio)) = Inserted(tbl) \cup {prio}
         /\ Inserted(OS_PrioRemove(tbl, prio)) = Inserted(tbl) \ {prio}
<1> DEFINE ix == prio \div Width
           bit == prio % Width
           more == [tbl EXCEPT ![ix] = @ \cup {bit}]
           less == [tbl EXCEPT ![ix] = @ \ {bit}]
<1>1. ix \in WordNbrs /\ bit \in Bits
  BY WordOfPriority
<1>2. OS_PrioInsert(tbl, prio) = more /\ OS_PrioRemove(tbl, prio) = less
  BY DEF OS_PrioInsert, OS_PrioRemove, Width
<1>3. more \in Tables /\ less \in Tables
  BY <1>1 DEF Tables
<1>4. ASSUME NEW q \in Priorities
      PROVE  /\ (q % Width \in more[q \div Width]) <=> (q % Width \in tbl[q \div Width] \/ q = prio)
             /\ (q % Width \in less[q \div Width]) <=> (q % Width \in tbl[q \div Width] /\ q # prio)
  <2>1. q \div Width \in WordNbrs /\ (q = prio <=> (q \div Width = ix /\ q % Width = bit))
    BY WordOfPriority, DigitsEqual
  <2>2. CASE q \div Width = ix
    BY <1>1, <2>1, <2>2 DEF Tables
  <2>3. CASE q \div Width # ix
    BY <1>1, <2>1, <2>3 DEF Tables
  <2> QED BY <2>2, <2>3
<1> HIDE DEF more, less
<1> QED BY <1>2, <1>3, <1>4 DEF Inserted, Width

(***************************************************************************)
(* OS_PrioGetHighest returns the least priority of the table: the task the *)
(* scheduler takes is one of the highest priority among the ready ones.    *)
(***************************************************************************)
THEOREM HighestIsLeast ==
  ASSUME NEW tbl \in Tables, Inserted(tbl) # {}
  PROVE  /\ OS_PrioGetHighest(tbl) \in Inserted(tbl)
         /\ \A q \in Inserted(tbl) : OS_PrioGetHighest(tbl) <= q
<1> DEFINE words == {ix \in WordNbrs : tbl[ix] # {}}
           first == FirstWord(tbl)
           bit == CPU_CntLeadZeros(tbl[first])
<1>1. ASSUME NEW q \in Inserted(tbl)
      PROVE  q \in Priorities /\ q \in Nat /\ q \div Width \in words /\ q % Width \in tbl[q \div Width]
  BY WordOfPriority DEF Inserted, Width
<1>2. WordNbrs \subseteq Nat /\ Bits \subseteq Nat
  BY DEF WordNbrs, Bits
<1>3. first \in words /\ \A ix \in words : first <= ix
  <2>1. words # {} /\ words \in SUBSET Nat
    BY <1>1, <1>2
  <2>2. PICK ix \in words : \A jx \in words : ix <= jx
    BY <2>1, LeastNumber
  <2>3. ASSUME NEW jx \in WordNbrs, jx < ix PROVE tbl[jx] = {}
    <3>1. jx \in Nat /\ ix \in Nat /\ ~(ix <= jx)
      BY <1>2, <2>3
    <3> QED BY <2>2, <3>1
  <2>4. first \in WordNbrs /\ tbl[first] # {} /\ \A jx \in WordNbrs : jx < first => tbl[jx] = {}
    BY <2>2, <2>3 DEF FirstWord
  <2>5. ASSUME NEW jx \in words PROVE first <= jx
    <3>1. jx \in Nat /\ first \in Nat /\ ~(jx < first)
      BY <1>2, <2>4
    <3> QED BY <3>1
  <2> QED BY <2>4, <2>5
<1>4. bit \in tbl[first] /\ \A x \in tbl[first] : bit <= x
  <2>1. tbl[first] # {} /\ tbl[first] \in SUBSET Nat
    BY <1>2, <1>3 DEF Tables
  <2>2. \E n \in tbl[first] : \A x \in tbl[first] : n <= x
    BY <2>1, LeastNumber
  <2> HIDE DEF first
  <2> QED BY <2>2 DEF CPU_CntLeadZeros
<1>5. OS_PrioGetHighest(tbl) = (first * Width) + bit
  BY DEF OS_PrioGetHighest, Width
<1>6. first \in Nat /\ bit \in Bits
  BY <1>2, <1>3, <1>4 DEF Tables
<1> HIDE DEF first, bit
<1>7. ASSUME NEW q \in Inserted(tbl) PROVE (first * Width) + bit <= q
  <2>1. q \div Width \in Nat /\ q % Width \in Bits /\ q = ((q \div Width) * Width) + (q % Width) /\ first <= q \div Width
    BY <1>1, <1>3, Digits
  <2>2. CASE first < q \div Width
    <3>1. (first * Width) + bit < ((q \div Width) * Width) + (q % Width)
      BY <1>6, <2>1, <2>2, DigitsOrder
    <3> QED BY <1>1, <1>6, <2>1, <3>1, DigitsUnique
  <2>3. CASE first = q \div Width
    <3>1. bit <= q % Width
      BY <1>1, <1>4, <2>3
    <3>2. Width \in Nat /\ bit \in Nat /\ q % Width \in Nat /\ q = (first * Width) + (q % Width)
      BY <1>2, <1>6, <2>1, <2>3, PrioAssumption DEF Width
    <3> QED BY <1>6, <3>1, <3>2
  <2> QED BY <1>6, <2>1, <2>2, <2>3
<1>8. (first * Width) + bit \in Inserted(tbl)
  <2>1. PICK q \in Inserted(tbl) : TRUE
    OBVIOUS
  <2>2. /\ (first * Width) + bit \in Nat
        /\ ((first * Width) + bit) \div Width = first /\ ((first * Width) + bit) % Width = bit
    BY <1>6, DigitsUnique
  <2>3. (first * Width) + bit \in Priorities
    BY <1>1, <1>7, <2>1, <2>2, PrioAssumption DEF Priorities
  <2> QED BY <1>4, <2>2, <2>3 DEF Inserted, Width
<1> QED BY <1>5, <1>7, <1>8

-----------------------------------------------------------------------------
NoSwitchPending ==
    /\ OSSchedLockNestingCtr \in Nat
    /\ OSSchedLockNestingCtr > 0 => ~pendSV

\* What a call that neither locks nor schedules leaves alone.
lockVars == <<OSSchedLockNestingCtr, pendSV, OSTCBCurPtr>>

\* At the start the scheduler is not locked.
LEMMA InitNoSwitchPending == KernelInit => NoSwitchPending
BY DEF KernelInit, NoSwitchPending

\* The end of an interrupt asks for no switch while the scheduler is locked,
LEMMA ExitKeepsTask ==
    ASSUME NEW n, OSIntExit(n), UNCHANGED OSSchedLockNestingCtr, NoSwitchPending
    PROVE  NoSwitchPending' /\ (OSSchedLockNestingCtr > 0 => OSTCBCurPtr' = OSTCBCurPtr)
BY DEF OSIntExit, NoSwitchPending, SelectHighest, switch

\* nor does OSSched,
LEMMA SchedKeepsTask ==
    ASSUME NEW t, OSSched(t), NoSwitchPending
    PROVE  NoSwitchPending' /\ (OSSchedLockNestingCtr > 0 => OSTCBCurPtr' = OSTCBCurPtr)
BY DEF OSSched, NoSwitchPending, SelectHighest, switch, locks

\* A call of a task, for each kind of call.
LEMMA TaskKeepsTask ==
    ASSUME NEW t \in AppTasks, AppTask(t), NoSwitchPending
    PROVE  NoSwitchPending' /\ (OSSchedLockNestingCtr > 0 => OSTCBCurPtr' = OSTCBCurPtr)
<1>1. CASE OSSched(t)
  BY <1>1, SchedKeepsTask
<1>2. CASE OSSchedLock(t) \/ OSSchedUnlock(t)
  BY <1>2 DEF OSSchedLock, OSSchedUnlock, NoSwitchPending, Running, switch
<1>3. CASE Delay(t)
  <2>1. UNCHANGED lockVars
    BY <1>3 DEF Delay, OSTimeDly, OSTimeDly_zero, lockVars, switch, locks
  <2> QED BY <2>1 DEF lockVars, NoSwitchPending
<1>4. CASE \E s \in Sems : Semaphore(t, s)
  <2>1. UNCHANGED lockVars
    BY <1>4 DEF Semaphore, OSSemPend_take, OSSemPend_block, OSSemPost, OSSemSet, OSSemCreate,
                OSSemDel, lockVars, switch, locks
  <2> QED BY <2>1 DEF lockVars, NoSwitchPending
<1>5. CASE OSSemPend_return(t)
  BY <1>5 DEF OSSemPend_return, NoSwitchPending, switch, locks
<1>6. CASE OSSchedRoundRobinYield(t) \/ \E en \in BOOLEAN : OSSchedRoundRobinCfg(t, en)
  BY <1>6 DEF OSSchedRoundRobinYield, OSSchedRoundRobinCfg, NoSwitchPending, switch, locks
<1> QED
  BY <1>1, <1>2, <1>3, <1>4, <1>5, <1>6 DEF AppTask

\* nor any other step.
LEMMA StepKeepsTask ==
    ASSUME NoSwitchPending, [KernelNext]_kernelVars
    PROVE  NoSwitchPending' /\ (OSSchedLockNestingCtr > 0 => OSTCBCurPtr' = OSTCBCurPtr)
<1>1. CASE \E t \in AppTasks : AppTask(t)
  BY <1>1, TaskKeepsTask
<1>2. CASE OS_TickTask
  <2>1. CASE OSTaskSemPend \/ OS_TickListUpdate
    BY <2>1 DEF OSTaskSemPend, OS_TickListUpdate, NoSwitchPending, switch, locks
  <2> QED BY <1>2, <2>1, SchedKeepsTask DEF OS_TickTask
<1>3. CASE OS_CPU_SysTickHandler \/ OSTaskSemPost \/ OS_SchedRoundRobin
  BY <1>3 DEF OS_CPU_SysTickHandler, OSTaskSemPost, OS_SchedRoundRobin, NoSwitchPending, switch, locks
<1>4. CASE TickReturns
  BY <1>4, ExitKeepsTask DEF TickReturns
<1>5. CASE BSP_IntHandler
  BY <1>5, ExitKeepsTask DEF BSP_IntHandler, locks
<1>6. CASE OS_CPU_PendSVHandler
  BY <1>6 DEF OS_CPU_PendSVHandler, NoSwitchPending, locks
<1>7. CASE UNCHANGED kernelVars
  BY <1>7 DEF kernelVars, switch, locks, NoSwitchPending
<1> QED
  BY <1>1, <1>2, <1>3, <1>4, <1>5, <1>6, <1>7 DEF KernelNext, Interrupts

(***************************************************************************)
(* While the scheduler is locked no other task runs (OSSchedLock,          *)
(* OSIntExit, OSSched), whatever interrupts come and whatever they post.   *)
(***************************************************************************)
THEOREM KernelLockKeepsTask == KernelSpec => LockKeepsTask
<1>1. NoSwitchPending /\ [KernelNext]_kernelVars => NoSwitchPending'
  BY StepKeepsTask
<1>2. KernelSpec => []NoSwitchPending
  BY <1>1, InitNoSwitchPending, PTL DEF KernelSpec
<1>3. NoSwitchPending /\ [KernelNext]_kernelVars
        => [OSSchedLockNestingCtr > 0 => OSTCBCurPtr' = OSTCBCurPtr]_kernelVars
  BY StepKeepsTask
<1> QED
  BY <1>2, <1>3, PTL DEF KernelSpec, LockKeepsTask

-----------------------------------------------------------------------------
\* Several tasks in a row.

\* The folds of the model, one by one: tasks leave the pend lists,
LEMMA PendListFold ==
  ASSUME NEW V, PendList \in V, NEW n \in Nat, NEW ts \in [1 .. n -> Tasks],
         \A h \in V, t \in Tasks : PendOn[t] \in Sems => Unlink(h, PendOn[t], t) \in V
  PROVE  \E a \in [0 .. n -> V] :
            /\ a[0] = PendList /\ a[n] = OS_PendListRemove(ts)
            /\ \A k \in 1 .. n : a[k] = (IF PendOn[ts[k]] \in Sems THEN Unlink(a[k - 1], PendOn[ts[k]], ts[k]) ELSE a[k - 1])
<1> DEFINE F == [k \in 1 .. n |-> [h \in V |-> (IF PendOn[ts[k]] \in Sems THEN Unlink(h, PendOn[ts[k]], ts[k]) ELSE h)]]
           Body(it) == [s \in SUBSET (1 .. n) |->
                          IF s = {} THEN PendList
                          ELSE (IF PendOn[ts[Max(s)]] \in Sems THEN Unlink(it[s \ {Max(s)}], PendOn[ts[Max(s)]], ts[Max(s)]) ELSE it[s \ {Max(s)}])]
           that == CHOOSE it : it = Body(it)
<1>1. F \in [1 .. n -> [V -> V]]
  OBVIOUS
<1>2. PICK it \in [SUBSET (1 .. n) -> V] :
        \A s \in SUBSET (1 .. n) : it[s] = IF s = {} THEN PendList ELSE F[Max(s)][it[s \ {Max(s)}]]
  <2> HIDE DEF F
  <2>1. FoldsOf(V, PendList, n, F) # {}
    BY <1>1, FoldExists
  <2> QED BY <2>1 DEF FoldsOf
<1>3. ASSUME NEW s \in SUBSET (1 .. n), s # {}, NEW h \in V
      PROVE  F[Max(s)][h] = (IF PendOn[ts[Max(s)]] \in Sems THEN Unlink(h, PendOn[ts[Max(s)]], ts[Max(s)]) ELSE h)
  <2>1. Max(s) \in 1 .. n
    BY <1>3, GreatestNumber
  <2> QED BY <2>1
<1>4. it = Body(it)
  <2>1. it = [s \in SUBSET (1 .. n) |-> it[s]]
    OBVIOUS
  <2>2. \A s \in SUBSET (1 .. n) : it[s] = Body(it)[s]
    <3> HIDE DEF F
    <3> QED BY <1>2, <1>3
  <2> QED BY <2>1, <2>2
<1>5. that = Body(that)
  <2> HIDE DEF Body
  <2> QED BY <1>4
<1>6. OS_PendListRemove(ts) = that[1 .. n]
  <2>1. DOMAIN ts = 1 .. n
    OBVIOUS
  <2> QED BY <2>1 DEF OS_PendListRemove, FoldLeft, MapThenFoldSet
<1>7. \A s \in SUBSET (1 .. n) :
        that[s] = IF s = {} THEN PendList ELSE (IF PendOn[ts[Max(s)]] \in Sems THEN Unlink(that[s \ {Max(s)}], PendOn[ts[Max(s)]], ts[Max(s)]) ELSE that[s \ {Max(s)}])
  <2> HIDE DEF that
  <2> QED BY <1>5
<1> HIDE DEF that
<1>8. that[{}] = PendList
  <2>1. {} \in SUBSET (1 .. n)
    OBVIOUS
  <2> QED BY <1>7, <2>1
<1>9. \A s \in SUBSET (1 .. n) : s # {} /\ that[s \ {Max(s)}] \in V
                                   => that[s] = F[Max(s)][that[s \ {Max(s)}]]
  <2> HIDE DEF F
  <2> QED BY <1>3, <1>7
<1>10. PICK a \in [0 .. n -> V] : /\ a[0] = PendList /\ a[n] = that[1 .. n]
                                  /\ \A k \in 1 .. n : a[k] = F[k][a[k - 1]]
  <2> HIDE DEF F
  <2>1. Traces(V, PendList, n, F, that[1 .. n]) # {}
    <3>1. IsFold(that, V, PendList, n, F)
      BY <1>8, <1>9 DEF IsFold
    <3> QED BY <1>1, <3>1, FoldTrace
  <2> QED BY <2>1 DEF Traces
<1>11. ASSUME NEW k \in 1 .. n PROVE a[k] = (IF PendOn[ts[k]] \in Sems THEN Unlink(a[k - 1], PendOn[ts[k]], ts[k]) ELSE a[k - 1])
  <2>1. a[k - 1] \in V
    OBVIOUS
  <2>2. a[k] = F[k][a[k - 1]]
    BY <1>10
  <2> QED BY <2>1, <2>2
<1> QED BY <1>6, <1>10, <1>11

TickTraces(V, ts, n) ==
    {a \in [0 .. n -> V] :
        /\ a[0] = OSCfg_TickWheel /\ a[n] = OS_TickListRemove(ts)
        /\ \A k \in 1 .. n : a[k] = (IF TickSpokePtr[ts[k]] = Null THEN a[k - 1]
                                     ELSE Unlink(a[k - 1], TickSpokePtr[ts[k]], ts[k]))}

\* tasks leave the wheel,
LEMMA TickListFold ==
  ASSUME NEW V, OSCfg_TickWheel \in V, NEW n \in Nat, NEW ts \in [1 .. n -> Tasks],
         TickSpokePtr \in [Tasks -> Spokes \cup {Null}],
         \A h \in V, l \in Spokes, t \in Tasks : Unlink(h, l, t) \in V
  PROVE  TickTraces(V, ts, n) # {}
<1> DEFINE F == [k \in 1 .. n |-> [h \in V |-> (IF TickSpokePtr[ts[k]] = Null THEN h ELSE Unlink(h, TickSpokePtr[ts[k]], ts[k]))]]
           Body(it) == [s \in SUBSET (1 .. n) |->
                          IF s = {} THEN OSCfg_TickWheel
                          ELSE (IF TickSpokePtr[ts[Max(s)]] = Null THEN it[s \ {Max(s)}] ELSE Unlink(it[s \ {Max(s)}], TickSpokePtr[ts[Max(s)]], ts[Max(s)]))]
           that == CHOOSE it : it = Body(it)
<1>1. F \in [1 .. n -> [V -> V]]
  OBVIOUS
<1>2. PICK it \in [SUBSET (1 .. n) -> V] :
        \A s \in SUBSET (1 .. n) : it[s] = IF s = {} THEN OSCfg_TickWheel ELSE F[Max(s)][it[s \ {Max(s)}]]
  <2> HIDE DEF F
  <2>1. FoldsOf(V, OSCfg_TickWheel, n, F) # {}
    BY <1>1, FoldExists
  <2> QED BY <2>1 DEF FoldsOf
<1>3. ASSUME NEW s \in SUBSET (1 .. n), s # {}, NEW h \in V
      PROVE  F[Max(s)][h] = (IF TickSpokePtr[ts[Max(s)]] = Null THEN h ELSE Unlink(h, TickSpokePtr[ts[Max(s)]], ts[Max(s)]))
  <2>1. Max(s) \in 1 .. n
    BY <1>3, GreatestNumber
  <2> QED BY <2>1
<1>4. it = Body(it)
  <2>1. it = [s \in SUBSET (1 .. n) |-> it[s]]
    OBVIOUS
  <2>2. \A s \in SUBSET (1 .. n) : it[s] = Body(it)[s]
    <3> HIDE DEF F
    <3> QED BY <1>2, <1>3
  <2> QED BY <2>1, <2>2
<1>5. that = Body(that)
  <2> HIDE DEF Body
  <2> QED BY <1>4
<1>6. OS_TickListRemove(ts) = that[1 .. n]
  <2>1. DOMAIN ts = 1 .. n
    OBVIOUS
  <2> QED BY <2>1 DEF OS_TickListRemove, FoldLeft, MapThenFoldSet
<1>7. \A s \in SUBSET (1 .. n) :
        that[s] = IF s = {} THEN OSCfg_TickWheel ELSE (IF TickSpokePtr[ts[Max(s)]] = Null THEN that[s \ {Max(s)}] ELSE Unlink(that[s \ {Max(s)}], TickSpokePtr[ts[Max(s)]], ts[Max(s)]))
  <2> HIDE DEF that
  <2> QED BY <1>5
<1> HIDE DEF that
<1>8. that[{}] = OSCfg_TickWheel
  <2>1. {} \in SUBSET (1 .. n)
    OBVIOUS
  <2> QED BY <1>7, <2>1
<1>9. \A s \in SUBSET (1 .. n) : s # {} /\ that[s \ {Max(s)}] \in V
                                   => that[s] = F[Max(s)][that[s \ {Max(s)}]]
  <2> HIDE DEF F
  <2> QED BY <1>3, <1>7
<1>10. PICK a \in [0 .. n -> V] : /\ a[0] = OSCfg_TickWheel /\ a[n] = that[1 .. n]
                                  /\ \A k \in 1 .. n : a[k] = F[k][a[k - 1]]
  <2> HIDE DEF F
  <2>1. Traces(V, OSCfg_TickWheel, n, F, that[1 .. n]) # {}
    <3>1. IsFold(that, V, OSCfg_TickWheel, n, F)
      BY <1>8, <1>9 DEF IsFold
    <3> QED BY <1>1, <3>1, FoldTrace
  <2> QED BY <2>1 DEF Traces
<1>11. ASSUME NEW k \in 1 .. n PROVE a[k] = (IF TickSpokePtr[ts[k]] = Null THEN a[k - 1] ELSE Unlink(a[k - 1], TickSpokePtr[ts[k]], ts[k]))
  <2>1. a[k - 1] \in V
    OBVIOUS
  <2>2. a[k] = F[k][a[k - 1]]
    BY <1>10
  <2> QED BY <2>1, <2>2
<1>12. a \in TickTraces(V, ts, n)
  BY <1>6, <1>10, <1>11 DEF TickTraces
<1> QED BY <1>12

\* tasks enter the ready lists
LEMMA ReadyFold ==
  ASSUME NEW V, OSRdyList \in V, NEW n \in Nat, NEW ts \in [1 .. n -> Tasks],
         \A h \in V, t \in Tasks : OS_RdyListInsert(h, t) \in V
  PROVE  \E a \in [0 .. n -> V] :
            /\ a[0] = OSRdyList /\ a[n] = ReadyWith(ts)
            /\ \A k \in 1 .. n : a[k] = OS_RdyListInsert(a[k - 1], ts[k])
<1> DEFINE F == [k \in 1 .. n |-> [h \in V |-> OS_RdyListInsert(h, ts[k])]]
           Body(it) == [s \in SUBSET (1 .. n) |->
                          IF s = {} THEN OSRdyList
                          ELSE OS_RdyListInsert(it[s \ {Max(s)}], ts[Max(s)])]
           that == CHOOSE it : it = Body(it)
<1>1. F \in [1 .. n -> [V -> V]]
  OBVIOUS
<1>2. PICK it \in [SUBSET (1 .. n) -> V] :
        \A s \in SUBSET (1 .. n) : it[s] = IF s = {} THEN OSRdyList ELSE F[Max(s)][it[s \ {Max(s)}]]
  <2> HIDE DEF F
  <2>1. FoldsOf(V, OSRdyList, n, F) # {}
    BY <1>1, FoldExists
  <2> QED BY <2>1 DEF FoldsOf
<1>3. ASSUME NEW s \in SUBSET (1 .. n), s # {}, NEW h \in V
      PROVE  F[Max(s)][h] = OS_RdyListInsert(h, ts[Max(s)])
  <2>1. Max(s) \in 1 .. n
    BY <1>3, GreatestNumber
  <2> QED BY <2>1
<1>4. it = Body(it)
  <2>1. it = [s \in SUBSET (1 .. n) |-> it[s]]
    OBVIOUS
  <2>2. \A s \in SUBSET (1 .. n) : it[s] = Body(it)[s]
    <3> HIDE DEF F
    <3> QED BY <1>2, <1>3
  <2> QED BY <2>1, <2>2
<1>5. that = Body(that)
  <2> HIDE DEF Body
  <2> QED BY <1>4
<1>6. ReadyWith(ts) = that[1 .. n]
  <2>1. DOMAIN ts = 1 .. n
    OBVIOUS
  <2> QED BY <2>1 DEF ReadyWith, FoldLeft, MapThenFoldSet
<1>7. \A s \in SUBSET (1 .. n) :
        that[s] = IF s = {} THEN OSRdyList ELSE OS_RdyListInsert(that[s \ {Max(s)}], ts[Max(s)])
  <2> HIDE DEF that
  <2> QED BY <1>5
<1> HIDE DEF that
<1>8. that[{}] = OSRdyList
  <2>1. {} \in SUBSET (1 .. n)
    OBVIOUS
  <2> QED BY <1>7, <2>1
<1>9. \A s \in SUBSET (1 .. n) : s # {} /\ that[s \ {Max(s)}] \in V
                                   => that[s] = F[Max(s)][that[s \ {Max(s)}]]
  <2> HIDE DEF F
  <2> QED BY <1>3, <1>7
<1>10. PICK a \in [0 .. n -> V] : /\ a[0] = OSRdyList /\ a[n] = that[1 .. n]
                                  /\ \A k \in 1 .. n : a[k] = F[k][a[k - 1]]
  <2> HIDE DEF F
  <2>1. Traces(V, OSRdyList, n, F, that[1 .. n]) # {}
    <3>1. IsFold(that, V, OSRdyList, n, F)
      BY <1>8, <1>9 DEF IsFold
    <3> QED BY <1>1, <3>1, FoldTrace
  <2> QED BY <2>1 DEF Traces
<1>11. ASSUME NEW k \in 1 .. n PROVE a[k] = OS_RdyListInsert(a[k - 1], ts[k])
  <2>1. a[k - 1] \in V
    OBVIOUS
  <2>2. a[k] = F[k][a[k - 1]]
    BY <1>10
  <2> QED BY <2>1, <2>2
<1> QED BY <1>6, <1>10, <1>11

\* and their priorities the table,
LEMMA TableFold ==
  ASSUME NEW V, OSPrioTbl \in V, NEW n \in Nat, NEW ts \in [1 .. n -> Tasks],
         \A h \in V, t \in Tasks : OS_PrioInsert(h, Prio[t]) \in V
  PROVE  \E a \in [0 .. n -> V] :
            /\ a[0] = OSPrioTbl /\ a[n] = TableWith(ts)
            /\ \A k \in 1 .. n : a[k] = OS_PrioInsert(a[k - 1], Prio[ts[k]])
<1> DEFINE F == [k \in 1 .. n |-> [h \in V |-> OS_PrioInsert(h, Prio[ts[k]])]]
           Body(it) == [s \in SUBSET (1 .. n) |->
                          IF s = {} THEN OSPrioTbl
                          ELSE OS_PrioInsert(it[s \ {Max(s)}], Prio[ts[Max(s)]])]
           that == CHOOSE it : it = Body(it)
<1>1. F \in [1 .. n -> [V -> V]]
  OBVIOUS
<1>2. PICK it \in [SUBSET (1 .. n) -> V] :
        \A s \in SUBSET (1 .. n) : it[s] = IF s = {} THEN OSPrioTbl ELSE F[Max(s)][it[s \ {Max(s)}]]
  <2> HIDE DEF F
  <2>1. FoldsOf(V, OSPrioTbl, n, F) # {}
    BY <1>1, FoldExists
  <2> QED BY <2>1 DEF FoldsOf
<1>3. ASSUME NEW s \in SUBSET (1 .. n), s # {}, NEW h \in V
      PROVE  F[Max(s)][h] = OS_PrioInsert(h, Prio[ts[Max(s)]])
  <2>1. Max(s) \in 1 .. n
    BY <1>3, GreatestNumber
  <2> QED BY <2>1
<1>4. it = Body(it)
  <2>1. it = [s \in SUBSET (1 .. n) |-> it[s]]
    OBVIOUS
  <2>2. \A s \in SUBSET (1 .. n) : it[s] = Body(it)[s]
    <3> HIDE DEF F
    <3> QED BY <1>2, <1>3
  <2> QED BY <2>1, <2>2
<1>5. that = Body(that)
  <2> HIDE DEF Body
  <2> QED BY <1>4
<1>6. TableWith(ts) = that[1 .. n]
  <2>1. DOMAIN ts = 1 .. n
    OBVIOUS
  <2> QED BY <2>1 DEF TableWith, FoldLeft, MapThenFoldSet
<1>7. \A s \in SUBSET (1 .. n) :
        that[s] = IF s = {} THEN OSPrioTbl ELSE OS_PrioInsert(that[s \ {Max(s)}], Prio[ts[Max(s)]])
  <2> HIDE DEF that
  <2> QED BY <1>5
<1> HIDE DEF that
<1>8. that[{}] = OSPrioTbl
  <2>1. {} \in SUBSET (1 .. n)
    OBVIOUS
  <2> QED BY <1>7, <2>1
<1>9. \A s \in SUBSET (1 .. n) : s # {} /\ that[s \ {Max(s)}] \in V
                                   => that[s] = F[Max(s)][that[s \ {Max(s)}]]
  <2> HIDE DEF F
  <2> QED BY <1>3, <1>7
<1>10. PICK a \in [0 .. n -> V] : /\ a[0] = OSPrioTbl /\ a[n] = that[1 .. n]
                                  /\ \A k \in 1 .. n : a[k] = F[k][a[k - 1]]
  <2> HIDE DEF F
  <2>1. Traces(V, OSPrioTbl, n, F, that[1 .. n]) # {}
    <3>1. IsFold(that, V, OSPrioTbl, n, F)
      BY <1>8, <1>9 DEF IsFold
    <3> QED BY <1>1, <3>1, FoldTrace
  <2> QED BY <2>1 DEF Traces
<1>11. ASSUME NEW k \in 1 .. n PROVE a[k] = OS_PrioInsert(a[k - 1], Prio[ts[k]])
  <2>1. a[k - 1] \in V
    OBVIOUS
  <2>2. a[k] = F[k][a[k - 1]]
    BY <1>10
  <2> QED BY <2>1, <2>2
<1> QED BY <1>6, <1>10, <1>11

\* and the same when the tasks are created.
LEMMA CreatedListsFold ==
  ASSUME NEW V, EmptyLists(Priorities) \in V, NEW n \in Nat, NEW ts \in [1 .. n -> Tasks],
         \A h \in V, t \in Tasks : InsertTail(h, Prio[t], t) \in V
  PROVE  \E a \in [0 .. n -> V] :
            /\ a[0] = EmptyLists(Priorities) /\ a[n] = CreatedLists(ts)
            /\ \A k \in 1 .. n : a[k] = InsertTail(a[k - 1], Prio[ts[k]], ts[k])
<1> DEFINE F == [k \in 1 .. n |-> [h \in V |-> InsertTail(h, Prio[ts[k]], ts[k])]]
           Body(it) == [s \in SUBSET (1 .. n) |->
                          IF s = {} THEN EmptyLists(Priorities)
                          ELSE InsertTail(it[s \ {Max(s)}], Prio[ts[Max(s)]], ts[Max(s)])]
           that == CHOOSE it : it = Body(it)
<1>1. F \in [1 .. n -> [V -> V]]
  OBVIOUS
<1>2. PICK it \in [SUBSET (1 .. n) -> V] :
        \A s \in SUBSET (1 .. n) : it[s] = IF s = {} THEN EmptyLists(Priorities) ELSE F[Max(s)][it[s \ {Max(s)}]]
  <2> HIDE DEF F
  <2>1. FoldsOf(V, EmptyLists(Priorities), n, F) # {}
    BY <1>1, FoldExists
  <2> QED BY <2>1 DEF FoldsOf
<1>3. ASSUME NEW s \in SUBSET (1 .. n), s # {}, NEW h \in V
      PROVE  F[Max(s)][h] = InsertTail(h, Prio[ts[Max(s)]], ts[Max(s)])
  <2>1. Max(s) \in 1 .. n
    BY <1>3, GreatestNumber
  <2> QED BY <2>1
<1>4. it = Body(it)
  <2>1. it = [s \in SUBSET (1 .. n) |-> it[s]]
    OBVIOUS
  <2>2. \A s \in SUBSET (1 .. n) : it[s] = Body(it)[s]
    <3> HIDE DEF F
    <3> QED BY <1>2, <1>3
  <2> QED BY <2>1, <2>2
<1>5. that = Body(that)
  <2> HIDE DEF Body
  <2> QED BY <1>4
<1>6. CreatedLists(ts) = that[1 .. n]
  <2>1. DOMAIN ts = 1 .. n
    OBVIOUS
  <2> QED BY <2>1 DEF CreatedLists, FoldLeft, MapThenFoldSet
<1>7. \A s \in SUBSET (1 .. n) :
        that[s] = IF s = {} THEN EmptyLists(Priorities) ELSE InsertTail(that[s \ {Max(s)}], Prio[ts[Max(s)]], ts[Max(s)])
  <2> HIDE DEF that
  <2> QED BY <1>5
<1> HIDE DEF that
<1>8. that[{}] = EmptyLists(Priorities)
  <2>1. {} \in SUBSET (1 .. n)
    OBVIOUS
  <2> QED BY <1>7, <2>1
<1>9. \A s \in SUBSET (1 .. n) : s # {} /\ that[s \ {Max(s)}] \in V
                                   => that[s] = F[Max(s)][that[s \ {Max(s)}]]
  <2> HIDE DEF F
  <2> QED BY <1>3, <1>7
<1>10. PICK a \in [0 .. n -> V] : /\ a[0] = EmptyLists(Priorities) /\ a[n] = that[1 .. n]
                                  /\ \A k \in 1 .. n : a[k] = F[k][a[k - 1]]
  <2> HIDE DEF F
  <2>1. Traces(V, EmptyLists(Priorities), n, F, that[1 .. n]) # {}
    <3>1. IsFold(that, V, EmptyLists(Priorities), n, F)
      BY <1>8, <1>9 DEF IsFold
    <3> QED BY <1>1, <3>1, FoldTrace
  <2> QED BY <2>1 DEF Traces
<1>11. ASSUME NEW k \in 1 .. n PROVE a[k] = InsertTail(a[k - 1], Prio[ts[k]], ts[k])
  <2>1. a[k - 1] \in V
    OBVIOUS
  <2>2. a[k] = F[k][a[k - 1]]
    BY <1>10
  <2> QED BY <2>1, <2>2
<1> QED BY <1>6, <1>10, <1>11

\* The table after the same.
LEMMA CreatedTableFold ==
  ASSUME NEW V, EmptyTable \in V, NEW n \in Nat, NEW ts \in [1 .. n -> Tasks],
         \A h \in V, t \in Tasks : OS_PrioInsert(h, Prio[t]) \in V
  PROVE  \E a \in [0 .. n -> V] :
            /\ a[0] = EmptyTable /\ a[n] = CreatedTable(ts)
            /\ \A k \in 1 .. n : a[k] = OS_PrioInsert(a[k - 1], Prio[ts[k]])
<1> DEFINE F == [k \in 1 .. n |-> [h \in V |-> OS_PrioInsert(h, Prio[ts[k]])]]
           Body(it) == [s \in SUBSET (1 .. n) |->
                          IF s = {} THEN EmptyTable
                          ELSE OS_PrioInsert(it[s \ {Max(s)}], Prio[ts[Max(s)]])]
           that == CHOOSE it : it = Body(it)
<1>1. F \in [1 .. n -> [V -> V]]
  OBVIOUS
<1>2. PICK it \in [SUBSET (1 .. n) -> V] :
        \A s \in SUBSET (1 .. n) : it[s] = IF s = {} THEN EmptyTable ELSE F[Max(s)][it[s \ {Max(s)}]]
  <2> HIDE DEF F
  <2>1. FoldsOf(V, EmptyTable, n, F) # {}
    BY <1>1, FoldExists
  <2> QED BY <2>1 DEF FoldsOf
<1>3. ASSUME NEW s \in SUBSET (1 .. n), s # {}, NEW h \in V
      PROVE  F[Max(s)][h] = OS_PrioInsert(h, Prio[ts[Max(s)]])
  <2>1. Max(s) \in 1 .. n
    BY <1>3, GreatestNumber
  <2> QED BY <2>1
<1>4. it = Body(it)
  <2>1. it = [s \in SUBSET (1 .. n) |-> it[s]]
    OBVIOUS
  <2>2. \A s \in SUBSET (1 .. n) : it[s] = Body(it)[s]
    <3> HIDE DEF F
    <3> QED BY <1>2, <1>3
  <2> QED BY <2>1, <2>2
<1>5. that = Body(that)
  <2> HIDE DEF Body
  <2> QED BY <1>4
<1>6. CreatedTable(ts) = that[1 .. n]
  <2>1. DOMAIN ts = 1 .. n
    OBVIOUS
  <2> QED BY <2>1 DEF CreatedTable, FoldLeft, MapThenFoldSet
<1>7. \A s \in SUBSET (1 .. n) :
        that[s] = IF s = {} THEN EmptyTable ELSE OS_PrioInsert(that[s \ {Max(s)}], Prio[ts[Max(s)]])
  <2> HIDE DEF that
  <2> QED BY <1>5
<1> HIDE DEF that
<1>8. that[{}] = EmptyTable
  <2>1. {} \in SUBSET (1 .. n)
    OBVIOUS
  <2> QED BY <1>7, <2>1
<1>9. \A s \in SUBSET (1 .. n) : s # {} /\ that[s \ {Max(s)}] \in V
                                   => that[s] = F[Max(s)][that[s \ {Max(s)}]]
  <2> HIDE DEF F
  <2> QED BY <1>3, <1>7
<1>10. PICK a \in [0 .. n -> V] : /\ a[0] = EmptyTable /\ a[n] = that[1 .. n]
                                  /\ \A k \in 1 .. n : a[k] = F[k][a[k - 1]]
  <2> HIDE DEF F
  <2>1. Traces(V, EmptyTable, n, F, that[1 .. n]) # {}
    <3>1. IsFold(that, V, EmptyTable, n, F)
      BY <1>8, <1>9 DEF IsFold
    <3> QED BY <1>1, <3>1, FoldTrace
  <2> QED BY <2>1 DEF Traces
<1>11. ASSUME NEW k \in 1 .. n PROVE a[k] = OS_PrioInsert(a[k - 1], Prio[ts[k]])
  <2>1. a[k - 1] \in V
    OBVIOUS
  <2>2. a[k] = F[k][a[k - 1]]
    BY <1>10
  <2> QED BY <2>1, <2>2
<1> QED BY <1>6, <1>10, <1>11

\* Tasks that are not in the ready lists are inserted one after the other.
Outside(place, ts, n) == \A i \in 1 .. n : place[ts[i]] \notin Priorities
Inserting(a, ts, n) ==
    \A k \in 1 .. n : \/ a[k] = InsertTail(a[k - 1], Prio[ts[k]], ts[k])
                      \/ a[k] = InsertHead(a[k - 1], Prio[ts[k]], ts[k])
NowReady(a, place, ts, n) ==
    /\ Placed(a[n], Priorities, After(place, Prio, ts, n), NoOrder)
    /\ \A p \in Priorities : (\A i \in 1 .. n : Prio[ts[i]] # p) => Chain(a[n], p) = Chain(a[0], p)

\* They are in the lists of their priorities, and the other lists stay.
LEMMA AllEnter ==
  ASSUME NEW place, NEW n, NEW ts, Distinct(ts, n), Outside(place, ts, n),
         NEW a, Placed(a[0], Priorities, place, NoOrder), Inserting(a, ts, n)
  PROVE  NowReady(a, place, ts, n)
<1> USE DEF Outside, Inserting
<1> DEFINE P(k) == /\ Placed(a[k], Priorities, After(place, Prio, ts, k), NoOrder)
                   /\ \A p \in Priorities : (\A i \in 1 .. n : Prio[ts[i]] # p) => Chain(a[k], p) = Chain(a[0], p)
           good == {k \in 0 .. n : P(k)}
<1>0. n \in Nat /\ ts \in [1 .. n -> Tasks]
  BY DEF Distinct
<1>1. P(0)
  <2>1. \A u \in Tasks : After(place, Prio, ts, 0)[u] = place[u]
    BY AfterNone
  <2> QED BY <2>1, SamePlaces
<1>2. ASSUME NEW k \in 1 .. n, P(k - 1) PROVE P(k)
  <2> DEFINE old == After(place, Prio, ts, k - 1)
             new == After(place, Prio, ts, k)
             t == ts[k]
             h == a[k - 1]
             l == Prio[t]
  <2>1. /\ old[ts[k]] = place[ts[k]] /\ new[ts[k]] = Prio[ts[k]]
        /\ \A u \in Tasks : u # ts[k] => new[u] = old[u]
    <3>1. OneGoes(place, Prio, ts, k)
      BY AfterNext
    <3> QED BY <3>1 DEF OneGoes
  <2>2. t \in Tasks /\ old[t] \notin Priorities /\ Placed(h, Priorities, old, NoOrder)
        /\ l \in Priorities /\ new[t] = l /\ \A u \in Tasks : u # t => new[u] = old[u]
    BY <1>0, <1>2, <2>1, KernelAssumption
  <2>3. a[k] = InsertTail(h, l, t) \/ a[k] = InsertHead(h, l, t)
    OBVIOUS
  <2>4. \A p \in Priorities : (\A i \in 1 .. n : Prio[ts[i]] # p) => Chain(h, p) = Chain(a[0], p) /\ p # l
    BY <1>0, <1>2
  <2> HIDE DEF old, new, t, h, l
  <2>5. Placed(a[k], Priorities, new, NoOrder) /\ \A m \in Priorities \ {l} : Chain(a[k], m) = Chain(h, m)
    <3>1. CASE a[k] = InsertTail(h, l, t)
      BY <2>2, <3>1, PlacedAtTail
    <3>2. CASE a[k] = InsertHead(h, l, t)
      BY <2>2, <3>2, PlacedAtHead
    <3> QED BY <2>3, <3>1, <3>2
  <2> QED BY <2>4, <2>5 DEF new
<1> HIDE DEF P
<1>3. 0 \in good /\ \A k \in 1 .. n : k - 1 \in good => k \in good
  BY <1>0, <1>1, <1>2
<1>4. n \in good
  <2> HIDE DEF good
  <2> QED BY <1>0, <1>3, Counting
<1> QED BY <1>4 DEF P, NowReady

\* Their priorities enter the table.
LEMMA AllInserted ==
  ASSUME NEW n \in Nat, NEW ts \in [1 .. n -> Tasks], NEW a \in [0 .. n -> Tables],
         \A k \in 1 .. n : a[k] = OS_PrioInsert(a[k - 1], Prio[ts[k]])
  PROVE  Inserted(a[n]) = Inserted(a[0]) \cup {Prio[ts[i]] : i \in 1 .. n}
<1> DEFINE P(k) == Inserted(a[k]) = Inserted(a[0]) \cup {Prio[ts[i]] : i \in 1 .. k}
           good == {k \in 0 .. n : P(k)}
<1>1. P(0)
  OBVIOUS
<1>2. ASSUME NEW k \in 1 .. n, P(k - 1) PROVE P(k)
  <2>1. a[k - 1] \in Tables /\ Prio[ts[k]] \in Priorities
    BY KernelAssumption
  <2>2. Inserted(a[k]) = Inserted(a[k - 1]) \cup {Prio[ts[k]]}
    BY <2>1, TableIsSet
  <2>3. {Prio[ts[i]] : i \in 1 .. k} = {Prio[ts[i]] : i \in 1 .. k - 1} \cup {Prio[ts[k]]}
    <3>1. 1 .. k = (1 .. k - 1) \cup {k}
      OBVIOUS
    <3> QED BY <3>1
  <2> QED BY <1>2, <2>2, <2>3
<1> HIDE DEF P
<1>3. 0 \in good /\ \A k \in 1 .. n : k - 1 \in good => k \in good
  BY <1>1, <1>2
<1>4. n \in good
  <2> HIDE DEF good
  <2> QED BY <1>3, Counting
<1> QED BY <1>4 DEF P

-----------------------------------------------------------------------------
\* The ready lists and the table.

\* The ready lists and the priority table hold the tasks of a set.
PlaceIn(R) == [t \in Tasks |-> IF t \in R THEN Prio[t] ELSE -1]

ReadyLists(h, tbl, R) ==
    /\ R \in SUBSET Tasks /\ tbl \in Tables
    /\ Placed(h, Priorities, PlaceIn(R), NoOrder)
    /\ Inserted(tbl) = {Prio[t] : t \in R}

\* The place of a ready task is its priority, and that of another is none.
LEMMA PlaceInTyped ==
  ASSUME NEW R \in SUBSET Tasks
  PROVE  \A t \in Tasks : /\ Prio[t] \in Priorities /\ Prio[t] \in Nat
                          /\ PlaceIn(R)[t] = IF t \in R THEN Prio[t] ELSE -1
                          /\ PlaceIn(R)[t] \in Priorities <=> t \in R
<1>1. \A t \in Tasks : Prio[t] \in Priorities /\ Prio[t] \in Nat
  BY KernelAssumption, PrioAssumption DEF Priorities
<1>2. -1 \notin Priorities
  BY PrioAssumption DEF Priorities
<1> QED BY <1>1, <1>2 DEF PlaceIn

\* The members of one of the ready lists, and its first one.
LEMMA HeadOfList ==
  ASSUME NEW Names, NEW h, Good(h, Names), NEW l \in Names
  PROVE  /\ h.HeadPtr[l] = IF Members(h, l) = {} THEN Null ELSE Chain(h, l)[1]
         /\ Members(h, l) # {} => Chain(h, l)[1] \in Members(h, l)
         /\ Members(h, l) = {} <=> h.NbrEntries[l] = 0
         /\ h.NbrEntries[l] \in Nat
<1> DEFINE c == Chain(h, l)
           n == Len(c)
<1>1. Spells(h, l, n, c)
  BY DEF Good
<1>2. n \in Nat /\ Members(h, l) = {c[i] : i \in 1 .. n} /\ h.NbrEntries[l] = n
  BY GoodChain
<1>3. h.HeadPtr[l] = IF n = 0 THEN Null ELSE c[1]
  BY <1>1 DEF Spells
<1> HIDE DEF n, c
<1>4. n # 0 => c[1] \in Members(h, l)
  <2>1. n # 0 => 1 \in 1 .. n
    BY <1>2
  <2> QED BY <1>2, <2>1
<1>5. n = 0 => Members(h, l) = {}
  BY <1>2
<1> QED BY <1>2, <1>3, <1>4, <1>5 DEF c

\* The scheduler takes a ready task, and none of a higher priority is ready.
LEMMA FirstReady ==
  ASSUME NEW h, NEW tbl, NEW R, ReadyLists(h, tbl, R), R # {}
  PROVE  /\ OS_PrioGetHighest(tbl) \in Priorities
         /\ h.HeadPtr[OS_PrioGetHighest(tbl)] \in R
         /\ Prio[h.HeadPtr[OS_PrioGetHighest(tbl)]] = OS_PrioGetHighest(tbl)
         /\ \A t \in R : OS_PrioGetHighest(tbl) <= Prio[t]
<1> DEFINE p == OS_PrioGetHighest(tbl)
<1>1. /\ R \in SUBSET Tasks /\ tbl \in Tables /\ Inserted(tbl) = {Prio[t] : t \in R}
      /\ Good(h, Priorities) /\ \A q \in Priorities : Members(h, q) = {t \in Tasks : PlaceIn(R)[t] = q}
  BY DEF ReadyLists, Placed
<1>2. p \in Inserted(tbl) /\ \A q \in Inserted(tbl) : p <= q
  BY <1>1, HighestIsLeast
<1> HIDE DEF p
<1>3. PICK t \in R : Prio[t] = p
  BY <1>1, <1>2
<1>4. p \in Priorities /\ Members(h, p) = {u \in R : Prio[u] = p}
  BY <1>1, <1>3, PlaceInTyped
<1>5. h.HeadPtr[p] \in Members(h, p)
  <2>1. Members(h, p) # {}
    BY <1>3, <1>4
  <2> QED BY <1>1, <1>4, <2>1, HeadOfList
<1>6. \A u \in R : p <= Prio[u]
  BY <1>1, <1>2
<1> QED BY <1>4, <1>5, <1>6 DEF p

\* OS_RdyListRemove: the priority leaves the table with its last task.
LEMMA ReadyRemove ==
  ASSUME NEW R, ReadyLists(OSRdyList, OSPrioTbl, R), NEW t \in R, OS_RdyListRemove(t)
  PROVE  ReadyLists(OSRdyList', OSPrioTbl', R \ {t})
<1> DEFINE l == Prio[t]
           h == OSRdyList
           c == Chain(h, l)
           n == Len(c)
<1>1. /\ R \in SUBSET Tasks /\ OSPrioTbl \in Tables /\ Inserted(OSPrioTbl) = {Prio[u] : u \in R}
      /\ Placed(h, Priorities, PlaceIn(R), NoOrder)
      /\ Good(h, Priorities) /\ \A q \in Priorities : Members(h, q) = {u \in Tasks : PlaceIn(R)[u] = q}
  BY DEF ReadyLists, Placed
<1>2. t \in Tasks /\ l \in Priorities /\ PlaceIn(R)[t] = l
  BY <1>1, PlaceInTyped
<1>3. Members(h, l) = {u \in R : Prio[u] = l}
  BY <1>1, <1>2, PlaceInTyped
<1>4. /\ n \in Nat /\ c \in [1 .. n -> Tasks] /\ Members(h, l) = {c[i] : i \in 1 .. n} /\ Spells(h, l, n, c)
      /\ \A i, j \in 1 .. n : c[i] = c[j] => i = j
  BY <1>1, <1>2, GoodChain DEF Good
<1>5. Placed(OSRdyList', Priorities, PlaceIn(R \ {t}), NoOrder)
  <2>1. OSRdyList' = Unlink(h, PlaceIn(R)[t], t)
    BY <1>2 DEF OS_RdyListRemove
  <2>2. PlaceIn(R \ {t})[t] \notin Priorities
    BY <1>1, <1>2, PlaceInTyped
  <2>3. \A u \in Tasks : u # t => PlaceIn(R \ {t})[u] = PlaceIn(R)[u]
    BY DEF PlaceIn
  <2>4. NoOrder \in [Tasks -> Int] /\ PlaceIn(R)[t] \in Priorities
    BY <1>2 DEF NoOrder
  <2>5. Placed(Unlink(h, PlaceIn(R)[t], t), Priorities, PlaceIn(R \ {t}), NoOrder)
    BY <1>1, <1>2, <2>2, <2>3, <2>4, PlacedLeaves
  <2> QED BY <2>1, <2>5
<1> HIDE DEF h, c, n, l
<1>6. PICK k \in 1 .. n : c[k] = t
  <2>1. t \in Members(h, l)
    BY <1>3 DEF l
  <2> QED BY <1>4, <2>1
<1>7. /\ h.NextPtr[t] = IF k = n THEN Null ELSE c[k + 1]
      /\ h.PrevPtr[t] = IF k = 1 THEN Null ELSE c[k - 1]
  <2>1. Spells(h, l, n, c)
    BY <1>4
  <2>2. k \in 1 .. n /\ c[k] = t
    BY <1>6
  <2> QED BY <2>1, <2>2 DEF Spells
<1>8. Null \notin Tasks
  BY TaskListsAssumption
<1>9. h.PrevPtr[t] = Null /\ h.NextPtr[t] = Null <=> n = 1
  <2>1. k \in 1 .. n /\ n \in Nat
    BY <1>4, <1>6
  <2>2. k # n => c[k + 1] # Null
    <3>1. k # n => k + 1 \in 1 .. n
      BY <2>1
    <3> QED BY <1>4, <1>8, <3>1
  <2>3. k # 1 => c[k - 1] # Null
    <3>1. k # 1 => k - 1 \in 1 .. n
      BY <2>1
    <3> QED BY <1>4, <1>8, <3>1
  <2>4. (h.PrevPtr[t] = Null <=> k = 1) /\ (h.NextPtr[t] = Null <=> k = n)
    BY <1>7, <2>2, <2>3
  <2> QED BY <2>1, <2>4
<1>10. OSPrioTbl' \in Tables /\ Inserted(OSPrioTbl') = {Prio[u] : u \in R \ {t}}
  <2>1. OSPrioTbl' = IF n = 1 THEN OS_PrioRemove(OSPrioTbl, l) ELSE OSPrioTbl
    BY <1>9 DEF OS_RdyListRemove, h, l
  <2>2. CASE n = 1
    <3>1. \A u \in R : u # t => Prio[u] # l
      <4>1. \A i \in 1 .. n : c[i] = t
        BY <1>6, <2>2
      <4> QED BY <1>3, <1>4, <4>1
    <3>2. OSPrioTbl' \in Tables /\ Inserted(OSPrioTbl') = Inserted(OSPrioTbl) \ {l}
      BY <1>1, <1>2, <2>1, <2>2, TableIsSet
    <3>3. {Prio[u] : u \in R} \ {l} = {Prio[u] : u \in R \ {t}}
      BY <3>1 DEF l
    <3> QED BY <1>1, <3>2, <3>3
  <2>3. CASE n # 1
    <3>1. \E u \in R : u # t /\ Prio[u] = l
      <4>1. PICK i \in 1 .. n : i # k
        <5>1. n > 1
          BY <1>4, <1>6, <2>3
        <5>2. (IF k = 1 THEN 2 ELSE 1) \in 1 .. n /\ (IF k = 1 THEN 2 ELSE 1) # k
          BY <1>4, <5>1
        <5> QED BY <5>2
      <4>2. c[i] # t /\ c[i] \in Members(h, l)
        BY <1>4, <1>6, <4>1
      <4> QED BY <1>3, <4>2
    <3>2. {Prio[u] : u \in R} = {Prio[u] : u \in R \ {t}}
      <4>1. PICK u \in R \ {t} : Prio[u] = l
        BY <3>1
      <4> QED BY <4>1 DEF l
    <3> QED BY <1>1, <2>1, <2>3, <3>2
  <2> QED BY <2>2, <2>3
<1> QED BY <1>1, <1>5, <1>10 DEF ReadyLists

\* Rotating a ready list keeps them.
LEMMA ReadyMoves ==
  ASSUME NEW h, NEW tbl, NEW R, ReadyLists(h, tbl, R), NEW l \in Priorities
  PROVE  ReadyLists(MoveHeadToTail(h, l), tbl, R)
BY PlacedMoves DEF ReadyLists

\* Insertions yield families of lists and tables.
LEMMA InsertTyped ==
  /\ \A h \in ListsOf(Priorities), t \in Tasks : OS_RdyListInsert(h, t) \in ListsOf(Priorities)
  /\ \A h \in ListsOf(Priorities), t \in Tasks : InsertTail(h, Prio[t], t) \in ListsOf(Priorities)
  /\ \A tbl \in Tables, t \in Tasks : OS_PrioInsert(tbl, Prio[t]) \in Tables
<1>1. \A t \in Tasks : Prio[t] \in Priorities
  BY KernelAssumption
<1>2. ASSUME NEW h \in ListsOf(Priorities), NEW t \in Tasks
      PROVE  /\ InsertTail(h, Prio[t], t) \in ListsOf(Priorities)
             /\ InsertHead(h, Prio[t], t) \in ListsOf(Priorities)
  BY <1>1, InsertTailTyped, InsertHeadTyped
<1>3. ASSUME NEW tbl \in Tables, NEW t \in Tasks PROVE OS_PrioInsert(tbl, Prio[t]) \in Tables
  BY <1>1, TableIsSet
<1> QED BY <1>2, <1>3 DEF OS_RdyListInsert

\* Tasks that become ready, one after the other, are all in the ready lists.
LEMMA ReadyAll ==
  ASSUME NEW R, ReadyLists(OSRdyList, OSPrioTbl, R),
         NEW n, NEW ts, Distinct(ts, n), \A i \in 1 .. n : ts[i] \notin R
  PROVE  /\ ReadyLists(ReadyWith(ts), TableWith(ts), R \cup {ts[i] : i \in 1 .. n})
         /\ \A p \in Priorities : (\A i \in 1 .. n : Prio[ts[i]] # p)
                                    => Chain(ReadyWith(ts), p) = Chain(OSRdyList, p)
<1> DEFINE S == {ts[i] : i \in 1 .. n}
<1>1. n \in Nat /\ ts \in [1 .. n -> Tasks] /\ R \in SUBSET Tasks /\ R \cup S \in SUBSET Tasks
  BY DEF Distinct, ReadyLists
<1>2. OSRdyList \in ListsOf(Priorities) /\ OSPrioTbl \in Tables
  BY DEF ReadyLists, Placed, Good
<1>3. /\ Placed(ReadyWith(ts), Priorities, After(PlaceIn(R), Prio, ts, n), NoOrder)
      /\ \A p \in Priorities : (\A i \in 1 .. n : Prio[ts[i]] # p)
                                    => Chain(ReadyWith(ts), p) = Chain(OSRdyList, p)
  <2>1. PICK a \in [0 .. n -> ListsOf(Priorities)] :
            /\ a[0] = OSRdyList /\ a[n] = ReadyWith(ts)
            /\ \A k \in 1 .. n : a[k] = OS_RdyListInsert(a[k - 1], ts[k])
    <3> DEFINE V == ListsOf(Priorities)
    <3>1. OSRdyList \in V /\ \A h \in V, t \in Tasks : OS_RdyListInsert(h, t) \in V
      BY <1>2, InsertTyped
    <3> HIDE DEF V
    <3>2. \E a \in [0 .. n -> V] :
            /\ a[0] = OSRdyList /\ a[n] = ReadyWith(ts)
            /\ \A k \in 1 .. n : a[k] = OS_RdyListInsert(a[k - 1], ts[k])
      BY <1>1, <3>1, ReadyFold
    <3> QED BY <3>2 DEF V
  <2>2. \A i \in 1 .. n : PlaceIn(R)[ts[i]] \notin Priorities
    BY <1>1, PlaceInTyped
  <2>3. Placed(a[0], Priorities, PlaceIn(R), NoOrder)
    BY <2>1 DEF ReadyLists
  <2>4. \A k \in 1 .. n : \/ a[k] = InsertTail(a[k - 1], Prio[ts[k]], ts[k])
                          \/ a[k] = InsertHead(a[k - 1], Prio[ts[k]], ts[k])
    BY <2>1 DEF OS_RdyListInsert
  <2>5. /\ Placed(a[n], Priorities, After(PlaceIn(R), Prio, ts, n), NoOrder)
        /\ \A p \in Priorities : (\A i \in 1 .. n : Prio[ts[i]] # p) => Chain(a[n], p) = Chain(a[0], p)
    <3> DEFINE place == PlaceIn(R)
    <3>1. \A i \in 1 .. n : place[ts[i]] \notin Priorities
      BY <2>2
    <3>2. Placed(a[0], Priorities, place, NoOrder)
      BY <2>3
    <3> HIDE DEF place
    <3>3. /\ Placed(a[n], Priorities, After(place, Prio, ts, n), NoOrder)
          /\ \A p \in Priorities : (\A i \in 1 .. n : Prio[ts[i]] # p) => Chain(a[n], p) = Chain(a[0], p)
      <4>1. Outside(place, ts, n)
        BY <3>1 DEF Outside
      <4>2. Inserting(a, ts, n)
        BY <2>4 DEF Inserting
      <4>3. NowReady(a, place, ts, n)
        BY <3>2, <4>1, <4>2, AllEnter
      <4> QED BY <4>3 DEF NowReady
    <3> QED BY <3>3 DEF place
  <2> QED BY <2>1, <2>5
<1>4. After(PlaceIn(R), Prio, ts, n) = PlaceIn(R \cup S)
  BY <1>1 DEF After, PlaceIn
<1>5. TableWith(ts) \in Tables /\ Inserted(TableWith(ts)) = Inserted(OSPrioTbl) \cup {Prio[ts[i]] : i \in 1 .. n}
  <2>1. PICK a \in [0 .. n -> Tables] :
            /\ a[0] = OSPrioTbl /\ a[n] = TableWith(ts)
            /\ \A k \in 1 .. n : a[k] = OS_PrioInsert(a[k - 1], Prio[ts[k]])
    <3> DEFINE V == Tables
    <3>1. OSPrioTbl \in V /\ \A h \in V, t \in Tasks : OS_PrioInsert(h, Prio[t]) \in V
      BY <1>2, InsertTyped
    <3> HIDE DEF V
    <3>2. \E a \in [0 .. n -> V] :
            /\ a[0] = OSPrioTbl /\ a[n] = TableWith(ts)
            /\ \A k \in 1 .. n : a[k] = OS_PrioInsert(a[k - 1], Prio[ts[k]])
      <4>1. n \in Nat /\ ts \in [1 .. n -> Tasks]
        BY <1>1
      <4> QED BY ONLY <3>1, <4>1, TableFold
    <3> QED BY <3>2 DEF V
  <2>2. Inserted(a[n]) = Inserted(a[0]) \cup {Prio[ts[i]] : i \in 1 .. n}
    BY <1>1, <2>1, AllInserted
  <2>3. n \in 0 .. n
    BY <1>1
  <2> QED BY <2>1, <2>2, <2>3
<1>6. Inserted(OSPrioTbl) \cup {Prio[ts[i]] : i \in 1 .. n} = {Prio[t] : t \in R \cup S}
  <2>1. Inserted(OSPrioTbl) = {Prio[t] : t \in R}
    BY DEF ReadyLists
  <2> QED BY <2>1
<1> HIDE DEF S
<1>7. ReadyLists(ReadyWith(ts), TableWith(ts), R \cup S)
  BY <1>1, <1>3, <1>4, <1>5, <1>6 DEF ReadyLists
<1> QED BY <1>3, <1>7 DEF S

\* The tasks in any order, each of them once.
LEMMA EveryTaskOnce ==
  ASSUME NEW order \in SetToSeqs(Tasks)
  PROVE  /\ Distinct(order, Cardinality(Tasks))
         /\ {order[i] : i \in 1 .. Cardinality(Tasks)} = Tasks
<1> DEFINE n == Cardinality(Tasks)
<1>1. n \in Nat /\ IsFiniteSet(Tasks)
  BY TaskListsAssumption, FS_CardinalityType
<1>2. order \in [1 .. n -> Tasks]
  BY DEF SetToSeqs
<1>3. \A i, j \in 1 .. n : order[i] = order[j] => i = j
  BY DEF SetToSeqs
<1>4. {order[i] : i \in 1 .. n} = Tasks
  <2>1. order \in Injection(1 .. n, Tasks)
    BY <1>2, <1>3 DEF Injection, IsInjective
  <2>2. Cardinality(1 .. n) = n /\ IsFiniteSet(1 .. n)
    BY <1>1, FS_Interval
  <2>3. order \in Surjection(1 .. n, Tasks)
    BY <1>1, <2>1, <2>2, FS_Injection
  <2> QED BY <1>2, <2>3 DEF Surjection
<1> QED BY <1>1, <1>2, <1>3, <1>4 DEF Distinct

\* The lists after every OSTaskCreate.
LEMMA NothingReady ==
  ReadyLists(EmptyLists(Priorities), EmptyTable, {})
<1>1. Placed(EmptyLists(Priorities), Priorities, PlaceIn({}), NoOrder)
  <2>1. \A t \in Tasks : PlaceIn({})[t] \notin Priorities
    BY PlaceInTyped
  <2> QED BY <2>1, EmptyPlaced
<1>2. EmptyTable \in Tables
  BY DEF EmptyTable, Tables
<1>3. Inserted(EmptyTable) = {}
  <2>1. \A p \in Priorities : p \div DEF_INT_CPU_NBR_BITS \in WordNbrs
    BY WordOfPriority DEF Width
  <2> QED BY <2>1 DEF Inserted, EmptyTable
<1> QED BY <1>1, <1>2, <1>3 DEF ReadyLists

\* The lists and the table after every OSTaskCreate hold all the tasks.
LEMMA Created ==
  ASSUME NEW n, NEW order, Distinct(order, n), {order[i] : i \in 1 .. n} = Tasks
  PROVE  ReadyLists(CreatedLists(order), CreatedTable(order), Tasks)
<1>1. Distinct(order, n) /\ {order[i] : i \in 1 .. n} = Tasks
  OBVIOUS
<1>2. n \in Nat /\ order \in [1 .. n -> Tasks]
  BY <1>1 DEF Distinct
<1>3. /\ Placed(EmptyLists(Priorities), Priorities, PlaceIn({}), NoOrder)
      /\ EmptyLists(Priorities) \in ListsOf(Priorities)
      /\ EmptyTable \in Tables /\ Inserted(EmptyTable) = {}
  BY NothingReady DEF ReadyLists, Placed, Good
<1>4. Placed(CreatedLists(order), Priorities, After(PlaceIn({}), Prio, order, n), NoOrder)
  <2>1. PICK a \in [0 .. n -> ListsOf(Priorities)] :
            /\ a[0] = EmptyLists(Priorities) /\ a[n] = CreatedLists(order)
            /\ \A k \in 1 .. n : a[k] = InsertTail(a[k - 1], Prio[order[k]], order[k])
    <3> DEFINE V == ListsOf(Priorities)
    <3>1. EmptyLists(Priorities) \in V /\ \A h \in V, t \in Tasks : InsertTail(h, Prio[t], t) \in V
      BY <1>3, InsertTyped
    <3> HIDE DEF V
    <3>2. \E a \in [0 .. n -> V] :
            /\ a[0] = EmptyLists(Priorities) /\ a[n] = CreatedLists(order)
            /\ \A k \in 1 .. n : a[k] = InsertTail(a[k - 1], Prio[order[k]], order[k])
      BY <1>2, <3>1, CreatedListsFold
    <3> QED BY <3>2 DEF V
  <2> DEFINE place == PlaceIn({})
  <2>2. Outside(place, order, n)
    BY <1>2, PlaceInTyped DEF Outside
  <2>3. Placed(a[0], Priorities, place, NoOrder)
    BY <1>3, <2>1
  <2>4. Inserting(a, order, n)
    BY <2>1 DEF Inserting
  <2> HIDE DEF place
  <2>5. NowReady(a, place, order, n)
    BY <1>1, <2>2, <2>3, <2>4, AllEnter
  <2> QED BY <2>1, <2>5 DEF NowReady, place
<1>5. After(PlaceIn({}), Prio, order, n) = PlaceIn(Tasks)
  BY <1>1 DEF After, PlaceIn
<1>6. CreatedTable(order) \in Tables /\ Inserted(CreatedTable(order)) = {Prio[t] : t \in Tasks}
  <2>1. PICK a \in [0 .. n -> Tables] :
            /\ a[0] = EmptyTable /\ a[n] = CreatedTable(order)
            /\ \A k \in 1 .. n : a[k] = OS_PrioInsert(a[k - 1], Prio[order[k]])
    <3> DEFINE V == Tables
    <3>1. EmptyTable \in V /\ \A h \in V, t \in Tasks : OS_PrioInsert(h, Prio[t]) \in V
      BY <1>3, InsertTyped
    <3> HIDE DEF V
    <3>2. \E a \in [0 .. n -> V] :
            /\ a[0] = EmptyTable /\ a[n] = CreatedTable(order)
            /\ \A k \in 1 .. n : a[k] = OS_PrioInsert(a[k - 1], Prio[order[k]])
      BY <1>2, <3>1, CreatedTableFold, Z3
    <3> QED BY <3>2 DEF V
  <2>2. Inserted(a[n]) = Inserted(a[0]) \cup {Prio[order[i]] : i \in 1 .. n}
    BY <1>2, <2>1, AllInserted
  <2>3. n \in 0 .. n
    BY <1>2
  <2>4. {Prio[order[i]] : i \in 1 .. n} = {Prio[t] : t \in Tasks}
    BY <1>1
  <2> QED BY <1>3, <2>1, <2>2, <2>3, <2>4
<1> QED BY <1>4, <1>5, <1>6 DEF ReadyLists

-----------------------------------------------------------------------------
\* The invariant: lists and fields.

Ready(t) == ~Waiting(t) /\ ~Delayed(t)
ReadyTasks == {t \in Tasks : Ready(t)}
TimeLeft == [t \in Tasks |-> Remain(TickCtrMatch[t])]

FieldsAgree ==
    /\ TaskState \in [Tasks -> {"RDY", "DLY"} \cup Pending]
    /\ PendOn \in [Tasks -> Sems \cup {"NOTHING", "TASK_SEM"}]
    /\ TickSpokePtr \in [Tasks -> Spokes \cup {Null}] /\ TickCtrMatch \in [Tasks -> TickNbrs]
    /\ OSTickCtr \in TickNbrs
    /\ \A t \in Tasks : Waiting(t) <=> PendOn[t] # "NOTHING"
    /\ \A t \in Tasks : Delayed(t) => /\ t \in AppTasks /\ TaskState[t] \in {"DLY", "PEND_TIMEOUT"}
                                      /\ TickSpokePtr[t] = TickCtrMatch[t] % OSCfg_TickWheelSize
                                      /\ TimeLeft[t] > 0
    /\ ~Waiting(IdleTask)

ListsInv ==
    /\ ReadyLists(OSRdyList, OSPrioTbl, ReadyTasks)
    /\ Placed(PendList, Sems, PendOn, Prio)
    /\ Placed(OSCfg_TickWheel, Spokes, TickSpokePtr, TimeLeft)
    /\ FieldsAgree

\* Differences of tick counts, modulo TickMod.
LEMMA TickArithmetic ==
  /\ TickMod \in Nat \ {0}
  /\ \A m, tick \in TickNbrs : (m - tick) % TickMod \in TickNbrs
<1>1. TickMod \in Nat \ {0}
  BY KernelAssumption DEF TickNbrs
<1>2. \A m, tick \in TickNbrs : (m - tick) % TickMod \in TickNbrs
  <2>1. \A m, tick \in TickNbrs : m - tick \in Int
    BY <1>1 DEF TickNbrs
  <2>2. \A x \in Int : x % TickMod \in 0 .. TickMod - 1
    BY <1>1
  <2> QED BY <2>1, <2>2 DEF TickNbrs
<1> QED BY <1>1, <1>2

\* What is left is a tick count.
LEMMA TimeLeftTyped ==
  ASSUME FieldsAgree
  PROVE  TimeLeft \in [Tasks -> Int] /\ \A t \in Tasks : TimeLeft[t] \in TickNbrs
BY TickArithmetic DEF FieldsAgree, TimeLeft, Remain, TickNbrs

\* Priorities, and no order at all, are ranks.
LEMMA RanksTyped ==
  /\ Prio \in [Tasks -> Int] /\ NoOrder \in [Tasks -> Int]
<1>1. Prio \in [Tasks -> Priorities]
  BY KernelAssumption
<1> QED BY <1>1 DEF Priorities, NoOrder

-----------------------------------------------------------------------------
\* Tasks wake up.

\* What tasks leave, by code and by place: after the tasks of a sequence are
\* taken out, the rest is in order.
LEMMA PendsLeave ==
  ASSUME NEW n, NEW ts, Distinct(ts, n), Placed(PendList, Sems, PendOn, Prio),
         NEW to, \A u \in Tasks : to[u] \notin Sems
  PROVE  Placed(OS_PendListRemove(ts), Sems, After(PendOn, to, ts, n), Prio)
<1>1. n \in Nat /\ ts \in [1 .. n -> Tasks]
  BY DEF Distinct
<1>2. PendList \in ListsOf(Sems)
  BY DEF Placed, Good
<1>3. PICK a \in [0 .. n -> ListsOf(Sems)] :
            /\ a[0] = PendList /\ a[n] = OS_PendListRemove(ts)
            /\ \A k \in 1 .. n : a[k] = (IF PendOn[ts[k]] \in Sems THEN Unlink(a[k - 1], PendOn[ts[k]], ts[k]) ELSE a[k - 1])
  <2> DEFINE V == ListsOf(Sems)
  <2>1. PendList \in V /\ \A h \in V, t \in Tasks : PendOn[t] \in Sems => Unlink(h, PendOn[t], t) \in V
    BY <1>2, UnlinkTyped
  <2> HIDE DEF V
  <2>2. \E a \in [0 .. n -> V] :
            /\ a[0] = PendList /\ a[n] = OS_PendListRemove(ts)
            /\ \A k \in 1 .. n : a[k] = (IF PendOn[ts[k]] \in Sems THEN Unlink(a[k - 1], PendOn[ts[k]], ts[k]) ELSE a[k - 1])
    BY <1>1, <2>1, PendListFold
  <2> QED BY <2>2 DEF V
<1>4. Placed(a[0], Sems, PendOn, Prio) /\ Prio \in [Tasks -> Int]
  BY <1>3, RanksTyped
<1>5. \A k \in 1 .. n : a[k] = IF PendOn[ts[k]] \in Sems THEN Unlink(a[k - 1], PendOn[ts[k]], ts[k])
                               ELSE a[k - 1]
  BY <1>3
<1>6. Placed(a[n], Sems, After(PendOn, to, ts, n), Prio)
  BY <1>4, <1>5, AllLeave
<1> QED BY <1>3, <1>6

\* The same for the wheel.
LEMMA DelaysLeave ==
  ASSUME NEW n, NEW ts, Distinct(ts, n), TickSpokePtr \in [Tasks -> Spokes \cup {Null}],
         NEW rank \in [Tasks -> Int], Placed(OSCfg_TickWheel, Spokes, TickSpokePtr, rank),
         NEW to, \A u \in Tasks : to[u] \notin Spokes
  PROVE  Placed(OS_TickListRemove(ts), Spokes, After(TickSpokePtr, to, ts, n), rank)
<1>1. n \in Nat /\ ts \in [1 .. n -> Tasks] /\ Null \notin Spokes
  BY KernelAssumption DEF Distinct
<1>2. OSCfg_TickWheel \in ListsOf(Spokes)
  BY DEF Placed, Good
<1>3. PICK a \in [0 .. n -> ListsOf(Spokes)] :
            /\ a[0] = OSCfg_TickWheel /\ a[n] = OS_TickListRemove(ts)
            /\ \A k \in 1 .. n : a[k] = (IF TickSpokePtr[ts[k]] = Null THEN a[k - 1] ELSE Unlink(a[k - 1], TickSpokePtr[ts[k]], ts[k]))
  <2> DEFINE V == ListsOf(Spokes)
  <2>1. OSCfg_TickWheel \in V /\ \A h \in V, l \in Spokes, t \in Tasks : Unlink(h, l, t) \in V
    BY <1>2, UnlinkTyped
  <2> HIDE DEF V
  <2>2. TickTraces(V, ts, n) # {}
    BY <1>1, <2>1, TickListFold
  <2> QED BY <2>2 DEF V, TickTraces
<1>4. Placed(a[0], Spokes, TickSpokePtr, rank)
  BY <1>3
<1>5. \A k \in 1 .. n : a[k] = IF TickSpokePtr[ts[k]] \in Spokes THEN Unlink(a[k - 1], TickSpokePtr[ts[k]], ts[k])
                               ELSE a[k - 1]
  BY <1>1, <1>3
<1>6. Placed(a[n], Spokes, After(TickSpokePtr, to, ts, n), rank)
  BY <1>4, <1>5, AllLeave
<1> QED BY <1>3, <1>6

\* Tasks that do not run are woken: they are in the ready lists and nowhere else.
LEMMA WakeLists ==
  ASSUME ListsInv, NEW n, NEW ts, Distinct(ts, n), \A i \in 1 .. n : ts[i] \notin ReadyTasks,
         NEW st, Wake(ts, st)
  PROVE  /\ ReadyTasks' = ReadyTasks \cup {ts[i] : i \in 1 .. n}
         /\ ReadyLists(OSRdyList', OSPrioTbl', ReadyTasks')
         /\ \A p \in Priorities : (\A i \in 1 .. n : Prio[ts[i]] # p)
                                    => Chain(OSRdyList', p) = Chain(OSRdyList, p)
         /\ Placed(PendList', Sems, PendOn', Prio)
         /\ Placed(OSCfg_TickWheel', Spokes, TickSpokePtr', TimeLeft)
<1> DEFINE S == {ts[i] : i \in 1 .. n}
<1>1. n \in Nat /\ ts \in [1 .. n -> Tasks] /\ ToSet(ts) = S /\ S \in SUBSET Tasks
  BY DEF Distinct, ToSet
<1>2. FieldsAgree /\ ReadyLists(OSRdyList, OSPrioTbl, ReadyTasks)
  BY DEF ListsInv
<1> HIDE DEF S
<1>3. ReadyTasks' = ReadyTasks \cup S
  <2>1. ASSUME NEW t \in Tasks PROVE Ready(t)' <=> Ready(t) \/ t \in S
    <3>1. TaskState'[t] = (IF t \in S THEN "RDY" ELSE TaskState[t])
          /\ TickSpokePtr'[t] = (IF t \in S THEN Null ELSE TickSpokePtr[t])
      BY <1>1 DEF Wake
    <3> QED BY <3>1 DEF Ready, Waiting, Delayed, Pending
  <2>2. ReadyTasks' = {t \in Tasks : Ready(t)'}
    BY DEF ReadyTasks
  <2> QED BY <1>1, <2>1, <2>2 DEF ReadyTasks
<1>4. /\ ReadyLists(ReadyWith(ts), TableWith(ts), ReadyTasks \cup S)
      /\ \A p \in Priorities : (\A i \in 1 .. n : Prio[ts[i]] # p)
                                    => Chain(ReadyWith(ts), p) = Chain(OSRdyList, p)
  BY <1>2, ReadyAll DEF S
<1>5. Placed(PendList', Sems, PendOn', Prio)
  <2> DEFINE to == [t \in Tasks |-> "NOTHING"]
  <2>1. \A u \in Tasks : to[u] \notin Sems
    BY KernelAssumption
  <2>2. PendOn' = After(PendOn, to, ts, n)
    BY <1>1 DEF Wake, After, S
  <2> HIDE DEF to
  <2>3. Placed(OS_PendListRemove(ts), Sems, After(PendOn, to, ts, n), Prio)
    BY <2>1, PendsLeave DEF ListsInv
  <2> QED BY <2>2, <2>3 DEF Wake
<1>6. Placed(OSCfg_TickWheel', Spokes, TickSpokePtr', TimeLeft)
  <2> DEFINE to == [t \in Tasks |-> Null]
  <2>1. \A u \in Tasks : to[u] \notin Spokes
    BY KernelAssumption
  <2>2. TickSpokePtr' = After(TickSpokePtr, to, ts, n)
    BY <1>1 DEF Wake, After, S
  <2> HIDE DEF to
  <2>3. TimeLeft \in [Tasks -> Int] /\ TickSpokePtr \in [Tasks -> Spokes \cup {Null}]
    BY <1>2, TimeLeftTyped DEF FieldsAgree
  <2>4. Placed(OSCfg_TickWheel, Spokes, TickSpokePtr, TimeLeft)
    BY DEF ListsInv
  <2>5. Placed(OS_TickListRemove(ts), Spokes, After(TickSpokePtr, to, ts, n), TimeLeft)
    BY <2>1, <2>3, <2>4, DelaysLeave
  <2> QED BY <2>2, <2>5 DEF Wake
<1>7. OSRdyList' = ReadyWith(ts) /\ OSPrioTbl' = TableWith(ts)
  BY DEF Wake
<1>8. ReadyTasks' = ReadyTasks \cup {ts[i] : i \in 1 .. n}
  BY <1>3 DEF S
<1> QED BY <1>3, <1>4, <1>5, <1>6, <1>7, <1>8

-----------------------------------------------------------------------------
\* Time.

\* Numbers modulo TickMod, in the range where the code adds and subtracts them.
LEMMA Modulo ==
  ASSUME NEW m \in Nat \ {0}, NEW x \in Int
  PROVE  /\ 0 <= x /\ x < m => x % m = x
         /\ m <= x /\ x < 2 * m => x % m = x - m
         /\ -m <= x /\ x < 0 => x % m = x + m
<1>1. x % m \in 0 .. m - 1
  OBVIOUS
<1>2. x = m * (x \div m) + (x % m)
  OBVIOUS
<1>3. ASSUME 0 <= x, x < m PROVE x % m = x
  BY <1>3, <1>1, <1>2, Z3
<1>4. ASSUME m <= x, x < 2 * m PROVE x % m = x - m
  BY <1>4, <1>1, <1>2, Z3
<1>5. ASSUME -m <= x, x < 0 PROVE x % m = x + m
  BY <1>5, <1>1, <1>2, Z3
<1> QED BY <1>3, <1>4, <1>5

\* What is left of a delay: nothing exactly when its match is now.
LEMMA LeftOf ==
  ASSUME NEW tick \in TickNbrs, NEW match \in TickNbrs
  PROVE  /\ (match - tick) % TickMod = IF match >= tick THEN match - tick ELSE match - tick + TickMod
         /\ (match - tick - 1) % TickMod = IF match = tick THEN TickMod - 1 ELSE ((match - tick) % TickMod) - 1
         /\ (match - tick) % TickMod \in TickNbrs
<1>1. /\ TickMod \in Nat \ {0} /\ match - tick \in Int /\ match - tick - 1 \in Int
      /\ -TickMod < match - tick /\ match - tick < TickMod
  BY TickArithmetic DEF TickNbrs
<1>2. (match - tick) % TickMod = IF match - tick >= 0 THEN match - tick ELSE match - tick + TickMod
  BY <1>1, Modulo
<1>3. (match - tick - 1) % TickMod = IF match - tick - 1 >= 0 THEN match - tick - 1 ELSE match - tick - 1 + TickMod
  BY <1>1, Modulo
<1> HIDE DEF TickNbrs
<1>4. match \in Nat /\ tick \in Nat /\ match < TickMod /\ tick < TickMod
  BY <1>1 DEF TickNbrs
<1> QED BY <1>1, <1>2, <1>3, <1>4 DEF TickNbrs

\* A time is left until the tick it is added to.
LEMMA AddedTime ==
  ASSUME NEW tick \in TickNbrs, NEW time \in 1 .. TickMod - 1
  PROVE  (tick + time) % TickMod \in TickNbrs /\ (tick + time) % TickMod # tick
<1>0. TickMod \in Nat \ {0}
  BY TickArithmetic
<1>1. tick + time \in Int /\ 0 <= tick + time /\ tick + time < 2 * TickMod /\ tick \in Nat /\ tick < TickMod
  <2>1. tick \in Nat /\ time \in Nat /\ tick < TickMod /\ time < TickMod /\ 1 <= time
    BY <1>0 DEF TickNbrs
  <2> QED BY <1>0, <2>1
<1>2. (tick + time) % TickMod = IF tick + time < TickMod THEN tick + time ELSE tick + time - TickMod
  <2> DEFINE x == tick + time
  <2>1. x \in Int /\ 0 <= x /\ x < 2 * TickMod
    BY <1>1
  <2> HIDE DEF x
  <2>2. /\ x < TickMod => x % TickMod = x
        /\ TickMod <= x => x % TickMod = x - TickMod
    BY <1>0, <2>1, Modulo
  <2>3. x % TickMod = IF x < TickMod THEN x ELSE x - TickMod
    BY <1>0, <2>1, <2>2
  <2> QED BY <1>0, <1>1, <2>3 DEF x
<1> QED BY <1>0, <1>1, <1>2 DEF TickNbrs

\* A time that is not 0 leaves something.
LEMMA LeftIsSome ==
  ASSUME OSTickCtr \in TickNbrs, NEW match \in TickNbrs
  PROVE  Remain(match) \in TickNbrs /\ (Remain(match) > 0 <=> match # OSTickCtr)
<1>1. /\ Remain(match) = IF match >= OSTickCtr THEN match - OSTickCtr ELSE match - OSTickCtr + TickMod
      /\ Remain(match) \in TickNbrs
  BY LeftOf DEF Remain
<1>2. /\ TickMod \in Nat /\ match \in Nat /\ OSTickCtr \in Nat
      /\ match < TickMod /\ OSTickCtr < TickMod
  BY TickArithmetic DEF TickNbrs
<1> QED BY <1>1, <1>2

\* Every match that OSTimeDly computes lies in the future.
LEMMA MatchAhead ==
  ASSUME OSTickCtr \in TickNbrs, TickCtrPrev \in [Tasks -> TickNbrs],
         NEW t \in AppTasks, NEW opt \in {"DLY", "PERIODIC", "MATCH"}, NEW time \in TickNbrs,
         opt # "MATCH" => time \in Times,
         opt = "MATCH" => ~TooFar(time) /\ "MATCH" \in Calls[t]
  PROVE  Match(t, time, opt) \in TickNbrs /\ Match(t, time, opt) # OSTickCtr
<1>1. TickMod \in Nat \ {0} /\ OS_TICK_TH_RDY \in TickNbrs /\ Times \subseteq 1 .. TickMod - 1
      /\ ("MATCH" \in Calls[t] => OS_TICK_TH_RDY < TickMod - 1)
  BY TickArithmetic, KernelAssumption
<1>2. CASE opt = "DLY"
  <2>1. time \in 1 .. TickMod - 1
    BY <1>1, <1>2
  <2>2. (OSTickCtr + time) % TickMod \in TickNbrs /\ (OSTickCtr + time) % TickMod # OSTickCtr
    BY <2>1, AddedTime
  <2> QED BY <1>2, <2>2 DEF Match
<1>3. CASE opt = "MATCH"
  <2>1. (time - OSTickCtr - 1) % TickMod <= OS_TICK_TH_RDY /\ OS_TICK_TH_RDY < TickMod - 1
    BY <1>1, <1>3, LeftOf DEF TooFar, TickNbrs
  <2>2. time = OSTickCtr => (time - OSTickCtr - 1) % TickMod = TickMod - 1
    BY LeftOf
  <2> QED BY <1>1, <1>3, <2>1, <2>2 DEF Match, TickNbrs
<1>4. CASE opt = "PERIODIC"
  <2> DEFINE next == (TickCtrPrev[t] + time) % TickMod
  <2>1. time \in 1 .. TickMod - 1 /\ TickCtrPrev[t] \in TickNbrs
    BY <1>1, <1>4 DEF AppTasks
  <2>2. next \in TickNbrs
    BY <2>1, AddedTime
  <2>3. (OSTickCtr + time) % TickMod \in TickNbrs /\ (OSTickCtr + time) % TickMod # OSTickCtr
    BY <2>1, AddedTime
  <2> DEFINE gap == (next - OSTickCtr - 1) % TickMod
  <2>4. next = OSTickCtr => gap = TickMod - 1
    BY <2>2, LeftOf
  <2>5. Match(t, time, opt) = IF gap < time THEN next ELSE (OSTickCtr + time) % TickMod
    BY <1>4 DEF Match
  <2> HIDE DEF next, gap
  <2>6. gap < time => next # OSTickCtr
    BY <1>1, <2>1, <2>4
  <2> QED BY <2>2, <2>3, <2>5, <2>6
<1> QED BY <1>2, <1>3, <1>4

\* A task goes onto the spoke of its match, behind those that are due before it.
LEMMA TickInserted ==
  ASSUME FieldsAgree, Placed(OSCfg_TickWheel, Spokes, TickSpokePtr, TimeLeft),
         NEW t \in Tasks, ~Delayed(t), NEW match \in TickNbrs,
         OS_TickListInsert(t, match), OSTickCtr' = OSTickCtr
  PROVE  /\ Placed(OSCfg_TickWheel', Spokes, TickSpokePtr', TimeLeft')
         /\ TickSpokePtr' \in [Tasks -> Spokes \cup {Null}] /\ TickCtrMatch' \in [Tasks -> TickNbrs]
         /\ TickSpokePtr'[t] = match % OSCfg_TickWheelSize /\ TickSpokePtr'[t] # Null
         /\ TickCtrMatch'[t] = match /\ TimeLeft'[t] = Remain(match)
         /\ \A u \in Tasks : u # t => /\ TickSpokePtr'[u] = TickSpokePtr[u] /\ TickCtrMatch'[u] = TickCtrMatch[u]
                                      /\ TimeLeft'[u] = TimeLeft[u]
<1> DEFINE spoke == match % OSCfg_TickWheelSize
           passed == {u \in Tasks : Remain(match) > Remain(TickCtrMatch[u])}
<1>1. TickSpokePtr \in [Tasks -> Spokes \cup {Null}] /\ TickCtrMatch \in [Tasks -> TickNbrs]
      /\ OSTickCtr \in TickNbrs /\ TickSpokePtr[t] = Null /\ Null \notin Spokes
  BY KernelAssumption DEF FieldsAgree, Delayed
<1>2. spoke \in Spokes
  <2>1. OSCfg_TickWheelSize \in Nat \ {0} /\ match \in Int
    BY KernelAssumption DEF TickNbrs
  <2> QED BY <2>1 DEF Spokes
<1>3. /\ TickCtrMatch' = [TickCtrMatch EXCEPT ![t] = match]
      /\ TickSpokePtr' = [TickSpokePtr EXCEPT ![t] = spoke]
      /\ OSCfg_TickWheel' = InsertBeforeFirst(OSCfg_TickWheel, spoke, t, passed)
  BY DEF OS_TickListInsert
<1>4. TimeLeft' = [u \in Tasks |-> Remain(TickCtrMatch'[u])]
  BY DEF TimeLeft, Remain
<1> HIDE DEF spoke
<1>5. /\ TickSpokePtr'[t] = spoke /\ TickSpokePtr'[t] # Null
      /\ TickCtrMatch'[t] = match /\ TimeLeft'[t] = Remain(match)
      /\ \A u \in Tasks : u # t => /\ TickSpokePtr'[u] = TickSpokePtr[u] /\ TickCtrMatch'[u] = TickCtrMatch[u]
                                   /\ TimeLeft'[u] = TimeLeft[u]
  BY <1>1, <1>2, <1>3, <1>4 DEF TimeLeft
<1>6. TickSpokePtr' \in [Tasks -> Spokes \cup {Null}] /\ TickCtrMatch' \in [Tasks -> TickNbrs]
  BY <1>1, <1>2, <1>3
<1>7. TimeLeft \in [Tasks -> Int] /\ TimeLeft' \in [Tasks -> Int] /\ Remain(match) \in Int
  <2>1. \A m \in TickNbrs : Remain(m) \in Int
    BY <1>1, TickArithmetic DEF Remain, TickNbrs
  <2> QED BY <1>1, <1>4, <1>6, <2>1 DEF TimeLeft
<1>8. \A u \in Tasks : IF u \in passed THEN TimeLeft[u] <= TimeLeft'[t] ELSE TimeLeft'[t] <= TimeLeft[u]
  <2>1. \A u \in Tasks : TimeLeft[u] = Remain(TickCtrMatch[u]) /\ TimeLeft[u] \in Int
    BY <1>7 DEF TimeLeft
  <2> QED BY <1>5, <1>7, <2>1
<1>9. Placed(OSCfg_TickWheel', Spokes, TickSpokePtr', TimeLeft')
  <2> HIDE DEF passed
  <2> DEFINE place == TickSpokePtr
             rank == TimeLeft
             other == TickSpokePtr'
             new == TimeLeft'
  <2>1. /\ rank \in [Tasks -> Int] /\ new \in [Tasks -> Int] /\ Placed(OSCfg_TickWheel, Spokes, place, rank)
        /\ place[t] \notin Spokes /\ other[t] = spoke
    BY <1>1, <1>5, <1>7
  <2>2. \A u \in Tasks : u # t => other[u] = place[u]
    BY <1>5
  <2>3. \A u \in Tasks : u # t => new[u] = rank[u]
    BY <1>5
  <2>4. \A u \in Tasks : IF u \in passed THEN rank[u] <= new[t] ELSE new[t] <= rank[u]
    BY <1>8
  <2> HIDE DEF place, rank, other, new
  <2>5. Placed(InsertBeforeFirst(OSCfg_TickWheel, spoke, t, passed), Spokes, other, new)
    BY <1>2, <2>1, <2>2, <2>3, <2>4, PlacedOrdered
  <2> QED BY <1>3, <2>5 DEF other, new
<1> QED BY <1>5, <1>6, <1>9 DEF spoke

\* A task goes into the list of the object it waits for, behind those of its
\* priority and of higher ones.
LEMMA PendInserted ==
  ASSUME Placed(PendList, Sems, PendOn, Prio), PendOn \in [Tasks -> Sems \cup {"NOTHING", "TASK_SEM"}],
         NEW t \in Tasks, PendOn[t] = "NOTHING", NEW obj \in Sems \cup {"TASK_SEM"}, NEW timeout,
         OS_Pend(t, obj, timeout)
  PROVE  Placed(PendList', Sems, PendOn', Prio)
<1>1. "NOTHING" \notin Sems /\ "TASK_SEM" \notin Sems
  BY KernelAssumption
<1>2. PendOn' = [PendOn EXCEPT ![t] = obj]
  BY DEF OS_Pend
<1>3. PendOn'[t] = obj /\ \A u \in Tasks : u # t => PendOn'[u] = PendOn[u]
  BY <1>2
<1>4. CASE obj \in Sems
  <2> DEFINE passed == {u \in Tasks : ~Before(t, u)}
             other == PendOn'
  <2>1. PendList' = InsertBeforeFirst(PendList, obj, t, passed)
    BY <1>4 DEF OS_Pend
  <2>2. \A u \in Tasks : IF u \in passed THEN Prio[u] <= Prio[t] ELSE Prio[t] <= Prio[u]
    BY RanksTyped DEF Before
  <2>3. other[t] = obj /\ \A u \in Tasks : u # t => other[u] = PendOn[u]
    BY <1>3
  <2> HIDE DEF passed, other
  <2>4. Placed(InsertBeforeFirst(PendList, obj, t, passed), Sems, other, Prio)
    BY <1>1, <1>4, <2>2, <2>3, RanksTyped, PlacedOrdered
  <2> QED BY <2>1, <2>4 DEF other
<1>5. CASE obj = "TASK_SEM"
  <2>1. PendList' = PendList
    BY <1>1, <1>5 DEF OS_Pend
  <2> DEFINE other == PendOn'
  <2>2. \A u \in Tasks, s \in Sems : PendOn[u] = s <=> other[u] = s
    BY <1>1, <1>3, <1>5
  <2> HIDE DEF other
  <2>3. Placed(PendList, Sems, other, Prio)
    BY <2>2, SamePlaces
  <2> QED BY <2>1, <2>3 DEF other
<1> QED BY <1>4, <1>5

-----------------------------------------------------------------------------
\* Tasks block, and what they wait for comes.

\* A ready task is in no other list.
LEMMA ReadyFields ==
  ASSUME FieldsAgree, NEW t \in ReadyTasks
  PROVE  /\ t \in Tasks /\ ~Waiting(t) /\ ~Delayed(t) /\ TickSpokePtr[t] = Null
         /\ PendOn[t] = "NOTHING" /\ TaskState[t] \in {"RDY", "DLY"}
BY DEF FieldsAgree, ReadyTasks, Ready, Waiting, Delayed, Pending

\* The rest of the fields when one task stops being ready.
OthersKeep(t) ==
    \A u \in Tasks : u # t => /\ TaskState'[u] = TaskState[u] /\ PendOn'[u] = PendOn[u]
                              /\ TickSpokePtr'[u] = TickSpokePtr[u] /\ TickCtrMatch'[u] = TickCtrMatch[u]
                              /\ TimeLeft'[u] = TimeLeft[u]

\* The fields of a task agree again when it blocks.
LEMMA OthersAgree ==
  ASSUME FieldsAgree, NEW t \in Tasks, OthersKeep(t), OSTickCtr' = OSTickCtr,
         TaskState' \in [Tasks -> {"RDY", "DLY"} \cup Pending],
         PendOn' \in [Tasks -> Sems \cup {"NOTHING", "TASK_SEM"}],
         TickSpokePtr' \in [Tasks -> Spokes \cup {Null}], TickCtrMatch' \in [Tasks -> TickNbrs],
         Waiting(t)' <=> PendOn'[t] # "NOTHING", t = IdleTask => ~Waiting(t)',
         TickSpokePtr'[t] # Null => /\ t \in AppTasks /\ TaskState'[t] \in {"DLY", "PEND_TIMEOUT"}
                                    /\ TickSpokePtr'[t] = TickCtrMatch'[t] % OSCfg_TickWheelSize
                                    /\ TimeLeft'[t] > 0
  PROVE  FieldsAgree'
<1>1. \A u \in Tasks : Waiting(u)' <=> PendOn'[u] # "NOTHING"
  BY DEF FieldsAgree, Waiting, OthersKeep
<1>2. ASSUME NEW u \in Tasks, Delayed(u)'
      PROVE  /\ u \in AppTasks /\ TaskState'[u] \in {"DLY", "PEND_TIMEOUT"}
             /\ TickSpokePtr'[u] = TickCtrMatch'[u] % OSCfg_TickWheelSize
             /\ TimeLeft'[u] > 0
  BY <1>2 DEF FieldsAgree, Delayed, OthersKeep
<1>3. ~Waiting(IdleTask)'
  <2>1. IdleTask \in Tasks
    BY KernelAssumption
  <2> QED BY <2>1 DEF FieldsAgree, Waiting, OthersKeep
<1>4. OSTickCtr' \in TickNbrs
  BY DEF FieldsAgree
<1> QED BY <1>1, <1>2, <1>3, <1>4 DEF FieldsAgree

\* OS_Pend: from the ready list to the pend list and, with a timeout, to the wheel.
LEMMA PendLists ==
  ASSUME ListsInv, NEW t \in ReadyTasks, t # IdleTask, NEW obj \in Sems \cup {"TASK_SEM"},
         NEW timeout \in {0} \cup Times, timeout # 0 => t \in AppTasks,
         OS_Pend(t, obj, timeout), OSTickCtr' = OSTickCtr
  PROVE  ListsInv' /\ ReadyTasks' = ReadyTasks \ {t}
<1>1. FieldsAgree /\ t \in Tasks /\ ~Delayed(t) /\ TickSpokePtr[t] = Null /\ PendOn[t] = "NOTHING"
  BY ReadyFields DEF ListsInv
<1>2. /\ TaskState \in [Tasks -> {"RDY", "DLY"} \cup Pending] /\ OSTickCtr \in TickNbrs
      /\ PendOn \in [Tasks -> Sems \cup {"NOTHING", "TASK_SEM"}]
  BY <1>1 DEF FieldsAgree
<1>3. /\ TaskState' = [TaskState EXCEPT ![t] = IF timeout = 0 THEN "PEND" ELSE "PEND_TIMEOUT"]
      /\ PendOn' = [PendOn EXCEPT ![t] = obj]
  BY DEF OS_Pend
<1>4. obj # "NOTHING"
  BY KernelAssumption
<1>5. /\ TaskState' \in [Tasks -> {"RDY", "DLY"} \cup Pending]
      /\ PendOn' \in [Tasks -> Sems \cup {"NOTHING", "TASK_SEM"}]
      /\ Waiting(t)' /\ PendOn'[t] # "NOTHING"
      /\ timeout # 0 => TaskState'[t] = "PEND_TIMEOUT"
      /\ \A u \in Tasks : u # t => TaskState'[u] = TaskState[u] /\ PendOn'[u] = PendOn[u]
  BY <1>1, <1>2, <1>3, <1>4 DEF Pending, Waiting
<1>6. /\ Placed(OSCfg_TickWheel', Spokes, TickSpokePtr', TimeLeft')
      /\ TickSpokePtr' \in [Tasks -> Spokes \cup {Null}] /\ TickCtrMatch' \in [Tasks -> TickNbrs]
      /\ \A u \in Tasks : u # t => /\ TickSpokePtr'[u] = TickSpokePtr[u] /\ TickCtrMatch'[u] = TickCtrMatch[u]
                                   /\ TimeLeft'[u] = TimeLeft[u]
      /\ TickSpokePtr'[t] # Null => /\ timeout # 0 /\ TimeLeft'[t] > 0
                                    /\ TickSpokePtr'[t] = TickCtrMatch'[t] % OSCfg_TickWheelSize
  <2>1. CASE timeout = 0
    <3>1. /\ OSCfg_TickWheel' = OSCfg_TickWheel /\ TickCtrMatch' = TickCtrMatch /\ TickSpokePtr' = TickSpokePtr
      BY <2>1 DEF OS_Pend, wheel
    <3>2. TimeLeft' = TimeLeft
      BY <3>1 DEF TimeLeft, Remain
    <3> QED BY <1>1, <3>1, <3>2 DEF ListsInv, FieldsAgree
  <2>2. CASE timeout # 0
    <3> DEFINE match == (OSTickCtr + timeout) % TickMod
    <3>1. timeout \in 1 .. TickMod - 1
      BY <2>2, KernelAssumption
    <3>2. match \in TickNbrs /\ match # OSTickCtr
      BY <1>2, <3>1, AddedTime
    <3>3. OS_TickListInsert(t, match)
      BY <2>2 DEF OS_Pend
    <3> HIDE DEF match
    <3>4. Remain(match) > 0
      BY <1>2, <3>2, LeftIsSome
    <3>5. Placed(OSCfg_TickWheel, Spokes, TickSpokePtr, TimeLeft)
      BY DEF ListsInv
    <3> QED BY <1>1, <2>2, <3>2, <3>3, <3>4, <3>5, TickInserted
  <2> QED BY <2>1, <2>2
<1>7. FieldsAgree'
  <2>1. OthersKeep(t)
    BY <1>5, <1>6 DEF OthersKeep
  <2> QED BY <1>1, <1>5, <1>6, <2>1, OthersAgree
<1>8. Placed(PendList', Sems, PendOn', Prio)
  BY <1>1, <1>2, PendInserted DEF ListsInv
<1>9. ReadyTasks' = ReadyTasks \ {t}
  <2>1. ReadyTasks' = {u \in Tasks : ~Waiting(u)' /\ ~Delayed(u)'}
    BY DEF ReadyTasks, Ready
  <2>2. \A u \in Tasks : u # t => (Waiting(u)' <=> Waiting(u)) /\ (Delayed(u)' <=> Delayed(u))
    BY <1>5, <1>6 DEF Waiting, Delayed
  <2> QED BY <1>5, <2>1, <2>2 DEF ReadyTasks, Ready
<1>10. ReadyLists(OSRdyList', OSPrioTbl', ReadyTasks')
  <2>1. OS_RdyListRemove(t) /\ ReadyLists(OSRdyList, OSPrioTbl, ReadyTasks)
    BY DEF OS_Pend, ListsInv
  <2>2. ReadyLists(OSRdyList', OSPrioTbl', ReadyTasks \ {t})
    BY <2>1, ReadyRemove
  <2> QED BY <1>9, <2>2
<1> QED BY <1>6, <1>7, <1>8, <1>9, <1>10 DEF ListsInv

\* OSTimeDly: from the ready list to the wheel.
LEMMA DelayLists ==
  ASSUME ListsInv, TickCtrPrev \in [Tasks -> TickNbrs], NEW t \in ReadyTasks, t \in AppTasks,
         NEW opt \in {"DLY", "PERIODIC", "MATCH"}, NEW time \in TickNbrs,
         opt # "MATCH" => time \in Times,
         opt = "MATCH" => ~TooFar(time) /\ "MATCH" \in Calls[t], OSTimeDly(t, time, opt)
  PROVE  ListsInv' /\ ReadyTasks' = ReadyTasks \ {t} /\ TickCtrPrev' \in [Tasks -> TickNbrs]
<1> DEFINE match == Match(t, time, opt)
<1>1. FieldsAgree /\ t \in Tasks /\ ~Delayed(t) /\ TickSpokePtr[t] = Null /\ PendOn[t] = "NOTHING"
  BY ReadyFields DEF ListsInv
<1>2. /\ TaskState \in [Tasks -> {"RDY", "DLY"} \cup Pending] /\ OSTickCtr \in TickNbrs
      /\ PendOn \in [Tasks -> Sems \cup {"NOTHING", "TASK_SEM"}]
  BY <1>1 DEF FieldsAgree
<1>3. match \in TickNbrs /\ match # OSTickCtr
  BY <1>2, MatchAhead
<1>4. /\ TaskState' = [TaskState EXCEPT ![t] = "DLY"] /\ OS_TickListInsert(t, match)
      /\ OSTickCtr' = OSTickCtr /\ PendList' = PendList /\ PendOn' = PendOn
      /\ TickCtrPrev' = (IF opt = "PERIODIC" THEN [TickCtrPrev EXCEPT ![t] = match] ELSE TickCtrPrev)
      /\ OS_RdyListRemove(t)
  BY DEF OSTimeDly
<1> HIDE DEF match
<1>5. TickCtrPrev' \in [Tasks -> TickNbrs]
  BY <1>3, <1>4
<1>6. Remain(match) > 0
  BY <1>2, <1>3, LeftIsSome
<1>7. /\ Placed(OSCfg_TickWheel', Spokes, TickSpokePtr', TimeLeft')
      /\ TickSpokePtr' \in [Tasks -> Spokes \cup {Null}] /\ TickCtrMatch' \in [Tasks -> TickNbrs]
      /\ TickSpokePtr'[t] = match % OSCfg_TickWheelSize /\ TickSpokePtr'[t] # Null
      /\ TickCtrMatch'[t] = match /\ TimeLeft'[t] = Remain(match)
      /\ \A u \in Tasks : u # t => /\ TickSpokePtr'[u] = TickSpokePtr[u] /\ TickCtrMatch'[u] = TickCtrMatch[u]
                                   /\ TimeLeft'[u] = TimeLeft[u]
  <2>1. Placed(OSCfg_TickWheel, Spokes, TickSpokePtr, TimeLeft)
    BY DEF ListsInv
  <2> QED BY <1>1, <1>3, <1>4, <2>1, TickInserted
<1>8. /\ TaskState' \in [Tasks -> {"RDY", "DLY"} \cup Pending] /\ TaskState'[t] = "DLY" /\ ~Waiting(t)'
      /\ \A u \in Tasks : u # t => TaskState'[u] = TaskState[u]
  BY <1>1, <1>2, <1>4 DEF Waiting, Pending
<1>9. FieldsAgree'
  <2>1. OthersKeep(t)
    BY <1>4, <1>7, <1>8 DEF OthersKeep
  <2>2. PendOn' \in [Tasks -> Sems \cup {"NOTHING", "TASK_SEM"}] /\ PendOn'[t] = "NOTHING"
    BY <1>1, <1>2, <1>4
  <2> QED BY <1>1, <1>4, <1>6, <1>7, <1>8, <2>1, <2>2, OthersAgree
<1>10. Placed(PendList', Sems, PendOn', Prio)
  BY <1>4 DEF ListsInv
<1>11. ReadyTasks' = ReadyTasks \ {t}
  <2>1. ReadyTasks' = {u \in Tasks : ~Waiting(u)' /\ ~Delayed(u)'}
    BY DEF ReadyTasks, Ready
  <2>2. \A u \in Tasks : u # t => (Waiting(u)' <=> Waiting(u)) /\ (Delayed(u)' <=> Delayed(u))
    BY <1>7, <1>8 DEF Waiting, Delayed
  <2>3. Delayed(t)'
    BY <1>7 DEF Delayed
  <2> QED BY <2>1, <2>2, <2>3 DEF ReadyTasks, Ready
<1>12. ReadyLists(OSRdyList', OSPrioTbl', ReadyTasks')
  <2>1. ReadyLists(OSRdyList, OSPrioTbl, ReadyTasks)
    BY DEF ListsInv
  <2>2. ReadyLists(OSRdyList', OSPrioTbl', ReadyTasks \ {t})
    BY <1>4, <2>1, ReadyRemove
  <2> QED BY <1>11, <2>2
<1> QED BY <1>5, <1>7, <1>9, <1>10, <1>11, <1>12 DEF ListsInv

\* What a wake-up does to the fields of the tasks.
LEMMA WakeFields ==
  ASSUME FieldsAgree, NEW n, NEW ts, Distinct(ts, n), NEW st, Wake(ts, st)
  PROVE  /\ TaskState' \in [Tasks -> {"RDY", "DLY"} \cup Pending]
         /\ PendOn' \in [Tasks -> Sems \cup {"NOTHING", "TASK_SEM"}]
         /\ TickSpokePtr' \in [Tasks -> Spokes \cup {Null}] /\ TickCtrMatch' \in [Tasks -> TickNbrs]
         /\ \A t \in Tasks : Waiting(t)' <=> PendOn'[t] # "NOTHING"
         /\ ~Waiting(IdleTask)'
         /\ \A t \in Tasks : TickSpokePtr'[t] # Null =>
              /\ Delayed(t) /\ \A i \in 1 .. n : ts[i] # t
              /\ TaskState'[t] = TaskState[t] /\ TickSpokePtr'[t] = TickSpokePtr[t]
              /\ TickCtrMatch'[t] = TickCtrMatch[t]
         /\ \A t \in Tasks : TaskState'[t] \in {"RDY", TaskState[t]} /\ PendOn'[t] \in {"NOTHING", PendOn[t]}
<1> DEFINE S == ToSet(ts)
<1>1. S = {ts[i] : i \in 1 .. n} /\ S \in SUBSET Tasks /\ IdleTask \in Tasks
  BY KernelAssumption DEF Distinct, ToSet
<1> HIDE DEF S
<1>2. 0 \in TickNbrs
  BY TickArithmetic DEF TickNbrs
<1>3. \A t \in Tasks : /\ TaskState'[t] = (IF t \in S THEN "RDY" ELSE TaskState[t])
                       /\ PendOn'[t] = (IF t \in S THEN "NOTHING" ELSE PendOn[t])
                       /\ TickSpokePtr'[t] = (IF t \in S THEN Null ELSE TickSpokePtr[t])
                       /\ TickCtrMatch'[t] = (IF t \in S /\ TickSpokePtr[t] # Null THEN 0 ELSE TickCtrMatch[t])
  BY DEF Wake, S
<1>4. /\ TaskState' \in [Tasks -> {"RDY", "DLY"} \cup Pending]
      /\ PendOn' \in [Tasks -> Sems \cup {"NOTHING", "TASK_SEM"}]
      /\ TickSpokePtr' \in [Tasks -> Spokes \cup {Null}] /\ TickCtrMatch' \in [Tasks -> TickNbrs]
  BY <1>2 DEF FieldsAgree, Wake, S
<1>5. \A t \in Tasks : Waiting(t)' <=> PendOn'[t] # "NOTHING"
  BY <1>3 DEF FieldsAgree, Waiting, Pending
<1>6. ~Waiting(IdleTask)'
  BY <1>1, <1>3 DEF FieldsAgree, Waiting, Pending
<1>7. \A t \in Tasks : TickSpokePtr'[t] # Null =>
         /\ Delayed(t) /\ \A i \in 1 .. n : ts[i] # t
         /\ TaskState'[t] = TaskState[t] /\ TickSpokePtr'[t] = TickSpokePtr[t]
         /\ TickCtrMatch'[t] = TickCtrMatch[t]
  BY <1>1, <1>3 DEF Delayed
<1> QED BY <1>3, <1>4, <1>5, <1>6, <1>7

\* A wake-up while time stands still.
LEMMA WakeKeeps ==
  ASSUME ListsInv, NEW n, NEW ts, Distinct(ts, n), \A i \in 1 .. n : ts[i] \notin ReadyTasks,
         NEW st, Wake(ts, st), OSTickCtr' = OSTickCtr
  PROVE  ListsInv'
<1>1. FieldsAgree
  BY DEF ListsInv
<1>2. /\ ReadyLists(OSRdyList', OSPrioTbl', ReadyTasks')
      /\ Placed(PendList', Sems, PendOn', Prio)
      /\ Placed(OSCfg_TickWheel', Spokes, TickSpokePtr', TimeLeft)
  BY WakeLists
<1>3. \A t \in Tasks : TickSpokePtr'[t] # Null =>
              /\ Delayed(t) /\ TaskState'[t] = TaskState[t] /\ TickSpokePtr'[t] = TickSpokePtr[t]
              /\ TickCtrMatch'[t] = TickCtrMatch[t] /\ TimeLeft'[t] = TimeLeft[t]
  BY <1>1, WakeFields DEF TimeLeft, Remain
<1>4. FieldsAgree'
  <2>1. /\ TaskState' \in [Tasks -> {"RDY", "DLY"} \cup Pending]
        /\ PendOn' \in [Tasks -> Sems \cup {"NOTHING", "TASK_SEM"}]
        /\ TickSpokePtr' \in [Tasks -> Spokes \cup {Null}] /\ TickCtrMatch' \in [Tasks -> TickNbrs]
        /\ \A t \in Tasks : Waiting(t)' <=> PendOn'[t] # "NOTHING"
        /\ ~Waiting(IdleTask)'
    BY <1>1, WakeFields
  <2>2. OSTickCtr' \in TickNbrs
    BY <1>1 DEF FieldsAgree
  <2>3. \A t \in Tasks : TickSpokePtr'[t] # Null =>
              /\ t \in AppTasks /\ TaskState'[t] \in {"DLY", "PEND_TIMEOUT"}
              /\ TickSpokePtr'[t] = TickCtrMatch'[t] % OSCfg_TickWheelSize
              /\ TimeLeft'[t] > 0
    BY <1>1, <1>3 DEF FieldsAgree
  <2> QED BY <2>1, <2>2, <2>3 DEF FieldsAgree, Delayed
<1>5. Placed(OSCfg_TickWheel', Spokes, TickSpokePtr', TimeLeft')
  <2> DEFINE place == TickSpokePtr'
             new == TimeLeft'
  <2>1. Null \notin Spokes
    BY KernelAssumption
  <2>2. \A t, u \in Tasks : place[t] = place[u] /\ place[t] \in Spokes /\ TimeLeft[t] <= TimeLeft[u]
                               => new[t] <= new[u]
    BY <1>3, <2>1
  <2>3. Placed(OSCfg_TickWheel', Spokes, place, TimeLeft)
    BY <1>2
  <2> HIDE DEF place, new
  <2>4. Placed(OSCfg_TickWheel', Spokes, place, new)
    BY <2>2, <2>3, SamePlaces
  <2> QED BY <2>4 DEF place, new
<1> QED BY <1>2, <1>4, <1>5 DEF ListsInv

\* OSTimeDly that refuses a match leaves the lists as they are.
LEMMA RefusedKeeps ==
  ASSUME ListsInv, NEW t \in ReadyTasks, NEW time, OSTimeDly_zero(t, time)
  PROVE  ListsInv' /\ ReadyTasks' = ReadyTasks
<1>1. FieldsAgree /\ t \in Tasks /\ ~Delayed(t) /\ TickSpokePtr[t] = Null /\ PendOn[t] = "NOTHING" /\ ~Waiting(t)
  BY ReadyFields DEF ListsInv
<1>2. /\ TaskState' = [TaskState EXCEPT ![t] = "DLY"] /\ TickCtrMatch' = [TickCtrMatch EXCEPT ![t] = 0]
      /\ TickSpokePtr' = [TickSpokePtr EXCEPT ![t] = Null] /\ OSTickCtr' = OSTickCtr
      /\ PendOn' = PendOn /\ PendList' = PendList /\ OSRdyList' = OSRdyList /\ OSPrioTbl' = OSPrioTbl
      /\ OSCfg_TickWheel' = OSCfg_TickWheel
  BY DEF OSTimeDly_zero, ready
<1>3. 0 \in TickNbrs
  BY TickArithmetic DEF TickNbrs
<1>4. /\ TaskState' \in [Tasks -> {"RDY", "DLY"} \cup Pending] /\ PendOn' \in [Tasks -> Sems \cup {"NOTHING", "TASK_SEM"}]
      /\ TickSpokePtr' = TickSpokePtr /\ TickSpokePtr' \in [Tasks -> Spokes \cup {Null}]
      /\ TickCtrMatch' \in [Tasks -> TickNbrs]
  BY <1>1, <1>2, <1>3 DEF FieldsAgree
<1>5. /\ TaskState'[t] = "DLY" /\ ~Waiting(t)' /\ \A u \in Tasks : u # t => TaskState'[u] = TaskState[u]
      /\ \A u \in Tasks : Waiting(u)' <=> Waiting(u)
  BY <1>1, <1>2 DEF FieldsAgree, Waiting, Pending
<1>6. \A u \in Tasks : u # t => TickCtrMatch'[u] = TickCtrMatch[u] /\ TimeLeft'[u] = TimeLeft[u]
  BY <1>1, <1>2 DEF FieldsAgree, TimeLeft, Remain
<1>7. ReadyTasks' = ReadyTasks
  BY <1>4, <1>5 DEF ReadyTasks, Ready, Delayed
<1>8. FieldsAgree'
  <2>1. OthersKeep(t)
    BY <1>2, <1>4, <1>5, <1>6 DEF OthersKeep
  <2> QED BY <1>1, <1>2, <1>4, <1>5, <2>1, OthersAgree
<1>9. Placed(OSCfg_TickWheel', Spokes, TickSpokePtr', TimeLeft')
  <2> DEFINE place == TickSpokePtr
             new == TimeLeft'
  <2>1. Null \notin Spokes
    BY KernelAssumption
  <2>2. \A u, v \in Tasks : place[u] = place[v] /\ place[u] \in Spokes /\ TimeLeft[u] <= TimeLeft[v]
                               => new[u] <= new[v]
    BY <1>1, <1>6, <2>1
  <2>3. Placed(OSCfg_TickWheel, Spokes, place, TimeLeft)
    BY DEF ListsInv
  <2> HIDE DEF place, new
  <2>4. Placed(OSCfg_TickWheel, Spokes, place, new)
    BY <2>2, <2>3, SamePlaces
  <2> QED BY <1>2, <1>4, <2>4 DEF place, new
<1> QED BY <1>2, <1>7, <1>8, <1>9 DEF ListsInv

-----------------------------------------------------------------------------
\* The clock moves.

NextTick == (OSTickCtr + 1) % TickMod

\* A tick takes one from what is left, of every task that is not due.
LEMMA OneTickLess ==
  ASSUME OSTickCtr \in TickNbrs, NEW match \in TickNbrs, match # OSTickCtr
  PROVE  /\ NextTick \in TickNbrs
         /\ (match - NextTick) % TickMod = Remain(match) - 1
         /\ Remain(match) = 1 <=> match = NextTick
<1>1. /\ TickMod \in Nat \ {0} /\ match \in Nat /\ OSTickCtr \in Nat
      /\ match < TickMod /\ OSTickCtr < TickMod
  BY TickArithmetic DEF TickNbrs
<1>2. NextTick = IF OSTickCtr + 1 < TickMod THEN OSTickCtr + 1 ELSE 0
  <2> DEFINE x == OSTickCtr + 1
  <2>1. x \in Int /\ 0 <= x /\ x <= TickMod /\ x < 2 * TickMod
    BY <1>1
  <2> HIDE DEF x
  <2>2. /\ x < TickMod => x % TickMod = x
        /\ TickMod <= x => x % TickMod = x - TickMod
    BY <1>1, <2>1, Modulo
  <2>3. x % TickMod = IF x < TickMod THEN x ELSE 0
    BY <1>1, <2>1, <2>2
  <2> QED BY <2>3 DEF x, NextTick
<1>3. NextTick \in TickNbrs
  BY <1>1, <1>2 DEF TickNbrs
<1>4. Remain(match) = IF match >= OSTickCtr THEN match - OSTickCtr ELSE match - OSTickCtr + TickMod
  BY LeftOf DEF Remain
<1>5. (match - NextTick) % TickMod = IF match >= NextTick THEN match - NextTick ELSE match - NextTick + TickMod
  BY <1>3, LeftOf
<1> DEFINE left == (match - NextTick) % TickMod
           old == Remain(match)
<1>6. /\ old = IF match >= OSTickCtr THEN match - OSTickCtr ELSE match - OSTickCtr + TickMod
      /\ left = IF match >= NextTick THEN match - NextTick ELSE match - NextTick + TickMod
  BY <1>4, <1>5
<1> HIDE DEF NextTick, left, old
<1>7. left = old - 1 /\ (old = 1 <=> match = NextTick)
  <2>1. CASE OSTickCtr + 1 < TickMod
    <3>1. NextTick = OSTickCtr + 1
      BY <1>2, <2>1
    <3>2. CASE match > OSTickCtr
      <4>1. old = match - OSTickCtr /\ left = match - OSTickCtr - 1
        BY <1>1, <1>6, <3>1, <3>2
      <4> QED BY <1>1, <3>1, <4>1
    <3>3. CASE match < OSTickCtr
      <4>1. old = match - OSTickCtr + TickMod /\ left = match - OSTickCtr - 1 + TickMod
        BY <1>1, <1>6, <3>1, <3>3
      <4> QED BY <1>1, <2>1, <3>1, <3>3, <4>1
    <3> QED BY <1>1, <3>2, <3>3
  <2>2. CASE ~(OSTickCtr + 1 < TickMod)
    <3>1. NextTick = 0 /\ OSTickCtr = TickMod - 1
      BY <1>1, <1>2, <2>2
    <3> QED BY <1>1, <1>6, <3>1
  <2> QED BY <2>1, <2>2
<1> QED BY <1>3, <1>7 DEF left, old

\* The loop of OS_TickListUpdate stops at the first task that is not due, and
\* has then seen every task that is.
LEMMA ExpiredAreDue ==
  ASSUME ListsInv
  PROVE  \E n : /\ Distinct(Expired(NextTick), n)
                /\ {Expired(NextTick)[i] : i \in 1 .. n} = {t \in Tasks : Delayed(t) /\ TickCtrMatch[t] = NextTick}
<1> DEFINE k == NextTick % OSCfg_TickWheelSize
           chain == Chain(OSCfg_TickWheel, k)
           len == Len(chain)
           now == {n \in 0 .. len : \A i \in 1 .. n : TickCtrMatch[chain[i]] = NextTick}
           N == CHOOSE n \in now : \A m \in now : m <= n
           due == {t \in Tasks : Delayed(t) /\ TickCtrMatch[t] = NextTick}
<1>1. /\ FieldsAgree /\ OSTickCtr \in TickNbrs /\ Null \notin Spokes
      /\ \A t \in Tasks : Delayed(t) => /\ TickSpokePtr[t] = TickCtrMatch[t] % OSCfg_TickWheelSize
                                        /\ TimeLeft[t] > 0
      /\ \A t \in Tasks : TickCtrMatch[t] \in TickNbrs /\ TimeLeft[t] = Remain(TickCtrMatch[t])
                          /\ TimeLeft[t] \in Nat
  BY TimeLeftTyped, KernelAssumption DEF ListsInv, FieldsAgree, TimeLeft, TickNbrs
<1>2. k \in Spokes
  <2>1. OSCfg_TickWheelSize \in Nat \ {0} /\ TickMod \in Nat \ {0}
    BY KernelAssumption, TickArithmetic
  <2>2. NextTick \in Int
    BY <1>1, <2>1 DEF NextTick, TickNbrs
  <2> HIDE DEF NextTick
  <2> QED BY <2>1, <2>2 DEF Spokes
<1> HIDE DEF k
<1>3. Placed(OSCfg_TickWheel, Spokes, TickSpokePtr, TimeLeft) /\ Good(OSCfg_TickWheel, Spokes)
  BY DEF ListsInv, Placed
<1>4. /\ len \in Nat /\ chain \in [1 .. len -> Tasks] /\ DOMAIN chain = 1 .. len
      /\ Members(OSCfg_TickWheel, k) = {chain[i] : i \in 1 .. len}
      /\ \A i, j \in 1 .. len : chain[i] = chain[j] => i = j
  BY <1>2, <1>3, GoodChain
<1>5. /\ {chain[i] : i \in 1 .. len} = {t \in Tasks : TickSpokePtr[t] = k}
      /\ \A i, j \in 1 .. len : i < j => TimeLeft[chain[i]] <= TimeLeft[chain[j]]
  BY <1>2, <1>3, <1>4 DEF Placed, Ascending
<1>6. Expired(NextTick) = SubSeq(chain, 1, N)
  BY DEF Expired, k
<1> HIDE DEF chain, len
<1>7. N \in now /\ \A m \in now : m <= N
  <2>1. 0 \in now
    BY <1>4
  <2>2. PICK least \in {len - m : m \in now} : \A x \in {len - m : m \in now} : least <= x
    <3>1. {len - m : m \in now} \in SUBSET Nat
      BY <1>4
    <3> HIDE DEF now
    <3>2. {len - m : m \in now} # {}
      BY <2>1
    <3> QED BY <3>1, <3>2, LeastNumber
  <2>3. \E n \in now : \A m \in now : m <= n
    <3>1. PICK n \in now : least = len - n
      BY <2>2
    <3>2. \A m \in now : len - n <= len - m
      BY <2>2, <3>1
    <3>3. \A m \in now : m \in Int
      BY <1>4
    <3> HIDE DEF now
    <3>4. \A m \in now : m <= n
      BY <1>4, <3>1, <3>2, <3>3
    <3> QED BY <3>1, <3>4
  <2> HIDE DEF now
  <2> QED BY <2>3
<1> HIDE DEF N
<1>8. N \in 0 .. len /\ \A i \in 1 .. N : TickCtrMatch[chain[i]] = NextTick
  BY <1>7
<1>9. Distinct(Expired(NextTick), N) /\ \A i \in 1 .. N : Expired(NextTick)[i] = chain[i]
  <2>1. SubSeq(chain, 1, N) = [i \in 1 .. N |-> chain[i]]
    BY <1>4, <1>8
  <2>2. \A i \in 1 .. N : i \in 1 .. len
    BY <1>4, <1>8
  <2>3. Expired(NextTick) = [i \in 1 .. N |-> chain[i]]
    BY <1>6, <2>1
  <2>4. N \in Nat /\ Expired(NextTick) \in [1 .. N -> Tasks]
    BY <1>4, <1>8, <2>2, <2>3
  <2>5. \A i \in 1 .. N : Expired(NextTick)[i] = chain[i]
    BY <2>3
  <2>6. \A i, j \in 1 .. N : Expired(NextTick)[i] = Expired(NextTick)[j] => i = j
    BY <1>4, <2>2, <2>5
  <2> QED BY <2>4, <2>5, <2>6 DEF Distinct
<1>10. ASSUME NEW t \in Tasks PROVE t \in due <=> \E i \in 1 .. N : chain[i] = t
  <2>1. ASSUME NEW i \in 1 .. N, chain[i] = t PROVE t \in due
    <3>1. i \in 1 .. len
      BY <1>4, <1>8
    <3>2. TickSpokePtr[t] = k
      BY <1>5, <2>1, <3>1
    <3> QED BY <1>1, <1>2, <1>8, <2>1, <3>2 DEF Delayed
  <2>2. ASSUME t \in due PROVE \E i \in 1 .. N : chain[i] = t
    <3>1. TickSpokePtr[t] = k /\ TickCtrMatch[t] = NextTick /\ TimeLeft[t] > 0
      BY <1>1, <2>2 DEF k
    <3>2. PICK j \in 1 .. len : chain[j] = t
      BY <1>5, <3>1
    <3>3. SUFFICES ASSUME ~(j <= N) PROVE FALSE
      BY <1>4, <1>8, <3>2
    <3>4. N + 1 \in 1 .. len /\ N + 1 <= j /\ N \in Nat
      BY <1>4, <1>8, <3>3
    <3> DEFINE u == chain[N + 1]
    <3>5. u \in Tasks /\ TickSpokePtr[u] = k
      BY <1>4, <1>5, <3>4
    <3>6. TickCtrMatch[u] # NextTick
      <4>1. SUFFICES ASSUME TickCtrMatch[u] = NextTick PROVE N + 1 \in now
        BY <1>7, <3>4
      <4>2. \A i \in 1 .. N + 1 : i \in 1 .. N \/ i = N + 1
        BY <3>4
      <4> QED BY <1>8, <3>4, <4>1, <4>2
    <3> HIDE DEF u
    <3>7. TimeLeft[u] > 0 /\ TimeLeft[u] <= TimeLeft[t]
      <4>1. TimeLeft[u] > 0
        BY <1>1, <1>2, <3>5 DEF Delayed
      <4>2. N + 1 < j => TimeLeft[u] <= TimeLeft[t]
        BY <1>5, <3>2, <3>4 DEF u
      <4>3. N + 1 = j => u = t
        BY <3>2 DEF u
      <4> QED BY <1>1, <3>4, <3>5, <4>1, <4>2, <4>3
    <3>8. \A v \in Tasks : TimeLeft[v] > 0 => (TimeLeft[v] = 1 <=> TickCtrMatch[v] = NextTick)
      BY <1>1, LeftIsSome, OneTickLess
    <3> QED BY <1>1, <3>1, <3>5, <3>6, <3>7, <3>8
  <2> QED BY <2>1, <2>2
<1>11. {Expired(NextTick)[i] : i \in 1 .. N} = due
  BY <1>4, <1>8, <1>9, <1>10
<1> QED BY <1>9, <1>11

\* A tick: the tasks whose time has come leave, and the others have one tick
\* less to go, in the order they were in.
LEMMA TickKeeps ==
  ASSUME ListsInv, OS_TickListUpdate
  PROVE  /\ ListsInv' /\ ReadyTasks' = ReadyTasks \cup {t \in Tasks : Delayed(t) /\ TickCtrMatch[t] = NextTick}
         /\ \A p \in Priorities : (\A t \in AppTasks : Prio[t] # p) => Chain(OSRdyList', p) = Chain(OSRdyList, p)
<1> DEFINE ts == Expired(NextTick)
<1>1. FieldsAgree /\ OSTickCtr \in TickNbrs
  BY DEF ListsInv, FieldsAgree
<1>2. Wake(ts, "TIMEOUT") /\ OSTickCtr' = NextTick
  BY DEF OS_TickListUpdate, NextTick
<1>3. PICK n : /\ Distinct(ts, n)
               /\ {ts[i] : i \in 1 .. n} = {t \in Tasks : Delayed(t) /\ TickCtrMatch[t] = NextTick}
  BY ExpiredAreDue
<1> HIDE DEF ts
<1>4. \A i \in 1 .. n : ts[i] \in AppTasks /\ Delayed(ts[i]) /\ ts[i] \notin ReadyTasks
  BY <1>1, <1>3 DEF FieldsAgree, ReadyTasks, Ready
<1>5. /\ ReadyTasks' = ReadyTasks \cup {ts[i] : i \in 1 .. n}
      /\ ReadyLists(OSRdyList', OSPrioTbl', ReadyTasks')
      /\ \A p \in Priorities : (\A i \in 1 .. n : Prio[ts[i]] # p)
                                    => Chain(OSRdyList', p) = Chain(OSRdyList, p)
      /\ Placed(PendList', Sems, PendOn', Prio)
      /\ Placed(OSCfg_TickWheel', Spokes, TickSpokePtr', TimeLeft)
  BY <1>2, <1>3, <1>4, WakeLists
<1>6. \A t \in Tasks : TickSpokePtr'[t] # Null =>
              /\ Delayed(t) /\ TaskState'[t] = TaskState[t] /\ TickSpokePtr'[t] = TickSpokePtr[t]
              /\ TickCtrMatch'[t] = TickCtrMatch[t] /\ TickCtrMatch[t] # NextTick
  BY <1>1, <1>2, <1>3, WakeFields
<1>7. NextTick \in TickNbrs
  <2>1. TickMod \in Nat \ {0}
    BY TickArithmetic
  <2> QED BY <1>1, <2>1 DEF NextTick, TickNbrs
<1>8. TimeLeft' = [t \in Tasks |-> (TickCtrMatch'[t] - NextTick) % TickMod]
  BY <1>2 DEF TimeLeft, Remain
<1>9. ASSUME NEW t \in Tasks, TickSpokePtr'[t] # Null
      PROVE  TimeLeft'[t] = TimeLeft[t] - 1 /\ TimeLeft'[t] > 0 /\ TimeLeft[t] \in Int
  <2>1. TickCtrMatch[t] \in TickNbrs /\ TimeLeft[t] > 0 /\ TimeLeft[t] = Remain(TickCtrMatch[t])
    BY <1>1, <1>6, <1>9 DEF FieldsAgree, TimeLeft
  <2>2. TickCtrMatch[t] # OSTickCtr /\ Remain(TickCtrMatch[t]) \in TickNbrs
    BY <1>1, <2>1, LeftIsSome
  <2>3. /\ (TickCtrMatch[t] - NextTick) % TickMod = Remain(TickCtrMatch[t]) - 1
        /\ Remain(TickCtrMatch[t]) # 1
    BY <1>1, <1>6, <1>9, <2>1, <2>2, OneTickLess
  <2>4. TimeLeft'[t] = TimeLeft[t] - 1
    BY <1>6, <1>8, <1>9, <2>1, <2>3
  <2>5. TimeLeft[t] \in Nat
    BY <2>1, <2>2 DEF TickNbrs
  <2> QED BY <2>1, <2>3, <2>4, <2>5
<1>10. FieldsAgree'
  <2>1. /\ TaskState' \in [Tasks -> {"RDY", "DLY"} \cup Pending]
        /\ PendOn' \in [Tasks -> Sems \cup {"NOTHING", "TASK_SEM"}]
        /\ TickSpokePtr' \in [Tasks -> Spokes \cup {Null}] /\ TickCtrMatch' \in [Tasks -> TickNbrs]
        /\ \A t \in Tasks : Waiting(t)' <=> PendOn'[t] # "NOTHING"
        /\ ~Waiting(IdleTask)'
    BY <1>1, <1>2, <1>3, WakeFields
  <2>2. \A t \in Tasks : TickSpokePtr'[t] # Null =>
              /\ t \in AppTasks /\ TaskState'[t] \in {"DLY", "PEND_TIMEOUT"}
              /\ TickSpokePtr'[t] = TickCtrMatch'[t] % OSCfg_TickWheelSize
              /\ TimeLeft'[t] > 0
    BY <1>1, <1>6, <1>9 DEF FieldsAgree
  <2> QED BY <1>2, <1>7, <2>1, <2>2 DEF FieldsAgree, Delayed
<1>11. Placed(OSCfg_TickWheel', Spokes, TickSpokePtr', TimeLeft')
  <2> DEFINE place == TickSpokePtr'
             new == TimeLeft'
  <2>1. Null \notin Spokes
    BY KernelAssumption
  <2>2. \A t, u \in Tasks : place[t] = place[u] /\ place[t] \in Spokes /\ TimeLeft[t] <= TimeLeft[u]
                               => new[t] <= new[u]
    BY <1>9, <2>1
  <2>3. Placed(OSCfg_TickWheel', Spokes, place, TimeLeft)
    BY <1>5
  <2> HIDE DEF place, new
  <2>4. Placed(OSCfg_TickWheel', Spokes, place, new)
    BY <2>2, <2>3, SamePlaces
  <2> QED BY <2>4 DEF place, new
<1>12. \A p \in Priorities : (\A t \in AppTasks : Prio[t] # p) => Chain(OSRdyList', p) = Chain(OSRdyList, p)
  BY <1>4, <1>5
<1> QED BY <1>3, <1>5, <1>10, <1>11, <1>12 DEF ListsInv

-----------------------------------------------------------------------------
\* The invariant: the processor, semaphores and counters.

Places == {"run", "sched", "sched_pend", "resume", "pend", "update"}
AboutToSched == {"sched", "sched_pend"}

\* The processor: what is pending and what runs.
SwitchInv ==
    /\ OSIntNestingCtr = (IF isr = Null THEN 0 ELSE 1) /\ OSSchedLockNestingCtr \in 0 .. MaxLock
    /\ {OSPrioCur, OSPrioHighRdy} \subseteq Priorities /\ {OSTCBCurPtr, OSTCBHighRdyPtr} \subseteq Tasks
    /\ pendSV \in BOOLEAN /\ isr \in {Null, "post", "robin", "exit"} /\ pc \in [Tasks -> Places]
    /\ isr # Null \/ OSSchedLockNestingCtr > 0 => ~pendSV
    /\ pendSV => OSTCBHighRdyPtr = HighRdy
    /\ isr = Null /\ ~pendSV /\ OSSchedLockNestingCtr = 0 /\ pc[OSTCBCurPtr] \notin AboutToSched
         => OSTCBCurPtr = HighRdy

SemsInv ==
    /\ Ctr \in [Sems -> 0 .. MaxCtr]
    /\ \A s \in Sems : Ctr[s] > 0 => \A t \in Tasks : PendOn[t] # s

CountsTyped ==
    /\ TimeQuantaCtr \in [Tasks -> 0 .. TimeQuanta] /\ TickCtrPrev \in [Tasks -> TickNbrs]
    /\ PendStatus \in [Tasks -> {"OK", "TIMEOUT", "DEL"}]

KInv == ListsInv /\ SemsInv /\ SwitchInv /\ CountsTyped

\* The idle task is always ready, and so the scheduler always finds a task.
LEMMA SomeReady ==
  ASSUME ListsInv
  PROVE  /\ HighRdy \in ReadyTasks /\ OS_PrioGetHighest(OSPrioTbl) \in Priorities
         /\ Prio[HighRdy] = OS_PrioGetHighest(OSPrioTbl)
         /\ \A t \in ReadyTasks : Prio[HighRdy] <= Prio[t]
<1>1. IdleTask \in ReadyTasks
  BY KernelAssumption DEF ListsInv, FieldsAgree, ReadyTasks, Ready, AppTasks
<1>2. ReadyLists(OSRdyList, OSPrioTbl, ReadyTasks)
  BY DEF ListsInv
<1> QED BY <1>1, <1>2, FirstReady DEF HighRdy

\* The same after a step.
LEMMA SomeReadyNext ==
  ASSUME ListsInv'
  PROVE  /\ HighRdy' \in ReadyTasks' /\ OS_PrioGetHighest(OSPrioTbl') \in Priorities
         /\ Prio[HighRdy'] = OS_PrioGetHighest(OSPrioTbl')
         /\ \A t \in ReadyTasks' : Prio[HighRdy'] <= Prio[t]
<1>1. IdleTask \in ReadyTasks'
  BY KernelAssumption DEF ListsInv, FieldsAgree, ReadyTasks, Ready, AppTasks
<1>2. ReadyLists(OSRdyList', OSPrioTbl', ReadyTasks')
  BY DEF ListsInv
<1> DEFINE h == OSRdyList'
           tbl == OSPrioTbl'
           R == ReadyTasks'
<1>3. ReadyLists(h, tbl, R) /\ R # {} /\ HighRdy' = h.HeadPtr[OS_PrioGetHighest(tbl)]
  BY <1>1, <1>2 DEF HighRdy
<1> HIDE DEF h, tbl, R
<1>4. /\ HighRdy' \in R /\ OS_PrioGetHighest(tbl) \in Priorities /\ Prio[HighRdy'] = OS_PrioGetHighest(tbl)
      /\ \A t \in R : OS_PrioGetHighest(tbl) <= Prio[t]
  BY <1>3, FirstReady
<1> QED BY <1>4 DEF tbl, R

\* Whoever calls the kernel, with the scheduler not locked, is ready.
LEMMA CallerReady ==
  ASSUME ListsInv, SwitchInv, NEW t, NEW at \in Places \ AboutToSched, Running(t, at),
         OSSchedLockNestingCtr = 0
  PROVE  t \in ReadyTasks /\ t = HighRdy
BY SomeReady DEF SwitchInv, Running

-----------------------------------------------------------------------------
\* The kinds of steps, for the processor.

\* A call that ends with OSSched.
LEMMA SchedFollows ==
  ASSUME SwitchInv, NEW t, NEW at, Running(t, at), NEW next \in AboutToSched, Goto(t, next),
         UNCHANGED <<switch, OSIntNestingCtr, isr>>, OSSchedLockNestingCtr' \in 0 .. OSSchedLockNestingCtr
  PROVE  SwitchInv'
<1>1. /\ OSPrioCur' = OSPrioCur /\ OSTCBCurPtr' = OSTCBCurPtr /\ OSPrioHighRdy' = OSPrioHighRdy
      /\ OSTCBHighRdyPtr' = OSTCBHighRdyPtr /\ pendSV' = pendSV
      /\ OSIntNestingCtr' = OSIntNestingCtr /\ isr' = isr
  BY DEF switch
<1>2. /\ OSTCBCurPtr = t /\ t \in Tasks /\ ~pendSV /\ pc' = [pc EXCEPT ![t] = next] /\ pc \in [Tasks -> Places]
      /\ OSSchedLockNestingCtr \in 0 .. MaxLock
  BY DEF SwitchInv, Running, Goto
<1>3. pc' \in [Tasks -> Places] /\ pc'[t] \in AboutToSched
  BY <1>2 DEF Places, AboutToSched
<1>4. OSSchedLockNestingCtr' \in 0 .. MaxLock
  BY <1>2, KernelAssumption
<1> QED BY <1>1, <1>2, <1>3, <1>4 DEF SwitchInv

\* A step after which the same task is the first one.
LEMMA SameHighest ==
  ASSUME SwitchInv, UNCHANGED <<switch, locks, isr>>, HighRdy' = HighRdy \/ OSSchedLockNestingCtr > 0,
         ~pendSV \/ HighRdy' = HighRdy,
         \/ pc' = pc
         \/ \E t, at, next : /\ Running(t, at) /\ at \notin AboutToSched
                             /\ next \in Places \ AboutToSched /\ Goto(t, next)
  PROVE  SwitchInv'
<1>1. /\ OSPrioCur' = OSPrioCur /\ OSTCBCurPtr' = OSTCBCurPtr /\ OSPrioHighRdy' = OSPrioHighRdy
      /\ OSTCBHighRdyPtr' = OSTCBHighRdyPtr /\ pendSV' = pendSV
      /\ OSIntNestingCtr' = OSIntNestingCtr /\ OSSchedLockNestingCtr' = OSSchedLockNestingCtr /\ isr' = isr
  BY DEF switch, locks
<1>2. /\ pc' \in [Tasks -> Places] /\ OSTCBCurPtr \in Tasks
      /\ pc'[OSTCBCurPtr] \notin AboutToSched => pc[OSTCBCurPtr] \notin AboutToSched
  <2>1. CASE pc' = pc
    BY <2>1 DEF SwitchInv
  <2>2. ASSUME NEW t, NEW at, NEW next, Running(t, at), at \notin AboutToSched,
               next \in Places \ AboutToSched, Goto(t, next)
        PROVE  /\ pc' \in [Tasks -> Places] /\ OSTCBCurPtr \in Tasks
               /\ pc'[OSTCBCurPtr] \notin AboutToSched => pc[OSTCBCurPtr] \notin AboutToSched
    BY <2>2 DEF SwitchInv, Running, Goto
  <2> QED BY <2>1, <2>2
<1> QED BY <1>1, <1>2 DEF SwitchInv

\* OSSched and OSIntExit that are not held back.
LEMMA Selects ==
  ASSUME SwitchInv, ListsInv', SelectHighest(OSPrioTbl', OSRdyList'),
         isr' = Null, OSIntNestingCtr' = 0, OSSchedLockNestingCtr = 0, OSSchedLockNestingCtr' = 0,
         pc' \in [Tasks -> Places]
  PROVE  SwitchInv'
<1>1. /\ OSPrioHighRdy' = OS_PrioGetHighest(OSPrioTbl') /\ OSTCBHighRdyPtr' = HighRdy'
      /\ pendSV' = (pendSV \/ HighRdy' # OSTCBCurPtr)
      /\ OSPrioCur' = OSPrioCur /\ OSTCBCurPtr' = OSTCBCurPtr
  BY DEF SelectHighest, HighRdy
<1>2. HighRdy' \in Tasks /\ OS_PrioGetHighest(OSPrioTbl') \in Priorities
  BY SomeReadyNext DEF ReadyTasks
<1>3. 0 \in 0 .. MaxLock
  BY KernelAssumption
<1>4. /\ pendSV' \in BOOLEAN /\ (pendSV' => OSTCBHighRdyPtr' = HighRdy')
      /\ (~pendSV' => OSTCBCurPtr' = HighRdy')
  <2>1. pendSV' \in BOOLEAN
    BY <1>1
  <2>2. ~pendSV' => OSTCBCurPtr' = HighRdy'
    BY <1>1
  <2> QED BY <1>1, <2>1, <2>2
<1>5. /\ {OSPrioCur', OSPrioHighRdy'} \subseteq Priorities
      /\ {OSTCBCurPtr', OSTCBHighRdyPtr'} \subseteq Tasks
  BY <1>1, <1>2 DEF SwitchInv
<1> QED BY <1>3, <1>4, <1>5 DEF SwitchInv

\* The end of an interrupt.
LEMMA ExitSelects ==
  ASSUME SwitchInv, ListsInv', NEW nesting, OSIntExit(nesting), nesting = OSIntNestingCtr',
         UNCHANGED OSSchedLockNestingCtr, pc' = pc,
         IF isr' = Null THEN nesting = 0 ELSE nesting = 1 /\ isr' = isr
  PROVE  SwitchInv'
<1>1. CASE nesting > 0 \/ OSSchedLockNestingCtr > 0
  <2>1. UNCHANGED switch
    BY <1>1 DEF OSIntExit
  <2>2. /\ OSPrioCur' = OSPrioCur /\ OSTCBCurPtr' = OSTCBCurPtr /\ OSPrioHighRdy' = OSPrioHighRdy
        /\ OSTCBHighRdyPtr' = OSTCBHighRdyPtr /\ pendSV' = pendSV
    BY <2>1 DEF switch
  <2>3. ~pendSV
    BY <1>1 DEF SwitchInv
  <2>4. isr' = Null => OSSchedLockNestingCtr > 0
    BY <1>1
  <2> HIDE DEF HighRdy
  <2>5. OSSchedLockNestingCtr > 0 => OSSchedLockNestingCtr # 0
    OBVIOUS
  <2> QED BY <2>2, <2>3, <2>4, <2>5 DEF SwitchInv
<1>2. CASE ~(nesting > 0 \/ OSSchedLockNestingCtr > 0)
  <2>1. SelectHighest(OSPrioTbl', OSRdyList')
    BY <1>2 DEF OSIntExit
  <2>2. isr' = Null /\ nesting = 0 /\ OSSchedLockNestingCtr = 0 /\ pc' \in [Tasks -> Places]
    BY <1>2 DEF SwitchInv
  <2> QED BY <2>1, <2>2, Selects
<1> QED BY <1>1, <1>2

\* A step that changes no list.
LEMMA ListsStay ==
  ASSUME ListsInv, UNCHANGED <<ready, wheel, PendList, PendOn, TaskState, OSTickCtr>>
  PROVE  ListsInv' /\ HighRdy' = HighRdy
<1>1. /\ OSRdyList' = OSRdyList /\ OSPrioTbl' = OSPrioTbl /\ OSCfg_TickWheel' = OSCfg_TickWheel
      /\ TickCtrMatch' = TickCtrMatch /\ TickSpokePtr' = TickSpokePtr /\ PendList' = PendList
      /\ PendOn' = PendOn /\ TaskState' = TaskState /\ OSTickCtr' = OSTickCtr
  BY DEF ready, wheel
<1>2. ReadyTasks' = ReadyTasks /\ TimeLeft' = TimeLeft
  BY <1>1 DEF ReadyTasks, Ready, Waiting, Delayed, TimeLeft, Remain
<1>3. FieldsAgree'
  BY <1>1, <1>2 DEF ListsInv, FieldsAgree, Waiting, Delayed
<1>4. HighRdy' = HighRdy
  BY <1>1 DEF HighRdy
<1> QED BY <1>1, <1>2, <1>3, <1>4 DEF ListsInv

\* A step that changes no semaphore, in which nobody begins to wait for one.
LEMMA SemsStay ==
  ASSUME SemsInv, UNCHANGED Ctr, \A t \in Tasks : PendOn'[t] \in {PendOn[t], "NOTHING", "TASK_SEM"}
  PROVE  SemsInv'
<1>1. "NOTHING" \notin Sems /\ "TASK_SEM" \notin Sems
  BY KernelAssumption
<1> QED BY <1>1 DEF SemsInv

\* The tasks that wait for a semaphore, in its list.
LEMMA Waiters ==
  ASSUME ListsInv, NEW s \in Sems
  PROVE  /\ Distinct(Chain(PendList, s), Len(Chain(PendList, s)))
         /\ PendList.NbrEntries[s] = Len(Chain(PendList, s))
         /\ {Chain(PendList, s)[i] : i \in 1 .. Len(Chain(PendList, s))} = {t \in Tasks : PendOn[t] = s}
         /\ \A i \in 1 .. Len(Chain(PendList, s)) : Chain(PendList, s)[i] \notin ReadyTasks
<1> DEFINE c == Chain(PendList, s)
           n == Len(c)
<1>1. Placed(PendList, Sems, PendOn, Prio) /\ Good(PendList, Sems)
  BY DEF ListsInv, Placed
<1>2. /\ n \in Nat /\ c \in [1 .. n -> Tasks] /\ Members(PendList, s) = {c[i] : i \in 1 .. n}
      /\ \A i, j \in 1 .. n : c[i] = c[j] => i = j
      /\ PendList.NbrEntries[s] = n
  BY <1>1, GoodChain
<1>3. {c[i] : i \in 1 .. n} = {t \in Tasks : PendOn[t] = s}
  BY <1>1, <1>2 DEF Placed
<1> HIDE DEF c, n
<1>4. \A i \in 1 .. n : c[i] \in Tasks /\ PendOn[c[i]] = s
  BY <1>2, <1>3
<1>5. s # "NOTHING"
  BY KernelAssumption
<1>6. \A i \in 1 .. n : c[i] \notin ReadyTasks
  BY <1>4, <1>5 DEF ListsInv, FieldsAgree, ReadyTasks, Ready
<1>7. Distinct(c, n)
  BY <1>2 DEF Distinct
<1> QED BY <1>2, <1>3, <1>6, <1>7 DEF c, n

\* What Wake does, for tasks that are not ready.
LEMMA WakeSome ==
  ASSUME ListsInv, CountsTyped, NEW n, NEW ts, Distinct(ts, n), \A i \in 1 .. n : ts[i] \notin ReadyTasks,
         NEW st \in {"OK", "TIMEOUT", "DEL"}, Wake(ts, st)
  PROVE  /\ OSTickCtr' = OSTickCtr => ListsInv'
         /\ PendStatus' \in [Tasks -> {"OK", "TIMEOUT", "DEL"}]
         /\ \A t \in Tasks : PendOn'[t] \in {"NOTHING", PendOn[t]}
         /\ \A i \in 1 .. n : PendOn'[ts[i]] = "NOTHING"
<1>1. OSTickCtr' = OSTickCtr => ListsInv'
  BY WakeKeeps
<1>2. PendStatus' \in [Tasks -> {"OK", "TIMEOUT", "DEL"}]
  BY DEF Wake, CountsTyped
<1>3. \A t \in Tasks : PendOn'[t] \in {"NOTHING", PendOn[t]}
  BY DEF Wake
<1>4. \A i \in 1 .. n : PendOn'[ts[i]] = "NOTHING"
  <2>1. \A i \in 1 .. n : ts[i] \in Tasks /\ ts[i] \in ToSet(ts)
    BY DEF Distinct, ToSet
  <2> QED BY <2>1 DEF Wake
<1> QED BY <1>1, <1>2, <1>3, <1>4

\* A post, by a task or by an interrupt: the first one who waits, or everybody,
\* or the counter.
LEMMA PostKeeps ==
  ASSUME ListsInv, SemsInv, CountsTyped, NEW s \in Sems, NEW all \in BOOLEAN, OS_SemPost(s, all),
         OSTickCtr' = OSTickCtr
  PROVE  /\ ListsInv' /\ SemsInv' /\ PendStatus' \in [Tasks -> {"OK", "TIMEOUT", "DEL"}]
         /\ PendList.NbrEntries[s] = 0 => HighRdy' = HighRdy
         /\ PendList.NbrEntries[s] \in Nat
<1> DEFINE c == Chain(PendList, s)
           n == Len(c)
<1>1. /\ Distinct(c, n) /\ PendList.NbrEntries[s] = n
      /\ {c[i] : i \in 1 .. n} = {t \in Tasks : PendOn[t] = s}
      /\ \A i \in 1 .. n : c[i] \notin ReadyTasks
  BY Waiters
<1> HIDE DEF c, n
<1>2. n \in Nat /\ c \in [1 .. n -> Tasks]
  BY <1>1 DEF Distinct
<1>3. CASE n = 0
  <2>1. /\ Ctr[s] # MaxCtr /\ Ctr' = [Ctr EXCEPT ![s] = Ctr[s] + 1] /\ UNCHANGED <<ready, wheel, pends>>
    BY <1>1, <1>3 DEF OS_SemPost
  <2>2. PendStatus' = PendStatus /\ PendOn' = PendOn /\ UNCHANGED <<PendList, TaskState>>
    BY <2>1 DEF pends
  <2>3. ListsInv' /\ HighRdy' = HighRdy
    BY <2>1, <2>2, ListsStay
  <2>4. \A t \in Tasks : PendOn[t] # s
    BY <1>1, <1>2, <1>3
  <2>5. Ctr' \in [Sems -> 0 .. MaxCtr]
    <3>1. Ctr[s] \in 0 .. MaxCtr /\ Ctr[s] # MaxCtr /\ MaxCtr \in Nat
      BY <2>1, KernelAssumption DEF SemsInv
    <3>2. Ctr[s] + 1 \in 0 .. MaxCtr
      BY <3>1
    <3> QED BY <2>1, <3>2 DEF SemsInv
  <2>6. SemsInv'
    BY <2>1, <2>2, <2>4, <2>5 DEF SemsInv
  <2> QED BY <1>1, <1>2, <2>2, <2>3, <2>6 DEF CountsTyped
<1>4. CASE n # 0
  <2> DEFINE ts == IF all THEN c ELSE <<Head(c)>>
             m == IF all THEN n ELSE 1
  <2>1. Wake(ts, "OK") /\ Ctr' = Ctr
    BY <1>1, <1>4 DEF OS_SemPost, c
  <2>2. Distinct(ts, m) /\ \A i \in 1 .. m : ts[i] \notin ReadyTasks
    <3>1. CASE all
      BY <1>1, <3>1
    <3>2. CASE ~all
      <4>1. 1 \in 1 .. n
        BY <1>2, <1>4
      <4>2. Head(c) = c[1] /\ c[1] \in Tasks /\ c[1] \notin ReadyTasks
        BY <1>1, <1>2, <4>1
      <4>3. <<Head(c)>> \in [1 .. 1 -> Tasks] /\ <<Head(c)>>[1] = Head(c)
        BY <4>2
      <4> QED BY <3>2, <4>2, <4>3 DEF Distinct
    <3> QED BY <3>1, <3>2
  <2> HIDE DEF ts, m
  <2>3. /\ ListsInv' /\ PendStatus' \in [Tasks -> {"OK", "TIMEOUT", "DEL"}]
        /\ \A t \in Tasks : PendOn'[t] \in {"NOTHING", PendOn[t]}
    BY <2>1, <2>2, WakeSome
  <2>4. SemsInv'
    BY <2>1, <2>3, SemsStay
  <2> QED BY <1>1, <1>2, <1>4, <2>3, <2>4
<1> QED BY <1>3, <1>4

\* A step with the scheduler locked, and a step of the tick interrupt.
LEMMA StaysLocked ==
  ASSUME SwitchInv, ~pendSV, UNCHANGED <<switch, OSIntNestingCtr, isr>>,
         OSSchedLockNestingCtr' \in 1 .. MaxLock, pc' \in [Tasks -> Places]
  PROVE  SwitchInv'
<1>1. /\ OSPrioCur' = OSPrioCur /\ OSTCBCurPtr' = OSTCBCurPtr /\ OSPrioHighRdy' = OSPrioHighRdy
      /\ OSTCBHighRdyPtr' = OSTCBHighRdyPtr /\ pendSV' = pendSV
      /\ OSIntNestingCtr' = OSIntNestingCtr /\ isr' = isr
  BY DEF switch
<1>2. OSSchedLockNestingCtr' \in 0 .. MaxLock /\ OSSchedLockNestingCtr' # 0
  BY KernelAssumption
<1> QED BY <1>1, <1>2 DEF SwitchInv

\* A step of the tick interrupt.
LEMMA InInterrupt ==
  ASSUME SwitchInv, ~pendSV, UNCHANGED <<switch, OSSchedLockNestingCtr, pc>>,
         isr' \in {"post", "robin", "exit"}, OSIntNestingCtr' = 1
  PROVE  SwitchInv'
<1>1. /\ OSPrioCur' = OSPrioCur /\ OSTCBCurPtr' = OSTCBCurPtr /\ OSPrioHighRdy' = OSPrioHighRdy
      /\ OSTCBHighRdyPtr' = OSTCBHighRdyPtr /\ pendSV' = pendSV /\ pc' = pc
      /\ OSSchedLockNestingCtr' = OSSchedLockNestingCtr
  BY DEF switch
<1>2. isr' # Null
  BY KernelAssumption
<1> QED BY <1>1, <1>2 DEF SwitchInv

\* The lists and counters, in a step that changes none of them.
LEMMA OnlySwitch ==
  ASSUME ListsInv, SemsInv, CountsTyped,
         UNCHANGED <<ready, wheel, PendList, PendOn, TaskState, OSTickCtr, Ctr, TimeQuantaCtr, TickCtrPrev, PendStatus>>
  PROVE  ListsInv' /\ SemsInv' /\ CountsTyped' /\ HighRdy' = HighRdy
<1>1. ListsInv' /\ HighRdy' = HighRdy
  BY ListsStay
<1>2. SemsInv'
  BY SemsStay
<1>3. CountsTyped'
  BY DEF CountsTyped
<1> QED BY <1>1, <1>2, <1>3

-----------------------------------------------------------------------------
\* The steps, one by one.  OSSched asks for the switch.
LEMMA SchedKeeps ==
  ASSUME KInv, NEW t, OSSched(t)
  PROVE  KInv'
<1>1. ListsInv /\ SemsInv /\ SwitchInv /\ CountsTyped
  BY DEF KInv
<1>2. ListsInv' /\ SemsInv' /\ CountsTyped'
  <2>1. UNCHANGED <<ready, wheel, PendList, PendOn, TaskState, OSTickCtr, Ctr, TimeQuantaCtr, TickCtrPrev, PendStatus>>
    BY DEF OSSched, robin, pends
  <2> QED BY <1>1, <2>1, OnlySwitch
<1>3. /\ isr = Null /\ ~pendSV /\ pc' \in [Tasks -> Places] /\ OSIntNestingCtr = 0
      /\ isr' = isr /\ OSIntNestingCtr' = OSIntNestingCtr /\ OSSchedLockNestingCtr' = OSSchedLockNestingCtr
      /\ OSRdyList' = OSRdyList /\ OSPrioTbl' = OSPrioTbl
  BY <1>1 DEF OSSched, Running, Goto, SwitchInv, Places, locks, ready
<1>4. CASE OSSchedLockNestingCtr > 0
  <2>1. UNCHANGED switch
    BY <1>4 DEF OSSched
  <2>2. OSSchedLockNestingCtr \in 1 .. MaxLock
    BY <1>1, <1>4 DEF SwitchInv
  <2>3. SwitchInv'
    BY <1>1, <1>3, <2>1, <2>2, StaysLocked
  <2> QED BY <1>2, <2>3 DEF KInv
<1>5. CASE ~(OSSchedLockNestingCtr > 0)
  <2>1. SelectHighest(OSPrioTbl', OSRdyList')
    BY <1>3, <1>5 DEF OSSched
  <2>2. OSSchedLockNestingCtr = 0
    BY <1>1, <1>5 DEF SwitchInv
  <2>3. SwitchInv'
    BY <1>1, <1>2, <1>3, <2>1, <2>2, Selects
  <2> QED BY <1>2, <2>3 DEF KInv
<1> QED BY <1>4, <1>5

\* PendSV switches to the first ready task.
LEMMA PendSVKeeps ==
  ASSUME KInv, OS_CPU_PendSVHandler
  PROVE  KInv'
<1>1. ListsInv /\ SemsInv /\ SwitchInv /\ CountsTyped
  BY DEF KInv
<1>2. ListsInv' /\ SemsInv' /\ CountsTyped' /\ HighRdy' = HighRdy
  <2>1. UNCHANGED <<ready, wheel, PendList, PendOn, TaskState, OSTickCtr, Ctr, TimeQuantaCtr, TickCtrPrev, PendStatus>>
    BY DEF OS_CPU_PendSVHandler, robin, pends
  <2> QED BY <1>1, <2>1, OnlySwitch
<1>3. /\ pendSV /\ OSPrioCur' = OSPrioHighRdy /\ OSTCBCurPtr' = OSTCBHighRdyPtr /\ pendSV' = FALSE
      /\ OSPrioHighRdy' = OSPrioHighRdy /\ OSTCBHighRdyPtr' = OSTCBHighRdyPtr /\ pc' = pc /\ isr' = isr
      /\ OSIntNestingCtr' = OSIntNestingCtr /\ OSSchedLockNestingCtr' = OSSchedLockNestingCtr
  BY DEF OS_CPU_PendSVHandler, locks
<1>4. SwitchInv'
  BY <1>1, <1>2, <1>3 DEF SwitchInv
<1> QED BY <1>2, <1>4 DEF KInv

\* The lock of the scheduler: the last unlock goes to OSSched.
LEMMA LockKeeps ==
  ASSUME KInv, NEW t, OSSchedLock(t) \/ OSSchedUnlock(t)
  PROVE  KInv'
<1>1. ListsInv /\ SemsInv /\ SwitchInv /\ CountsTyped
  BY DEF KInv
<1>2. ListsInv' /\ SemsInv' /\ CountsTyped' /\ HighRdy' = HighRdy
  <2>1. UNCHANGED <<ready, wheel, PendList, PendOn, TaskState, OSTickCtr, Ctr, TimeQuantaCtr, TickCtrPrev, PendStatus>>
    BY DEF OSSchedLock, OSSchedUnlock, robin, pends
  <2> QED BY <1>1, <2>1, OnlySwitch
<1>3. /\ Running(t, "run") /\ ~pendSV /\ UNCHANGED <<switch, OSIntNestingCtr, isr>>
      /\ OSSchedLockNestingCtr \in 0 .. MaxLock /\ MaxLock \in Nat /\ pc \in [Tasks -> Places]
  BY <1>1, KernelAssumption DEF OSSchedLock, OSSchedUnlock, Running, SwitchInv
<1>4. CASE OSSchedLock(t)
  <2>1. OSSchedLockNestingCtr' = OSSchedLockNestingCtr + 1 /\ OSSchedLockNestingCtr < MaxLock /\ pc' = pc
    BY <1>4 DEF OSSchedLock
  <2>2. OSSchedLockNestingCtr' \in 1 .. MaxLock /\ pc' \in [Tasks -> Places]
    BY <1>3, <2>1
  <2> QED BY <1>1, <1>2, <1>3, <2>2, StaysLocked DEF KInv
<1>5. CASE OSSchedUnlock(t)
  <2>1. /\ OSSchedLockNestingCtr' = OSSchedLockNestingCtr - 1 /\ OSSchedLockNestingCtr > 0
        /\ IF OSSchedLockNestingCtr = 1 THEN Goto(t, "sched") ELSE pc' = pc
    BY <1>5 DEF OSSchedUnlock
  <2>2. CASE OSSchedLockNestingCtr = 1
    <3>1. "sched" \in AboutToSched /\ Goto(t, "sched") /\ OSSchedLockNestingCtr' \in 0 .. OSSchedLockNestingCtr
      BY <2>1, <2>2 DEF AboutToSched
    <3>2. SwitchInv'
      BY <1>1, <1>3, <3>1, SchedFollows
    <3> QED BY <1>2, <3>2 DEF KInv
  <2>3. CASE OSSchedLockNestingCtr # 1
    <3>1. OSSchedLockNestingCtr' \in 1 .. MaxLock /\ pc' \in [Tasks -> Places]
      BY <1>3, <2>1, <2>3
    <3> QED BY <1>1, <1>2, <1>3, <3>1, StaysLocked DEF KInv
  <2> QED BY <2>2, <2>3
<1> QED BY <1>4, <1>5

\* Calls that only go on.
LEMMA GoesOn ==
  ASSUME KInv, NEW t, \/ OSSemPend_return(t)
                      \/ \E en \in BOOLEAN : OSSchedRoundRobinCfg(t, en)
                      \/ OSTaskSemPend /\ pc[TickTask] # "pend"
  PROVE  KInv'
<1>1. ListsInv /\ SemsInv /\ SwitchInv /\ CountsTyped
  BY DEF KInv
<1>2. ListsInv' /\ SemsInv' /\ CountsTyped' /\ HighRdy' = HighRdy
  <2>1. UNCHANGED <<ready, wheel, PendList, PendOn, TaskState, OSTickCtr, Ctr, TimeQuantaCtr, TickCtrPrev, PendStatus>>
    BY DEF OSSemPend_return, OSSchedRoundRobinCfg, OSTaskSemPend, Running, robin, pends
  <2> QED BY <1>1, <2>1, OnlySwitch
<1>3. UNCHANGED <<switch, locks, isr>>
  BY DEF OSSemPend_return, OSSchedRoundRobinCfg, OSTaskSemPend
<1>4. \/ pc' = pc
      \/ \E u, at, next : /\ Running(u, at) /\ at \notin AboutToSched
                          /\ next \in Places \ AboutToSched /\ Goto(u, next)
  <2>1. CASE OSSemPend_return(t)
    <3>1. Running(t, "resume") /\ Goto(t, "run") /\ "resume" \notin AboutToSched /\ "run" \in Places \ AboutToSched
      BY <2>1 DEF OSSemPend_return, Places, AboutToSched
    <3> QED BY <3>1
  <2>2. CASE \E en \in BOOLEAN : OSSchedRoundRobinCfg(t, en)
    BY <2>2 DEF OSSchedRoundRobinCfg
  <2>3. CASE OSTaskSemPend /\ pc[TickTask] # "pend"
    <3>1. /\ Running(TickTask, "resume") /\ Goto(TickTask, "update") /\ "resume" \notin AboutToSched
          /\ "update" \in Places \ AboutToSched
      BY <2>3 DEF OSTaskSemPend, Running, Places, AboutToSched
    <3> QED BY <3>1
  <2> QED BY <2>1, <2>2, <2>3
<1>5. SwitchInv'
  BY <1>1, <1>2, <1>3, <1>4, SameHighest
<1> QED BY <1>2, <1>5 DEF KInv

\* Rotation of a ready list, by a call and by the tick.
LEMMA RotateKeeps ==
  ASSUME ListsInv, NEW l \in Priorities, NEW quanta \in [Tasks -> 0 .. TimeQuanta], Rotate(l, quanta),
         UNCHANGED <<wheel, PendList, PendOn, TaskState, OSTickCtr>>
  PROVE  ListsInv' /\ TimeQuantaCtr' \in [Tasks -> 0 .. TimeQuanta]
<1>1. /\ OSRdyList' = MoveHeadToTail(OSRdyList, l) /\ OSPrioTbl' = OSPrioTbl
      /\ OSCfg_TickWheel' = OSCfg_TickWheel
      /\ TickCtrMatch' = TickCtrMatch /\ TickSpokePtr' = TickSpokePtr /\ PendList' = PendList
      /\ PendOn' = PendOn /\ TaskState' = TaskState /\ OSTickCtr' = OSTickCtr
  BY DEF Rotate, wheel
<1>2. ReadyTasks' = ReadyTasks /\ TimeLeft' = TimeLeft
  BY <1>1 DEF ReadyTasks, Ready, Waiting, Delayed, TimeLeft, Remain
<1>3. FieldsAgree'
  BY <1>1, <1>2 DEF ListsInv, FieldsAgree, Waiting, Delayed
<1>4. ReadyLists(MoveHeadToTail(OSRdyList, l), OSPrioTbl, ReadyTasks)
  BY ReadyMoves DEF ListsInv
<1>5. TimeQuantaCtr' \in [Tasks -> 0 .. TimeQuanta]
  <2>1. TimeQuanta \in 0 .. TimeQuanta
    BY KernelAssumption
  <2> QED BY <2>1 DEF Rotate
<1> QED BY <1>1, <1>2, <1>3, <1>4, <1>5 DEF ListsInv

\* OSSchedRoundRobinYield.
LEMMA YieldKeeps ==
  ASSUME KInv, NEW t, OSSchedRoundRobinYield(t)
  PROVE  KInv'
<1>1. ListsInv /\ SemsInv /\ SwitchInv /\ CountsTyped
  BY DEF KInv
<1>2. ListsInv' /\ TimeQuantaCtr' \in [Tasks -> 0 .. TimeQuanta]
  <2>1. Rotate(OSPrioCur, TimeQuantaCtr) /\ UNCHANGED <<wheel, PendList, PendOn, TaskState, OSTickCtr>>
    BY DEF OSSchedRoundRobinYield, pends
  <2>2. OSPrioCur \in Priorities /\ TimeQuantaCtr \in [Tasks -> 0 .. TimeQuanta]
    BY <1>1 DEF SwitchInv, CountsTyped
  <2> QED BY <1>1, <2>1, <2>2, RotateKeeps
<1>3. UNCHANGED Ctr /\ PendOn' = PendOn /\ TickCtrPrev' = TickCtrPrev /\ PendStatus' = PendStatus
  BY DEF OSSchedRoundRobinYield, pends
<1>4. SemsInv' /\ CountsTyped'
  BY <1>1, <1>2, <1>3, SemsStay DEF CountsTyped
<1>5. SwitchInv'
  <2>1. /\ Running(t, "run") /\ "sched" \in AboutToSched /\ Goto(t, "sched")
        /\ UNCHANGED <<switch, OSIntNestingCtr, isr>> /\ OSSchedLockNestingCtr' = OSSchedLockNestingCtr
    BY DEF OSSchedRoundRobinYield, AboutToSched, locks
  <2>2. OSSchedLockNestingCtr' \in 0 .. OSSchedLockNestingCtr
    BY <1>1, <2>1, KernelAssumption DEF SwitchInv
  <2> QED BY <1>1, <2>1, <2>2, SchedFollows
<1> QED BY <1>2, <1>4, <1>5 DEF KInv

\* OSTimeDly, with and without an error.
LEMMA DelayKeeps ==
  ASSUME KInv, NEW t \in AppTasks, Delay(t)
  PROVE  KInv'
<1>1. ListsInv /\ SemsInv /\ SwitchInv /\ CountsTyped
  BY DEF KInv
<1>2. ASSUME NEW time, OSTimeDly_zero(t, time)
      PROVE  KInv'
  <2>1. /\ Running(t, "run") /\ OSSchedLockNestingCtr = 0 /\ UNCHANGED <<switch, locks, isr>> /\ pc' = pc
        /\ UNCHANGED <<Ctr, TickCtrPrev, TimeQuantaCtr, PendOn, PendStatus, OSRdyList, OSPrioTbl>>
    BY <1>2 DEF OSTimeDly_zero, robin, ready
  <2>2. t \in ReadyTasks
    BY <1>1, <2>1, CallerReady DEF Places, AboutToSched
  <2>3. ListsInv'
    BY <1>1, <1>2, <2>2, RefusedKeeps
  <2>4. HighRdy' = HighRdy
    BY <2>1 DEF HighRdy
  <2>5. SwitchInv'
    BY <1>1, <2>1, <2>4, SameHighest
  <2>6. SemsInv' /\ CountsTyped'
    BY <1>1, <2>1, SemsStay DEF CountsTyped
  <2> QED BY <2>3, <2>5, <2>6 DEF KInv
<1>3. ASSUME NEW opt \in {"DLY", "PERIODIC", "MATCH"}, NEW time \in TickNbrs,
             opt # "MATCH" => time \in Times,
             opt = "MATCH" => ~TooFar(time) /\ "MATCH" \in Calls[t], OSTimeDly(t, time, opt)
      PROVE  KInv'
  <2>1. /\ Running(t, "run") /\ OSSchedLockNestingCtr = 0 /\ UNCHANGED <<switch, locks, isr>> /\ Goto(t, "sched")
        /\ UNCHANGED <<Ctr, TimeQuantaCtr, PendOn, PendStatus>>
    BY <1>3 DEF OSTimeDly, robin
  <2>2. t \in ReadyTasks
    BY <1>1, <2>1, CallerReady DEF Places, AboutToSched
  <2>3. TickCtrPrev \in [Tasks -> TickNbrs]
    BY <1>1 DEF CountsTyped
  <2>4. ListsInv' /\ TickCtrPrev' \in [Tasks -> TickNbrs]
    BY <1>1, <1>3, <2>2, <2>3, DelayLists
  <2>5. "sched" \in AboutToSched /\ OSSchedLockNestingCtr' \in 0 .. OSSchedLockNestingCtr
        /\ OSIntNestingCtr' = OSIntNestingCtr
    BY <2>1 DEF AboutToSched, locks
  <2>6. SwitchInv'
    BY <1>1, <2>1, <2>5, SchedFollows
  <2>7. SemsInv' /\ CountsTyped'
    BY <1>1, <2>1, <2>4, SemsStay DEF CountsTyped
  <2> QED BY <2>4, <2>6, <2>7 DEF KInv
<1>4. Times \subseteq TickNbrs
  BY KernelAssumption, TickArithmetic DEF TickNbrs
<1>5. CASE \E opt \in {"DLY", "PERIODIC"} \cap Calls[t], time \in Times : OSTimeDly(t, time, opt)
  <2>1. PICK opt \in {"DLY", "PERIODIC"} \cap Calls[t], time \in Times : OSTimeDly(t, time, opt)
    BY <1>5
  <2>2. opt \in {"DLY", "PERIODIC", "MATCH"} /\ time \in TickNbrs /\ opt # "MATCH"
    BY <1>4
  <2> QED BY <1>3, <2>1, <2>2
<1>6. CASE "MATCH" \in Calls[t] /\ \E time \in TickNbrs : \/ ~TooFar(time) /\ OSTimeDly(t, time, "MATCH")
                                                          \/ OSTimeDly_zero(t, time)
  <2>1. PICK time \in TickNbrs : \/ ~TooFar(time) /\ OSTimeDly(t, time, "MATCH")
                                 \/ OSTimeDly_zero(t, time)
    BY <1>6
  <2>2. CASE ~TooFar(time) /\ OSTimeDly(t, time, "MATCH")
    BY <1>3, <1>6, <2>2
  <2>3. CASE OSTimeDly_zero(t, time)
    BY <1>2, <2>3
  <2> QED BY <2>1, <2>2, <2>3
<1> QED BY <1>5, <1>6 DEF Delay

\* A task waits, for a semaphore or for its own.
LEMMA PendKeeps ==
  ASSUME KInv, NEW t, t # IdleTask, NEW at \in Places \ AboutToSched, Running(t, at),
         OSSchedLockNestingCtr = 0, NEW obj \in Sems \cup {"TASK_SEM"}, NEW timeout \in {0} \cup Times,
         timeout # 0 => t \in AppTasks, obj \in Sems => Ctr[obj] = 0,
         OS_Pend(t, obj, timeout), Goto(t, "sched_pend"),
         UNCHANGED <<switch, locks, TimeQuantaCtr, TickCtrPrev, OSTickCtr, Ctr, isr>>
  PROVE  KInv'
<1>1. ListsInv /\ SemsInv /\ SwitchInv /\ CountsTyped
  BY DEF KInv
<1>2. t \in ReadyTasks
  BY <1>1, CallerReady
<1>3. ListsInv'
  BY <1>1, <1>2, PendLists
<1>4. PendOn' = [PendOn EXCEPT ![t] = obj] /\ PendStatus' = [PendStatus EXCEPT ![t] = "OK"]
  BY DEF OS_Pend
<1>5. Ctr' = Ctr /\ "TASK_SEM" \notin Sems
  BY KernelAssumption
<1>6. PendOn \in [Tasks -> Sems \cup {"NOTHING", "TASK_SEM"}]
  BY <1>1 DEF ListsInv, FieldsAgree
<1>7. SemsInv'
  <2>1. Ctr' \in [Sems -> 0 .. MaxCtr]
    BY <1>1, <1>5 DEF SemsInv
  <2>2. ASSUME NEW s \in Sems, Ctr'[s] > 0, NEW u \in Tasks PROVE PendOn'[u] # s
    <3>1. s # obj
      BY <1>5, <2>2
    <3>2. PendOn[u] # s
      BY <1>1, <1>5, <2>2 DEF SemsInv
    <3> QED BY <1>4, <1>6, <3>1, <3>2
  <2> QED BY <2>1, <2>2 DEF SemsInv
<1>8. CountsTyped'
  BY <1>1, <1>4 DEF CountsTyped
<1>9. SwitchInv'
  <2>1. "sched_pend" \in AboutToSched /\ OSSchedLockNestingCtr' \in 0 .. OSSchedLockNestingCtr
        /\ OSIntNestingCtr' = OSIntNestingCtr
    BY DEF AboutToSched, locks
  <2> QED BY <1>1, <2>1, SchedFollows
<1> QED BY <1>3, <1>7, <1>8, <1>9 DEF KInv

\* OSSemPend, when the counter is 0.
LEMMA SemPendKeeps ==
  ASSUME KInv, NEW t \in AppTasks, NEW s \in Sems, NEW timeout \in {0} \cup Times,
         OSSemPend_block(t, s, timeout)
  PROVE  KInv'
<1>1. /\ Running(t, "run") /\ Ctr[s] = 0 /\ OSSchedLockNestingCtr = 0
      /\ OS_Pend(t, s, timeout) /\ Goto(t, "sched_pend")
      /\ UNCHANGED <<switch, locks, TimeQuantaCtr, TickCtrPrev, OSTickCtr, Ctr, isr>>
  BY DEF OSSemPend_block, robin
<1>2. "run" \in Places \ AboutToSched /\ t # IdleTask /\ s \in Sems \cup {"TASK_SEM"}
  BY DEF Places, AboutToSched, AppTasks
<1> QED BY <1>1, <1>2, PendKeeps

\* OSTaskSemPend of the tick task.
LEMMA TaskSemPendKeeps ==
  ASSUME KInv, OSTaskSemPend
  PROVE  KInv'
<1>1. CASE pc[TickTask] = "pend"
  <2>1. /\ OSSchedLockNestingCtr = 0 /\ Running(TickTask, "pend") /\ Goto(TickTask, "sched_pend")
        /\ OS_Pend(TickTask, "TASK_SEM", 0)
        /\ UNCHANGED <<switch, locks, TimeQuantaCtr, TickCtrPrev, OSTickCtr, Ctr, isr>>
    BY <1>1 DEF OSTaskSemPend, Running, robin
  <2>2. /\ "pend" \in Places \ AboutToSched /\ TickTask # IdleTask /\ "TASK_SEM" \in Sems \cup {"TASK_SEM"}
        /\ "TASK_SEM" \notin Sems /\ 0 \in {0} \cup Times
    BY KernelAssumption DEF Places, AboutToSched
  <2> QED BY <2>1, <2>2, PendKeeps
<1>2. CASE pc[TickTask] # "pend"
  BY <1>2, GoesOn
<1> QED BY <1>1, <1>2

\* OSSemPost of a task.
LEMMA PostStep ==
  ASSUME KInv, NEW t, NEW s \in Sems, NEW all \in BOOLEAN, OSSemPost(t, s, all)
  PROVE  KInv'
<1>1. ListsInv /\ SemsInv /\ SwitchInv /\ CountsTyped
  BY DEF KInv
<1>2. /\ Running(t, "run") /\ OS_SemPost(s, all) /\ OSTickCtr' = OSTickCtr
      /\ IF PendList.NbrEntries[s] > 0 THEN Goto(t, "sched") ELSE pc' = pc
      /\ UNCHANGED <<switch, locks, TimeQuantaCtr, TickCtrPrev, isr>>
      /\ OSIntNestingCtr' = OSIntNestingCtr /\ OSSchedLockNestingCtr' = OSSchedLockNestingCtr
  BY DEF OSSemPost, robin, locks
<1>3. /\ ListsInv' /\ SemsInv' /\ PendStatus' \in [Tasks -> {"OK", "TIMEOUT", "DEL"}]
      /\ PendList.NbrEntries[s] = 0 => HighRdy' = HighRdy
      /\ PendList.NbrEntries[s] \in Nat
  BY <1>1, <1>2, PostKeeps
<1>4. CountsTyped'
  BY <1>1, <1>2, <1>3 DEF CountsTyped
<1>5. SwitchInv'
  <2>1. CASE PendList.NbrEntries[s] > 0
    <3>1. "sched" \in AboutToSched /\ OSSchedLockNestingCtr' \in 0 .. OSSchedLockNestingCtr
      BY <1>1, <1>2, KernelAssumption DEF AboutToSched, SwitchInv
    <3> QED BY <1>1, <1>2, <2>1, <3>1, SchedFollows
  <2>2. CASE ~(PendList.NbrEntries[s] > 0)
    <3>1. HighRdy' = HighRdy /\ pc' = pc
      BY <1>2, <1>3, <2>2
    <3> QED BY <1>1, <1>2, <3>1, SameHighest
  <2> QED BY <2>1, <2>2
<1> QED BY <1>3, <1>4, <1>5 DEF KInv

\* A list that nobody waits in is the one that OS_PendListInit makes.
LEMMA CreateOfUnused ==
  ASSUME ListsInv, NEW t, NEW s \in Sems, NEW cnt, NobodyWaits(s), OSSemCreate(t, s, cnt)
  PROVE  PendList' = PendList
<1> DEFINE h == PendList
<1>1. h \in ListsOf(Sems) /\ Spells(h, s, Len(Chain(h, s)), Chain(h, s))
  BY DEF ListsInv, Placed, Good
<1>2. h.NbrEntries[s] = 0
  BY DEF NobodyWaits
<1>3. PendList' = OS_PendListInit(h, s)
  BY DEF OSSemCreate
<1> HIDE DEF h
<1>4. h.HeadPtr[s] = Null /\ h.TailPtr[s] = Null
  BY <1>1, <1>2 DEF Spells
<1>5. OS_PendListInit(h, s) = h
  BY <1>1, <1>2, <1>4 DEF OS_PendListInit, ListsOf
<1> QED BY <1>3, <1>5 DEF h

\* The calls that only change the counter.
LEMMA CounterKeeps ==
  ASSUME KInv, NEW t, NEW s \in Sems,
         \/ OSSemPend_take(t, s)
         \/ \E cnt \in 0 .. MaxCtr : OSSemSet(t, s, cnt) \/ (NobodyWaits(s) /\ OSSemCreate(t, s, cnt))
  PROVE  KInv'
<1>1. ListsInv /\ SemsInv /\ SwitchInv /\ CountsTyped
  BY DEF KInv
<1>2. /\ UNCHANGED <<switch, locks, isr, TimeQuantaCtr, TickCtrPrev, PendStatus>> /\ pc' = pc
      /\ UNCHANGED <<ready, wheel, PendList, PendOn, TaskState, OSTickCtr>>
  BY <1>1, CreateOfUnused DEF OSSemPend_take, OSSemSet, OSSemCreate, robin, pends
<1>3. ListsInv' /\ HighRdy' = HighRdy
  BY <1>1, <1>2, ListsStay
<1>4. SwitchInv'
  BY <1>1, <1>2, <1>3, SameHighest
<1>5. PendOn' = PendOn
  BY <1>2
<1>6. SemsInv'
  <2>1. CASE OSSemPend_take(t, s)
    <3>1. Ctr[s] > 0 /\ Ctr' = [Ctr EXCEPT ![s] = Ctr[s] - 1]
      BY <2>1 DEF OSSemPend_take
    <3>2. Ctr[s] - 1 \in 0 .. MaxCtr
      BY <1>1, <3>1, KernelAssumption DEF SemsInv
    <3>3. Ctr' \in [Sems -> 0 .. MaxCtr] /\ \A r \in Sems : Ctr'[r] > 0 => Ctr[r] > 0
      BY <1>1, <3>1, <3>2 DEF SemsInv
    <3> QED BY <1>1, <1>5, <3>1, <3>3 DEF SemsInv
  <2>2. ASSUME NEW cnt \in 0 .. MaxCtr, OSSemSet(t, s, cnt) \/ (NobodyWaits(s) /\ OSSemCreate(t, s, cnt))
        PROVE  SemsInv'
    <3>1. Ctr' = [Ctr EXCEPT ![s] = cnt] /\ (Ctr[s] > 0 \/ PendList.NbrEntries[s] = 0)
      BY <2>2 DEF OSSemSet, OSSemCreate, NobodyWaits
    <3>2. \A u \in Tasks : PendOn[u] # s
      <4>1. CASE Ctr[s] > 0
        BY <1>1, <4>1 DEF SemsInv
      <4>2. CASE PendList.NbrEntries[s] = 0
        <5>1. /\ {Chain(PendList, s)[i] : i \in 1 .. Len(Chain(PendList, s))} = {u \in Tasks : PendOn[u] = s}
              /\ Len(Chain(PendList, s)) = 0
          BY <1>1, <4>2, Waiters
        <5> QED BY <5>1
      <4> QED BY <3>1, <4>1, <4>2
    <3> QED BY <1>1, <1>5, <3>1, <3>2 DEF SemsInv
  <2> QED BY <2>1, <2>2
<1>7. CountsTyped'
  BY <1>1, <1>2 DEF CountsTyped
<1> QED BY <1>3, <1>4, <1>6, <1>7 DEF KInv

\* Waking nobody changes nothing for the scheduler.
LEMMA SameHead ==
  ASSUME ListsInv, ListsInv', ReadyTasks \subseteq ReadyTasks',
         \A t \in ReadyTasks' : Prio[HighRdy] <= Prio[t],
         Chain(OSRdyList', Prio[HighRdy]) = Chain(OSRdyList, Prio[HighRdy])
  PROVE  HighRdy' = HighRdy
<1> DEFINE l == OS_PrioGetHighest(OSPrioTbl)
           m == OS_PrioGetHighest(OSPrioTbl')
<1>1. /\ HighRdy \in ReadyTasks /\ l \in Priorities /\ Prio[HighRdy] = l
  BY SomeReady
<1>2. /\ HighRdy' \in ReadyTasks' /\ m \in Priorities /\ Prio[HighRdy'] = m
      /\ \A t \in ReadyTasks' : Prio[HighRdy'] <= Prio[t]
  BY SomeReadyNext
<1>3. HighRdy = OSRdyList.HeadPtr[l] /\ HighRdy' = OSRdyList'.HeadPtr[m]
  BY DEF HighRdy
<1>4. /\ Good(OSRdyList, Priorities) /\ Placed(OSRdyList, Priorities, PlaceIn(ReadyTasks), NoOrder)
      /\ Good(OSRdyList', Priorities) /\ Placed(OSRdyList', Priorities, PlaceIn(ReadyTasks'), NoOrder)
      /\ ReadyTasks \in SUBSET Tasks /\ ReadyTasks' \in SUBSET Tasks
  BY DEF ListsInv, ReadyLists, Placed
<1> HIDE DEF l, m, HighRdy, ReadyTasks
<1>5. m = l
  <2>1. m <= l /\ l <= m
    BY <1>1, <1>2
  <2> QED BY <1>1, <1>2, <2>1 DEF Priorities
<1>6. Members(OSRdyList, l) # {} /\ Members(OSRdyList', l) # {}
  <2>1. HighRdy \in Members(OSRdyList, l)
    <3>1. PlaceIn(ReadyTasks)[HighRdy] = l
      BY <1>1, <1>4 DEF PlaceIn
    <3> QED BY <1>1, <1>4, <3>1 DEF Placed
  <2>2. HighRdy \in Members(OSRdyList', l)
    <3> DEFINE R == ReadyTasks'
    <3>1. PlaceIn(R)[HighRdy] = l
      BY <1>1, <1>4 DEF PlaceIn
    <3>2. Members(OSRdyList', l) = {t \in Tasks : PlaceIn(R)[t] = l}
      BY <1>1, <1>4 DEF Placed
    <3> HIDE DEF R
    <3> QED BY <1>1, <1>4, <3>1, <3>2
  <2> QED BY <2>1, <2>2
<1>7. OSRdyList.HeadPtr[l] = Chain(OSRdyList, l)[1]
  BY <1>1, <1>4, <1>6, HeadOfList
<1>8. OSRdyList'.HeadPtr[l] = Chain(OSRdyList', l)[1]
  <2> DEFINE h == OSRdyList'
  <2>1. Good(h, Priorities) /\ Members(h, l) # {}
    BY <1>4, <1>6
  <2> HIDE DEF h
  <2>2. h.HeadPtr[l] = Chain(h, l)[1]
    BY <1>1, <2>1, HeadOfList
  <2> QED BY <2>2 DEF h
<1> QED BY <1>1, <1>3, <1>5, <1>7, <1>8

\* OSSemDel: everybody who waits is woken, and the counter is 0.
LEMMA DelKeeps ==
  ASSUME KInv, NEW t, NEW s \in Sems, NEW always \in BOOLEAN, OSSemDel(t, s, always)
  PROVE  KInv'
<1> DEFINE c == Chain(PendList, s)
           n == Len(c)
<1>1. ListsInv /\ SemsInv /\ SwitchInv /\ CountsTyped
  BY DEF KInv
<1>2. /\ Running(t, "run") /\ (always \/ PendList.NbrEntries[s] = 0)
      /\ Wake(c, "DEL") /\ Ctr' = [Ctr EXCEPT ![s] = 0]
      /\ IF always THEN Goto(t, "sched") ELSE pc' = pc
      /\ UNCHANGED <<switch, locks, TimeQuantaCtr, TickCtrPrev, isr>> /\ OSTickCtr' = OSTickCtr
      /\ OSIntNestingCtr' = OSIntNestingCtr /\ OSSchedLockNestingCtr' = OSSchedLockNestingCtr
  BY DEF OSSemDel, robin, locks
<1>3. /\ Distinct(c, n) /\ PendList.NbrEntries[s] = n
      /\ {c[i] : i \in 1 .. n} = {u \in Tasks : PendOn[u] = s}
      /\ \A i \in 1 .. n : c[i] \notin ReadyTasks
  BY <1>1, Waiters
<1> HIDE DEF c, n
<1>4. /\ ListsInv' /\ PendStatus' \in [Tasks -> {"OK", "TIMEOUT", "DEL"}]
      /\ \A u \in Tasks : PendOn'[u] \in {"NOTHING", PendOn[u]}
      /\ \A i \in 1 .. n : PendOn'[c[i]] = "NOTHING"
  BY <1>1, <1>2, <1>3, WakeSome
<1>5. SemsInv'
  <2>1. "NOTHING" \notin Sems /\ 0 \in 0 .. MaxCtr
    BY KernelAssumption
  <2>2. \A u \in Tasks : PendOn'[u] # s
    BY <1>3, <1>4, <2>1
  <2>3. Ctr' \in [Sems -> 0 .. MaxCtr]
    BY <1>1, <1>2, <2>1 DEF SemsInv
  <2>4. ASSUME NEW r \in Sems, r # s, Ctr'[r] > 0, NEW u \in Tasks PROVE PendOn'[u] # r
    BY <1>1, <1>2, <1>4, <2>1, <2>4 DEF SemsInv
  <2> QED BY <2>2, <2>3, <2>4 DEF SemsInv
<1>6. CountsTyped'
  BY <1>1, <1>2, <1>4 DEF CountsTyped
<1>7. SwitchInv'
  <2>1. CASE always
    <3>1. "sched" \in AboutToSched /\ OSSchedLockNestingCtr' \in 0 .. OSSchedLockNestingCtr
      BY <1>1, <1>2, KernelAssumption DEF AboutToSched, SwitchInv
    <3> QED BY <1>1, <1>2, <2>1, <3>1, SchedFollows
  <2>2. CASE ~always
    <3>1. n = 0
      BY <1>2, <1>3, <2>2
    <3>2. /\ ReadyTasks' = ReadyTasks \cup {c[i] : i \in 1 .. n}
          /\ \A p \in Priorities : (\A i \in 1 .. n : Prio[c[i]] # p) => Chain(OSRdyList', p) = Chain(OSRdyList, p)
      BY <1>1, <1>2, <1>3, WakeLists
    <3>3. ReadyTasks' = ReadyTasks /\ \A p \in Priorities : Chain(OSRdyList', p) = Chain(OSRdyList, p)
      BY <3>1, <3>2
    <3>4. HighRdy' = HighRdy
      BY <1>1, <1>4, <3>3, SomeReady, SameHead
    <3>5. pc' = pc
      BY <1>2, <2>2
    <3> QED BY <1>1, <1>2, <3>4, <3>5, SameHighest
  <2> QED BY <2>1, <2>2
<1> QED BY <1>4, <1>5, <1>6, <1>7 DEF KInv

\* OS_TickListUpdate: all who are due wake up, and the others have a tick less left.
LEMMA TickListKeeps ==
  ASSUME KInv, OS_TickListUpdate
  PROVE  KInv'
<1>1. ListsInv /\ SemsInv /\ SwitchInv /\ CountsTyped
  BY DEF KInv
<1>2. /\ Running(TickTask, "update") /\ Goto(TickTask, "pend") /\ Wake(Expired(NextTick), "TIMEOUT")
      /\ UNCHANGED <<switch, locks, isr, TimeQuantaCtr, TickCtrPrev, Ctr>>
  BY DEF OS_TickListUpdate, NextTick, robin
<1>3. /\ ListsInv' /\ ReadyTasks' = ReadyTasks \cup {t \in Tasks : Delayed(t) /\ TickCtrMatch[t] = NextTick}
      /\ \A p \in Priorities : (\A t \in AppTasks : Prio[t] # p) => Chain(OSRdyList', p) = Chain(OSRdyList, p)
  BY <1>1, TickKeeps
<1>4. /\ PendStatus' \in [Tasks -> {"OK", "TIMEOUT", "DEL"}] /\ \A t \in Tasks : PendOn'[t] \in {"NOTHING", PendOn[t]}
  BY <1>1, <1>2 DEF Wake, CountsTyped
<1>5. SemsInv' /\ CountsTyped'
  BY <1>1, <1>2, <1>4, SemsStay DEF CountsTyped
<1>6. HighRdy' = HighRdy \/ OSSchedLockNestingCtr > 0
  <2>1. SUFFICES ASSUME OSSchedLockNestingCtr = 0 PROVE HighRdy' = HighRdy
    BY <1>1 DEF SwitchInv
  <2>2. HighRdy = TickTask
    BY <1>1, <1>2, <2>1, CallerReady DEF Places, AboutToSched
  <2>3. ReadyTasks \subseteq ReadyTasks'
    BY <1>3
  <2>4. \A t \in ReadyTasks' : Prio[HighRdy] <= Prio[t]
    <3>1. \A t \in ReadyTasks : Prio[HighRdy] <= Prio[t]
      BY <1>1, SomeReady
    <3>2. ASSUME NEW t \in Tasks, Delayed(t) PROVE Prio[HighRdy] <= Prio[t]
      <4>1. t \in AppTasks
        BY <1>1, <3>2 DEF ListsInv, FieldsAgree
      <4>2. Prio[TickTask] < Prio[t] /\ Prio[TickTask] \in Int /\ Prio[t] \in Int
        BY <4>1, KernelAssumption, RanksTyped DEF AppTasks
      <4> QED BY <2>2, <4>2
    <3> QED BY <1>3, <3>1, <3>2
  <2>5. Chain(OSRdyList', Prio[HighRdy]) = Chain(OSRdyList, Prio[HighRdy])
    <3>1. Prio[TickTask] \in Priorities /\ \A t \in AppTasks : Prio[t] # Prio[TickTask]
      <4>1. \A t \in AppTasks : Prio[TickTask] < Prio[t] /\ Prio[TickTask] \in Int /\ Prio[t] \in Int
        BY KernelAssumption, RanksTyped DEF AppTasks
      <4>2. Prio[TickTask] \in Priorities
        BY KernelAssumption
      <4> QED BY <4>1, <4>2
    <3> QED BY <1>3, <2>2, <3>1
  <2> QED BY <1>1, <1>3, <2>3, <2>4, <2>5, SameHead
<1>7. SwitchInv'
  <2>1. "update" \notin AboutToSched /\ "pend" \in Places \ AboutToSched /\ ~pendSV
    BY <1>2 DEF Places, AboutToSched, Running
  <2>2. \E t, at, next : /\ Running(t, at) /\ at \notin AboutToSched
                         /\ next \in Places \ AboutToSched /\ Goto(t, next)
    BY <1>2, <2>1
  <2> QED BY <1>1, <1>2, <1>6, <2>1, <2>2, SameHighest
<1> QED BY <1>3, <1>5, <1>7 DEF KInv

\* The tick interrupt, and the interrupt of a device.
LEMMA TickArrives ==
  ASSUME KInv, OS_CPU_SysTickHandler
  PROVE  KInv'
<1>1. ListsInv /\ SemsInv /\ SwitchInv /\ CountsTyped
  BY DEF KInv
<1>2. ListsInv' /\ SemsInv' /\ CountsTyped'
  <2>1. UNCHANGED <<ready, wheel, PendList, PendOn, TaskState, OSTickCtr, Ctr, TimeQuantaCtr, TickCtrPrev, PendStatus>>
    BY DEF OS_CPU_SysTickHandler, robin, pends
  <2> QED BY <1>1, <2>1, OnlySwitch
<1>3. /\ ~pendSV /\ UNCHANGED <<switch, OSSchedLockNestingCtr, pc>>
      /\ isr' \in {"post", "robin", "exit"} /\ OSIntNestingCtr' = 1
  BY <1>1 DEF OS_CPU_SysTickHandler, SwitchInv
<1>4. SwitchInv'
  BY <1>1, <1>3, InInterrupt
<1> QED BY <1>2, <1>4 DEF KInv

\* It posts to the tick task,
LEMMA TickPosts ==
  ASSUME KInv, OSTaskSemPost
  PROVE  KInv'
<1>1. ListsInv /\ SemsInv /\ SwitchInv /\ CountsTyped
  BY DEF KInv
<1>2. /\ isr = "post" /\ isr' = "robin" /\ UNCHANGED <<switch, OSSchedLockNestingCtr, pc>>
      /\ OSIntNestingCtr' = OSIntNestingCtr
      /\ UNCHANGED <<TimeQuantaCtr, TickCtrPrev, OSTickCtr, Ctr>>
  BY DEF OSTaskSemPost, locks, robin
<1>3. SwitchInv'
  <2>1. isr # Null /\ isr' \in {"post", "robin", "exit"}
    BY <1>2, KernelAssumption
  <2>2. ~pendSV /\ OSIntNestingCtr' = 1
    BY <1>1, <1>2, <2>1 DEF SwitchInv
  <2> QED BY <1>1, <1>2, <2>1, <2>2, InInterrupt
<1>4. CASE PendOn[TickTask] = "TASK_SEM"
  <2> DEFINE ts == <<TickTask>>
  <2>1. Wake(ts, "OK")
    BY <1>4 DEF OSTaskSemPost
  <2>2. TickTask \in Tasks /\ TickTask \notin ReadyTasks
    BY <1>1, <1>4, KernelAssumption DEF ListsInv, FieldsAgree, ReadyTasks, Ready
  <2>3. ts \in [1 .. 1 -> Tasks] /\ ts[1] = TickTask
    BY <2>2
  <2>4. Distinct(ts, 1) /\ \A i \in 1 .. 1 : ts[i] \notin ReadyTasks
    BY <2>2, <2>3 DEF Distinct
  <2> HIDE DEF ts
  <2>5. /\ ListsInv' /\ PendStatus' \in [Tasks -> {"OK", "TIMEOUT", "DEL"}]
        /\ \A t \in Tasks : PendOn'[t] \in {"NOTHING", PendOn[t]}
    BY <1>1, <1>2, <2>1, <2>4, WakeSome
  <2>6. SemsInv' /\ CountsTyped'
    BY <1>1, <1>2, <2>5, SemsStay DEF CountsTyped
  <2> QED BY <1>3, <2>5, <2>6 DEF KInv
<1>5. CASE PendOn[TickTask] # "TASK_SEM"
  <2>1. UNCHANGED <<ready, wheel, PendList, PendOn, TaskState, PendStatus>>
    BY <1>5 DEF OSTaskSemPost, pends
  <2>2. ListsInv' /\ SemsInv' /\ CountsTyped'
    BY <1>1, <1>2, <2>1, OnlySwitch
  <2> QED BY <1>3, <2>2 DEF KInv
<1> QED BY <1>4, <1>5

\* rotates the ready list of the task it interrupted,
LEMMA TickRotates ==
  ASSUME KInv, OS_SchedRoundRobin
  PROVE  KInv'
<1> DEFINE head == OSRdyList.HeadPtr[OSPrioCur]
           left == TimeQuantaCtr[head] - 1
           used == [TimeQuantaCtr EXCEPT ![head] = IF left > 0 THEN left ELSE 0]
<1>1. ListsInv /\ SemsInv /\ SwitchInv /\ CountsTyped
  BY DEF KInv
<1>2. /\ isr = "robin" /\ isr' = "exit" /\ UNCHANGED <<switch, OSSchedLockNestingCtr, pc>>
      /\ OSIntNestingCtr' = OSIntNestingCtr
      /\ UNCHANGED <<wheel, PendList, PendOn, TaskState, PendStatus, TickCtrPrev, OSTickCtr, Ctr>>
  BY DEF OS_SchedRoundRobin, locks, pends
<1>3. SwitchInv'
  <2>1. isr # Null /\ isr' \in {"post", "robin", "exit"}
    BY <1>2, KernelAssumption
  <2>2. ~pendSV /\ OSIntNestingCtr' = 1
    BY <1>1, <1>2, <2>1 DEF SwitchInv
  <2> QED BY <1>1, <1>2, <2>1, <2>2, InInterrupt
<1>4. \/ UNCHANGED <<ready, TimeQuantaCtr>>
      \/ head # Null /\ TimeQuantaCtr' = used /\ UNCHANGED ready
      \/ head # Null /\ Rotate(OSPrioCur, used)
  BY DEF OS_SchedRoundRobin
<1>5. head # Null => used \in [Tasks -> 0 .. TimeQuanta]
  <2>1. head \in Tasks \cup {Null}
    BY <1>1 DEF ListsInv, ReadyLists, Placed, Good, ListsOf, Pointers, SwitchInv
  <2>2. TimeQuantaCtr \in [Tasks -> 0 .. TimeQuanta] /\ TimeQuanta \in Nat
    BY <1>1, KernelAssumption DEF CountsTyped
  <2> HIDE DEF head
  <2>3. ASSUME head \in Tasks PROVE (IF left > 0 THEN left ELSE 0) \in 0 .. TimeQuanta
    <3>1. TimeQuantaCtr[head] \in 0 .. TimeQuanta
      BY <2>2, <2>3
    <3> QED BY <2>2, <3>1
  <2> HIDE DEF left
  <2> QED BY <2>1, <2>2, <2>3
<1> HIDE DEF head, used
<1>6. ListsInv' /\ TimeQuantaCtr' \in [Tasks -> 0 .. TimeQuanta]
  <2>1. CASE UNCHANGED ready /\ TimeQuantaCtr' \in [Tasks -> 0 .. TimeQuanta]
    BY <1>1, <1>2, <2>1, ListsStay
  <2>2. CASE UNCHANGED <<ready, TimeQuantaCtr>>
    BY <1>1, <2>1, <2>2 DEF CountsTyped
  <2>3. CASE head # Null /\ Rotate(OSPrioCur, used)
    <3>1. OSPrioCur \in Priorities /\ used \in [Tasks -> 0 .. TimeQuanta] /\ Rotate(OSPrioCur, used)
      BY <1>1, <1>5, <2>3 DEF SwitchInv
    <3> QED BY <1>1, <1>2, <3>1, RotateKeeps
  <2> QED BY <1>4, <1>5, <2>1, <2>2, <2>3
<1>7. SemsInv' /\ CountsTyped'
  BY <1>1, <1>2, <1>6, SemsStay DEF CountsTyped
<1> QED BY <1>3, <1>6, <1>7 DEF KInv

\* and returns to the first ready task.
LEMMA TickEnds ==
  ASSUME KInv, TickReturns
  PROVE  KInv'
<1>1. ListsInv /\ SemsInv /\ SwitchInv /\ CountsTyped
  BY DEF KInv
<1>2. ListsInv' /\ SemsInv' /\ CountsTyped'
  <2>1. UNCHANGED <<ready, wheel, PendList, PendOn, TaskState, OSTickCtr, Ctr, TimeQuantaCtr, TickCtrPrev, PendStatus>>
    BY DEF TickReturns, robin, pends
  <2> QED BY <1>1, <2>1, OnlySwitch
<1>3. /\ isr = "exit" /\ isr' = Null /\ OSIntNestingCtr' = OSIntNestingCtr - 1
      /\ UNCHANGED OSSchedLockNestingCtr /\ pc' = pc /\ OSIntExit(OSIntNestingCtr')
  BY DEF TickReturns
<1>4. OSIntNestingCtr' = 0
  <2>1. isr # Null
    BY <1>3, KernelAssumption
  <2> QED BY <1>1, <1>3, <2>1 DEF SwitchInv
<1>5. SwitchInv'
  <2>1. OSIntExit(0) /\ OSIntNestingCtr' = 0 /\ isr' = Null
    BY <1>3, <1>4
  <2> QED BY <1>1, <1>2, <1>3, <2>1, ExitSelects
<1> QED BY <1>2, <1>5 DEF KInv

\* The interrupt of a device posts and returns.
LEMMA DeviceKeeps ==
  ASSUME KInv, BSP_IntHandler
  PROVE  KInv'
<1>1. ListsInv /\ SemsInv /\ SwitchInv /\ CountsTyped
  BY DEF KInv
<1>2. PICK s \in Sems, all \in BOOLEAN : OS_SemPost(s, all)
  BY DEF BSP_IntHandler
<1>3. /\ UNCHANGED <<OSTickCtr, TimeQuantaCtr, TickCtrPrev, OSSchedLockNestingCtr>> /\ isr' = isr
      /\ pc' = pc /\ OSIntNestingCtr' = OSIntNestingCtr /\ OSIntExit(OSIntNestingCtr)
  BY DEF BSP_IntHandler, locks, robin
<1>4. ListsInv' /\ SemsInv' /\ PendStatus' \in [Tasks -> {"OK", "TIMEOUT", "DEL"}]
  BY <1>1, <1>2, <1>3, PostKeeps
<1>5. CountsTyped'
  BY <1>1, <1>3, <1>4 DEF CountsTyped
<1>6. SwitchInv'
  <2> DEFINE nesting == OSIntNestingCtr
  <2>1. /\ OSIntExit(nesting) /\ nesting = OSIntNestingCtr'
        /\ IF isr' = Null THEN nesting = 0 ELSE nesting = 1 /\ isr' = isr
    BY <1>1, <1>3 DEF SwitchInv
  <2> HIDE DEF nesting
  <2> QED BY <1>1, <1>3, <1>4, <2>1, ExitSelects
<1> QED BY <1>4, <1>5, <1>6 DEF KInv

-----------------------------------------------------------------------------
\* A step of somebody else.
LEMMA NothingKeeps ==
  ASSUME KInv, UNCHANGED kernelVars
  PROVE  KInv'
<1>1. ListsInv /\ SemsInv /\ SwitchInv /\ CountsTyped
  BY DEF KInv
<1>2. /\ UNCHANGED <<ready, wheel, PendList, PendOn, TaskState, OSTickCtr, Ctr, TimeQuantaCtr, TickCtrPrev, PendStatus>>
      /\ UNCHANGED <<switch, locks, isr>> /\ pc' = pc
  BY DEF kernelVars, robin, pends
<1>3. ListsInv' /\ SemsInv' /\ CountsTyped' /\ HighRdy' = HighRdy
  BY <1>1, <1>2, OnlySwitch
<1>4. SwitchInv'
  BY <1>1, <1>2, <1>3, SameHighest
<1> QED BY <1>3, <1>4 DEF KInv

\* The calls on semaphores.
LEMMA SemaphoreKeeps ==
  ASSUME KInv, NEW t \in AppTasks, NEW s \in Sems, Semaphore(t, s)
  PROVE  KInv'
<1>1. CASE OSSemPend_take(t, s)
  BY <1>1, CounterKeeps
<1>2. CASE OSSemPend_block(t, s, 0)
  <2>1. 0 \in {0} \cup Times
    OBVIOUS
  <2> QED BY <1>2, <2>1, SemPendKeeps
<1>3. ASSUME NEW timeout \in Times, OSSemPend_block(t, s, timeout) PROVE KInv'
  <2>1. timeout \in {0} \cup Times
    BY <1>3
  <2> QED BY <1>3, <2>1, SemPendKeeps
<1>4. ASSUME NEW all \in BOOLEAN, OSSemPost(t, s, all) PROVE KInv'
  BY <1>4, PostStep
<1>5. ASSUME NEW cnt \in 0 .. MaxCtr, OSSemSet(t, s, cnt) \/ (NobodyWaits(s) /\ OSSemCreate(t, s, cnt)) PROVE KInv'
  BY <1>5, CounterKeeps
<1>6. ASSUME NEW always \in BOOLEAN, OSSemDel(t, s, always) PROVE KInv'
  BY <1>6, DelKeeps
<1> QED BY <1>1, <1>2, <1>3, <1>4, <1>5, <1>6 DEF Semaphore

\* Every step of the kernel keeps the invariant,
LEMMA KernelStep == KInv /\ [KernelNext]_kernelVars => KInv'
<1> SUFFICES ASSUME KInv, [KernelNext]_kernelVars PROVE KInv'
  OBVIOUS
<1>1. ASSUME NEW t \in AppTasks, AppTask(t) PROVE KInv'
  <2>1. CASE Delay(t)
    BY <1>1, <2>1, DelayKeeps
  <2>2. ASSUME NEW s \in Sems, Semaphore(t, s) PROVE KInv'
    BY <1>1, <2>2, SemaphoreKeeps
  <2>3. CASE OSSemPend_return(t) \/ \E en \in BOOLEAN : OSSchedRoundRobinCfg(t, en)
    BY <2>3, GoesOn
  <2>4. CASE OSSched(t)
    BY <2>4, SchedKeeps
  <2>5. CASE OSSchedLock(t) \/ OSSchedUnlock(t)
    BY <2>5, LockKeeps
  <2>6. CASE OSSchedRoundRobinYield(t)
    BY <2>6, YieldKeeps
  <2> QED BY <1>1, <2>1, <2>2, <2>3, <2>4, <2>5, <2>6 DEF AppTask
<1>2. CASE OS_TickTask
  BY <1>2, TaskSemPendKeeps, TickListKeeps, SchedKeeps DEF OS_TickTask
<1>3. CASE Interrupts
  BY <1>3, TickArrives, TickPosts, TickRotates, TickEnds, DeviceKeeps DEF Interrupts
<1>4. CASE OS_CPU_PendSVHandler
  BY <1>4, PendSVKeeps
<1>5. CASE UNCHANGED kernelVars
  BY <1>5, NothingKeeps
<1> QED BY <1>1, <1>2, <1>3, <1>4, <1>5 DEF KernelNext

\* and what OSInit, the tasks' creation and OSStart leave behind satisfies it.
LEMMA KernelStart == KernelInit => KInv
<1> SUFFICES ASSUME KernelInit PROVE KInv
  OBVIOUS
<1>1. /\ OSIntNestingCtr = 0 /\ isr = Null /\ OSSchedLockNestingCtr = 0
      /\ OSPrioHighRdy = OS_PrioGetHighest(OSPrioTbl) /\ OSPrioCur = OSPrioHighRdy
      /\ OSTCBHighRdyPtr = OSRdyList.HeadPtr[OSPrioHighRdy] /\ OSTCBCurPtr = OSTCBHighRdyPtr
      /\ pendSV = TRUE
      /\ TimeQuantaCtr = [t \in Tasks |-> TimeQuanta] /\ OSTickCtr = 0
      /\ OSCfg_TickWheel = EmptyLists(Spokes)
      /\ TickCtrMatch = [t \in Tasks |-> 0] /\ TickSpokePtr = [t \in Tasks |-> Null]
      /\ TickCtrPrev = [t \in Tasks |-> OS_TICK_TH_INIT]
      /\ Ctr \in [Sems -> 0 .. MaxCtr]
      /\ PendList = EmptyLists(Sems)
      /\ TaskState = [t \in Tasks |-> "RDY"]
      /\ PendOn = [t \in Tasks |-> "NOTHING"] /\ PendStatus = [t \in Tasks |-> "OK"]
      /\ pc = [t \in Tasks |-> IF t = TickTask THEN "pend" ELSE "run"]
  BY DEF KernelInit
<1>2. /\ Null \notin Tasks /\ Null \notin Spokes /\ "NOTHING" \notin Sems
      /\ OS_TICK_TH_INIT \in TickNbrs /\ TimeQuanta \in Nat /\ MaxLock \in Nat /\ {TickTask, IdleTask} \subseteq Tasks
  BY KernelAssumption, TaskListsAssumption
<1>3. 0 \in TickNbrs /\ 0 \in 0 .. MaxLock /\ TimeQuanta \in 0 .. TimeQuanta
  BY <1>2, TickArithmetic DEF TickNbrs
<1>4. ReadyTasks = Tasks
  BY <1>1 DEF ReadyTasks, Ready, Waiting, Delayed, Pending
<1>5. ReadyLists(OSRdyList, OSPrioTbl, ReadyTasks)
  <2>1. PICK order \in SetToSeqs(Tasks) : OSRdyList = CreatedLists(order) /\ OSPrioTbl = CreatedTable(order)
    BY DEF KernelInit
  <2>2. ReadyLists(CreatedLists(order), CreatedTable(order), Tasks)
    BY EveryTaskOnce, Created
  <2> QED BY <1>4, <2>1, <2>2
<1>6. Placed(PendList, Sems, PendOn, Prio)
  <2>1. \A t \in Tasks : PendOn[t] \notin Sems
    BY <1>1, <1>2
  <2> QED BY <1>1, <2>1, EmptyPlaced
<1>7. Placed(OSCfg_TickWheel, Spokes, TickSpokePtr, TimeLeft)
  <2>1. \A t \in Tasks : TickSpokePtr[t] \notin Spokes
    BY <1>1, <1>2
  <2> QED BY <1>1, <2>1, EmptyPlaced
<1>8. FieldsAgree
  BY <1>1, <1>2, <1>3 DEF FieldsAgree, Waiting, Delayed, Pending
<1>9. ListsInv
  BY <1>5, <1>6, <1>7, <1>8 DEF ListsInv
<1>10. SemsInv
  BY <1>1, <1>2 DEF SemsInv
<1>11. CountsTyped
  BY <1>1, <1>2, <1>3 DEF CountsTyped
<1>12. SwitchInv
  <2>1. /\ HighRdy \in Tasks /\ OSPrioHighRdy \in Priorities /\ OSTCBHighRdyPtr = HighRdy
    BY <1>1, <1>9, SomeReady DEF HighRdy, ReadyTasks
  <2>2. pc \in [Tasks -> Places]
    BY <1>1 DEF Places
  <2> QED BY <1>1, <1>3, <2>1, <2>2 DEF SwitchInv
<1> QED BY <1>9, <1>10, <1>11, <1>12 DEF KInv

-----------------------------------------------------------------------------
\* The invariants that the runs check follow from it: the types,
LEMMA KInvTypes == KInv => KTypeOK
<1> SUFFICES ASSUME KInv PROVE KTypeOK
  OBVIOUS
<1>1. ListsInv /\ SemsInv /\ SwitchInv /\ CountsTyped
  BY DEF KInv
<1>2. OSPrioTbl \in Tables
  BY <1>1 DEF ListsInv, ReadyLists
<1> QED BY <1>1, <1>2 DEF KTypeOK, ListsInv, FieldsAgree, SemsInv, SwitchInv, CountsTyped

\* A list of a good family is well linked in the sense of the runs.
LEMMA LinkedWell ==
  ASSUME NEW Names, NEW h, Good(h, Names), NEW l \in Names
  PROVE  WellLinked(h, l)
<1> DEFINE c == Chain(h, l)
           n == Len(c)
<1>1. Spells(h, l, n, c)
  BY DEF Good
<1> HIDE DEF c, n
<1>2. n > 0 => h.TailPtr[l] = c[n] /\ h.NextPtr[c[n]] = Null /\ h.PrevPtr[c[1]] = Null
  <2>1. n > 0 => n \in 1 .. n /\ 1 \in 1 .. n /\ n # 0
    BY <1>1 DEF Spells
  <2> QED BY <1>1, <2>1 DEF Spells
<1>3. \A i \in 2 .. n : h.PrevPtr[c[i]] = c[i - 1]
  <2>1. \A i \in 2 .. n : i \in 1 .. n /\ i # 1
    BY <1>1 DEF Spells
  <2> QED BY <1>1, <2>1 DEF Spells
<1>4. h.NbrEntries[l] = n /\ (n = 0 => h.TailPtr[l] = Null)
  BY <1>1 DEF Spells
<1> QED BY <1>2, <1>3, <1>4 DEF WellLinked, c, n

\* lists that agree with the fields,
LEMMA KInvLists == KInv => ListsAgree
<1> SUFFICES ASSUME KInv PROVE ListsAgree
  OBVIOUS
<1>1. /\ ReadyLists(OSRdyList, OSPrioTbl, ReadyTasks) /\ Placed(PendList, Sems, PendOn, Prio)
      /\ Placed(OSCfg_TickWheel, Spokes, TickSpokePtr, TimeLeft) /\ FieldsAgree
  BY DEF KInv, ListsInv
<1>2. /\ Good(OSRdyList, Priorities) /\ Good(PendList, Sems) /\ Good(OSCfg_TickWheel, Spokes)
      /\ Placed(OSRdyList, Priorities, PlaceIn(ReadyTasks), NoOrder)
      /\ ReadyTasks \in SUBSET Tasks /\ Inserted(OSPrioTbl) = {Prio[t] : t \in ReadyTasks}
  BY <1>1 DEF ReadyLists, Placed
<1>3. ASSUME NEW p \in Priorities
      PROVE  /\ WellLinked(OSRdyList, p)
             /\ Members(OSRdyList, p) = {t \in Tasks : Prio[t] = p /\ ~Waiting(t) /\ ~Delayed(t)}
             /\ p \in Inserted(OSPrioTbl) <=> OSRdyList.NbrEntries[p] > 0
  <2>1. WellLinked(OSRdyList, p)
    BY <1>2, LinkedWell
  <2>2. Members(OSRdyList, p) = {t \in Tasks : PlaceIn(ReadyTasks)[t] = p}
    BY <1>2 DEF Placed
  <2>3. Members(OSRdyList, p) = {t \in ReadyTasks : Prio[t] = p}
    BY <1>2, <2>2, PlaceInTyped
  <2>4. p \in Inserted(OSPrioTbl) <=> Members(OSRdyList, p) # {}
    BY <1>2, <2>3
  <2>5. /\ Members(OSRdyList, p) = {} <=> OSRdyList.NbrEntries[p] = 0
        /\ OSRdyList.NbrEntries[p] \in Nat
    BY <1>2, HeadOfList
  <2>6. p \in Inserted(OSPrioTbl) <=> OSRdyList.NbrEntries[p] > 0
    BY <2>4, <2>5
  <2>7. Members(OSRdyList, p) = {t \in Tasks : Prio[t] = p /\ ~Waiting(t) /\ ~Delayed(t)}
    BY <2>3 DEF ReadyTasks, Ready
  <2> QED BY <2>1, <2>6, <2>7
<1>4. ASSUME NEW s \in Sems
      PROVE  /\ WellLinked(PendList, s)
             /\ Members(PendList, s) = {t \in Tasks : Waiting(t) /\ PendOn[t] = s}
             /\ \A i, j \in DOMAIN Chain(PendList, s) :
                   i < j => ~Before(Chain(PendList, s)[j], Chain(PendList, s)[i])
  <2> DEFINE c == Chain(PendList, s)
             n == Len(c)
  <2>1. WellLinked(PendList, s)
    BY <1>2, LinkedWell
  <2>2. Members(PendList, s) = {t \in Tasks : PendOn[t] = s} /\ Ascending(c, n, Prio)
    BY <1>1 DEF Placed
  <2>3. s # "NOTHING"
    BY KernelAssumption
  <2>4. \A t \in Tasks : PendOn[t] = s => Waiting(t)
    BY <1>1, <2>3 DEF FieldsAgree
  <2>5. DOMAIN c = 1 .. n /\ c \in [1 .. n -> Tasks]
    BY <1>2, GoodChain
  <2> HIDE DEF c, n
  <2>6. ASSUME NEW i \in 1 .. n, NEW j \in 1 .. n, i < j PROVE ~Before(c[j], c[i])
    <3>1. Prio[c[i]] <= Prio[c[j]]
      BY <2>2, <2>6 DEF Ascending
    <3>2. Prio[c[i]] \in Int /\ Prio[c[j]] \in Int
      BY <2>5, RanksTyped
    <3> QED BY <3>1, <3>2 DEF Before
  <2>7. Members(PendList, s) = {t \in Tasks : Waiting(t) /\ PendOn[t] = s}
    BY <2>2, <2>4
  <2> QED BY <2>1, <2>5, <2>6, <2>7 DEF c
<1>5. ASSUME NEW k \in Spokes
      PROVE  LET c == Chain(OSCfg_TickWheel, k) IN
             /\ WellLinked(OSCfg_TickWheel, k)
             /\ Members(OSCfg_TickWheel, k) = {t \in Tasks : TickSpokePtr[t] = k}
             /\ \A i \in DOMAIN c : Remain(TickCtrMatch[c[i]]) > 0 /\ TaskState[c[i]] \in {"DLY", "PEND_TIMEOUT"}
             /\ \A i, j \in DOMAIN c : i < j => Remain(TickCtrMatch[c[i]]) <= Remain(TickCtrMatch[c[j]])
  <2> DEFINE c == Chain(OSCfg_TickWheel, k)
             n == Len(c)
  <2>1. WellLinked(OSCfg_TickWheel, k)
    BY <1>2, LinkedWell
  <2>2. Members(OSCfg_TickWheel, k) = {t \in Tasks : TickSpokePtr[t] = k} /\ Ascending(c, n, TimeLeft)
    BY <1>1 DEF Placed
  <2>3. /\ DOMAIN c = 1 .. n /\ c \in [1 .. n -> Tasks]
        /\ Members(OSCfg_TickWheel, k) = {c[i] : i \in 1 .. n}
    BY <1>2, GoodChain
  <2> HIDE DEF c, n
  <2>4. k # Null
    BY KernelAssumption
  <2>5. \A i \in 1 .. n : c[i] \in Tasks /\ Delayed(c[i])
    BY <2>2, <2>3, <2>4 DEF Delayed
  <2>6. \A i \in 1 .. n : TimeLeft[c[i]] > 0 /\ TaskState[c[i]] \in {"DLY", "PEND_TIMEOUT"}
    BY <1>1, <2>5 DEF FieldsAgree
  <2>7. \A i \in 1 .. n : TimeLeft[c[i]] = Remain(TickCtrMatch[c[i]])
    BY <2>5 DEF TimeLeft
  <2>8. \A i, j \in 1 .. n : i < j => Remain(TickCtrMatch[c[i]]) <= Remain(TickCtrMatch[c[j]])
    BY <2>2, <2>7 DEF Ascending
  <2>9. \A i \in 1 .. n : Remain(TickCtrMatch[c[i]]) > 0
    BY <2>6, <2>7
  <2> QED BY <2>1, <2>2, <2>3, <2>6, <2>8, <2>9 DEF c
<1> QED BY <1>3, <1>4, <1>5 DEF ListsAgree

\* the first ready task that runs,
LEMMA KInvHighest == KInv => HighestRuns
<1> SUFFICES ASSUME KInv, isr = Null, ~pendSV, OSSchedLockNestingCtr = 0,
                    pc[OSTCBCurPtr] \notin {"sched", "sched_pend"}
             PROVE  /\ OSTCBCurPtr = HighRdy
                    /\ \A t \in Tasks : Before(t, OSTCBCurPtr) => Waiting(t) \/ Delayed(t)
  BY DEF HighestRuns
<1>1. ListsInv /\ OSTCBCurPtr = HighRdy
  BY DEF KInv, SwitchInv, AboutToSched
<1>2. HighRdy \in Tasks /\ \A t \in ReadyTasks : Prio[HighRdy] <= Prio[t]
  BY <1>1, SomeReady DEF ReadyTasks
<1>3. ASSUME NEW t \in Tasks, Before(t, OSTCBCurPtr) PROVE t \notin ReadyTasks
  <2>1. Prio[t] \in Int /\ Prio[HighRdy] \in Int /\ Prio[t] < Prio[HighRdy]
    BY <1>1, <1>2, <1>3, RanksTyped DEF Before
  <2>2. ~(Prio[HighRdy] <= Prio[t])
    BY <2>1
  <2> QED BY <1>2, <2>2
<1> QED BY <1>1, <1>3 DEF ReadyTasks, Ready

\* and no post left in the counter of a semaphore that somebody waits for.
LEMMA KInvWakeups == KInv => NoLostWakeup
<1> SUFFICES ASSUME KInv, NEW s \in Sems, Ctr[s] > 0 PROVE PendList.NbrEntries[s] = 0
  BY DEF NoLostWakeup
<1>1. ListsInv /\ \A t \in Tasks : PendOn[t] # s
  BY DEF KInv, SemsInv
<1>2. Members(PendList, s) = {} /\ Good(PendList, Sems)
  BY <1>1 DEF ListsInv, Placed
<1> QED BY <1>2, HeadOfList

-----------------------------------------------------------------------------
(***************************************************************************)
(* The kernel, whatever its tasks call, whatever interrupts come and       *)
(* whenever they come: the inductive invariant.                            *)
(***************************************************************************)
THEOREM KernelInvariant == KernelSpec => []KInv
BY KernelStart, KernelStep, PTL DEF KernelSpec

(***************************************************************************)
(* Type correctness, the nesting counters and the modular tick count       *)
(* among the types (os_core.c, os_tick.c, os_sem.c).                       *)
(***************************************************************************)
THEOREM KernelTypes == KernelSpec => []KTypeOK
BY KernelInvariant, KInvTypes, PTL

(***************************************************************************)
(* The ready lists, the pend lists, the spokes of the tick wheel and the   *)
(* priority table always agree with the fields of the tasks and with each  *)
(* other, and are in the order that the loops of OS_PendListInsertPrio and *)
(* OS_TickListUpdate rely on, whatever wakes a task first: a post, the     *)
(* timeout or the deletion of what it waits for.                           *)
(***************************************************************************)
THEOREM KernelLists == KernelSpec => []ListsAgree
BY KernelInvariant, KInvLists, PTL

(***************************************************************************)
(* Outside interrupts and with the scheduler not locked, the task that     *)
(* runs is the first ready one of the highest priority (OSSched,           *)
(* OSIntExit, OS_CPU_PendSVHandler), unless it is about to call OSSched.   *)
(***************************************************************************)
THEOREM KernelHighestRuns == KernelSpec => []HighestRuns
BY KernelInvariant, KInvHighest, PTL

(***************************************************************************)
(* A post never stays in the counter of a semaphore that a task waits for  *)
(* (OS_SemPost, OSSemPend).                                                *)
(***************************************************************************)
THEOREM KernelNoLostWakeup == KernelSpec => []NoLostWakeup
BY KernelInvariant, KInvWakeups, PTL

-----------------------------------------------------------------------------
\* What the callers see.

\* The application's tasks wait for semaphores; the one that belongs to a task
\* is the tick task's.
WaitsForSems == \A t \in AppTasks : PendOn[t] # "TASK_SEM"

\* A step of the processor only.
LEMMA Unseen ==
  ASSUME UNCHANGED <<TickCtrMatch, TickSpokePtr, OSTickCtr, Ctr, PendList, PendStatus, PendOn>>, WaitsForSems
  PROVE  UNCHANGED Service!serviceVars /\ WaitsForSems'
<1>1. Queues' = Queues /\ Results' = Results
  BY DEF Queues, Results
<1>2. TicksLeft' = TicksLeft
  BY DEF TicksLeft, Delayed, Remain
<1>3. WaitsForSems'
  BY DEF WaitsForSems
<1> QED BY <1>1, <1>2, <1>3 DEF Service!serviceVars

\* The queue of a semaphore: who waits for it.
LEMMA QueueMembers ==
  ASSUME ListsInv, NEW s \in Sems
  PROVE  /\ Queues[s] = Chain(PendList, s)
         /\ Len(Queues[s]) \in Nat /\ Queues[s] \in [1 .. Len(Queues[s]) -> Tasks]
         /\ PendList.NbrEntries[s] = Len(Queues[s])
         /\ Service!Queued(Queues[s]) = {t \in Tasks : PendOn[t] = s}
<1> DEFINE c == Chain(PendList, s)
           n == Len(c)
<1>1. Queues[s] = c
  BY DEF Queues
<1>2. /\ Distinct(c, n) /\ PendList.NbrEntries[s] = n
      /\ {c[i] : i \in 1 .. n} = {t \in Tasks : PendOn[t] = s}
  BY Waiters
<1> HIDE DEF c
<1>3. n \in Nat /\ c \in [1 .. n -> Tasks] /\ DOMAIN c = 1 .. n
  BY <1>2 DEF Distinct
<1>4. Service!Queued(c) = {c[i] : i \in 1 .. n}
  BY <1>3 DEF Service!Queued
<1> QED BY <1>1, <1>2, <1>3, <1>4 DEF c

\* A task that runs is neither delayed nor in a queue.
LEMMA CallerFree ==
  ASSUME ListsInv, NEW t \in ReadyTasks, t \in AppTasks
  PROVE  Service!Free(t)
<1>1. ~Delayed(t) /\ PendOn[t] = "NOTHING"
  BY ReadyFields DEF ListsInv
<1>2. TicksLeft[t] = 0
  BY <1>1 DEF TicksLeft
<1>3. ~ Service!Waits(t)
  <2>1. \A s \in Sems : s # "NOTHING"
    BY KernelAssumption
  <2> QED BY <1>1, <2>1, QueueMembers DEF Service!Waits
<1> QED BY <1>2, <1>3 DEF Service!Free

\* A task without a delay gets one.
LEMMA GetsTime ==
  ASSUME FieldsAgree, Placed(OSCfg_TickWheel, Spokes, TickSpokePtr, TimeLeft),
         NEW t \in AppTasks, ~Delayed(t), NEW match \in TickNbrs, match # OSTickCtr,
         OS_TickListInsert(t, match), OSTickCtr' = OSTickCtr
  PROVE  /\ Remain(match) \in 1 .. TickMod - 1
         /\ TicksLeft' = [TicksLeft EXCEPT ![t] = Remain(match)]
<1>1. t \in Tasks /\ OSTickCtr \in TickNbrs
  BY DEF AppTasks, FieldsAgree
<1>2. Remain(match) \in TickNbrs /\ Remain(match) > 0
  BY <1>1, LeftIsSome
<1>3. /\ TickSpokePtr'[t] # Null /\ TickCtrMatch'[t] = match
      /\ \A u \in Tasks : u # t => /\ TickSpokePtr'[u] = TickSpokePtr[u] /\ TickCtrMatch'[u] = TickCtrMatch[u]
  BY <1>1, TickInserted
<1>4. Remain(match) \in 1 .. TickMod - 1
  <2> DEFINE r == Remain(match)
  <2>1. TickMod \in Nat /\ r \in TickNbrs /\ r > 0
    BY <1>2, TickArithmetic
  <2> HIDE DEF r
  <2>2. r \in 1 .. TickMod - 1
    BY <2>1 DEF TickNbrs
  <2> QED BY <2>2 DEF r
<1>5. TicksLeft' = [u \in AppTasks |-> IF TickSpokePtr'[u] # Null THEN Remain(TickCtrMatch'[u]) ELSE 0]
  BY DEF TicksLeft, Delayed, Remain
<1>6. TicksLeft = [u \in AppTasks |-> IF TickSpokePtr[u] # Null THEN Remain(TickCtrMatch[u]) ELSE 0]
  BY DEF TicksLeft, Delayed
<1>7. \A u \in AppTasks : u \in Tasks
  BY DEF AppTasks
<1>8. \A u \in AppTasks : TicksLeft'[u] = [TicksLeft EXCEPT ![t] = Remain(match)][u]
  BY <1>3, <1>5, <1>6, <1>7
<1> QED BY <1>4, <1>5, <1>6, <1>8

\* OSTimeDly is a delay.
LEMMA DelaySeen ==
  ASSUME KInv, WaitsForSems, NEW t \in AppTasks, NEW opt \in {"DLY", "PERIODIC", "MATCH"}, NEW time \in TickNbrs,
         opt # "MATCH" => time \in Times,
         opt = "MATCH" => ~TooFar(time) /\ "MATCH" \in Calls[t], OSTimeDly(t, time, opt)
  PROVE  Service!ServiceNext /\ WaitsForSems'
<1> DEFINE match == Match(t, time, opt)
<1>1. t \in ReadyTasks
  BY CallerReady DEF KInv, OSTimeDly, Places, AboutToSched
<1>2. ~Delayed(t) /\ Service!Free(t)
  BY <1>1, ReadyFields, CallerFree DEF KInv, ListsInv
<1>3. match \in TickNbrs /\ match # OSTickCtr
  BY MatchAhead DEF KInv, ListsInv, FieldsAgree, CountsTyped
<1>4. /\ OS_TickListInsert(t, match) /\ OSTickCtr' = OSTickCtr /\ UNCHANGED <<Ctr, PendList, PendOn, PendStatus>>
  BY DEF OSTimeDly
<1> HIDE DEF match
<1>5. Remain(match) \in 1 .. TickMod - 1 /\ TicksLeft' = [TicksLeft EXCEPT ![t] = Remain(match)]
  BY <1>2, <1>3, <1>4, GetsTime DEF KInv, ListsInv
<1>6. Ctr' = Ctr /\ Queues' = Queues /\ Results' = Results
  BY <1>4 DEF Queues, Results
<1>7. Service!Delay(t, Remain(match))
  BY <1>2, <1>5, <1>6 DEF Service!Delay
<1>8. WaitsForSems'
  BY <1>4 DEF WaitsForSems
<1> QED BY <1>5, <1>7, <1>8 DEF Service!ServiceNext

\* A delay that is refused is none.
LEMMA RefusalUnseen ==
  ASSUME KInv, WaitsForSems, NEW t \in AppTasks, NEW time, OSTimeDly_zero(t, time)
  PROVE  UNCHANGED Service!serviceVars /\ WaitsForSems'
<1>1. t \in ReadyTasks
  BY CallerReady DEF KInv, OSTimeDly_zero, Places, AboutToSched
<1>2. TickSpokePtr[t] = Null /\ TickSpokePtr \in [Tasks -> Spokes \cup {Null}] /\ t \in Tasks
  BY <1>1, ReadyFields DEF KInv, ListsInv, FieldsAgree
<1>3. /\ TickSpokePtr' = [TickSpokePtr EXCEPT ![t] = Null] /\ TickCtrMatch' = [TickCtrMatch EXCEPT ![t] = 0]
      /\ OSTickCtr' = OSTickCtr /\ UNCHANGED <<Ctr, PendList, PendOn, PendStatus>>
  BY DEF OSTimeDly_zero
<1>4. TickSpokePtr' = TickSpokePtr
  BY <1>2, <1>3
<1>5. \A u \in AppTasks : u # t => TickCtrMatch'[u] = TickCtrMatch[u]
  <2>1. TickCtrMatch \in [Tasks -> TickNbrs]
    BY DEF KInv, ListsInv, FieldsAgree
  <2> QED BY <1>3, <2>1 DEF AppTasks
<1>6. TicksLeft' = TicksLeft
  <2>1. TicksLeft' = [u \in AppTasks |-> IF TickSpokePtr'[u] # Null THEN Remain(TickCtrMatch'[u]) ELSE 0]
    BY <1>3 DEF TicksLeft, Delayed, Remain
  <2>2. TicksLeft = [u \in AppTasks |-> IF TickSpokePtr[u] # Null THEN Remain(TickCtrMatch[u]) ELSE 0]
    BY DEF TicksLeft, Delayed
  <2> QED BY <1>2, <1>4, <1>5, <2>1, <2>2
<1>7. Ctr' = Ctr /\ Queues' = Queues /\ Results' = Results
  BY <1>3 DEF Queues, Results
<1>8. WaitsForSems'
  BY <1>3 DEF WaitsForSems
<1> QED BY <1>6, <1>7, <1>8 DEF Service!serviceVars

\* Two sequences in a row.
LEMMA Joined ==
  ASSUME NEW a \in Seq(Tasks), NEW b \in Seq(Tasks)
  PROVE  /\ a \o b \in Seq(Tasks) /\ Len(a \o b) = Len(a) + Len(b)
         /\ \A i \in 1 .. Len(a) + Len(b) : (a \o b)[i] = IF i <= Len(a) THEN a[i] ELSE b[i - Len(a)]
OBVIOUS

\* OSSemPend with nothing to take is a wait.
LEMMA BlockSeen ==
  ASSUME KInv, WaitsForSems, NEW t \in AppTasks, NEW s \in Sems, NEW timeout \in {0} \cup Times,
         OSSemPend_block(t, s, timeout)
  PROVE  Service!ServiceNext /\ WaitsForSems'
<1>1. t \in ReadyTasks /\ t \in Tasks
  BY CallerReady DEF KInv, OSSemPend_block, Places, AboutToSched, AppTasks
<1>2. ~Delayed(t) /\ Service!Free(t) /\ PendOn[t] = "NOTHING"
  BY <1>1, ReadyFields, CallerFree DEF KInv, ListsInv
<1>3. /\ Ctr[s] = 0 /\ OS_Pend(t, s, timeout) /\ OSTickCtr' = OSTickCtr /\ UNCHANGED Ctr
  BY DEF OSSemPend_block
<1>4. ListsInv /\ FieldsAgree /\ Placed(PendList, Sems, PendOn, Prio) /\ Good(PendList, Sems)
      /\ Placed(OSCfg_TickWheel, Spokes, TickSpokePtr, TimeLeft)
  BY DEF KInv, ListsInv, Placed
<1>5. PICK left \in 0 .. TickMod - 1 : TicksLeft' = [TicksLeft EXCEPT ![t] = left]
  <2>1. CASE timeout = 0
    <3>1. TickCtrMatch' = TickCtrMatch /\ TickSpokePtr' = TickSpokePtr
      BY <1>3, <2>1 DEF OS_Pend, wheel
    <3>2. TicksLeft' = TicksLeft
      BY <1>3, <3>1 DEF TicksLeft, Delayed, Remain
    <3>3. TicksLeft[t] = 0
      BY <1>2 DEF TicksLeft
    <3>4. TicksLeft' = [TicksLeft EXCEPT ![t] = 0]
      BY <3>2, <3>3 DEF TicksLeft
    <3>5. 0 \in 0 .. TickMod - 1
      BY TickArithmetic
    <3> QED BY <3>4, <3>5
  <2>2. CASE timeout # 0
    <3> DEFINE match == (OSTickCtr + timeout) % TickMod
    <3>1. timeout \in 1 .. TickMod - 1
      BY <2>2, KernelAssumption
    <3>2. match \in TickNbrs /\ match # OSTickCtr
      BY <1>4, <3>1, AddedTime DEF FieldsAgree
    <3>3. OS_TickListInsert(t, match)
      BY <1>3, <2>2 DEF OS_Pend
    <3> HIDE DEF match
    <3>4. Remain(match) \in 1 .. TickMod - 1 /\ TicksLeft' = [TicksLeft EXCEPT ![t] = Remain(match)]
      BY <1>2, <1>3, <1>4, <3>2, <3>3, GetsTime
    <3>5. Remain(match) \in 0 .. TickMod - 1
      BY <3>4
    <3> QED BY <3>4, <3>5
  <2> QED BY <2>1, <2>2
<1>6. Ctr' = Ctr
  BY <1>3
<1>7. Results' = [Results EXCEPT ![t] = "OK"]
  <2>1. PendStatus' = [PendStatus EXCEPT ![t] = "OK"] /\ PendStatus \in [Tasks -> {"OK", "TIMEOUT", "DEL"}]
    BY <1>3 DEF OS_Pend, KInv, CountsTyped
  <2>2. \A u \in AppTasks : PendStatus'[u] = IF u = t THEN "OK" ELSE PendStatus[u]
    BY <2>1 DEF AppTasks
  <2> QED BY <2>2 DEF Results
<1> DEFINE c == Chain(PendList, s)
           n == Len(c)
           passed == {u \in Tasks : ~Before(t, u)}
<1>8. PendList' = InsertBeforeFirst(PendList, s, t, passed)
  BY <1>3 DEF OS_Pend
<1>9. PICK k \in 1 .. n + 1 :
            /\ Enters(PendList, PendList', Sems, s, t, k)
            /\ \A i \in 1 .. n : i < k => c[i] \in passed
            /\ k <= n => c[k] \notin passed
  <2>1. \A m \in Sems : t \notin Members(PendList, m)
    <3>1. PendOn[t] \notin Sems
      BY <1>2, KernelAssumption
    <3> QED BY <1>1, <1>4, <3>1, NotMember
  <2> HIDE DEF passed
  <2> QED BY <1>1, <1>4, <1>8, <2>1, OrderedEnters
<1>10. /\ n \in Nat /\ c \in [1 .. n -> Tasks]
       /\ \A i, j \in 1 .. n : i < j => Prio[c[i]] <= Prio[c[j]]
  BY <1>4, GoodChain DEF Placed, Ascending
<1>11. /\ Chain(PendList', s) = With(c, n, k, t)
       /\ \A m \in Sems \ {s} : Chain(PendList', m) = Chain(PendList, m)
  BY <1>9 DEF Enters
<1>12. Queues[s] = c /\ Queues' = [Queues EXCEPT ![s] = With(c, n, k, t)]
  BY <1>11 DEF Queues
<1> HIDE DEF c, n
<1>13. With(c, n, k, t) = SubSeq(c, 1, k - 1) \o <<t>> \o SubSeq(c, k, n) /\ Len(c) = n
  <2> DEFINE front == SubSeq(c, 1, k - 1)
             back == SubSeq(c, k, n)
  <2>1. Len(c) = n /\ c \in Seq(Tasks)
    BY <1>10
  <2>2. /\ front \in Seq(Tasks) /\ Len(front) = k - 1 /\ \A i \in 1 .. k - 1 : front[i] = c[i]
        /\ back \in Seq(Tasks) /\ Len(back) = n - k + 1 /\ \A i \in 1 .. n - k + 1 : back[i] = c[i + k - 1]
    BY <1>10, <2>1
  <2> HIDE DEF front, back
  <2> DEFINE more == front \o <<t>>
             all == more \o back
  <2>3. /\ more \in Seq(Tasks) /\ Len(more) = k
        /\ \A i \in 1 .. k : more[i] = IF i = k THEN t ELSE c[i]
    BY <1>1, <1>10, <2>2
  <2> HIDE DEF more
  <2>4. /\ all \in Seq(Tasks) /\ Len(all) = n + 1
        /\ \A i \in 1 .. n + 1 : all[i] = IF i <= k THEN more[i] ELSE back[i - k]
    <3>1. /\ all \in Seq(Tasks) /\ Len(all) = Len(more) + Len(back)
          /\ \A i \in 1 .. Len(more) + Len(back) : all[i] = IF i <= Len(more) THEN more[i] ELSE back[i - Len(more)]
      BY <2>2, <2>3, Joined
    <3>2. Len(more) + Len(back) = n + 1
      BY <1>10, <2>2, <2>3
    <3> HIDE DEF all
    <3> QED BY <2>3, <3>1, <3>2
  <2> HIDE DEF all
  <2>5. \A i \in 1 .. n + 1 : all[i] = IF i < k THEN c[i] ELSE IF i = k THEN t ELSE c[i - 1]
    <3> SUFFICES ASSUME NEW i \in 1 .. n + 1
                 PROVE  all[i] = IF i < k THEN c[i] ELSE IF i = k THEN t ELSE c[i - 1]
      OBVIOUS
    <3>1. n \in Nat /\ k \in 1 .. n + 1
      BY <1>10
    <3>2. CASE i <= k
      <4>1. i \in 1 .. k
        BY <3>1, <3>2
      <4>2. all[i] = more[i]
        BY <2>4, <3>2
      <4> QED BY <2>3, <3>1, <4>1, <4>2
    <3>3. CASE ~(i <= k)
      <4>1. i - k \in 1 .. n - k + 1 /\ (i - k) + k - 1 = i - 1 /\ ~(i < k) /\ i # k
        BY <3>1, <3>3
      <4>2. all[i] = back[i - k]
        BY <2>4, <3>3
      <4>3. back[i - k] = c[(i - k) + k - 1]
        BY <2>2, <4>1
      <4> QED BY <4>1, <4>2, <4>3
    <3> QED BY <3>2, <3>3
  <2>6. all = [i \in 1 .. n + 1 |-> IF i < k THEN c[i] ELSE IF i = k THEN t ELSE c[i - 1]]
    BY <1>10, <2>4, <2>5
  <2> QED BY <2>1, <2>6 DEF With, front, back, more, all
<1>14. /\ \A i \in 1 .. k - 1 : Prio[c[i]] <= Prio[t]
       /\ \A i \in k .. n : Prio[c[i]] > Prio[t]
  <2>1. Prio \in [Tasks -> Int]
    BY RanksTyped
  <2>2. \A i \in 1 .. k - 1 : Prio[c[i]] <= Prio[t]
    <3>1. \A i \in 1 .. k - 1 : i \in 1 .. n /\ c[i] \in passed /\ c[i] \in Tasks
      BY <1>9, <1>10
    <3> QED BY <1>1, <2>1, <3>1 DEF Before
  <2>3. \A i \in k .. n : Prio[c[i]] > Prio[t]
    <3> SUFFICES ASSUME NEW i \in k .. n PROVE Prio[c[i]] > Prio[t]
      OBVIOUS
    <3>1. k \in 1 .. n /\ i \in 1 .. n /\ c[k] \in Tasks /\ c[i] \in Tasks
      BY <1>10
    <3>2. Prio[t] < Prio[c[k]]
      BY <1>9, <3>1 DEF Before
    <3>3. Prio[c[k]] <= Prio[c[i]]
      BY <1>10, <2>1, <3>1
    <3> QED BY <1>1, <2>1, <3>1, <3>2, <3>3
  <2> QED BY <2>2, <2>3
<1>15. Service!Wait(s, t, left)
  <2>1. k - 1 \in 0 .. Len(Queues[s]) /\ (k - 1) + 1 = k
    BY <1>10, <1>12, <1>13
  <2>2. /\ \A i \in 1 .. k - 1 : Prio[Queues[s][i]] <= Prio[t]
        /\ \A i \in (k - 1) + 1 .. Len(Queues[s]) : Prio[Queues[s][i]] > Prio[t]
        /\ Queues' = [Queues EXCEPT ![s] = SubSeq(Queues[s], 1, k - 1) \o <<t>> \o SubSeq(Queues[s], (k - 1) + 1, Len(Queues[s]))]
    BY <1>12, <1>13, <1>14, <2>1
  <2> QED BY <1>2, <1>3, <1>5, <1>6, <1>7, <2>1, <2>2 DEF Service!Wait
<1>16. WaitsForSems'
  <2>1. PendOn' = [PendOn EXCEPT ![t] = s] /\ s # "TASK_SEM"
    BY <1>3, KernelAssumption DEF OS_Pend
  <2> QED BY <2>1 DEF WaitsForSems
<1> QED BY <1>5, <1>15, <1>16 DEF Service!ServiceNext

\* What changes only the counter, and who exists.
LEMMA CounterSeen ==
  ASSUME KInv, WaitsForSems, NEW s \in Sems, NEW cnt \in 0 .. MaxCtr,
         \/ Ctr[s] > 0 /\ Ctr' = [Ctr EXCEPT ![s] = Ctr[s] - 1]
         \/ (Ctr[s] > 0 \/ PendList.NbrEntries[s] = 0) /\ Ctr' = [Ctr EXCEPT ![s] = cnt],
         UNCHANGED <<wheel, OSTickCtr, pends>>
  PROVE  Service!ServiceNext /\ WaitsForSems'
<1>1. Ctr[s] > 0 => \A t \in Tasks : PendOn[t] # s
  BY DEF KInv, SemsInv
<1>2. /\ TickCtrMatch' = TickCtrMatch /\ TickSpokePtr' = TickSpokePtr /\ PendList' = PendList
      /\ PendStatus' = PendStatus /\ PendOn' = PendOn
  BY DEF wheel, pends
<1>3. Queues' = Queues /\ Results' = Results /\ TicksLeft' = TicksLeft /\ WaitsForSems'
  BY <1>2 DEF Queues, Results, TicksLeft, Delayed, Remain, WaitsForSems
<1>4. CASE Ctr[s] > 0 /\ Ctr' = [Ctr EXCEPT ![s] = Ctr[s] - 1]
  <2>1. Service!Take(s)
    BY <1>3, <1>4 DEF Service!Take
  <2> QED BY <1>3, <2>1 DEF Service!ServiceNext
<1>5. CASE (Ctr[s] > 0 \/ PendList.NbrEntries[s] = 0) /\ Ctr' = [Ctr EXCEPT ![s] = cnt]
  <2>1. Queues[s] = <<>>
    <3> DEFINE q == Queues[s]
    <3>1. Len(q) \in Nat /\ q \in [1 .. Len(q) -> Tasks] /\ PendList.NbrEntries[s] = Len(q)
          /\ Service!Queued(q) = {t \in Tasks : PendOn[t] = s}
      BY QueueMembers DEF KInv
    <3> HIDE DEF q
    <3>2. Len(q) = 0
      <4>1. CASE Ctr[s] > 0
        <5>1. Service!Queued(q) = {}
          BY <1>1, <3>1, <4>1
        <5>2. \A i \in 1 .. Len(q) : q[i] \in Service!Queued(q)
          BY <3>1 DEF Service!Queued
        <5>3. 1 .. Len(q) = {}
          BY <5>1, <5>2
        <5> QED BY <3>1, <5>3
      <4>2. CASE PendList.NbrEntries[s] = 0
        BY <3>1, <4>2
      <4> QED BY <1>5, <4>1, <4>2
    <3>3. q \in Seq(Tasks)
      BY <3>1
    <3>4. q = <<>>
      BY <3>2, <3>3
    <3> QED BY <3>4 DEF q
  <2>2. Service!Set(s)
    BY <1>3, <1>5, <2>1 DEF Service!Set
  <2> QED BY <1>3, <2>2 DEF Service!ServiceNext
<1> QED BY <1>4, <1>5

-----------------------------------------------------------------------------
\* Wake-ups, as the callers see them.

\* Who stays in a pend list stays in order, and a list that nobody leaves is the same.
LEMMA PendsLeaveInOrder ==
  ASSUME NEW n, NEW ts, Distinct(ts, n), Placed(PendList, Sems, PendOn, Prio), NEW s \in Sems
  PROVE  /\ InOrderOf(Chain(OS_PendListRemove(ts), s), Chain(PendList, s))
         /\ (\A k \in 1 .. n : PendOn[ts[k]] # s) => Chain(OS_PendListRemove(ts), s) = Chain(PendList, s)
<1>1. n \in Nat /\ ts \in [1 .. n -> Tasks]
  BY DEF Distinct
<1>2. PendList \in ListsOf(Sems)
  BY DEF Placed, Good
<1>3. PICK a \in [0 .. n -> ListsOf(Sems)] :
            /\ a[0] = PendList /\ a[n] = OS_PendListRemove(ts)
            /\ \A k \in 1 .. n : a[k] = (IF PendOn[ts[k]] \in Sems THEN Unlink(a[k - 1], PendOn[ts[k]], ts[k]) ELSE a[k - 1])
  <2> DEFINE V == ListsOf(Sems)
  <2>1. PendList \in V /\ \A h \in V, t \in Tasks : PendOn[t] \in Sems => Unlink(h, PendOn[t], t) \in V
    BY <1>2, UnlinkTyped
  <2> HIDE DEF V
  <2>2. \E a \in [0 .. n -> V] :
            /\ a[0] = PendList /\ a[n] = OS_PendListRemove(ts)
            /\ \A k \in 1 .. n : a[k] = (IF PendOn[ts[k]] \in Sems THEN Unlink(a[k - 1], PendOn[ts[k]], ts[k]) ELSE a[k - 1])
    BY <1>1, <2>1, PendListFold
  <2> QED BY <2>2 DEF V
<1>4. Placed(a[0], Sems, PendOn, Prio) /\ Prio \in [Tasks -> Int]
  BY <1>3, RanksTyped
<1>5. \A k \in 1 .. n : a[k] = IF PendOn[ts[k]] \in Sems THEN Unlink(a[k - 1], PendOn[ts[k]], ts[k])
                               ELSE a[k - 1]
  BY <1>3
<1>6. LeftInOrder(PendOn, n, ts, a, s)
  <2> DEFINE place == PendOn
             rank == Prio
  <2>1. Departures(Sems, place, rank, n, ts, a)
    BY <1>4, <1>5 DEF Departures
  <2> HIDE DEF place, rank
  <2>2. LeftInOrder(place, n, ts, a, s)
    BY <2>1, AllLeaveInOrder
  <2> QED BY <2>2 DEF place
<1> QED BY <1>3, <1>6 DEF LeftInOrder

\* One task that leaves.
LEMMA OnePendLeaves ==
  ASSUME Placed(PendList, Sems, PendOn, Prio), NEW t \in Tasks, PendOn[t] \in Sems
  PROVE  OS_PendListRemove(<<t>>) = Unlink(PendList, PendOn[t], t)
<1> DEFINE ts == <<t>>
           V == ListsOf(Sems)
           n == 1
<1>1. ts \in [1 .. n -> Tasks] /\ ts[1] = t /\ n \in Nat
  OBVIOUS
<1>2. PendList \in V /\ \A h \in V, u \in Tasks : PendOn[u] \in Sems => Unlink(h, PendOn[u], u) \in V
  BY UnlinkTyped DEF Placed, Good
<1> HIDE DEF ts, V, n
<1>3. PICK a \in [0 .. n -> V] :
            /\ a[0] = PendList /\ a[n] = OS_PendListRemove(ts)
            /\ \A k \in 1 .. n : a[k] = (IF PendOn[ts[k]] \in Sems THEN Unlink(a[k - 1], PendOn[ts[k]], ts[k]) ELSE a[k - 1])
  BY <1>1, <1>2, PendListFold
<1>4. n = 1 /\ 1 \in 1 .. n /\ 1 - 1 = 0
  BY DEF n
<1>5. a[1] = Unlink(a[0], PendOn[t], t)
  BY <1>1, <1>3, <1>4
<1> QED BY <1>3, <1>4, <1>5 DEF ts

\* The delay of a task that is woken is over, and its wait has a result.
LEMMA WakeEndsWaits ==
  ASSUME KInv, NEW n, NEW ts, Distinct(ts, n), NEW st, Wake(ts, st), OSTickCtr' = OSTickCtr
  PROVE  \A t \in AppTasks :
            /\ TicksLeft'[t] = (IF \E i \in 1 .. n : ts[i] = t THEN 0 ELSE TicksLeft[t])
            /\ Results'[t] = (IF (\E i \in 1 .. n : ts[i] = t) /\ Waiting(t) THEN st ELSE Results[t])
<1> DEFINE S == ToSet(ts)
<1>1. \A t : t \in S <=> \E i \in 1 .. n : ts[i] = t
  BY DEF Distinct, ToSet
<1>2. /\ TickSpokePtr' = [t \in Tasks |-> IF t \in S THEN Null ELSE TickSpokePtr[t]]
      /\ TickCtrMatch' = [t \in Tasks |-> IF t \in S /\ TickSpokePtr[t] # Null THEN 0 ELSE TickCtrMatch[t]]
      /\ PendStatus' = [t \in Tasks |-> IF t \in S /\ TaskState[t] \in Pending THEN st ELSE PendStatus[t]]
  BY DEF Wake
<1> HIDE DEF S
<1>3. TicksLeft' = [u \in AppTasks |-> IF TickSpokePtr'[u] # Null THEN Remain(TickCtrMatch'[u]) ELSE 0]
  BY DEF TicksLeft, Delayed, Remain
<1>4. TicksLeft = [u \in AppTasks |-> IF TickSpokePtr[u] # Null THEN Remain(TickCtrMatch[u]) ELSE 0]
  BY DEF TicksLeft, Delayed
<1>5. Results' = [t \in AppTasks |-> PendStatus'[t]] /\ Results = [t \in AppTasks |-> PendStatus[t]]
  BY DEF Results
<1> SUFFICES ASSUME NEW t \in AppTasks
             PROVE  /\ TicksLeft'[t] = (IF t \in S THEN 0 ELSE TicksLeft[t])
                    /\ Results'[t] = (IF t \in S /\ Waiting(t) THEN st ELSE Results[t])
  BY <1>1
<1>6. t \in Tasks
  BY DEF AppTasks
<1>7. TicksLeft'[t] = (IF t \in S THEN 0 ELSE TicksLeft[t])
  BY <1>2, <1>3, <1>4, <1>6
<1>8. Results'[t] = (IF t \in S /\ Waiting(t) THEN st ELSE Results[t])
  BY <1>2, <1>5, <1>6 DEF Waiting
<1> QED BY <1>7, <1>8

\* Nobody begins to wait.
LEMMA NobodyNew ==
  ASSUME WaitsForSems, NEW ts, NEW st, Wake(ts, st)
  PROVE  WaitsForSems'
BY DEF WaitsForSems, Wake, AppTasks

\* The first who waits for a semaphore is served, or all of them.
LEMMA ReleaseSeen ==
  ASSUME KInv, NEW s \in Sems, NEW n \in {1, Len(Queues[s])}, n <= Len(Queues[s]),
         NEW st, Wake(SubSeq(Queues[s], 1, n), st), OSTickCtr' = OSTickCtr
  PROVE  Service!Release(s, n, st)
<1> DEFINE c == Queues[s]
           len == Len(c)
           ts == SubSeq(c, 1, n)
<1>1. /\ c = Chain(PendList, s) /\ len \in Nat /\ c \in [1 .. len -> Tasks]
      /\ {c[i] : i \in 1 .. len} = {t \in Tasks : PendOn[t] = s}
      /\ \A i, j \in 1 .. len : c[i] = c[j] => i = j
      /\ \A i \in 1 .. len : c[i] \notin ReadyTasks
  BY QueueMembers, Waiters DEF KInv, Distinct
<1> HIDE DEF c, len
<1>2. n \in 0 .. len /\ Len(c) = len
  <2>1. n \in {1, len} /\ n <= len
    BY DEF len, c
  <2>2. Len(c) = len
    BY DEF len
  <2> QED BY <1>1, <2>1, <2>2
<1>3. ts = [i \in 1 .. n |-> c[i]] /\ \A i \in 1 .. n : i \in 1 .. len /\ ts[i] = c[i]
  BY <1>1, <1>2
<1> HIDE DEF ts
<1>4. Distinct(ts, n) /\ \A i \in 1 .. n : ts[i] \notin ReadyTasks
  BY <1>1, <1>2, <1>3 DEF Distinct
<1>5. Wake(ts, st)
  BY DEF ts, c
<1>6. \A i \in 1 .. n : PendOn[ts[i]] = s /\ Waiting(ts[i])
  <2>1. s # "NOTHING"
    BY KernelAssumption
  <2>2. \A i \in 1 .. n : c[i] \in Tasks /\ PendOn[c[i]] = s
    BY <1>1, <1>3
  <2> QED BY <1>3, <2>1, <2>2 DEF KInv, ListsInv, FieldsAgree
<1>7. Service!Queued(SubSeq(Queues[s], 1, n)) = {ts[i] : i \in 1 .. n}
  BY <1>3 DEF Service!Queued, ts, c
<1>8. Placed(PendList, Sems, PendOn, Prio) /\ PendList' = OS_PendListRemove(ts)
      /\ Placed(PendList', Sems, PendOn', Prio) /\ Good(PendList, Sems)
  BY <1>4, <1>5, WakeLists DEF KInv, ListsInv, Placed, Wake
<1>9. Queues' = [Queues EXCEPT ![s] = SubSeq(Queues[s], n + 1, Len(Queues[s]))]
  <2>1. \A m \in Sems \ {s} : Chain(PendList', m) = Chain(PendList, m)
    BY <1>4, <1>6, <1>8, PendsLeaveInOrder
  <2>2. Chain(PendList', s) = SubSeq(c, n + 1, len)
    <3>1. CASE n = len
      <4>1. ASSUME NEW t \in Tasks PROVE PendOn'[t] # s
        <5>1. PendOn'[t] \in {"NOTHING", PendOn[t]} /\ \A i \in 1 .. n : PendOn'[ts[i]] = "NOTHING"
          BY <1>3, <1>1, <1>5 DEF Wake, ToSet
        <5>2. s # "NOTHING"
          BY KernelAssumption
        <5>3. PendOn[t] = s => \E i \in 1 .. n : ts[i] = t
          BY <1>1, <1>3, <3>1
        <5> QED BY <5>1, <5>2, <5>3
      <4>2. Members(PendList', s) = {} /\ Good(PendList', Sems)
        BY <1>8, <4>1 DEF Placed
      <4> DEFINE d == Chain(PendList', s)
      <4>3. /\ Len(d) \in Nat /\ d \in [1 .. Len(d) -> Tasks]
            /\ Members(PendList', s) = {d[i] : i \in 1 .. Len(d)}
        BY <4>2, GoodChain
      <4> HIDE DEF d
      <4>4. Len(d) = 0
        <5>1. 1 .. Len(d) = {}
          BY <4>2, <4>3
        <5> QED BY <4>3, <5>1
      <4>5. d \in Seq(Tasks)
        BY <4>3
      <4>6. d = <<>> /\ SubSeq(c, n + 1, len) = <<>>
        BY <1>1, <1>2, <3>1, <4>4, <4>5
      <4> QED BY <4>6 DEF d
    <3>2. CASE n # len
      <4>1. n = 1 /\ 1 \in 1 .. len
        <5>1. n \in {1, len}
          BY DEF len, c
        <5> QED BY <1>1, <1>2, <3>2, <5>1
      <4>2. ts = <<c[1]>>
        BY <1>3, <4>1
      <4>3. c[1] \in Tasks /\ PendOn[c[1]] = s
        BY <1>1, <1>3, <1>6, <4>1
      <4>4. PendList' = Unlink(PendList, s, Chain(PendList, s)[1])
        BY <1>1, <1>8, <4>2, <4>3, OnePendLeaves
      <4>5. 1 \in 1 .. Len(Chain(PendList, s))
        BY <1>1, <4>1 DEF len
      <4>6. Chain(PendList', s) = Without(c, len, 1)
        <5>1. Leaves(PendList, PendList', Sems, s, 1)
          BY <1>8, <4>4, <4>5, TaskLeaves
        <5> QED BY <1>1, <5>1 DEF Leaves, len
      <4>7. SubSeq(c, 2, len) = [i \in 1 .. len - 1 |-> c[i + 1]]
        BY <1>1, <1>2
      <4>8. Without(c, len, 1) = [i \in 1 .. len - 1 |-> c[i + 1]]
        BY <1>1 DEF Without
      <4>9. n + 1 = 2
        BY <4>1
      <4> QED BY <4>6, <4>7, <4>8, <4>9
    <3> QED BY <3>1, <3>2
  <2>3. Queues = [m \in Sems |-> Chain(PendList, m)] /\ Queues' = [m \in Sems |-> Chain(PendList', m)]
    BY DEF Queues
  <2> QED BY <2>1, <2>2, <2>3 DEF c, len
<1> DEFINE served == {ts[i] : i \in 1 .. n}
<1>10. \A t \in AppTasks : /\ TicksLeft'[t] = (IF t \in served THEN 0 ELSE TicksLeft[t])
                           /\ Results'[t] = (IF t \in served THEN st ELSE Results[t])
  BY <1>4, <1>5, <1>6, WakeEndsWaits
<1>11. /\ TicksLeft' = [t \in AppTasks |-> IF t \in served THEN 0 ELSE TicksLeft[t]]
       /\ Results' = [t \in AppTasks |-> IF t \in served THEN st ELSE Results[t]]
  <2>1. TicksLeft' = [t \in AppTasks |-> TicksLeft'[t]] /\ Results' = [t \in AppTasks |-> Results'[t]]
    BY DEF TicksLeft, Results
  <2> HIDE DEF served
  <2> QED BY <1>10, <2>1
<1> QED BY <1>7, <1>9, <1>11 DEF Service!Release

\* A queue without anybody is empty.
LEMMA QueueEmpty ==
  ASSUME ListsInv, NEW s \in Sems
  PROVE  Queues[s] = <<>> <=> PendList.NbrEntries[s] = 0
<1> DEFINE q == Queues[s]
<1>1. Len(q) \in Nat /\ q \in [1 .. Len(q) -> Tasks] /\ PendList.NbrEntries[s] = Len(q)
  BY QueueMembers
<1> HIDE DEF q
<1>2. q \in Seq(Tasks)
  BY <1>1
<1>3. q = <<>> <=> Len(q) = 0
  BY <1>2
<1> QED BY <1>1, <1>3 DEF q

\* A post, by a task or by an interrupt.
LEMMA PostSeen ==
  ASSUME KInv, WaitsForSems, NEW s \in Sems, NEW all \in BOOLEAN, OS_SemPost(s, all),
         OSTickCtr' = OSTickCtr
  PROVE  Service!ServiceNext /\ WaitsForSems'
<1>1. ListsInv /\ Ctr \in [Sems -> 0 .. MaxCtr] /\ MaxCtr \in Nat
  BY KernelAssumption DEF KInv, SemsInv
<1>2. CASE PendList.NbrEntries[s] = 0
  <2>1. Ctr[s] # MaxCtr /\ Ctr' = [Ctr EXCEPT ![s] = Ctr[s] + 1] /\ UNCHANGED <<wheel, pends>>
    BY <1>2 DEF OS_SemPost
  <2>2. Queues[s] = <<>> /\ Ctr[s] < MaxCtr
    BY <1>1, <1>2, <2>1, QueueEmpty
  <2>3. Queues' = Queues /\ Results' = Results /\ TicksLeft' = TicksLeft /\ WaitsForSems'
    BY <2>1 DEF wheel, pends, Queues, Results, TicksLeft, Delayed, Remain, WaitsForSems
  <2>4. Service!Post(s)
    BY <2>1, <2>2, <2>3 DEF Service!Post
  <2> QED BY <2>3, <2>4 DEF Service!ServiceNext
<1>3. CASE PendList.NbrEntries[s] # 0
  <2> DEFINE c == Queues[s]
             n == IF all THEN Len(c) ELSE 1
  <2>1. Wake(IF all THEN Chain(PendList, s) ELSE <<Head(Chain(PendList, s))>>, "OK") /\ Ctr' = Ctr
    BY <1>3 DEF OS_SemPost
  <2>2. /\ Queues[s] # <<>> /\ c = Chain(PendList, s)
        /\ Len(c) \in Nat /\ c \in [1 .. Len(c) -> Tasks]
    BY <1>1, <1>3, QueueEmpty, QueueMembers
  <2> HIDE DEF c
  <2>3. c \in Seq(Tasks) /\ c # <<>> /\ Len(c) >= 1
    BY <2>2 DEF c
  <2>4. SubSeq(c, 1, n) = IF all THEN c ELSE <<Head(c)>>
    <3>1. SubSeq(c, 1, Len(c)) = c
      BY <2>3
    <3>2. SubSeq(c, 1, 1) = <<Head(c)>>
      <4>1. Head(c) = c[1] /\ SubSeq(c, 1, 1) = [i \in 1 .. 1 |-> c[i]]
        BY <2>2, <2>3
      <4>2. [i \in 1 .. 1 |-> c[i]] = <<c[1]>>
        OBVIOUS
      <4> QED BY <4>1, <4>2
    <3> QED BY <3>1, <3>2
  <2>5. n \in {1, Len(c)} /\ n <= Len(c) /\ Wake(SubSeq(c, 1, n), "OK")
    <3>1. n \in {1, Len(c)} /\ n <= Len(c)
      BY <2>2, <2>3
    <3>2. SubSeq(c, 1, n) = IF all THEN Chain(PendList, s) ELSE <<Head(Chain(PendList, s))>>
      BY <2>2, <2>4
    <3> HIDE DEF n
    <3>3. Wake(SubSeq(c, 1, n), "OK")
      BY ONLY <2>1, <3>2
    <3> QED BY <3>1, <3>3
  <2> HIDE DEF n
  <2>6. Service!Release(s, n, "OK")
    BY <2>5, ReleaseSeen DEF c
  <2>7. Service!Post(s)
    <3>1. \E m \in {1, Len(Queues[s])} : Service!Release(s, m, "OK")
      BY <2>5, <2>6 DEF c
    <3> QED BY <2>1, <2>2, <3>1 DEF Service!Post
  <2>8. WaitsForSems'
    BY <2>1, NobodyNew
  <2> QED BY <2>7, <2>8 DEF Service!ServiceNext
<1> QED BY <1>2, <1>3

\* A semaphore is deleted, and nobody waits any more.
LEMMA DelSeen ==
  ASSUME KInv, WaitsForSems, NEW t, NEW s \in Sems, NEW always, OSSemDel(t, s, always)
  PROVE  Service!ServiceNext /\ WaitsForSems'
<1> DEFINE c == Queues[s]
           n == Len(c)
<1>1. Wake(Chain(PendList, s), "DEL") /\ Ctr' = [Ctr EXCEPT ![s] = 0] /\ OSTickCtr' = OSTickCtr
  BY DEF OSSemDel
<1>2. c = Chain(PendList, s) /\ n \in Nat /\ c \in [1 .. n -> Tasks]
  BY QueueMembers DEF KInv
<1> HIDE DEF c
<1>3. SubSeq(c, 1, n) = c
  BY <1>2
<1>4. n \in {1, Len(c)} /\ n <= Len(c) /\ Wake(SubSeq(c, 1, n), "DEL")
  <2>1. n \in {1, Len(c)} /\ n <= Len(c)
    BY <1>2
  <2>2. SubSeq(c, 1, n) = Chain(PendList, s)
    BY <1>2, <1>3
  <2> HIDE DEF n
  <2>3. Wake(SubSeq(c, 1, n), "DEL")
    BY ONLY <1>1, <2>2
  <2> QED BY <2>1, <2>3
<1> HIDE DEF n
<1>5. Service!Release(s, n, "DEL")
  BY <1>1, <1>4, ReleaseSeen DEF c
<1>6. Service!Delete(s)
  BY <1>1, <1>5 DEF Service!Delete, c, n
<1>7. WaitsForSems'
  BY <1>1, NobodyNew
<1> QED BY <1>6, <1>7 DEF Service!ServiceNext

-----------------------------------------------------------------------------
\* The clock, as the callers see it.

\* What is left of a delay, before a tick and after it.
LEMMA TickTakesOne ==
  ASSUME KInv, OS_TickListUpdate, NEW t \in AppTasks
  PROVE  /\ TicksLeft[t] \in Nat
         /\ TicksLeft'[t] = (IF TicksLeft[t] > 0 THEN TicksLeft[t] - 1 ELSE 0)
         /\ TicksLeft[t] = 1 <=> Delayed(t) /\ TickCtrMatch[t] = NextTick
<1>1. t \in Tasks /\ ListsInv /\ FieldsAgree /\ OSTickCtr \in TickNbrs /\ TickCtrMatch \in [Tasks -> TickNbrs]
  BY DEF KInv, ListsInv, FieldsAgree, AppTasks
<1>2. Wake(Expired(NextTick), "TIMEOUT") /\ OSTickCtr' = NextTick
  BY DEF OS_TickListUpdate, NextTick
<1>3. PICK n : /\ Distinct(Expired(NextTick), n)
               /\ {Expired(NextTick)[i] : i \in 1 .. n} = {u \in Tasks : Delayed(u) /\ TickCtrMatch[u] = NextTick}
  BY <1>1, ExpiredAreDue
<1> DEFINE due == Delayed(t) /\ TickCtrMatch[t] = NextTick
<1>4. t \in ToSet(Expired(NextTick)) <=> due
  <2>1. ToSet(Expired(NextTick)) = {Expired(NextTick)[i] : i \in 1 .. n}
    BY <1>3 DEF Distinct, ToSet
  <2> QED BY <1>1, <1>3, <2>1
<1>5. /\ TickSpokePtr'[t] = IF due THEN Null ELSE TickSpokePtr[t]
      /\ TickCtrMatch'[t] = IF due THEN 0 ELSE TickCtrMatch[t]
  BY <1>1, <1>2, <1>4 DEF Wake, Delayed
<1>6. /\ TicksLeft[t] = IF Delayed(t) THEN Remain(TickCtrMatch[t]) ELSE 0
      /\ TicksLeft'[t] = IF TickSpokePtr'[t] # Null THEN (TickCtrMatch'[t] - NextTick) % TickMod ELSE 0
  BY <1>2 DEF TicksLeft, Delayed, Remain
<1>7. CASE ~Delayed(t)
  <2>1. TicksLeft[t] = 0 /\ TicksLeft'[t] = 0
    BY <1>5, <1>6, <1>7 DEF Delayed
  <2> QED BY <1>7, <2>1
<1>8. CASE Delayed(t)
  <2> DEFINE match == TickCtrMatch[t]
             left == Remain(match)
  <2>1. match \in TickNbrs /\ left > 0
    BY <1>1, <1>8 DEF FieldsAgree, TimeLeft
  <2>2. match # OSTickCtr /\ left \in TickNbrs
    BY <1>1, <2>1, LeftIsSome
  <2>3. (match - NextTick) % TickMod = left - 1 /\ (left = 1 <=> match = NextTick)
    BY <1>1, <2>1, <2>2, OneTickLess
  <2>4. left \in Nat /\ TicksLeft[t] = left
    BY <1>6, <1>8, <2>2 DEF TickNbrs
  <2> HIDE DEF left
  <2>5. CASE match = NextTick
    <3>1. TicksLeft'[t] = 0 /\ left = 1
      BY <1>5, <1>6, <1>8, <2>3, <2>5
    <3> QED BY <1>8, <2>1, <2>4, <2>5, <3>1
  <2>6. CASE match # NextTick
    <3>1. TicksLeft'[t] = left - 1 /\ left # 1
      BY <1>5, <1>6, <1>8, <2>3, <2>6 DEF Delayed
    <3> QED BY <1>8, <2>1, <2>4, <2>6, <3>1
  <2> QED BY <2>5, <2>6
<1> QED BY <1>7, <1>8

\* Whose timeout ends leaves the queue, and the others stay in theirs.
LEMMA TickLeavesRest ==
  ASSUME KInv, OS_TickListUpdate, NEW s \in Sems
  PROVE  Service!IsRest(Queues'[s], Queues[s], {t \in AppTasks : TicksLeft[t] = 1})
<1> DEFINE over == {t \in AppTasks : TicksLeft[t] = 1}
           ts == Expired(NextTick)
           q == Queues[s]
           rest == Queues'[s]
<1>1. ListsInv /\ FieldsAgree /\ ListsInv'
  BY TickKeeps DEF KInv, ListsInv
<1>2. Wake(ts, "TIMEOUT")
  BY DEF OS_TickListUpdate, NextTick
<1>3. PICK n : Distinct(ts, n) /\ {ts[i] : i \in 1 .. n} = {u \in Tasks : Delayed(u) /\ TickCtrMatch[u] = NextTick}
  BY <1>1, ExpiredAreDue
<1> HIDE DEF ts
<1>4. \A u \in Tasks : Delayed(u) => u \in AppTasks
  BY <1>1 DEF FieldsAgree
<1>5. ToSet(ts) = over
  <2>1. ToSet(ts) = {u \in Tasks : Delayed(u) /\ TickCtrMatch[u] = NextTick}
    BY <1>3 DEF Distinct, ToSet
  <2>2. \A t \in AppTasks : TicksLeft[t] = 1 <=> Delayed(t) /\ TickCtrMatch[t] = NextTick
    BY TickTakesOne
  <2> QED BY <1>4, <2>1, <2>2 DEF AppTasks
<1>6. /\ Len(q) \in Nat /\ q \in [1 .. Len(q) -> Tasks] /\ q = Chain(PendList, s)
      /\ Service!Queued(q) = {t \in Tasks : PendOn[t] = s}
  BY <1>1, QueueMembers
<1>7. /\ Len(rest) \in Nat /\ rest \in [1 .. Len(rest) -> Tasks] /\ rest = Chain(PendList', s)
      /\ Service!Queued(rest) = {t \in Tasks : PendOn'[t] = s}
  <2>1. rest = Chain(PendList', s)
    BY DEF Queues
  <2>2. Placed(PendList', Sems, PendOn', Prio)
    BY <1>1 DEF ListsInv
  <2> DEFINE h == PendList'
             place == PendOn'
  <2>3. Placed(h, Sems, place, Prio) /\ Good(h, Sems)
    BY <2>2 DEF Placed
  <2> HIDE DEF h, place
  <2> DEFINE c == Chain(h, s)
  <2>4. /\ Len(c) \in Nat /\ c \in [1 .. Len(c) -> Tasks] /\ Members(h, s) = {c[i] : i \in 1 .. Len(c)}
        /\ Members(h, s) = {t \in Tasks : place[t] = s}
    BY <2>3, GoodChain DEF Placed
  <2> HIDE DEF c
  <2>5. Service!Queued(c) = {t \in Tasks : place[t] = s}
    BY <2>4 DEF Service!Queued
  <2> QED BY <2>1, <2>4, <2>5 DEF c, h, place
<1>8. \A u \in Tasks : PendOn'[u] = IF u \in over THEN "NOTHING" ELSE PendOn[u]
  BY <1>2, <1>5 DEF Wake
<1> HIDE DEF over, q, rest
<1>9. Service!Queued(rest) = Service!Queued(q) \ over
  <2>1. s # "NOTHING"
    BY KernelAssumption
  <2> QED BY <1>6, <1>7, <1>8, <2>1
<1>10. InOrderOf(rest, q)
  <2>1. PendList' = OS_PendListRemove(ts) /\ Placed(PendList, Sems, PendOn, Prio)
    BY <1>1, <1>2 DEF Wake, ListsInv
  <2>2. InOrderOf(Chain(OS_PendListRemove(ts), s), Chain(PendList, s))
    BY <1>3, <2>1, PendsLeaveInOrder
  <2> QED BY <1>6, <1>7, <2>1, <2>2
<1>11. rest \in Seq(Service!Queued(q))
  <2>1. \A i \in 1 .. Len(rest) : rest[i] \in Service!Queued(rest)
    BY <1>7 DEF Service!Queued
  <2>2. rest \in [1 .. Len(rest) -> Service!Queued(q)]
    BY <1>7, <1>9, <2>1
  <2> QED BY <1>7, <2>2
<1>12. DOMAIN rest = 1 .. Len(rest) /\ DOMAIN q = 1 .. Len(q)
  BY <1>6, <1>7
<1>13. Service!IsRest(rest, q, over)
  <2>1. \A i, j \in DOMAIN rest : i < j => \E x, y \in DOMAIN q : x < y /\ q[x] = rest[i] /\ q[y] = rest[j]
    <3>1. \A i, j \in 1 .. Len(rest) : i < j => \E x, y \in 1 .. Len(q) : x < y /\ q[x] = rest[i] /\ q[y] = rest[j]
      BY <1>10 DEF InOrderOf
    <3> QED BY ONLY <1>12, <3>1
  <2> QED BY <1>9, <1>11, <2>1, Zenon DEF Service!IsRest
<1> QED BY <1>13 DEF rest, q, over

\* OS_TickListUpdate is the tick of the specification.
LEMMA TickSeen ==
  ASSUME KInv, WaitsForSems, OS_TickListUpdate
  PROVE  Service!ServiceNext /\ WaitsForSems'
<1> DEFINE over == {t \in AppTasks : TicksLeft[t] = 1}
           ts == Expired(NextTick)
<1>1. ListsInv /\ FieldsAgree
  BY DEF KInv, ListsInv
<1>2. Wake(ts, "TIMEOUT") /\ UNCHANGED Ctr
  BY DEF OS_TickListUpdate, NextTick
<1>3. PICK n : Distinct(ts, n) /\ {ts[i] : i \in 1 .. n} = {u \in Tasks : Delayed(u) /\ TickCtrMatch[u] = NextTick}
  BY <1>1, ExpiredAreDue
<1> HIDE DEF ts
<1>4. \A t \in AppTasks : t \in ToSet(ts) <=> t \in over
  <2>1. ToSet(ts) = {u \in Tasks : Delayed(u) /\ TickCtrMatch[u] = NextTick}
    BY <1>3 DEF Distinct, ToSet
  <2>2. \A t \in AppTasks : TicksLeft[t] = 1 <=> Delayed(t) /\ TickCtrMatch[t] = NextTick
    BY TickTakesOne
  <2> QED BY <2>1, <2>2 DEF AppTasks
<1>5. \A t \in AppTasks : Waiting(t) <=> Service!Waits(t)
  <2> SUFFICES ASSUME NEW t \in AppTasks PROVE Waiting(t) <=> Service!Waits(t)
    OBVIOUS
  <2>1. t \in Tasks /\ PendOn[t] \in Sems \cup {"NOTHING", "TASK_SEM"} /\ PendOn[t] # "TASK_SEM"
        /\ (Waiting(t) <=> PendOn[t] # "NOTHING")
    BY <1>1 DEF FieldsAgree, AppTasks, WaitsForSems
  <2>2. \A s \in Sems : t \in Service!Queued(Queues[s]) <=> PendOn[t] = s
    BY <1>1, <2>1, QueueMembers
  <2>3. Service!Waits(t) <=> PendOn[t] \in Sems
    BY <2>2 DEF Service!Waits
  <2> QED BY <2>1, <2>3, KernelAssumption
<1>6. TicksLeft' = [t \in AppTasks |-> IF TicksLeft[t] > 0 THEN TicksLeft[t] - 1 ELSE 0]
  <2>1. TicksLeft' = [t \in AppTasks |-> TicksLeft'[t]]
    BY DEF TicksLeft
  <2> QED BY <2>1, TickTakesOne
<1>7. Results' = [t \in AppTasks |-> IF t \in over /\ Service!Waits(t) THEN "TIMEOUT" ELSE Results[t]]
  <2>1. ASSUME NEW t \in AppTasks
        PROVE  PendStatus'[t] = IF t \in over /\ Service!Waits(t) THEN "TIMEOUT" ELSE PendStatus[t]
    <3>1. PendStatus'[t] = IF t \in ToSet(ts) /\ TaskState[t] \in Pending THEN "TIMEOUT" ELSE PendStatus[t]
      BY <1>2 DEF Wake, AppTasks
    <3> HIDE DEF over
    <3> QED BY <1>4, <1>5, <3>1 DEF Waiting
  <2>2. Results' = [t \in AppTasks |-> PendStatus'[t]] /\ \A t \in AppTasks : Results[t] = PendStatus[t]
    BY DEF Results
  <2> HIDE DEF over
  <2> QED BY <2>1, <2>2
<1>8. DOMAIN Queues' = Sems /\ \A s \in Sems : Service!IsRest(Queues'[s], Queues[s], over)
  BY TickLeavesRest DEF Queues
<1>9. Ctr' = Ctr
  BY <1>2
<1>10. Service!Tick
  BY <1>6, <1>7, <1>8, <1>9 DEF Service!Tick
<1>11. WaitsForSems'
  BY <1>2, NobodyNew
<1> QED BY <1>10, <1>11 DEF Service!ServiceNext

\* The tick task's own semaphore is not seen: a post to it,
LEMMA TaskPostUnseen ==
  ASSUME KInv, WaitsForSems, OSTaskSemPost
  PROVE  UNCHANGED Service!serviceVars /\ WaitsForSems'
<1>1. OSTickCtr' = OSTickCtr /\ UNCHANGED Ctr
  BY DEF OSTaskSemPost
<1>2. CASE PendOn[TickTask] = "TASK_SEM"
  <2> DEFINE ts == <<TickTask>>
  <2>1. Wake(ts, "OK")
    BY <1>2 DEF OSTaskSemPost
  <2>2. TickTask \in Tasks /\ TickTask \notin AppTasks /\ "TASK_SEM" \notin Sems
    BY KernelAssumption DEF AppTasks
  <2>3. Distinct(ts, 1) /\ \A i \in 1 .. 1 : ts[i] = TickTask
    BY <2>2 DEF Distinct
  <2> HIDE DEF ts
  <2>4. Queues' = Queues
    <3>1. PendList' = OS_PendListRemove(ts) /\ Placed(PendList, Sems, PendOn, Prio)
      BY <2>1 DEF Wake, KInv, ListsInv
    <3>2. \A s \in Sems : Chain(OS_PendListRemove(ts), s) = Chain(PendList, s)
      <4> SUFFICES ASSUME NEW s \in Sems PROVE Chain(OS_PendListRemove(ts), s) = Chain(PendList, s)
        OBVIOUS
      <4>1. \A k \in 1 .. 1 : PendOn[ts[k]] # s
        BY <1>2, <2>2, <2>3
      <4> QED BY <2>3, <3>1, <4>1, PendsLeaveInOrder
    <3> QED BY <3>1, <3>2 DEF Queues
  <2>5. \A t \in AppTasks : TicksLeft'[t] = TicksLeft[t] /\ Results'[t] = Results[t]
    BY <1>1, <2>1, <2>2, <2>3, WakeEndsWaits
  <2>6. /\ TicksLeft' = [t \in AppTasks |-> TicksLeft'[t]] /\ TicksLeft = [t \in AppTasks |-> TicksLeft[t]]
        /\ Results' = [t \in AppTasks |-> Results'[t]] /\ Results = [t \in AppTasks |-> Results[t]]
    BY DEF TicksLeft, Results
  <2>7. Ctr' = Ctr
    BY <1>1
  <2>8. TicksLeft' = TicksLeft /\ Results' = Results
    BY <2>5, <2>6
  <2>9. WaitsForSems'
    BY <2>1, NobodyNew
  <2> QED BY <2>4, <2>7, <2>8, <2>9 DEF Service!serviceVars
<1>3. CASE PendOn[TickTask] # "TASK_SEM"
  <2>1. UNCHANGED <<wheel, pends>>
    BY <1>3 DEF OSTaskSemPost
  <2> QED BY <1>1, <2>1, Unseen DEF wheel, pends
<1> QED BY <1>2, <1>3

\* nor a wait for it.
LEMMA TaskPendUnseen ==
  ASSUME WaitsForSems, OSTaskSemPend
  PROVE  UNCHANGED Service!serviceVars /\ WaitsForSems'
<1>1. TickTask \notin AppTasks /\ "TASK_SEM" \notin Sems
  BY KernelAssumption DEF AppTasks
<1>2. OSTickCtr' = OSTickCtr /\ UNCHANGED Ctr
  BY DEF OSTaskSemPend
<1>3. CASE OS_Pend(TickTask, "TASK_SEM", 0)
  <2>1. /\ PendOn' = [PendOn EXCEPT ![TickTask] = "TASK_SEM"]
        /\ PendStatus' = [PendStatus EXCEPT ![TickTask] = "OK"]
        /\ PendList' = PendList /\ UNCHANGED wheel
    BY <1>1, <1>3 DEF OS_Pend
  <2>2. \A t \in AppTasks : PendOn'[t] = PendOn[t] /\ PendStatus'[t] = PendStatus[t]
    BY <1>1, <2>1
  <2>3. Results' = Results /\ WaitsForSems'
    BY <2>2 DEF Results, WaitsForSems
  <2>4. Queues' = Queues /\ TicksLeft' = TicksLeft
    BY <1>2, <2>1 DEF Queues, TicksLeft, Delayed, Remain, wheel
  <2>5. Ctr' = Ctr
    BY <1>2
  <2> QED BY <2>3, <2>4, <2>5 DEF Service!serviceVars
<1>4. CASE UNCHANGED <<ready, wheel, pends>>
  BY <1>2, <1>4, Unseen DEF wheel, pends
<1> QED BY <1>3, <1>4 DEF OSTaskSemPend

-----------------------------------------------------------------------------
\* The refinement.

\* The calls on semaphores.
LEMMA SemaphoreSeen ==
  ASSUME KInv, WaitsForSems, NEW t \in AppTasks, NEW s \in Sems, Semaphore(t, s)
  PROVE  [Service!ServiceNext]_Service!serviceVars /\ WaitsForSems'
<1>1. CASE OSSemPend_take(t, s)
  <2>1. 0 \in 0 .. MaxCtr
    BY KernelAssumption
  <2> QED BY <1>1, <2>1, CounterSeen DEF OSSemPend_take
<1>2. CASE OSSemPend_block(t, s, 0)
  BY <1>2, BlockSeen
<1>3. ASSUME NEW timeout \in Times, OSSemPend_block(t, s, timeout)
      PROVE  [Service!ServiceNext]_Service!serviceVars /\ WaitsForSems'
  <2>1. timeout \in {0} \cup Times
    BY <1>3
  <2> QED BY <1>3, <2>1, BlockSeen
<1>4. ASSUME NEW all \in BOOLEAN, OSSemPost(t, s, all)
      PROVE  [Service!ServiceNext]_Service!serviceVars /\ WaitsForSems'
  BY <1>4, PostSeen DEF OSSemPost
<1>5. ASSUME NEW cnt \in 0 .. MaxCtr, OSSemSet(t, s, cnt) \/ (NobodyWaits(s) /\ OSSemCreate(t, s, cnt))
      PROVE  [Service!ServiceNext]_Service!serviceVars /\ WaitsForSems'
  <2>1. /\ (Ctr[s] > 0 \/ PendList.NbrEntries[s] = 0) /\ Ctr' = [Ctr EXCEPT ![s] = cnt]
        /\ UNCHANGED <<wheel, OSTickCtr, pends>>
    BY <1>5, CreateOfUnused DEF OSSemSet, OSSemCreate, NobodyWaits, pends, KInv
  <2> QED BY <2>1, CounterSeen
<1>6. ASSUME NEW always \in BOOLEAN, OSSemDel(t, s, always)
      PROVE  [Service!ServiceNext]_Service!serviceVars /\ WaitsForSems'
  BY <1>6, DelSeen
<1> QED BY <1>1, <1>2, <1>3, <1>4, <1>5, <1>6 DEF Semaphore

\* OSTimeDly, with each of its options.
LEMMA DelayCallSeen ==
  ASSUME KInv, WaitsForSems, NEW t \in AppTasks, Delay(t)
  PROVE  [Service!ServiceNext]_Service!serviceVars /\ WaitsForSems'
<1>1. ASSUME NEW opt \in {"DLY", "PERIODIC"} \cap Calls[t], NEW time \in Times, OSTimeDly(t, time, opt)
      PROVE  [Service!ServiceNext]_Service!serviceVars /\ WaitsForSems'
  <2>1. opt \in {"DLY", "PERIODIC", "MATCH"} /\ opt # "MATCH"
    OBVIOUS
  <2>2. time \in TickNbrs
    BY KernelAssumption DEF TickNbrs
  <2> QED BY <1>1, <2>1, <2>2, DelaySeen
<1>2. ASSUME NEW time \in TickNbrs, "MATCH" \in Calls[t], ~TooFar(time), OSTimeDly(t, time, "MATCH")
      PROVE  [Service!ServiceNext]_Service!serviceVars /\ WaitsForSems'
  BY <1>2, DelaySeen
<1>3. ASSUME NEW time \in TickNbrs, OSTimeDly_zero(t, time)
      PROVE  [Service!ServiceNext]_Service!serviceVars /\ WaitsForSems'
  BY <1>3, RefusalUnseen
<1> QED BY <1>1, <1>2, <1>3 DEF Delay

\* Every step of the kernel is a step of the specification or none.
LEMMA KernelStepSeen ==
  KInv /\ WaitsForSems /\ [KernelNext]_kernelVars => [Service!ServiceNext]_Service!serviceVars /\ WaitsForSems'
<1> SUFFICES ASSUME KInv, WaitsForSems, [KernelNext]_kernelVars
             PROVE  [Service!ServiceNext]_Service!serviceVars /\ WaitsForSems'
  OBVIOUS
<1> DEFINE Seen == [Service!ServiceNext]_Service!serviceVars /\ WaitsForSems'
           Same == UNCHANGED <<TickCtrMatch, TickSpokePtr, OSTickCtr, Ctr, PendList, PendStatus, PendOn>>
<1>1. Same => Seen
  BY Unseen
<1>2. ASSUME NEW t, OSSched(t) PROVE Same
  BY <1>2 DEF OSSched, wheel, pends
<1>3. ASSUME NEW t \in AppTasks, AppTask(t) PROVE Seen
  <2>1. CASE Delay(t)
    BY <2>1, DelayCallSeen
  <2>2. ASSUME NEW s \in Sems, Semaphore(t, s) PROVE Seen
    BY <2>2, SemaphoreSeen
  <2>3. CASE OSSemPend_return(t) \/ \E en \in BOOLEAN : OSSchedRoundRobinCfg(t, en)
    <3>1. Same
      BY <2>3 DEF OSSemPend_return, OSSchedRoundRobinCfg, wheel, pends
    <3> QED BY <1>1, <3>1
  <2>4. CASE OSSched(t)
    BY <1>1, <1>2, <2>4
  <2>5. CASE OSSchedLock(t) \/ OSSchedUnlock(t) \/ OSSchedRoundRobinYield(t)
    <3>1. Same
      BY <2>5 DEF OSSchedLock, OSSchedUnlock, OSSchedRoundRobinYield, wheel, pends
    <3> QED BY <1>1, <3>1
  <2> HIDE DEF Seen
  <2> QED BY <1>3, <2>1, <2>2, <2>3, <2>4, <2>5 DEF AppTask
<1>4. CASE OS_TickTask
  <2>1. CASE OSTaskSemPend
    BY <2>1, TaskPendUnseen
  <2>2. CASE OS_TickListUpdate
    BY <2>2, TickSeen
  <2>3. CASE OSSched(TickTask)
    BY <1>1, <1>2, <2>3
  <2> QED BY <1>4, <2>1, <2>2, <2>3 DEF OS_TickTask
<1>5. CASE Interrupts
  <2>1. CASE OSTaskSemPost
    BY <2>1, TaskPostUnseen
  <2>2. CASE BSP_IntHandler
    <3>1. PICK s \in Sems, all \in BOOLEAN : OS_SemPost(s, all)
      BY <2>2 DEF BSP_IntHandler
    <3>2. OSTickCtr' = OSTickCtr
      BY <2>2 DEF BSP_IntHandler
    <3> QED BY <3>1, <3>2, PostSeen
  <2>3. CASE OS_CPU_SysTickHandler \/ OS_SchedRoundRobin \/ TickReturns
    <3>1. Same
      BY <2>3 DEF OS_CPU_SysTickHandler, OS_SchedRoundRobin, TickReturns, wheel, pends
    <3> QED BY <1>1, <3>1
  <2> HIDE DEF Seen
  <2> QED BY <1>5, <2>1, <2>2, <2>3 DEF Interrupts
<1>6. CASE OS_CPU_PendSVHandler \/ UNCHANGED kernelVars
  <2>1. Same
    BY <1>6 DEF OS_CPU_PendSVHandler, kernelVars, wheel, pends
  <2> QED BY <1>1, <2>1
<1> QED BY <1>3, <1>4, <1>5, <1>6, Zenon DEF KernelNext

\* And it starts where the specification does.
LEMMA KernelStartSeen == KernelInit => Service!ServiceInit /\ WaitsForSems
<1> SUFFICES ASSUME KernelInit PROVE Service!ServiceInit /\ WaitsForSems
  OBVIOUS
<1>1. /\ TickSpokePtr = [t \in Tasks |-> Null] /\ Ctr \in [Sems -> 0 .. MaxCtr]
      /\ PendList = EmptyLists(Sems) /\ PendOn = [t \in Tasks |-> "NOTHING"]
      /\ PendStatus = [t \in Tasks |-> "OK"]
  BY DEF KernelInit
<1>2. \A t \in AppTasks : ~Delayed(t) /\ PendStatus[t] = "OK" /\ PendOn[t] = "NOTHING"
  BY <1>1 DEF Delayed, AppTasks
<1>3. Queues = [s \in Sems |-> <<>>]
  <2>1. ListsInv
    BY KernelStart DEF KInv
  <2>2. \A s \in Sems : PendList.NbrEntries[s] = 0
    BY <1>1 DEF EmptyLists
  <2>3. \A s \in Sems : Queues[s] = <<>>
    BY <2>1, <2>2, QueueEmpty
  <2> QED BY <2>3 DEF Queues
<1>4. TicksLeft = [t \in AppTasks |-> 0] /\ Results = [t \in AppTasks |-> "OK"]
  BY <1>2 DEF TicksLeft, Results
<1> QED BY <1>1, <1>2, <1>3, <1>4 DEF Service!ServiceInit, WaitsForSems

(***************************************************************************)
(* The kernel implements KernelService: what OSTimeDly and the calls on    *)
(* semaphores promise their callers.  A delay or a timeout of n ticks is   *)
(* over with the n-th tick, a post serves the first one of the highest     *)
(* priority who waits and is counted only when there is nobody, and a wait *)
(* ends with the result of what ended it (os_time.c, os_sem.c, os_tick.c,  *)
(* os_core.c), with any number of tasks and semaphores and whatever        *)
(* interrupts come between.                                                *)
(***************************************************************************)
THEOREM KernelImplementsService == KernelSpec => ImplementsService
<1>1. KernelInit => KInv /\ WaitsForSems
  BY KernelStart, KernelStartSeen
<1>2. KInv /\ WaitsForSems /\ [KernelNext]_kernelVars => KInv' /\ WaitsForSems'
  BY KernelStep, KernelStepSeen
<1>3. KernelInit => Service!ServiceInit
  BY KernelStartSeen
<1>4. KInv /\ WaitsForSems /\ [KernelNext]_kernelVars => [Service!ServiceNext]_Service!serviceVars
  BY KernelStepSeen
<1> QED BY <1>1, <1>2, <1>3, <1>4, PTL DEF KernelSpec, ImplementsService, Service!ServiceSpec
=============================================================================

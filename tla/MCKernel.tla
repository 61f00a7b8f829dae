------------------------------ MODULE MCKernel ------------------------------
(***************************************************************************)
(* The priority table has two words of two bits.  To look at scheduling:   *)
(* three tasks of one priority.  To look at time: two tasks, one in each   *)
(* word.  A task makes some of the calls; device interrupts post at any    *)
(* time.                                                                   *)
(***************************************************************************)
EXTENDS Kernel, TLC

CONSTANTS ta, tb, tc, td

MCPrio ==
    [t \in Tasks |-> CASE t = TickTask -> 0 [] t = ta -> 1 [] t \in {tb, tc, td} -> 2
                        [] t = IdleTask -> 3]

SchedCalls == (tb :> {"PEND", "LOCK"}) @@ (tc :> {"POST", "ROUND_ROBIN", "CREATE_DEL"}) @@ (td :> {"PEND", "SET"})
TimeCalls == (ta :> {"PERIODIC", "PEND"}) @@ (tb :> {"PEND_TIMEOUT", "MATCH", "LOCK"})
=============================================================================

--------------------------- MODULE PriorityTable ---------------------------
(***************************************************************************)
(* os_prio.c: the set of priorities at which a task is ready, as words, of *)
(* 32 bits on this processor.  A word is the set of its bits that are 1,   *)
(* counted from the most significant one.                                  *)
(***************************************************************************)
EXTENDS Integers

CONSTANTS OS_CFG_PRIO_MAX, DEF_INT_CPU_NBR_BITS
ASSUME PrioAssumption == OS_CFG_PRIO_MAX \in Nat \ {0} /\ DEF_INT_CPU_NBR_BITS \in Nat \ {0}

Bits == 0 .. DEF_INT_CPU_NBR_BITS - 1
Priorities == 0 .. OS_CFG_PRIO_MAX - 1
WordNbrs == 0 .. (OS_CFG_PRIO_MAX - 1) \div DEF_INT_CPU_NBR_BITS
Tables == [WordNbrs -> SUBSET Bits]

EmptyTable == [ix \in WordNbrs |-> {}]

OS_PrioInsert(tbl, prio) ==
    [tbl EXCEPT ![prio \div DEF_INT_CPU_NBR_BITS] = @ \cup {prio % DEF_INT_CPU_NBR_BITS}]

\* Faulty: the whole word is cleared.
FaultyPrioRemove(tbl, prio) == [tbl EXCEPT ![prio \div DEF_INT_CPU_NBR_BITS] = {}]

OS_PrioRemove(tbl, prio) ==
    [tbl EXCEPT ![prio \div DEF_INT_CPU_NBR_BITS] = @ \ {prio % DEF_INT_CPU_NBR_BITS}]

\* The zeros before the first 1.
CPU_CntLeadZeros(word) == CHOOSE n \in word : \A m \in word : n <= m

FirstWord(tbl) ==
    CHOOSE ix \in WordNbrs : tbl[ix] # {} /\ \A jx \in WordNbrs : jx < ix => tbl[jx] = {}

OS_PrioGetHighest(tbl) ==
    FirstWord(tbl) * DEF_INT_CPU_NBR_BITS + CPU_CntLeadZeros(tbl[FirstWord(tbl)])

\* What a table stands for.
Inserted(tbl) ==
    {prio \in Priorities : prio % DEF_INT_CPU_NBR_BITS \in tbl[prio \div DEF_INT_CPU_NBR_BITS]}
=============================================================================

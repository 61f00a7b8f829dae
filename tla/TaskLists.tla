----------------------------- MODULE TaskLists -----------------------------
(***************************************************************************)
(* The doubly linked lists of tasks of the kernel: the ready list of each  *)
(* priority and the pend list of each object (os_core.c) and the spokes of *)
(* the tick wheel (os_tick.c).  A family of lists is a record: the heads,  *)
(* tails and counts by list, and the pointers by task.  A task is in one   *)
(* list of a family at most, so one pair of pointers serves for all.       *)
(*                                                                         *)
(* The operators move the pointers as the code does, and read them before  *)
(* they write.  Chain is the list that the pointers spell.                 *)
(***************************************************************************)
EXTENDS Integers, Sequences, FiniteSets

CONSTANTS
    Tasks,   \* OS_TCB
    Null     \* a null pointer

ASSUME TaskListsAssumption == IsFiniteSet(Tasks) /\ Null \notin Tasks

EmptyLists(Names) ==
    [HeadPtr |-> [l \in Names |-> Null], TailPtr |-> [l \in Names |-> Null],
     NbrEntries |-> [l \in Names |-> 0],
     NextPtr |-> [t \in Tasks |-> Null], PrevPtr |-> [t \in Tasks |-> Null]]

\* Following a pointer from a task until it is null, or for as long as a list can be.
Walk(first, ptr) ==
    LET next == [t \in Tasks \cup {Null} |-> IF t = Null THEN Null ELSE ptr[t]]
        step[n \in 1 .. Cardinality(Tasks)] == IF n = 1 THEN first ELSE next[step[n - 1]]
    IN  SubSeq(step, 1, Cardinality({n \in DOMAIN step : step[n] # Null}))

Chain(h, l) == Walk(h.HeadPtr[l], h.NextPtr)

InsertOnly(h, l, t) ==
    [h EXCEPT !.NbrEntries[l] = 1, !.NextPtr[t] = Null, !.PrevPtr[t] = Null,
              !.HeadPtr[l] = t, !.TailPtr[l] = t]

InsertHead(h, l, t) ==
    IF h.NbrEntries[l] = 0 THEN InsertOnly(h, l, t)
    ELSE [h EXCEPT !.NbrEntries[l] = @ + 1,
                   !.NextPtr[t] = h.HeadPtr[l], !.PrevPtr[t] = Null,
                   !.PrevPtr[h.HeadPtr[l]] = t, !.HeadPtr[l] = t]

\* Faulty: the old tail does not know its successor.
FaultyInsertTail(h, l, t) ==
    IF h.NbrEntries[l] = 0 THEN InsertOnly(h, l, t)
    ELSE [h EXCEPT !.NbrEntries[l] = @ + 1,
                   !.NextPtr[t] = Null, !.PrevPtr[t] = h.TailPtr[l],
                   !.TailPtr[l] = t]

InsertTail(h, l, t) ==
    IF h.NbrEntries[l] = 0 THEN InsertOnly(h, l, t)
    ELSE [h EXCEPT !.NbrEntries[l] = @ + 1,
                   !.NextPtr[t] = Null, !.PrevPtr[t] = h.TailPtr[l],
                   !.NextPtr[h.TailPtr[l]] = t, !.TailPtr[l] = t]

\* Before a task of the list, the first one or a later one.
InsertBefore(h, l, t, next) ==
    LET prev == h.PrevPtr[next] IN
    IF prev = Null
    THEN [h EXCEPT !.NbrEntries[l] = @ + 1, !.PrevPtr[next] = t, !.PrevPtr[t] = Null,
                   !.NextPtr[t] = next, !.HeadPtr[l] = t]
    ELSE [h EXCEPT !.NbrEntries[l] = @ + 1, !.PrevPtr[t] = prev, !.NextPtr[t] = next,
                   !.NextPtr[prev] = t, !.PrevPtr[next] = t]

\* The loops that look for a place in an ordered list, behind the tasks of a set.
InsertBeforeFirst(h, l, t, passed) ==
    LET c == Chain(h, l)
        later == {i \in DOMAIN c : c[i] \notin passed}
    IN  IF later = {} THEN InsertTail(h, l, t)
        ELSE InsertBefore(h, l, t, c[CHOOSE i \in later : \A j \in later : i <= j])

\* OS_RdyListMoveHeadToTail.  Two tasks are a case of their own: the tail is
\* the second one.
MoveHeadToTail(h, l) ==
    LET head == h.HeadPtr[l]
        tail == h.TailPtr[l]
        second == h.NextPtr[head]
    IN  CASE h.NbrEntries[l] \in {0, 1} -> h
          [] h.NbrEntries[l] = 2 ->
               [h EXCEPT !.PrevPtr[head] = tail, !.NextPtr[head] = Null,
                         !.PrevPtr[tail] = Null, !.NextPtr[tail] = head,
                         !.HeadPtr[l] = tail, !.TailPtr[l] = head]
          [] OTHER ->
               [h EXCEPT !.PrevPtr[second] = Null, !.NextPtr[head] = Null,
                         !.PrevPtr[head] = tail, !.NextPtr[tail] = head,
                         !.HeadPtr[l] = second, !.TailPtr[l] = head]

\* Out of the list, and the task's pointers cleared.  Each list of the code
\* has its own version of it; all of them tell the four positions apart.
Unlink(h, l, t) ==
    LET prev == h.PrevPtr[t]
        next == h.NextPtr[t]
        Cut(g) == [g EXCEPT !.NextPtr[t] = Null, !.PrevPtr[t] = Null]
    IN  CASE prev = Null /\ next = Null ->
               Cut([h EXCEPT !.NbrEntries[l] = 0, !.HeadPtr[l] = Null, !.TailPtr[l] = Null])
          [] prev = Null /\ next # Null ->
               Cut([h EXCEPT !.NbrEntries[l] = @ - 1, !.PrevPtr[next] = Null, !.HeadPtr[l] = next])
          [] prev # Null /\ next = Null ->
               Cut([h EXCEPT !.NbrEntries[l] = @ - 1, !.NextPtr[prev] = Null, !.TailPtr[l] = prev])
          [] OTHER ->
               Cut([h EXCEPT !.NbrEntries[l] = @ - 1, !.NextPtr[prev] = next, !.PrevPtr[next] = prev])

\* A list is what its forward pointers say, and everything else agrees.
WellLinked(h, l) ==
    LET c == Chain(h, l)
        n == Len(c)
    IN  /\ h.NbrEntries[l] = n
        /\ n = 0 => h.TailPtr[l] = Null
        /\ n > 0 => h.TailPtr[l] = c[n] /\ h.NextPtr[c[n]] = Null /\ h.PrevPtr[c[1]] = Null
        /\ \A i \in 2 .. n : h.PrevPtr[c[i]] = c[i - 1]

Members(h, l) == LET c == Chain(h, l) IN {c[i] : i \in DOMAIN c}
=============================================================================

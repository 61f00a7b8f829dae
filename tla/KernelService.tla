--------------------------- MODULE KernelService ---------------------------
(***************************************************************************)
(* What delays and semaphores promise a task: how long it sleeps, who gets *)
(* a semaphore, and what it is told.  Which task runs is not a matter of   *)
(* this specification.                                                     *)
(***************************************************************************)
EXTENDS Integers, Sequences

CONSTANTS
    Callers, Sems,
    Prio,     \* a smaller number is served first
    MaxCtr,   \* the largest value of a semaphore
    Limit     \* the longest delay

VARIABLES
    tokens,   \* the value of a semaphore
    queue,    \* who waits for it, in the order they are served
    left,     \* of a caller: ticks until its delay or timeout ends, 0 without one
    result    \* what its last wait ended with

serviceVars == <<tokens, queue, left, result>>

Queued(q) == {q[i] : i \in DOMAIN q}
Waits(t) == \E s \in Sems : t \in Queued(queue[s])
Free(t) == left[t] = 0 /\ ~Waits(t)

ServiceInit ==
    /\ tokens \in [Sems -> 0 .. MaxCtr]
    /\ queue = [s \in Sems |-> <<>>]
    /\ left = [t \in Callers |-> 0] /\ result = [t \in Callers |-> "OK"]

Delay(t, n) ==
    /\ Free(t)
    /\ left' = [left EXCEPT ![t] = n]
    /\ UNCHANGED <<tokens, queue, result>>

Take(s) ==
    /\ tokens[s] > 0
    /\ tokens' = [tokens EXCEPT ![s] = @ - 1]
    /\ UNCHANGED <<queue, left, result>>

\* Behind everyone of the same priority or of a higher one; with a timeout, or
\* with 0 for none.
Wait(s, t, timeout) ==
    /\ tokens[s] = 0 /\ Free(t)
    /\ \E n \in 0 .. Len(queue[s]) :
          /\ \A i \in 1 .. n : Prio[queue[s][i]] <= Prio[t]
          /\ \A i \in n + 1 .. Len(queue[s]) : Prio[queue[s][i]] > Prio[t]
          /\ queue' = [queue EXCEPT ![s] = SubSeq(@, 1, n) \o <<t>> \o SubSeq(@, n + 1, Len(@))]
    /\ left' = [left EXCEPT ![t] = timeout]
    /\ result' = [result EXCEPT ![t] = "OK"]
    /\ UNCHANGED tokens

Release(s, n, status) ==
    LET served == Queued(SubSeq(queue[s], 1, n)) IN
    /\ queue' = [queue EXCEPT ![s] = SubSeq(@, n + 1, Len(@))]
    /\ left' = [t \in Callers |-> IF t \in served THEN 0 ELSE left[t]]
    /\ result' = [t \in Callers |-> IF t \in served THEN status ELSE result[t]]

\* Served, first of all or all of them, or kept as a token.
Post(s) ==
    IF queue[s] = <<>>
    THEN /\ tokens[s] < MaxCtr
         /\ tokens' = [tokens EXCEPT ![s] = @ + 1]
         /\ UNCHANGED <<queue, left, result>>
    ELSE /\ \E n \in {1, Len(queue[s])} : Release(s, n, "OK")
         /\ UNCHANGED tokens

\* Or created, for the first time or again.
Set(s) ==
    /\ queue[s] = <<>>
    /\ \E n \in 0 .. MaxCtr : tokens' = [tokens EXCEPT ![s] = n]
    /\ UNCHANGED <<queue, left, result>>

\* Everyone is sent away.  Who comes later waits, as at a semaphore of value 0.
Delete(s) ==
    /\ tokens' = [tokens EXCEPT ![s] = 0]
    /\ Release(s, Len(queue[s]), "DEL")

\* A queue without some of those who waited in it: the others are in it still,
\* in the order they had.
IsRest(rest, q, gone) ==
    /\ rest \in Seq(Queued(q)) /\ Queued(rest) = Queued(q) \ gone
    /\ \A i, j \in DOMAIN rest : i < j => \E m, n \in DOMAIN q : m < n /\ q[m] = rest[i] /\ q[n] = rest[j]

\* One tick less for everyone who counts; whose time is over stops waiting.
Tick ==
    LET over == {t \in Callers : left[t] = 1} IN
    /\ left' = [t \in Callers |-> IF left[t] > 0 THEN left[t] - 1 ELSE 0]
    /\ DOMAIN queue' = Sems /\ \A s \in Sems : IsRest(queue'[s], queue[s], over)
    /\ result' = [t \in Callers |-> IF t \in over /\ Waits(t) THEN "TIMEOUT" ELSE result[t]]
    /\ UNCHANGED tokens

ServiceNext ==
    \/ \E t \in Callers, n \in 1 .. Limit : Delay(t, n)
    \/ \E s \in Sems : Take(s) \/ Post(s) \/ Set(s) \/ Delete(s)
    \/ \E s \in Sems, t \in Callers, n \in 0 .. Limit : Wait(s, t, n)
    \/ Tick

ServiceSpec == ServiceInit /\ [][ServiceNext]_serviceVars
=============================================================================

-------------------------- MODULE TaskLists_proofs --------------------------
(***************************************************************************)
(* What the operations on the kernel's lists do, for any number of lists   *)
(* and tasks.  A family of lists is good when each of them is linked both  *)
(* ways from its head to its tail and no task is in two of them.  The      *)
(* lemmas say where an operation puts a task or takes it from, that every  *)
(* other list stays as it is, and that the family stays good; then the     *)
(* same in the terms that the kernel's invariant is stated in: each task   *)
(* is in the list that is its place, in the order of the ranks.            *)
(*                                                                         *)
(* The kernel moves several tasks in a row with FoldLeft, which is a       *)
(* recursive function inside.  FoldTrace shows that such a recursion has a *)
(* solution and which values it goes through; AllLeave and AllLeaveInOrder *)
(* are inductions along these values.                                      *)
(***************************************************************************)
EXTENDS TaskLists, FiniteSetsExt, FiniteSetTheorems, WellFoundedInduction, TLAPS

-----------------------------------------------------------------------------
\* Numbers.

\* Every set of numbers that is not empty has a least one.
LEMMA LeastNumber ==
  ASSUME NEW S \in SUBSET Nat, S # {}
  PROVE  \E n \in S : \A m \in S : n <= m
<1> DEFINE less == {pair \in Nat \X Nat : pair[1] < pair[2]}
<1>1. IsWellFoundedOn(less, Nat)
  BY NatLessThanWellFounded DEF OpToRel
<1>2. PICK n \in S : \A m \in S : <<m, n>> \notin less
  <2> HIDE DEF less
  <2> QED BY <1>1, WFMin
<1>3. ASSUME NEW m \in S PROVE n <= m
  <2>1. <<m, n>> \in Nat \X Nat /\ <<m, n>>[1] = m /\ <<m, n>>[2] = n
    OBVIOUS
  <2>2. m \in Nat /\ n \in Nat /\ ~(m < n)
    BY <1>2, <2>1
  <2> QED BY <2>2
<1> QED BY <1>3

\* Induction up to a number.
LEMMA Counting ==
  ASSUME NEW n \in Nat, NEW good, 0 \in good, \A k \in 1 .. n : k - 1 \in good => k \in good
  PROVE  n \in good
<1> DEFINE bad == {k \in 0 .. n : k \notin good}
<1> SUFFICES ASSUME bad # {} PROVE FALSE
  OBVIOUS
<1>1. bad \in SUBSET Nat
  OBVIOUS
<1>2. PICK k \in bad : \A j \in bad : k <= j
  <2> HIDE DEF bad
  <2> QED BY <1>1, LeastNumber
<1>3. k \in 0 .. n /\ k \notin good /\ k # 0
  BY <1>2
<1>4. k \in 1 .. n /\ k - 1 \in 0 .. n /\ ~(k <= k - 1)
  BY <1>3
<1>5. k - 1 \notin bad
  <2> HIDE DEF bad
  <2> QED BY <1>2, <1>4
<1> QED BY <1>3, <1>4, <1>5

\* Max of a set of numbers up to n is its greatest one.
LEMMA GreatestNumber ==
  ASSUME NEW n \in Nat, NEW S \in SUBSET (1 .. n), S # {}
  PROVE  Max(S) \in S /\ \A m \in S : Max(S) >= m
<1> DEFINE R == {k \in 0 .. n : n - k \in S}
<1>1. R # {} /\ R \in SUBSET Nat
  <2>1. PICK m \in S : TRUE
    OBVIOUS
  <2>2. n - m \in 0 .. n /\ n - (n - m) = m
    BY <2>1
  <2>3. n - m \in R
    BY <2>1, <2>2
  <2>4. R \in SUBSET Nat
    OBVIOUS
  <2> HIDE DEF R
  <2> QED BY <2>3, <2>4
<1>2. PICK k \in R : \A j \in R : k <= j
  <2> HIDE DEF R
  <2> QED BY <1>1, LeastNumber
<1>3. n - k \in S /\ k \in 0 .. n
  BY <1>2
<1>4. ASSUME NEW m \in S PROVE n - k >= m
  <2>1. m \in 1 .. n /\ n - m \in 0 .. n /\ n - (n - m) = m
    OBVIOUS
  <2>2. n - m \in R
    BY <2>1
  <2> HIDE DEF R
  <2>3. k <= n - m
    BY <1>2, <2>2
  <2> QED BY <1>3, <2>1, <2>3
<1>5. \E x \in S : \A y \in S : x >= y
  BY <1>3, <1>4
<1> QED BY <1>5 DEF Max

\* The greatest of 1 .. k is k, and without it they are 1 .. k - 1.
LEMMA GreatestOfSegment ==
  ASSUME NEW n \in Nat, NEW k \in 1 .. n
  PROVE  Max(1 .. k) = k /\ (1 .. k) \ {k} = 1 .. k - 1 /\ 1 .. k # {} /\ 1 .. k \in SUBSET (1 .. n)
<1>1. k \in Nat /\ k \in 1 .. k
  OBVIOUS
<1>2. Max(1 .. k) \in 1 .. k /\ Max(1 .. k) >= k
  BY <1>1, GreatestNumber
<1>3. Max(1 .. k) = k
  <2> DEFINE m == Max(1 .. k)
  <2>1. m \in 1 .. k /\ m >= k
    BY <1>2
  <2> HIDE DEF m
  <2>2. m = k
    BY <1>1, <2>1
  <2> QED BY <2>2 DEF m
<1> QED BY <1>1, <1>3

-----------------------------------------------------------------------------
\* Folds.

\* The recursion that FoldLeft stands for: what it maps each set of indices to.
FoldsOf(V, base, n, F) ==
    {it \in [SUBSET (1 .. n) -> V] :
        \A s \in SUBSET (1 .. n) : it[s] = IF s = {} THEN base ELSE F[Max(s)][it[s \ {Max(s)}]]}

\* That recursion has a solution.
LEMMA FoldExists ==
  ASSUME NEW V, NEW base \in V, NEW n \in Nat, NEW F \in [1 .. n -> [V -> V]]
  PROVE  FoldsOf(V, base, n, F) # {}
<1> DEFINE Solves(m, it) ==
             \A s \in SUBSET (1 .. m) : it[s] = IF s = {} THEN base ELSE F[Max(s)][it[s \ {Max(s)}]]
           bad == {m \in 0 .. n : ~ \E it \in [SUBSET (1 .. m) -> V] : Solves(m, it)}
<1>1. bad = {}
  <2> SUFFICES ASSUME bad # {} PROVE FALSE
    OBVIOUS
  <2>1. bad \in SUBSET Nat
    OBVIOUS
  <2>2. PICK m \in bad : \A k \in bad : m <= k
    <3> HIDE DEF bad
    <3> QED BY <2>1, LeastNumber
  <2>3. m \in 0 .. n /\ ~ \E it \in [SUBSET (1 .. m) -> V] : Solves(m, it)
    BY <2>2
  <2>4. CASE m = 0
    <3> DEFINE it == [s \in SUBSET (1 .. 0) |-> base]
    <3>1. it \in [SUBSET (1 .. m) -> V] /\ Solves(m, it)
      BY <2>4
    <3> HIDE DEF it, Solves
    <3> QED BY <2>3, <3>1
  <2>5. CASE m # 0
    <3>1. m - 1 \in 0 .. n /\ ~(m <= m - 1)
      BY <2>3, <2>5
    <3>2. PICK it \in [SUBSET (1 .. m - 1) -> V] : Solves(m - 1, it)
      <4>1. m - 1 \notin bad
        <5> HIDE DEF bad
        <5> QED BY <2>2, <3>1
      <4> HIDE DEF Solves
      <4> QED BY <3>1, <4>1
    <3> DEFINE more == [s \in SUBSET (1 .. m) |-> IF m \in s THEN F[m][it[s \ {m}]] ELSE it[s]]
    <3>3. ASSUME NEW s \in SUBSET (1 .. m)
          PROVE  s \ {m} \in SUBSET (1 .. m - 1) /\ (m \notin s => s \in SUBSET (1 .. m - 1))
      BY <2>3, <2>5
    <3>4. more \in [SUBSET (1 .. m) -> V]
      <4>1. m \in 1 .. n
        BY <2>3, <2>5
      <4> QED BY <3>2, <3>3, <4>1
    <3>5. ASSUME NEW s \in SUBSET (1 .. m)
          PROVE  more[s] = IF s = {} THEN base ELSE F[Max(s)][more[s \ {Max(s)}]]
      <4>0. more[s] = (IF m \in s THEN F[m][it[s \ {m}]] ELSE it[s])
        OBVIOUS
      <4>1. CASE m \in s
        <5>0. m \in Nat
          BY <2>3
        <5>1. Max(s) = m
          <6> DEFINE x == Max(s)
          <6>1. x \in s /\ x >= m
            BY <4>1, <5>0, GreatestNumber
          <6> HIDE DEF x
          <6>2. x \in 1 .. m
            BY <6>1
          <6>3. x = m
            BY <5>0, <6>1, <6>2
          <6> QED BY <6>3 DEF x
        <5>2. s \ {m} \in SUBSET (1 .. m) /\ m \notin s \ {m}
          OBVIOUS
        <5>3. more[s \ {m}] = it[s \ {m}]
          BY <5>2
        <5> HIDE DEF more
        <5> QED BY <4>0, <4>1, <5>1, <5>3
      <4>2. CASE m \notin s
        <5>0. s \in SUBSET (1 .. m - 1)
          BY <3>3, <4>2
        <5>1. it[s] = IF s = {} THEN base ELSE F[Max(s)][it[s \ {Max(s)}]]
          BY <3>2, <5>0
        <5>2. s \ {Max(s)} \in SUBSET (1 .. m) /\ m \notin s \ {Max(s)}
          BY <4>2
        <5>3. more[s \ {Max(s)}] = it[s \ {Max(s)}]
          BY <5>2
        <5> HIDE DEF more
        <5> QED BY <4>0, <4>2, <5>1, <5>3
      <4> QED BY <4>1, <4>2
    <3>6. Solves(m, more)
      <4> HIDE DEF more
      <4> QED BY <3>5
    <3> HIDE DEF more, Solves
    <3> QED BY <2>3, <3>4, <3>6
  <2> QED BY <2>4, <2>5
<1>2. n \in 0 .. n /\ n \notin bad
  <2> HIDE DEF bad
  <2> QED BY <1>1
<1>3. PICK it \in [SUBSET (1 .. n) -> V] : Solves(n, it)
  <2> HIDE DEF Solves
  <2> QED BY <1>2
<1> QED BY <1>3 DEF FoldsOf

\* Induction along a finite sequence of values.
LEMMA StaysIn ==
  ASSUME NEW V, NEW n \in Nat, NEW a, a[0] \in V, \A k \in 1 .. n : a[k - 1] \in V => a[k] \in V
  PROVE  \A k \in 0 .. n : a[k] \in V
<1> DEFINE bad == {k \in 0 .. n : a[k] \notin V}
<1> SUFFICES ASSUME bad # {} PROVE FALSE
  OBVIOUS
<1>1. bad \in SUBSET Nat
  OBVIOUS
<1>2. PICK k \in bad : \A j \in bad : k <= j
  <2> HIDE DEF bad
  <2> QED BY <1>1, LeastNumber
<1>3. k \in 0 .. n /\ a[k] \notin V /\ k # 0
  BY <1>2
<1>4. k \in 1 .. n /\ k - 1 \in 0 .. n /\ ~(k <= k - 1)
  BY <1>3
<1>5. k - 1 \notin bad
  <2> HIDE DEF bad
  <2> QED BY <1>2, <1>4
<1> QED BY <1>3, <1>4, <1>5

\* The values that a fold goes through on the way from base to last.
Traces(V, base, n, F, last) ==
    {a \in [0 .. n -> V] : /\ a[0] = base /\ a[n] = last
                           /\ \A k \in 1 .. n : a[k] = F[k][a[k - 1]]}

IsFold(that, V, base, n, F) ==
    /\ that[{}] = base
    /\ \A s \in SUBSET (1 .. n) : s # {} /\ that[s \ {Max(s)}] \in V
                                    => that[s] = F[Max(s)][that[s \ {Max(s)}]]

\* What the recursion maps the segments 1 .. k to is the fold of the first k.
LEMMA FoldTrace ==
  ASSUME NEW V, NEW base \in V, NEW n \in Nat, NEW F \in [1 .. n -> [V -> V]],
         NEW that, IsFold(that, V, base, n, F)
  PROVE  Traces(V, base, n, F, that[1 .. n]) # {}
<1> DEFINE a == [k \in 0 .. n |-> that[1 .. k]]
<1>1. a[0] = base /\ a[n] = that[1 .. n]
  <2>1. 1 .. 0 = {} /\ 0 \in 0 .. n /\ n \in 0 .. n
    OBVIOUS
  <2>2. a[0] = that[1 .. 0] /\ a[n] = that[1 .. n]
    BY <2>1
  <2> QED BY <2>1, <2>2 DEF IsFold
<1>2. ASSUME NEW k \in 1 .. n, a[k - 1] \in V PROVE a[k] = F[k][a[k - 1]]
  <2>1. Max(1 .. k) = k /\ (1 .. k) \ {k} = 1 .. k - 1 /\ 1 .. k # {} /\ 1 .. k \in SUBSET (1 .. n)
    BY GreatestOfSegment
  <2>2. a[k] = that[1 .. k] /\ a[k - 1] = that[1 .. k - 1]
    OBVIOUS
  <2>3. (1 .. k) \ {Max(1 .. k)} = 1 .. k - 1
    BY <2>1
  <2>4. that[(1 .. k) \ {Max(1 .. k)}] \in V
    BY <1>2, <2>2, <2>3
  <2>5. that[1 .. k] = F[Max(1 .. k)][that[(1 .. k) \ {Max(1 .. k)}]]
    BY <2>1, <2>4 DEF IsFold
  <2> HIDE DEF a
  <2> QED BY <2>1, <2>2, <2>3, <2>5
<1>3. \A k \in 0 .. n : a[k] \in V
  <2>1. a[0] \in V /\ \A k \in 1 .. n : a[k - 1] \in V => a[k] \in V
    <3> HIDE DEF a
    <3> QED BY <1>1, <1>2
  <2> HIDE DEF a
  <2> QED BY <2>1, StaysIn
<1>4. a \in [0 .. n -> V] /\ \A k \in 1 .. n : a[k - 1] \in V
  <2>1. \A k \in 1 .. n : k - 1 \in 0 .. n
    OBVIOUS
  <2>2. a \in [0 .. n -> V]
    BY <1>3
  <2> HIDE DEF a
  <2> QED BY <1>3, <2>1, <2>2
<1> HIDE DEF a
<1> QED BY <1>1, <1>2, <1>4 DEF Traces

-----------------------------------------------------------------------------
\* Lists and their pointers.

Pointers == Tasks \cup {Null}

ListsOf(Names) ==
    [HeadPtr : [Names -> Pointers], TailPtr : [Names -> Pointers], NbrEntries : [Names -> Int],
     NextPtr : [Tasks -> Pointers], PrevPtr : [Tasks -> Pointers]]

\* The tasks c[1], ... c[n], linked both ways.
Spells(h, l, n, c) ==
    /\ n \in Nat /\ c \in [1 .. n -> Tasks]
    /\ \A i, j \in 1 .. n : c[i] = c[j] => i = j
    /\ h.NbrEntries[l] = n
    /\ h.HeadPtr[l] = IF n = 0 THEN Null ELSE c[1]
    /\ h.TailPtr[l] = IF n = 0 THEN Null ELSE c[n]
    /\ \A i \in 1 .. n : /\ h.NextPtr[c[i]] = IF i = n THEN Null ELSE c[i + 1]
                         /\ h.PrevPtr[c[i]] = IF i = 1 THEN Null ELSE c[i - 1]

\* No list is longer than there are tasks, and so Walk reaches the end of it.
LEMMA ShortChain ==
  ASSUME NEW n \in Nat, NEW c \in [1 .. n -> Tasks], \A i, j \in 1 .. n : c[i] = c[j] => i = j
  PROVE  n <= Cardinality(Tasks) /\ Cardinality(Tasks) \in Nat
<1>1. c \in Injection(1 .. n, Tasks)
  BY DEF Injection, IsInjective
<1>2. IsFiniteSet(Tasks)
  BY TaskListsAssumption
<1>3. Cardinality(1 .. n) <= Cardinality(Tasks)
  BY <1>1, <1>2, FS_Injection
<1>4. Cardinality(1 .. n) = n
  <2>1. Cardinality(1 .. n) = IF 1 > n THEN 0 ELSE n - 1 + 1
    BY FS_Interval
  <2> QED BY <2>1
<1>5. Cardinality(Tasks) \in Nat
  BY <1>2, FS_CardinalityType
<1> QED BY <1>3, <1>4, <1>5

\* Chain is the list that the pointers spell.
LEMMA ChainSpelt ==
  ASSUME NEW Names, NEW h, NEW l \in Names, h \in ListsOf(Names), NEW n, NEW c, Spells(h, l, n, c)
  PROVE  Chain(h, l) = c
<1> DEFINE N == Cardinality(Tasks)
           first == h.HeadPtr[l]
           next == [t \in Tasks \cup {Null} |-> IF t = Null THEN Null ELSE h.NextPtr[t]]
           Body(f) == [m \in 1 .. N |-> IF m = 1 THEN first ELSE next[f[m - 1]]]
           g == [m \in 1 .. N |-> IF m <= n THEN c[m] ELSE Null]
           step == CHOOSE f : f = Body(f)
<1>0. n \in Nat /\ c \in [1 .. n -> Tasks] /\ N \in Nat /\ n <= N /\ Null \notin Tasks
  BY ShortChain, TaskListsAssumption DEF Spells
<1>1. g = Body(g)
  <2> SUFFICES ASSUME NEW m \in 1 .. N
               PROVE  g[m] = IF m = 1 THEN first ELSE next[g[m - 1]]
    OBVIOUS
  <2>1. CASE m = 1
    BY <1>0, <2>1 DEF Spells
  <2>2. CASE m # 1 /\ m - 1 <= n
    <3>1. m - 1 \in 1 .. n /\ m - 1 \in 1 .. N /\ g[m - 1] = c[m - 1] /\ c[m - 1] \in Tasks
      BY <1>0, <2>2
    <3>2. next[g[m - 1]] = h.NextPtr[c[m - 1]]
      BY <1>0, <3>1
    <3>3. h.NextPtr[c[m - 1]] = IF m - 1 = n THEN Null ELSE c[m - 1 + 1]
      BY <3>1 DEF Spells
    <3> QED BY <1>0, <2>2, <3>2, <3>3
  <2>3. CASE m # 1 /\ m - 1 > n
    BY <1>0, <2>3
  <2> QED BY <1>0, <2>1, <2>2, <2>3
<1>2. step = Body(step)
  <2> HIDE DEF g, Body
  <2> QED BY <1>1
<1>3. step = g
  <2> DEFINE bad == {m \in 1 .. N : step[m] # g[m]}
  <2>1. bad = {}
    <3> SUFFICES ASSUME bad # {} PROVE FALSE
      OBVIOUS
    <3>1. bad \in SUBSET Nat
      BY <1>0
    <3>2. PICK m \in bad : \A k \in bad : m <= k
      <4> HIDE DEF bad
      <4> QED BY <3>1, LeastNumber
    <3>3. m \in 1 .. N /\ step[m] = IF m = 1 THEN first ELSE next[step[m - 1]]
      <4> HIDE DEF step
      <4> QED BY <1>2
    <3>4. g[m] = IF m = 1 THEN first ELSE next[g[m - 1]]
      <4> HIDE DEF g
      <4> QED BY <1>1, <3>3
    <3>5. m = 1 \/ step[m - 1] = g[m - 1]
      <4> HIDE DEF step, g
      <4>1. CASE m # 1
        <5>1. m - 1 \in 1 .. N /\ ~(m <= m - 1)
          BY <1>0, <3>3, <4>1
        <5>2. m - 1 \notin bad
          <6> HIDE DEF bad
          <6> QED BY <3>2, <5>1
        <5> QED BY <5>1, <5>2
      <4> QED BY <4>1
    <3>6. step[m] # g[m]
      BY <3>2
    <3> HIDE DEF step, g, first, next
    <3> QED BY <3>3, <3>4, <3>5, <3>6
  <2>2. \E D : DOMAIN step = 1 .. N /\ step = [m \in 1 .. N |-> step[m]]
    <3> HIDE DEF step
    <3> QED BY <1>2
  <2>3. g = [m \in 1 .. N |-> g[m]]
    OBVIOUS
  <2> HIDE DEF step, g
  <2> QED BY <2>1, <2>2, <2>3
<1>4. Chain(h, l) = SubSeq(step, 1, Cardinality({m \in DOMAIN step : step[m] # Null}))
  BY DEF Chain, Walk
<1>5. {m \in DOMAIN g : g[m] # Null} = 1 .. n
  BY <1>0
<1>6. Cardinality(1 .. n) = n
  <2>1. Cardinality(1 .. n) = IF 1 > n THEN 0 ELSE n - 1 + 1
    BY <1>0, FS_Interval
  <2> QED BY <1>0, <2>1
<1>7. Chain(h, l) = SubSeq(g, 1, n)
  <2> HIDE DEF step, g
  <2> QED BY <1>3, <1>4, <1>5, <1>6
<1>8. SubSeq(g, 1, n) = c
  <2>1. SubSeq(g, 1, n) = [i \in 1 .. n |-> g[i]]
    BY <1>0
  <2>2. \A i \in 1 .. n : g[i] = c[i]
    BY <1>0
  <2> HIDE DEF g
  <2> QED BY <1>0, <2>1, <2>2
<1> QED BY <1>7, <1>8

\* A list with a task more, at place k, and without its task at place k.
With(c, n, k, t) == [i \in 1 .. n + 1 |-> IF i < k THEN c[i] ELSE IF i = k THEN t ELSE c[i - 1]]
Without(c, n, k) == [i \in 1 .. n - 1 |-> IF i < k THEN c[i] ELSE c[i + 1]]

\* What an insertion at place k writes.
Inserts(h, g, l, n, c, k, t) ==
    /\ g.NbrEntries = [h.NbrEntries EXCEPT ![l] = n + 1]
    /\ g.HeadPtr = [h.HeadPtr EXCEPT ![l] = IF k = 1 THEN t ELSE @]
    /\ g.TailPtr = [h.TailPtr EXCEPT ![l] = IF k = n + 1 THEN t ELSE @]
    /\ \A u \in Tasks :
          /\ g.NextPtr[u] = IF u = t THEN (IF k = n + 1 THEN Null ELSE c[k])
                            ELSE IF k > 1 /\ u = c[k - 1] THEN t ELSE h.NextPtr[u]
          /\ g.PrevPtr[u] = IF u = t THEN (IF k = 1 THEN Null ELSE c[k - 1])
                            ELSE IF k <= n /\ u = c[k] THEN t ELSE h.PrevPtr[u]

\* What the removal of the task at place k writes.
Removes(h, g, l, n, c, k) ==
    /\ g.NbrEntries = [h.NbrEntries EXCEPT ![l] = n - 1]
    /\ g.HeadPtr = [h.HeadPtr EXCEPT ![l] = IF k > 1 THEN @ ELSE IF n = 1 THEN Null ELSE c[2]]
    /\ g.TailPtr = [h.TailPtr EXCEPT ![l] = IF k < n THEN @ ELSE IF n = 1 THEN Null ELSE c[n - 1]]
    /\ \A u \in Tasks :
          /\ g.NextPtr[u] = IF u = c[k] THEN Null
                            ELSE IF k > 1 /\ u = c[k - 1] THEN (IF k = n THEN Null ELSE c[k + 1])
                            ELSE h.NextPtr[u]
          /\ g.PrevPtr[u] = IF u = c[k] THEN Null
                            ELSE IF k < n /\ u = c[k + 1] THEN (IF k = 1 THEN Null ELSE c[k - 1])
                            ELSE h.PrevPtr[u]

\* After what an insertion writes, the pointers spell the list with the task.
LEMMA InsertSpells ==
  ASSUME NEW Names, NEW h \in ListsOf(Names), NEW g \in ListsOf(Names), NEW l \in Names,
         NEW n, NEW c, Spells(h, l, n, c), NEW t \in Tasks, \A i \in 1 .. n : c[i] # t,
         NEW k \in 1 .. n + 1, Inserts(h, g, l, n, c, k, t)
  PROVE  Spells(g, l, n + 1, With(c, n, k, t))
<1> DEFINE d == With(c, n, k, t)
<1>0. n \in Nat /\ c \in [1 .. n -> Tasks] /\ k \in Nat /\ 1 <= k /\ k <= n + 1
  BY DEF Spells
<1>1. n + 1 \in Nat /\ d \in [1 .. n + 1 -> Tasks]
  BY <1>0 DEF With
<1>2. \A i \in 1 .. n + 1 : d[i] = IF i < k THEN c[i] ELSE IF i = k THEN t ELSE c[i - 1]
  BY DEF With
<1>3. ASSUME NEW i \in 1 .. n + 1, NEW j \in 1 .. n + 1, d[i] = d[j] PROVE i = j
  <2> HIDE DEF d
  <2>1. \A a, b \in 1 .. n : c[a] = c[b] => a = b
    BY DEF Spells
  <2> QED BY <1>0, <1>2, <1>3, <2>1
<1>4. g.NbrEntries[l] = n + 1
  BY DEF Inserts, ListsOf
<1>5. g.HeadPtr[l] = d[1]
  <2>1. g.HeadPtr[l] = IF k = 1 THEN t ELSE h.HeadPtr[l]
    BY DEF Inserts, ListsOf
  <2>2. k # 1 => n # 0 /\ h.HeadPtr[l] = c[1]
    BY <1>0 DEF Spells
  <2> QED BY <1>0, <1>2, <2>1, <2>2
<1>6. g.TailPtr[l] = d[n + 1]
  <2>1. g.TailPtr[l] = IF k = n + 1 THEN t ELSE h.TailPtr[l]
    BY DEF Inserts, ListsOf
  <2>2. k # n + 1 => n # 0 /\ h.TailPtr[l] = c[n]
    BY <1>0 DEF Spells
  <2> QED BY <1>0, <1>2, <2>1, <2>2
<1>7. ASSUME NEW i \in 1 .. n + 1
      PROVE  /\ g.NextPtr[d[i]] = IF i = n + 1 THEN Null ELSE d[i + 1]
             /\ g.PrevPtr[d[i]] = IF i = 1 THEN Null ELSE d[i - 1]
  <2>1. \A a \in 1 .. n : /\ h.NextPtr[c[a]] = IF a = n THEN Null ELSE c[a + 1]
                          /\ h.PrevPtr[c[a]] = IF a = 1 THEN Null ELSE c[a - 1]
    BY DEF Spells
  <2>2. \A a, b \in 1 .. n : c[a] = c[b] => a = b
    BY DEF Spells
  <2>3. /\ g.NextPtr[d[i]] = IF d[i] = t THEN (IF k = n + 1 THEN Null ELSE c[k])
                            ELSE IF k > 1 /\ d[i] = c[k - 1] THEN t ELSE h.NextPtr[d[i]]
        /\ g.PrevPtr[d[i]] = IF d[i] = t THEN (IF k = 1 THEN Null ELSE c[k - 1])
                            ELSE IF k <= n /\ d[i] = c[k] THEN t ELSE h.PrevPtr[d[i]]
    BY <1>1 DEF Inserts
  <2> HIDE DEF d
  <2>4. CASE i = k
    <3>1. d[i] = t
      BY <1>2, <2>4
    <3>2. i # n + 1 => i + 1 \in 1 .. n + 1 /\ d[i + 1] = c[k]
      BY <1>0, <1>2, <2>4
    <3>3. i # 1 => i - 1 \in 1 .. n + 1 /\ d[i - 1] = c[k - 1]
      BY <1>0, <1>2, <2>4
    <3> QED BY <2>3, <2>4, <3>1, <3>2, <3>3
  <2>5. CASE i < k
    <3>1. d[i] = c[i] /\ i \in 1 .. n /\ c[i] # t
      BY <1>0, <1>2, <2>5
    <3>2. (k <= n => c[i] # c[k]) /\ (k > 1 => (c[i] = c[k - 1] <=> i = k - 1))
      BY <1>0, <2>2, <2>5, <3>1
    <3>3. g.NextPtr[d[i]] = IF i = k - 1 THEN t ELSE IF i = n THEN Null ELSE c[i + 1]
      BY <1>0, <2>1, <2>3, <2>5, <3>1, <3>2
    <3>4. g.PrevPtr[d[i]] = IF i = 1 THEN Null ELSE c[i - 1]
      BY <1>0, <2>1, <2>3, <3>1, <3>2
    <3>5. i # n + 1 /\ i + 1 \in 1 .. n + 1 /\ d[i + 1] = IF i = k - 1 THEN t ELSE c[i + 1]
      BY <1>0, <1>2, <2>5
    <3>6. i # 1 => i - 1 \in 1 .. n + 1 /\ d[i - 1] = c[i - 1]
      BY <1>0, <1>2, <2>5
    <3>7. i = n => i = k - 1
      BY <1>0, <2>5
    <3> QED BY <3>3, <3>4, <3>5, <3>6, <3>7
  <2>6. CASE i > k
    <3>1. d[i] = c[i - 1] /\ i - 1 \in 1 .. n /\ c[i - 1] # t
      BY <1>0, <1>2, <2>6
    <3>2. (k <= n => (c[i - 1] = c[k] <=> i - 1 = k)) /\ (k > 1 => c[i - 1] # c[k - 1])
      BY <1>0, <2>2, <2>6, <3>1
    <3>3. g.NextPtr[d[i]] = IF i - 1 = n THEN Null ELSE c[i - 1 + 1]
      BY <1>0, <2>1, <2>3, <3>1, <3>2
    <3>4. g.PrevPtr[d[i]] = IF i - 1 = k THEN t ELSE IF i - 1 = 1 THEN Null ELSE c[i - 1 - 1]
      BY <1>0, <2>1, <2>3, <2>6, <3>1, <3>2
    <3>5. i # n + 1 => i + 1 \in 1 .. n + 1 /\ d[i + 1] = c[i - 1 + 1]
      BY <1>0, <1>2, <2>6
    <3>6. i # 1 /\ i - 1 \in 1 .. n + 1 /\ d[i - 1] = IF i - 1 = k THEN t ELSE c[i - 1 - 1]
      BY <1>0, <1>2, <2>6
    <3>7. i - 1 = 1 => i - 1 = k
      BY <1>0, <2>6
    <3>8. i - 1 = n <=> i = n + 1
      BY <1>0
    <3> QED BY <3>3, <3>4, <3>5, <3>6, <3>7, <3>8
  <2> QED BY <1>0, <2>4, <2>5, <2>6
<1>8. n + 1 # 0
  BY <1>0
<1> HIDE DEF d
<1> QED BY <1>1, <1>3, <1>4, <1>5, <1>6, <1>7, <1>8 DEF Spells, d

\* After what a removal writes, the pointers spell the list without the task.
LEMMA RemoveSpells ==
  ASSUME NEW Names, NEW h \in ListsOf(Names), NEW g \in ListsOf(Names), NEW l \in Names,
         NEW n, NEW c, Spells(h, l, n, c), NEW k \in 1 .. n, Removes(h, g, l, n, c, k)
  PROVE  Spells(g, l, n - 1, Without(c, n, k))
<1> DEFINE d == Without(c, n, k)
<1>0. n \in Nat /\ c \in [1 .. n -> Tasks] /\ k \in Nat /\ 1 <= k /\ k <= n
  BY DEF Spells
<1>1. n - 1 \in Nat /\ d \in [1 .. n - 1 -> Tasks]
  BY <1>0 DEF Without
<1>2. \A i \in 1 .. n - 1 : d[i] = IF i < k THEN c[i] ELSE c[i + 1]
  BY DEF Without
<1>9. \A a, b \in 1 .. n : c[a] = c[b] => a = b
  BY DEF Spells
<1>3. ASSUME NEW i \in 1 .. n - 1, NEW j \in 1 .. n - 1, d[i] = d[j] PROVE i = j
  <2> HIDE DEF d
  <2> QED BY <1>0, <1>2, <1>3, <1>9
<1>4. g.NbrEntries[l] = n - 1
  BY DEF Removes, ListsOf
<1>5. g.HeadPtr[l] = IF n - 1 = 0 THEN Null ELSE d[1]
  <2>1. g.HeadPtr[l] = IF k > 1 THEN h.HeadPtr[l] ELSE IF n = 1 THEN Null ELSE c[2]
    BY DEF Removes, ListsOf
  <2>2. h.HeadPtr[l] = c[1]
    BY <1>0 DEF Spells
  <2> HIDE DEF d
  <2> QED BY <1>0, <1>2, <2>1, <2>2
<1>6. g.TailPtr[l] = IF n - 1 = 0 THEN Null ELSE d[n - 1]
  <2>1. g.TailPtr[l] = IF k < n THEN h.TailPtr[l] ELSE IF n = 1 THEN Null ELSE c[n - 1]
    BY DEF Removes, ListsOf
  <2>2. h.TailPtr[l] = c[n]
    BY <1>0 DEF Spells
  <2> HIDE DEF d
  <2> QED BY <1>0, <1>2, <2>1, <2>2
<1>7. ASSUME NEW i \in 1 .. n - 1
      PROVE  /\ g.NextPtr[d[i]] = IF i = n - 1 THEN Null ELSE d[i + 1]
             /\ g.PrevPtr[d[i]] = IF i = 1 THEN Null ELSE d[i - 1]
  <2>1. \A a \in 1 .. n : /\ h.NextPtr[c[a]] = IF a = n THEN Null ELSE c[a + 1]
                          /\ h.PrevPtr[c[a]] = IF a = 1 THEN Null ELSE c[a - 1]
    BY DEF Spells
  <2>3. /\ g.NextPtr[d[i]] = IF d[i] = c[k] THEN Null
                            ELSE IF k > 1 /\ d[i] = c[k - 1] THEN (IF k = n THEN Null ELSE c[k + 1])
                            ELSE h.NextPtr[d[i]]
        /\ g.PrevPtr[d[i]] = IF d[i] = c[k] THEN Null
                            ELSE IF k < n /\ d[i] = c[k + 1] THEN (IF k = 1 THEN Null ELSE c[k - 1])
                            ELSE h.PrevPtr[d[i]]
    BY <1>1 DEF Removes
  <2> HIDE DEF d
  <2>4. CASE i < k
    <3>1. d[i] = c[i] /\ i \in 1 .. n /\ c[i] # c[k]
      BY <1>0, <1>2, <1>9, <2>4
    <3>2. (k < n => c[i] # c[k + 1]) /\ (k > 1 => (c[i] = c[k - 1] <=> i = k - 1))
      BY <1>0, <1>9, <2>4, <3>1
    <3>3. g.NextPtr[d[i]] = IF i = k - 1 THEN (IF k = n THEN Null ELSE c[k + 1]) ELSE c[i + 1]
      BY <1>0, <2>1, <2>3, <2>4, <3>1, <3>2
    <3>4. g.PrevPtr[d[i]] = IF i = 1 THEN Null ELSE c[i - 1]
      BY <1>0, <2>1, <2>3, <3>1, <3>2
    <3>5. i # n - 1 => i + 1 \in 1 .. n - 1 /\ d[i + 1] = IF i = k - 1 THEN c[k + 1] ELSE c[i + 1]
      BY <1>0, <1>2, <2>4
    <3>6. i # 1 => i - 1 \in 1 .. n - 1 /\ d[i - 1] = c[i - 1]
      BY <1>0, <1>2, <2>4
    <3>7. (i = n - 1 => k = n /\ i = k - 1) /\ (i = k - 1 /\ k = n => i = n - 1)
      BY <1>0, <2>4
    <3> QED BY <3>3, <3>4, <3>5, <3>6, <3>7
  <2>5. CASE i >= k
    <3>1. d[i] = c[i + 1] /\ i + 1 \in 1 .. n /\ c[i + 1] # c[k]
      BY <1>0, <1>2, <1>9, <2>5
    <3>2. (k < n => (c[i + 1] = c[k + 1] <=> i = k)) /\ (k > 1 => c[i + 1] # c[k - 1]) /\ k < n
      BY <1>0, <1>9, <2>5, <3>1
    <3>3. g.NextPtr[d[i]] = IF i + 1 = n THEN Null ELSE c[i + 1 + 1]
      BY <1>0, <2>1, <2>3, <3>1, <3>2
    <3>4. g.PrevPtr[d[i]] = IF i = k THEN (IF k = 1 THEN Null ELSE c[k - 1]) ELSE c[i + 1 - 1]
      BY <1>0, <2>1, <2>3, <2>5, <3>1, <3>2
    <3>5. i # n - 1 => i + 1 \in 1 .. n - 1 /\ d[i + 1] = c[i + 1 + 1]
      BY <1>0, <1>2, <2>5
    <3>6. i # 1 => i - 1 \in 1 .. n - 1 /\ d[i - 1] = IF i = k THEN c[k - 1] ELSE c[i + 1 - 1]
      BY <1>0, <1>2, <2>5
    <3>7. (i = 1 => i = k /\ k = 1) /\ (i = k /\ k = 1 => i = 1) /\ (i + 1 = n <=> i = n - 1)
      BY <1>0, <2>5
    <3> QED BY <3>3, <3>4, <3>5, <3>6, <3>7
  <2> QED BY <1>0, <2>4, <2>5
<1> HIDE DEF d
<1> QED BY <1>1, <1>3, <1>4, <1>5, <1>6, <1>7 DEF Spells, d

\* A family of lists: each is well linked, and no task is in two of them.
Good(h, Names) ==
    /\ h \in ListsOf(Names)
    /\ \A l \in Names : Spells(h, l, Len(Chain(h, l)), Chain(h, l))
    /\ \A l, m \in Names : \A t \in Tasks : t \in Members(h, l) /\ t \in Members(h, m) => l = m

\* From h to g a task enters list l at place k, or leaves it; the other lists
\* stay as they are.
Enters(h, g, Names, l, t, k) ==
    /\ Good(g, Names)
    /\ Chain(g, l) = With(Chain(h, l), Len(Chain(h, l)), k, t)
    /\ Len(Chain(g, l)) = Len(Chain(h, l)) + 1
    /\ Members(g, l) = Members(h, l) \cup {t}
    /\ \A m \in Names \ {l} : Chain(g, m) = Chain(h, m)

Leaves(h, g, Names, l, k) ==
    /\ Good(g, Names)
    /\ Chain(g, l) = Without(Chain(h, l), Len(Chain(h, l)), k)
    /\ Len(Chain(g, l)) = Len(Chain(h, l)) - 1
    /\ Members(g, l) = Members(h, l) \ {Chain(h, l)[k]}
    /\ \A m \in Names \ {l} : Chain(g, m) = Chain(h, m)

\* What is known of a list of a good family.
LEMMA GoodChain ==
  ASSUME NEW Names, NEW h, Good(h, Names), NEW l \in Names
  PROVE  /\ Len(Chain(h, l)) \in Nat /\ Chain(h, l) \in [1 .. Len(Chain(h, l)) -> Tasks]
         /\ Chain(h, l) \in Seq(Tasks) /\ DOMAIN Chain(h, l) = 1 .. Len(Chain(h, l))
         /\ Members(h, l) = {Chain(h, l)[i] : i \in 1 .. Len(Chain(h, l))}
         /\ Members(h, l) \subseteq Tasks
         /\ \A i, j \in 1 .. Len(Chain(h, l)) : Chain(h, l)[i] = Chain(h, l)[j] => i = j
         /\ h.NbrEntries[l] = Len(Chain(h, l))
<1> DEFINE c == Chain(h, l)
           n == Len(c)
<1>1. Spells(h, l, n, c)
  BY DEF Good
<1> HIDE DEF c
<1>2. n \in Nat /\ c \in [1 .. n -> Tasks]
  BY <1>1 DEF Spells
<1>3. c \in Seq(Tasks)
  BY <1>2
<1>4. DOMAIN c = 1 .. n
  BY <1>2
<1>5. Members(h, l) = {c[i] : i \in DOMAIN c}
  BY DEF Members, c
<1>6. Members(h, l) = {c[i] : i \in 1 .. n} /\ Members(h, l) \subseteq Tasks
  BY <1>2, <1>4, <1>5
<1>7. h.NbrEntries[l] = n /\ \A i, j \in 1 .. n : c[i] = c[j] => i = j
  BY <1>1 DEF Spells
<1> QED BY <1>2, <1>3, <1>4, <1>6, <1>7 DEF c

\* A write to one list, that touches only pointers of its tasks and of one task
\* that is in no other list, leaves a good family good and the other lists alone.
LEMMA Exchanged ==
  ASSUME NEW Names, NEW h, Good(h, Names), NEW g \in ListsOf(Names), NEW l \in Names,
         NEW n, NEW d, Spells(g, l, n, d), NEW t \in Tasks,
         \A m \in Names \ {l} : /\ t \notin Members(h, m)
                                /\ g.NbrEntries[m] = h.NbrEntries[m]
                                /\ g.HeadPtr[m] = h.HeadPtr[m] /\ g.TailPtr[m] = h.TailPtr[m],
         \A u \in Tasks : u # t /\ u \notin Members(h, l)
                            => g.NextPtr[u] = h.NextPtr[u] /\ g.PrevPtr[u] = h.PrevPtr[u],
         \A i \in 1 .. n : d[i] = t \/ d[i] \in Members(h, l)
  PROVE  /\ Good(g, Names)
         /\ Chain(g, l) = d /\ Len(Chain(g, l)) = n
         /\ Members(g, l) = {d[i] : i \in 1 .. n}
         /\ \A m \in Names \ {l} : Chain(g, m) = Chain(h, m)
<1>1. Chain(g, l) = d
  BY ChainSpelt
<1>2. n \in Nat /\ d \in [1 .. n -> Tasks]
  BY DEF Spells
<1>3. Len(d) = n /\ DOMAIN d = 1 .. n
  <2>1. d \in Seq(Tasks)
    BY <1>2
  <2> QED BY <1>2, <2>1
<1>4. Members(g, l) = {d[i] : i \in 1 .. n}
  BY <1>1, <1>3 DEF Members
<1>5. ASSUME NEW m \in Names \ {l}
      PROVE  Spells(g, m, Len(Chain(h, m)), Chain(h, m)) /\ Chain(g, m) = Chain(h, m)
  <2> DEFINE c == Chain(h, m)
             k == Len(c)
  <2>1. Spells(h, m, k, c)
    BY DEF Good
  <2>2. ASSUME NEW i \in 1 .. k
        PROVE  c[i] \in Tasks /\ c[i] # t /\ c[i] \notin Members(h, l)
    <3>1. c[i] \in Tasks /\ c[i] \in Members(h, m)
      BY GoodChain
    <3> HIDE DEF c
    <3> QED BY <3>1 DEF Good
  <2> HIDE DEF c, k
  <2>3. Spells(g, m, k, c)
    BY <2>1, <2>2 DEF Spells
  <2> QED BY <2>3, ChainSpelt DEF c, k
<1>6. \A m \in Names \ {l} : Members(g, m) = Members(h, m)
  BY <1>5 DEF Members
<1>7. ASSUME NEW m \in Names PROVE Spells(g, m, Len(Chain(g, m)), Chain(g, m))
  BY <1>1, <1>3, <1>5
<1>8. ASSUME NEW m \in Names, NEW p \in Names, NEW u \in Tasks, u \in Members(g, m), u \in Members(g, p)
      PROVE  m = p
  <2>1. \A q \in Names : u \in Members(g, q) => u = t \/ u \in Members(h, IF q = l THEN l ELSE q)
    BY <1>4, <1>6
  <2>2. \A q \in Names : u \in Members(g, q) => (q = l /\ u = t) \/ u \in Members(h, q)
    BY <1>4, <1>6
  <2>3. u = t => \A q \in Names : u \in Members(g, q) => q = l
    BY <1>6
  <2> QED BY <1>8, <2>2, <2>3 DEF Good
<1>9. Good(g, Names)
  BY <1>7, <1>8 DEF Good
<1> QED BY <1>1, <1>3, <1>4, <1>5, <1>9

\* An insertion into a good family.
LEMMA Entered ==
  ASSUME NEW Names, NEW h, Good(h, Names), NEW g \in ListsOf(Names), NEW l \in Names,
         NEW t \in Tasks, \A m \in Names : t \notin Members(h, m),
         NEW k \in 1 .. Len(Chain(h, l)) + 1,
         Inserts(h, g, l, Len(Chain(h, l)), Chain(h, l), k, t)
  PROVE  Enters(h, g, Names, l, t, k)
<1> DEFINE c == Chain(h, l)
           n == Len(c)
           d == With(c, n, k, t)
<1>1. Spells(h, l, n, c) /\ h \in ListsOf(Names)
  BY DEF Good
<1>2. /\ n \in Nat /\ c \in [1 .. n -> Tasks] /\ Members(h, l) = {c[i] : i \in 1 .. n}
  BY GoodChain
<1> HIDE DEF c, n
<1>3. k \in 1 .. n + 1 /\ Inserts(h, g, l, n, c, k, t)
  BY DEF c, n
<1>4. \A i \in 1 .. n : c[i] # t
  BY <1>2
<1>5. Spells(g, l, n + 1, d)
  BY <1>1, <1>3, <1>4, InsertSpells
<1>6. \A i \in 1 .. n + 1 : d[i] = t \/ d[i] \in Members(h, l)
  BY <1>2, <1>3 DEF With
<1>7. \A m \in Names \ {l} : /\ t \notin Members(h, m)
                             /\ g.NbrEntries[m] = h.NbrEntries[m]
                             /\ g.HeadPtr[m] = h.HeadPtr[m] /\ g.TailPtr[m] = h.TailPtr[m]
  BY <1>1, <1>3 DEF Inserts, ListsOf
<1>8. \A u \in Tasks : u # t /\ u \notin Members(h, l)
                          => g.NextPtr[u] = h.NextPtr[u] /\ g.PrevPtr[u] = h.PrevPtr[u]
  <2> SUFFICES ASSUME NEW u \in Tasks, u # t, u \notin Members(h, l)
               PROVE  g.NextPtr[u] = h.NextPtr[u] /\ g.PrevPtr[u] = h.PrevPtr[u]
    OBVIOUS
  <2>1. (k > 1 => u # c[k - 1]) /\ (k <= n => u # c[k])
    BY <1>2, <1>3
  <2> QED BY <1>3, <2>1 DEF Inserts
<1> HIDE DEF d
<1>9. /\ Good(g, Names) /\ Chain(g, l) = d /\ Len(Chain(g, l)) = n + 1
      /\ Members(g, l) = {d[i] : i \in 1 .. n + 1}
      /\ \A m \in Names \ {l} : Chain(g, m) = Chain(h, m)
  BY <1>5, <1>6, <1>7, <1>8, Exchanged
<1>10. {d[i] : i \in 1 .. n + 1} = Members(h, l) \cup {t}
  <2>1. \A i \in 1 .. n + 1 : d[i] = IF i < k THEN c[i] ELSE IF i = k THEN t ELSE c[i - 1]
    BY DEF d, With
  <2>2. ASSUME NEW i \in 1 .. n PROVE \E j \in 1 .. n + 1 : d[j] = c[i]
    <3>1. CASE i < k
      BY <1>2, <1>3, <2>1, <3>1
    <3>2. CASE ~(i < k)
      <4>1. i + 1 \in 1 .. n + 1 /\ d[i + 1] = c[i]
        BY <1>2, <1>3, <2>1, <3>2
      <4> QED BY <4>1
    <3> QED BY <3>1, <3>2
  <2>3. d[k] = t
    BY <1>2, <1>3, <2>1
  <2> QED BY <1>2, <1>3, <1>6, <2>2, <2>3
<1> QED BY <1>9, <1>10 DEF Enters, c, n, d

\* A removal from a good family.
LEMMA Left ==
  ASSUME NEW Names, NEW h, Good(h, Names), NEW g \in ListsOf(Names), NEW l \in Names,
         NEW k \in 1 .. Len(Chain(h, l)),
         Removes(h, g, l, Len(Chain(h, l)), Chain(h, l), k)
  PROVE  Leaves(h, g, Names, l, k)
<1> DEFINE c == Chain(h, l)
           n == Len(c)
           d == Without(c, n, k)
<1>1. Spells(h, l, n, c) /\ h \in ListsOf(Names)
  BY DEF Good
<1>2. /\ n \in Nat /\ c \in [1 .. n -> Tasks] /\ Members(h, l) = {c[i] : i \in 1 .. n}
      /\ \A i, j \in 1 .. n : c[i] = c[j] => i = j
  BY GoodChain
<1> HIDE DEF c, n
<1>3. k \in 1 .. n /\ Removes(h, g, l, n, c, k)
  BY DEF c, n
<1>5. Spells(g, l, n - 1, d)
  BY <1>1, <1>3, RemoveSpells
<1>6. \A i \in 1 .. n - 1 : d[i] = c[k] \/ d[i] \in Members(h, l)
  BY <1>2, <1>3 DEF Without
<1>7. c[k] \in Tasks /\ c[k] \in Members(h, l)
  BY <1>2, <1>3
<1>8. \A m \in Names \ {l} : /\ c[k] \notin Members(h, m)
                             /\ g.NbrEntries[m] = h.NbrEntries[m]
                             /\ g.HeadPtr[m] = h.HeadPtr[m] /\ g.TailPtr[m] = h.TailPtr[m]
  <2>1. \A m \in Names \ {l} : c[k] \notin Members(h, m)
    BY <1>7 DEF Good
  <2>2. \A m \in Names \ {l} : /\ g.NbrEntries[m] = h.NbrEntries[m]
                               /\ g.HeadPtr[m] = h.HeadPtr[m] /\ g.TailPtr[m] = h.TailPtr[m]
    BY <1>1, <1>3 DEF Removes, ListsOf
  <2> QED BY <2>1, <2>2
<1>9. \A u \in Tasks : u # c[k] /\ u \notin Members(h, l)
                          => g.NextPtr[u] = h.NextPtr[u] /\ g.PrevPtr[u] = h.PrevPtr[u]
  <2> SUFFICES ASSUME NEW u \in Tasks, u # c[k], u \notin Members(h, l)
               PROVE  g.NextPtr[u] = h.NextPtr[u] /\ g.PrevPtr[u] = h.PrevPtr[u]
    OBVIOUS
  <2>1. (k > 1 => u # c[k - 1]) /\ (k < n => u # c[k + 1])
    BY <1>2, <1>3
  <2> QED BY <1>3, <2>1 DEF Removes
<1> HIDE DEF d
<1>10. /\ Good(g, Names) /\ Chain(g, l) = d /\ Len(Chain(g, l)) = n - 1
       /\ Members(g, l) = {d[i] : i \in 1 .. n - 1}
       /\ \A m \in Names \ {l} : Chain(g, m) = Chain(h, m)
  BY <1>5, <1>6, <1>7, <1>8, <1>9, Exchanged
<1>11. {d[i] : i \in 1 .. n - 1} = Members(h, l) \ {c[k]}
  <2>1. \A i \in 1 .. n - 1 : d[i] = IF i < k THEN c[i] ELSE c[i + 1]
    BY DEF d, Without
  <2>2. ASSUME NEW i \in 1 .. n, i # k PROVE \E j \in 1 .. n - 1 : d[j] = c[i]
    <3>1. CASE i < k
      BY <1>2, <1>3, <2>1, <3>1
    <3>2. CASE ~(i < k)
      <4>1. i - 1 \in 1 .. n - 1 /\ d[i - 1] = c[i]
        BY <1>2, <1>3, <2>1, <2>2, <3>2
      <4> QED BY <4>1
    <3> QED BY <3>1, <3>2
  <2>3. ASSUME NEW i \in 1 .. n - 1 PROVE d[i] # c[k] /\ \E j \in 1 .. n : d[i] = c[j]
    BY <1>2, <1>3, <2>1
  <2> QED BY <1>2, <1>3, <2>2, <2>3
<1> QED BY <1>10, <1>11 DEF Leaves, c, n, d

-----------------------------------------------------------------------------
\* Types.

\* One write, of a pointer or of a count, keeps a family of lists one.
LEMMA WriteTyped ==
  ASSUME NEW Names, NEW h \in ListsOf(Names), NEW x, NEW p \in Pointers
  PROVE  /\ [h EXCEPT !.HeadPtr[x] = p] \in ListsOf(Names) /\ [h EXCEPT !.TailPtr[x] = p] \in ListsOf(Names)
         /\ [h EXCEPT !.NextPtr[x] = p] \in ListsOf(Names) /\ [h EXCEPT !.PrevPtr[x] = p] \in ListsOf(Names)
<1>1. [h EXCEPT !.HeadPtr[x] = p] \in ListsOf(Names)
  BY DEF ListsOf
<1>2. [h EXCEPT !.TailPtr[x] = p] \in ListsOf(Names)
  BY DEF ListsOf
<1>3. [h EXCEPT !.NextPtr[x] = p] \in ListsOf(Names)
  BY DEF ListsOf
<1>4. [h EXCEPT !.PrevPtr[x] = p] \in ListsOf(Names)
  BY DEF ListsOf
<1> QED BY <1>1, <1>2, <1>3, <1>4

\* A count that is written.
LEMMA CountTyped ==
  ASSUME NEW Names, NEW h \in ListsOf(Names), NEW x, NEW n \in Int
  PROVE  [h EXCEPT !.NbrEntries[x] = n] \in ListsOf(Names)
BY DEF ListsOf

\* The operations of TaskLists yield families of lists, whatever they are given.
LEMMA InsertTailTyped ==
  ASSUME NEW Names, NEW h \in ListsOf(Names), NEW l \in Names, NEW t \in Tasks
  PROVE  InsertTail(h, l, t) \in ListsOf(Names)
<1>1. /\ h.NbrEntries[l] + 1 \in Int /\ h.NbrEntries[l] - 1 \in Int /\ 0 \in Int /\ 1 \in Int
      /\ {Null, t, h.HeadPtr[l], h.TailPtr[l]} \subseteq Pointers
  BY DEF ListsOf, Pointers
<1>2. CASE h.NbrEntries[l] = 0
  <2> DEFINE a == [h EXCEPT !.NbrEntries[l] = 1]
           b == [a EXCEPT !.NextPtr[t] = Null]
           c == [b EXCEPT !.PrevPtr[t] = Null]
           d == [c EXCEPT !.HeadPtr[l] = t]
           e == [d EXCEPT !.TailPtr[l] = t]
  <2>1. a \in ListsOf(Names)
    BY <1>1, CountTyped
  <2> HIDE DEF a
  <2>2. b \in ListsOf(Names)
    BY <2>1, <1>1, WriteTyped
  <2> HIDE DEF b
  <2>3. c \in ListsOf(Names)
    BY <2>2, <1>1, WriteTyped
  <2> HIDE DEF c
  <2>4. d \in ListsOf(Names)
    BY <2>3, <1>1, WriteTyped
  <2> HIDE DEF d
  <2>5. e \in ListsOf(Names)
    BY <2>4, <1>1, WriteTyped
  <2> HIDE DEF e
  <2>6. InsertTail(h, l, t) = [h EXCEPT !.NbrEntries[l] = 1, !.NextPtr[t] = Null, !.PrevPtr[t] = Null, !.HeadPtr[l] = t, !.TailPtr[l] = t]
    BY <1>1, <1>2 DEF InsertTail, InsertOnly
  <2> QED BY <2>5, <2>6 DEF a, b, c, d, e
<1>3. CASE h.NbrEntries[l] # 0
  <2> DEFINE a == [h EXCEPT !.NbrEntries[l] = h.NbrEntries[l] + 1]
           b == [a EXCEPT !.NextPtr[t] = Null]
           c == [b EXCEPT !.PrevPtr[t] = h.TailPtr[l]]
           d == [c EXCEPT !.NextPtr[h.TailPtr[l]] = t]
           e == [d EXCEPT !.TailPtr[l] = t]
  <2>1. a \in ListsOf(Names)
    BY <1>1, CountTyped
  <2> HIDE DEF a
  <2>2. b \in ListsOf(Names)
    BY <2>1, <1>1, WriteTyped
  <2> HIDE DEF b
  <2>3. c \in ListsOf(Names)
    BY <2>2, <1>1, WriteTyped
  <2> HIDE DEF c
  <2>4. d \in ListsOf(Names)
    BY <2>3, <1>1, WriteTyped
  <2> HIDE DEF d
  <2>5. e \in ListsOf(Names)
    BY <2>4, <1>1, WriteTyped
  <2> HIDE DEF e
  <2>6. InsertTail(h, l, t) = [h EXCEPT !.NbrEntries[l] = h.NbrEntries[l] + 1, !.NextPtr[t] = Null, !.PrevPtr[t] = h.TailPtr[l], !.NextPtr[h.TailPtr[l]] = t, !.TailPtr[l] = t]
    BY <1>1, <1>3 DEF InsertTail
  <2> QED BY <2>5, <2>6 DEF a, b, c, d, e
<1> QED BY <1>2, <1>3

\* InsertHead.
LEMMA InsertHeadTyped ==
  ASSUME NEW Names, NEW h \in ListsOf(Names), NEW l \in Names, NEW t \in Tasks
  PROVE  InsertHead(h, l, t) \in ListsOf(Names)
<1>1. /\ h.NbrEntries[l] + 1 \in Int /\ h.NbrEntries[l] - 1 \in Int /\ 0 \in Int /\ 1 \in Int
      /\ {Null, t, h.HeadPtr[l], h.TailPtr[l]} \subseteq Pointers
  BY DEF ListsOf, Pointers
<1>2. CASE h.NbrEntries[l] = 0
  <2> DEFINE a == [h EXCEPT !.NbrEntries[l] = 1]
           b == [a EXCEPT !.NextPtr[t] = Null]
           c == [b EXCEPT !.PrevPtr[t] = Null]
           d == [c EXCEPT !.HeadPtr[l] = t]
           e == [d EXCEPT !.TailPtr[l] = t]
  <2>1. a \in ListsOf(Names)
    BY <1>1, CountTyped
  <2> HIDE DEF a
  <2>2. b \in ListsOf(Names)
    BY <2>1, <1>1, WriteTyped
  <2> HIDE DEF b
  <2>3. c \in ListsOf(Names)
    BY <2>2, <1>1, WriteTyped
  <2> HIDE DEF c
  <2>4. d \in ListsOf(Names)
    BY <2>3, <1>1, WriteTyped
  <2> HIDE DEF d
  <2>5. e \in ListsOf(Names)
    BY <2>4, <1>1, WriteTyped
  <2> HIDE DEF e
  <2>6. InsertHead(h, l, t) = [h EXCEPT !.NbrEntries[l] = 1, !.NextPtr[t] = Null, !.PrevPtr[t] = Null, !.HeadPtr[l] = t, !.TailPtr[l] = t]
    BY <1>1, <1>2 DEF InsertHead, InsertOnly
  <2> QED BY <2>5, <2>6 DEF a, b, c, d, e
<1>3. CASE h.NbrEntries[l] # 0
  <2> DEFINE a == [h EXCEPT !.NbrEntries[l] = h.NbrEntries[l] + 1]
           b == [a EXCEPT !.NextPtr[t] = h.HeadPtr[l]]
           c == [b EXCEPT !.PrevPtr[t] = Null]
           d == [c EXCEPT !.PrevPtr[h.HeadPtr[l]] = t]
           e == [d EXCEPT !.HeadPtr[l] = t]
  <2>1. a \in ListsOf(Names)
    BY <1>1, CountTyped
  <2> HIDE DEF a
  <2>2. b \in ListsOf(Names)
    BY <2>1, <1>1, WriteTyped
  <2> HIDE DEF b
  <2>3. c \in ListsOf(Names)
    BY <2>2, <1>1, WriteTyped
  <2> HIDE DEF c
  <2>4. d \in ListsOf(Names)
    BY <2>3, <1>1, WriteTyped
  <2> HIDE DEF d
  <2>5. e \in ListsOf(Names)
    BY <2>4, <1>1, WriteTyped
  <2> HIDE DEF e
  <2>6. InsertHead(h, l, t) = [h EXCEPT !.NbrEntries[l] = h.NbrEntries[l] + 1, !.NextPtr[t] = h.HeadPtr[l], !.PrevPtr[t] = Null, !.PrevPtr[h.HeadPtr[l]] = t, !.HeadPtr[l] = t]
    BY <1>1, <1>3 DEF InsertHead
  <2> QED BY <2>5, <2>6 DEF a, b, c, d, e
<1> QED BY <1>2, <1>3

\* InsertBefore.
LEMMA InsertBeforeTyped ==
  ASSUME NEW Names, NEW h \in ListsOf(Names), NEW l \in Names, NEW t \in Tasks, NEW u \in Tasks
  PROVE  InsertBefore(h, l, t, u) \in ListsOf(Names)
<1>1. /\ h.NbrEntries[l] + 1 \in Int /\ h.NbrEntries[l] - 1 \in Int /\ 0 \in Int /\ 1 \in Int
      /\ {Null, t, h.HeadPtr[l], h.TailPtr[l], u, h.PrevPtr[u]} \subseteq Pointers
  BY DEF ListsOf, Pointers
<1>2. CASE h.PrevPtr[u] = Null
  <2> DEFINE a == [h EXCEPT !.NbrEntries[l] = h.NbrEntries[l] + 1]
           b == [a EXCEPT !.PrevPtr[u] = t]
           c == [b EXCEPT !.PrevPtr[t] = Null]
           d == [c EXCEPT !.NextPtr[t] = u]
           e == [d EXCEPT !.HeadPtr[l] = t]
  <2>1. a \in ListsOf(Names)
    BY <1>1, CountTyped
  <2> HIDE DEF a
  <2>2. b \in ListsOf(Names)
    BY <2>1, <1>1, WriteTyped
  <2> HIDE DEF b
  <2>3. c \in ListsOf(Names)
    BY <2>2, <1>1, WriteTyped
  <2> HIDE DEF c
  <2>4. d \in ListsOf(Names)
    BY <2>3, <1>1, WriteTyped
  <2> HIDE DEF d
  <2>5. e \in ListsOf(Names)
    BY <2>4, <1>1, WriteTyped
  <2> HIDE DEF e
  <2>6. InsertBefore(h, l, t, u) = [h EXCEPT !.NbrEntries[l] = h.NbrEntries[l] + 1, !.PrevPtr[u] = t, !.PrevPtr[t] = Null, !.NextPtr[t] = u, !.HeadPtr[l] = t]
    BY <1>1, <1>2 DEF InsertBefore
  <2> QED BY <2>5, <2>6 DEF a, b, c, d, e
<1>3. CASE h.PrevPtr[u] # Null
  <2> DEFINE a == [h EXCEPT !.NbrEntries[l] = h.NbrEntries[l] + 1]
           b == [a EXCEPT !.PrevPtr[t] = h.PrevPtr[u]]
           c == [b EXCEPT !.NextPtr[t] = u]
           d == [c EXCEPT !.NextPtr[h.PrevPtr[u]] = t]
           e == [d EXCEPT !.PrevPtr[u] = t]
  <2>1. a \in ListsOf(Names)
    BY <1>1, CountTyped
  <2> HIDE DEF a
  <2>2. b \in ListsOf(Names)
    BY <2>1, <1>1, WriteTyped
  <2> HIDE DEF b
  <2>3. c \in ListsOf(Names)
    BY <2>2, <1>1, WriteTyped
  <2> HIDE DEF c
  <2>4. d \in ListsOf(Names)
    BY <2>3, <1>1, WriteTyped
  <2> HIDE DEF d
  <2>5. e \in ListsOf(Names)
    BY <2>4, <1>1, WriteTyped
  <2> HIDE DEF e
  <2>6. InsertBefore(h, l, t, u) = [h EXCEPT !.NbrEntries[l] = h.NbrEntries[l] + 1, !.PrevPtr[t] = h.PrevPtr[u], !.NextPtr[t] = u, !.NextPtr[h.PrevPtr[u]] = t, !.PrevPtr[u] = t]
    BY <1>1, <1>3 DEF InsertBefore
  <2> QED BY <2>5, <2>6 DEF a, b, c, d, e
<1> QED BY <1>2, <1>3

\* Unlink, at each of the four positions.
LEMMA UnlinkTyped ==
  ASSUME NEW Names, NEW h \in ListsOf(Names), NEW l \in Names, NEW t \in Tasks
  PROVE  Unlink(h, l, t) \in ListsOf(Names)
<1>1. /\ h.NbrEntries[l] + 1 \in Int /\ h.NbrEntries[l] - 1 \in Int /\ 0 \in Int /\ 1 \in Int
      /\ {Null, t, h.HeadPtr[l], h.TailPtr[l], h.NextPtr[t], h.PrevPtr[t]} \subseteq Pointers
  BY DEF ListsOf, Pointers
<1>2. CASE h.PrevPtr[t] = Null /\ h.NextPtr[t] = Null
  <2> DEFINE a == [h EXCEPT !.NbrEntries[l] = 0]
           b == [a EXCEPT !.HeadPtr[l] = Null]
           c == [b EXCEPT !.TailPtr[l] = Null]
           d == [c EXCEPT !.NextPtr[t] = Null]
           e == [d EXCEPT !.PrevPtr[t] = Null]
  <2>1. a \in ListsOf(Names)
    BY <1>1, CountTyped
  <2> HIDE DEF a
  <2>2. b \in ListsOf(Names)
    BY <2>1, <1>1, WriteTyped
  <2> HIDE DEF b
  <2>3. c \in ListsOf(Names)
    BY <2>2, <1>1, WriteTyped
  <2> HIDE DEF c
  <2>4. d \in ListsOf(Names)
    BY <2>3, <1>1, WriteTyped
  <2> HIDE DEF d
  <2>5. e \in ListsOf(Names)
    BY <2>4, <1>1, WriteTyped
  <2> HIDE DEF e
  <2>6. Unlink(h, l, t) = [[h EXCEPT !.NbrEntries[l] = 0, !.HeadPtr[l] = Null, !.TailPtr[l] = Null]
               EXCEPT !.NextPtr[t] = Null, !.PrevPtr[t] = Null]
    BY <1>1, <1>2 DEF Unlink
  <2> QED BY <2>5, <2>6 DEF a, b, c, d, e
<1>3. CASE h.PrevPtr[t] = Null /\ h.NextPtr[t] # Null
  <2> DEFINE a == [h EXCEPT !.NbrEntries[l] = h.NbrEntries[l] - 1]
           b == [a EXCEPT !.PrevPtr[h.NextPtr[t]] = Null]
           c == [b EXCEPT !.HeadPtr[l] = h.NextPtr[t]]
           d == [c EXCEPT !.NextPtr[t] = Null]
           e == [d EXCEPT !.PrevPtr[t] = Null]
  <2>1. a \in ListsOf(Names)
    BY <1>1, CountTyped
  <2> HIDE DEF a
  <2>2. b \in ListsOf(Names)
    BY <2>1, <1>1, WriteTyped
  <2> HIDE DEF b
  <2>3. c \in ListsOf(Names)
    BY <2>2, <1>1, WriteTyped
  <2> HIDE DEF c
  <2>4. d \in ListsOf(Names)
    BY <2>3, <1>1, WriteTyped
  <2> HIDE DEF d
  <2>5. e \in ListsOf(Names)
    BY <2>4, <1>1, WriteTyped
  <2> HIDE DEF e
  <2>6. Unlink(h, l, t) = [[h EXCEPT !.NbrEntries[l] = h.NbrEntries[l] - 1, !.PrevPtr[h.NextPtr[t]] = Null, !.HeadPtr[l] = h.NextPtr[t]]
               EXCEPT !.NextPtr[t] = Null, !.PrevPtr[t] = Null]
    BY <1>1, <1>3 DEF Unlink
  <2> QED BY <2>5, <2>6 DEF a, b, c, d, e
<1>4. CASE h.PrevPtr[t] # Null /\ h.NextPtr[t] = Null
  <2> DEFINE a == [h EXCEPT !.NbrEntries[l] = h.NbrEntries[l] - 1]
           b == [a EXCEPT !.NextPtr[h.PrevPtr[t]] = Null]
           c == [b EXCEPT !.TailPtr[l] = h.PrevPtr[t]]
           d == [c EXCEPT !.NextPtr[t] = Null]
           e == [d EXCEPT !.PrevPtr[t] = Null]
  <2>1. a \in ListsOf(Names)
    BY <1>1, CountTyped
  <2> HIDE DEF a
  <2>2. b \in ListsOf(Names)
    BY <2>1, <1>1, WriteTyped
  <2> HIDE DEF b
  <2>3. c \in ListsOf(Names)
    BY <2>2, <1>1, WriteTyped
  <2> HIDE DEF c
  <2>4. d \in ListsOf(Names)
    BY <2>3, <1>1, WriteTyped
  <2> HIDE DEF d
  <2>5. e \in ListsOf(Names)
    BY <2>4, <1>1, WriteTyped
  <2> HIDE DEF e
  <2>6. Unlink(h, l, t) = [[h EXCEPT !.NbrEntries[l] = h.NbrEntries[l] - 1, !.NextPtr[h.PrevPtr[t]] = Null, !.TailPtr[l] = h.PrevPtr[t]]
               EXCEPT !.NextPtr[t] = Null, !.PrevPtr[t] = Null]
    BY <1>1, <1>4 DEF Unlink
  <2> QED BY <2>5, <2>6 DEF a, b, c, d, e
<1>5. CASE h.PrevPtr[t] # Null /\ h.NextPtr[t] # Null
  <2> DEFINE a == [h EXCEPT !.NbrEntries[l] = h.NbrEntries[l] - 1]
           b == [a EXCEPT !.NextPtr[h.PrevPtr[t]] = h.NextPtr[t]]
           c == [b EXCEPT !.PrevPtr[h.NextPtr[t]] = h.PrevPtr[t]]
           d == [c EXCEPT !.NextPtr[t] = Null]
           e == [d EXCEPT !.PrevPtr[t] = Null]
  <2>1. a \in ListsOf(Names)
    BY <1>1, CountTyped
  <2> HIDE DEF a
  <2>2. b \in ListsOf(Names)
    BY <2>1, <1>1, WriteTyped
  <2> HIDE DEF b
  <2>3. c \in ListsOf(Names)
    BY <2>2, <1>1, WriteTyped
  <2> HIDE DEF c
  <2>4. d \in ListsOf(Names)
    BY <2>3, <1>1, WriteTyped
  <2> HIDE DEF d
  <2>5. e \in ListsOf(Names)
    BY <2>4, <1>1, WriteTyped
  <2> HIDE DEF e
  <2>6. Unlink(h, l, t) = [[h EXCEPT !.NbrEntries[l] = h.NbrEntries[l] - 1, !.NextPtr[h.PrevPtr[t]] = h.NextPtr[t], !.PrevPtr[h.NextPtr[t]] = h.PrevPtr[t]]
               EXCEPT !.NextPtr[t] = Null, !.PrevPtr[t] = Null]
    BY <1>1, <1>5 DEF Unlink
  <2> QED BY <2>5, <2>6 DEF a, b, c, d, e
<1> QED BY <1>2, <1>3, <1>4, <1>5

\* MoveHeadToTail of three or more tasks.
LEMMA MoveOfMany ==
  ASSUME NEW h, NEW l, ~(h.NbrEntries[l] \in {0, 1}), ~(h.NbrEntries[l] = 2)
  PROVE  MoveHeadToTail(h, l) =
           [h EXCEPT !.PrevPtr[h.NextPtr[h.HeadPtr[l]]] = Null, !.NextPtr[h.HeadPtr[l]] = Null,
                     !.PrevPtr[h.HeadPtr[l]] = h.TailPtr[l], !.NextPtr[h.TailPtr[l]] = h.HeadPtr[l],
                     !.HeadPtr[l] = h.NextPtr[h.HeadPtr[l]], !.TailPtr[l] = h.HeadPtr[l]]
BY DEF MoveHeadToTail

\* MoveHeadToTail.
LEMMA MoveTyped ==
  ASSUME NEW Names, NEW h \in ListsOf(Names), NEW l \in Names,
         h.NbrEntries[l] >= 2 => h.HeadPtr[l] \in Tasks, h.NbrEntries[l] \in Nat
  PROVE  MoveHeadToTail(h, l) \in ListsOf(Names)
<1> DEFINE head == h.HeadPtr[l]
           tail == h.TailPtr[l]
           second == h.NextPtr[head]
<1>1. {Null, head, tail} \subseteq Pointers /\ (h.NbrEntries[l] >= 2 => second \in Pointers)
  BY DEF ListsOf, Pointers
<1> HIDE DEF head, tail, second
<1>2. CASE h.NbrEntries[l] \in {0, 1}
  BY <1>2 DEF MoveHeadToTail
<1>3. CASE h.NbrEntries[l] = 2
  <2> DEFINE a == [h EXCEPT !.PrevPtr[head] = tail]
           b == [a EXCEPT !.NextPtr[head] = Null]
           c == [b EXCEPT !.PrevPtr[tail] = Null]
           d == [c EXCEPT !.NextPtr[tail] = head]
           e == [d EXCEPT !.HeadPtr[l] = tail]
           f == [e EXCEPT !.TailPtr[l] = head]
  <2>1. a \in ListsOf(Names)
    BY <1>1, WriteTyped
  <2> HIDE DEF a
  <2>2. b \in ListsOf(Names)
    BY <2>1, <1>1, WriteTyped
  <2> HIDE DEF b
  <2>3. c \in ListsOf(Names)
    BY <2>2, <1>1, WriteTyped
  <2> HIDE DEF c
  <2>4. d \in ListsOf(Names)
    BY <2>3, <1>1, WriteTyped
  <2> HIDE DEF d
  <2>5. e \in ListsOf(Names)
    BY <2>4, <1>1, WriteTyped
  <2> HIDE DEF e
  <2>6. f \in ListsOf(Names)
    BY <2>5, <1>1, WriteTyped
  <2> HIDE DEF f
  <2>7. MoveHeadToTail(h, l) = [h EXCEPT !.PrevPtr[head] = tail, !.NextPtr[head] = Null, !.PrevPtr[tail] = Null, !.NextPtr[tail] = head, !.HeadPtr[l] = tail, !.TailPtr[l] = head]
    BY <1>1, <1>3 DEF MoveHeadToTail, head, tail, second
  <2> QED BY <2>6, <2>7 DEF a, b, c, d, e, f
<1>4. CASE h.NbrEntries[l] > 2
  <2>0. second \in Pointers
    BY <1>1, <1>4
  <2> DEFINE a == [h EXCEPT !.PrevPtr[second] = Null]
           b == [a EXCEPT !.NextPtr[head] = Null]
           c == [b EXCEPT !.PrevPtr[head] = tail]
           d == [c EXCEPT !.NextPtr[tail] = head]
           e == [d EXCEPT !.HeadPtr[l] = second]
           f == [e EXCEPT !.TailPtr[l] = head]
  <2>1. a \in ListsOf(Names)
    BY <1>1, <2>0, WriteTyped
  <2> HIDE DEF a
  <2>2. b \in ListsOf(Names)
    BY <2>1, <1>1, <2>0, WriteTyped
  <2> HIDE DEF b
  <2>3. c \in ListsOf(Names)
    BY <2>2, <1>1, <2>0, WriteTyped
  <2> HIDE DEF c
  <2>4. d \in ListsOf(Names)
    BY <2>3, <1>1, <2>0, WriteTyped
  <2> HIDE DEF d
  <2>5. e \in ListsOf(Names)
    BY <2>4, <1>1, <2>0, WriteTyped
  <2> HIDE DEF e
  <2>6. f \in ListsOf(Names)
    BY <2>5, <1>1, <2>0, WriteTyped
  <2> HIDE DEF f
  <2>7. MoveHeadToTail(h, l) = [h EXCEPT !.PrevPtr[second] = Null, !.NextPtr[head] = Null, !.PrevPtr[head] = tail, !.NextPtr[tail] = head, !.HeadPtr[l] = second, !.TailPtr[l] = head]
    <3>1. h.NbrEntries[l] \notin {0, 1} /\ h.NbrEntries[l] # 2
      BY <1>4
    <3>2. ~(h.NbrEntries[l] \in {0, 1}) /\ ~(h.NbrEntries[l] = 2)
      BY <3>1
    <3> QED BY <3>2, MoveOfMany DEF head, tail, second
  <2> QED BY <2>6, <2>7 DEF a, b, c, d, e, f
<1> QED BY <1>2, <1>3, <1>4

-----------------------------------------------------------------------------
\* The operations.

\* InsertTail inserts at the end.
LEMMA TailEnters ==
  ASSUME NEW Names, NEW h, Good(h, Names), NEW l \in Names,
         NEW t \in Tasks, \A m \in Names : t \notin Members(h, m)
  PROVE  Enters(h, InsertTail(h, l, t), Names, l, t, Len(Chain(h, l)) + 1)
<1> DEFINE c == Chain(h, l)
           n == Len(c)
           g == InsertTail(h, l, t)
<1>1. Spells(h, l, n, c) /\ h \in ListsOf(Names)
  BY DEF Good
<1>2. n \in Nat /\ c \in [1 .. n -> Tasks] /\ h.NbrEntries[l] = n /\ Members(h, l) = {c[i] : i \in 1 .. n}
  BY GoodChain
<1> HIDE DEF c, n
<1>3. \A i \in 1 .. n : c[i] # t
  BY <1>2
<1>4. g \in ListsOf(Names) /\ Inserts(h, g, l, n, c, n + 1, t)
  <2>1. CASE n = 0
    <3>1. g = InsertOnly(h, l, t)
      BY <1>2, <2>1 DEF InsertTail
    <3>2. g \in ListsOf(Names)
      BY <1>1, InsertTailTyped
    <3>3. Inserts(h, g, l, n, c, n + 1, t)
      BY <1>1, <2>1, <3>1 DEF InsertOnly, ListsOf, Inserts
    <3> QED BY <3>2, <3>3
  <2>2. CASE n # 0
    <3>1. g = [h EXCEPT !.NbrEntries[l] = @ + 1,
                   !.NextPtr[t] = Null, !.PrevPtr[t] = h.TailPtr[l],
                   !.NextPtr[h.TailPtr[l]] = t, !.TailPtr[l] = t]
      BY <1>2, <2>2 DEF InsertTail
    <3>2. h.TailPtr[l] = c[n] /\ c[n] \in Tasks /\ c[n] # t
      BY <1>1, <1>2, <1>3, <2>2 DEF Spells
    <3>3. g \in ListsOf(Names)
      BY <1>1, InsertTailTyped
    <3>4. Inserts(h, g, l, n, c, n + 1, t)
      BY <1>1, <1>2, <2>2, <3>1, <3>2 DEF ListsOf, Inserts
    <3> QED BY <3>3, <3>4
  <2> QED BY <2>1, <2>2
<1>5. n + 1 \in 1 .. n + 1
  BY <1>2
<1> HIDE DEF g
<1>6. Enters(h, g, Names, l, t, n + 1)
  BY <1>4, <1>5, Entered DEF c, n
<1> QED BY <1>6 DEF c, n, g

\* InsertHead inserts at the front.
LEMMA HeadEnters ==
  ASSUME NEW Names, NEW h, Good(h, Names), NEW l \in Names,
         NEW t \in Tasks, \A m \in Names : t \notin Members(h, m)
  PROVE  Enters(h, InsertHead(h, l, t), Names, l, t, 1)
<1> DEFINE c == Chain(h, l)
           n == Len(c)
           g == InsertHead(h, l, t)
<1>1. Spells(h, l, n, c) /\ h \in ListsOf(Names)
  BY DEF Good
<1>2. n \in Nat /\ c \in [1 .. n -> Tasks] /\ h.NbrEntries[l] = n /\ Members(h, l) = {c[i] : i \in 1 .. n}
  BY GoodChain
<1> HIDE DEF c, n
<1>3. \A i \in 1 .. n : c[i] # t
  BY <1>2
<1>4. g \in ListsOf(Names) /\ Inserts(h, g, l, n, c, 1, t)
  <2>1. CASE n = 0
    <3>1. g = InsertOnly(h, l, t)
      BY <1>2, <2>1 DEF InsertHead
    <3>2. g \in ListsOf(Names)
      BY <1>1, InsertHeadTyped
    <3>3. Inserts(h, g, l, n, c, 1, t)
      BY <1>1, <2>1, <3>1 DEF InsertOnly, ListsOf, Inserts
    <3> QED BY <3>2, <3>3
  <2>2. CASE n # 0
    <3>1. g = [h EXCEPT !.NbrEntries[l] = @ + 1,
                   !.NextPtr[t] = h.HeadPtr[l], !.PrevPtr[t] = Null,
                   !.PrevPtr[h.HeadPtr[l]] = t, !.HeadPtr[l] = t]
      BY <1>2, <2>2 DEF InsertHead
    <3>2. h.HeadPtr[l] = c[1] /\ c[1] \in Tasks /\ c[1] # t /\ 1 # n + 1 /\ 1 <= n
      BY <1>1, <1>2, <1>3, <2>2 DEF Spells
    <3>3. g \in ListsOf(Names)
      BY <1>1, InsertHeadTyped
    <3>4. Inserts(h, g, l, n, c, 1, t)
      BY <1>1, <1>2, <2>2, <3>1, <3>2 DEF ListsOf, Inserts
    <3> QED BY <3>3, <3>4
  <2> QED BY <2>1, <2>2
<1>5. 1 \in 1 .. n + 1
  BY <1>2
<1> HIDE DEF g
<1>6. Enters(h, g, Names, l, t, 1)
  BY <1>4, <1>5, Entered DEF c, n
<1> QED BY <1>6 DEF c, n, g

\* InsertBefore inserts at the place of the task it is given.
LEMMA BeforeEnters ==
  ASSUME NEW Names, NEW h, Good(h, Names), NEW l \in Names,
         NEW t \in Tasks, \A m \in Names : t \notin Members(h, m),
         NEW k \in 1 .. Len(Chain(h, l))
  PROVE  Enters(h, InsertBefore(h, l, t, Chain(h, l)[k]), Names, l, t, k)
<1> DEFINE c == Chain(h, l)
           n == Len(c)
           g == InsertBefore(h, l, t, c[k])
           prev == h.PrevPtr[c[k]]
<1>1. Spells(h, l, n, c) /\ h \in ListsOf(Names)
  BY DEF Good
<1>2. /\ n \in Nat /\ c \in [1 .. n -> Tasks] /\ h.NbrEntries[l] = n /\ Members(h, l) = {c[i] : i \in 1 .. n}
      /\ \A i, j \in 1 .. n : c[i] = c[j] => i = j
  BY GoodChain
<1> HIDE DEF c, n
<1>3. k \in 1 .. n /\ c[k] \in Tasks /\ \A i \in 1 .. n : c[i] # t
  BY <1>2 DEF c, n
<1>4. prev = IF k = 1 THEN Null ELSE c[k - 1]
  BY <1>1, <1>3 DEF Spells
<1>5. g \in ListsOf(Names) /\ Inserts(h, g, l, n, c, k, t)
  <2>1. CASE k = 1
    <3>1. g = [h EXCEPT !.NbrEntries[l] = @ + 1, !.PrevPtr[c[k]] = t, !.PrevPtr[t] = Null,
                   !.NextPtr[t] = c[k], !.HeadPtr[l] = t]
      BY <1>4, <2>1 DEF InsertBefore
    <3>2. g \in ListsOf(Names)
      BY <1>1, <1>3, InsertBeforeTyped
    <3>3. Inserts(h, g, l, n, c, k, t)
      BY <1>1, <1>2, <1>3, <2>1, <3>1 DEF ListsOf, Inserts
    <3> QED BY <3>2, <3>3
  <2>2. CASE k # 1
    <3>0. k - 1 \in 1 .. n /\ c[k - 1] \in Tasks /\ c[k - 1] # t /\ c[k - 1] # c[k]
      BY <1>2, <1>3, <2>2
    <3>1. g = [h EXCEPT !.NbrEntries[l] = @ + 1, !.PrevPtr[t] = c[k - 1], !.NextPtr[t] = c[k],
                   !.NextPtr[c[k - 1]] = t, !.PrevPtr[c[k]] = t]
      BY <1>4, <2>2, <3>0, TaskListsAssumption DEF InsertBefore
    <3>2. g \in ListsOf(Names)
      BY <1>1, <1>3, InsertBeforeTyped
    <3>3. Inserts(h, g, l, n, c, k, t)
      <4>1. g.NbrEntries = [h.NbrEntries EXCEPT ![l] = n + 1]
        BY <1>1, <1>2, <3>1 DEF ListsOf
      <4>2. /\ g.HeadPtr = [h.HeadPtr EXCEPT ![l] = IF k = 1 THEN t ELSE @]
            /\ g.TailPtr = [h.TailPtr EXCEPT ![l] = IF k = n + 1 THEN t ELSE @]
        BY <1>1, <1>2, <1>3, <2>2, <3>1 DEF ListsOf
      <4>3. ASSUME NEW u \in Tasks
            PROVE  /\ g.NextPtr[u] = IF u = t THEN (IF k = n + 1 THEN Null ELSE c[k])
                            ELSE IF k > 1 /\ u = c[k - 1] THEN t ELSE h.NextPtr[u]
                   /\ g.PrevPtr[u] = IF u = t THEN (IF k = 1 THEN Null ELSE c[k - 1])
                            ELSE IF k <= n /\ u = c[k] THEN t ELSE h.PrevPtr[u]
        BY <1>1, <1>2, <1>3, <2>2, <3>0, <3>1 DEF ListsOf
      <4> QED BY <4>1, <4>2, <4>3 DEF Inserts
    <3> QED BY <3>2, <3>3
  <2> QED BY <2>1, <2>2
<1>6. k \in 1 .. n + 1
  BY <1>2, <1>3
<1> HIDE DEF g
<1>7. Enters(h, g, Names, l, t, k)
  BY <1>5, <1>6, Entered DEF c, n
<1> QED BY <1>7 DEF c, g

\* Unlink (OS_PendListRemove1, OS_RdyListRemove, OS_TickListRemove) takes the task
\* out, wherever in the list it is, and the rest stays linked both ways.
THEOREM TaskLeaves ==
  ASSUME NEW Names, NEW h, Good(h, Names), NEW l \in Names, NEW k \in 1 .. Len(Chain(h, l))
  PROVE  Leaves(h, Unlink(h, l, Chain(h, l)[k]), Names, l, k)
<1> DEFINE c == Chain(h, l)
           n == Len(c)
           t == c[k]
           g == Unlink(h, l, t)
           prev == h.PrevPtr[t]
           next == h.NextPtr[t]
<1>1. Spells(h, l, n, c) /\ h \in ListsOf(Names)
  BY DEF Good
<1>2. /\ n \in Nat /\ c \in [1 .. n -> Tasks] /\ h.NbrEntries[l] = n
      /\ \A i, j \in 1 .. n : c[i] = c[j] => i = j
  BY GoodChain
<1> HIDE DEF c, n
<1>3. k \in 1 .. n /\ t \in Tasks /\ Null \notin Tasks
  BY <1>2, TaskListsAssumption DEF c, n
<1>4. /\ prev = IF k = 1 THEN Null ELSE c[k - 1]
      /\ next = IF k = n THEN Null ELSE c[k + 1]
  BY <1>1, <1>3 DEF Spells
<1>5. /\ k # 1 => k - 1 \in 1 .. n /\ c[k - 1] \in Tasks /\ c[k - 1] # t
      /\ k # n => k + 1 \in 1 .. n /\ c[k + 1] \in Tasks /\ c[k + 1] # t
      /\ k # 1 /\ k # n => c[k - 1] # c[k + 1]
  BY <1>2, <1>3
<1>6. h.HeadPtr[l] = c[1] /\ h.TailPtr[l] = c[n]
  BY <1>1, <1>3 DEF Spells
<1> DEFINE Cut(f) == [f EXCEPT !.NextPtr[t] = Null, !.PrevPtr[t] = Null]
<1>7. g \in ListsOf(Names) /\ Removes(h, g, l, n, c, k)
  <2>1. CASE k = 1 /\ k = n
    <3>1. g = Cut([h EXCEPT !.NbrEntries[l] = 0, !.HeadPtr[l] = Null, !.TailPtr[l] = Null])
      BY <1>4, <2>1 DEF Unlink
    <3>2. g \in ListsOf(Names)
      BY <1>1, <1>3, UnlinkTyped
    <3>3. /\ g.NbrEntries = [h.NbrEntries EXCEPT ![l] = 0]
          /\ g.HeadPtr = [h.HeadPtr EXCEPT ![l] = Null] /\ g.TailPtr = [h.TailPtr EXCEPT ![l] = Null]
      BY <1>1, <3>1 DEF ListsOf
    <3>4. ASSUME NEW u \in Tasks
          PROVE  /\ g.NextPtr[u] = IF u = t THEN Null ELSE h.NextPtr[u]
                 /\ g.PrevPtr[u] = IF u = t THEN Null ELSE h.PrevPtr[u]
      BY <1>1, <1>3, <3>1 DEF ListsOf
    <3>5. Removes(h, g, l, n, c, k)
      <4>1. n = 1 /\ n - 1 = 0 /\ ~(k < n) /\ ~(k > 1)
        BY <1>2, <2>1
      <4> HIDE DEF g
      <4> QED BY <1>1, <2>1, <3>3, <3>4, <4>1 DEF ListsOf, Removes
    <3> QED BY <3>2, <3>5
  <2>2. CASE k = 1 /\ k # n
    <3>1. g = Cut([h EXCEPT !.NbrEntries[l] = @ - 1, !.PrevPtr[c[k + 1]] = Null, !.HeadPtr[l] = c[k + 1]])
      BY <1>3, <1>4, <1>5, <2>2 DEF Unlink
    <3>2. g \in ListsOf(Names)
      BY <1>1, <1>3, UnlinkTyped
    <3>3. /\ g.NbrEntries = [h.NbrEntries EXCEPT ![l] = n - 1]
          /\ g.HeadPtr = [h.HeadPtr EXCEPT ![l] = c[2]] /\ g.TailPtr = h.TailPtr
      BY <1>1, <1>2, <2>2, <3>1 DEF ListsOf
    <3>4. ASSUME NEW u \in Tasks
          PROVE  /\ g.NextPtr[u] = IF u = t THEN Null ELSE h.NextPtr[u]
                 /\ g.PrevPtr[u] = IF u = t \/ u = c[k + 1] THEN Null ELSE h.PrevPtr[u]
      BY <1>1, <1>3, <1>5, <2>2, <3>1 DEF ListsOf
    <3>5. Removes(h, g, l, n, c, k)
      <4> HIDE DEF g
      <4> QED BY <1>1, <1>2, <1>3, <1>5, <2>2, <3>3, <3>4 DEF ListsOf, Removes
    <3> QED BY <3>2, <3>5
  <2>3. CASE k # 1 /\ k = n
    <3>1. g = Cut([h EXCEPT !.NbrEntries[l] = @ - 1, !.NextPtr[c[k - 1]] = Null, !.TailPtr[l] = c[k - 1]])
      BY <1>3, <1>4, <1>5, <2>3 DEF Unlink
    <3>2. g \in ListsOf(Names)
      BY <1>1, <1>3, UnlinkTyped
    <3>3. /\ g.NbrEntries = [h.NbrEntries EXCEPT ![l] = n - 1]
          /\ g.TailPtr = [h.TailPtr EXCEPT ![l] = c[n - 1]] /\ g.HeadPtr = h.HeadPtr
      BY <1>1, <1>2, <2>3, <3>1 DEF ListsOf
    <3>4. ASSUME NEW u \in Tasks
          PROVE  /\ g.NextPtr[u] = IF u = t \/ u = c[k - 1] THEN Null ELSE h.NextPtr[u]
                 /\ g.PrevPtr[u] = IF u = t THEN Null ELSE h.PrevPtr[u]
      BY <1>1, <1>3, <1>5, <2>3, <3>1 DEF ListsOf
    <3>5. Removes(h, g, l, n, c, k)
      <4> HIDE DEF g
      <4> QED BY <1>1, <1>2, <1>3, <1>5, <2>3, <3>3, <3>4 DEF ListsOf, Removes
    <3> QED BY <3>2, <3>5
  <2>4. CASE k # 1 /\ k # n
    <3>1. g = Cut([h EXCEPT !.NbrEntries[l] = @ - 1, !.NextPtr[c[k - 1]] = c[k + 1],
                            !.PrevPtr[c[k + 1]] = c[k - 1]])
      BY <1>3, <1>4, <1>5, <2>4 DEF Unlink
    <3>2. g \in ListsOf(Names)
      BY <1>1, <1>3, UnlinkTyped
    <3>3. /\ g.NbrEntries = [h.NbrEntries EXCEPT ![l] = n - 1]
          /\ g.TailPtr = h.TailPtr /\ g.HeadPtr = h.HeadPtr
      BY <1>1, <1>2, <3>1 DEF ListsOf
    <3>4. ASSUME NEW u \in Tasks
          PROVE  /\ g.NextPtr[u] = IF u = t THEN Null ELSE IF u = c[k - 1] THEN c[k + 1] ELSE h.NextPtr[u]
                 /\ g.PrevPtr[u] = IF u = t THEN Null ELSE IF u = c[k + 1] THEN c[k - 1] ELSE h.PrevPtr[u]
      BY <1>1, <1>3, <1>5, <2>4, <3>1 DEF ListsOf
    <3>5. Removes(h, g, l, n, c, k)
      <4> HIDE DEF g
      <4> QED BY <1>1, <1>2, <1>3, <1>5, <2>4, <3>3, <3>4 DEF ListsOf, Removes
    <3> QED BY <3>2, <3>5
  <2> QED BY <2>1, <2>2, <2>3, <2>4
<1> HIDE DEF g
<1>8. Leaves(h, g, Names, l, k)
  BY <1>3, <1>7, Left DEF c, n
<1> QED BY <1>8 DEF c, g

\* The search and linking of OS_PendListInsertPrio and OS_TickListInsert
\* (InsertBeforeFirst) put a task behind the ones it passes and before the first
\* one it does not, and the list stays linked both ways.
THEOREM OrderedEnters ==
  ASSUME NEW Names, NEW h, Good(h, Names), NEW l \in Names,
         NEW t \in Tasks, \A m \in Names : t \notin Members(h, m), NEW passed
  PROVE  \E k \in 1 .. Len(Chain(h, l)) + 1 :
            /\ Enters(h, InsertBeforeFirst(h, l, t, passed), Names, l, t, k)
            /\ \A i \in 1 .. Len(Chain(h, l)) : i < k => Chain(h, l)[i] \in passed
            /\ k <= Len(Chain(h, l)) => Chain(h, l)[k] \notin passed
<1> DEFINE c == Chain(h, l)
           n == Len(c)
           later == {i \in DOMAIN c : c[i] \notin passed}
           first == CHOOSE i \in later : \A j \in later : i <= j
<1>1. n \in Nat /\ c \in [1 .. n -> Tasks] /\ DOMAIN c = 1 .. n
  BY GoodChain
<1>2. InsertBeforeFirst(h, l, t, passed) = IF later = {} THEN InsertTail(h, l, t) ELSE InsertBefore(h, l, t, c[first])
  BY DEF InsertBeforeFirst
<1> HIDE DEF c
<1>3. CASE later = {}
  <2>1. Enters(h, InsertBeforeFirst(h, l, t, passed), Names, l, t, n + 1)
    <3>1. InsertBeforeFirst(h, l, t, passed) = InsertTail(h, l, t)
      BY <1>2, <1>3
    <3> QED BY <3>1, TailEnters DEF c
  <2>2. \A i \in 1 .. n : c[i] \in passed
    BY <1>1, <1>3
  <2>3. n + 1 \in 1 .. n + 1 /\ ~(n + 1 <= n)
    BY <1>1
  <2> QED BY <2>1, <2>2, <2>3 DEF c
<1>4. CASE later # {}
  <2>1. later \in SUBSET Nat
    BY <1>1
  <2>2. \E i \in later : \A j \in later : i <= j
    <3> HIDE DEF later
    <3> QED BY <1>4, <2>1, LeastNumber
  <2>3. first \in later /\ \A j \in later : first <= j
    <3> HIDE DEF later
    <3> QED BY <2>2
  <2> HIDE DEF first
  <2>4. first \in 1 .. n /\ c[first] \notin passed
    BY <1>1, <2>3
  <2>5. \A i \in 1 .. n : i < first => c[i] \in passed
    <3> SUFFICES ASSUME NEW i \in 1 .. n, i < first, c[i] \notin passed PROVE FALSE
      OBVIOUS
    <3>1. i \in later
      BY <1>1
    <3> QED BY <1>1, <2>3, <2>4, <3>1
  <2>6. Enters(h, InsertBeforeFirst(h, l, t, passed), Names, l, t, first)
    <3>1. InsertBeforeFirst(h, l, t, passed) = InsertBefore(h, l, t, c[first])
      BY <1>2, <1>4
    <3> QED BY <2>4, <3>1, BeforeEnters DEF c
  <2>7. first \in 1 .. n + 1
    BY <1>1, <2>4
  <2> QED BY <2>4, <2>5, <2>6, <2>7 DEF c
<1> QED BY <1>3, <1>4

\* MoveHeadToTail keeps every list well linked, with the tasks it had.
LEMMA HeadMoves ==
  ASSUME NEW Names, NEW h, Good(h, Names), NEW l \in Names
  PROVE  /\ Good(MoveHeadToTail(h, l), Names)
         /\ \A m \in Names : /\ Members(MoveHeadToTail(h, l), m) = Members(h, m)
                             /\ MoveHeadToTail(h, l).NbrEntries[m] = h.NbrEntries[m]
<1> DEFINE c == Chain(h, l)
           n == Len(c)
           g == MoveHeadToTail(h, l)
           d == [i \in 1 .. n |-> IF i = n THEN c[1] ELSE c[i + 1]]
<1>1. Spells(h, l, n, c) /\ h \in ListsOf(Names)
  BY DEF Good
<1>2. /\ n \in Nat /\ c \in [1 .. n -> Tasks] /\ h.NbrEntries[l] = n /\ Members(h, l) = {c[i] : i \in 1 .. n}
      /\ \A i, j \in 1 .. n : c[i] = c[j] => i = j
  BY GoodChain
<1> HIDE DEF c, n
<1>3. CASE n \in {0, 1}
  <2>1. g = h
    BY <1>2, <1>3 DEF MoveHeadToTail
  <2> HIDE DEF g
  <2>2. Good(g, Names) /\ \A m \in Names : Members(g, m) = Members(h, m) /\ g.NbrEntries[m] = h.NbrEntries[m]
    BY <2>1
  <2> QED BY <2>2 DEF g
<1>4. CASE n \notin {0, 1}
  <2>1. /\ n > 1 /\ 1 \in 1 .. n /\ 2 \in 1 .. n /\ n \in 1 .. n /\ c[1] \in Tasks /\ c[2] \in Tasks /\ c[n] \in Tasks
        /\ c[1] # c[2] /\ c[1] # c[n]
    BY <1>2, <1>4
  <2>2. h.HeadPtr[l] = c[1] /\ h.TailPtr[l] = c[n] /\ h.NextPtr[c[1]] = c[2]
    BY <1>1, <2>1 DEF Spells
  <2>3. g \in ListsOf(Names)
    BY <1>1, <1>2, <2>1, <2>2, MoveTyped
  <2>4. /\ g.NbrEntries = h.NbrEntries
        /\ g.HeadPtr = [h.HeadPtr EXCEPT ![l] = c[2]]
        /\ g.TailPtr = [h.TailPtr EXCEPT ![l] = c[1]]
        /\ \A u \in Tasks :
              /\ g.NextPtr[u] = IF u = c[1] THEN Null ELSE IF u = c[n] THEN c[1] ELSE h.NextPtr[u]
              /\ g.PrevPtr[u] = IF u = c[1] THEN c[n] ELSE IF u = c[2] THEN Null ELSE h.PrevPtr[u]
    <3>1. CASE n = 2
      <4>1. g = [h EXCEPT !.PrevPtr[c[1]] = c[2], !.NextPtr[c[1]] = Null,
                          !.PrevPtr[c[2]] = Null, !.NextPtr[c[2]] = c[1],
                          !.HeadPtr[l] = c[2], !.TailPtr[l] = c[1]]
        BY <1>2, <2>2, <3>1 DEF MoveHeadToTail
      <4>2. g.NbrEntries = h.NbrEntries /\ g.HeadPtr = [h.HeadPtr EXCEPT ![l] = c[2]]
            /\ g.TailPtr = [h.TailPtr EXCEPT ![l] = c[1]]
        BY <1>1, <4>1 DEF ListsOf
      <4>3. ASSUME NEW u \in Tasks
            PROVE  /\ g.NextPtr[u] = IF u = c[1] THEN Null ELSE IF u = c[n] THEN c[1] ELSE h.NextPtr[u]
                   /\ g.PrevPtr[u] = IF u = c[1] THEN c[n] ELSE IF u = c[2] THEN Null ELSE h.PrevPtr[u]
        BY <1>1, <2>1, <3>1, <4>1 DEF ListsOf
      <4> QED BY <4>2, <4>3
    <3>2. CASE n # 2
      <4>1. g = [h EXCEPT !.PrevPtr[c[2]] = Null, !.NextPtr[c[1]] = Null,
                          !.PrevPtr[c[1]] = c[n], !.NextPtr[c[n]] = c[1],
                          !.HeadPtr[l] = c[2], !.TailPtr[l] = c[1]]
        <5>1. ~(h.NbrEntries[l] \in {0, 1}) /\ ~(h.NbrEntries[l] = 2)
          BY <1>2, <1>4, <3>2
        <5>2. h.NextPtr[h.HeadPtr[l]] = c[2]
          BY <2>2
        <5>3. g = [h EXCEPT !.PrevPtr[h.NextPtr[h.HeadPtr[l]]] = Null, !.NextPtr[h.HeadPtr[l]] = Null,
                     !.PrevPtr[h.HeadPtr[l]] = h.TailPtr[l], !.NextPtr[h.TailPtr[l]] = h.HeadPtr[l],
                     !.HeadPtr[l] = h.NextPtr[h.HeadPtr[l]], !.TailPtr[l] = h.HeadPtr[l]]
          BY <5>1, MoveOfMany
        <5> HIDE DEF g
        <5> QED BY <2>2, <5>2, <5>3, Zenon
      <4>2. g.NbrEntries = h.NbrEntries /\ g.HeadPtr = [h.HeadPtr EXCEPT ![l] = c[2]]
            /\ g.TailPtr = [h.TailPtr EXCEPT ![l] = c[1]]
        BY <1>1, <4>1 DEF ListsOf
      <4>3. ASSUME NEW u \in Tasks
            PROVE  /\ g.NextPtr[u] = IF u = c[1] THEN Null ELSE IF u = c[n] THEN c[1] ELSE h.NextPtr[u]
                   /\ g.PrevPtr[u] = IF u = c[1] THEN c[n] ELSE IF u = c[2] THEN Null ELSE h.PrevPtr[u]
        BY <1>1, <2>1, <4>1 DEF ListsOf
      <4> QED BY <4>2, <4>3
    <3> QED BY <3>1, <3>2
  <2> HIDE DEF g
  <2>5. d \in [1 .. n -> Tasks] /\ \A i \in 1 .. n : d[i] = IF i = n THEN c[1] ELSE c[i + 1]
    BY <1>2, <2>1
  <2> HIDE DEF d
  <2>6. Spells(g, l, n, d)
    <3>1. ASSUME NEW i \in 1 .. n, NEW j \in 1 .. n, d[i] = d[j] PROVE i = j
      BY <1>2, <2>1, <2>5, <3>1
    <3>2. g.NbrEntries[l] = n
      BY <1>2, <2>4
    <3>3. g.HeadPtr[l] = d[1] /\ g.TailPtr[l] = d[n]
      BY <1>1, <2>1, <2>4, <2>5 DEF ListsOf
    <3>4. ASSUME NEW i \in 1 .. n
          PROVE  /\ g.NextPtr[d[i]] = IF i = n THEN Null ELSE d[i + 1]
                 /\ g.PrevPtr[d[i]] = IF i = 1 THEN Null ELSE d[i - 1]
      <4>1. CASE i = n
        <5>1. d[i] = c[1] /\ n # 1 /\ n - 1 \in 1 .. n /\ d[n - 1] = c[n]
          BY <1>2, <2>1, <2>5, <4>1
        <5> QED BY <2>1, <2>4, <4>1, <5>1
      <4>2. CASE i # n
        <5>1. d[i] = c[i + 1] /\ i + 1 \in 1 .. n /\ c[i + 1] # c[1]
          BY <1>2, <2>1, <2>5, <4>2
        <5>2. (c[i + 1] = c[n] <=> i + 1 = n) /\ (c[i + 1] = c[2] <=> i = 1)
          BY <1>2, <2>1, <5>1
        <5>3. h.NextPtr[c[i + 1]] = IF i + 1 = n THEN Null ELSE c[i + 1 + 1]
          BY <1>1, <5>1 DEF Spells
        <5>4. h.PrevPtr[c[i + 1]] = IF i + 1 = 1 THEN Null ELSE c[i + 1 - 1]
          BY <1>1, <5>1 DEF Spells
        <5>5. c[i + 1] \in Tasks
          BY <1>2, <5>1
        <5>6. g.NextPtr[d[i]] = IF i + 1 = n THEN c[1] ELSE c[i + 1 + 1]
          BY <2>4, <5>1, <5>2, <5>3, <5>5
        <5>7. g.PrevPtr[d[i]] = IF i = 1 THEN Null ELSE c[i + 1 - 1]
          BY <1>2, <2>4, <5>1, <5>2, <5>4, <5>5
        <5>8. d[i + 1] = IF i + 1 = n THEN c[1] ELSE c[i + 1 + 1]
          BY <2>5, <5>1
        <5>9. i # 1 => d[i - 1] = c[i + 1 - 1]
          BY <1>2, <2>5, <4>2
        <5> QED BY <4>2, <5>6, <5>7, <5>8, <5>9
      <4> QED BY <4>1, <4>2
    <3>5. n # 0
      BY <2>1
    <3> QED BY <1>2, <2>5, <3>1, <3>2, <3>3, <3>4, <3>5 DEF Spells
  <2>7. \A i \in 1 .. n : d[i] = c[1] \/ d[i] \in Members(h, l)
    BY <1>2, <2>1, <2>5
  <2>8. c[1] \in Members(h, l)
    BY <1>2, <2>1
  <2>9. \A m \in Names \ {l} : /\ c[1] \notin Members(h, m)
                               /\ g.NbrEntries[m] = h.NbrEntries[m]
                               /\ g.HeadPtr[m] = h.HeadPtr[m] /\ g.TailPtr[m] = h.TailPtr[m]
    <3>1. \A m \in Names \ {l} : c[1] \notin Members(h, m)
      BY <2>1, <2>8 DEF Good
    <3> QED BY <1>1, <2>4, <3>1 DEF ListsOf
  <2>10. \A u \in Tasks : u # c[1] /\ u \notin Members(h, l)
                             => g.NextPtr[u] = h.NextPtr[u] /\ g.PrevPtr[u] = h.PrevPtr[u]
    BY <1>2, <2>1, <2>4
  <2>11. /\ Good(g, Names) /\ Members(g, l) = {d[i] : i \in 1 .. n}
         /\ \A m \in Names \ {l} : Chain(g, m) = Chain(h, m)
    BY <2>1, <2>3, <2>6, <2>7, <2>9, <2>10, Exchanged
  <2>12. {d[i] : i \in 1 .. n} = Members(h, l)
    <3>1. ASSUME NEW i \in 1 .. n PROVE \E j \in 1 .. n : d[j] = c[i]
      <4>1. CASE i = 1
        BY <2>1, <2>5, <4>1
      <4>2. CASE i # 1
        <5>1. i - 1 \in 1 .. n /\ d[i - 1] = c[i]
          BY <1>2, <2>5, <4>2
        <5> QED BY <5>1
      <4> QED BY <4>1, <4>2
    <3>2. \A i \in 1 .. n : d[i] \in Members(h, l)
      BY <2>7, <2>8
    <3>3. ASSUME NEW u \in Members(h, l) PROVE \E j \in 1 .. n : d[j] = u
      <4>1. PICK i \in 1 .. n : u = c[i]
        BY <1>2
      <4> QED BY <3>1, <4>1
    <3> QED BY <3>2, <3>3
  <2>13. \A m \in Names : Members(g, m) = Members(h, m)
    BY <2>11, <2>12 DEF Members
  <2>14. \A m \in Names : g.NbrEntries[m] = h.NbrEntries[m]
    BY <2>4
  <2>15. Good(g, Names) /\ \A m \in Names : Members(g, m) = Members(h, m) /\ g.NbrEntries[m] = h.NbrEntries[m]
    BY <2>11, <2>13, <2>14
  <2> QED BY <2>15 DEF g
<1> QED BY <1>3, <1>4

-----------------------------------------------------------------------------
\* Tasks, their places and their order.

\* A list of tasks in ascending order of their ranks.
Ascending(c, n, rank) == \A i, j \in 1 .. n : i < j => rank[c[i]] <= rank[c[j]]

\* A family of lists holds each task in the list that is its place, and no
\* other task, in ascending order.
Placed(h, Names, place, rank) ==
    /\ Good(h, Names)
    /\ \A l \in Names : /\ Members(h, l) = {t \in Tasks : place[t] = l}
                        /\ Ascending(Chain(h, l), Len(Chain(h, l)), rank)

\* An ordered list with a task in its place.
LEMMA AscendingWith ==
  ASSUME NEW n \in Nat, NEW c \in [1 .. n -> Tasks], NEW k \in 1 .. n + 1, NEW t \in Tasks,
         NEW rank \in [Tasks -> Int], NEW new \in [Tasks -> Int],
         \A i \in 1 .. n : new[c[i]] = rank[c[i]], Ascending(c, n, rank),
         \A i \in 1 .. n : i < k => rank[c[i]] <= new[t],
         k <= n => new[t] <= rank[c[k]]
  PROVE  Ascending(With(c, n, k, t), n + 1, new)
<1> DEFINE d == With(c, n, k, t)
<1>1. \A i \in 1 .. n + 1 : d[i] = IF i < k THEN c[i] ELSE IF i = k THEN t ELSE c[i - 1]
  BY DEF With
<1> HIDE DEF d
<1>2. \A i, j \in 1 .. n : i <= j => rank[c[i]] <= rank[c[j]]
  <2> TAKE i, j \in 1 .. n
  <2>1. rank[c[i]] \in Int /\ rank[c[j]] \in Int
    OBVIOUS
  <2>2. i < j \/ i >= j
    OBVIOUS
  <2> QED BY <2>1, <2>2 DEF Ascending
<1>3. \A i \in 1 .. n : k <= i => new[t] <= rank[c[i]]
  <2> SUFFICES ASSUME NEW i \in 1 .. n, k <= i PROVE new[t] <= rank[c[i]]
    OBVIOUS
  <2>1. k \in 1 .. n /\ rank[c[k]] \in Int /\ rank[c[i]] \in Int /\ new[t] \in Int
    OBVIOUS
  <2>2. new[t] <= rank[c[k]] /\ rank[c[k]] <= rank[c[i]]
    BY <1>2, <2>1
  <2> QED BY <2>1, <2>2
<1>4. ASSUME NEW i \in 1 .. n + 1, NEW j \in 1 .. n + 1, i < j PROVE new[d[i]] <= new[d[j]]
  <2>1. CASE j < k
    <3>1. i \in 1 .. n /\ j \in 1 .. n /\ d[i] = c[i] /\ d[j] = c[j]
      BY <1>1, <1>4, <2>1
    <3> QED BY <1>2, <1>4, <3>1
  <2>2. CASE j = k
    <3>1. i \in 1 .. n /\ i < k /\ d[i] = c[i] /\ d[j] = t
      BY <1>1, <1>4, <2>2
    <3> QED BY <3>1
  <2>3. CASE j > k
    <3>1. j - 1 \in 1 .. n /\ d[j] = c[j - 1]
      BY <1>1, <2>3
    <3>2. CASE i < k
      <4>1. i \in 1 .. n /\ d[i] = c[i] /\ i <= j - 1
        BY <1>1, <1>4, <2>3, <3>2
      <4> QED BY <1>2, <3>1, <4>1
    <3>3. CASE i = k
      <4>1. d[i] = t /\ k <= j - 1
        BY <1>1, <1>4, <3>3
      <4> QED BY <1>3, <3>1, <4>1
    <3>4. CASE i > k
      <4>1. i - 1 \in 1 .. n /\ d[i] = c[i - 1] /\ i - 1 <= j - 1
        BY <1>1, <1>4, <3>4
      <4> QED BY <1>2, <3>1, <4>1
    <3> QED BY <3>2, <3>3, <3>4
  <2> QED BY <2>1, <2>2, <2>3
<1> QED BY <1>4 DEF Ascending, d

\* An ordered list without one of its tasks.
LEMMA AscendingWithout ==
  ASSUME NEW n \in Nat, NEW c \in [1 .. n -> Tasks], NEW k \in 1 .. n,
         NEW rank \in [Tasks -> Int], Ascending(c, n, rank)
  PROVE  Ascending(Without(c, n, k), n - 1, rank)
<1> DEFINE d == Without(c, n, k)
<1>1. \A i \in 1 .. n - 1 : d[i] = IF i < k THEN c[i] ELSE c[i + 1]
  BY DEF Without
<1> HIDE DEF d
<1>2. ASSUME NEW i \in 1 .. n - 1, NEW j \in 1 .. n - 1, i < j PROVE rank[d[i]] <= rank[d[j]]
  <2>1. \E x, y \in 1 .. n : d[i] = c[x] /\ d[j] = c[y] /\ x < y
    <3>1. CASE j < k
      <4>1. d[i] = c[i] /\ d[j] = c[j] /\ i \in 1 .. n /\ j \in 1 .. n
        BY <1>1, <1>2, <3>1
      <4> QED BY <1>2, <4>1
    <3>2. CASE j >= k /\ i < k
      <4>1. d[i] = c[i] /\ d[j] = c[j + 1] /\ i \in 1 .. n /\ j + 1 \in 1 .. n /\ i < j + 1
        BY <1>1, <1>2, <3>2
      <4> QED BY <4>1
    <3>3. CASE i >= k
      <4>1. d[i] = c[i + 1] /\ d[j] = c[j + 1] /\ i + 1 \in 1 .. n /\ j + 1 \in 1 .. n /\ i + 1 < j + 1
        BY <1>1, <1>2, <3>3
      <4> QED BY <4>1
    <3> QED BY <3>1, <3>2, <3>3
  <2> QED BY <2>1 DEF Ascending
<1> QED BY <1>2 DEF Ascending, d

\* Whether a task is in its place does not depend on what the fields say when
\* they name no list, nor on how ranks are counted.
LEMMA SamePlaces ==
  ASSUME NEW Names, NEW h, NEW place, NEW rank, Placed(h, Names, place, rank), NEW other, NEW new,
         \A t \in Tasks, l \in Names : place[t] = l <=> other[t] = l,
         \A t, u \in Tasks : place[t] = place[u] /\ place[t] \in Names /\ rank[t] <= rank[u]
                               => new[t] <= new[u]
  PROVE  Placed(h, Names, other, new)
<1> SUFFICES ASSUME NEW l \in Names
             PROVE  /\ Members(h, l) = {t \in Tasks : other[t] = l}
                    /\ Ascending(Chain(h, l), Len(Chain(h, l)), new)
  BY DEF Placed
<1>1. Members(h, l) = {t \in Tasks : place[t] = l} /\ Ascending(Chain(h, l), Len(Chain(h, l)), rank)
  BY DEF Placed
<1>2. Members(h, l) = {t \in Tasks : other[t] = l}
  BY <1>1
<1>3. \A i \in 1 .. Len(Chain(h, l)) : Chain(h, l)[i] \in Tasks /\ place[Chain(h, l)[i]] = l
  <2>1. Good(h, Names)
    BY DEF Placed
  <2>2. Members(h, l) = {Chain(h, l)[i] : i \in 1 .. Len(Chain(h, l))}
    BY <2>1, GoodChain
  <2> QED BY <1>1, <2>2
<1> QED BY <1>1, <1>2, <1>3 DEF Ascending

\* A task leaves its list: it has no place any more.
LEMMA PlacedLeaves ==
  ASSUME NEW Names, NEW h, NEW place, NEW rank \in [Tasks -> Int], Placed(h, Names, place, rank),
         NEW t \in Tasks, place[t] \in Names,
         NEW other, other[t] \notin Names, \A u \in Tasks : u # t => other[u] = place[u]
  PROVE  /\ Placed(Unlink(h, place[t], t), Names, other, rank)
         /\ \A m \in Names \ {place[t]} : Chain(Unlink(h, place[t], t), m) = Chain(h, m)
<1> DEFINE l == place[t]
           c == Chain(h, l)
           n == Len(c)
           g == Unlink(h, l, t)
<1>0. l \in Names /\ Good(h, Names)
  BY DEF Placed
<1>1. /\ n \in Nat /\ c \in [1 .. n -> Tasks] /\ Members(h, l) = {c[i] : i \in 1 .. n}
      /\ Ascending(c, n, rank) /\ Members(h, l) = {u \in Tasks : place[u] = l}
  BY <1>0, GoodChain DEF Placed
<1>2. PICK k \in 1 .. n : c[k] = t
  <2>1. t \in Members(h, l)
    BY <1>1
  <2> HIDE DEF n, c, l
  <2> QED BY <1>1, <2>1
<1>3. Leaves(h, g, Names, l, k)
  <2>1. Leaves(h, Unlink(h, l, Chain(h, l)[k]), Names, l, k)
    <3> HIDE DEF l
    <3> QED BY <1>0, TaskLeaves
  <2> QED BY <1>2, <2>1
<1> HIDE DEF n, c, g, l
<1>4. /\ Good(g, Names) /\ Chain(g, l) = Without(c, n, k) /\ Len(Chain(g, l)) = n - 1
      /\ Members(g, l) = Members(h, l) \ {t} /\ \A m \in Names \ {l} : Chain(g, m) = Chain(h, m)
  BY <1>2, <1>3 DEF Leaves, c, n
<1>5. Ascending(Without(c, n, k), n - 1, rank)
  BY <1>1, AscendingWithout
<1>6. \A m \in Names \ {l} : Members(g, m) = Members(h, m)
  BY <1>4 DEF Members
<1>7. ASSUME NEW m \in Names
      PROVE  /\ Members(g, m) = {u \in Tasks : other[u] = m}
             /\ Ascending(Chain(g, m), Len(Chain(g, m)), rank)
  <2>1. Members(h, m) = {u \in Tasks : place[u] = m} /\ Ascending(Chain(h, m), Len(Chain(h, m)), rank)
    BY DEF Placed
  <2>2. CASE m = l
    BY <1>1, <1>4, <1>5, <2>2
  <2>3. CASE m # l
    <3>1. Members(g, m) = Members(h, m) /\ Chain(g, m) = Chain(h, m) /\ place[t] # m
      BY <1>4, <1>6, <2>3 DEF l
    <3> QED BY <2>1, <3>1
  <2> QED BY <2>2, <2>3
<1>8. Placed(g, Names, other, rank)
  BY <1>4, <1>7 DEF Placed
<1> QED BY <1>4, <1>8 DEF g, l

\* What an insertion does to the places, when its place in the list is right.
LEMMA PlacedEnters ==
  ASSUME NEW Names, NEW h, NEW place, NEW rank \in [Tasks -> Int], Placed(h, Names, place, rank),
         NEW t \in Tasks, place[t] \notin Names, NEW l \in Names, NEW k \in 1 .. Len(Chain(h, l)) + 1,
         NEW g, Enters(h, g, Names, l, t, k),
         NEW other, other[t] = l, \A u \in Tasks : u # t => other[u] = place[u],
         NEW new \in [Tasks -> Int], \A u \in Tasks : u # t => new[u] = rank[u],
         \A i \in 1 .. Len(Chain(h, l)) : i < k => rank[Chain(h, l)[i]] <= new[t],
         k <= Len(Chain(h, l)) => new[t] <= rank[Chain(h, l)[k]]
  PROVE  /\ Placed(g, Names, other, new)
         /\ \A m \in Names \ {l} : Chain(g, m) = Chain(h, m)
<1> DEFINE c == Chain(h, l)
           n == Len(c)
<1>0. Good(h, Names)
  BY DEF Placed
<1>1. /\ n \in Nat /\ c \in [1 .. n -> Tasks] /\ Members(h, l) = {c[i] : i \in 1 .. n}
      /\ Ascending(c, n, rank) /\ Members(h, l) = {u \in Tasks : place[u] = l}
  BY <1>0, GoodChain DEF Placed
<1>2. \A i \in 1 .. n : c[i] # t
  BY <1>1
<1> HIDE DEF n, c
<1>4. /\ Good(g, Names) /\ Chain(g, l) = With(c, n, k, t) /\ Len(Chain(g, l)) = n + 1
      /\ Members(g, l) = Members(h, l) \cup {t} /\ \A m \in Names \ {l} : Chain(g, m) = Chain(h, m)
  BY DEF Enters, c, n
<1>5. Ascending(With(c, n, k, t), n + 1, new)
  <2>1. \A i \in 1 .. n : new[c[i]] = rank[c[i]]
    BY <1>1, <1>2
  <2>2. k \in 1 .. n + 1 /\ (\A i \in 1 .. n : i < k => rank[c[i]] <= new[t])
        /\ (k <= n => new[t] <= rank[c[k]])
    BY DEF c, n
  <2> QED BY <1>1, <2>1, <2>2, AscendingWith
<1>6. \A m \in Names \ {l} : Members(g, m) = Members(h, m)
  BY <1>4 DEF Members
<1>7. ASSUME NEW m \in Names
      PROVE  /\ Members(g, m) = {u \in Tasks : other[u] = m}
             /\ Ascending(Chain(g, m), Len(Chain(g, m)), new)
  <2>1. Members(h, m) = {u \in Tasks : place[u] = m} /\ Ascending(Chain(h, m), Len(Chain(h, m)), rank)
    BY DEF Placed
  <2>2. CASE m = l
    <3>1. Members(g, m) = {u \in Tasks : other[u] = m}
      BY <1>1, <1>4, <2>2
    <3> QED BY <1>4, <1>5, <2>2, <3>1
  <2>3. CASE m # l
    <3>1. Members(g, m) = Members(h, m) /\ Chain(g, m) = Chain(h, m)
      BY <1>4, <1>6, <2>3
    <3>2. Members(g, m) = {u \in Tasks : other[u] = m}
      BY <2>1, <2>3, <3>1
    <3>3. \A i \in 1 .. Len(Chain(h, m)) : Chain(h, m)[i] \in Tasks /\ Chain(h, m)[i] # t
      <4>1. Members(h, m) = {Chain(h, m)[i] : i \in 1 .. Len(Chain(h, m))}
        BY <1>0, GoodChain
      <4> QED BY <2>1, <4>1
    <3>4. Ascending(Chain(h, m), Len(Chain(h, m)), new)
      BY <2>1, <3>3 DEF Ascending
    <3> QED BY <3>1, <3>2, <3>4
  <2> QED BY <2>2, <2>3
<1>8. Placed(g, Names, other, new)
  BY <1>4, <1>7 DEF Placed
<1> QED BY <1>4, <1>8

\* In a list without an order all ranks are the same.
NoOrder == [t \in Tasks |-> 0]

\* A task whose place is no list is in none.
LEMMA NotMember ==
  ASSUME NEW Names, NEW h, NEW place, NEW rank, Placed(h, Names, place, rank),
         NEW t \in Tasks, place[t] \notin Names
  PROVE  \A m \in Names : t \notin Members(h, m)
BY DEF Placed

\* A task goes to its place in an ordered list.
LEMMA PlacedOrdered ==
  ASSUME NEW Names, NEW h, NEW place, NEW rank \in [Tasks -> Int], Placed(h, Names, place, rank),
         NEW t \in Tasks, place[t] \notin Names, NEW l \in Names,
         NEW other, other[t] = l, \A u \in Tasks : u # t => other[u] = place[u],
         NEW new \in [Tasks -> Int], \A u \in Tasks : u # t => new[u] = rank[u],
         NEW passed, \A u \in Tasks : IF u \in passed THEN rank[u] <= new[t] ELSE new[t] <= rank[u]
  PROVE  Placed(InsertBeforeFirst(h, l, t, passed), Names, other, new)
<1>1. Good(h, Names) /\ \A m \in Names : t \notin Members(h, m)
  BY NotMember DEF Placed
<1>2. PICK k \in 1 .. Len(Chain(h, l)) + 1 :
            /\ Enters(h, InsertBeforeFirst(h, l, t, passed), Names, l, t, k)
            /\ \A i \in 1 .. Len(Chain(h, l)) : i < k => Chain(h, l)[i] \in passed
            /\ k <= Len(Chain(h, l)) => Chain(h, l)[k] \notin passed
  <2>1. t \in Tasks /\ l \in Names
    OBVIOUS
  <2> QED BY ONLY <1>1, <2>1, OrderedEnters
<1>3. Len(Chain(h, l)) \in Nat /\ \A i \in 1 .. Len(Chain(h, l)) : Chain(h, l)[i] \in Tasks
  BY <1>1, GoodChain
<1>4. \A i \in 1 .. Len(Chain(h, l)) : i < k => rank[Chain(h, l)[i]] <= new[t]
  BY <1>2, <1>3
<1>5. k <= Len(Chain(h, l)) => new[t] <= rank[Chain(h, l)[k]]
  BY <1>2, <1>3
<1> DEFINE g == InsertBeforeFirst(h, l, t, passed)
<1>6. Enters(h, g, Names, l, t, k)
  BY <1>2
<1> HIDE DEF g
<1>7. Placed(g, Names, other, new)
  BY <1>4, <1>5, <1>6, PlacedEnters, Z3
<1> QED BY <1>7 DEF g

\* A task goes to the end of a list without an order,
LEMMA PlacedAtTail ==
  ASSUME NEW Names, NEW h, NEW place, Placed(h, Names, place, NoOrder),
         NEW t \in Tasks, place[t] \notin Names, NEW l \in Names,
         NEW other, other[t] = l, \A u \in Tasks : u # t => other[u] = place[u]
  PROVE  /\ Placed(InsertTail(h, l, t), Names, other, NoOrder)
         /\ \A m \in Names \ {l} : Chain(InsertTail(h, l, t), m) = Chain(h, m)
<1>1. Good(h, Names) /\ \A m \in Names : t \notin Members(h, m)
  BY NotMember DEF Placed
<1> DEFINE k == Len(Chain(h, l)) + 1
           g == InsertTail(h, l, t)
<1>2. Enters(h, g, Names, l, t, k)
  BY <1>1, TailEnters
<1>3. Len(Chain(h, l)) \in Nat /\ \A i \in 1 .. Len(Chain(h, l)) : Chain(h, l)[i] \in Tasks
  BY <1>1, GoodChain
<1>4. k \in 1 .. Len(Chain(h, l)) + 1
  BY <1>3
<1>5. NoOrder \in [Tasks -> Int] /\ (\A u \in Tasks : NoOrder[u] = 0)
  BY DEF NoOrder
<1>6. /\ \A i \in 1 .. Len(Chain(h, l)) : i < k => NoOrder[Chain(h, l)[i]] <= NoOrder[t]
      /\ k <= Len(Chain(h, l)) => NoOrder[t] <= NoOrder[Chain(h, l)[k]]
  BY <1>3, <1>5
<1> HIDE DEF g, k
<1>7. Placed(g, Names, other, NoOrder) /\ \A m \in Names \ {l} : Chain(g, m) = Chain(h, m)
  BY <1>2, <1>4, <1>5, <1>6, PlacedEnters
<1> QED BY <1>7 DEF g

\* or to its front.
LEMMA PlacedAtHead ==
  ASSUME NEW Names, NEW h, NEW place, Placed(h, Names, place, NoOrder),
         NEW t \in Tasks, place[t] \notin Names, NEW l \in Names,
         NEW other, other[t] = l, \A u \in Tasks : u # t => other[u] = place[u]
  PROVE  /\ Placed(InsertHead(h, l, t), Names, other, NoOrder)
         /\ \A m \in Names \ {l} : Chain(InsertHead(h, l, t), m) = Chain(h, m)
<1>1. Good(h, Names) /\ \A m \in Names : t \notin Members(h, m)
  BY NotMember DEF Placed
<1> DEFINE g == InsertHead(h, l, t)
<1>2. Enters(h, g, Names, l, t, 1)
  BY <1>1, HeadEnters
<1>3. Len(Chain(h, l)) \in Nat /\ \A i \in 1 .. Len(Chain(h, l)) : Chain(h, l)[i] \in Tasks
  BY <1>1, GoodChain
<1>4. 1 \in 1 .. Len(Chain(h, l)) + 1
  BY <1>3
<1>5. NoOrder \in [Tasks -> Int] /\ (\A u \in Tasks : NoOrder[u] = 0)
  BY DEF NoOrder
<1>6. /\ \A i \in 1 .. Len(Chain(h, l)) : i < 1 => NoOrder[Chain(h, l)[i]] <= NoOrder[t]
      /\ 1 <= Len(Chain(h, l)) => NoOrder[t] <= NoOrder[Chain(h, l)[1]]
  BY <1>3, <1>5
<1> HIDE DEF g
<1>7. Placed(g, Names, other, NoOrder) /\ \A m \in Names \ {l} : Chain(g, m) = Chain(h, m)
  BY <1>2, <1>4, <1>5, <1>6, PlacedEnters
<1> QED BY <1>7 DEF g

\* A list is rotated.
LEMMA PlacedMoves ==
  ASSUME NEW Names, NEW h, NEW place, Placed(h, Names, place, NoOrder), NEW l \in Names
  PROVE  Placed(MoveHeadToTail(h, l), Names, place, NoOrder)
<1> DEFINE g == MoveHeadToTail(h, l)
<1>1. Good(h, Names)
  BY DEF Placed
<1>2. Good(g, Names) /\ \A m \in Names : Members(g, m) = Members(h, m)
  BY <1>1, HeadMoves
<1> HIDE DEF g
<1>3. ASSUME NEW m \in Names PROVE Ascending(Chain(g, m), Len(Chain(g, m)), NoOrder)
  <2>1. \A i \in 1 .. Len(Chain(g, m)) : Chain(g, m)[i] \in Tasks
    BY <1>2, GoodChain
  <2> QED BY <2>1 DEF Ascending, NoOrder
<1>4. Placed(g, Names, place, NoOrder)
  BY <1>2, <1>3 DEF Placed
<1> QED BY <1>4 DEF g

\* Empty lists, and no task with a place.
LEMMA EmptyPlaced ==
  ASSUME NEW Names, NEW place, \A t \in Tasks : place[t] \notin Names, NEW rank
  PROVE  Placed(EmptyLists(Names), Names, place, rank)
<1> DEFINE h == EmptyLists(Names)
<1>1. h \in ListsOf(Names)
  BY DEF EmptyLists, ListsOf, Pointers
<1>2. ASSUME NEW l \in Names PROVE Chain(h, l) = <<>> /\ Spells(h, l, 0, <<>>)
  <2>1. Spells(h, l, 0, <<>>)
    BY DEF Spells, EmptyLists
  <2> HIDE DEF h
  <2> QED BY <1>1, <2>1, ChainSpelt
<1> HIDE DEF h
<1>3. Len(<<>>) = 0 /\ DOMAIN <<>> = {} /\ 1 .. 0 = {}
  OBVIOUS
<1>4. \A l \in Names : Members(h, l) = {} /\ Len(Chain(h, l)) = 0
  BY <1>2, <1>3 DEF Members
<1>5. Good(h, Names)
  BY <1>1, <1>2, <1>4 DEF Good
<1>6. \A l \in Names : Ascending(Chain(h, l), Len(Chain(h, l)), rank)
  BY <1>3, <1>4 DEF Ascending
<1>7. Placed(h, Names, place, rank)
  BY <1>4, <1>5, <1>6 DEF Placed
<1> QED BY <1>7 DEF h

\* Different tasks in a row.
Distinct(ts, n) ==
    n \in Nat /\ ts \in [1 .. n -> Tasks] /\ \A i, j \in 1 .. n : ts[i] = ts[j] => i = j

\* The places after the first k tasks of a sequence have gone to theirs.
After(place, to, ts, k) == [u \in Tasks |-> IF \E i \in 1 .. k : ts[i] = u THEN to[u] ELSE place[u]]

\* The k-th task, and no other, goes from its place to its new one.
OneGoes(place, to, ts, k) ==
    /\ After(place, to, ts, k - 1)[ts[k]] = place[ts[k]]
    /\ After(place, to, ts, k)[ts[k]] = to[ts[k]]
    /\ \A u \in Tasks : u # ts[k] => After(place, to, ts, k)[u] = After(place, to, ts, k - 1)[u]

\* Tasks go one at a time when they are different.
LEMMA AfterNext ==
  ASSUME NEW n, NEW ts, Distinct(ts, n),
         NEW place, NEW to, NEW k \in 1 .. n
  PROVE  OneGoes(place, to, ts, k)
<1>0. n \in Nat /\ ts \in [1 .. n -> Tasks] /\ \A i, j \in 1 .. n : ts[i] = ts[j] => i = j
  BY DEF Distinct
<1>1. ts[k] \in Tasks /\ k \in Nat /\ k \in 1 .. k
  BY <1>0
<1>2. ~ \E i \in 1 .. k - 1 : ts[i] = ts[k]
  <2> SUFFICES ASSUME NEW i \in 1 .. k - 1, ts[i] = ts[k] PROVE FALSE
    OBVIOUS
  <2>1. i \in 1 .. n /\ i # k
    BY <1>0
  <2> QED BY <1>0, <2>1
<1>3. After(place, to, ts, k - 1)[ts[k]] = place[ts[k]]
  BY <1>1, <1>2 DEF After
<1>4. After(place, to, ts, k)[ts[k]] = to[ts[k]]
  BY <1>1 DEF After
<1>5. ASSUME NEW u \in Tasks, u # ts[k]
      PROVE  After(place, to, ts, k)[u] = After(place, to, ts, k - 1)[u]
  <2>1. (\E i \in 1 .. k : ts[i] = u) <=> (\E i \in 1 .. k - 1 : ts[i] = u)
    <3>1. \A i \in 1 .. k : i = k \/ i \in 1 .. k - 1
      BY <1>0
    <3>2. \A i \in 1 .. k - 1 : i \in 1 .. k
      BY <1>0
    <3> QED BY <1>5, <3>1, <3>2
  <2> QED BY <2>1 DEF After
<1> QED BY <1>3, <1>4, <1>5 DEF OneGoes

\* No task has gone yet.
LEMMA AfterNone ==
  ASSUME NEW ts, NEW place, NEW to
  PROVE  \A u \in Tasks : After(place, to, ts, 0)[u] = place[u]
BY DEF After

\* Tasks leave their lists one after the other.
LEMMA LeavingOne ==
  ASSUME NEW Names, NEW place, NEW rank \in [Tasks -> Int], NEW to, \A u \in Tasks : to[u] \notin Names,
         NEW n, NEW ts, Distinct(ts, n),
         NEW a, Placed(a[0], Names, place, rank),
         \A k \in 1 .. n : a[k] = IF place[ts[k]] \in Names THEN Unlink(a[k - 1], place[ts[k]], ts[k])
                                  ELSE a[k - 1]
  PROVE  \A k \in 0 .. n : Placed(a[k], Names, After(place, to, ts, k), rank)
<1> DEFINE P(k) == Placed(a[k], Names, After(place, to, ts, k), rank)
           good == {k \in 0 .. n : P(k)}
<1>0. n \in Nat /\ ts \in [1 .. n -> Tasks]
  BY DEF Distinct
<1>1. P(0)
  <2>1. \A u \in Tasks : After(place, to, ts, 0)[u] = place[u]
    BY AfterNone
  <2> QED BY <2>1, SamePlaces
<1>2. ASSUME NEW k \in 1 .. n, P(k - 1) PROVE P(k)
  <2> DEFINE old == After(place, to, ts, k - 1)
             new == After(place, to, ts, k)
  <2>1. /\ old[ts[k]] = place[ts[k]] /\ new[ts[k]] = to[ts[k]]
        /\ \A u \in Tasks : u # ts[k] => new[u] = old[u]
    <3>1. OneGoes(place, to, ts, k)
      BY AfterNext
    <3> QED BY <3>1 DEF OneGoes
  <2>2. ts[k] \in Tasks /\ new[ts[k]] \notin Names /\ Placed(a[k - 1], Names, old, rank)
    BY <1>0, <1>2, <2>1
  <2> HIDE DEF old, new
  <2>3. CASE place[ts[k]] \in Names
    <3>1. a[k] = Unlink(a[k - 1], old[ts[k]], ts[k])
      BY <2>1, <2>3
    <3>2. Placed(Unlink(a[k - 1], old[ts[k]], ts[k]), Names, new, rank)
      BY <2>1, <2>2, <2>3, PlacedLeaves
    <3> QED BY <3>1, <3>2 DEF new
  <2>4. CASE place[ts[k]] \notin Names
    <3>1. a[k] = a[k - 1]
      BY <2>4
    <3>2. \A u \in Tasks, l \in Names : old[u] = l <=> new[u] = l
      BY <2>1, <2>2, <2>4
    <3>3. Placed(a[k - 1], Names, new, rank)
      BY <2>2, <3>2, SamePlaces
    <3> QED BY <3>1, <3>3 DEF new
  <2> QED BY <2>3, <2>4
<1> HIDE DEF P
<1>3. 0 \in good /\ \A k \in 1 .. n : k - 1 \in good => k \in good
  BY <1>0, <1>1, <1>2
<1>4. ASSUME NEW k \in 0 .. n PROVE k \in good
  <2>1. k \in Nat /\ \A j \in 1 .. k : j \in 1 .. n
    BY <1>0
  <2> HIDE DEF good
  <2> QED BY <1>3, <2>1, Counting
<1> QED BY <1>4 DEF P

\* All of them have left.
LEMMA AllLeave ==
  ASSUME NEW Names, NEW place, NEW rank \in [Tasks -> Int], NEW to, \A u \in Tasks : to[u] \notin Names,
         NEW n, NEW ts, Distinct(ts, n),
         NEW a, Placed(a[0], Names, place, rank),
         \A k \in 1 .. n : a[k] = IF place[ts[k]] \in Names THEN Unlink(a[k - 1], place[ts[k]], ts[k])
                                  ELSE a[k - 1]
  PROVE  Placed(a[n], Names, After(place, to, ts, n), rank)
<1>1. \A k \in 0 .. n : Placed(a[k], Names, After(place, to, ts, k), rank)
  BY LeavingOne
<1>2. n \in Nat /\ n \in 0 .. n
  BY DEF Distinct
<1> QED BY <1>1, <1>2

\* A list that is in the order of another one.
InOrderOf(d, c) ==
    \A i, j \in 1 .. Len(d) : i < j => \E x, y \in 1 .. Len(c) : x < y /\ c[x] = d[i] /\ c[y] = d[j]

\* Who leaves a list leaves the others in their order, and every other list as it is.
LEMMA LeavesInOrder ==
  ASSUME NEW Names, NEW place, NEW rank, NEW h, Placed(h, Names, place, rank),
         NEW t \in Tasks, NEW l \in Names, place[t] = l
  PROVE  LET g == Unlink(h, l, t) IN
         /\ InOrderOf(Chain(g, l), Chain(h, l))
         /\ \A m \in Names \ {l} : Chain(g, m) = Chain(h, m)
<1> DEFINE g == Unlink(h, l, t)
           c == Chain(h, l)
           d == Chain(g, l)
           n == Len(c)
<1>1. Good(h, Names) /\ t \in Members(h, l)
  BY DEF Placed
<1>2. n \in Nat /\ Members(h, l) = {c[i] : i \in 1 .. n}
  BY <1>1, GoodChain
<1>3. PICK k \in 1 .. n : c[k] = t
  BY <1>1, <1>2
<1>4. Leaves(h, Unlink(h, l, c[k]), Names, l, k)
  BY <1>1, TaskLeaves
<1>5. /\ d = Without(c, n, k) /\ Len(d) = n - 1
      /\ \A m \in Names \ {l} : Chain(g, m) = Chain(h, m)
  BY <1>3, <1>4 DEF Leaves
<1> HIDE DEF c, d, g
<1>6. \A i \in 1 .. n - 1 : d[i] = IF i < k THEN c[i] ELSE c[i + 1]
  BY <1>5 DEF Without
<1>7. ASSUME NEW i \in 1 .. n - 1, NEW j \in 1 .. n - 1, i < j
      PROVE  \E x, y \in 1 .. n : x < y /\ c[x] = d[i] /\ c[y] = d[j]
  <2> DEFINE x == IF i < k THEN i ELSE i + 1
             y == IF j < k THEN j ELSE j + 1
  <2>1. x \in 1 .. n /\ y \in 1 .. n /\ x < y
    BY <1>2, <1>7
  <2>2. c[x] = d[i] /\ c[y] = d[j]
    BY <1>6
  <2> QED BY <2>1, <2>2
<1> HIDE DEF n
<1>8. InOrderOf(d, c)
  BY <1>5, <1>7 DEF InOrderOf, n
<1> QED BY <1>5, <1>8 DEF c, d, g

\* Tasks leave one after the other, from the lists they are in.
Departures(Names, place, rank, n, ts, a) ==
    /\ Distinct(ts, n) /\ rank \in [Tasks -> Int] /\ Placed(a[0], Names, place, rank)
    /\ \A k \in 1 .. n : a[k] = IF place[ts[k]] \in Names THEN Unlink(a[k - 1], place[ts[k]], ts[k])
                               ELSE a[k - 1]

\* A list is in its order when they have left, and as it was when none of them
\* was in it.
LeftInOrder(place, n, ts, a, l) ==
    /\ InOrderOf(Chain(a[n], l), Chain(a[0], l))
    /\ (\A k \in 1 .. n : place[ts[k]] # l) => Chain(a[n], l) = Chain(a[0], l)

\* It is so for every list.
LEMMA AllLeaveInOrder ==
  ASSUME NEW Names, NEW place, NEW rank, NEW n, NEW ts, NEW a, Departures(Names, place, rank, n, ts, a),
         NEW l \in Names
  PROVE  LeftInOrder(place, n, ts, a, l)
<1> USE DEF Departures
<1> DEFINE P(k) == /\ InOrderOf(Chain(a[k], l), Chain(a[0], l))
                   /\ (\A j \in 1 .. n : place[ts[j]] # l) => Chain(a[k], l) = Chain(a[0], l)
           good == {k \in 0 .. n : P(k)}
<1>0. n \in Nat /\ ts \in [1 .. n -> Tasks]
  BY DEF Distinct
<1>1. P(0)
  BY DEF InOrderOf
<1> DEFINE none == CHOOSE x : x \notin Names
           to == [u \in Tasks |-> none]
<1>5. \A u \in Tasks : to[u] \notin Names
  <2>1. none \notin Names
    BY NoSetContainsEverything
  <2> QED BY <2>1
<1> HIDE DEF to
<1>2. ASSUME NEW k \in 1 .. n, P(k - 1) PROVE P(k)
  <2> DEFINE old == After(place, to, ts, k - 1)
  <2>1. k - 1 \in 0 .. n /\ ts[k] \in Tasks
    BY <1>0
  <2>2. Placed(a[k - 1], Names, old, rank)
    <3>1. \A j \in 0 .. n : Placed(a[j], Names, After(place, to, ts, j), rank)
      BY <1>5, LeavingOne
    <3> QED BY <2>1, <3>1
  <2>3. old[ts[k]] = place[ts[k]]
    <3>1. OneGoes(place, to, ts, k)
      BY AfterNext
    <3> QED BY <3>1 DEF OneGoes
  <2> HIDE DEF old
  <2>4. CASE place[ts[k]] \in Names
    <3> DEFINE m == place[ts[k]]
               g == a[k]
               h == a[k - 1]
    <3>1. g = Unlink(h, m, ts[k]) /\ m \in Names /\ old[ts[k]] = m /\ Placed(h, Names, old, rank)
      BY <2>2, <2>3, <2>4
    <3> HIDE DEF m, g, h
    <3>2. /\ InOrderOf(Chain(g, m), Chain(h, m))
          /\ \A x \in Names \ {m} : Chain(g, x) = Chain(h, x)
      BY <2>1, <3>1, LeavesInOrder
    <3>3. InOrderOf(Chain(h, l), Chain(a[0], l))
      BY <1>2 DEF h
    <3>4. InOrderOf(Chain(g, l), Chain(a[0], l))
      <4>1. CASE m # l
        BY <3>2, <3>3, <4>1
      <4>2. CASE m = l
        BY <3>2, <3>3, <4>2 DEF InOrderOf
      <4> QED BY <4>1, <4>2
    <3>5. (\A j \in 1 .. n : place[ts[j]] # l) => Chain(g, l) = Chain(a[0], l)
      BY <1>2, <3>2 DEF m, h
    <3> QED BY <3>4, <3>5 DEF g
  <2>5. CASE place[ts[k]] \notin Names
    <3>1. a[k] = a[k - 1]
      BY <2>5
    <3> QED BY <1>2, <3>1
  <2> QED BY <2>4, <2>5
<1> HIDE DEF P
<1>3. 0 \in good /\ \A k \in 1 .. n : k - 1 \in good => k \in good
  BY <1>0, <1>1, <1>2
<1>4. n \in good
  <2> HIDE DEF good
  <2> QED BY <1>0, <1>3, Counting
<1> QED BY <1>4 DEF P, LeftInOrder
=============================================================================

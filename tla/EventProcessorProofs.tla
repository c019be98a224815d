------------------------ MODULE EventProcessorProofs ------------------------
(***************************************************************************)
(* The event processor for every number of events and priorities, every    *)
(* delay and every behaviour of the clock: who owns an event, what the     *)
(* deltas add up to, when an event becomes ready and which one is fired.   *)
(*                                                                         *)
(* Offset, the sum of the first deltas, is a recursive function; its       *)
(* equation is proved by induction over the positions of a list            *)
(* (SumExists, OffsetDef).  Who owns an event needs only where the entries *)
(* are, so the lemmas on ownership do not type the deltas.                 *)
(***************************************************************************)
EXTENDS EventProcessor, DataFacts, TLAPS, SequenceTheorems

-----------------------------------------------------------------------------
\* Least and greatest elements.

LEMMA MinInSet ==
  ASSUME NEW S \in SUBSET Nat, S # {}
  PROVE  Min(S) \in S /\ \A y \in S : Min(S) =< y
<1>1. S \in SUBSET Int /\ 0 \in Int /\ \A x \in S : 0 <= x
  OBVIOUS
<1>2. \E x \in S : \A y \in S : x <= y
  BY <1>1, HasLeast, Zenon
<1>. QED
  BY <1>2 DEF Min

LEMMA MaxInSet ==
  ASSUME NEW n \in Nat, NEW S \in SUBSET (0 .. n), S # {}
  PROVE  Max(S) \in S /\ \A y \in S : y =< Max(S)
<1>1. S \in SUBSET Int /\ n \in Int /\ \A x \in S : x <= n
  OBVIOUS
<1>2. \E x \in S : \A y \in S : y <= x
  BY <1>1, HasGreatest, Zenon
<1>. QED
  BY <1>2 DEF Max

-----------------------------------------------------------------------------
\* Lists of entries.

IsList(s) == \E S : s \in Seq(S)

LEMMA ListDomain ==
  ASSUME NEW s, IsList(s)
  PROVE  Len(s) \in Nat /\ DOMAIN s = 1 .. Len(s)
BY LenProperties DEF IsList

\* A function on an initial segment of the positive numbers is a list.
LEMMA FunctionIsList ==
  ASSUME NEW n \in Nat, NEW f, f = [j \in 1 .. n |-> f[j]]
  PROVE  IsList(f) /\ Len(f) = n /\ DOMAIN f = 1 .. n
<1>. DEFINE S == {f[j] : j \in 1 .. n}
<1>1. f \in [1 .. n -> S]
  OBVIOUS
<1>2. f \in Seq(S)
  BY <1>1, SeqDef
<1>3. Len(f) = n
  BY <1>1, <1>2, LenProperties
<1>. QED
  BY <1>1, <1>2, <1>3 DEF IsList

LEMMA PlaceRange ==
  ASSUME NEW evs, IsList(evs), NEW t
  PROVE  Place(evs, t) \in 1 .. Len(evs) + 1
<1>. DEFINE S == {i \in 1 .. Len(evs) : t < Offset(evs, i)} \cup {Len(evs) + 1}
<1>1. Len(evs) \in Nat
  BY ListDomain
<1>2. S \in SUBSET Nat /\ S # {}
  BY <1>1
<1>3. Min(S) \in S
  BY <1>2, MinInSet
<1>. QED
  BY <1>1, <1>3 DEF Place

LEMMA ReadyCountRange ==
  ASSUME NEW evs, IsList(evs), NEW delta
  PROVE  ReadyCount(evs, delta) \in 0 .. Len(evs)
<1>. DEFINE S == {n \in 0 .. Len(evs) : \A i \in 1 .. n : Offset(evs, i) <= delta}
<1>1. Len(evs) \in Nat
  BY ListDomain
<1>2. S \in SUBSET (0 .. Len(evs)) /\ 0 \in S
  BY <1>1
<1>3. Max(S) \in S
  BY <1>1, <1>2, MaxInSet
<1>. QED
  BY <1>3 DEF ReadyCount
\* Which events the operations on lists leave, and in which order.

LEMMA InsertAtList ==
  ASSUME NEW evs, IsList(evs), NEW i \in 1 .. Len(evs) + 1, NEW e, NEW r
  PROVE  LET f == InsertAt(evs, i, e, r)
         IN  /\ IsList(f) /\ Len(f) = Len(evs) + 1 /\ DOMAIN f = 1 .. Len(evs) + 1
             /\ \A j \in 1 .. Len(evs) + 1 :
                  f[j].ev = IF j < i THEN evs[j].ev ELSE IF j = i THEN e ELSE evs[j - 1].ev
<1>. DEFINE f == InsertAt(evs, i, e, r)
<1>1. Len(evs) \in Nat /\ DOMAIN evs = 1 .. Len(evs)
  BY ListDomain
<1>2. IsList(f) /\ Len(f) = Len(evs) + 1 /\ DOMAIN f = 1 .. Len(evs) + 1
  <2>1. Len(evs) + 1 \in Nat
    BY <1>1
  <2>2. f = [j \in 1 .. Len(evs) + 1 |-> f[j]]
    BY DEF InsertAt
  <2>. HIDE DEF f
  <2>. QED
    BY <2>1, <2>2, FunctionIsList
<1>3. ASSUME NEW j \in 1 .. Len(evs) + 1
      PROVE f[j].ev = IF j < i THEN evs[j].ev ELSE IF j = i THEN e ELSE evs[j - 1].ev
  <2>1. CASE j < i
    BY <1>1, <2>1 DEF InsertAt
  <2>2. CASE j = i
    BY <1>1, <2>2 DEF InsertAt, Entry
  <2>3. CASE j = i + 1
    BY <1>1, <2>3 DEF InsertAt, Entry
  <2>4. CASE j > i + 1
    BY <1>1, <2>4 DEF InsertAt
  <2>. QED
    BY <1>1, <2>1, <2>2, <2>3, <2>4
<1>. QED
  BY <1>2, <1>3

LEMMA RemoveAtList ==
  ASSUME NEW evs, IsList(evs), NEW i \in 1 .. Len(evs)
  PROVE  LET f == RemoveAt(evs, i)
         IN  /\ IsList(f) /\ Len(f) = Len(evs) - 1 /\ DOMAIN f = 1 .. Len(evs) - 1
             /\ \A j \in 1 .. Len(evs) - 1 :
                  f[j].ev = IF j < i THEN evs[j].ev ELSE evs[j + 1].ev
<1>. DEFINE f == RemoveAt(evs, i)
<1>1. Len(evs) \in Nat /\ DOMAIN evs = 1 .. Len(evs)
  BY ListDomain
<1>2. IsList(f) /\ Len(f) = Len(evs) - 1 /\ DOMAIN f = 1 .. Len(evs) - 1
  <2>1. Len(evs) - 1 \in Nat
    BY <1>1
  <2>2. f = [j \in 1 .. Len(evs) - 1 |-> f[j]]
    BY DEF RemoveAt
  <2>. HIDE DEF f
  <2>. QED
    BY <2>1, <2>2, FunctionIsList
<1>3. ASSUME NEW j \in 1 .. Len(evs) - 1
      PROVE f[j].ev = IF j < i THEN evs[j].ev ELSE evs[j + 1].ev
  <2>1. CASE j < i
    BY <1>1, <2>1 DEF RemoveAt
  <2>2. CASE j = i
    BY <1>1, <2>2 DEF RemoveAt, Entry
  <2>3. CASE j > i
    BY <1>1, <2>3 DEF RemoveAt
  <2>. QED
    BY <1>1, <2>1, <2>2, <2>3
<1>. QED
  BY <1>2, <1>3

LEMMA RemainingList ==
  ASSUME NEW evs, IsList(evs), NEW n \in 0 .. Len(evs), NEW delta
  PROVE  LET f == Remaining(evs, n, delta)
         IN  /\ IsList(f) /\ Len(f) = Len(evs) - n /\ DOMAIN f = 1 .. Len(evs) - n
             /\ \A j \in 1 .. Len(evs) - n : f[j].ev = evs[n + j].ev
<1>. DEFINE f == Remaining(evs, n, delta)
<1>1. Len(evs) \in Nat /\ DOMAIN evs = 1 .. Len(evs)
  BY ListDomain
<1>2. IsList(f) /\ Len(f) = Len(evs) - n /\ DOMAIN f = 1 .. Len(evs) - n
  <2>1. Len(evs) - n \in Nat
    BY <1>1
  <2>2. f = [j \in 1 .. Len(evs) - n |-> f[j]]
    BY DEF Remaining
  <2>. HIDE DEF f
  <2>. QED
    BY <2>1, <2>2, FunctionIsList
<1>3. ASSUME NEW j \in 1 .. Len(evs) - n
      PROVE f[j].ev = evs[n + j].ev
  <2>1. CASE j = 1
    BY <1>1, <2>1 DEF Remaining, Entry
  <2>2. CASE j # 1
    BY <1>1, <2>2 DEF Remaining
  <2>. QED
    BY <2>1, <2>2
<1>. QED
  BY <1>2, <1>3
-----------------------------------------------------------------------------
\* A list of entries, or a queue of events, that has every event of S once and
\* no other.

Enumerates(evs, S) ==
  /\ IsList(evs)
  /\ \A i \in DOMAIN evs : evs[i].ev \in S
  /\ \A i, j \in DOMAIN evs : evs[i].ev = evs[j].ev => i = j
  /\ \A e \in S : \E i \in DOMAIN evs : evs[i].ev = e

Holds(q, S) ==
  /\ IsList(q)
  /\ \A i \in DOMAIN q : q[i] \in S
  /\ \A i, j \in DOMAIN q : q[i] = q[j] => i = j
  /\ \A e \in S : \E i \in DOMAIN q : q[i] = e

LEMMA EmptyLists == Enumerates(<< >>, {}) /\ Holds(<< >>, {})
<1>1. IsList(<< >>) /\ DOMAIN << >> = {}
  BY FunctionIsList, ListDomain DEF IsList
<1>. QED
  BY <1>1 DEF Enumerates, Holds

LEMMA InsertEnumerates ==
  ASSUME NEW evs, NEW S, Enumerates(evs, S), NEW e, e \notin S, NEW t
  PROVE  Enumerates(insert(evs, e, t), S \cup {e})
<1>. DEFINE i == Place(evs, t)
            f == insert(evs, e, t)
<1>1. IsList(evs) /\ Len(evs) \in Nat /\ DOMAIN evs = 1 .. Len(evs)
  BY ListDomain DEF Enumerates
<1>2. i \in 1 .. Len(evs) + 1
  BY <1>1, PlaceRange
<1>3. /\ IsList(f) /\ DOMAIN f = 1 .. Len(evs) + 1
      /\ \A j \in 1 .. Len(evs) + 1 :
           f[j].ev = IF j < i THEN evs[j].ev ELSE IF j = i THEN e ELSE evs[j - 1].ev
  BY <1>1, <1>2, InsertAtList DEF insert
<1>4. /\ \A j \in 1 .. Len(evs) : evs[j].ev \in S
      /\ \A j, k \in 1 .. Len(evs) : evs[j].ev = evs[k].ev => j = k
      /\ \A d \in S : \E j \in 1 .. Len(evs) : evs[j].ev = d
  BY <1>1 DEF Enumerates
<1>. HIDE DEF f, i
<1>5. \A j \in DOMAIN f : f[j].ev \in S \cup {e}
  BY <1>1, <1>2, <1>3, <1>4
<1>6. \A j, k \in DOMAIN f : f[j].ev = f[k].ev => j = k
  BY <1>1, <1>2, <1>3, <1>4
<1>7. ASSUME NEW d \in S \cup {e} PROVE \E j \in DOMAIN f : f[j].ev = d
  <2>1. CASE d = e
    BY <1>1, <1>2, <1>3, <2>1
  <2>2. CASE d # e
    <3>1. PICK j \in 1 .. Len(evs) : evs[j].ev = d
      BY <1>4, <2>2
    <3>2. CASE j < i
      BY <1>1, <1>2, <1>3, <3>1, <3>2
    <3>3. CASE ~(j < i)
      <4>1. j + 1 \in 1 .. Len(evs) + 1 /\ ~(j + 1 < i) /\ j + 1 # i /\ (j + 1) - 1 = j
        BY <1>1, <1>2, <3>3
      <4>2. f[j + 1].ev = d
        BY <1>3, <3>1, <4>1
      <4>. QED
        BY <1>3, <4>1, <4>2
    <3>. QED
      BY <3>2, <3>3
  <2>. QED
    BY <2>1, <2>2
<1>. QED
  BY <1>3, <1>5, <1>6, <1>7 DEF Enumerates, f

LEMMA RemoveEnumerates ==
  ASSUME NEW evs, NEW S, Enumerates(evs, S), NEW i \in DOMAIN evs
  PROVE  Enumerates(RemoveAt(evs, i), S \ {evs[i].ev})
<1>. DEFINE f == RemoveAt(evs, i)
<1>1. IsList(evs) /\ Len(evs) \in Nat /\ DOMAIN evs = 1 .. Len(evs)
  BY ListDomain DEF Enumerates
<1>2. /\ IsList(f) /\ DOMAIN f = 1 .. Len(evs) - 1
      /\ \A j \in 1 .. Len(evs) - 1 : f[j].ev = IF j < i THEN evs[j].ev ELSE evs[j + 1].ev
  BY <1>1, RemoveAtList
<1>3. /\ \A j \in 1 .. Len(evs) : evs[j].ev \in S
      /\ \A j, k \in 1 .. Len(evs) : evs[j].ev = evs[k].ev => j = k
      /\ \A d \in S : \E j \in 1 .. Len(evs) : evs[j].ev = d
  BY <1>1 DEF Enumerates
<1>. HIDE DEF f
<1>4. ASSUME NEW j \in DOMAIN f PROVE f[j].ev \in S \ {evs[i].ev}
  <2>1. CASE j < i
    <3>1. j \in 1 .. Len(evs) /\ j # i /\ f[j].ev = evs[j].ev
      BY <1>1, <1>2, <2>1
    <3>. QED
      BY <1>1, <1>3, <3>1
  <2>2. CASE ~(j < i)
    <3>1. j + 1 \in 1 .. Len(evs) /\ j + 1 # i /\ f[j].ev = evs[j + 1].ev
      BY <1>1, <1>2, <2>2
    <3>. QED
      BY <1>1, <1>3, <3>1
  <2>. QED
    BY <2>1, <2>2
<1>5. ASSUME NEW j \in DOMAIN f, NEW k \in DOMAIN f, f[j].ev = f[k].ev
      PROVE  j = k
  <2>. DEFINE Old(x) == IF x < i THEN x ELSE x + 1
  <2>1. Old(j) \in 1 .. Len(evs) /\ Old(k) \in 1 .. Len(evs)
    BY <1>1, <1>2
  <2>2. f[j].ev = evs[Old(j)].ev /\ f[k].ev = evs[Old(k)].ev
    BY <1>1, <1>2
  <2>3. Old(j) = Old(k)
    BY <1>3, <1>5, <2>1, <2>2
  <2>. QED
    BY <1>1, <1>2, <2>3
<1>6. ASSUME NEW d \in S \ {evs[i].ev} PROVE \E j \in DOMAIN f : f[j].ev = d
  <2>1. PICK j \in 1 .. Len(evs) : evs[j].ev = d
    BY <1>3
  <2>2. CASE j < i
    BY <1>1, <1>2, <2>1, <2>2
  <2>3. CASE j > i
    <3>1. j - 1 \in 1 .. Len(evs) - 1 /\ ~(j - 1 < i) /\ (j - 1) + 1 = j
      BY <1>1, <2>3
    <3>2. f[j - 1].ev = d
      BY <1>2, <2>1, <3>1
    <3>. QED
      BY <1>2, <3>1, <3>2
  <2>. QED
    BY <1>1, <2>1, <2>2, <2>3
<1>. QED
  BY <1>2, <1>4, <1>5, <1>6 DEF Enumerates, f

LEMMA RemainingEnumerates ==
  ASSUME NEW evs, NEW S, Enumerates(evs, S), NEW n \in 0 .. Len(evs), NEW delta
  PROVE  LET R == {evs[j].ev : j \in 1 .. n}
         IN  /\ R \subseteq S
             /\ Enumerates(Remaining(evs, n, delta), S \ R)
             /\ Holds(ReadyEvents(evs, n), R)
<1>. DEFINE f == Remaining(evs, n, delta)
            q == ReadyEvents(evs, n)
            R == {evs[j].ev : j \in 1 .. n}
<1>1. IsList(evs) /\ Len(evs) \in Nat /\ DOMAIN evs = 1 .. Len(evs)
  BY ListDomain DEF Enumerates
<1>2. /\ IsList(f) /\ DOMAIN f = 1 .. Len(evs) - n
      /\ \A j \in 1 .. Len(evs) - n : f[j].ev = evs[n + j].ev
  BY <1>1, RemainingList
<1>3. /\ \A j \in 1 .. Len(evs) : evs[j].ev \in S
      /\ \A j, k \in 1 .. Len(evs) : evs[j].ev = evs[k].ev => j = k
      /\ \A d \in S : \E j \in 1 .. Len(evs) : evs[j].ev = d
  BY <1>1 DEF Enumerates
<1>4. /\ IsList(q) /\ DOMAIN q = 1 .. n
      /\ \A j \in 1 .. n : q[j] = evs[j].ev
  <2>1. n \in Nat /\ q = [j \in 1 .. n |-> q[j]]
    BY <1>1 DEF ReadyEvents
  <2>2. \A j \in 1 .. n : q[j] = evs[j].ev
    BY DEF ReadyEvents
  <2>. HIDE DEF q
  <2>. QED
    BY <2>1, <2>2, FunctionIsList
<1>. HIDE DEF f, q
<1>5. R \subseteq S
  BY <1>1, <1>3
<1>6. \A j \in DOMAIN f : f[j].ev \in S \ R
  <2>. SUFFICES ASSUME NEW j \in DOMAIN f PROVE f[j].ev \in S \ R
    OBVIOUS
  <2>1. n + j \in 1 .. Len(evs) /\ f[j].ev = evs[n + j].ev
    BY <1>1, <1>2
  <2>2. \A k \in 1 .. n : k \in 1 .. Len(evs) /\ k # n + j
    BY <1>1, <1>2
  <2>. QED
    BY <1>3, <2>1, <2>2
<1>7. \A j, k \in DOMAIN f : f[j].ev = f[k].ev => j = k
  BY <1>1, <1>2, <1>3
<1>8. ASSUME NEW d \in S \ R PROVE \E j \in DOMAIN f : f[j].ev = d
  <2>1. PICK j \in 1 .. Len(evs) : evs[j].ev = d
    BY <1>3
  <2>2. ~(j \in 1 .. n)
    BY <2>1
  <2>3. j - n \in 1 .. Len(evs) - n /\ n + (j - n) = j
    BY <1>1, <2>2
  <2>. QED
    BY <1>2, <2>1, <2>3
<1>9. Enumerates(f, S \ R)
  BY <1>2, <1>6, <1>7, <1>8 DEF Enumerates
<1>10. Holds(q, R)
  <2>1. \A j \in 1 .. n : j \in 1 .. Len(evs)
    BY <1>1
  <2>. QED
    BY <1>3, <1>4, <2>1 DEF Holds
<1>. QED
  BY <1>5, <1>9, <1>10 DEF f, q

LEMMA TailHolds ==
  ASSUME NEW q, NEW S, q \in Seq(S), Holds(q, S), q # << >>
  PROVE  /\ Head(q) \in S
         /\ Tail(q) \in Seq(S)
         /\ Holds(Tail(q), S \ {Head(q)})
<1>1. /\ Len(q) \in Nat /\ DOMAIN q = 1 .. Len(q) /\ Len(q) # 0
  BY LenProperties, EmptySeq
<1>2. /\ Head(q) = q[1] /\ Head(q) \in S /\ Tail(q) \in Seq(S)
      /\ Len(Tail(q)) = Len(q) - 1
      /\ \A j \in 1 .. Len(q) - 1 : Tail(q)[j] = q[j + 1]
  BY <1>1, HeadTailProperties
<1>3. DOMAIN Tail(q) = 1 .. Len(q) - 1
  BY <1>2, LenProperties
<1>4. /\ \A j \in 1 .. Len(q) : q[j] \in S
      /\ \A j, k \in 1 .. Len(q) : q[j] = q[k] => j = k
      /\ \A d \in S : \E j \in 1 .. Len(q) : q[j] = d
  BY <1>1 DEF Holds
<1>5. \A j \in 1 .. Len(q) - 1 : j + 1 \in 1 .. Len(q) /\ j + 1 # 1
  BY <1>1
<1>6. \A j \in DOMAIN Tail(q) : Tail(q)[j] \in S \ {Head(q)}
  BY <1>1, <1>2, <1>3, <1>4, <1>5
<1>7. \A j, k \in DOMAIN Tail(q) : Tail(q)[j] = Tail(q)[k] => j = k
  BY <1>1, <1>2, <1>3, <1>4, <1>5
<1>8. ASSUME NEW d \in S \ {Head(q)} PROVE \E j \in DOMAIN Tail(q) : Tail(q)[j] = d
  <2>1. PICK j \in 1 .. Len(q) : q[j] = d
    BY <1>4
  <2>2. j - 1 \in 1 .. Len(q) - 1 /\ (j - 1) + 1 = j
    BY <1>1, <1>2, <2>1
  <2>. QED
    BY <1>2, <1>3, <2>1, <2>2
<1>. QED
  BY <1>2, <1>6, <1>7, <1>8 DEF Holds, IsList
-----------------------------------------------------------------------------
\* The inductive invariant: every delta timer enumerates the pending events of its
\* priority, every run queue the ready ones, and the worker has the firing one.

Waiting(st, pr, p) == {e \in Events : st[e] = "pending" /\ pr[e] = p}
Runnable(st, pr, p) == {e \in Events : st[e] = "ready" /\ pr[e] = p}

WellFormed ==
  /\ DOMAIN m_events = Priority
  /\ DOMAIN run_queue = Priority
  /\ status \in [Events -> Status]
  /\ prio \in [Events -> Priority]
  /\ level \in Priority

TimersOwn == \A p \in Priority : Enumerates(m_events[p], Waiting(status, prio, p))
QueuesOwn == \A p \in Priority : Holds(run_queue[p], Runnable(status, prio, p))
WorkerOwns ==
  /\ \A e \in Events : status[e] = "firing" => pc = "fire" /\ serving = e
  /\ pc = "fire" => serving \in Events /\ status[serving] = "firing"

OwnInv == WellFormed /\ TimersOwn /\ QueuesOwn /\ WorkerOwns

LEMMA OwnInvSingleOwner == OwnInv => SingleOwner
<1>. SUFFICES ASSUME OwnInv PROVE SingleOwner
  OBVIOUS
<1>1. ASSUME NEW p \in Priority, NEW i \in DOMAIN m_events[p]
      PROVE  /\ status[m_events[p][i].ev] = "pending" /\ prio[m_events[p][i].ev] = p
             /\ \A j \in DOMAIN m_events[p] : m_events[p][j].ev = m_events[p][i].ev => i = j
  BY DEF OwnInv, TimersOwn, Enumerates, Waiting
<1>2. ASSUME NEW p \in Priority, NEW i \in DOMAIN run_queue[p]
      PROVE  /\ status[run_queue[p][i]] = "ready" /\ prio[run_queue[p][i]] = p
             /\ \A j \in DOMAIN run_queue[p] : run_queue[p][j] = run_queue[p][i] => i = j
  BY DEF OwnInv, QueuesOwn, Holds, Runnable
<1>3. ASSUME NEW e \in Events
      PROVE  /\ status[e] = "pending" => \E i \in DOMAIN m_events[prio[e]] : m_events[prio[e]][i].ev = e
             /\ status[e] = "ready" => \E i \in DOMAIN run_queue[prio[e]] : run_queue[prio[e]][i] = e
             /\ status[e] = "firing" => pc = "fire" /\ serving = e
  <2>1. prio[e] \in Priority
    BY DEF OwnInv, WellFormed
  <2>2. CASE status[e] = "pending"
    BY <2>1, <2>2 DEF OwnInv, TimersOwn, Enumerates, Waiting
  <2>3. CASE status[e] = "ready"
    BY <2>1, <2>3 DEF OwnInv, QueuesOwn, Holds, Runnable
  <2>4. status[e] = "firing" => pc = "fire" /\ serving = e
    BY DEF OwnInv, WorkerOwns
  <2>. QED
    BY <2>2, <2>3, <2>4
<1>4. pc = "fire" => serving \in Events /\ status[serving] = "firing"
  BY DEF OwnInv, WorkerOwns
<1>. QED
  BY <1>1, <1>2, <1>3, <1>4 DEF SingleOwner

LEMMA InitOwn == Init => OwnInv
<1>. SUFFICES ASSUME Init PROVE OwnInv
  OBVIOUS
<1>1. 1 \in Priority
  BY LowestAssumption DEF Priority
<1>2. WellFormed
  BY <1>1 DEF Init, WellFormed, Status
<1>3. \A p \in Priority : Waiting(status, prio, p) = {} /\ Runnable(status, prio, p) = {}
  BY DEF Init, Waiting, Runnable
<1>4. TimersOwn /\ QueuesOwn
  BY <1>3, EmptyLists DEF Init, TimersOwn, QueuesOwn
<1>5. WorkerOwns
  BY DEF Init, WorkerOwns
<1>. QED
  BY <1>2, <1>4, <1>5 DEF OwnInv

\* A step that touches neither the lists and queues nor the events' status, and
\* neither starts nor ends the firing of an event, keeps the invariant.
LEMMA QuietStep ==
  ASSUME OwnInv, level' \in Priority, pc' = "fire" <=> pc = "fire",
         UNCHANGED <<m_events, run_queue, status, prio, serving>>
  PROVE  OwnInv'
<1>1. WellFormed'
  BY DEF OwnInv, WellFormed
<1>2. TimersOwn' /\ QueuesOwn'
  BY DEF OwnInv, TimersOwn, QueuesOwn
<1>3. WorkerOwns'
  BY DEF OwnInv, WorkerOwns
<1>. QED
  BY <1>1, <1>2, <1>3 DEF OwnInv

LEMMA AddEventStep ==
  ASSUME OwnInv, NEW e \in Events, NEW t \in Delays, NEW p \in Priority,
         add_event(e, t, p)
  PROVE  OwnInv'
<1>1. /\ status[e] = "new"
      /\ m_events' = [m_events EXCEPT ![p] = insert(m_events[p], e, t)]
      /\ status' = [status EXCEPT ![e] = "pending"]
      /\ prio' = [prio EXCEPT ![e] = p]
      /\ UNCHANGED <<run_queue, pc, level, serving>>
  BY DEF add_event, worker
<1>2. WellFormed'
  BY <1>1 DEF OwnInv, WellFormed, Status
<1>3. TimersOwn'
  <2>. SUFFICES ASSUME NEW q \in Priority
       PROVE  Enumerates(m_events'[q], Waiting(status', prio', q))
    BY DEF TimersOwn
  <2>1. CASE q = p
    <3>1. Waiting(status', prio', p) = Waiting(status, prio, p) \cup {e}
      BY <1>1 DEF OwnInv, WellFormed, Waiting
    <3>2. m_events'[p] = insert(m_events[p], e, t)
      BY <1>1 DEF OwnInv, WellFormed
    <3>3. e \notin Waiting(status, prio, p)
      BY <1>1 DEF Waiting
    <3>4. Enumerates(m_events[p], Waiting(status, prio, p))
      BY DEF OwnInv, TimersOwn
    <3>. QED
      BY <2>1, <3>1, <3>2, <3>3, <3>4, InsertEnumerates
  <2>2. CASE q # p
    <3>1. Waiting(status', prio', q) = Waiting(status, prio, q)
      BY <1>1, <2>2 DEF OwnInv, WellFormed, Waiting
    <3>2. m_events'[q] = m_events[q]
      BY <1>1, <2>2 DEF OwnInv, WellFormed
    <3>. QED
      BY <3>1, <3>2 DEF OwnInv, TimersOwn
  <2>. QED
    BY <2>1, <2>2
<1>4. QueuesOwn'
  <2>1. \A q \in Priority : Runnable(status', prio', q) = Runnable(status, prio, q)
    BY <1>1 DEF OwnInv, WellFormed, Runnable
  <2>. QED
    BY <1>1, <2>1 DEF OwnInv, QueuesOwn
<1>5. WorkerOwns'
  BY <1>1 DEF OwnInv, WellFormed, WorkerOwns
<1>. QED
  BY <1>2, <1>3, <1>4, <1>5 DEF OwnInv

LEMMA CancelEventStep ==
  ASSUME OwnInv, NEW e \in Events, NEW p \in Priority, cancel_event(e, p)
  PROVE  OwnInv'
<1>. DEFINE k == Min(Positions(m_events[p], e))
<1>1. /\ Positions(m_events[p], e) # {}
      /\ m_events' = [m_events EXCEPT ![p] = RemoveAt(m_events[p], k)]
      /\ status' = [status EXCEPT ![e] = "cancelled"]
      /\ prio' = [prio EXCEPT ![e] = 1]
      /\ UNCHANGED <<run_queue, pc, level, serving>>
  BY DEF cancel_event, worker
<1>2. k \in DOMAIN m_events[p] /\ m_events[p][k].ev = e
  <2>1. IsList(m_events[p])
    BY DEF OwnInv, TimersOwn, Enumerates
  <2>2. DOMAIN m_events[p] = 1 .. Len(m_events[p]) /\ Len(m_events[p]) \in Nat
    BY <2>1, ListDomain
  <2>3. Positions(m_events[p], e) \in SUBSET Nat
    BY <2>2 DEF Positions
  <2>4. k \in Positions(m_events[p], e)
    BY <1>1, <2>3, MinInSet
  <2>. QED
    BY <2>2, <2>4 DEF Positions
<1>. HIDE DEF k
<1>3. status[e] = "pending" /\ prio[e] = p
  BY <1>2 DEF OwnInv, TimersOwn, Enumerates, Waiting
<1>4. WellFormed'
  <2>1. 1 \in Priority
    BY LowestAssumption DEF Priority
  <2>. QED
    BY <1>1, <2>1 DEF OwnInv, WellFormed, Status
<1>5. TimersOwn'
  <2>. SUFFICES ASSUME NEW q \in Priority
       PROVE  Enumerates(m_events'[q], Waiting(status', prio', q))
    BY DEF TimersOwn
  <2>1. CASE q = p
    <3>1. Waiting(status', prio', p) = Waiting(status, prio, p) \ {e}
      BY <1>1 DEF OwnInv, WellFormed, Waiting
    <3>2. m_events'[p] = RemoveAt(m_events[p], k)
      BY <1>1 DEF OwnInv, WellFormed
    <3>3. Enumerates(m_events[p], Waiting(status, prio, p))
      BY DEF OwnInv, TimersOwn
    <3>. QED
      BY <1>2, <2>1, <3>1, <3>2, <3>3, RemoveEnumerates
  <2>2. CASE q # p
    <3>1. Waiting(status', prio', q) = Waiting(status, prio, q)
      BY <1>1, <1>3, <2>2 DEF OwnInv, WellFormed, Waiting
    <3>2. m_events'[q] = m_events[q]
      BY <1>1, <2>2 DEF OwnInv, WellFormed
    <3>. QED
      BY <3>1, <3>2 DEF OwnInv, TimersOwn
  <2>. QED
    BY <2>1, <2>2
<1>6. QueuesOwn'
  <2>1. \A q \in Priority : Runnable(status', prio', q) = Runnable(status, prio, q)
    BY <1>1, <1>3 DEF OwnInv, WellFormed, Runnable
  <2>. QED
    BY <1>1, <2>1 DEF OwnInv, QueuesOwn
<1>7. WorkerOwns'
  BY <1>1, <1>3 DEF OwnInv, WellFormed, WorkerOwns
<1>. QED
  BY <1>4, <1>5, <1>6, <1>7 DEF OwnInv

LEMMA CancelAllStep ==
  ASSUME OwnInv, cancel_all_events
  PROVE  OwnInv'
<1>1. /\ m_events' = [p \in Priority |-> << >>]
      /\ status' = [e \in Events |-> IF InTimer(e) THEN "cancelled" ELSE status[e]]
      /\ prio' = [e \in Events |-> IF InTimer(e) THEN 1 ELSE prio[e]]
      /\ UNCHANGED <<run_queue, pc, level, serving>>
  BY DEF cancel_all_events, worker
<1>2. \A e \in Events : InTimer(e) <=> status[e] = "pending"
  <2>. SUFFICES ASSUME NEW e \in Events PROVE InTimer(e) <=> status[e] = "pending"
    OBVIOUS
  <2>1. \A p \in Priority : DOMAIN m_events[p] = 1 .. Len(m_events[p])
    BY ListDomain DEF OwnInv, TimersOwn, Enumerates
  <2>2. InTimer(e) <=> \E p \in Priority : \E i \in DOMAIN m_events[p] : m_events[p][i].ev = e
    BY <2>1 DEF InTimer, Positions
  <2>3. InTimer(e) => status[e] = "pending"
    BY <2>2 DEF OwnInv, TimersOwn, Enumerates, Waiting
  <2>4. status[e] = "pending" => InTimer(e)
    BY <2>2 DEF OwnInv, WellFormed, TimersOwn, Enumerates, Waiting
  <2>. QED
    BY <2>3, <2>4
<1>3. WellFormed'
  <2>1. 1 \in Priority
    BY LowestAssumption DEF Priority
  <2>. QED
    BY <1>1, <2>1 DEF OwnInv, WellFormed, Status
<1>4. TimersOwn'
  <2>1. \A q \in Priority : Waiting(status', prio', q) = {} /\ m_events'[q] = << >>
    BY <1>1, <1>2 DEF Waiting
  <2>. QED
    BY <2>1, EmptyLists DEF TimersOwn
<1>5. QueuesOwn'
  <2>1. \A q \in Priority : Runnable(status', prio', q) = Runnable(status, prio, q)
    BY <1>1, <1>2 DEF Runnable
  <2>. QED
    BY <1>1, <2>1 DEF OwnInv, QueuesOwn
<1>6. WorkerOwns'
  BY <1>1, <1>2 DEF OwnInv, WorkerOwns
<1>. QED
  BY <1>3, <1>4, <1>5, <1>6 DEF OwnInv

LEMMA EventsAvailableStep ==
  ASSUME OwnInv, EventsAvailable
  PROVE  OwnInv'
<1>. DEFINE p == level
            delta == Delta(now, m_last_run[p])
            n == ReadyCount(m_events[p], delta)
            R == {m_events[p][j].ev : j \in 1 .. n}
<1>0. p \in Priority /\ level' \in Priority
  <2>1. level \in Priority
    BY DEF OwnInv, WellFormed
  <2>2. level' = level \/ (level < Lowest /\ level' = level + 1)
    BY DEF EventsAvailable
  <2>. QED
    BY <2>1, <2>2, LowestAssumption DEF Priority
<1>1. pc = "check" /\ pc' \in {"serve", "check", "drift"} /\ UNCHANGED <<serving, prio>>
  BY DEF EventsAvailable
<1>2. CASE run_queue[p] # << >>
  <2>1. UNCHANGED <<m_events, run_queue, status>>
    BY <1>2 DEF EventsAvailable, queues
  <2>. QED
    BY <1>0, <1>1, <2>1, QuietStep
<1>3. CASE run_queue[p] = << >>
  <2>1. /\ run_queue' = [run_queue EXCEPT ![p] = ReadyEvents(m_events[p], n)]
        /\ m_events' = [m_events EXCEPT ![p] = Remaining(m_events[p], n, delta)]
        /\ status' = [e \in Events |-> IF \E i \in 1 .. n : m_events[p][i].ev = e
                                       THEN "ready" ELSE status[e]]
    BY <1>3 DEF EventsAvailable
  <2>2. Enumerates(m_events[p], Waiting(status, prio, p))
    BY <1>0 DEF OwnInv, TimersOwn
  <2>3. n \in 0 .. Len(m_events[p])
    BY <2>2, ReadyCountRange DEF Enumerates
  <2>. HIDE DEF n, delta
  <2>4. /\ R \subseteq Waiting(status, prio, p)
        /\ Enumerates(Remaining(m_events[p], n, delta), Waiting(status, prio, p) \ R)
        /\ Holds(ReadyEvents(m_events[p], n), R)
    BY <2>2, <2>3, RemainingEnumerates
  <2>5. status' = [e \in Events |-> IF e \in R THEN "ready" ELSE status[e]]
    BY <2>1
  <2>. HIDE DEF R
  <2>6. Runnable(status, prio, p) = {}
    BY <1>0, <1>3, EmptyLists DEF OwnInv, QueuesOwn, Holds
  <2>7. \A e \in R : e \in Events /\ status[e] = "pending" /\ prio[e] = p
    BY <2>4 DEF Waiting
  <2>8. WellFormed'
    BY <1>0, <1>1, <2>1, <2>5 DEF OwnInv, WellFormed, Status
  <2>9. TimersOwn'
    <3>. SUFFICES ASSUME NEW q \in Priority
         PROVE  Enumerates(m_events'[q], Waiting(status', prio', q))
      BY DEF TimersOwn
    <3>1. CASE q = p
      <4>1. Waiting(status', prio', p) = Waiting(status, prio, p) \ R
        BY <1>1, <2>5 DEF Waiting
      <4>2. m_events'[p] = Remaining(m_events[p], n, delta)
        BY <1>0, <2>1 DEF OwnInv, WellFormed
      <4>. QED
        BY <2>4, <3>1, <4>1, <4>2
    <3>2. CASE q # p
      <4>1. Waiting(status', prio', q) = Waiting(status, prio, q)
        BY <1>1, <2>5, <2>7, <3>2 DEF Waiting
      <4>2. m_events'[q] = m_events[q]
        BY <2>1, <3>2 DEF OwnInv, WellFormed
      <4>. QED
        BY <4>1, <4>2 DEF OwnInv, TimersOwn
    <3>. QED
      BY <3>1, <3>2
  <2>10. QueuesOwn'
    <3>. SUFFICES ASSUME NEW q \in Priority
         PROVE  Holds(run_queue'[q], Runnable(status', prio', q))
      BY DEF QueuesOwn
    <3>1. CASE q = p
      <4>1. Runnable(status', prio', p) = R
        BY <1>1, <2>5, <2>6, <2>7 DEF Runnable
      <4>2. run_queue'[p] = ReadyEvents(m_events[p], n)
        BY <1>0, <2>1 DEF OwnInv, WellFormed
      <4>. QED
        BY <2>4, <3>1, <4>1, <4>2
    <3>2. CASE q # p
      <4>1. Runnable(status', prio', q) = Runnable(status, prio, q)
        BY <1>1, <2>5, <2>7, <3>2 DEF Runnable
      <4>2. run_queue'[q] = run_queue[q]
        BY <2>1, <3>2 DEF OwnInv, WellFormed
      <4>. QED
        BY <4>1, <4>2 DEF OwnInv, QueuesOwn
    <3>. QED
      BY <3>1, <3>2
  <2>11. WorkerOwns'
    BY <1>1, <2>5, <2>7 DEF OwnInv, WorkerOwns
  <2>. QED
    BY <2>8, <2>9, <2>10, <2>11 DEF OwnInv
<1>. QED
  BY <1>2, <1>3

LEMMA ServeEventStep ==
  ASSUME OwnInv, NEW p \in Priority, ServeEvent(p)
  PROVE  OwnInv'
<1>. DEFINE q == run_queue[p]
            h == Head(q)
            S == Runnable(status, prio, p)
<1>1. /\ pc = "serve" /\ pc' = "fire"
      /\ q # << >>
      /\ serving' = h
      /\ run_queue' = [run_queue EXCEPT ![p] = Tail(q)]
      /\ status' = [status EXCEPT ![h] = "firing"]
      /\ UNCHANGED <<m_events, level, prio>>
  BY DEF ServeEvent
<1>2. Holds(q, S)
  BY DEF OwnInv, QueuesOwn
<1>3. q \in Seq(S)
  <2>1. IsList(q) /\ \A i \in DOMAIN q : q[i] \in S
    BY <1>2 DEF Holds
  <2>2. PICK T : q \in Seq(T)
    BY <2>1 DEF IsList
  <2>3. Len(q) \in Nat /\ q \in [1 .. Len(q) -> S]
    BY <2>1, <2>2, LenProperties
  <2>. QED
    BY <2>3, SeqDef
<1>. HIDE DEF q
<1>4. h \in S /\ Holds(Tail(q), S \ {h})
  BY <1>1, <1>2, <1>3, TailHolds
<1>. HIDE DEF h
<1>5. h \in Events /\ status[h] = "ready" /\ prio[h] = p
  BY <1>4 DEF Runnable
<1>6. WellFormed'
  BY <1>1 DEF OwnInv, WellFormed, Status
<1>7. TimersOwn'
  <2>1. \A r \in Priority : Waiting(status', prio', r) = Waiting(status, prio, r)
    BY <1>1, <1>5 DEF OwnInv, WellFormed, Waiting
  <2>. QED
    BY <1>1, <2>1 DEF OwnInv, TimersOwn
<1>8. QueuesOwn'
  <2>. SUFFICES ASSUME NEW r \in Priority
       PROVE  Holds(run_queue'[r], Runnable(status', prio', r))
    BY DEF QueuesOwn
  <2>1. CASE r = p
    <3>1. Runnable(status', prio', p) = S \ {h}
      BY <1>1, <1>5 DEF OwnInv, WellFormed, Runnable
    <3>2. run_queue'[p] = Tail(q)
      BY <1>1 DEF OwnInv, WellFormed
    <3>. QED
      BY <1>4, <2>1, <3>1, <3>2
  <2>2. CASE r # p
    <3>1. Runnable(status', prio', r) = Runnable(status, prio, r)
      BY <1>1, <1>5, <2>2 DEF OwnInv, WellFormed, Runnable
    <3>2. run_queue'[r] = run_queue[r]
      BY <1>1, <2>2 DEF OwnInv, WellFormed
    <3>. QED
      BY <3>1, <3>2 DEF OwnInv, QueuesOwn
  <2>. QED
    BY <2>1, <2>2
<1>9. WorkerOwns'
  BY <1>1, <1>5 DEF OwnInv, WellFormed, WorkerOwns
<1>. QED
  BY <1>6, <1>7, <1>8, <1>9 DEF OwnInv

LEMMA EventFiredStep ==
  ASSUME OwnInv, EventFired
  PROVE  OwnInv'
<1>1. /\ pc = "fire" /\ pc' = "check" /\ level' = 1
      /\ status' = [status EXCEPT ![serving] = "fired"]
      /\ prio' = [prio EXCEPT ![serving] = 1]
      /\ UNCHANGED <<m_events, run_queue>>
  BY DEF EventFired, queues
<1>2. serving \in Events /\ status[serving] = "firing"
  BY <1>1 DEF OwnInv, WorkerOwns
<1>3. WellFormed'
  <2>1. 1 \in Priority
    BY LowestAssumption DEF Priority
  <2>. QED
    BY <1>1, <2>1 DEF OwnInv, WellFormed, Status
<1>4. TimersOwn'
  <2>1. \A r \in Priority : Waiting(status', prio', r) = Waiting(status, prio, r)
    BY <1>1, <1>2 DEF OwnInv, WellFormed, Waiting
  <2>. QED
    BY <1>1, <2>1 DEF OwnInv, TimersOwn
<1>5. QueuesOwn'
  <2>1. \A r \in Priority : Runnable(status', prio', r) = Runnable(status, prio, r)
    BY <1>1, <1>2 DEF OwnInv, WellFormed, Runnable
  <2>. QED
    BY <1>1, <2>1 DEF OwnInv, QueuesOwn
<1>6. WorkerOwns'
  BY <1>1, <1>2 DEF OwnInv, WellFormed, WorkerOwns
<1>. QED
  BY <1>3, <1>4, <1>5, <1>6 DEF OwnInv

LEMMA NextOwn == OwnInv /\ [Next]_vars => OwnInv'
<1>. SUFFICES ASSUME OwnInv, [Next]_vars PROVE OwnInv'
  OBVIOUS
<1>0. level \in Priority /\ 1 \in Priority
  BY LowestAssumption DEF OwnInv, WellFormed, Priority
<1>1. ASSUME Tick PROVE OwnInv'
  BY <1>0, <1>1, QuietStep DEF Tick, queues, worker, ghosts
<1>2. ASSUME NEW t \in Resets, SetTime(t) PROVE OwnInv'
  BY <1>0, <1>2, QuietStep DEF SetTime, queues, worker, ghosts
<1>3. ASSUME NEW d \in Drifts, SetDrift(d) PROVE OwnInv'
  BY <1>0, <1>3, QuietStep DEF SetDrift, queues, worker, ghosts
<1>4. ASSUME NEW b \in BOOLEAN, set_observer(b) PROVE OwnInv'
  BY <1>0, <1>4, QuietStep DEF set_observer, queues, worker, ghosts
<1>5. ASSUME stop PROVE OwnInv'
  BY <1>0, <1>5, QuietStep DEF stop, queues, worker, ghosts
<1>6. ASSUME Wake PROVE OwnInv'
  BY <1>0, <1>6, QuietStep DEF Wake, queues, ghosts
<1>7. ASSUME LockRedraw PROVE OwnInv'
  BY <1>0, <1>7, QuietStep DEF LockRedraw, queues, ghosts
<1>8. ASSUME Relock PROVE OwnInv'
  BY <1>0, <1>8, QuietStep DEF Relock, queues, ghosts
<1>9. ASSUME GetDrift PROVE OwnInv'
  BY <1>0, <1>9, QuietStep DEF GetDrift, queues, ghosts
<1>10. ASSUME Skew PROVE OwnInv'
  BY <1>0, <1>10, QuietStep DEF Skew, queues, ghosts
<1>11. ASSUME UnlockRedraw PROVE OwnInv'
  BY <1>0, <1>11, QuietStep DEF UnlockRedraw, queues, ghosts
<1>12. ASSUME UNCHANGED vars PROVE OwnInv'
  BY <1>0, <1>12, QuietStep DEF vars, queues, worker, ghosts
<1>. QED
  BY <1>1, <1>2, <1>3, <1>4, <1>5, <1>6, <1>7, <1>8, <1>9, <1>10, <1>11, <1>12,
     AddEventStep, CancelEventStep, CancelAllStep, EventsAvailableStep,
     ServeEventStep, EventFiredStep
     DEF Next, Worker, Clients, Clock

\* Every event that add_event() took over is in exactly one place until the worker
\* has fired it or a cancel deleted it: no event is deleted twice and none is lost,
\* for every set of events and delays, every number of priorities and every clock.
THEOREM SingleOwnership == Spec => []SingleOwner
<1>1. Spec => []OwnInv
  BY InitOwn, NextOwn, PTL DEF Spec
<1>. QED
  BY <1>1, OwnInvSingleOwner, PTL

-----------------------------------------------------------------------------
\* Nothing is left to run when the worker sleeps or ends.

\* The queues that _events_available() has passed are empty, and all are from the
\* moment it found nothing until the next turn.
RunInv ==
  /\ DOMAIN run_queue = Priority
  /\ level \in Priority
  /\ pc = "check" => \A q \in Priority : q < level => run_queue[q] = << >>
  /\ pc \in {"drift", "skew", "unlock_redraw", "wait", "lock_redraw", "relock", "done", "broken"}
       => \A q \in Priority : run_queue[q] = << >>

LEMMA RunInit == Init => RunInv
<1>1. 1 \in Priority
  BY LowestAssumption DEF Priority
<1>. QED
  BY <1>1 DEF Init, RunInv

LEMMA RunChecked ==
  ASSUME RunInv, EventsAvailable
  PROVE  RunInv'
<1>1. level \in Priority /\ DOMAIN run_queue = Priority
  BY DEF RunInv
<1>2. \A q \in Priority : q # level => run_queue'[q] = run_queue[q]
  <2>1. \E s : run_queue' = [run_queue EXCEPT ![level] = s] \/ run_queue' = run_queue
    BY DEF EventsAvailable, queues
  <2>. QED
    BY <1>1, <2>1
<1>3. DOMAIN run_queue' = Priority
  <2>1. \E s : run_queue' = [run_queue EXCEPT ![level] = s] \/ run_queue' = run_queue
    BY DEF EventsAvailable, queues
  <2>. QED
    BY <1>1, <2>1
<1>4. \A q \in Priority : q < level => run_queue[q] = << >>
  BY DEF RunInv, EventsAvailable
<1>5. \A q \in Priority : q < level => run_queue'[q] = << >>
  <2>1. \A q \in Priority : q < level => q # level
    BY <1>1 DEF Priority
  <2>. QED
    BY <1>2, <1>4, <2>1
<1>6. CASE run_queue'[level] # << >> /\ pc' = "serve" /\ level' = level
  BY <1>1, <1>3, <1>6 DEF RunInv
<1>7. CASE run_queue'[level] = << >> /\ level < Lowest /\ pc' = "check" /\ level' = level + 1
  <2>1. level + 1 \in Priority
    BY <1>1, <1>7, LowestAssumption DEF Priority
  <2>2. \A q \in Priority : q < level + 1 => q < level \/ q = level
    BY <1>1 DEF Priority
  <2>3. \A q \in Priority : q < level + 1 => run_queue'[q] = << >>
    BY <1>5, <1>7, <2>2
  <2>. QED
    BY <1>3, <1>7, <2>1, <2>3 DEF RunInv
<1>8. CASE run_queue'[level] = << >> /\ level = Lowest /\ pc' = "drift" /\ level' = level
  <2>1. \A q \in Priority : q < level \/ q = level
    BY <1>1, <1>8, LowestAssumption DEF Priority
  <2>2. \A q \in Priority : run_queue'[q] = << >>
    BY <1>5, <1>8, <2>1
  <2>. QED
    BY <1>1, <1>3, <1>8, <2>2 DEF RunInv
<1>. QED
  BY <1>6, <1>7, <1>8 DEF EventsAvailable

LEMMA RunNext == RunInv /\ [Next]_vars => RunInv'
<1>. SUFFICES ASSUME RunInv, [Next]_vars PROVE RunInv'
  OBVIOUS
<1>0. 1 \in Priority /\ \A q \in Priority : ~(q < 1)
  BY LowestAssumption DEF Priority
<1>1. ASSUME Wake \/ LockRedraw \/ Relock \/ GetDrift \/ Skew \/ UnlockRedraw PROVE RunInv'
  BY <1>0, <1>1 DEF RunInv, Wake, LockRedraw, Relock, GetDrift, Skew, UnlockRedraw, queues
<1>2. ASSUME NEW p \in Priority, ServeEvent(p) PROVE RunInv'
  BY <1>2 DEF RunInv, ServeEvent
<1>3. ASSUME EventFired PROVE RunInv'
  BY <1>0, <1>3 DEF RunInv, EventFired, queues
<1>4. ASSUME UNCHANGED <<run_queue, pc, level>> PROVE RunInv'
  BY <1>4 DEF RunInv
<1>5. ASSUME Clients \/ Clock \/ UNCHANGED vars PROVE UNCHANGED <<run_queue, pc, level>>
  BY <1>5 DEF Clients, Clock, vars, add_event, cancel_event, cancel_all_events,
              set_observer, stop, Tick, SetTime, SetDrift, queues, worker
<1>. QED
  BY <1>1, <1>2, <1>3, <1>4, <1>5, RunChecked DEF Next, Worker

\* Whatever other threads do between its steps, the worker goes to sleep and ends
\* only when all three run queues are empty, so the destructor, which cancels what
\* the delta timers hold, leaves no event behind.
THEOREM RunQueuesDrained == Spec => []NothingLeftToRun
<1>1. RunInv => NothingLeftToRun
  BY DEF RunInv, NothingLeftToRun
<1>. QED
  BY <1>1, RunInit, RunNext, PTL DEF Spec

-----------------------------------------------------------------------------
\* What the deltas of a delta timer add up to.

IsSum(f, evs, n) == f = [k \in 0 .. n |-> IF k = 0 THEN 0 ELSE f[k - 1] + evs[k].dt]

LEMMA SumExists == ASSUME NEW n \in Nat, NEW evs PROVE \E f : IsSum(f, evs, n)
<1>. DEFINE S == {m \in 0 .. n : \E f : IsSum(f, evs, m)}
<1>1. 0 \in S
  <2>1. IsSum([k \in 0 .. 0 |-> 0], evs, 0)
    BY DEF IsSum
  <2>. QED
    BY <2>1
<1>2. ASSUME NEW m \in 0 .. n - 1, m \in S PROVE m + 1 \in S
  <2>1. PICK f : IsSum(f, evs, m)
    BY <1>2
  <2>. DEFINE g == [k \in 0 .. m + 1 |-> IF k = m + 1 THEN f[m] + evs[m + 1].dt ELSE f[k]]
  <2>2. \A k \in 0 .. m : f[k] = IF k = 0 THEN 0 ELSE f[k - 1] + evs[k].dt
    BY <2>1 DEF IsSum
  <2>3. ASSUME NEW k \in 0 .. m + 1 PROVE g[k] = IF k = 0 THEN 0 ELSE g[k - 1] + evs[k].dt
    <3>1. CASE k = m + 1
      BY <3>1
    <3>2. CASE k # m + 1
      <4>1. k \in 0 .. m /\ g[k] = f[k]
        BY <3>2
      <4>2. CASE k = 0
        BY <2>2, <4>1, <4>2
      <4>3. CASE k # 0
        <5>1. k - 1 \in 0 .. m + 1 /\ k - 1 # m + 1
          BY <4>1, <4>3
        <5>2. g[k - 1] = f[k - 1]
          BY <5>1
        <5>. QED
          BY <2>2, <4>1, <4>3, <5>2
      <4>. QED
        BY <4>2, <4>3
    <3>. QED
      BY <3>1, <3>2
  <2>4. IsSum(g, evs, m + 1)
    <3>1. g = [k \in 0 .. m + 1 |-> g[k]]
      OBVIOUS
    <3>. HIDE DEF g
    <3>. QED
      BY <2>3, <3>1 DEF IsSum
  <2>. HIDE DEF g
  <2>. QED
    BY <2>4
<1>3. n \in S
  <2>. HIDE DEF S
  <2>. QED
    BY <1>1, <1>2, SegmentInduction
<1>. QED
  BY <1>3

\* The recursive function is what its equation says.
LEMMA OffsetDef ==
  ASSUME NEW evs, Len(evs) \in Nat
  PROVE  /\ Offset(evs, 0) = 0
         /\ \A i \in 1 .. Len(evs) : Offset(evs, i) = Offset(evs, i - 1) + evs[i].dt
<1>. DEFINE f == CHOOSE f : IsSum(f, evs, Len(evs))
<1>1. IsSum(f, evs, Len(evs))
  BY SumExists
<1>2. \A i : Offset(evs, i) = f[i]
  BY DEF Offset, IsSum
<1>. HIDE DEF f
<1>3. \A k \in 0 .. Len(evs) : f[k] = IF k = 0 THEN 0 ELSE f[k - 1] + evs[k].dt
  BY <1>1 DEF IsSum
<1>. QED
  BY <1>2, <1>3

Entries == [ev : Events, dt : Nat]

LEMMA ListTypes ==
  ASSUME NEW evs \in Seq(Entries)
  PROVE  /\ IsList(evs) /\ Len(evs) \in Nat /\ DOMAIN evs = 1 .. Len(evs)
         /\ \A i \in 1 .. Len(evs) : evs[i].ev \in Events /\ evs[i].dt \in Nat
<1>1. IsList(evs) /\ Len(evs) \in Nat /\ DOMAIN evs = 1 .. Len(evs)
  BY ListDomain DEF IsList
<1>2. \A i \in 1 .. Len(evs) : evs[i] \in Entries
  BY ElementOfSeq
<1>. QED
  BY <1>1, <1>2 DEF Entries

\* A function on an initial segment whose values are entries is a typed list.
LEMMA TypedList ==
  ASSUME NEW n \in Nat, NEW f, f = [j \in 1 .. n |-> f[j]], \A j \in 1 .. n : f[j] \in Entries
  PROVE  f \in Seq(Entries) /\ Len(f) = n
<1>1. f \in [1 .. n -> Entries]
  OBVIOUS
<1>2. f \in Seq(Entries)
  BY <1>1, SeqDef
<1>. QED
  BY <1>1, <1>2, LenProperties

LEMMA OffsetTypes ==
  ASSUME NEW evs \in Seq(Entries)
  PROVE  /\ \A i \in 0 .. Len(evs) : Offset(evs, i) \in Nat
         /\ \A i \in 1 .. Len(evs) : evs[1].dt <= Offset(evs, i)
<1>. DEFINE S == {i \in 0 .. Len(evs) : Offset(evs, i) \in Nat /\ (i > 0 => evs[1].dt <= Offset(evs, i))}
<1>1. Len(evs) \in Nat /\ \A i \in 1 .. Len(evs) : evs[i].dt \in Nat
  BY ListTypes
<1>2. 0 \in S
  BY <1>1, OffsetDef
<1>3. ASSUME NEW i \in 0 .. Len(evs) - 1, i \in S PROVE i + 1 \in S
  <2>1. i + 1 \in 1 .. Len(evs) /\ (i + 1) - 1 = i
    BY <1>1
  <2>2. Offset(evs, i + 1) = Offset(evs, i) + evs[i + 1].dt
    BY <1>1, <2>1, OffsetDef
  <2>3. PICK o \in Nat : o = Offset(evs, i)
    BY <1>3
  <2>4. PICK d \in Nat : d = evs[i + 1].dt
    BY <1>1, <2>1
  <2>5. CASE i = 0
    <3>1. o = 0 /\ evs[1].dt = d
      BY <1>1, <2>3, <2>4, <2>5, OffsetDef
    <3>. QED
      BY <1>1, <2>1, <2>2, <2>3, <2>4, <3>1
  <2>6. CASE i # 0
    <3>1. evs[1].dt <= o /\ evs[1].dt \in Nat
      BY <1>1, <1>3, <2>1, <2>3, <2>6
    <3>. QED
      BY <1>1, <2>1, <2>2, <2>3, <2>4, <3>1
  <2>. QED
    BY <2>5, <2>6
<1>4. \A i \in 0 .. Len(evs) : i \in S
  <2>. HIDE DEF S
  <2>. QED
    BY <1>1, <1>2, <1>3, SegmentInduction
<1>. QED
  BY <1>1, <1>4


\* The place of a timeout is between the entries that are not later and the first
\* one that is.
LEMMA PlaceIsRight ==
  ASSUME NEW evs \in Seq(Entries), NEW t \in Nat
  PROVE  LET i == Place(evs, t)
         IN  /\ i \in 1 .. Len(evs) + 1
             /\ Offset(evs, i - 1) <= t
             /\ i <= Len(evs) => t < Offset(evs, i)
<1>. DEFINE S == {k \in 1 .. Len(evs) : t < Offset(evs, k)} \cup {Len(evs) + 1}
<1>1. Len(evs) \in Nat /\ \A k \in 0 .. Len(evs) : Offset(evs, k) \in Nat
  BY ListTypes, OffsetTypes
<1>2. S \in SUBSET Nat /\ S # {}
  BY <1>1
<1>3. PICK i \in S : i = Min(S) /\ \A y \in S : i <= y
  <2>. HIDE DEF S
  <2>. QED
    BY <1>2, MinInSet
<1>4. i = Place(evs, t) /\ i \in 1 .. Len(evs) + 1
  BY <1>1, <1>3 DEF Place
<1>5. i <= Len(evs) => t < Offset(evs, i)
  BY <1>1
<1>6. Offset(evs, i - 1) <= t
  <2>1. CASE i = 1
    BY <1>1, <2>1, OffsetDef
  <2>2. CASE i # 1
    <3>1. i - 1 \in 1 .. Len(evs) /\ ~(i <= i - 1)
      BY <1>1, <1>4, <2>2
    <3>2. ~(t < Offset(evs, i - 1))
      BY <1>3, <3>1
    <3>3. PICK o \in Nat : o = Offset(evs, i - 1)
      BY <1>1, <3>1
    <3>. QED
      BY <3>2, <3>3
  <2>. QED
    BY <2>1, <2>2
<1>. HIDE DEF S
<1>. QED
  BY <1>4, <1>5, <1>6

\* A timeout is put in with the offset that was asked for, and the others keep
\* theirs.
LEMMA InsertOffsets ==
  ASSUME NEW evs \in Seq(Entries), NEW t \in Nat, NEW e \in Events
  PROVE  LET f == insert(evs, e, t)
             i == Place(evs, t)
         IN  /\ f \in Seq(Entries)
             /\ Len(f) = Len(evs) + 1
             /\ \A j \in 0 .. Len(evs) + 1 :
                  Offset(f, j) = IF j < i THEN Offset(evs, j)
                                 ELSE IF j = i THEN t ELSE Offset(evs, j - 1)
<1>1. /\ Len(evs) \in Nat
      /\ \A k \in 1 .. Len(evs) : evs[k] \in Entries /\ evs[k].ev \in Events /\ evs[k].dt \in Nat
      /\ \A k \in 0 .. Len(evs) : Offset(evs, k) \in Nat
  BY ListTypes, OffsetTypes, ElementOfSeq
<1>2. PICK i \in 1 .. Len(evs) + 1 :
        /\ i = Place(evs, t) /\ Offset(evs, i - 1) <= t
        /\ i <= Len(evs) => t < Offset(evs, i)
  BY PlaceIsRight
<1>3. i - 1 \in 0 .. Len(evs)
  BY <1>1
<1>4. PICK o \in Nat : o = Offset(evs, i - 1) /\ o <= t
  BY <1>1, <1>2, <1>3
<1>5. PICK f : f = InsertAt(evs, i, e, t - o)
  OBVIOUS
<1>6. f = insert(evs, e, t)
  BY <1>2, <1>4, <1>5 DEF insert
<1>7. /\ f = [j \in 1 .. Len(evs) + 1 |-> f[j]]
      /\ \A j \in 1 .. Len(evs) + 1 :
           /\ j < i => f[j] = evs[j]
           /\ j = i => f[j] = Entry(e, t - o)
           /\ j = i + 1 => f[j] = Entry(evs[i].ev, evs[i].dt - (t - o))
           /\ j > i + 1 => f[j] = evs[j - 1]
  <2>1. f = [j \in 1 .. Len(evs) + 1 |-> f[j]]
    BY <1>5 DEF InsertAt
  <2>. SUFFICES ASSUME NEW j \in 1 .. Len(evs) + 1
                PROVE  /\ j < i => f[j] = evs[j]
                       /\ j = i => f[j] = Entry(e, t - o)
                       /\ j = i + 1 => f[j] = Entry(evs[i].ev, evs[i].dt - (t - o))
                       /\ j > i + 1 => f[j] = evs[j - 1]
    BY <2>1
  <2>2. CASE j < i
    BY <1>1, <1>5, <2>2 DEF InsertAt
  <2>3. CASE j = i
    BY <1>1, <1>5, <2>3 DEF InsertAt
  <2>4. CASE j = i + 1
    BY <1>1, <1>5, <2>4 DEF InsertAt
  <2>5. CASE j > i + 1
    BY <1>1, <1>5, <2>5 DEF InsertAt
  <2>. QED
    BY <1>1, <2>2, <2>3, <2>4, <2>5
<1>8. i <= Len(evs) => evs[i].dt - (t - o) \in Nat /\ Offset(evs, i) = o + evs[i].dt
  <2>. SUFFICES ASSUME i <= Len(evs)
                PROVE  evs[i].dt - (t - o) \in Nat /\ Offset(evs, i) = o + evs[i].dt
    OBVIOUS
  <2>1. i \in 1 .. Len(evs)
    BY <1>1
  <2>2. PICK d \in Nat : d = evs[i].dt
    BY <1>1, <2>1
  <2>3. Offset(evs, i) = o + d
    BY <1>1, <1>4, <2>1, <2>2, OffsetDef
  <2>. QED
    BY <1>2, <2>2, <2>3
<1>9. \A j \in 1 .. Len(evs) + 1 : f[j] \in Entries
  <2>. SUFFICES ASSUME NEW j \in 1 .. Len(evs) + 1 PROVE f[j] \in Entries
    OBVIOUS
  <2>1. CASE j < i
    BY <1>1, <1>7, <2>1
  <2>2. CASE j = i
    BY <1>4, <1>7, <2>2 DEF Entry, Entries
  <2>3. CASE j = i + 1
    <3>1. i \in 1 .. Len(evs)
      BY <1>1, <2>3
    <3>. QED
      BY <1>1, <1>7, <1>8, <2>3, <3>1 DEF Entry, Entries
  <2>4. CASE j > i + 1
    <3>1. j - 1 \in 1 .. Len(evs)
      BY <1>1, <2>4
    <3>. QED
      BY <1>1, <1>7, <2>4, <3>1
  <2>. QED
    BY <1>1, <2>1, <2>2, <2>3, <2>4
<1>10. f \in Seq(Entries) /\ Len(f) = Len(evs) + 1
  BY <1>1, <1>7, <1>9, TypedList
<1>. DEFINE At(j) == IF j < i THEN Offset(evs, j) ELSE IF j = i THEN t ELSE Offset(evs, j - 1)
            S == {j \in 0 .. Len(evs) + 1 : Offset(f, j) = At(j)}
<1>11. 0 \in S
  BY <1>1, <1>10, OffsetDef
<1>12. ASSUME NEW j \in 0 .. (Len(evs) + 1) - 1, j \in S PROVE j + 1 \in S
  <2>1. j + 1 \in 1 .. Len(evs) + 1 /\ (j + 1) - 1 = j
    BY <1>1
  <2>2. Offset(f, j + 1) = At(j) + f[j + 1].dt
    BY <1>10, <1>12, <2>1, OffsetDef
  <2>3. CASE j + 1 < i
    <3>1. j + 1 \in 1 .. Len(evs) /\ f[j + 1].dt = evs[j + 1].dt /\ At(j) = Offset(evs, j)
      BY <1>1, <1>7, <2>1, <2>3
    <3>2. Offset(evs, j + 1) = Offset(evs, j) + evs[j + 1].dt
      BY <1>1, <2>1, <3>1, OffsetDef
    <3>. QED
      BY <2>1, <2>2, <2>3, <3>1, <3>2
  <2>4. CASE j + 1 = i
    <3>1. f[j + 1].dt = t - o /\ At(j) = o
      BY <1>1, <1>4, <1>7, <2>1, <2>4 DEF Entry
    <3>. QED
      BY <1>4, <2>1, <2>2, <2>4, <3>1
  <2>5. CASE j = i
    <3>1. i <= Len(evs) /\ i \in 1 .. Len(evs)
      BY <1>1, <2>5
    <3>2. PICK d \in Nat : d = evs[i].dt
      BY <1>1, <3>1
    <3>3. f[j + 1].dt = d - (t - o)
      BY <1>7, <2>1, <2>5, <3>1, <3>2 DEF Entry
    <3>4. At(j) = t /\ At(j + 1) = o + d
      <4>1. Offset(evs, i) = o + d
        BY <1>8, <3>1, <3>2
      <4>2. ~(j < i) /\ ~(j + 1 < i) /\ j + 1 # i /\ (j + 1) - 1 = i
        BY <2>1, <2>5, <3>1
      <4>. QED
        BY <2>5, <4>1, <4>2
    <3>. HIDE DEF At
    <3>5. t + (d - (t - o)) = o + d
      BY <1>4
    <3>. QED
      BY <2>1, <2>2, <3>3, <3>4, <3>5
  <2>6. CASE j > i
    <3>1. /\ j \in 1 .. Len(evs) /\ j + 1 > i + 1 /\ f[j + 1].dt = evs[j].dt
          /\ At(j) = Offset(evs, j - 1) /\ At(j + 1) = Offset(evs, j)
      BY <1>1, <1>7, <2>1, <2>6
    <3>2. Offset(evs, j) = Offset(evs, j - 1) + evs[j].dt
      BY <1>1, <3>1, OffsetDef
    <3>. QED
      BY <2>1, <2>2, <3>1, <3>2
  <2>. QED
    BY <1>1, <2>3, <2>4, <2>5, <2>6
<1>13. \A j \in 0 .. Len(evs) + 1 : j \in S
  <2>1. Len(evs) + 1 \in Nat
    BY <1>1
  <2>. HIDE DEF S
  <2>. QED
    BY <1>11, <1>12, <2>1, SegmentInduction
<1>. QED
  BY <1>2, <1>6, <1>10, <1>13

\* When an entry is removed, the others keep their offsets.
LEMMA RemoveOffsets ==
  ASSUME NEW evs \in Seq(Entries), NEW i \in 1 .. Len(evs)
  PROVE  LET f == RemoveAt(evs, i)
         IN  /\ f \in Seq(Entries)
             /\ Len(f) = Len(evs) - 1
             /\ \A j \in 0 .. Len(evs) - 1 :
                  Offset(f, j) = IF j < i THEN Offset(evs, j) ELSE Offset(evs, j + 1)
<1>1. /\ Len(evs) \in Nat
      /\ \A k \in 1 .. Len(evs) : evs[k] \in Entries /\ evs[k].ev \in Events /\ evs[k].dt \in Nat
      /\ \A k \in 0 .. Len(evs) : Offset(evs, k) \in Nat
  BY ListTypes, OffsetTypes, ElementOfSeq
<1>2. PICK f : f = RemoveAt(evs, i)
  OBVIOUS
<1>3. /\ f = [j \in 1 .. Len(evs) - 1 |-> f[j]]
      /\ \A j \in 1 .. Len(evs) - 1 :
           /\ j < i => f[j] = evs[j]
           /\ j = i => f[j] = Entry(evs[i + 1].ev, evs[i + 1].dt + evs[i].dt)
           /\ j > i => f[j] = evs[j + 1]
  <2>1. f = [j \in 1 .. Len(evs) - 1 |-> f[j]]
    BY <1>2 DEF RemoveAt
  <2>. SUFFICES ASSUME NEW j \in 1 .. Len(evs) - 1
                PROVE  /\ j < i => f[j] = evs[j]
                       /\ j = i => f[j] = Entry(evs[i + 1].ev, evs[i + 1].dt + evs[i].dt)
                       /\ j > i => f[j] = evs[j + 1]
    BY <2>1
  <2>2. CASE j < i
    BY <1>1, <1>2, <2>2 DEF RemoveAt
  <2>3. CASE j = i
    BY <1>1, <1>2, <2>3 DEF RemoveAt
  <2>4. CASE j > i
    BY <1>1, <1>2, <2>4 DEF RemoveAt
  <2>. QED
    BY <1>1, <2>2, <2>3, <2>4
<1>4. \A j \in 1 .. Len(evs) - 1 : f[j] \in Entries
  <2>. SUFFICES ASSUME NEW j \in 1 .. Len(evs) - 1 PROVE f[j] \in Entries
    OBVIOUS
  <2>1. j \in 1 .. Len(evs) /\ j + 1 \in 1 .. Len(evs)
    BY <1>1
  <2>2. CASE j < i
    BY <1>1, <1>3, <2>1, <2>2
  <2>3. CASE j = i
    BY <1>1, <1>3, <2>1, <2>3 DEF Entry, Entries
  <2>4. CASE j > i
    BY <1>1, <1>3, <2>1, <2>4
  <2>. QED
    BY <1>1, <2>2, <2>3, <2>4
<1>5. f \in Seq(Entries) /\ Len(f) = Len(evs) - 1 /\ Len(evs) - 1 \in Nat
  <2>1. Len(evs) - 1 \in Nat
    BY <1>1
  <2>. QED
    BY <1>3, <1>4, <2>1, TypedList
<1>. DEFINE At(j) == IF j < i THEN Offset(evs, j) ELSE Offset(evs, j + 1)
            S == {j \in 0 .. Len(evs) - 1 : Offset(f, j) = At(j)}
<1>6. 0 \in S
  BY <1>1, <1>5, OffsetDef
<1>7. ASSUME NEW j \in 0 .. (Len(evs) - 1) - 1, j \in S PROVE j + 1 \in S
  <2>1. /\ j + 1 \in 1 .. Len(evs) - 1 /\ j + 1 \in 1 .. Len(evs) /\ (j + 1) - 1 = j
        /\ j \in 0 .. Len(evs) /\ j + 2 \in 1 .. Len(evs) /\ (j + 2) - 1 = j + 1 /\ (j + 1) + 1 = j + 2
    BY <1>1
  <2>2. Offset(f, j + 1) = At(j) + f[j + 1].dt
    BY <1>5, <1>7, <2>1, OffsetDef
  <2>3. /\ Offset(evs, j + 1) = Offset(evs, j) + evs[j + 1].dt
        /\ Offset(evs, j + 2) = Offset(evs, j + 1) + evs[j + 2].dt
    BY <1>1, <2>1, OffsetDef
  <2>4. PICK o \in Nat : o = Offset(evs, j)
    BY <1>1, <2>1
  <2>5. PICK c \in Nat : c = evs[j + 1].dt
    BY <1>1, <2>1
  <2>6. PICK d \in Nat : d = evs[j + 2].dt
    BY <1>1, <2>1
  <2>7. Offset(evs, j + 1) = o + c /\ Offset(evs, j + 2) = (o + c) + d
    BY <2>3, <2>4, <2>5, <2>6
  <2>8. CASE j + 1 < i
    <3>1. f[j + 1].dt = c
      BY <1>3, <2>1, <2>5, <2>8
    <3>2. j < i /\ At(j) = o /\ At(j + 1) = o + c
      BY <1>1, <2>1, <2>4, <2>7, <2>8
    <3>. HIDE DEF At
    <3>. QED
      BY <2>1, <2>2, <3>1, <3>2
  <2>9. CASE j + 1 = i
    <3>1. f[j + 1].dt = d + c
      BY <1>3, <2>1, <2>5, <2>6, <2>9 DEF Entry
    <3>2. At(j) = o /\ At(j + 1) = (o + c) + d
      <4>1. j < i /\ ~(j + 1 < i) /\ (j + 1) + 1 = j + 2
        BY <1>1, <2>9
      <4>. QED
        BY <2>4, <2>7, <4>1
    <3>. HIDE DEF At
    <3>3. o + (d + c) = (o + c) + d
      OBVIOUS
    <3>. QED
      BY <2>1, <2>2, <3>1, <3>2, <3>3
  <2>10. CASE j + 1 > i
    <3>1. f[j + 1].dt = d
      BY <1>1, <1>3, <2>1, <2>6, <2>10
    <3>2. At(j) = o + c /\ At(j + 1) = (o + c) + d
      BY <2>1, <2>7, <2>10
    <3>. HIDE DEF At
    <3>. QED
      BY <2>1, <2>2, <3>1, <3>2
  <2>. QED
    BY <1>1, <2>8, <2>9, <2>10
<1>8. \A j \in 0 .. Len(evs) - 1 : j \in S
  <2>. HIDE DEF S
  <2>. QED
    BY <1>5, <1>6, <1>7, SegmentInduction
<1>. QED
  BY <1>2, <1>5, <1>8


\* What has its turn is what is not later than delta.
LEMMA ReadyIsRight ==
  ASSUME NEW evs \in Seq(Entries), NEW delta \in Nat
  PROVE  LET n == ReadyCount(evs, delta)
         IN  /\ n \in 0 .. Len(evs)
             /\ \A i \in 1 .. n : Offset(evs, i) <= delta
             /\ Offset(evs, n) <= delta
             /\ n < Len(evs) => delta < Offset(evs, n + 1)
<1>. DEFINE S == {n \in 0 .. Len(evs) : \A i \in 1 .. n : Offset(evs, i) <= delta}
<1>1. Len(evs) \in Nat /\ \A k \in 0 .. Len(evs) : Offset(evs, k) \in Nat
  BY ListTypes, OffsetTypes
<1>2. S \in SUBSET (0 .. Len(evs)) /\ 0 \in S
  BY <1>1
<1>3. PICK n \in S : n = Max(S) /\ \A y \in S : y <= n
  BY <1>1, <1>2, MaxInSet
<1>4. n = ReadyCount(evs, delta) /\ n \in 0 .. Len(evs) /\ \A i \in 1 .. n : Offset(evs, i) <= delta
  BY <1>3 DEF ReadyCount
<1>5. Offset(evs, n) <= delta
  <2>1. CASE n = 0
    BY <1>1, <2>1, OffsetDef
  <2>2. CASE n # 0
    BY <1>1, <1>4, <2>2
  <2>. QED
    BY <2>1, <2>2
<1>6. n < Len(evs) => delta < Offset(evs, n + 1)
  <2>. SUFFICES ASSUME n < Len(evs) PROVE delta < Offset(evs, n + 1)
    OBVIOUS
  <2>1. n + 1 \in 0 .. Len(evs) /\ ~(n + 1 <= n)
    BY <1>1, <1>4
  <2>2. n + 1 \notin S
    BY <1>3, <2>1
  <2>3. PICK i \in 1 .. n + 1 : ~(Offset(evs, i) <= delta)
    BY <2>1, <2>2
  <2>4. i = n + 1
    BY <1>1, <1>4, <2>3
  <2>5. PICK o \in Nat : o = Offset(evs, n + 1)
    BY <1>1, <2>1
  <2>. QED
    BY <2>3, <2>4, <2>5
<1>. HIDE DEF S
<1>. QED
  BY <1>4, <1>5, <1>6

\* execute() takes the time that has passed from the offset of every entry that
\* remains, and none of them is due any more.
LEMMA RemainingOffsets ==
  ASSUME NEW evs \in Seq(Entries), NEW delta \in Nat
  PROVE  LET n == ReadyCount(evs, delta)
             f == Remaining(evs, n, delta)
         IN  /\ f \in Seq(Entries)
             /\ Len(f) = Len(evs) - n
             /\ \A j \in 1 .. Len(evs) - n : Offset(f, j) = Offset(evs, n + j) - delta
             /\ n < Len(evs) => f[1].dt > 0
<1>1. /\ Len(evs) \in Nat
      /\ \A k \in 1 .. Len(evs) : evs[k] \in Entries /\ evs[k].ev \in Events /\ evs[k].dt \in Nat
      /\ \A k \in 0 .. Len(evs) : Offset(evs, k) \in Nat
  BY ListTypes, OffsetTypes, ElementOfSeq
<1>2. PICK n \in 0 .. Len(evs) :
        /\ n = ReadyCount(evs, delta) /\ Offset(evs, n) <= delta
        /\ n < Len(evs) => delta < Offset(evs, n + 1)
  BY ReadyIsRight
<1>3. PICK f : f = Remaining(evs, n, delta)
  OBVIOUS
<1>4. PICK o \in Nat : o = Offset(evs, n) /\ o <= delta
  BY <1>1, <1>2
<1>5. n < Len(evs) =>
        /\ n + 1 \in 1 .. Len(evs)
        /\ Offset(evs, n + 1) = o + evs[n + 1].dt
        /\ evs[n + 1].dt - (delta - o) > 0 /\ evs[n + 1].dt - (delta - o) \in Nat
        /\ ~(delta - o > evs[n + 1].dt)
  <2>. SUFFICES ASSUME n < Len(evs)
                PROVE  /\ n + 1 \in 1 .. Len(evs)
                       /\ Offset(evs, n + 1) = o + evs[n + 1].dt
                       /\ evs[n + 1].dt - (delta - o) > 0 /\ evs[n + 1].dt - (delta - o) \in Nat
                       /\ ~(delta - o > evs[n + 1].dt)
    OBVIOUS
  <2>1. n + 1 \in 1 .. Len(evs) /\ (n + 1) - 1 = n
    BY <1>1
  <2>2. PICK d \in Nat : d = evs[n + 1].dt
    BY <1>1, <2>1
  <2>3. Offset(evs, n + 1) = o + d
    BY <1>1, <1>4, <2>1, <2>2, OffsetDef
  <2>. QED
    BY <1>2, <2>1, <2>2, <2>3
<1>6. /\ f = [j \in 1 .. Len(evs) - n |-> f[j]]
      /\ \A j \in 1 .. Len(evs) - n :
           /\ j = 1 => f[j] = Entry(evs[n + 1].ev, evs[n + 1].dt - (delta - o))
           /\ j # 1 => f[j] = evs[n + j]
  <2>1. f = [j \in 1 .. Len(evs) - n |-> f[j]]
    BY <1>3 DEF Remaining
  <2>. SUFFICES ASSUME NEW j \in 1 .. Len(evs) - n
                PROVE  /\ j = 1 => f[j] = Entry(evs[n + 1].ev, evs[n + 1].dt - (delta - o))
                       /\ j # 1 => f[j] = evs[n + j]
    BY <2>1
  <2>2. f[j] = IF j = 1
               THEN Entry(evs[n + 1].ev,
                          IF delta - o > evs[n + 1].dt THEN 0 ELSE evs[n + 1].dt - (delta - o))
               ELSE evs[n + j]
    BY <1>3, <1>4 DEF Remaining
  <2>3. n < Len(evs)
    BY <1>1
  <2>. QED
    BY <1>5, <2>2, <2>3
<1>7. \A j \in 1 .. Len(evs) - n : f[j] \in Entries
  <2>. SUFFICES ASSUME NEW j \in 1 .. Len(evs) - n PROVE f[j] \in Entries
    OBVIOUS
  <2>1. n + j \in 1 .. Len(evs) /\ n < Len(evs)
    BY <1>1
  <2>2. CASE j = 1
    <3>1. evs[n + 1].ev \in Events /\ evs[n + 1].dt - (delta - o) \in Nat
      BY <1>1, <1>5, <2>1
    <3>2. f[j] = Entry(evs[n + 1].ev, evs[n + 1].dt - (delta - o))
      BY <1>6, <2>2
    <3>. QED
      BY <3>1, <3>2 DEF Entry, Entries
  <2>3. CASE j # 1
    BY <1>1, <1>6, <2>1, <2>3
  <2>. QED
    BY <2>2, <2>3
<1>8. Len(evs) - n \in Nat /\ f \in Seq(Entries) /\ Len(f) = Len(evs) - n
  <2>1. Len(evs) - n \in Nat
    BY <1>1
  <2>. QED
    BY <1>6, <1>7, <2>1, TypedList
<1>9. n < Len(evs) => f[1].dt > 0
  <2>1. n < Len(evs) => 1 \in 1 .. Len(evs) - n
    BY <1>1
  <2>. QED
    BY <1>5, <1>6, <2>1 DEF Entry
<1>. DEFINE S == {j \in 0 .. Len(evs) - n : j > 0 => Offset(f, j) = Offset(evs, n + j) - delta}
<1>10. 0 \in S
  BY <1>8
<1>11. ASSUME NEW j \in 0 .. (Len(evs) - n) - 1, j \in S PROVE j + 1 \in S
  <2>1. /\ j + 1 \in 1 .. Len(evs) - n /\ (j + 1) - 1 = j /\ n < Len(evs)
        /\ n + (j + 1) \in 1 .. Len(evs) /\ (n + (j + 1)) - 1 = n + j /\ n + j \in 0 .. Len(evs)
    BY <1>1
  <2>2. Offset(f, j + 1) = Offset(f, j) + f[j + 1].dt
    BY <1>8, <2>1, OffsetDef
  <2>3. Offset(evs, n + (j + 1)) = Offset(evs, n + j) + evs[n + (j + 1)].dt
    BY <1>1, <2>1, OffsetDef
  <2>4. PICK d \in Nat : d = evs[n + (j + 1)].dt
    BY <1>1, <2>1
  <2>5. PICK q \in Nat : q = Offset(evs, n + j)
    BY <1>1, <2>1
  <2>6. CASE j = 0
    <3>1. Offset(f, 0) = 0
      BY <1>8, OffsetDef
    <3>2. q = o
      BY <1>4, <2>5, <2>6
    <3>3. j + 1 = 1 /\ n + (j + 1) = n + 1 /\ f[1].dt = d - (delta - o)
      <4>1. j + 1 = 1 /\ n + (j + 1) = n + 1
        BY <2>6
      <4>2. f[1] = Entry(evs[n + 1].ev, d - (delta - o))
        BY <1>6, <2>1, <2>4, <4>1
      <4>. QED
        BY <4>1, <4>2 DEF Entry
    <3>4. Offset(f, 1) = d - (delta - o)
      BY <2>2, <2>6, <3>1, <3>3
    <3>5. Offset(evs, n + 1) = o + d
      BY <2>3, <2>4, <2>5, <3>2, <3>3
    <3>6. d - (delta - o) = (o + d) - delta
      OBVIOUS
    <3>. QED
      BY <2>1, <3>3, <3>4, <3>5, <3>6
  <2>7. CASE j # 0
    <3>1. j + 1 # 1
      BY <2>7
    <3>2. f[j + 1] = evs[n + (j + 1)]
      BY <1>6, <2>1, <3>1
    <3>3. Offset(f, j) = q - delta
      BY <1>11, <2>5, <2>7
    <3>4. Offset(f, j + 1) = (q - delta) + d
      BY <2>2, <2>4, <3>2, <3>3
    <3>5. Offset(evs, n + (j + 1)) = q + d
      BY <2>3, <2>4, <2>5
    <3>6. (q - delta) + d = (q + d) - delta
      OBVIOUS
    <3>. QED
      BY <2>1, <3>4, <3>5, <3>6
  <2>. QED
    BY <2>6, <2>7
<1>12. \A j \in 0 .. Len(evs) - n : j \in S
  <2>. HIDE DEF S
  <2>. QED
    BY <1>8, <1>10, <1>11, SegmentInduction
<1>. QED
  BY <1>2, <1>3, <1>8, <1>9, <1>12

-----------------------------------------------------------------------------
\* Types.

TimerTypes ==
  /\ now \in 0 .. MaxNow /\ m_drift \in Int /\ drift \in Int
  /\ m_last_run \in [Priority -> 0 .. MaxNow]
ListsTyped ==
  /\ m_events \in [Priority -> Seq(Entries)]
  /\ run_queue \in [Priority -> Seq(Events)]
WorkerTypes ==
  /\ pc \in Unlocked \cup {"relock", "check", "serve", "drift", "skew"}
  /\ level \in Priority
  /\ serving \in Events \cup {NoEvent}
  /\ m_observer \in BOOLEAN /\ redraw \in BOOLEAN /\ m_exit_requested \in BOOLEAN
GhostTypes ==
  /\ status \in [Events -> Status]
  /\ prio \in [Events -> Priority]
  /\ due \in [Events -> Nat] /\ \A e \in Events : due[e] <= MaxNow

Types == TimerTypes /\ ListsTyped /\ WorkerTypes /\ GhostTypes

\* The difference of two readings, in unsigned arithmetic.
LEMMA DeltaIs ==
  ASSUME NEW x \in 0 .. MaxNow, NEW y \in 0 .. MaxNow
  PROVE  /\ Delta(x, y) \in Nat
         /\ y <= x => Delta(x, y) = x - y
         /\ x < y => Delta(x, y) = (x - y) + WORD
<1>1. PICK d \in Int : d = x - y /\ -WORD <= d /\ d < WORD
  BY MaxNowAssumption, WordAssumption
<1>2. 0 <= d => d % WORD = d
  BY <1>1, WordAssumption
<1>3. d < 0 => d % WORD = d + WORD
  BY <1>1, WordAssumption
<1>. QED
  BY <1>1, <1>2, <1>3, MaxNowAssumption, WordAssumption DEF Delta

LEMMA NextEventTimeIs ==
  ASSUME ListsTyped
  PROVE  /\ NextEventTime \in Nat
         /\ \E p \in Priority : NextEventTime = next_event_time(m_events[p])
<1>. DEFINE S == {next_event_time(m_events[p]) : p \in Priority}
<1>1. \A p \in Priority : next_event_time(m_events[p]) \in Nat
  <2>. SUFFICES ASSUME NEW p \in Priority PROVE next_event_time(m_events[p]) \in Nat
    OBVIOUS
  <2>1. PICK evs \in Seq(Entries) : evs = m_events[p]
    BY DEF ListsTyped
  <2>2. CASE evs = << >>
    BY <2>1, <2>2 DEF next_event_time, LARGE
  <2>3. CASE evs # << >>
    <3>1. 1 \in 1 .. Len(evs)
      BY <2>3, ListTypes, EmptySeq
    <3>. QED
      BY <2>1, <2>3, <3>1, ListTypes DEF next_event_time
  <2>. QED
    BY <2>2, <2>3
<1>2. 1 \in Priority
  BY LowestAssumption DEF Priority
<1>3. S \in SUBSET Nat /\ S # {}
  BY <1>1, <1>2
<1>4. Min(S) \in S
  BY <1>3, MinInSet
<1>. QED
  BY <1>3, <1>4 DEF NextEventTime

LEMMA TypesInit == Init => Types
<1>. SUFFICES ASSUME Init PROVE Types
  OBVIOUS
<1>1. 1 \in Priority /\ 0 \in 0 .. MaxNow
  BY LowestAssumption, MaxNowAssumption DEF Priority
<1>2. TimerTypes
  BY <1>1 DEF Init, TimerTypes
<1>3. << >> \in Seq(Entries) /\ << >> \in Seq(Events)
  BY EmptySeq
<1>4. ListsTyped
  BY <1>3 DEF Init, ListsTyped
<1>5. WorkerTypes
  BY <1>1, ObserverAssumption DEF Init, WorkerTypes, Unlocked
<1>6. GhostTypes
  BY <1>1, MaxNowAssumption DEF Init, GhostTypes, Status
<1>. QED
  BY <1>2, <1>4, <1>5, <1>6 DEF Types

LEMMA TypesStep == Types /\ [Next]_vars => Types'
<1>. SUFFICES ASSUME Types, [Next]_vars PROVE Types'
  OBVIOUS
<1>. USE DEF timer, queues, worker, gui, ghosts
<1>0. 1 \in Priority /\ 1 <= Lowest /\ Lowest \in Nat
  BY LowestAssumption DEF Priority
<1>1. ASSUME Tick PROVE Types'
  <2>1. TimerTypes'
    BY <1>1, MaxNowAssumption DEF Tick, Types, TimerTypes
  <2>. QED
    BY <1>1, <2>1 DEF Tick, Types, ListsTyped, WorkerTypes, GhostTypes
<1>2. ASSUME NEW t \in Resets, SetTime(t) PROVE Types'
  <2>1. TimerTypes'
    BY <1>2, ResetsAssumption DEF SetTime, Types, TimerTypes
  <2>. QED
    BY <1>2, <2>1 DEF SetTime, Types, ListsTyped, WorkerTypes, GhostTypes
<1>3. ASSUME NEW d \in Drifts, SetDrift(d) PROVE Types'
  <2>1. TimerTypes'
    BY <1>3, DriftsAssumption DEF SetDrift, Types, TimerTypes
  <2>. QED
    BY <1>3, <2>1 DEF SetDrift, Types, ListsTyped, WorkerTypes, GhostTypes
<1>4. ASSUME NEW e \in Events, NEW t \in Delays, NEW p \in Priority, add_event(e, t, p)
      PROVE  Types'
  <2>1. t \in Nat /\ m_events[p] \in Seq(Entries) /\ m_last_run[p] \in 0 .. MaxNow
    BY DelaysAssumption DEF Types, ListsTyped, TimerTypes
  <2>2. insert(m_events[p], e, t) \in Seq(Entries)
    BY <2>1, InsertOffsets
  <2>3. ListsTyped'
    BY <1>4, <2>2 DEF add_event, Types, ListsTyped
  <2>4. GhostTypes'
    <3>1. status' \in [Events -> Status] /\ prio' \in [Events -> Priority]
      BY <1>4 DEF add_event, Types, GhostTypes, Status
    <3>2. PICK d \in Nat : d = m_last_run[p] + t /\ d <= MaxNow
      BY <1>4, <2>1, MaxNowAssumption DEF add_event
    <3>3. due' = [due EXCEPT ![e] = d]
      BY <1>4, <3>2 DEF add_event
    <3>. QED
      BY <3>1, <3>2, <3>3 DEF Types, GhostTypes
  <2>. QED
    BY <1>4, <2>3, <2>4 DEF add_event, Types, TimerTypes, WorkerTypes
<1>5. ASSUME NEW e \in Events, NEW p \in Priority, cancel_event(e, p) PROVE Types'
  <2>1. m_events[p] \in Seq(Entries)
    BY DEF Types, ListsTyped
  <2>2. Positions(m_events[p], e) \in SUBSET (1 .. Len(m_events[p])) /\ Positions(m_events[p], e) # {}
    BY <1>5 DEF cancel_event, Positions
  <2>3. Min(Positions(m_events[p], e)) \in 1 .. Len(m_events[p])
    BY <2>1, <2>2, MinInSet, ListTypes
  <2>4. RemoveAt(m_events[p], Min(Positions(m_events[p], e))) \in Seq(Entries)
    BY <2>1, <2>3, RemoveOffsets
  <2>5. ListsTyped'
    BY <1>5, <2>4 DEF cancel_event, Types, ListsTyped
  <2>6. GhostTypes'
    BY <1>0, <1>5, MaxNowAssumption DEF cancel_event, Types, GhostTypes, Status
  <2>. QED
    BY <1>5, <2>5, <2>6 DEF cancel_event, Types, TimerTypes, WorkerTypes
<1>6. ASSUME cancel_all_events PROVE Types'
  <2>1. ListsTyped'
    BY <1>6, EmptySeq DEF cancel_all_events, Types, ListsTyped
  <2>2. GhostTypes'
    BY <1>0, <1>6, MaxNowAssumption DEF cancel_all_events, Types, GhostTypes, Status
  <2>. QED
    BY <1>6, <2>1, <2>2 DEF cancel_all_events, Types, TimerTypes, WorkerTypes
<1>7. ASSUME NEW b \in BOOLEAN, set_observer(b) PROVE Types'
  BY <1>7 DEF set_observer, Types, TimerTypes, ListsTyped, WorkerTypes, GhostTypes
<1>8. ASSUME stop PROVE Types'
  BY <1>8 DEF stop, Types, TimerTypes, ListsTyped, WorkerTypes, GhostTypes
<1>9. ASSUME Wake PROVE Types'
  <2>1. pc' \in {"done", "lock_redraw", "check"}
    BY <1>9, Zenon DEF Wake
  <2>2. WorkerTypes'
    BY <1>0, <1>9, <2>1 DEF Wake, Types, WorkerTypes, Unlocked
  <2>3. UNCHANGED <<now, m_drift, drift, m_last_run, m_events, run_queue, status, prio, due>>
    BY <1>9 DEF Wake
  <2>. QED
    BY <2>2, <2>3 DEF Types, TimerTypes, ListsTyped, GhostTypes
<1>10. ASSUME LockRedraw \/ Relock \/ UnlockRedraw PROVE Types'
  BY <1>10 DEF LockRedraw, Relock, UnlockRedraw, Types, TimerTypes, ListsTyped, WorkerTypes,
     GhostTypes,
               Unlocked
<1>11. ASSUME EventsAvailable PROVE Types'
  <2>1. WorkerTypes'
    BY <1>0, <1>11 DEF EventsAvailable, Types, WorkerTypes, Priority
  <2>2. CASE run_queue[level] # << >>
    <3>1. UNCHANGED <<queues, status, due>>
      BY <1>11, <2>2 DEF EventsAvailable
    <3>. QED
      BY <1>11, <2>1, <3>1 DEF EventsAvailable, Types, TimerTypes, ListsTyped, GhostTypes
  <2>3. CASE run_queue[level] = << >>
    <3>1. level \in Priority /\ now \in 0 .. MaxNow /\ m_last_run[level] \in 0 .. MaxNow
          /\ m_events[level] \in Seq(Entries)
      BY DEF Types, TimerTypes, ListsTyped, WorkerTypes
    <3>2. PICK evs \in Seq(Entries) : evs = m_events[level]
      BY <3>1
    <3>3. PICK delta \in Nat : delta = Delta(now, m_last_run[level])
      BY <3>1, DeltaIs
    <3>4. PICK n \in 0 .. Len(evs) : n = ReadyCount(evs, delta)
      BY ReadyIsRight
    <3>5. /\ run_queue' = [run_queue EXCEPT ![level] = ReadyEvents(evs, n)]
          /\ m_events' = [m_events EXCEPT ![level] = Remaining(evs, n, delta)]
          /\ m_last_run' = [m_last_run EXCEPT ![level] = now]
          /\ status' = [e \in Events |-> IF \E i \in 1 .. n : evs[i].ev = e THEN "ready" ELSE status[e]]
          /\ due' = [e \in Events |-> IF \E i \in 1 .. n : evs[i].ev = e THEN 0 ELSE due[e]]
          /\ UNCHANGED <<now, m_drift, drift, prio>>
      BY <1>11, <2>3, <3>2, <3>3, <3>4 DEF EventsAvailable
    <3>6. Remaining(evs, n, delta) \in Seq(Entries)
      BY <3>4, RemainingOffsets
    <3>7. ReadyEvents(evs, n) \in Seq(Events)
      <4>1. n \in Nat /\ ReadyEvents(evs, n) \in [1 .. n -> Events]
        BY ListTypes DEF ReadyEvents
      <4>. QED
        BY <4>1, SeqDef
    <3>8. ListsTyped'
      BY <3>5, <3>6, <3>7 DEF Types, ListsTyped
    <3>9. TimerTypes'
      BY <3>1, <3>5 DEF Types, TimerTypes
    <3>10. GhostTypes'
      BY <3>5, MaxNowAssumption DEF Types, GhostTypes, Status
    <3>. QED
      BY <2>1, <3>8, <3>9, <3>10 DEF Types
  <2>. QED
    BY <2>2, <2>3
<1>12. ASSUME NEW p \in Priority, ServeEvent(p) PROVE Types'
  <2>1. PICK q \in Seq(Events) : q = run_queue[p] /\ q # << >>
    BY <1>12 DEF ServeEvent, Types, ListsTyped
  <2>2. Head(q) \in Events /\ Tail(q) \in Seq(Events)
    BY <2>1, HeadTailProperties
  <2>3. /\ serving' = Head(q) /\ run_queue' = [run_queue EXCEPT ![p] = Tail(q)]
        /\ status' = [status EXCEPT ![Head(q)] = "firing"] /\ pc' = "fire"
        /\ UNCHANGED <<now, m_drift, drift, m_last_run, m_events, level, m_observer, redraw,
                       m_exit_requested, prio, due>>
    BY <1>12, <2>1 DEF ServeEvent
  <2>. QED
    BY <2>2, <2>3 DEF Types, TimerTypes, ListsTyped, WorkerTypes, GhostTypes, Unlocked, Status
<1>13. ASSUME EventFired PROVE Types'
  <2>1. WorkerTypes'
    BY <1>0, <1>13 DEF EventFired, Types, WorkerTypes
  <2>2. GhostTypes'
    BY <1>0, <1>13 DEF EventFired, Types, GhostTypes, Status
  <2>. QED
    BY <1>13, <2>1, <2>2 DEF EventFired, Types, TimerTypes, ListsTyped
<1>14. ASSUME GetDrift PROVE Types'
  <2>1. PICK x \in Nat : x = NextEventTime
    BY NextEventTimeIs DEF Types
  <2>2. drift' \in Int
    <3>1. drift' = IF m_drift > 0 /\ m_drift >= x THEN x - 1 ELSE m_drift
      BY <1>14, <2>1 DEF GetDrift
    <3>. QED
      BY <3>1 DEF Types, TimerTypes
  <2>. QED
    BY <1>14, <2>2 DEF GetDrift, Types, TimerTypes, ListsTyped, WorkerTypes, GhostTypes
<1>15. ASSUME Skew PROVE Types'
  <2>1. now \in 0 .. MaxNow /\ drift \in Int /\ m_drift \in Int
    BY DEF Types, TimerTypes
  <2>2. now' \in 0 .. MaxNow
    <3>1. CASE drift > 0
      <4>1. {now + drift, MaxNow} \in SUBSET Nat /\ {now + drift, MaxNow} # {}
        BY <2>1, <3>1, MaxNowAssumption
      <4>2. now' \in {now + drift, MaxNow} /\ now' <= MaxNow
        BY <1>15, <3>1, <4>1, MinInSet DEF Skew
      <4>. QED
        BY <4>1, <4>2, MaxNowAssumption
    <3>2. CASE ~(drift > 0)
      BY <1>15, <2>1, <3>2 DEF Skew
    <3>. QED
      BY <3>1, <3>2
  <2>3. m_drift' \in Int /\ drift' \in Int
    BY <1>15, <2>1 DEF Skew
  <2>. QED
    BY <1>15, <2>2, <2>3 DEF Skew, Types, TimerTypes, ListsTyped, WorkerTypes, GhostTypes, Unlocked
<1>16. ASSUME UNCHANGED vars PROVE Types'
  BY <1>16 DEF vars, Types, TimerTypes, ListsTyped, WorkerTypes, GhostTypes
<1>. QED
  BY <1>1, <1>2, <1>3, <1>4, <1>5, <1>6, <1>7, <1>8, <1>9, <1>10, <1>11, <1>12, <1>13, <1>14, <1>15,
     <1>16 DEF Next, Worker, Clients, Clock

\* The variables keep their types whatever is inserted, cancelled or executed: no
\* delta becomes negative, and the run queues hold events only.
THEOREM TypeCorrect == Spec => []TypeOK
<1>1. Types => TypeOK
  BY DEF Types, TimerTypes, ListsTyped, WorkerTypes, GhostTypes, TypeOK, Entries
<1>. QED
  BY <1>1, TypesInit, TypesStep, PTL DEF Spec

-----------------------------------------------------------------------------
\* The delta encoding, and when events become ready.

Own == Types /\ OwnInv

\* The entry at each position of a delta timer has its own pending event.
LEMMA EntriesPending ==
  ASSUME Own, NEW p \in Priority
  PROVE  /\ m_events[p] \in Seq(Entries)
         /\ DOMAIN m_events[p] = 1 .. Len(m_events[p]) /\ Len(m_events[p]) \in Nat
         /\ \A i \in DOMAIN m_events[p] :
              /\ m_events[p][i].ev \in Events
              /\ status[m_events[p][i].ev] = "pending" /\ prio[m_events[p][i].ev] = p
              /\ \A j \in DOMAIN m_events[p] : m_events[p][i].ev = m_events[p][j].ev => i = j
<1>1. m_events[p] \in Seq(Entries)
  BY DEF Own, Types, ListsTyped
<1>2. Enumerates(m_events[p], Waiting(status, prio, p))
  BY DEF Own, OwnInv, TimersOwn
<1>. QED
  BY <1>1, <1>2, ListTypes DEF Enumerates, Waiting

LEMMA ExactAdd ==
  ASSUME Own, DeltasExact, NEW e \in Events, NEW t \in Delays, NEW p \in Priority, add_event(e, t, p)
  PROVE  DeltasExact'
<1>. SUFFICES ASSUME NEW q \in Priority, NEW i \in DOMAIN m_events'[q]
              PROVE  m_last_run'[q] + Offset(m_events'[q], i) = due'[m_events'[q][i].ev]
  BY DEF DeltasExact
<1>1. /\ m_events' = [m_events EXCEPT ![p] = insert(m_events[p], e, t)]
      /\ due' = [due EXCEPT ![e] = m_last_run[p] + t]
      /\ status[e] = "new" /\ UNCHANGED m_last_run
  BY DEF add_event
<1>2. t \in Nat /\ m_events \in [Priority -> Seq(Entries)] /\ due \in [Events -> Nat]
  BY DelaysAssumption DEF Own, Types, ListsTyped, GhostTypes
<1>3. \A j \in DOMAIN m_events[q] :
        /\ m_events[q][j].ev \in Events /\ m_events[q][j].ev # e
        /\ m_last_run[q] + Offset(m_events[q], j) = due[m_events[q][j].ev]
  BY <1>1, EntriesPending DEF DeltasExact
<1>4. CASE q # p
  BY <1>1, <1>2, <1>3, <1>4
<1>5. CASE q = p
  <2>1. PICK evs \in Seq(Entries) : evs = m_events[p]
    BY <1>2
  <2>2. PICK f : f = insert(evs, e, t)
    OBVIOUS
  <2>3. PICK k \in 1 .. Len(evs) + 1 : k = Place(evs, t)
    BY <1>2, PlaceIsRight
  <2>4. Len(evs) \in Nat /\ DOMAIN evs = 1 .. Len(evs) /\ IsList(evs)
    BY ListTypes
  <2>5. /\ DOMAIN f = 1 .. Len(evs) + 1
        /\ \A j \in 1 .. Len(evs) + 1 :
             f[j].ev = IF j < k THEN evs[j].ev ELSE IF j = k THEN e ELSE evs[j - 1].ev
    BY <2>2, <2>3, <2>4, InsertAtList DEF insert
  <2>6. \A j \in 0 .. Len(evs) + 1 :
          Offset(f, j) = IF j < k THEN Offset(evs, j) ELSE IF j = k THEN t ELSE Offset(evs, j - 1)
    BY <1>2, <2>2, <2>3, InsertOffsets
  <2>7. m_events'[q] = f /\ i \in 1 .. Len(evs) + 1 /\ m_last_run'[q] = m_last_run[p]
    BY <1>1, <1>2, <1>5, <2>1, <2>2, <2>5
  <2>8. CASE i < k
    <3>1. i \in 1 .. Len(evs) /\ f[i].ev = evs[i].ev /\ Offset(f, i) = Offset(evs, i)
      BY <2>4, <2>5, <2>6, <2>7, <2>8
    <3>. QED
      BY <1>1, <1>2, <1>3, <1>5, <2>1, <2>4, <2>7, <3>1
  <2>9. CASE i = k
    <3>1. f[i].ev = e /\ Offset(f, i) = t
      BY <2>4, <2>5, <2>6, <2>7, <2>9
    <3>. QED
      BY <1>1, <1>2, <2>7, <3>1
  <2>10. CASE i > k
    <3>1. i - 1 \in 1 .. Len(evs) /\ f[i].ev = evs[i - 1].ev /\ Offset(f, i) = Offset(evs, i - 1)
      BY <2>4, <2>5, <2>6, <2>7, <2>10
    <3>. QED
      BY <1>1, <1>2, <1>3, <1>5, <2>1, <2>4, <2>7, <3>1
  <2>. QED
    BY <2>4, <2>7, <2>8, <2>9, <2>10
<1>. QED
  BY <1>4, <1>5

LEMMA ExactCancel ==
  ASSUME Own, DeltasExact, NEW e \in Events, NEW p \in Priority, cancel_event(e, p)
  PROVE  DeltasExact'
<1>. SUFFICES ASSUME NEW q \in Priority, NEW i \in DOMAIN m_events'[q]
              PROVE  m_last_run'[q] + Offset(m_events'[q], i) = due'[m_events'[q][i].ev]
  BY DEF DeltasExact
<1>1. PICK evs \in Seq(Entries) : evs = m_events[p]
  BY DEF Own, Types, ListsTyped
<1>2. Len(evs) \in Nat /\ DOMAIN evs = 1 .. Len(evs) /\ IsList(evs)
  BY ListTypes
<1>3. PICK k \in 1 .. Len(evs) : k = Min(Positions(evs, e)) /\ evs[k].ev = e
  <2>1. Positions(evs, e) \in SUBSET Nat /\ Positions(evs, e) # {}
    BY <1>1, <1>2 DEF cancel_event, Positions
  <2>2. Min(Positions(evs, e)) \in Positions(evs, e)
    BY <2>1, MinInSet
  <2>. QED
    BY <2>2 DEF Positions
<1>4. /\ m_events' = [m_events EXCEPT ![p] = RemoveAt(evs, k)]
      /\ due' = [due EXCEPT ![e] = 0] /\ UNCHANGED m_last_run
  BY <1>1, <1>3 DEF cancel_event
<1>5. m_events \in [Priority -> Seq(Entries)] /\ due \in [Events -> Nat]
  BY DEF Own, Types, ListsTyped, GhostTypes
<1>6. prio[e] = p
  BY <1>1, <1>2, <1>3, EntriesPending
<1>7. \A j \in DOMAIN m_events[q] :
        /\ m_events[q][j].ev \in Events /\ prio[m_events[q][j].ev] = q
        /\ m_last_run[q] + Offset(m_events[q], j) = due[m_events[q][j].ev]
  BY EntriesPending DEF DeltasExact
<1>8. CASE q # p
  <2>1. m_events'[q] = m_events[q] /\ \A j \in DOMAIN m_events[q] : m_events[q][j].ev # e
    BY <1>4, <1>5, <1>6, <1>7, <1>8
  <2>. QED
    BY <1>4, <1>5, <1>7, <2>1
<1>9. CASE q = p
  <2>1. PICK f : f = RemoveAt(evs, k)
    OBVIOUS
  <2>2. /\ DOMAIN f = 1 .. Len(evs) - 1
        /\ \A j \in 1 .. Len(evs) - 1 : f[j].ev = IF j < k THEN evs[j].ev ELSE evs[j + 1].ev
    BY <1>2, <2>1, RemoveAtList
  <2>3. \A j \in 0 .. Len(evs) - 1 :
          Offset(f, j) = IF j < k THEN Offset(evs, j) ELSE Offset(evs, j + 1)
    BY <2>1, RemoveOffsets
  <2>4. m_events'[q] = f /\ i \in 1 .. Len(evs) - 1 /\ m_last_run'[q] = m_last_run[p]
    BY <1>4, <1>5, <1>9, <2>1, <2>2
  <2>5. \A j \in 1 .. Len(evs) : j # k =>
          evs[j].ev # e /\ evs[j].ev \in Events
          /\ m_last_run[p] + Offset(evs, j) = due[evs[j].ev]
    BY <1>1, <1>2, <1>3, <1>7, <1>9, EntriesPending
  <2>6. PICK j \in 1 .. Len(evs) : j # k /\ f[i].ev = evs[j].ev /\ Offset(f, i) = Offset(evs, j)
    <3>1. CASE i < k
      <4>1. i \in 1 .. Len(evs) /\ i # k /\ i \in 0 .. Len(evs) - 1
        BY <1>2, <2>4, <3>1
      <4>. QED
        BY <2>2, <2>3, <2>4, <3>1, <4>1
    <3>2. CASE ~(i < k)
      <4>1. i + 1 \in 1 .. Len(evs) /\ i + 1 # k /\ i \in 0 .. Len(evs) - 1
        BY <1>2, <2>4, <3>2
      <4>2. f[i].ev = evs[i + 1].ev /\ Offset(f, i) = Offset(evs, i + 1)
        BY <2>2, <2>3, <2>4, <3>2, <4>1
      <4>. QED
        BY <4>1, <4>2
    <3>. QED
      BY <3>1, <3>2
  <2>. QED
    BY <1>4, <1>5, <2>4, <2>5, <2>6
<1>. QED
  BY <1>8, <1>9

\* execute(): if the clock was set back below the last execute(), the delta wraps
\* around and every event becomes ready.
LEMMA ExactExecute ==
  ASSUME Own, DeltasExact, EventsAvailable
  PROVE  DeltasExact'
<1>. SUFFICES ASSUME NEW q \in Priority, NEW i \in DOMAIN m_events'[q]
              PROVE  m_last_run'[q] + Offset(m_events'[q], i) = due'[m_events'[q][i].ev]
  BY DEF DeltasExact
<1>1. level \in Priority /\ now \in 0 .. MaxNow /\ m_last_run \in [Priority -> 0 .. MaxNow]
      /\ m_events \in [Priority -> Seq(Entries)]
  BY DEF Own, Types, TimerTypes, ListsTyped, WorkerTypes
<1>2. CASE run_queue[level] # << >>
  <2>1. UNCHANGED <<m_events, m_last_run, due>>
    BY <1>2 DEF EventsAvailable, queues
  <2>. QED
    BY <2>1 DEF DeltasExact
<1>3. CASE run_queue[level] = << >>
  <2>1. PICK evs \in Seq(Entries) : evs = m_events[level]
    BY <1>1
  <2>2. PICK last \in 0 .. MaxNow : last = m_last_run[level]
    BY <1>1
  <2>3. PICK delta \in Nat : /\ delta = Delta(now, last)
                             /\ last <= now => delta = now - last
                             /\ now < last => delta = (now - last) + WORD
    BY <1>1, DeltaIs
  <2>4. PICK n \in 0 .. Len(evs) : n = ReadyCount(evs, delta) /\ (n < Len(evs) => delta < Offset(evs, n + 1))
    BY ReadyIsRight
  <2>5. PICK f : f = Remaining(evs, n, delta)
    OBVIOUS
  <2>6. /\ m_events' = [m_events EXCEPT ![level] = f]
        /\ m_last_run' = [m_last_run EXCEPT ![level] = now]
        /\ due' = [e \in Events |-> IF \E j \in 1 .. n : evs[j].ev = e THEN 0 ELSE due[e]]
    BY <1>3, <2>1, <2>2, <2>3, <2>4, <2>5 DEF EventsAvailable
  <2>7. Len(evs) \in Nat /\ DOMAIN evs = 1 .. Len(evs) /\ IsList(evs)
    BY ListTypes
  <2>8. \A j \in 1 .. Len(evs) :
          /\ evs[j].ev \in Events /\ prio[evs[j].ev] = level
          /\ last + Offset(evs, j) = due[evs[j].ev]
          /\ \A k \in 1 .. Len(evs) : evs[j].ev = evs[k].ev => j = k
    <3>1. \A j \in DOMAIN m_events[level] :
            /\ m_events[level][j].ev \in Events /\ prio[m_events[level][j].ev] = level
            /\ \A k \in DOMAIN m_events[level] : m_events[level][j].ev = m_events[level][k].ev => j = k
      BY <1>1, EntriesPending
    <3>2. \A j \in DOMAIN m_events[level] :
            m_last_run[level] + Offset(m_events[level], j) = due[m_events[level][j].ev]
      BY <1>1 DEF DeltasExact
    <3>. QED
      BY <2>1, <2>2, <2>7, <3>1, <3>2
  <2>9. CASE q # level
    <3>1. m_events'[q] = m_events[q] /\ m_last_run'[q] = m_last_run[q]
      BY <1>1, <2>6, <2>9
    <3>2. /\ m_events[q][i].ev \in Events /\ prio[m_events[q][i].ev] = q
          /\ m_last_run[q] + Offset(m_events[q], i) = due[m_events[q][i].ev]
      BY <3>1, EntriesPending DEF DeltasExact
    <3>3. \A j \in 1 .. n : evs[j].ev # m_events[q][i].ev
      BY <2>7, <2>8, <2>9, <3>2
    <3>. QED
      BY <2>6, <3>1, <3>2, <3>3
  <2>10. CASE q = level
    <3>1. /\ DOMAIN f = 1 .. Len(evs) - n
          /\ \A j \in 1 .. Len(evs) - n : f[j].ev = evs[n + j].ev
      BY <2>5, <2>7, RemainingList
    <3>2. \A j \in 1 .. Len(evs) - n : Offset(f, j) = Offset(evs, n + j) - delta
      BY <2>4, <2>5, RemainingOffsets
    <3>3. m_events'[q] = f /\ m_last_run'[q] = now /\ i \in 1 .. Len(evs) - n
      BY <1>1, <2>6, <2>10, <3>1
    <3>4. PICK k \in 1 .. Len(evs) : k = n + i
      BY <2>7, <3>3
    <3>5. \A j \in 1 .. n : j \in 1 .. Len(evs) /\ j # k
      BY <2>7, <3>3, <3>4
    <3>6. \A j \in 1 .. n : evs[j].ev # evs[k].ev
      BY <2>8, <3>5
    <3>7. due'[evs[k].ev] = due[evs[k].ev]
      BY <2>6, <2>8, <3>6
    <3>8. PICK o \in Nat : o = Offset(evs, k)
      BY <2>7, OffsetTypes
    <3>9. Offset(f, i) = o - delta /\ last + o = due[evs[k].ev] /\ f[i].ev = evs[k].ev
      BY <2>8, <3>1, <3>2, <3>3, <3>4, <3>8
    <3>10. last <= now
      <4>. SUFFICES ASSUME now < last PROVE FALSE
        BY <1>1
      <4>1. n < Len(evs) /\ n + 1 \in 1 .. Len(evs)
        BY <2>7, <3>3
      <4>2. PICK r \in Nat : r = Offset(evs, n + 1) /\ delta < r
        BY <2>4, <2>7, <4>1, OffsetTypes
      <4>3. PICK d \in Nat : d = due[evs[n + 1].ev] /\ d <= MaxNow
        BY <2>8, <4>1 DEF Own, Types, GhostTypes
      <4>4. last + r = d
        BY <2>8, <4>1, <4>2, <4>3
      <4>. QED
        BY <1>1, <2>3, <4>2, <4>3, <4>4, MaxNowAssumption, WordAssumption
    <3>11. now + (o - delta) = last + o
      BY <1>1, <2>3, <3>10
    <3>. QED
      BY <3>3, <3>7, <3>9, <3>11
  <2>. QED
    BY <2>9, <2>10
<1>. QED
  BY <1>2, <1>3

LEMMA ExactStep == Own /\ DeltasExact /\ [Next]_vars => DeltasExact'
<1>. SUFFICES ASSUME Own, DeltasExact, [Next]_vars PROVE DeltasExact'
  OBVIOUS
<1>1. ASSUME UNCHANGED <<m_events, m_last_run, due>> PROVE DeltasExact'
  BY <1>1 DEF DeltasExact
<1>2. ASSUME cancel_all_events PROVE DeltasExact'
  BY <1>2, EmptyLists, EmptySeq DEF cancel_all_events, DeltasExact
<1>3. ASSUME Wake \/ LockRedraw \/ Relock \/ EventFired \/ GetDrift \/ Skew \/ UnlockRedraw
             \/ (\E p \in Priority : ServeEvent(p)) \/ (\E b \in BOOLEAN : set_observer(b))
             \/ stop \/ Clock \/ UNCHANGED vars
      PROVE  UNCHANGED <<m_events, m_last_run, due>>
  BY <1>3 DEF Wake, LockRedraw, Relock, EventFired, GetDrift, Skew, UnlockRedraw, ServeEvent,
              set_observer, stop, Clock, Tick, SetTime, SetDrift, vars, queues, ghosts
<1>. QED
  BY <1>1, <1>2, <1>3, ExactAdd, ExactCancel, ExactExecute DEF Next, Worker, Clients

LEMMA AlwaysOwn == Spec => []Own
<1>1. Spec => []Types
  BY TypesInit, TypesStep, PTL DEF Spec
<1>2. Spec => []OwnInv
  BY InitOwn, NextOwn, PTL DEF Spec
<1>3. Types /\ OwnInv => Own
  BY DEF Own
<1>. QED
  BY <1>1, <1>2, <1>3, PTL

\* For any sequence of insertions, cancellations and executions, and a clock that
\* may be set back at any time, the deltas of an event add up to its time.
THEOREM DeltasAreExact == Spec => []DeltasExact
<1>1. Init => DeltasExact
  BY EmptyLists, EmptySeq DEF Init, DeltasExact
<1>. QED
  BY <1>1, ExactStep, AlwaysOwn, PTL DEF Spec


-----------------------------------------------------------------------------
\* What the worker knows of the queues it has looked at: nothing is ready, and
\* nothing is due now, because nobody can add an event before m_lock is released.

Fresh(q) == next_event_time(m_events[q]) > 0

CheckInv ==
  /\ pc \in {"lock_redraw", "relock"} => level = 1
  /\ pc \in {"check", "serve"} =>
       \A q \in Priority : q < level => run_queue[q] = << >> /\ Fresh(q)
  /\ pc = "serve" => run_queue[level] # << >>
  /\ pc = "drift" => \A q \in Priority : Fresh(q)

LEMMA FreshExecute ==
  ASSUME Types, EventsAvailable, run_queue'[level] = << >>
  PROVE  next_event_time(m_events'[level]) > 0
<1>1. level \in Priority /\ now \in 0 .. MaxNow /\ m_last_run[level] \in 0 .. MaxNow
      /\ m_events \in [Priority -> Seq(Entries)]
  BY DEF Types, TimerTypes, ListsTyped, WorkerTypes
<1>2. run_queue[level] = << >>
  BY DEF EventsAvailable, queues
<1>3. PICK evs \in Seq(Entries) : evs = m_events[level]
  BY <1>1
<1>4. PICK delta \in Nat : delta = Delta(now, m_last_run[level])
  BY <1>1, DeltaIs
<1>5. PICK n \in 0 .. Len(evs) : n = ReadyCount(evs, delta)
  BY ReadyIsRight
<1>6. PICK f : f = Remaining(evs, n, delta)
  OBVIOUS
<1>7. m_events'[level] = f
  BY <1>1, <1>2, <1>3, <1>4, <1>5, <1>6 DEF EventsAvailable
<1>8. f \in Seq(Entries) /\ Len(f) = Len(evs) - n /\ (n < Len(evs) => f[1].dt > 0) /\ Len(evs) \in Nat
  BY <1>5, <1>6, RemainingOffsets, ListTypes
<1>9. next_event_time(f) > 0
  <2>1. CASE f = << >>
    BY <2>1 DEF next_event_time, LARGE
  <2>2. CASE f # << >>
    <3>1. Len(f) # 0
      BY <1>8, <2>2, EmptySeq
    <3>2. f[1].dt > 0
      BY <1>8, <3>1
    <3>. QED
      BY <2>2, <3>2 DEF next_event_time
  <2>. QED
    BY <2>1, <2>2
<1>. QED
  BY <1>7, <1>9

LEMMA CheckStep == Types /\ CheckInv /\ [Next]_vars => CheckInv'
<1>. SUFFICES ASSUME Types, CheckInv, [Next]_vars PROVE CheckInv'
  OBVIOUS
<1>0. level \in Priority /\ \A q \in Priority : ~(q < 1)
  BY LowestAssumption DEF Types, WorkerTypes, Priority
<1>1. ASSUME Wake \/ LockRedraw \/ Relock \/ EventFired PROVE CheckInv'
  <2>1. pc' \in {"done", "lock_redraw", "relock", "check", "broken"} /\ (pc' = "check" => level' = 1)
        /\ (pc' \in {"lock_redraw", "relock"} => level' = 1)
    BY <1>1, Zenon DEF Wake, LockRedraw, Relock, EventFired, CheckInv
  <2>. QED
    BY <1>0, <2>1 DEF CheckInv
<1>2. ASSUME EventsAvailable PROVE CheckInv'
  <2>1. /\ pc = "check"
        /\ \A q \in Priority : q # level => m_events'[q] = m_events[q] /\ run_queue'[q] = run_queue[q]
    BY <1>2 DEF EventsAvailable, queues, Types, ListsTyped
  <2>2. \A q \in Priority : q < level => run_queue'[q] = << >> /\ next_event_time(m_events'[q]) > 0
    <3>1. \A q \in Priority : q < level => q # level
      BY <1>0 DEF Priority
    <3>. QED
      BY <2>1, <3>1 DEF CheckInv, Fresh
  <2>3. CASE run_queue'[level] # << >> /\ pc' = "serve" /\ level' = level
    BY <2>2, <2>3 DEF CheckInv, Fresh
  <2>4. CASE run_queue'[level] = << >> /\ level < Lowest /\ pc' = "check" /\ level' = level + 1
    <3>1. next_event_time(m_events'[level]) > 0
      BY <1>2, <2>4, FreshExecute
    <3>2. \A q \in Priority : q < level + 1 => q < level \/ q = level
      BY <1>0 DEF Priority
    <3>. QED
      BY <2>2, <2>4, <3>1, <3>2 DEF CheckInv, Fresh
  <2>5. CASE run_queue'[level] = << >> /\ level = Lowest /\ pc' = "drift" /\ level' = level
    <3>1. next_event_time(m_events'[level]) > 0
      BY <1>2, <2>5, FreshExecute
    <3>2. \A q \in Priority : q < level \/ q = level
      BY <1>0, <2>5, LowestAssumption DEF Priority
    <3>. QED
      BY <2>2, <2>5, <3>1, <3>2 DEF CheckInv, Fresh
  <2>. QED
    BY <1>2, <2>3, <2>4, <2>5 DEF EventsAvailable
<1>3. ASSUME (\E p \in Priority : ServeEvent(p)) \/ GetDrift \/ Skew \/ UnlockRedraw PROVE CheckInv'
  <2>1. pc' \in {"fire", "skew", "unlock_redraw", "wait", "broken"}
    BY <1>3 DEF ServeEvent, GetDrift, Skew, UnlockRedraw
  <2>. QED
    BY <2>1 DEF CheckInv
<1>4. ASSUME (\E e \in Events, t \in Delays, p \in Priority : add_event(e, t, p))
             \/ cancel_all_events \/ \E e \in Events, p \in Priority : cancel_event(e, p)
      PROVE  CheckInv'
  <2>1. UNCHANGED <<pc, level, run_queue>> /\ pc \notin {"check", "serve", "drift"}
    BY <1>4 DEF add_event, cancel_all_events, cancel_event, LockFree, Unlocked, worker
  <2>. QED
    BY <2>1 DEF CheckInv
<1>5. ASSUME (\E b \in BOOLEAN : set_observer(b)) \/ stop \/ Clock \/ UNCHANGED vars PROVE CheckInv'
  <2>1. UNCHANGED <<pc, level, run_queue, m_events>>
    BY <1>5 DEF set_observer, stop, Clock, Tick, SetTime, SetDrift, vars, worker, queues
  <2>. QED
    BY <2>1 DEF CheckInv, Fresh
<1>. QED
  BY <1>1, <1>2, <1>3, <1>4, <1>5 DEF Next, Worker, Clients

LEMMA AlwaysChecked == Spec => [](Own /\ DeltasExact /\ CheckInv)
<1>1. Init => CheckInv
  BY DEF Init, CheckInv
<1>2. Own => Types
  BY DEF Own
<1>. QED
  BY <1>1, <1>2, CheckStep, AlwaysOwn, DeltasAreExact, PTL DEF Spec

\* When the worker corrects a positive drift nothing is due, so "up to just before
\* the next event" is not before now, for any clock and any reports of drift.
THEOREM DriftNeverSetsBack == Spec => []NoSetback
<1>1. Own /\ CheckInv => NoSetback
  <2>. SUFFICES ASSUME Own, CheckInv, pc = "drift" PROVE NextEventTime > 0
    BY DEF NoSetback
  <2>1. PICK p \in Priority : NextEventTime = next_event_time(m_events[p])
    BY NextEventTimeIs DEF Own, Types
  <2>. QED
    BY <2>1 DEF CheckInv, Fresh
<1>. QED
  BY <1>1, AlwaysChecked, PTL

\* Only execute() makes an event ready, and serving only one fires it.
LEMMA WhoseStep ==
  ASSUME Types, [Next]_vars, NEW e \in Events, status'[e] # status[e]
  PROVE  /\ status'[e] = "ready" => EventsAvailable
         /\ status'[e] = "firing" => \E p \in Priority : ServeEvent(p)
<1>1. CASE Tick \/ (\E t \in Resets : SetTime(t)) \/ (\E d \in Drifts : SetDrift(d)) \/ stop
           \/ (\E b \in BOOLEAN : set_observer(b)) \/ Wake \/ LockRedraw \/ Relock \/ GetDrift \/ Skew
           \/ UnlockRedraw \/ UNCHANGED vars
  BY <1>1 DEF Tick, SetTime, SetDrift, stop, set_observer, Wake, LockRedraw, Relock, GetDrift, Skew,
              UnlockRedraw, vars, ghosts
<1>2. ASSUME NEW d \in Events, NEW t \in Delays, NEW p \in Priority, add_event(d, t, p)
      PROVE  status'[e] \in {"pending", status[e]}
  BY <1>2 DEF add_event, Types, GhostTypes
<1>3. ASSUME NEW d \in Events, NEW p \in Priority, cancel_event(d, p)
      PROVE  status'[e] \in {"cancelled", status[e]}
  BY <1>3 DEF cancel_event, Types, GhostTypes
<1>4. ASSUME cancel_all_events PROVE status'[e] \in {"cancelled", status[e]}
  BY <1>4 DEF cancel_all_events
<1>5. ASSUME EventFired PROVE status'[e] \in {"fired", status[e]}
  BY <1>5 DEF EventFired, Types, GhostTypes
<1>6. ASSUME EventsAvailable PROVE status'[e] \in {"ready", status[e]}
  BY <1>6 DEF EventsAvailable
<1>7. ASSUME NEW p \in Priority, ServeEvent(p) PROVE status'[e] \in {"firing", status[e]}
  BY <1>7 DEF ServeEvent, Types, GhostTypes
<1>. QED
  BY <1>1, <1>2, <1>3, <1>4, <1>5, <1>6, <1>7 DEF Next, Worker, Clients, Clock

\* Whatever was added or became due while the previous event was fired, the next
\* event is fired only if nothing more urgent is ready or due.
THEOREM MostUrgentFirst == Spec => UrgentFirst
<1>1. ASSUME Own, DeltasExact, CheckInv, [Next]_vars
      PROVE  [\A e, f \in Events :
                status[e] = "ready" /\ status'[e] = "firing" /\ prio[f] < prio[e]
                  => /\ status[f] # "ready"
                     /\ status[f] = "pending" => due[f] > m_last_run[prio[f]]]_vars
  <2>. SUFFICES ASSUME NEW e \in Events, NEW f \in Events, status[e] = "ready", status'[e] = "firing",
                       prio[f] < prio[e]
                PROVE  /\ status[f] # "ready"
                       /\ status[f] = "pending" => due[f] > m_last_run[prio[f]]
    OBVIOUS
  <2>1. PICK p \in Priority : ServeEvent(p)
    BY <1>1, WhoseStep DEF Own
  <2>2. Holds(run_queue[p], Runnable(status, prio, p)) /\ run_queue[p] # << >>
    BY <1>1, <2>1 DEF ServeEvent, Own, OwnInv, QueuesOwn
  <2>3. prio[e] = p
    <3>1. e = Head(run_queue[p])
      BY <1>1, <2>1 DEF ServeEvent, Own, Types, GhostTypes
    <3>2. run_queue[p] \in Seq(Events)
      BY <1>1 DEF Own, Types, ListsTyped
    <3>3. Head(run_queue[p]) = run_queue[p][1] /\ 1 \in DOMAIN run_queue[p]
      BY <2>2, <3>2, EmptySeq, LenProperties
    <3>. QED
      BY <2>2, <3>1, <3>3 DEF Holds, Runnable
  <2>4. PICK q \in Priority : q = prio[f] /\ q < p
    BY <1>1, <2>3 DEF Own, Types, GhostTypes
  <2>5. pc = "serve" /\ level \in Priority /\ run_queue[level] # << >> /\ ~(level < p)
    BY <1>1, <2>1 DEF ServeEvent, CheckInv, Own, Types, WorkerTypes
  <2>6. q < level
    BY <2>4, <2>5 DEF Priority
  <2>7. run_queue[q] = << >> /\ next_event_time(m_events[q]) > 0
    BY <1>1, <2>5, <2>6 DEF CheckInv, Fresh
  <2>8. status[f] # "ready"
    BY <1>1, <2>4, <2>7, EmptyLists DEF Own, OwnInv, QueuesOwn, Holds, Runnable
  <2>9. ASSUME status[f] = "pending" PROVE due[f] > m_last_run[q]
    <3>1. PICK evs \in Seq(Entries) : evs = m_events[q]
      BY <1>1 DEF Own, Types, ListsTyped
    <3>2. PICK i \in DOMAIN evs : evs[i].ev = f
      BY <1>1, <2>4, <2>9, <3>1 DEF Own, OwnInv, TimersOwn, Enumerates, Waiting
    <3>3. i \in 1 .. Len(evs) /\ Len(evs) \in Nat
      BY ListTypes
    <3>4. evs # << >> /\ 1 \in 1 .. Len(evs)
      BY <3>3, EmptySeq
    <3>5. PICK d \in Nat : d = evs[1].dt /\ d > 0
      BY <2>7, <3>1, <3>4, ListTypes DEF next_event_time
    <3>6. PICK o \in Nat : o = Offset(evs, i) /\ d <= o
      BY <3>3, <3>5, OffsetTypes
    <3>7. m_last_run[q] + o = due[f] /\ m_last_run[q] \in 0 .. MaxNow
      BY <1>1, <3>1, <3>2, <3>6 DEF DeltasExact, Own, Types, TimerTypes
    <3>. QED
      BY <3>5, <3>6, <3>7
  <2>. QED
    BY <2>4, <2>8, <2>9
<1>. QED
  BY <1>1, AlwaysChecked, PTL DEF Spec, UrgentFirst
=============================================================================

----------------------------- MODULE ExclProofs -----------------------------
(***************************************************************************)
(* The excl for any number of children and priority classes: its queue and *)
(* the marks of the children agree, and one child has the stage.           *)
(***************************************************************************)
EXTENDS Excl, DataFacts, SequenceTheorems

-----------------------------------------------------------------------------
(* The invariant *)

Worlds == [child : [Children -> ChildType], queue : Seq(Children)]

InQueue(q, c) == \E i \in 1..Len(q) : q[i] = c

Ahead(q, a, b) == \E i, j \in 1..Len(q) : i < j /\ q[i] = a /\ q[j] = b

\* a may wait before b in the queue.
Before(ch, a, b) ==
    /\ a # b
    /\ \/ doc.priority[a] > doc.priority[b]
       \/ doc.priority[a] = doc.priority[b] /\ (ch[b].paused => ch[a].paused)

\* The queue holds the children that are marked, in order.
Queued(w) ==
    /\ \A c \in Children : InQueue(w.queue, c) <=> (w.child[c].paused \/ w.child[c].deferred)
    /\ \A a, b \in Children : Ahead(w.queue, a, b) => Before(w.child, a, b)

\* A paused child is active, and its end does not come while it is paused
\* unless it has an end attribute; a deferred one is not active.
Marked(w) ==
    \A c \in Children :
        /\ w.child[c].paused =>
              /\ w.child[c].state = "active" /\ ~w.child[c].deferred
              /\ w.child[c].interval # "due" \/ doc.explicitEnd[c]
        /\ w.child[c].deferred => w.child[c].state # "active"

Good(w) == w \in Worlds /\ Queued(w) /\ Marked(w)

Turns ==
    /\ doc \in Documents /\ running \in BOOLEAN /\ rounds \in 0..MaxRounds
    /\ starting \subseteq Children /\ elist \subseteq Children
    /\ starting = {} \/ elist = {}
    /\ ~running => Settled /\ \A c \in Children : child[c].state # "active"
    /\ \A c \in starting : child[c].state = "reset"

QueueInv == Turns /\ Good(World)

Alone(w) == \A c, d \in Children : Playing(w.child[c]) /\ Playing(w.child[d]) => c = d

OneFill(w) == \A c, d \in Children : Filled(w.child[c]) /\ Filled(w.child[d]) => c = d

Bare(w) == \A c, d \in Children : ~(Playing(w.child[c]) /\ Filled(w.child[d]))


-----------------------------------------------------------------------------
(* Sequences *)

IsKeep(f, q, S, n) ==
    f = [i \in 0..n |-> IF i = 0 THEN <<>>
                        ELSE IF q[i] \in S THEN Append(f[i - 1], q[i]) ELSE f[i - 1]]

LEMMA KeepExists == ASSUME NEW n \in Nat, NEW q, NEW S PROVE \E f : IsKeep(f, q, S, n)
<1>. DEFINE Then(f, i) == IF q[i] \in S THEN Append(f[i - 1], q[i]) ELSE f[i - 1]
            T == {m \in 0..n : \E f : IsKeep(f, q, S, m)}
<1>1. 0 \in T
  <2>1. IsKeep([i \in 0..0 |-> <<>>], q, S, 0)
    BY DEF IsKeep
  <2>. QED
    BY <2>1
<1>2. ASSUME NEW m \in 0..(n - 1), m \in T PROVE m + 1 \in T
  <2>1. PICK f : IsKeep(f, q, S, m)
    BY <1>2
  <2>2. \A i \in 0..m : f[i] = IF i = 0 THEN <<>> ELSE Then(f, i)
    BY <2>1 DEF IsKeep
  <2>3. PICK x : x = IF q[m + 1] \in S THEN Append(f[m], q[m + 1]) ELSE f[m]
    OBVIOUS
  <2>. DEFINE g == [i \in 0..(m + 1) |-> IF i = m + 1 THEN x ELSE f[i]]
  <2>4. ASSUME NEW i \in 0..(m + 1) PROVE g[i] = IF i = 0 THEN <<>> ELSE Then(g, i)
    <3>1. CASE i = m + 1
      <4>1. i - 1 = m /\ i # 0 /\ m \in 0..(m + 1) /\ m # m + 1
        BY <3>1
      <4>2. g[i] = x /\ g[i - 1] = f[m]
        BY <3>1, <4>1
      <4>. HIDE DEF g
      <4>. QED
        BY <2>3, <3>1, <4>1, <4>2
    <3>2. CASE i # m + 1
      <4>1. i \in 0..m /\ g[i] = f[i]
        BY <3>2
      <4>2. i # 0 => g[i - 1] = f[i - 1]
        BY <4>1
      <4>. HIDE DEF g
      <4>. QED
        BY <2>2, <4>1, <4>2
    <3>. QED
      BY <3>1, <3>2
  <2>5. IsKeep(g, q, S, m + 1)
    <3>1. g = [i \in 0..(m + 1) |-> g[i]]
      OBVIOUS
    <3>. HIDE DEF g
    <3>. QED
      BY <2>4, <3>1 DEF IsKeep
  <2>. HIDE DEF g
  <2>. QED
    BY <2>5
<1>3. n \in T
  <2>. HIDE DEF T
  <2>. QED
    BY <1>1, <1>2, SegmentInduction
<1>. QED
  BY <1>3

\* r holds what is in S of the first n elements of q, in the same order.
IsPart(r, q, S, n) ==
    /\ r \in Seq(Children)
    /\ \A k \in 1..n : q[k] \in S => InQueue(r, q[k])
    /\ \A i \in 1..Len(r) : r[i] \in S /\ \E k \in 1..n : q[k] = r[i]
    /\ \A i, j \in 1..Len(r) : i < j => \E k, l \in 1..n : k < l /\ q[k] = r[i] /\ q[l] = r[j]

LEMMA PartAppend ==
  ASSUME NEW q \in Seq(Children), NEW S, NEW r, NEW n \in 0..(Len(q) - 1), IsPart(r, q, S, n)
  PROVE  IsPart(IF q[n + 1] \in S THEN Append(r, q[n + 1]) ELSE r, q, S, n + 1)
<1>1. Len(q) \in Nat /\ n + 1 \in 1..Len(q) /\ q[n + 1] \in Children
  BY LenProperties, ElementOfSeq
<1>2. \A k \in 1..(n + 1) : k \in 1..n \/ k = n + 1
  OBVIOUS
<1>3. \A k \in 1..n : k \in 1..(n + 1) /\ k < n + 1 /\ n + 1 \in 1..(n + 1)
  OBVIOUS
<1>4. n + 1 \in 1..(n + 1)
  OBVIOUS
<1>5. CASE q[n + 1] \notin S
  BY <1>2, <1>3, <1>5 DEF IsPart
<1>6. CASE q[n + 1] \in S
  <2>1. PICK p : p = Append(r, q[n + 1])
    OBVIOUS
  <2>2. r \in Seq(Children) /\ Len(r) \in Nat
    BY LenProperties DEF IsPart
  <2>3. /\ p \in Seq(Children) /\ Len(p) = Len(r) + 1 /\ p[Len(r) + 1] = q[n + 1]
        /\ \A i \in 1..Len(r) : p[i] = r[i]
    BY <1>1, <2>1, <2>2, AppendProperties
  <2>4. \A i \in 1..Len(p) : i \in 1..Len(r) \/ i = Len(r) + 1
    BY <2>2, <2>3
  <2>5. \A k \in 1..(n + 1) : q[k] \in S => InQueue(p, q[k])
    <3>1. ASSUME NEW c, InQueue(r, c) PROVE InQueue(p, c)
      <4>1. PICK i \in 1..Len(r) : r[i] = c
        BY <3>1 DEF InQueue
      <4>2. i \in 1..Len(p) /\ p[i] = c
        BY <2>2, <2>3, <4>1
      <4>. QED
        BY <4>2 DEF InQueue
    <3>2. InQueue(p, q[n + 1])
      <4>1. Len(r) + 1 \in 1..Len(p)
        BY <2>2, <2>3
      <4>. QED
        BY <2>3, <4>1 DEF InQueue
    <3>. QED
      BY <1>2, <3>1, <3>2 DEF IsPart
  <2>6. \A i \in 1..Len(p) : p[i] \in S /\ \E k \in 1..(n + 1) : q[k] = p[i]
    <3>1. ASSUME NEW i \in 1..Len(r) PROVE p[i] \in S /\ \E k \in 1..(n + 1) : q[k] = p[i]
      BY <1>3, <2>3 DEF IsPart
    <3>2. p[Len(r) + 1] \in S /\ \E k \in 1..(n + 1) : q[k] = p[Len(r) + 1]
      BY <1>4, <1>6, <2>3
    <3>. QED
      BY <2>4, <3>1, <3>2
  <2>7. ASSUME NEW i \in 1..Len(p), NEW j \in 1..Len(p), i < j
        PROVE  \E k, l \in 1..(n + 1) : k < l /\ q[k] = p[i] /\ q[l] = p[j]
    <3>1. i \in 1..Len(r)
      BY <2>2, <2>4, <2>7
    <3>2. CASE j \in 1..Len(r)
      <4>1. PICK k \in 1..n, l \in 1..n : k < l /\ q[k] = r[i] /\ q[l] = r[j]
        BY <2>7, <3>1, <3>2 DEF IsPart
      <4>. QED
        BY <1>3, <2>3, <3>1, <3>2, <4>1
    <3>3. CASE j = Len(r) + 1
      <4>1. PICK k \in 1..n : q[k] = r[i]
        BY <3>1 DEF IsPart
      <4>2. k \in 1..(n + 1) /\ k < n + 1
        BY <4>1
      <4>. QED
        BY <1>4, <2>3, <3>1, <3>3, <4>1, <4>2
    <3>. QED
      BY <2>4, <3>2, <3>3
  <2>8. IsPart(p, q, S, n + 1)
    BY <2>3, <2>5, <2>6, <2>7 DEF IsPart
  <2>. QED
    BY <1>6, <2>1, <2>8
<1>. QED
  BY <1>5, <1>6

LEMMA KeepIsPart ==
  ASSUME NEW q \in Seq(Children), NEW S PROVE IsPart(Keep(q, S), q, S, Len(q))
<1>. DEFINE f == CHOOSE f : IsKeep(f, q, S, Len(q))
            T == {n \in 0..Len(q) : IsPart(f[n], q, S, n)}
<1>0. Len(q) \in Nat
  BY LenProperties
<1>1. IsKeep(f, q, S, Len(q))
  BY <1>0, KeepExists
<1>2. Keep(q, S) = f[Len(q)]
  BY DEF Keep, IsKeep
<1>. HIDE DEF f
<1>3. /\ f[0] = <<>>
      /\ \A i \in 1..Len(q) : f[i] = IF q[i] \in S THEN Append(f[i - 1], q[i]) ELSE f[i - 1]
  <2>1. \A i \in 0..Len(q) :
            f[i] = IF i = 0 THEN <<>>
                   ELSE IF q[i] \in S THEN Append(f[i - 1], q[i]) ELSE f[i - 1]
    BY <1>1 DEF IsKeep
  <2>2. 0 \in 0..Len(q) /\ \A i \in 1..Len(q) : i \in 0..Len(q) /\ i # 0
    BY <1>0
  <2>. QED
    BY <2>1, <2>2
<1>4. 0 \in T
  <2>1. <<>> \in Seq(Children) /\ Len(<<>>) = 0
    BY EmptySeq
  <2>2. 0 \in 0..Len(q) /\ 1..0 = {}
    BY <1>0
  <2>3. IsPart(<<>>, q, S, 0)
    BY <2>1, <2>2 DEF IsPart
  <2>. QED
    BY <1>3, <2>2, <2>3
<1>5. ASSUME NEW n \in 0..(Len(q) - 1), n \in T PROVE n + 1 \in T
  <2>1. n + 1 \in 1..Len(q) /\ (n + 1) - 1 = n /\ n + 1 \in 0..Len(q)
    BY <1>0
  <2>2. f[n + 1] = IF q[n + 1] \in S THEN Append(f[n], q[n + 1]) ELSE f[n]
    BY <1>3, <2>1
  <2>. QED
    BY <1>5, <2>1, <2>2, PartAppend
<1>6. Len(q) \in T
  <2>. HIDE DEF T
  <2>1. \A n \in 0..Len(q) : n \in T
    BY <1>0, <1>4, <1>5, SegmentInduction
  <2>. QED
    BY <1>0, <2>1
<1>. QED
  BY <1>2, <1>6


LEMMA KeepFacts ==
  ASSUME NEW q \in Seq(Children), NEW S
  PROVE  /\ Keep(q, S) \in Seq(Children)
         /\ \A c : InQueue(Keep(q, S), c) <=> InQueue(q, c) /\ c \in S
         /\ \A a, b : Ahead(Keep(q, S), a, b) => Ahead(q, a, b)
<1>1. PICK r : r = Keep(q, S)
  OBVIOUS
<1>2. IsPart(r, q, S, Len(q))
  BY <1>1, KeepIsPart
<1>3. /\ \A k \in 1..Len(q) : q[k] \in S => InQueue(r, q[k])
      /\ \A i \in 1..Len(r) : r[i] \in S /\ \E k \in 1..Len(q) : q[k] = r[i]
      /\ \A i, j \in 1..Len(r) :
            i < j => \E k, l \in 1..Len(q) : k < l /\ q[k] = r[i] /\ q[l] = r[j]
  BY <1>2 DEF IsPart
<1>4. \A c : InQueue(r, c) => InQueue(q, c) /\ c \in S
  BY <1>3 DEF InQueue
<1>5. \A c : InQueue(q, c) /\ c \in S => InQueue(r, c)
  BY <1>3 DEF InQueue
<1>6. ASSUME NEW a, NEW b, Ahead(r, a, b) PROVE Ahead(q, a, b)
  <2>1. PICK i \in 1..Len(r), j \in 1..Len(r) : i < j /\ r[i] = a /\ r[j] = b
    BY <1>6 DEF Ahead
  <2>2. PICK k \in 1..Len(q), l \in 1..Len(q) : k < l /\ q[k] = r[i] /\ q[l] = r[j]
    BY <1>3, <2>1
  <2>. QED
    BY <2>1, <2>2 DEF Ahead
<1>. QED
  BY <1>1, <1>2, <1>4, <1>5, <1>6 DEF IsPart

LEMMA WithoutFacts ==
  ASSUME NEW q \in Seq(Children), NEW c
  PROVE  /\ Without(q, c) \in Seq(Children)
         /\ \A d \in Children : InQueue(Without(q, c), d) <=> InQueue(q, d) /\ d # c
         /\ \A a, b \in Children : Ahead(Without(q, c), a, b) => Ahead(q, a, b) /\ a # c /\ b # c
<1>1. PICK r : r = Without(q, c)
  OBVIOUS
<1>2. /\ r \in Seq(Children)
      /\ \A d : InQueue(r, d) <=> InQueue(q, d) /\ d \in Children \ {c}
      /\ \A a, b : Ahead(r, a, b) => Ahead(q, a, b)
  BY <1>1, KeepFacts DEF Without
<1>3. \A a, b : Ahead(r, a, b) => InQueue(r, a) /\ InQueue(r, b)
  BY DEF Ahead, InQueue
<1>. QED
  BY <1>1, <1>2, <1>3

LEMMA PositionIs ==
  ASSUME NEW q \in Seq(Children), NEW S
  PROVE  /\ Position(q, S) \in 1..(Len(q) + 1)
         /\ Position(q, S) <= Len(q) => q[Position(q, S)] \in S
         /\ \A j \in 1..(Position(q, S) - 1) : q[j] \notin S
<1>. DEFINE T == {k \in 1..Len(q) : q[k] \in S} \cup {Len(q) + 1}
<1>1. Len(q) \in Nat
  BY LenProperties
<1>2. T \in SUBSET Int /\ T # {} /\ 0 \in Int /\ \A x \in T : 0 <= x
  BY <1>1
<1>3. PICK k \in T : \A y \in T : k <= y
  <2>. HIDE DEF T
  <2>. QED
    BY <1>2, HasLeast, Zenon
<1>4. k \in 1..(Len(q) + 1) /\ (k <= Len(q) => q[k] \in S)
  BY <1>1
<1>5. \A j \in 1..(k - 1) : q[j] \notin S
  <2>. SUFFICES ASSUME NEW j \in 1..(k - 1), q[j] \in S PROVE FALSE
    OBVIOUS
  <2>1. j \in 1..Len(q) /\ ~(k <= j)
    BY <1>1, <1>4
  <2>. QED
    BY <1>3, <2>1
<1>. QED
  BY <1>4, <1>5 DEF Position

LEMMA PutAtIs ==
  ASSUME NEW q \in Seq(Children), NEW k \in 1..(Len(q) + 1), NEW c \in Children
  PROVE  /\ PutAt(q, k, c) \in Seq(Children) /\ Len(PutAt(q, k, c)) = Len(q) + 1
         /\ \A j \in 1..(Len(q) + 1) :
               PutAt(q, k, c)[j] = IF j < k THEN q[j] ELSE IF j = k THEN c ELSE q[j - 1]
<1>0. Len(q) \in Nat
  BY LenProperties
<1>1. PICK s : s = SubSeq(q, 1, k - 1)
  OBVIOUS
<1>11. s \in Seq(Children) /\ Len(s) = k - 1 /\ \A j \in 1..(k - 1) : s[j] = q[j]
  <2>1. 1 \in Int /\ k - 1 \in Int /\ \A j \in 1..(k - 1) : q[j] \in Children
    BY <1>0, ElementOfSeq
  <2>2. /\ s \in Seq(Children) /\ Len(s) = IF 1 <= k - 1 THEN (k - 1) - 1 + 1 ELSE 0
        /\ \A j \in 1..((k - 1) - 1 + 1) : s[j] = q[1 + j - 1]
    BY <1>1, <2>1, SubSeqProperties
  <2>. QED
    BY <2>2
<1>2. PICK t : t = SubSeq(q, k, Len(q))
  OBVIOUS
<1>12. /\ t \in Seq(Children) /\ Len(t) = (Len(q) + 1) - k
       /\ \A j \in 1..((Len(q) + 1) - k) : t[j] = q[(k + j) - 1]
  <2>1. k \in Int /\ Len(q) \in Int /\ \A j \in k..Len(q) : q[j] \in Children
    BY <1>0, ElementOfSeq
  <2>2. /\ t \in Seq(Children) /\ Len(t) = IF k <= Len(q) THEN Len(q) - k + 1 ELSE 0
        /\ \A j \in 1..(Len(q) - k + 1) : t[j] = q[k + j - 1]
    BY <1>2, <2>1, SubSeqProperties
  <2>. QED
    BY <1>0, <2>2
<1>3. <<c>> \in Seq(Children) /\ Len(<<c>>) = 1 /\ <<c>>[1] = c
  OBVIOUS
<1>4. PICK u : u = s \o <<c>>
  OBVIOUS
<1>14. u \in Seq(Children) /\ Len(u) = k /\ u[k] = c /\ \A j \in 1..(k - 1) : u[j] = q[j]
  <2>1. /\ u \in Seq(Children) /\ Len(u) = Len(s) + 1
        /\ \A j \in 1..(Len(s) + 1) : u[j] = IF j <= Len(s) THEN s[j] ELSE <<c>>[j - Len(s)]
    BY <1>3, <1>4, <1>11, ConcatProperties
  <2>2. k \in 1..(Len(s) + 1) /\ ~(k <= Len(s)) /\ k - Len(s) = 1 /\ Len(s) + 1 = k
    BY <1>11
  <2>3. \A j \in 1..(k - 1) : j \in 1..(Len(s) + 1) /\ j <= Len(s)
    BY <1>11
  <2>. QED
    BY <1>3, <1>11, <2>1, <2>2, <2>3
<1>5. PICK p : p = u \o t
  OBVIOUS
<1>15. /\ p \in Seq(Children) /\ Len(p) = Len(q) + 1
       /\ \A j \in 1..(Len(q) + 1) : p[j] = IF j <= k THEN u[j] ELSE t[j - k]
  <2>1. /\ p \in Seq(Children) /\ Len(p) = Len(u) + Len(t)
        /\ \A j \in 1..(Len(u) + Len(t)) : p[j] = IF j <= Len(u) THEN u[j] ELSE t[j - Len(u)]
    BY <1>5, <1>12, <1>14, ConcatProperties
  <2>2. Len(u) = k /\ Len(u) + Len(t) = Len(q) + 1
    BY <1>0, <1>12, <1>14
  <2>. QED
    BY <2>1, <2>2
<1>6. p = PutAt(q, k, c)
  BY <1>1, <1>2, <1>4, <1>5 DEF PutAt
<1>7. ASSUME NEW j \in 1..(Len(q) + 1)
      PROVE  p[j] = IF j < k THEN q[j] ELSE IF j = k THEN c ELSE q[j - 1]
  <2>1. CASE j < k
    BY <1>14, <1>15, <2>1
  <2>2. CASE j = k
    <3>1. j <= k /\ ~(j < k)
      BY <2>2
    <3>. QED
      BY <1>14, <1>15, <2>2, <3>1
  <2>3. CASE j > k
    <3>1. j - k \in 1..((Len(q) + 1) - k) /\ (k + (j - k)) - 1 = j - 1
      BY <1>0, <2>3
    <3>2. t[j - k] = q[j - 1]
      BY <1>12, <3>1
    <3>3. ~(j <= k) /\ ~(j < k) /\ j # k
      BY <2>3
    <3>. QED
      BY <1>15, <3>2, <3>3
  <2>. QED
    BY <2>1, <2>2, <2>3
<1>. QED
  BY <1>6, <1>7, <1>15

\* c is inserted before the first element in S.
LEMMA PutFacts ==
  ASSUME NEW q \in Seq(Children), NEW S, NEW c \in Children
  PROVE  LET p == PutAt(q, Position(q, S), c)
         IN  /\ p \in Seq(Children)
             /\ \A d : InQueue(p, d) <=> InQueue(q, d) \/ d = c
             /\ \A a, b : Ahead(p, a, b) =>
                   \/ Ahead(q, a, b)
                   \/ b = c /\ InQueue(q, a) /\ a \notin S
                   \/ a = c /\ InQueue(q, b) /\ (b \in S \/ \E s \in S : Ahead(q, s, b))
<1>0. Len(q) \in Nat
  BY LenProperties
<1>1. PICK k \in 1..(Len(q) + 1) : /\ k = Position(q, S) /\ (k <= Len(q) => q[k] \in S)
                                   /\ \A j \in 1..(k - 1) : q[j] \notin S
  BY PositionIs
<1>2. PICK p \in Seq(Children) :
        /\ p = PutAt(q, k, c) /\ Len(p) = Len(q) + 1
        /\ \A j \in 1..(Len(q) + 1) : p[j] = IF j < k THEN q[j] ELSE IF j = k THEN c ELSE q[j - 1]
  BY PutAtIs
<1>3. ASSUME NEW d, InQueue(p, d) PROVE InQueue(q, d) \/ d = c
  <2>1. PICK j \in 1..(Len(q) + 1) : p[j] = d
    BY <1>2, <1>3 DEF InQueue
  <2>2. CASE j < k
    BY <1>0, <1>2, <2>1, <2>2 DEF InQueue
  <2>3. CASE j > k
    <3>1. j - 1 \in 1..Len(q) /\ p[j] = q[j - 1]
      BY <1>0, <1>2, <2>3
    <3>. QED
      BY <2>1, <3>1 DEF InQueue
  <2>. QED
    BY <1>2, <2>1, <2>2, <2>3
<1>4. ASSUME NEW d, InQueue(q, d) \/ d = c PROVE InQueue(p, d)
  <2>1. CASE d = c
    BY <1>2, <2>1 DEF InQueue
  <2>2. CASE InQueue(q, d)
    <3>1. PICK j \in 1..Len(q) : q[j] = d
      BY <2>2 DEF InQueue
    <3>2. CASE j < k
      <4>1. j \in 1..(Len(q) + 1) /\ p[j] = d
        BY <1>0, <1>2, <3>1, <3>2
      <4>. QED
        BY <1>2, <4>1 DEF InQueue
    <3>3. CASE ~(j < k)
      <4>1. j + 1 \in 1..(Len(q) + 1) /\ (j + 1) - 1 = j /\ ~(j + 1 < k) /\ j + 1 # k
        BY <1>0, <3>1, <3>3
      <4>2. p[j + 1] = d
        BY <1>2, <3>1, <4>1
      <4>. QED
        BY <1>2, <4>1, <4>2 DEF InQueue
    <3>. QED
      BY <3>2, <3>3
  <2>. QED
    BY <1>4, <2>1, <2>2
<1>5. ASSUME NEW a, NEW b, Ahead(p, a, b)
      PROVE  \/ Ahead(q, a, b)
             \/ b = c /\ InQueue(q, a) /\ a \notin S
             \/ a = c /\ InQueue(q, b) /\ (b \in S \/ \E s \in S : Ahead(q, s, b))
  <2>1. PICK i \in 1..(Len(q) + 1), j \in 1..(Len(q) + 1) : i < j /\ p[i] = a /\ p[j] = b
    BY <1>2, <1>5 DEF Ahead
  <2>2. CASE j < k
    <3>1. i \in 1..Len(q) /\ j \in 1..Len(q) /\ q[i] = a /\ q[j] = b
      BY <1>0, <1>2, <2>1, <2>2
    <3>. QED
      BY <2>1, <3>1 DEF Ahead
  <2>3. CASE j = k
    <3>1. i \in 1..(k - 1) /\ i \in 1..Len(q) /\ q[i] = a /\ b = c
      BY <1>0, <1>2, <2>1, <2>3
    <3>. QED
      BY <1>1, <3>1 DEF InQueue
  <2>4. CASE j > k /\ i < k
    <3>1. i \in 1..Len(q) /\ j - 1 \in 1..Len(q) /\ i < j - 1 /\ q[i] = a /\ q[j - 1] = b
      BY <1>0, <1>2, <2>1, <2>4
    <3>. QED
      BY <3>1 DEF Ahead
  <2>5. CASE i = k
    <3>1. j - 1 \in 1..Len(q) /\ q[j - 1] = b /\ k <= j - 1 /\ a = c /\ k \in 1..Len(q)
      BY <1>0, <1>2, <2>1, <2>5
    <3>2. InQueue(q, b)
      BY <3>1 DEF InQueue
    <3>3. CASE k = j - 1
      BY <1>1, <3>1, <3>2, <3>3
    <3>4. CASE k # j - 1
      <4>1. k < j - 1 /\ q[k] \in S
        BY <1>1, <3>1, <3>4
      <4>2. Ahead(q, q[k], b)
        BY <3>1, <4>1 DEF Ahead
      <4>. QED
        BY <3>1, <3>2, <4>1, <4>2
    <3>. QED
      BY <3>3, <3>4
  <2>6. CASE i > k
    <3>1. /\ i - 1 \in 1..Len(q) /\ j - 1 \in 1..Len(q) /\ i - 1 < j - 1
          /\ q[i - 1] = a /\ q[j - 1] = b
      BY <1>0, <1>2, <2>1, <2>6
    <3>. QED
      BY <3>1 DEF Ahead
  <2>. QED
    BY <2>1, <2>2, <2>3, <2>4, <2>5, <2>6
<1>. QED
  BY <1>1, <1>2, <1>3, <1>4, <1>5

LEMMA TailFacts ==
  ASSUME NEW q \in Seq(Children), q # <<>>
  PROVE  /\ Head(q) \in Children /\ InQueue(q, Head(q)) /\ Tail(q) \in Seq(Children)
         /\ \A d : InQueue(q, d) <=> d = Head(q) \/ InQueue(Tail(q), d)
         /\ \A d : InQueue(Tail(q), d) => Ahead(q, Head(q), d)
         /\ \A a, b : Ahead(Tail(q), a, b) => Ahead(q, a, b)
<1>1. Len(q) \in Nat /\ Len(q) # 0 /\ 1 \in 1..Len(q) /\ Head(q) = q[1] /\ q[1] \in Children
  BY LenProperties, EmptySeq, ElementOfSeq
<1>0. PICK t : t = Tail(q)
  OBVIOUS
<1>2. t \in Seq(Children) /\ Len(t) = Len(q) - 1 /\ \A i \in 1..(Len(q) - 1) : t[i] = q[i + 1]
  BY <1>0, HeadTailProperties
<1>3. \A i \in 1..(Len(q) - 1) : i + 1 \in 1..Len(q) /\ 1 < i + 1
  BY <1>1
<1>4. \A i \in 1..Len(q) : i = 1 \/ (i - 1 \in 1..(Len(q) - 1) /\ (i - 1) + 1 = i)
  BY <1>1
<1>5. ASSUME NEW d, InQueue(q, d), d # q[1] PROVE InQueue(t, d)
  <2>1. PICK i \in 1..Len(q) : q[i] = d
    BY <1>5 DEF InQueue
  <2>2. i - 1 \in 1..(Len(q) - 1) /\ t[i - 1] = d
    BY <1>2, <1>4, <1>5, <2>1
  <2>. QED
    BY <1>2, <2>2 DEF InQueue
<1>6. \A d : InQueue(t, d) => Ahead(q, q[1], d) /\ InQueue(q, d)
  BY <1>1, <1>2, <1>3 DEF InQueue, Ahead
<1>7. ASSUME NEW a, NEW b, Ahead(t, a, b) PROVE Ahead(q, a, b)
  <2>1. PICK i \in 1..(Len(q) - 1), j \in 1..(Len(q) - 1) : i < j /\ t[i] = a /\ t[j] = b
    BY <1>2, <1>7 DEF Ahead
  <2>2. i + 1 \in 1..Len(q) /\ j + 1 \in 1..Len(q) /\ i + 1 < j + 1 /\ q[i + 1] = a /\ q[j + 1] = b
    BY <1>2, <1>3, <2>1
  <2>. QED
    BY <2>2 DEF Ahead
<1>8. InQueue(q, q[1])
  BY <1>1 DEF InQueue
<1>. QED
  BY <1>0, <1>1, <1>2, <1>5, <1>6, <1>7, <1>8


-----------------------------------------------------------------------------
(* The queue and the marks *)

LEMMA DocTypes ==
  ASSUME doc \in DocumentType
  PROVE  \A c \in Children : doc.priority[c] \in Int /\ doc.priority[c] \in Classes
BY SizesAssumption DEF DocumentType, Classes

SameMarks(w, v, d) ==
    /\ v.child[d].paused <=> w.child[d].paused
    /\ v.child[d].deferred <=> w.child[d].deferred

Unmarked(v, d) == ~v.child[d].paused /\ ~v.child[d].deferred

LEMMA MarksKept ==
  ASSUME NEW w, Good(w), NEW v \in Worlds, Marked(v), v.queue = w.queue,
         \A d \in Children : SameMarks(w, v, d)
  PROVE  Good(v)
<1>1. \A c \in Children : InQueue(v.queue, c) <=> (v.child[c].paused \/ v.child[c].deferred)
  BY DEF Good, Queued, SameMarks
<1>2. \A a, b \in Children : Ahead(v.queue, a, b) => Before(v.child, a, b)
  BY DEF Good, Queued, SameMarks, Before
<1>. QED
  BY <1>1, <1>2 DEF Good, Queued

LEMMA SomeLeave ==
  ASSUME NEW w, Good(w), NEW v \in Worlds, Marked(v), NEW S \in SUBSET Children,
         v.queue = Keep(w.queue, S),
         \A d \in S : SameMarks(w, v, d), \A d \in Children \ S : Unmarked(v, d)
  PROVE  Good(v)
<1>0. w.queue \in Seq(Children)
  BY DEF Good, Worlds
<1>1. /\ \A c : InQueue(v.queue, c) <=> InQueue(w.queue, c) /\ c \in S
      /\ \A a, b : Ahead(v.queue, a, b) => Ahead(w.queue, a, b)
  BY <1>0, KeepFacts
<1>2. \A a, b : Ahead(v.queue, a, b) => InQueue(v.queue, a) /\ InQueue(v.queue, b)
  BY DEF Ahead, InQueue
<1>3. \A c \in Children : InQueue(v.queue, c) <=> (v.child[c].paused \/ v.child[c].deferred)
  BY <1>1 DEF Good, Queued, SameMarks, Unmarked
<1>4. ASSUME NEW a \in Children, NEW b \in Children, Ahead(v.queue, a, b)
      PROVE  Before(v.child, a, b)
  <2>1. Before(w.child, a, b) /\ a \in S /\ b \in S
    BY <1>1, <1>2, <1>4 DEF Good, Queued
  <2>. QED
    BY <2>1 DEF SameMarks, Before
<1>. QED
  BY <1>3, <1>4 DEF Good, Queued

LEMMA OneLeaves ==
  ASSUME NEW w, Good(w), NEW v \in Worlds, Marked(v), NEW c \in Children,
         v.queue = Without(w.queue, c), Unmarked(v, c),
         \A d \in Children \ {c} : SameMarks(w, v, d)
  PROVE  Good(v)
<1>1. PICK S \in SUBSET Children : S = Children \ {c}
  OBVIOUS
<1>2. v.queue = Keep(w.queue, S) /\ \A d \in Children \ S : Unmarked(v, d)
  BY <1>1 DEF Without
<1>. QED
  BY <1>1, <1>2, SomeLeave

LEMMA FirstLeaves ==
  ASSUME NEW w, Good(w), NEW v \in Worlds, Marked(v), w.queue # <<>>,
         v.queue = Tail(w.queue), Unmarked(v, Head(w.queue)),
         \A d \in Children \ {Head(w.queue)} : SameMarks(w, v, d)
  PROVE  Good(v)
<1>0. w.queue \in Seq(Children)
  BY DEF Good, Worlds
<1>1. PICK h \in Children : h = Head(w.queue)
  BY <1>0, TailFacts
<1>2. /\ \A d : InQueue(w.queue, d) <=> d = h \/ InQueue(v.queue, d)
      /\ \A d : InQueue(v.queue, d) => Ahead(w.queue, h, d)
      /\ \A a, b : Ahead(v.queue, a, b) => Ahead(w.queue, a, b)
  BY <1>0, <1>1, TailFacts
<1>3. ~InQueue(v.queue, h)
  BY <1>2 DEF Good, Queued, Before
<1>4. \A a, b : Ahead(v.queue, a, b) => InQueue(v.queue, a) /\ InQueue(v.queue, b)
  BY DEF Ahead, InQueue
<1>5. \A c \in Children : InQueue(v.queue, c) <=> (v.child[c].paused \/ v.child[c].deferred)
  BY <1>1, <1>2, <1>3 DEF Good, Queued, SameMarks, Unmarked
<1>6. ASSUME NEW a \in Children, NEW b \in Children, Ahead(v.queue, a, b)
      PROVE  Before(v.child, a, b)
  <2>1. Before(w.child, a, b) /\ a # h /\ b # h
    BY <1>2, <1>3, <1>4, <1>6 DEF Good, Queued
  <2>. QED
    BY <1>1, <2>1 DEF SameMarks, Before
<1>. QED
  BY <1>5, <1>6 DEF Good, Queued

\* One child is marked, and put before the first one in S: S has all those of
\* a lower priority and, if it is paused, those of its own.
LEMMA OneJoins ==
  ASSUME doc \in DocumentType,
         NEW w, Good(w), NEW v \in Worlds, Marked(v), NEW c \in Children, NEW S,
         v.queue = PutAt(Without(w.queue, c), Position(Without(w.queue, c), S), c),
         v.child[c].paused \/ v.child[c].deferred,
         \A d \in Children \ {c} : SameMarks(w, v, d),
         \A d \in Children : d \in S <=>
             \/ doc.priority[d] < doc.priority[c]
             \/ doc.priority[d] = doc.priority[c] /\ v.child[c].paused
  PROVE  Good(v)
<1>0. w.queue \in Seq(Children)
  BY DEF Good, Worlds
<1>1. PICK r \in Seq(Children) :
        /\ r = Without(w.queue, c)
        /\ \A d \in Children : InQueue(r, d) <=> InQueue(w.queue, d) /\ d # c
        /\ \A a, b \in Children : Ahead(r, a, b) => Ahead(w.queue, a, b) /\ a # c /\ b # c
  BY <1>0, WithoutFacts
<1>2. /\ \A d : InQueue(v.queue, d) <=> InQueue(r, d) \/ d = c
      /\ \A a, b : Ahead(v.queue, a, b) =>
            \/ Ahead(r, a, b)
            \/ b = c /\ InQueue(r, a) /\ a \notin S
            \/ a = c /\ InQueue(r, b) /\ (b \in S \/ \E s \in S : Ahead(r, s, b))
  BY <1>1, PutFacts
<1>3. \A d \in Children : doc.priority[d] \in Int
  BY DocTypes
<1>4. \A d \in Children : InQueue(v.queue, d) <=> (v.child[d].paused \/ v.child[d].deferred)
  BY <1>1, <1>2 DEF Good, Queued, SameMarks
<1>5. ASSUME NEW a \in Children, NEW b \in Children, Ahead(v.queue, a, b)
      PROVE  Before(v.child, a, b)
  <2>1. CASE Ahead(r, a, b)
    <3>1. Before(w.child, a, b) /\ a # c /\ b # c
      BY <1>1, <2>1 DEF Good, Queued
    <3>. QED
      BY <3>1 DEF SameMarks, Before
  <2>2. CASE b = c /\ InQueue(r, a) /\ a \notin S
    <3>1. a # c
      BY <1>1, <2>2
    <3>2. \/ doc.priority[a] > doc.priority[c]
          \/ doc.priority[a] = doc.priority[c] /\ ~v.child[c].paused
      BY <1>3, <2>2
    <3>. QED
      BY <2>2, <3>1, <3>2 DEF Before
  <2>3. CASE a = c /\ InQueue(r, b) /\ (b \in S \/ \E s \in S : Ahead(r, s, b))
    <3>1. b # c
      BY <1>1, <2>3
    <3>2. CASE b \in S
      BY <1>3, <2>3, <3>1, <3>2 DEF Before
    <3>3. CASE b \notin S
      <4>1. PICK s \in S : Ahead(r, s, b)
        BY <2>3, <3>3
      <4>2. s \in Children
        BY <1>1, <4>1, ElementOfSeq DEF Ahead
      <4>3. Before(w.child, s, b)
        BY <1>1, <4>1, <4>2 DEF Good, Queued
      <4>4. doc.priority[s] <= doc.priority[c] /\ doc.priority[b] <= doc.priority[s]
        BY <1>3, <4>2, <4>3 DEF Before
      <4>5. doc.priority[b] < doc.priority[c] \/ v.child[c].paused
        BY <1>3, <4>2, <4>4
      <4>. QED
        BY <1>3, <2>3, <3>1, <4>2, <4>4, <4>5 DEF Before
    <3>. QED
      BY <3>2, <3>3
  <2>. QED
    BY <1>2, <1>5, <2>1, <2>2, <2>3
<1>. QED
  BY <1>4, <1>5 DEF Good, Queued

LEMMA PausedJoins ==
  ASSUME doc \in DocumentType,
         NEW w, Good(w), NEW v \in Worlds, Marked(v), NEW c \in Children,
         v.queue = PushPause(w.queue, c), v.child[c].paused,
         \A d \in Children \ {c} : SameMarks(w, v, d)
  PROVE  Good(v)
<1>1. PICK S : S = {d \in Children : doc.priority[d] <= doc.priority[c]}
  OBVIOUS
<1>2. v.queue = PutAt(Without(w.queue, c), Position(Without(w.queue, c), S), c)
  BY <1>1 DEF PushPause
<1>3. \A d \in Children : d \in S <=> \/ doc.priority[d] < doc.priority[c]
                                      \/ doc.priority[d] = doc.priority[c] /\ v.child[c].paused
  BY <1>1, DocTypes
<1>. QED
  BY <1>2, <1>3, OneJoins

LEMMA DeferredJoins ==
  ASSUME doc \in DocumentType,
         NEW w, Good(w), NEW v \in Worlds, Marked(v), NEW c \in Children,
         v.queue = PushDefer(w.queue, c), v.child[c].deferred, ~v.child[c].paused,
         \A d \in Children \ {c} : SameMarks(w, v, d)
  PROVE  Good(v)
<1>1. PICK S : S = {d \in Children : doc.priority[d] < doc.priority[c]}
  OBVIOUS
<1>2. v.queue = PutAt(Without(w.queue, c), Position(Without(w.queue, c), S), c)
  BY <1>1 DEF PushDefer
<1>3. \A d \in Children : d \in S <=> \/ doc.priority[d] < doc.priority[c]
                                      \/ doc.priority[d] = doc.priority[c] /\ v.child[c].paused
  BY <1>1, DocTypes
<1>. QED
  BY <1>2, <1>3, OneJoins


-----------------------------------------------------------------------------
(* The handlers *)

Others(w, v, c) == \A d \in Children \ {c} : v.child[d] = w.child[d]

LEMMA ChildSet ==
  ASSUME NEW w \in Worlds, NEW c \in Children, NEW r \in ChildType
  PROVE  LET v == [w EXCEPT !.child[c] = r]
         IN  v \in Worlds /\ v.queue = w.queue /\ v.child[c] = r /\ Others(w, v, c)
BY DEF Worlds, Others

LEMMA OthersMarked ==
  ASSUME NEW w, Good(w), NEW v, NEW c \in Children, Others(w, v, c),
         v.child[c].paused =>
             /\ v.child[c].state = "active" /\ ~v.child[c].deferred
             /\ v.child[c].interval # "due" \/ doc.explicitEnd[c],
         v.child[c].deferred => v.child[c].state # "active"
  PROVE  Marked(v) /\ \A d \in Children \ {c} : SameMarks(w, v, d)
BY DEF Good, Marked, Others, SameMarks

LEMMA ExitActiveIs ==
  ASSUME doc \in DocumentType, NEW w, Good(w), NEW c \in Children, w.child[c].state = "active"
  PROVE  LET v == ExitActive(w, c)
         IN  /\ Good(v) /\ Others(w, v, c) /\ v.child[c].state = "active" /\ Unmarked(v, c)
             /\ v.child[c].interval = "none" /\ v.child[c].played
             /\ v.child[c].shown => w.child[c].shown /\ doc.fill[c] # "remove"
             /\ v.queue \in {w.queue, Without(w.queue, c)}
<1>0. w \in Worlds /\ w.child[c] \in ChildType /\ w.queue \in Seq(Children)
  BY DEF Good, Worlds
<1>1. PICK f \in ChildType : f = Fill(w.child[c], c)
  BY <1>0 DEF Fill, ChildType
<1>2. /\ f.state = "active" /\ f.paused = w.child[c].paused /\ f.deferred = w.child[c].deferred
      /\ f.shown => w.child[c].shown /\ doc.fill[c] # "remove"
  BY <1>0, <1>1 DEF Fill, ChildType
<1>3. PICK u : u = [w EXCEPT !.child[c] = f]
  OBVIOUS
<1>4. u \in Worlds /\ u.queue = w.queue /\ u.child[c] = f /\ Others(w, u, c)
  BY <1>0, <1>3, ChildSet
<1>5. PICK x : x = RaiseEndEvent(u, c)
  OBVIOUS
<1>6. PICK g \in ChildType : g = [f EXCEPT !.paused = FALSE, !.deferred = FALSE]
  BY DEF ChildType
<1>7. /\ x \in Worlds /\ Others(w, x, c) /\ x.child[c] = g
      /\ x.queue = IF f.paused \/ f.deferred THEN Without(w.queue, c) ELSE w.queue
  <2>1. CASE f.paused \/ f.deferred
    <3>1. x = [child |-> [u.child EXCEPT ![c].paused = FALSE, ![c].deferred = FALSE],
               queue |-> Without(w.queue, c)]
      BY <1>4, <1>5, <2>1 DEF RaiseEndEvent
    <3>2. Without(w.queue, c) \in Seq(Children)
      BY <1>0, WithoutFacts
    <3>3. [u.child EXCEPT ![c].paused = FALSE, ![c].deferred = FALSE] = [u.child EXCEPT ![c] = g]
      BY <1>4, <1>6 DEF Worlds, ChildType
    <3>. QED
      BY <1>4, <1>6, <2>1, <3>1, <3>2, <3>3 DEF Worlds, Others
  <2>2. CASE ~(f.paused \/ f.deferred)
    <3>1. x = u
      BY <1>4, <1>5, <2>2 DEF RaiseEndEvent
    <3>2. f.paused = FALSE /\ f.deferred = FALSE
      BY <2>2 DEF ChildType
    <3>3. g = f
      BY <1>6, <3>2 DEF ChildType
    <3>. QED
      BY <1>4, <2>2, <3>1, <3>3
  <2>. QED
    BY <2>1, <2>2
<1>8. PICK h \in ChildType : h = PlayedInterval(g)
  BY DEF PlayedInterval, ChildType
<1>9. /\ h.state = "active" /\ ~h.paused /\ ~h.deferred /\ h.interval = "none" /\ h.played
      /\ h.shown => w.child[c].shown /\ doc.fill[c] # "remove"
  BY <1>2, <1>6, <1>8 DEF PlayedInterval, ChildType
<1>10. PICK v : v = [x EXCEPT !.child[c] = h]
  OBVIOUS
<1>11. v \in Worlds /\ v.queue = x.queue /\ v.child[c] = h /\ Others(x, v, c)
  BY <1>7, <1>10, ChildSet
<1>12. Others(w, v, c)
  BY <1>7, <1>11 DEF Others
<1>13. v = ExitActive(w, c)
  BY <1>1, <1>3, <1>5, <1>7, <1>8, <1>10 DEF ExitActive
<1>14. Marked(v) /\ Unmarked(v, c) /\ \A d \in Children \ {c} : SameMarks(w, v, d)
  BY <1>9, <1>11, <1>12, OthersMarked DEF Unmarked
<1>15. Good(v)
  <2>1. CASE f.paused \/ f.deferred
    BY <1>7, <1>11, <1>14, <2>1, OneLeaves
  <2>2. CASE ~(f.paused \/ f.deferred)
    <3>1. SameMarks(w, v, c)
      BY <1>2, <1>14, <2>2 DEF SameMarks, Unmarked
    <3>. QED
      BY <1>7, <1>11, <1>14, <2>2, <3>1, MarksKept
  <2>. QED
    BY <2>1, <2>2
<1>. QED
  BY <1>7, <1>9, <1>11, <1>12, <1>13, <1>14, <1>15


LEMMA CalcNextIs ==
  ASSUME NEW r \in ChildType, NEW c \in Children
  PROVE  /\ CalcNext(r, c) \in ChildType
         /\ CalcNext(r, c).state = r.state /\ CalcNext(r, c).shown = r.shown
         /\ CalcNext(r, c).paused = r.paused /\ CalcNext(r, c).deferred = r.deferred
         /\ CalcNext(r, c).interval # "due"
<1>1. r.more \in 0..MaxBegins /\ MaxBegins \in Nat
  BY BoundsAssumption DEF ChildType
<1>2. CASE r.played /\ doc.timed[c] /\ r.more > 0
  <2>1. r.more - 1 \in 0..MaxBegins
    BY <1>1, <1>2
  <2>2. CalcNext(r, c) = [r EXCEPT !.interval = "later", !.more = r.more - 1]
    BY <1>2 DEF CalcNext
  <2>. QED
    BY <2>1, <2>2 DEF ChildType
<1>3. CASE ~(r.played /\ doc.timed[c] /\ r.more > 0)
  <2>1. CalcNext(r, c) = [r EXCEPT !.interval = "none"]
    BY <1>3 DEF CalcNext
  <2>. QED
    BY <2>1 DEF ChildType
<1>. QED
  BY <1>2, <1>3

LEMMA ToPostactiveIs ==
  ASSUME doc \in DocumentType, NEW w, Good(w), NEW c \in Children
  PROVE  LET v == ToPostactive(w, c)
         IN  /\ Good(v) /\ Others(w, v, c) /\ v.child[c].state = "postactive"
             /\ ~v.child[c].paused
             /\ w.child[c].state = "active" => ~v.child[c].deferred
             /\ w.child[c].state # "active" => SameMarks(w, v, c) /\ v.queue = w.queue
             /\ v.child[c].shown =>
                   w.child[c].shown /\ (w.child[c].state = "active" => doc.fill[c] # "remove")
             /\ v.queue \in {w.queue, Without(w.queue, c)}
<1>0. w \in Worlds /\ w.child[c] \in ChildType
  BY DEF Good, Worlds
<1>1. CASE w.child[c].state = "postactive"
  <2>1. ToPostactive(w, c) = w
    BY <1>1 DEF ToPostactive
  <2>2. ~w.child[c].paused
    BY <1>1 DEF Good, Marked
  <2>. QED
    BY <1>1, <2>1, <2>2 DEF Others, SameMarks
<1>2. CASE w.child[c].state # "postactive"
  <2>1. PICK u : u = IF w.child[c].state = "active" THEN ExitActive(w, c) ELSE w
    OBVIOUS
  <2>2. /\ Good(u) /\ Others(w, u, c) /\ ~u.child[c].paused
        /\ w.child[c].state = "active" => ~u.child[c].deferred
        /\ w.child[c].state # "active" => u = w
        /\ u.child[c].shown =>
              w.child[c].shown /\ (w.child[c].state = "active" => doc.fill[c] # "remove")
        /\ u.queue \in {w.queue, Without(w.queue, c)}
    <3>1. CASE w.child[c].state = "active"
      BY <2>1, <3>1, ExitActiveIs DEF Unmarked
    <3>2. CASE w.child[c].state # "active"
      <4>1. u = w /\ ~w.child[c].paused
        BY <2>1, <3>2 DEF Good, Marked
      <4>. QED
        BY <3>2, <4>1 DEF Others
    <3>. QED
      BY <3>1, <3>2
  <2>3. u \in Worlds /\ u.child[c] \in ChildType
    BY <2>2 DEF Good, Worlds
  <2>4. PICK p \in ChildType : p = [u.child[c] EXCEPT !.state = "postactive"]
    BY <2>3 DEF ChildType, States
  <2>5. PICK r \in ChildType : r = CalcNext(p, c)
    BY CalcNextIs
  <2>6. /\ r.state = "postactive" /\ r.shown = u.child[c].shown
        /\ r.paused = u.child[c].paused /\ r.deferred = u.child[c].deferred
    <3>1. /\ p.state = "postactive" /\ p.shown = u.child[c].shown
          /\ p.paused = u.child[c].paused /\ p.deferred = u.child[c].deferred
      BY <2>3, <2>4 DEF ChildType
    <3>. QED
      BY <2>5, <3>1, CalcNextIs
  <2>7. PICK v : v = [u EXCEPT !.child[c] = r]
    OBVIOUS
  <2>8. v \in Worlds /\ v.queue = u.queue /\ v.child[c] = r /\ Others(u, v, c)
    BY <2>3, <2>7, ChildSet
  <2>9. v = ToPostactive(w, c)
    <3>1. ToPostactive(w, c) =
            [u EXCEPT !.child[c] = CalcNext([u.child[c] EXCEPT !.state = "postactive"], c)]
      BY <1>2, <2>1, <2>3 DEF ToPostactive, Worlds
    <3>. QED
      BY <2>4, <2>5, <2>7, <3>1
  <2>10. Good(v)
    <3>1. Marked(v) /\ \A d \in Children \ {c} : SameMarks(u, v, d)
      BY <2>2, <2>6, <2>8, OthersMarked
    <3>2. SameMarks(u, v, c)
      BY <2>6, <2>8 DEF SameMarks
    <3>. QED
      BY <2>2, <2>8, <3>1, <3>2, MarksKept
  <2>11. Others(w, v, c)
    BY <2>2, <2>8 DEF Others
  <2>12. w.child[c].state # "active" => SameMarks(w, v, c) /\ v.queue = w.queue
    BY <2>2, <2>6, <2>8 DEF SameMarks
  <2>. QED
    BY <2>2, <2>6, <2>8, <2>9, <2>10, <2>11, <2>12
<1>. QED
  BY <1>1, <1>2

\* A child that is skipped goes through active to postactive.
LEMMA ToActiveIs ==
  ASSUME doc \in DocumentType, NEW w, Good(w), NEW c \in Children,
         w.child[c].state # "active", ~w.child[c].deferred
  PROVE  LET v == ToActive(w, c)
         IN  /\ Good(v) /\ Others(w, v, c) /\ Unmarked(v, c)
             /\ v.queue \in {w.queue, Without(w.queue, c)}
             /\ ~doc.skipped[c] => v.child[c].state = "active"
<1>0. w \in Worlds /\ w.child[c] \in ChildType /\ ~w.child[c].paused
  BY DEF Good, Worlds, Marked
<1>1. PICK r \in ChildType :
        r = [w.child[c] EXCEPT !.state = "active", !.interval = "later", !.shown = TRUE]
  BY <1>0 DEF ChildType, States
<1>2. /\ r.state = "active" /\ r.interval = "later" /\ r.paused = w.child[c].paused
      /\ r.deferred = w.child[c].deferred
  BY <1>0, <1>1 DEF ChildType
<1>3. PICK u : u = [w EXCEPT !.child[c] = r]
  OBVIOUS
<1>4. u \in Worlds /\ u.queue = w.queue /\ u.child[c] = r /\ Others(w, u, c)
  BY <1>0, <1>3, ChildSet
<1>5. Good(u)
  <2>1. Marked(u) /\ \A d \in Children \ {c} : SameMarks(w, u, d)
    BY <1>0, <1>2, <1>4, OthersMarked
  <2>2. SameMarks(w, u, c)
    BY <1>2, <1>4 DEF SameMarks
  <2>. QED
    BY <1>4, <2>1, <2>2, MarksKept
<1>6. ToActive(w, c) = IF doc.skipped[c] THEN ToPostactive(u, c) ELSE u
  <2>1. u = [w EXCEPT !.child[c] =
               [@ EXCEPT !.state = "active", !.interval = "later", !.shown = TRUE]]
    BY <1>0, <1>1, <1>3 DEF Worlds
  <2>2. CASE doc.skipped[c]
    BY <2>1, <2>2, Zenon DEF ToActive
  <2>3. CASE ~doc.skipped[c]
    BY <2>1, <2>3, Zenon DEF ToActive
  <2>. QED
    BY <2>2, <2>3
<1>7. CASE doc.skipped[c]
  <2>1. PICK v : v = ToPostactive(u, c)
    OBVIOUS
  <2>2. /\ Good(v) /\ Others(u, v, c) /\ v.child[c].state = "postactive"
        /\ ~v.child[c].paused /\ ~v.child[c].deferred
        /\ v.queue \in {u.queue, Without(u.queue, c)}
    BY <1>2, <1>4, <1>5, <2>1, ToPostactiveIs
  <2>3. Others(w, v, c)
    BY <1>4, <2>2 DEF Others
  <2>. QED
    BY <1>4, <1>6, <1>7, <2>1, <2>2, <2>3 DEF Unmarked
<1>8. CASE ~doc.skipped[c]
  BY <1>0, <1>2, <1>4, <1>5, <1>6, <1>8 DEF Unmarked
<1>. QED
  BY <1>7, <1>8

LEMMA PushedIs ==
  ASSUME NEW q \in Seq(Children), NEW c \in Children
  PROVE  PushPause(q, c) \in Seq(Children) /\ PushDefer(q, c) \in Seq(Children)
<1>1. PICK r \in Seq(Children) : r = Without(q, c)
  BY WithoutFacts
<1>2. \A S : PutAt(r, Position(r, S), c) \in Seq(Children)
  BY PositionIs, PutAtIs
<1>. QED
  BY <1>1, <1>2 DEF PushPause, PushDefer

LEMMA Retouched ==
  ASSUME NEW w, Good(w), NEW c \in Children, NEW r \in ChildType,
         r.paused = w.child[c].paused, r.deferred = w.child[c].deferred,
         r.paused => r.state = "active" /\ (r.interval # "due" \/ doc.explicitEnd[c]),
         r.deferred => r.state # "active"
  PROVE  LET v == [w EXCEPT !.child[c] = r]
         IN  Good(v) /\ v.queue = w.queue /\ v.child[c] = r /\ Others(w, v, c)
<1>1. PICK v : v = [w EXCEPT !.child[c] = r]
  OBVIOUS
<1>2. w \in Worlds /\ (w.child[c].paused => ~w.child[c].deferred)
  BY DEF Good, Marked
<1>3. v \in Worlds /\ v.queue = w.queue /\ v.child[c] = r /\ Others(w, v, c)
  BY <1>1, <1>2, ChildSet
<1>4. Marked(v) /\ \A d \in Children \ {c} : SameMarks(w, v, d)
  BY <1>2, <1>3, OthersMarked
<1>5. SameMarks(w, v, c)
  BY <1>3 DEF SameMarks
<1>6. Good(v)
  BY <1>3, <1>4, <1>5, MarksKept
<1>. QED
  BY <1>1, <1>3, <1>6

\* d neither comes to the stage nor leaves it.
Stays(w, v, d) ==
    /\ v.child[d].state = w.child[d].state /\ SameMarks(w, v, d)
    /\ v.child[d].shown => w.child[d].shown

\* d leaves the stage to c.
Yields(w, v, d, c) ==
    Playing(w.child[d]) /\ ~Playing(v.child[d]) /\ doc.priority[d] <= doc.priority[c]

LEMMA OthersStay ==
  ASSUME NEW w, NEW v, NEW c, Others(w, v, c)
  PROVE  \A d \in Children \ {c} : Stays(w, v, d)
BY DEF Others, Stays, SameMarks

LEMMA RemoveIs ==
  ASSUME NEW w, Good(w), NEW c \in Children
  PROVE  LET v == Remove(w, c)
         IN  /\ Good(v) /\ v.queue = w.queue /\ Others(w, v, c) /\ Stays(w, v, c)
             /\ ~v.child[c].shown /\ v.child[c].interval = w.child[c].interval
<1>0. w \in Worlds /\ w.child[c] \in ChildType
  BY DEF Good, Worlds
<1>1. PICK r \in ChildType : r = [w.child[c] EXCEPT !.shown = FALSE]
  BY <1>0 DEF ChildType
<1>2. /\ r.paused = w.child[c].paused /\ r.deferred = w.child[c].deferred /\ ~r.shown
      /\ r.state = w.child[c].state /\ r.interval = w.child[c].interval
  BY <1>0, <1>1 DEF ChildType
<1>3. Remove(w, c) = [w EXCEPT !.child[c] = r]
  BY <1>0, <1>1 DEF Remove, Worlds
<1>4. PICK v : v = Remove(w, c)
  OBVIOUS
<1>5. /\ r.paused => r.state = "active" /\ (r.interval # "due" \/ doc.explicitEnd[c])
      /\ r.deferred => r.state # "active"
  BY <1>2 DEF Good, Marked
<1>6. Good(v) /\ v.queue = w.queue /\ v.child[c] = r /\ Others(w, v, c)
  BY <1>2, <1>3, <1>4, <1>5, Retouched
<1>7. Stays(w, v, c)
  BY <1>2, <1>6 DEF Stays, SameMarks
<1>. QED
  BY <1>2, <1>4, <1>6, <1>7

LEMMA PauseIs ==
  ASSUME doc \in DocumentType, NEW w, Good(w), NEW c \in Children, Playing(w.child[c])
  PROVE  LET v == [Pause(w, c) EXCEPT !.queue = PushPause(@, c)]
         IN  Good(v) /\ Others(w, v, c) /\ v.child[c].paused /\ v.child[c].state = "active"
<1>0. w \in Worlds /\ w.child[c] \in ChildType /\ w.queue \in Seq(Children)
  BY DEF Good, Worlds
<1>1. PICK r \in ChildType :
        r = [w.child[c] EXCEPT !.paused = TRUE,
                !.interval = IF doc.explicitEnd[c] THEN w.child[c].interval ELSE "later"]
  BY <1>0 DEF ChildType
<1>2. /\ r.paused /\ r.state = "active" /\ ~r.deferred
      /\ r.interval # "due" \/ doc.explicitEnd[c]
  <2>1. w.child[c].state = "active" /\ ~w.child[c].deferred
    BY DEF Good, Marked, Playing
  <2>. QED
    BY <1>0, <1>1, <2>1 DEF ChildType
<1>3. PICK u : u = Pause(w, c)
  OBVIOUS
<1>4. u = [w EXCEPT !.child[c] = r]
  <2>1. u = [w EXCEPT !.child[c] =
               [w.child[c] EXCEPT !.paused = TRUE,
                   !.interval = IF doc.explicitEnd[c] THEN w.child[c].interval ELSE "later"]]
    <3>1. CASE doc.explicitEnd[c]
      BY <1>0, <1>3, <3>1 DEF Pause, Worlds, ChildType
    <3>2. CASE ~doc.explicitEnd[c]
      BY <1>0, <1>3, <3>2 DEF Pause, Worlds
    <3>. QED
      BY <3>1, <3>2
  <2>. QED
    BY <1>1, <2>1
<1>5. u \in Worlds /\ u.queue = w.queue /\ u.child[c] = r /\ Others(w, u, c)
  BY <1>0, <1>4, ChildSet
<1>6. PICK v : v = [u EXCEPT !.queue = PushPause(w.queue, c)]
  OBVIOUS
<1>7. PushPause(w.queue, c) \in Seq(Children)
  BY <1>0, PushedIs
<1>8. v \in Worlds /\ v.child = u.child /\ v.queue = PushPause(w.queue, c)
  BY <1>5, <1>6, <1>7 DEF Worlds
<1>9. Others(w, v, c) /\ v.child[c] = r
  BY <1>5, <1>8 DEF Others
<1>10. Marked(v) /\ \A d \in Children \ {c} : SameMarks(w, v, d)
  BY <1>2, <1>9, OthersMarked
<1>11. Good(v)
  BY <1>2, <1>8, <1>9, <1>10, PausedJoins
<1>12. v = [Pause(w, c) EXCEPT !.queue = PushPause(@, c)]
  BY <1>3, <1>5, <1>6 DEF Worlds
<1>. QED
  BY <1>2, <1>9, <1>11, <1>12

LEMMA DeferIs ==
  ASSUME doc \in DocumentType, NEW w, Good(w), NEW c \in Children, w.child[c].state # "active"
  PROVE  LET v == [DeferInterval(w, c) EXCEPT !.queue = PushDefer(@, c)]
         IN  /\ Good(v) /\ Others(w, v, c) /\ v.child[c].deferred /\ v.child[c].state # "active"
             /\ v.child[c].shown => w.child[c].shown
             /\ v.child[c].interval = w.child[c].interval
<1>0. w \in Worlds /\ w.child[c] \in ChildType /\ w.queue \in Seq(Children)
  BY DEF Good, Worlds
<1>1. PICK r \in ChildType : r = [w.child[c] EXCEPT !.deferred = TRUE]
  BY <1>0 DEF ChildType
<1>2. /\ r.deferred /\ r.state # "active" /\ ~r.paused /\ r.shown = w.child[c].shown
      /\ r.interval = w.child[c].interval
  <2>1. w.child[c].state # "active" /\ ~w.child[c].paused
    BY DEF Good, Marked
  <2>. QED
    BY <1>0, <1>1, <2>1 DEF ChildType
<1>3. PICK u : u = DeferInterval(w, c)
  OBVIOUS
<1>4. u = [w EXCEPT !.child[c] = r]
  BY <1>0, <1>1, <1>3 DEF DeferInterval, Worlds
<1>5. u \in Worlds /\ u.queue = w.queue /\ u.child[c] = r /\ Others(w, u, c)
  BY <1>0, <1>4, ChildSet
<1>6. PICK v : v = [u EXCEPT !.queue = PushDefer(w.queue, c)]
  OBVIOUS
<1>7. PushDefer(w.queue, c) \in Seq(Children)
  BY <1>0, PushedIs
<1>8. v \in Worlds /\ v.child = u.child /\ v.queue = PushDefer(w.queue, c)
  BY <1>5, <1>6, <1>7 DEF Worlds
<1>9. Others(w, v, c) /\ v.child[c] = r
  BY <1>5, <1>8 DEF Others
<1>10. Marked(v) /\ \A d \in Children \ {c} : SameMarks(w, v, d)
  BY <1>2, <1>9, OthersMarked
<1>11. Good(v)
  BY <1>2, <1>8, <1>9, <1>10, DeferredJoins
<1>12. v = [DeferInterval(w, c) EXCEPT !.queue = PushDefer(@, c)]
  BY <1>3, <1>5, <1>6 DEF Worlds
<1>. QED
  BY <1>2, <1>9, <1>11, <1>12

-----------------------------------------------------------------------------
(* Who is on the stage *)

NoHold == \A c \in Children : doc.fill[c] # "hold"

Staged(w) == Alone(w) /\ (NoHold => OneFill(w) /\ Bare(w))

LEMMA TakesStage ==
  ASSUME NEW v, NEW c \in Children,
         \A d \in Children \ {c} : ~Playing(v.child[d]) /\ (NoHold => ~Filled(v.child[d]))
  PROVE  Staged(v)
BY DEF Staged, Alone, OneFill, Bare, Playing, Filled

LEMMA StageKept ==
  ASSUME NEW w, NEW v, Staged(w),
         \A d \in Children : Playing(v.child[d]) => Playing(w.child[d]),
         \A d \in Children : NoHold /\ Filled(v.child[d]) => Filled(w.child[d])
  PROVE  Staged(v)
BY DEF Staged, Alone, OneFill, Bare

LEMMA StayingIs ==
  ASSUME NEW w, NEW v, NEW d, Stays(w, v, d)
  PROVE  /\ Playing(v.child[d]) <=> Playing(w.child[d])
         /\ Filled(v.child[d]) => Filled(w.child[d])
BY DEF Stays, SameMarks, Playing, Filled

LEMMA LastOfIs ==
  ASSUME NEW S \in SUBSET Children, S # {}
  PROVE  LastOf(S) \in S
<1>1. NumChildren \in Int /\ S \in SUBSET Int /\ \A x \in S : x <= NumChildren
  BY SizesAssumption DEF Children
<1>2. PICK c \in S : \A d \in S : d <= c
  BY <1>1, HasGreatest, Zenon
<1>. QED
  BY <1>2 DEF LastOf

LEMMA InterruptTypeIs ==
  ASSUME doc \in DocumentType, NEW a \in Children, NEW c \in Children
  PROVE  /\ InterruptType(a, c) \in {"stop", "pause", "defer", "never"}
         /\ InterruptType(a, c) \in {"stop", "pause"} => doc.priority[a] <= doc.priority[c]
<1>1. /\ doc.priority[a] \in Int /\ doc.priority[c] \in Int
      /\ doc.priority[a] \in Classes
  BY DocTypes
<1>2. /\ doc.peers[doc.priority[a]] \in {"stop", "pause", "defer", "never"}
      /\ doc.higher[doc.priority[a]] \in {"stop", "pause"}
      /\ doc.lower[doc.priority[a]] \in {"defer", "never"}
  BY <1>1 DEF DocumentType
<1>3. CASE doc.priority[c] = doc.priority[a]
  <2>1. ~(doc.priority[c] > doc.priority[a]) /\ ~(doc.priority[c] < doc.priority[a])
    BY <1>1, <1>3
  <2>2. InterruptType(a, c) = doc.peers[doc.priority[a]]
    BY <1>3, <2>1, Zenon DEF InterruptType
  <2>. QED
    BY <1>1, <1>2, <1>3, <2>2
<1>4. CASE doc.priority[c] > doc.priority[a]
  <2>1. ~(doc.priority[c] = doc.priority[a]) /\ ~(doc.priority[c] < doc.priority[a])
    BY <1>1, <1>4
  <2>2. InterruptType(a, c) = doc.higher[doc.priority[a]]
    BY <1>4, <2>1, Zenon DEF InterruptType
  <2>. QED
    BY <1>1, <1>2, <1>4, <2>2
<1>5. CASE doc.priority[c] < doc.priority[a]
  <2>1. ~(doc.priority[c] = doc.priority[a]) /\ ~(doc.priority[c] > doc.priority[a])
    BY <1>1, <1>5
  <2>2. InterruptType(a, c) = doc.lower[doc.priority[a]]
    BY <1>5, <2>1, Zenon DEF InterruptType
  <2>. QED
    BY <1>2, <2>2
<1>. QED
  BY <1>1, <1>3, <1>4, <1>5

\* What any way to begin c does: the others stay, or give way to c.
Served(w, v, c) ==
    /\ Good(v)
    /\ \A d \in Children \ {c} : Stays(w, v, d) \/ Yields(w, v, d, c)
    /\ Staged(w) => Staged(v)

\* The interval of a deferred child is the one that was due.
Timely(w) == \A d \in Children : w.child[d].deferred => w.child[d].interval = "due"

SomePlay(w) == \E d \in Children : Playing(w.child[d])

\* Unless c is skipped, the stage is not left empty.
Prompt(w, v, c) ==
    Timely(w) /\ w.child[c].interval = "due" /\ ~doc.skipped[c] => Timely(v) /\ SomePlay(v)

LEMMA EmptyStage ==
  ASSUME doc \in DocumentType, NEW w, Good(w), NEW c \in Children,
         w.child[c].state # "active", ~w.child[c].deferred, GetActiveChild(w) = {}
  PROVE  Served(w, Interrupt(w, c), c) /\ Prompt(w, Interrupt(w, c), c)
<1>1. PICK u : u = IF GetFilledChild(w) = {} THEN w ELSE Remove(w, LastOf(GetFilledChild(w)))
  OBVIOUS
<1>2. PICK v : v = ToActive(u, c)
  OBVIOUS
<1>3. v = Interrupt(w, c)
  BY <1>1, <1>2 DEF Interrupt
<1>4. /\ Good(u) /\ \A d \in Children : Stays(w, u, d)
      /\ \A d \in Children : u.child[d].interval = w.child[d].interval
      /\ OneFill(w) => \A d \in Children : ~Filled(u.child[d])
  <2>1. CASE GetFilledChild(w) = {}
    BY <1>1, <2>1 DEF Stays, SameMarks, GetFilledChild
  <2>2. CASE GetFilledChild(w) # {}
    <3>1. PICK f \in Children : f = LastOf(GetFilledChild(w)) /\ Filled(w.child[f])
      BY <2>2, LastOfIs DEF GetFilledChild
    <3>2. u = Remove(w, f)
      BY <1>1, <2>2, <3>1
    <3>3. /\ Good(u) /\ Others(w, u, f) /\ Stays(w, u, f) /\ ~u.child[f].shown
          /\ u.child[f].interval = w.child[f].interval
      BY <3>2, RemoveIs
    <3>4. \A d \in Children : Stays(w, u, d)
      BY <3>3, OthersStay
    <3>5. OneFill(w) => \A d \in Children : ~Filled(u.child[d])
      BY <3>1, <3>3, <3>4, StayingIs DEF OneFill, Filled
    <3>6. \A d \in Children : u.child[d].interval = w.child[d].interval
      BY <3>3 DEF Others
    <3>. QED
      BY <3>3, <3>4, <3>5, <3>6
  <2>. QED
    BY <2>1, <2>2
<1>5. u.child[c].state # "active" /\ ~u.child[c].deferred
  BY <1>4 DEF Stays, SameMarks
<1>6. /\ Good(v) /\ Others(u, v, c) /\ Unmarked(v, c)
      /\ ~doc.skipped[c] => v.child[c].state = "active"
  BY <1>2, <1>4, <1>5, ToActiveIs
<1>7. \A d \in Children \ {c} : v.child[d] = u.child[d]
  BY <1>6 DEF Others
<1>8. \A d \in Children \ {c} : Stays(w, v, d)
  BY <1>4, <1>7 DEF Stays, SameMarks
<1>9. Staged(w) => Staged(v)
  <2>. SUFFICES ASSUME Staged(w) PROVE Staged(v)
    OBVIOUS
  <2>1. \A d \in Children \ {c} : ~Playing(v.child[d])
    BY <1>8, StayingIs DEF GetActiveChild
  <2>2. \A d \in Children \ {c} : NoHold => ~Filled(v.child[d])
    BY <1>4, <1>7 DEF Staged
  <2>. QED
    BY <2>1, <2>2, TakesStage
<1>10. Prompt(w, v, c)
  <2>1. Timely(w) => Timely(v)
    BY <1>4, <1>6, <1>7 DEF Timely, Stays, SameMarks, Unmarked
  <2>2. ~doc.skipped[c] => SomePlay(v)
    BY <1>6 DEF SomePlay, Playing, Unmarked
  <2>. QED
    BY <2>1, <2>2 DEF Prompt
<1>. QED
  BY <1>3, <1>6, <1>8, <1>9, <1>10 DEF Served

\* a leaves the stage, then c is activated.
LEMMA Succession ==
  ASSUME doc \in DocumentType, NEW w, Good(w), NEW a \in Children, NEW c \in Children, a # c,
         w.child[c].state # "active", ~w.child[c].deferred,
         Playing(w.child[a]), doc.priority[a] <= doc.priority[c],
         NEW u, Good(u), Others(w, u, a), ~Playing(u.child[a]), NoHold => ~Filled(u.child[a]),
         ~u.child[a].deferred
  PROVE  Served(w, ToActive(u, c), c) /\ Prompt(w, ToActive(u, c), c)
<1>1. u.child[c].state # "active" /\ ~u.child[c].deferred
  BY DEF Others
<1>2. PICK v : v = ToActive(u, c)
  OBVIOUS
<1>3. /\ Good(v) /\ Others(u, v, c) /\ Unmarked(v, c)
      /\ ~doc.skipped[c] => v.child[c].state = "active"
  BY <1>1, <1>2, ToActiveIs
<1>4. /\ \A d \in Children \ {a, c} : v.child[d] = w.child[d]
      /\ v.child[a] = u.child[a]
  BY <1>3 DEF Others
<1>5. \A d \in Children \ {c} : Stays(w, v, d) \/ Yields(w, v, d, c)
  BY <1>4 DEF Stays, SameMarks, Yields
<1>6. Staged(w) => Staged(v)
  <2>. SUFFICES ASSUME Staged(w) PROVE Staged(v)
    OBVIOUS
  <2>1. \A d \in Children \ {a} : ~Playing(w.child[d])
    BY DEF Staged, Alone
  <2>2. \A d \in Children : NoHold => ~Filled(w.child[d])
    BY DEF Staged, Bare
  <2>3. \A d \in Children \ {c} : ~Playing(v.child[d]) /\ (NoHold => ~Filled(v.child[d]))
    BY <1>4, <2>1, <2>2
  <2>. QED
    BY <2>3, TakesStage
<1>7. Prompt(w, v, c)
  <2>1. Timely(w) => Timely(v)
    BY <1>3, <1>4 DEF Timely, Unmarked
  <2>2. ~doc.skipped[c] => SomePlay(v)
    BY <1>3 DEF SomePlay, Playing, Unmarked
  <2>. QED
    BY <2>1, <2>2 DEF Prompt
<1>. QED
  BY <1>2, <1>3, <1>5, <1>6, <1>7 DEF Served

\* c does not get the stage.
LEMMA Refusal ==
  ASSUME NEW w, NEW c \in Children, w.child[c].state # "active",
         NEW v, Good(v), Others(w, v, c), v.child[c].state # "active",
         v.child[c].shown => w.child[c].shown
  PROVE  Served(w, v, c)
<1>1. \A d \in Children \ {c} : Stays(w, v, d)
  BY OthersStay
<1>2. /\ \A d \in Children : Playing(v.child[d]) => Playing(w.child[d])
      /\ \A d \in Children : Filled(v.child[d]) => Filled(w.child[d])
  BY <1>1, StayingIs DEF Playing, Filled
<1>. QED
  BY <1>1, <1>2, StageKept DEF Served

LEMMA CancelIs ==
  ASSUME NEW w, Good(w), NEW c \in Children, w.child[c].state # "active"
  PROVE  LET v == CancelInterval(w, c)
         IN  /\ Good(v) /\ Others(w, v, c) /\ SameMarks(w, v, c)
             /\ v.child[c].state = w.child[c].state /\ v.child[c].shown = w.child[c].shown
<1>0. w \in Worlds /\ w.child[c] \in ChildType /\ ~w.child[c].paused
  BY DEF Good, Worlds, Marked
<1>1. PICK r \in ChildType : r = [w.child[c] EXCEPT !.interval = "none"]
  BY <1>0 DEF ChildType
<1>2. /\ r.paused = w.child[c].paused /\ r.deferred = w.child[c].deferred
      /\ r.state = w.child[c].state /\ r.shown = w.child[c].shown
  BY <1>0, <1>1 DEF ChildType
<1>3. CancelInterval(w, c) = [w EXCEPT !.child[c] = r]
  BY <1>0, <1>1 DEF CancelInterval, Worlds
<1>4. PICK v : v = CancelInterval(w, c)
  OBVIOUS
<1>5. Good(v) /\ v.child[c] = r /\ Others(w, v, c)
  BY <1>0, <1>2, <1>3, <1>4, Retouched
<1>. QED
  BY <1>2, <1>4, <1>5 DEF SameMarks

LEMMA InterruptIs ==
  ASSUME doc \in DocumentType, NEW w, Good(w), NEW c \in Children,
         w.child[c].state # "active", ~w.child[c].deferred
  PROVE  Served(w, Interrupt(w, c), c) /\ Prompt(w, Interrupt(w, c), c)
<1>1. CASE GetActiveChild(w) = {}
  BY <1>1, EmptyStage
<1>2. CASE GetActiveChild(w) # {}
  <2>1. PICK a \in Children : a = LastOf(GetActiveChild(w)) /\ Playing(w.child[a])
    BY <1>2, LastOfIs DEF GetActiveChild
  <2>2. a # c /\ w.child[a].state = "active"
    BY <2>1 DEF Playing
  <2>3. CASE InterruptType(a, c) = "stop"
    <3>1. PICK s : s = ToPostactive(w, a)
      OBVIOUS
    <3>2. PICK u : u = IF doc.fill[a] = "freeze" THEN Remove(s, a) ELSE s
      OBVIOUS
    <3>3. Interrupt(w, c) = ToActive(u, c)
      BY <1>2, <2>1, <2>3, <3>1, <3>2, Zenon DEF Interrupt
    <3>4. /\ Good(s) /\ Others(w, s, a) /\ s.child[a].state = "postactive"
          /\ s.child[a].shown => doc.fill[a] # "remove"
          /\ ~s.child[a].deferred
      BY <2>2, <3>1, ToPostactiveIs
    <3>5. doc.fill[a] \in {"remove", "freeze", "hold"}
      BY DEF DocumentType
    <3>6. /\ Good(u) /\ Others(w, u, a) /\ u.child[a].state = "postactive"
          /\ NoHold => ~u.child[a].shown
          /\ ~u.child[a].deferred
      <4>1. CASE doc.fill[a] = "freeze"
        <5>1. Good(u) /\ Others(s, u, a) /\ Stays(s, u, a) /\ ~u.child[a].shown
          BY <3>2, <3>4, <4>1, RemoveIs
        <5>2. Others(w, u, a)
          BY <3>4, <5>1 DEF Others
        <5>. QED
          BY <3>4, <5>1, <5>2 DEF Stays, SameMarks
      <4>2. CASE doc.fill[a] # "freeze"
        BY <3>2, <3>4, <3>5, <4>2 DEF NoHold
      <4>. QED
        BY <4>1, <4>2
    <3>7. ~Playing(u.child[a]) /\ (NoHold => ~Filled(u.child[a]))
      BY <3>6 DEF Playing, Filled
    <3>8. doc.priority[a] <= doc.priority[c]
      BY <2>3, InterruptTypeIs
    <3>. QED
      BY <2>1, <2>2, <3>3, <3>6, <3>7, <3>8, Succession
  <2>4. CASE InterruptType(a, c) = "pause"
    <3>1. PICK u : u = [Pause(w, a) EXCEPT !.queue = PushPause(@, a)]
      OBVIOUS
    <3>2. Interrupt(w, c) = ToActive(u, c)
      BY <1>2, <2>1, <2>4, <3>1, Zenon DEF Interrupt
    <3>3. Good(u) /\ Others(w, u, a) /\ u.child[a].paused /\ u.child[a].state = "active"
      BY <2>1, <3>1, PauseIs
    <3>4. ~Playing(u.child[a]) /\ ~Filled(u.child[a]) /\ ~u.child[a].deferred
      BY <3>3 DEF Playing, Filled, Good, Marked
    <3>5. doc.priority[a] <= doc.priority[c]
      BY <2>4, InterruptTypeIs
    <3>. QED
      BY <2>1, <2>2, <3>2, <3>3, <3>4, <3>5, Succession
  <2>5. CASE InterruptType(a, c) = "defer"
    <3>1. PICK v : v = [DeferInterval(w, c) EXCEPT !.queue = PushDefer(@, c)]
      OBVIOUS
    <3>2. Interrupt(w, c) = v
      BY <1>2, <2>1, <2>5, <3>1, Zenon DEF Interrupt
    <3>3. /\ Good(v) /\ Others(w, v, c) /\ v.child[c].state # "active"
          /\ v.child[c].shown => w.child[c].shown
          /\ v.child[c].interval = w.child[c].interval
      BY <3>1, DeferIs
    <3>4. SomePlay(v)
      BY <2>1, <2>2, <3>3 DEF Others, SomePlay
    <3>5. Prompt(w, v, c)
      BY <3>3, <3>4 DEF Prompt, Timely, Others
    <3>. QED
      BY <3>2, <3>3, <3>5, Refusal
  <2>6. CASE InterruptType(a, c) = "never"
    <3>1. PICK u : u = CancelInterval(w, c)
      OBVIOUS
    <3>2. PICK v : v = ToPostactive(u, c)
      OBVIOUS
    <3>3. Interrupt(w, c) = v
      BY <1>2, <2>1, <2>6, <3>1, <3>2, Zenon DEF Interrupt
    <3>4. /\ Good(u) /\ Others(w, u, c) /\ u.child[c].state # "active" /\ ~u.child[c].deferred
          /\ u.child[c].shown = w.child[c].shown
      BY <3>1, CancelIs DEF SameMarks
    <3>5. /\ Good(v) /\ Others(u, v, c) /\ v.child[c].state = "postactive"
          /\ v.child[c].shown => u.child[c].shown
          /\ SameMarks(u, v, c)
      BY <3>2, <3>4, ToPostactiveIs
    <3>6. Others(w, v, c)
      BY <3>4, <3>5 DEF Others
    <3>7. SomePlay(v)
      BY <2>1, <2>2, <3>6 DEF Others, SomePlay
    <3>8. Prompt(w, v, c)
      BY <3>4, <3>5, <3>6, <3>7 DEF Prompt, Timely, Others, SameMarks
    <3>. QED
      BY <3>3, <3>4, <3>5, <3>6, <3>8, Refusal
  <2>. QED
    BY <2>3, <2>4, <2>5, <2>6, InterruptTypeIs
<1>. QED
  BY <1>1, <1>2

LEMMA SetIntervalIs ==
  ASSUME doc \in DocumentType, NEW w, Good(w), NEW c \in Children, w.child[c].state # "active"
  PROVE  /\ Served(w, SetInterval(w, c), c)
         /\ w.child[c].deferred => SetInterval(w, c) = w
         /\ ~w.child[c].deferred => Prompt(w, SetInterval(w, c), c)
<1>1. CASE ~w.child[c].deferred
  <2>1. PICK v : v = Interrupt(w, c)
    OBVIOUS
  <2>2. Served(w, v, c) /\ Prompt(w, v, c)
    BY <1>1, <2>1, InterruptIs
  <2>3. SetInterval(w, c) = v
    BY <1>1, <2>1 DEF SetInterval
  <2>. QED
    BY <1>1, <2>2, <2>3
<1>2. CASE w.child[c].deferred
  <2>1. w \in Worlds /\ w.child[c] \in ChildType
    BY DEF Good, Worlds
  <2>2. w.child[c].deferred = TRUE
    BY <1>2, <2>1 DEF ChildType
  <2>3. [w.child[c] EXCEPT !.deferred = TRUE] = w.child[c]
    BY <2>1, <2>2 DEF ChildType
  <2>4. SetInterval(w, c) = [w EXCEPT !.child[c] = [w.child[c] EXCEPT !.deferred = TRUE]]
    BY <1>2, <2>1 DEF SetInterval, DeferInterval, Worlds
  <2>5. SetInterval(w, c) = w
    BY <2>1, <2>3, <2>4 DEF Worlds
  <2>6. Others(w, w, c)
    BY DEF Others
  <2>. QED
    BY <1>2, <2>5, <2>6, Refusal
<1>. QED
  BY <1>1, <1>2

LEMMA ResumeIs ==
  ASSUME doc \in DocumentType, NEW w, Good(w), NEW c \in Children,
         w.child[c].state = "postactive", Unmarked(w, c), w.queue # <<>>,
         NEW n \in Children, n = Head(w.queue), w.child[n].paused
  PROVE  LET v == Resume(Remove([w EXCEPT !.queue = Tail(@)], c), n)
         IN  /\ Good(v) /\ v.child[c].state = "postactive"
             /\ \A d \in Children \ {n} : Stays(w, v, d)
             /\ ~Filled(v.child[c]) /\ SomePlay(v) /\ (Timely(w) => Timely(v))
<1>0. /\ w \in Worlds /\ w.child[c] \in ChildType /\ w.child[n] \in ChildType
      /\ w.queue \in Seq(Children)
  BY DEF Good, Worlds
<1>1. c # n /\ w.child[n].state = "active" /\ ~w.child[n].deferred
  BY DEF Good, Marked, Unmarked
<1>2. PICK r \in ChildType : r = [w.child[c] EXCEPT !.shown = FALSE]
  BY <1>0 DEF ChildType
<1>3. PICK p \in ChildType : p = [w.child[n] EXCEPT !.paused = FALSE]
  BY <1>0 DEF ChildType
<1>4. /\ r.state = "postactive" /\ ~r.paused /\ ~r.deferred /\ ~r.shown
      /\ p.state = "active" /\ ~p.paused /\ ~p.deferred
  BY <1>0, <1>1, <1>2, <1>3 DEF ChildType, Unmarked
<1>5. Tail(w.queue) \in Seq(Children)
  BY <1>0, HeadTailProperties
<1>6. PICK x : x = [w EXCEPT !.queue = Tail(@)]
  OBVIOUS
<1>7. x \in Worlds /\ x.child = w.child /\ x.queue = Tail(w.queue)
  BY <1>0, <1>5, <1>6 DEF Worlds
<1>8. PICK y : y = Remove(x, c)
  OBVIOUS
<1>9. y = [x EXCEPT !.child[c] = r]
  BY <1>2, <1>7, <1>8 DEF Remove, Worlds
<1>10. y \in Worlds /\ y.queue = x.queue /\ y.child[c] = r /\ Others(x, y, c)
  BY <1>7, <1>9, ChildSet
<1>11. y.child[n] = w.child[n]
  BY <1>1, <1>7, <1>10 DEF Others
<1>12. PICK v : v = [y EXCEPT !.child[n] = p]
  OBVIOUS
<1>13. v \in Worlds /\ v.queue = y.queue /\ v.child[n] = p /\ Others(y, v, n)
  BY <1>10, <1>12, ChildSet
<1>14. v.child[c] = r /\ \A d \in Children \ {c, n} : v.child[d] = w.child[d]
  BY <1>1, <1>7, <1>10, <1>13 DEF Others
<1>15. /\ Unmarked(v, n) /\ \A d \in Children \ {n} : SameMarks(w, v, d)
       /\ \A d \in Children \ {n} : Stays(w, v, d)
  BY <1>4, <1>13, <1>14 DEF Unmarked, SameMarks, Stays
<1>16. Marked(v)
  <2>1. \A d \in Children : d = c \/ d = n \/ v.child[d] = w.child[d]
    BY <1>14
  <2>. QED
    BY <1>4, <1>13, <1>14, <2>1 DEF Good, Marked
<1>17. Good(v)
  BY <1>7, <1>10, <1>13, <1>15, <1>16, FirstLeaves
<1>18. SomePlay(v)
  BY <1>4, <1>13 DEF SomePlay, Playing
<1>19. Timely(w) => Timely(v)
  BY <1>4, <1>13, <1>14 DEF Timely
<1>20. v = Resume(y, n)
  BY <1>3, <1>10, <1>11, <1>12 DEF Resume, Worlds
<1>. QED
  BY <1>4, <1>6, <1>8, <1>14, <1>15, <1>17, <1>18, <1>19, <1>20 DEF Filled

LEMMA UndeferIs ==
  ASSUME doc \in DocumentType, NEW w, Good(w), w.queue # <<>>,
         NEW n \in Children, n = Head(w.queue), w.child[n].deferred,
         NEW v, v = SetDeferredInterval([w EXCEPT !.queue = Tail(@)], n)
  PROVE  Served(w, v, n) /\ (Timely(w) /\ ~doc.skipped[n] => Timely(v) /\ SomePlay(v))
<1>0. /\ w \in Worlds /\ w.child[n] \in ChildType /\ w.queue \in Seq(Children)
      /\ w.child[n].state # "active" /\ ~w.child[n].paused
  BY DEF Good, Worlds, Marked
<1>1. PICK r \in ChildType : r = [w.child[n] EXCEPT !.deferred = FALSE]
  BY <1>0 DEF ChildType
<1>2. /\ r.state # "active" /\ ~r.paused /\ ~r.deferred /\ r.shown = w.child[n].shown
  BY <1>0, <1>1 DEF ChildType
<1>3. Tail(w.queue) \in Seq(Children)
  BY <1>0, HeadTailProperties
<1>4. PICK x : x = [w EXCEPT !.queue = Tail(@)]
  OBVIOUS
<1>5. x \in Worlds /\ x.child = w.child /\ x.queue = Tail(w.queue)
  BY <1>0, <1>3, <1>4 DEF Worlds
<1>6. PICK y : y = [x EXCEPT !.child[n].deferred = FALSE]
  OBVIOUS
<1>7. y = [x EXCEPT !.child[n] = r]
  BY <1>1, <1>5, <1>6 DEF Worlds
<1>8. y \in Worlds /\ y.queue = x.queue /\ y.child[n] = r /\ Others(x, y, n)
  BY <1>5, <1>7, ChildSet
<1>9. Others(w, y, n)
  BY <1>5, <1>8 DEF Others
<1>10. Unmarked(y, n) /\ Marked(y) /\ \A d \in Children \ {n} : SameMarks(w, y, d)
  BY <1>2, <1>8, <1>9, OthersMarked DEF Unmarked
<1>11. Good(y)
  BY <1>5, <1>8, <1>10, FirstLeaves
<1>12. CASE r.interval = "none"
  <2>1. v = y
    BY <1>4, <1>6, <1>8, <1>12 DEF SetDeferredInterval
  <2>2. ~Timely(w)
    BY <1>0, <1>1, <1>12 DEF Timely, ChildType
  <2>. QED
    BY <1>0, <1>2, <1>8, <1>9, <1>11, <2>1, <2>2, Refusal
<1>13. CASE r.interval # "none"
  <2>1. PICK s \in ChildType : s = [r EXCEPT !.interval = "due"]
    BY DEF ChildType
  <2>2. s.state # "active" /\ s.paused = r.paused /\ s.deferred = r.deferred /\ s.shown = r.shown
    BY <1>2, <2>1 DEF ChildType
  <2>3. PICK z : z = [y EXCEPT !.child[n].interval = "due"]
    OBVIOUS
  <2>4. z = [y EXCEPT !.child[n] = s]
    BY <1>8, <2>1, <2>3 DEF Worlds
  <2>5. Good(z) /\ z.child[n] = s /\ Others(y, z, n)
    <3>1. /\ s.paused = y.child[n].paused /\ s.deferred = y.child[n].deferred
          /\ ~s.paused /\ ~s.deferred
      BY <1>2, <1>8, <2>2
    <3>. QED
      BY <1>11, <2>4, <3>1, Retouched
  <2>6. Others(w, z, n)
    BY <1>9, <2>5 DEF Others
  <2>7. v = SetInterval(z, n)
    BY <1>4, <1>6, <1>8, <1>13, <2>3 DEF SetDeferredInterval
  <2>8. Served(z, v, n) /\ Prompt(z, v, n)
    BY <1>2, <2>2, <2>5, <2>7, SetIntervalIs
  <2>9. \A d \in Children \ {n} : Stays(w, v, d) \/ Yields(w, v, d, n)
    BY <2>6, <2>8 DEF Served, Others, Stays, Yields, SameMarks
  <2>10. Staged(w) => Staged(z)
    <3>1. \A d \in Children : Playing(z.child[d]) => Playing(w.child[d])
      BY <2>2, <2>5, <2>6 DEF Others, Playing
    <3>2. \A d \in Children : Filled(z.child[d]) => Filled(w.child[d])
      BY <1>0, <1>2, <2>2, <2>5, <2>6 DEF Others, Filled
    <3>. QED
      BY <3>1, <3>2, StageKept
  <2>11. Timely(w) => Timely(z)
    BY <1>2, <2>2, <2>5, <2>6 DEF Timely, Others
  <2>12. z.child[n].interval = "due"
    BY <2>1, <2>5 DEF ChildType
  <2>. QED
    BY <2>8, <2>9, <2>10, <2>11, <2>12 DEF Served, Prompt
<1>. QED
  BY <1>12, <1>13

\* c has ended and the first one that waits is served.
LEMMA OnChildNormalEndIs ==
  ASSUME doc \in DocumentType, NEW w, Good(w), NEW c \in Children,
         w.child[c].state = "postactive", Unmarked(w, c), w.queue # <<>>,
         NEW n \in Children, n = Head(w.queue)
  PROVE  LET v == OnChildNormalEnd(w, c)
         IN  /\ Good(v) /\ v.child[c].state = "postactive"
             /\ \A d \in Children \ {n} : Stays(w, v, d) \/ Yields(w, v, d, n)
             /\ (\A d \in Children \ {c} : ~Playing(w.child[d]) /\ (NoHold => ~Filled(w.child[d])))
                   => Staged(v)
             /\ Timely(w) /\ ~doc.skipped[n] => Timely(v) /\ SomePlay(v)
<1>0. w \in Worlds /\ w.queue \in Seq(Children) /\ InQueue(w.queue, n)
  <2>1. w \in Worlds /\ w.queue \in Seq(Children)
    BY DEF Good, Worlds
  <2>. QED
    BY <2>1, TailFacts
<1>1. w.child[n].paused \/ w.child[n].deferred
  BY <1>0 DEF Good, Queued
<1>2. c # n
  BY <1>1 DEF Unmarked
<1>3. PICK v : v = OnChildNormalEnd(w, c)
  OBVIOUS
<1>4. PICK x : x = [w EXCEPT !.queue = Tail(@)]
  OBVIOUS
<1>5. x.child = w.child
  BY <1>0, <1>4 DEF Worlds
<1>6. CASE w.child[n].paused
  <2>1. x.child[n].paused
    BY <1>5, <1>6
  <2>2. v = Resume(Remove(x, c), n)
    BY <1>3, <1>4, <2>1, Zenon DEF OnChildNormalEnd
  <2>3. /\ Good(v) /\ v.child[c].state = "postactive" /\ ~Filled(v.child[c])
        /\ \A d \in Children \ {n} : Stays(w, v, d)
        /\ SomePlay(v) /\ (Timely(w) => Timely(v))
    BY <1>4, <1>6, <2>2, ResumeIs
  <2>4. (\A d \in Children \ {c} : ~Playing(w.child[d]) /\ (NoHold => ~Filled(w.child[d])))
           => Staged(v)
    <3>. SUFFICES ASSUME \A d \in Children \ {c} :
                             ~Playing(w.child[d]) /\ (NoHold => ~Filled(w.child[d]))
                  PROVE  Staged(v)
      OBVIOUS
    <3>1. \A d \in Children \ {n} : ~Playing(v.child[d]) /\ (NoHold => ~Filled(v.child[d]))
      BY <2>3, StayingIs DEF Playing
    <3>. QED
      BY <3>1, TakesStage
  <2>. QED
    BY <1>3, <2>3, <2>4
<1>7. CASE ~w.child[n].paused
  <2>1. ~x.child[n].paused /\ x.child[n].deferred
    BY <1>1, <1>5, <1>7
  <2>2. v = SetDeferredInterval(x, n)
    BY <1>3, <1>4, <2>1, Zenon DEF OnChildNormalEnd
  <2>3. Served(w, v, n) /\ (Timely(w) /\ ~doc.skipped[n] => Timely(v) /\ SomePlay(v))
    BY <1>4, <1>5, <2>1, <2>2, UndeferIs
  <2>4. v.child[c].state = "postactive"
    BY <1>2, <2>3 DEF Served, Stays, Yields, Playing
  <2>5. (\A d \in Children \ {c} : ~Playing(w.child[d]) /\ (NoHold => ~Filled(w.child[d])))
           => Staged(w)
    BY TakesStage
  <2>. QED
    BY <1>3, <2>3, <2>4, <2>5 DEF Served
<1>. QED
  BY <1>6, <1>7

Waits(w, d) == w.child[d].paused \/ w.child[d].deferred

LEMMA WaitersDoNotPlay ==
  ASSUME NEW w, Good(w), NEW d \in Children, Waits(w, d)
  PROVE  ~Playing(w.child[d])
BY DEF Good, Marked, Waits, Playing

LEMMA EndNormallyIs ==
  ASSUME doc \in DocumentType, NEW w, Good(w), NEW c \in Children, w.child[c].state = "active"
  PROVE  LET v == EndNormally(w, c)
         IN  /\ Good(v) /\ v.child[c].state = "postactive" /\ Unmarked(v, c)
             /\ Playing(w.child[c]) /\ Staged(w) => Staged(v)
             /\ Timely(w) /\ (\A d \in Children : ~doc.skipped[d]) =>
                   Timely(v) /\ (v.queue = <<>> \/ SomePlay(v))
             /\ \A d, e \in Children \ {c} :
                   /\ d # e /\ Waits(w, d) /\ Waits(w, e) /\ Playing(v.child[d])
                   => Before(w.child, d, e)
             /\ \A d, e \in Children \ {c} :
                   /\ Playing(w.child[d]) /\ ~Playing(v.child[d])
                   /\ ~Playing(w.child[e]) /\ Playing(v.child[e])
                   => doc.priority[d] <= doc.priority[e]
<1>1. PICK u : u = ToPostactive(w, c)
  OBVIOUS
<1>2. Good(u) /\ Others(w, u, c) /\ u.child[c].state = "postactive" /\ Unmarked(u, c)
  BY <1>1, ToPostactiveIs DEF Unmarked
<1>3. PICK v : v = OnChildNormalEnd(u, c)
  OBVIOUS
<1>4. v = EndNormally(w, c)
  BY <1>1, <1>3 DEF EndNormally
<1>5. \A d \in Children \ {c} : u.child[d] = w.child[d]
  BY <1>2 DEF Others
<1>6. \A d \in Children \ {c} : Waits(w, d) => Waits(u, d) /\ ~Playing(u.child[d])
  BY <1>2, <1>5, WaitersDoNotPlay DEF Waits
<1>7. Playing(w.child[c]) /\ Staged(w) =>
        \A d \in Children \ {c} : ~Playing(u.child[d]) /\ (NoHold => ~Filled(u.child[d]))
  BY <1>5 DEF Staged, Alone, Bare
<1>8. Timely(w) => Timely(u)
  BY <1>2, <1>5 DEF Timely, Unmarked
<1>9. CASE u.queue = <<>>
  <2>1. v = u
    BY <1>3, <1>9 DEF OnChildNormalEnd
  <2>2. Playing(w.child[c]) /\ Staged(w) => Staged(v)
    BY <1>7, <2>1, TakesStage
  <2>. QED
    BY <1>2, <1>4, <1>5, <1>6, <1>9, <1>8, <2>1, <2>2
<1>10. CASE u.queue # <<>>
  <2>1. u.queue \in Seq(Children)
    BY <1>2 DEF Good, Worlds
  <2>2. PICK n \in Children : n = Head(u.queue)
    BY <1>10, <2>1, TailFacts
  <2>3. /\ Good(v) /\ v.child[c].state = "postactive"
        /\ \A d \in Children \ {n} : Stays(u, v, d) \/ Yields(u, v, d, n)
        /\ (\A d \in Children \ {c} : ~Playing(u.child[d]) /\ (NoHold => ~Filled(u.child[d])))
              => Staged(v)
        /\ Timely(u) /\ ~doc.skipped[n] => Timely(v) /\ SomePlay(v)
    BY <1>2, <1>3, <1>10, <2>2, OnChildNormalEndIs
  <2>4. /\ InQueue(u.queue, n)
        /\ \A d : InQueue(u.queue, d) <=> d = n \/ InQueue(Tail(u.queue), d)
        /\ \A d : InQueue(Tail(u.queue), d) => Ahead(u.queue, n, d)
    BY <1>10, <2>1, <2>2, TailFacts
  <2>5. Waits(u, n) /\ n # c
    BY <1>2, <2>4 DEF Good, Queued, Waits, Unmarked
  <2>6. Unmarked(v, c)
    <3>1. Stays(u, v, c)
      BY <1>2, <2>3, <2>5 DEF Yields, Playing
    <3>. QED
      BY <1>2, <3>1 DEF Stays, SameMarks, Unmarked
  <2>7. \A d \in Children : Playing(v.child[d]) /\ ~Playing(u.child[d]) => d = n
    BY <2>3, StayingIs DEF Yields
  <2>8. ASSUME NEW d \in Children \ {c}, NEW e \in Children \ {c},
               d # e, Waits(w, d), Waits(w, e), Playing(v.child[d])
        PROVE  Before(w.child, d, e)
    <3>1. d = n
      BY <1>6, <2>7, <2>8
    <3>2. InQueue(u.queue, e)
      BY <1>2, <1>6, <2>8 DEF Good, Queued, Waits
    <3>3. Ahead(u.queue, n, e)
      BY <2>4, <2>8, <3>1, <3>2
    <3>4. Before(u.child, d, e)
      BY <1>2, <3>1, <3>3 DEF Good, Queued
    <3>. QED
      BY <1>5, <3>4 DEF Before
  <2>9. ASSUME NEW d \in Children \ {c}, NEW e \in Children \ {c},
               Playing(w.child[d]), ~Playing(v.child[d]),
               ~Playing(w.child[e]), Playing(v.child[e])
        PROVE  doc.priority[d] <= doc.priority[e]
    <3>1. e = n
      BY <1>5, <2>7, <2>9
    <3>2. d # n
      BY <2>9, <3>1
    <3>3. ~Stays(u, v, d)
      BY <1>5, <2>9, StayingIs
    <3>. QED
      BY <2>3, <3>1, <3>2, <3>3 DEF Yields
  <2>. QED
    BY <1>4, <1>7, <1>8, <2>3, <2>6, <2>8, <2>9
<1>. QED
  BY <1>9, <1>10

-----------------------------------------------------------------------------
(* The actions *)

StageInv == running => Staged(World)

LEMMA NextWorld ==
  ASSUME NEW w, Good(w), doc' = doc, SetWorld(w)
  PROVE  World' = w /\ Good(World)' /\ (Staged(w) => Staged(World)')
<1>1. World' = w /\ child' = w.child /\ m_cont' = w.queue
  BY DEF World, SetWorld, Good, Worlds
<1>2. (w \in Worlds)' /\ Queued(w)'
  BY DEF Good, Queued, Before
<1>3. Marked(w)'
  BY DEF Good, Marked
<1>4. Good(World)'
  BY <1>1, <1>2, <1>3 DEF Good, Queued, Marked, Before, World
<1>5. Staged(w) => Staged(World)'
  BY <1>1 DEF Staged, NoHold, Alone, OneFill, Bare, World
<1>. QED
  BY <1>1, <1>4, <1>5

LEMMA WorldIs ==
  ASSUME QueueInv
  PROVE  doc \in DocumentType /\ Good(World) /\ World.child = child /\ World.queue = m_cont
BY DocumentsAssumption DEF QueueInv, Turns, World

LEMMA InitGood ==
  ASSUME Init
  PROVE  QueueInv /\ StageInv
<1>0. Children \subseteq Int /\ 0 \in 0..MaxRounds /\ 0 \in 0..MaxBegins
  BY SizesAssumption, BoundsAssumption DEF Children
<1>1. NewChild \in ChildType
  BY <1>0 DEF NewChild, ChildType, States
<1>2. World \in Worlds
  BY <1>1 DEF Init, World, Worlds
<1>3. Len(<<>>) = 0 /\ \A c : ~InQueue(<<>>, c) /\ \A d : ~Ahead(<<>>, c, d)
  BY DEF InQueue, Ahead
<1>4. \A c \in Children : ~child[c].paused /\ ~child[c].deferred /\ child[c].state = "reset"
  BY DEF Init, NewChild
<1>5. Queued(World) /\ Marked(World)
  BY <1>3, <1>4 DEF Init, Queued, Marked, World
<1>6. Turns
  BY <1>0, <1>4 DEF Init, Turns, Settled
<1>7. StageInv
  BY DEF Init, StageInv
<1>. QED
  BY <1>2, <1>5, <1>6, <1>7 DEF QueueInv, Good

\* The children that are not active keep their marks and their place.
LEMMA ActiveLeave ==
  ASSUME QueueInv, NEW f \in [Children -> ChildType], doc' = doc,
         child' = f, m_cont' = Keep(m_cont, {c \in Children : child[c].state # "active"}),
         \A c \in Children :
             /\ f[c].state # "active"
             /\ f[c].paused <=> child[c].paused /\ child[c].state # "active"
             /\ f[c].deferred <=> child[c].deferred /\ child[c].state # "active"
  PROVE  Good(World)'
<1>1. Good(World) /\ World.child = child /\ World.queue = m_cont /\ m_cont \in Seq(Children)
  BY WorldIs DEF Good, Worlds
<1>2. PICK S \in SUBSET Children : S = {c \in Children : child[c].state # "active"}
  OBVIOUS
<1>3. PICK q \in Seq(Children) : q = Keep(m_cont, S)
  BY <1>1, KeepFacts
<1>4. PICK v \in Worlds : v.child = f /\ v.queue = q
  <2>1. [child |-> f, queue |-> q] \in Worlds
    BY DEF Worlds
  <2>. QED
    BY <2>1
<1>5. /\ \A d \in S : SameMarks(World, v, d)
      /\ \A d \in Children \ S : Unmarked(v, d)
  BY <1>1, <1>2, <1>4 DEF SameMarks, Unmarked
<1>6. Marked(v)
  BY <1>1, <1>4 DEF Marked, Good
<1>7. Good(v)
  BY <1>1, <1>3, <1>4, <1>5, <1>6, SomeLeave
<1>8. SetWorld(v)
  BY <1>2, <1>3, <1>4 DEF SetWorld
<1>. QED
  BY <1>7, <1>8, NextWorld

LEMMA ResetChildIs ==
  ASSUME NEW r \in ChildType
  PROVE  /\ ResetChild(r) \in ChildType /\ ResetChild(r).state = "reset" /\ ~ResetChild(r).shown
         /\ ResetChild(r).paused <=> r.paused /\ r.state # "active"
         /\ ResetChild(r).deferred <=> r.deferred /\ r.state # "active"
<1>0. 0 \in 0..MaxBegins /\ r.paused \in BOOLEAN /\ r.deferred \in BOOLEAN
  BY BoundsAssumption DEF ChildType
<1>1. PICK p \in BOOLEAN : p = (r.paused /\ r.state # "active")
  OBVIOUS
<1>2. PICK d \in BOOLEAN : d = (r.deferred /\ r.state # "active")
  OBVIOUS
<1>3. ResetChild(r) =
        [r EXCEPT !.state = "reset", !.interval = "none", !.shown = FALSE,
                  !.played = FALSE, !.more = 0, !.paused = p, !.deferred = d]
  BY <1>1, <1>2 DEF ResetChild
<1>4. /\ ResetChild(r) \in ChildType /\ ResetChild(r).state = "reset" /\ ~ResetChild(r).shown
      /\ ResetChild(r).paused = p /\ ResetChild(r).deferred = d
  BY <1>0, <1>3 DEF ChildType, States
<1>. QED
  BY <1>1, <1>2, <1>4

LEMMA ResetKeeps ==
  ASSUME QueueInv, doc' = doc, ResetChildren
  PROVE  /\ Good(World)' /\ \A c \in Children : child'[c].state = "reset" /\ ~child'[c].shown
<1>0. Good(World) /\ child \in [Children -> ChildType]
  BY WorldIs DEF Good, Worlds
<1>1. \A c \in Children : ResetChild(child[c]) \in ChildType
  BY <1>0, ResetChildIs
<1>2. PICK f \in [Children -> ChildType] : f = [c \in Children |-> ResetChild(child[c])]
  BY <1>1
<1>3. \A c \in Children : f[c] = ResetChild(child[c]) /\ child[c] \in ChildType
  BY <1>0, <1>2
<1>4. \A c \in Children :
        /\ f[c].state = "reset" /\ ~f[c].shown
        /\ f[c].paused <=> child[c].paused /\ child[c].state # "active"
        /\ f[c].deferred <=> child[c].deferred /\ child[c].state # "active"
  BY <1>3, ResetChildIs
<1>5. child' = f /\ m_cont' = Keep(m_cont, {c \in Children : child[c].state # "active"})
  BY <1>2 DEF ResetChildren
<1>6. Good(World)'
  BY <1>4, <1>5, ActiveLeave
<1>. QED
  BY <1>4, <1>5, <1>6

LEMMA ResetStage ==
  ASSUME \A c \in Children : child'[c].state = "reset" /\ ~child'[c].shown
  PROVE  Staged(World)'
BY DEF Staged, Alone, OneFill, Bare, Playing, Filled, World

LEMMA BeginKeeps ==
  ASSUME QueueInv, Begin
  PROVE  QueueInv' /\ StageInv'
<1>1. /\ doc' = doc /\ ResetChildren /\ running' = TRUE /\ elist' = elist
      /\ Settled /\ rounds < MaxRounds
  BY DEF Begin
<1>2. Good(World)' /\ \A c \in Children : child'[c].state = "reset" /\ ~child'[c].shown
  BY <1>1, ResetKeeps
<1>3. rounds' \in 0..MaxRounds
  BY <1>1, BoundsAssumption DEF QueueInv, Turns, ResetChildren
<1>4. Turns'
  BY <1>1, <1>2, <1>3 DEF QueueInv, Turns, ResetChildren, Settled
<1>. QED
  BY <1>2, <1>4, ResetStage DEF QueueInv, StageInv

LEMMA RepeatKeeps ==
  ASSUME QueueInv, Repeat
  PROVE  QueueInv' /\ StageInv'
<1>1. /\ doc' = doc /\ ResetChildren /\ running' = running /\ running /\ elist' = elist
      /\ Settled /\ rounds < MaxRounds
  BY DEF Repeat
<1>2. Good(World)' /\ \A c \in Children : child'[c].state = "reset" /\ ~child'[c].shown
  BY <1>1, ResetKeeps
<1>3. rounds' \in 0..MaxRounds
  BY <1>1, BoundsAssumption DEF QueueInv, Turns, ResetChildren
<1>4. Turns'
  BY <1>1, <1>2, <1>3 DEF QueueInv, Turns, ResetChildren, Settled
<1>. QED
  BY <1>2, <1>4, ResetStage DEF QueueInv, StageInv

LEMMA EndKeeps ==
  ASSUME QueueInv, End
  PROVE  QueueInv' /\ StageInv' /\ \A c \in Children : child'[c].state = "dead"
<1>0. /\ doc \in DocumentType /\ Good(World) /\ World.child = child
      /\ child \in [Children -> ChildType]
  BY WorldIs DEF Good, Worlds
<1>1. ASSUME NEW c \in Children
      PROVE  /\ KillChild(c) \in ChildType /\ KillChild(c).state = "dead"
             /\ KillChild(c).paused <=> child[c].paused /\ child[c].state # "active"
             /\ KillChild(c).deferred <=> child[c].deferred /\ child[c].state # "active"
  <2>1. PICK r : r = IF child[c].state = "active" THEN ExitActive(World, c).child[c] ELSE child[c]
    OBVIOUS
  <2>2. /\ r \in ChildType
        /\ r.paused <=> child[c].paused /\ child[c].state # "active"
        /\ r.deferred <=> child[c].deferred /\ child[c].state # "active"
    <3>1. CASE child[c].state = "active"
      <4>1. PICK v : v = ExitActive(World, c)
        OBVIOUS
      <4>2. Good(v) /\ Unmarked(v, c)
        BY <1>0, <3>1, <4>1, ExitActiveIs
      <4>. QED
        BY <2>1, <3>1, <4>1, <4>2 DEF Good, Worlds, Unmarked
    <3>2. CASE child[c].state # "active"
      BY <1>0, <2>1, <3>2
    <3>. QED
      BY <3>1, <3>2
  <2>3. KillChild(c) = [r EXCEPT !.state = "dead", !.interval = "none"]
    BY <2>1 DEF KillChild
  <2>. QED
    BY <2>2, <2>3 DEF ChildType, States
<1>2. PICK f \in [Children -> ChildType] : f = [c \in Children |-> KillChild(c)]
  BY <1>1
<1>3. \A c \in Children : f[c] = KillChild(c)
  BY <1>2
<1>4. /\ child' = f /\ m_cont' = Keep(m_cont, {c \in Children : child[c].state # "active"})
      /\ doc' = doc /\ running' = FALSE /\ starting' = starting /\ elist' = elist
      /\ rounds' = rounds /\ Settled
  BY <1>2 DEF End
<1>5. \A c \in Children :
        /\ f[c].state = "dead"
        /\ f[c].paused <=> child[c].paused /\ child[c].state # "active"
        /\ f[c].deferred <=> child[c].deferred /\ child[c].state # "active"
  BY <1>1, <1>3
<1>6. Good(World)'
  BY <1>4, <1>5, ActiveLeave
<1>7. Turns'
  BY <1>4, <1>5 DEF QueueInv, Turns, Settled
<1>. QED
  BY <1>4, <1>5, <1>6, <1>7 DEF QueueInv, StageInv

\* From w to v, those that wait come to the stage in order, and a child of a
\* lower priority only when the others end.
Fair(w, v) ==
    /\ \A d, e \in Children :
          /\ d # e /\ Waits(w, d) /\ Playing(v.child[d]) /\ Waits(w, e) /\ Waits(v, e)
          => Before(w.child, d, e)
    /\ \A d, e \in Children :
          /\ Playing(w.child[d]) /\ ~Playing(v.child[d])
          /\ ~Playing(w.child[e]) /\ Playing(v.child[e]) /\ doc.priority[e] < doc.priority[d]
          => w.child[d].interval = "due" /\ v.child[d].state = "postactive"

LEMMA BeginningIsFair ==
  ASSUME doc \in DocumentType, NEW w, Good(w), NEW v, Good(v), NEW c \in Children,
         \A d \in Children \ {c} : Stays(w, v, d) \/ Yields(w, v, d, c),
         Waits(w, c) => ~Playing(v.child[c])
  PROVE  Fair(w, v)
<1>1. \A d \in Children : Playing(v.child[d]) /\ ~Playing(w.child[d]) => d = c
  BY StayingIs DEF Yields
<1>2. \A d \in Children : Waits(w, d) => ~Playing(v.child[d])
  BY <1>1, WaitersDoNotPlay
<1>3. ASSUME NEW d \in Children, NEW e \in Children,
             Playing(w.child[d]), ~Playing(v.child[d]), ~Playing(w.child[e]), Playing(v.child[e])
      PROVE  ~(doc.priority[e] < doc.priority[d])
  <2>1. e = c /\ d # c
    BY <1>1, <1>3
  <2>2. ~Stays(w, v, d)
    BY <1>3, StayingIs
  <2>3. doc.priority[d] <= doc.priority[c]
    BY <2>1, <2>2 DEF Yields
  <2>. QED
    BY <2>1, <2>3, DocTypes
<1>. QED
  BY <1>2, <1>3 DEF Fair

\* The property and what it means for the next world.
LEMMA FairStep ==
  ASSUME QueueInv, NEW v, Good(v), Fair(World, v), child' = v.child, doc' = doc
  PROVE  /\ \A c, d \in Children :
               /\ Waiting(c) /\ Playing(child'[c]) /\ Waiting(d) /\ Waiting(d)'
               => \/ doc.priority[d] < doc.priority[c]
                  \/ /\ doc.priority[d] = doc.priority[c]
                     /\ child[d].paused => child[c].paused
         /\ \A c, d \in Children :
               /\ Playing(child[c]) /\ ~Playing(child'[c]) /\ running' = running
               /\ ~Playing(child[d]) /\ Playing(child'[d])
               /\ doc.priority[d] < doc.priority[c]
               => child[c].interval = "due" /\ child'[c].state = "postactive"
<1>0. doc \in DocumentType /\ World.child = child
  BY WorldIs
<1>1. ASSUME NEW c \in Children, NEW d \in Children,
             Waiting(c), Playing(child'[c]), Waiting(d), Waiting(d)'
      PROVE  \/ doc.priority[d] < doc.priority[c]
             \/ doc.priority[d] = doc.priority[c] /\ (child[d].paused => child[c].paused)
  <2>1. Waits(World, c) /\ Waits(World, d) /\ Waits(v, d) /\ Playing(v.child[c])
    BY <1>0, <1>1 DEF Waiting, Waits
  <2>2. c # d
    BY <2>1, WaitersDoNotPlay
  <2>3. Before(World.child, c, d)
    BY <2>1, <2>2 DEF Fair
  <2>. QED
    BY <1>0, <2>3, DocTypes DEF Before
<1>2. ASSUME NEW c \in Children, NEW d \in Children,
             Playing(child[c]), ~Playing(child'[c]), ~Playing(child[d]), Playing(child'[d]),
             doc.priority[d] < doc.priority[c]
      PROVE  child[c].interval = "due" /\ child'[c].state = "postactive"
  BY <1>0, <1>2 DEF Fair
<1>. QED
  BY <1>1, <1>2

NoEnd == \A c \in Children : ~doc.explicitEnd[c]

LEMMA StartupWorld ==
  ASSUME QueueInv, NEW c \in Children, Startup(c)
  PROVE  \E v : /\ Good(v) /\ SetWorld(v) /\ Fair(World, v) /\ (Staged(World) => Staged(v))
                /\ \A d \in Children \ {c} :
                      child[d].state # "active" =>
                          v.child[d].state = child[d].state /\ SameMarks(World, v, d)
                /\ Timely(World) /\ ~child[c].deferred /\ ~doc.skipped[c] =>
                      Timely(v) /\ (SomePlay(v) \/ (~SomePlay(World) /\ v.queue = m_cont))
<1>0. /\ doc \in DocumentType /\ Good(World) /\ World.child = child /\ World \in Worlds
      /\ World.queue = m_cont /\ child[c] \in ChildType
  BY WorldIs DEF Good, Worlds
<1>1. PICK at : at = CASE doc.atZero[c] -> "due"
                       [] ~doc.atZero[c] /\ doc.timed[c] -> "later"
                       [] OTHER -> "none"
  OBVIOUS
<1>2. at \in {"none", "later", "due"}
  <2>1. CASE doc.atZero[c]
    BY <1>1, <2>1, Zenon
  <2>2. CASE ~doc.atZero[c] /\ doc.timed[c]
    BY <1>1, <2>2, Zenon
  <2>3. CASE ~doc.atZero[c] /\ ~doc.timed[c]
    BY <1>1, <2>3, Zenon
  <2>. QED
    BY <2>1, <2>2, <2>3
<1>3. PICK r : r = [child[c] EXCEPT
                      !.state = "proactive", !.interval = at,
                      !.more = IF at = "none" THEN MaxBegins ELSE MaxBegins - 1]
  OBVIOUS
<1>4. PICK w : w = [World EXCEPT !.child[c] = r]
  OBVIOUS
<1>5. c \in starting /\ SetWorld(IF at = "due" THEN SetInterval(w, c) ELSE w)
  BY <1>1, <1>3, <1>4, Zenon DEF Startup
<1>6. child[c].state = "reset" /\ ~child[c].paused
  BY <1>0, <1>5 DEF QueueInv, Turns, Good, Marked
<1>7. /\ r \in ChildType /\ r.state = "proactive" /\ r.shown = child[c].shown
      /\ r.paused = child[c].paused /\ r.deferred = child[c].deferred
  <2>1. PICK m \in 0..MaxBegins : m = IF at = "none" THEN MaxBegins ELSE MaxBegins - 1
    BY BoundsAssumption
  <2>. QED
    BY <1>0, <1>2, <1>3, <2>1 DEF ChildType, States
<1>8. Good(w) /\ w.queue = m_cont /\ w.child[c] = r /\ Others(World, w, c)
  <2>1. ~r.paused /\ r.state # "active"
    BY <1>6, <1>7
  <2>. QED
    BY <1>0, <1>4, <1>7, <2>1, Retouched
<1>9. Staged(World) => Staged(w)
  <2>1. \A d \in Children : Playing(w.child[d]) => Playing(World.child[d])
    BY <1>7, <1>8 DEF Others, Playing
  <2>2. \A d \in Children : Filled(w.child[d]) => Filled(World.child[d])
    BY <1>0, <1>6, <1>7, <1>8 DEF Others, Filled
  <2>. QED
    BY <2>1, <2>2, StageKept
<1>10. PICK v : v = IF at = "due" THEN SetInterval(w, c) ELSE w
  OBVIOUS
<1>11. /\ Served(w, v, c) /\ (w.child[c].deferred => v = w)
       /\ (at = "due" /\ ~w.child[c].deferred) => Prompt(w, v, c)
  <2>1. w.child[c].state # "active"
    BY <1>7, <1>8
  <2>2. CASE at = "due"
    <3>1. v = SetInterval(w, c)
      BY <1>10, <2>2
    <3>. QED
      BY <1>0, <1>8, <2>1, <3>1, SetIntervalIs, Zenon
  <2>3. CASE at # "due"
    <3>1. v = w /\ Others(w, w, c)
      BY <1>10, <2>3 DEF Others
    <3>. QED
      BY <1>8, <2>1, <2>3, <3>1, Refusal
  <2>. QED
    BY <2>2, <2>3
<1>12. \A d \in Children \ {c} : Stays(World, v, d) \/ Yields(World, v, d, c)
  BY <1>8, <1>11 DEF Served, Others, Stays, Yields, SameMarks
<1>13. Waits(World, c) => ~Playing(v.child[c])
  BY <1>0, <1>6, <1>7, <1>8, <1>11 DEF Waits, Playing
<1>14. Good(v)
  BY <1>11 DEF Served
<1>15. Fair(World, v)
  BY <1>0, <1>12, <1>13, <1>14, BeginningIsFair
<1>16. \A d \in Children \ {c} :
         child[d].state # "active" => v.child[d].state = child[d].state /\ SameMarks(World, v, d)
  BY <1>0, <1>12 DEF Stays, Yields, Playing
<1>17. SetWorld(v)
  BY <1>5, <1>10
<1>18. Staged(World) => Staged(v)
  BY <1>9, <1>11 DEF Served
<1>19. ASSUME Timely(World), ~child[c].deferred, ~doc.skipped[c]
       PROVE  Timely(v) /\ (SomePlay(v) \/ (~SomePlay(World) /\ v.queue = m_cont))
  <2>1. Timely(w) /\ ~w.child[c].deferred
    BY <1>7, <1>8, <1>19 DEF Timely, Others
  <2>2. CASE at = "due"
    <3>1. w.child[c].interval = "due"
      BY <1>0, <1>2, <1>3, <1>8, <2>2 DEF ChildType
    <3>. QED
      BY <1>11, <1>19, <2>1, <2>2, <3>1 DEF Prompt
  <2>3. CASE at # "due"
    <3>1. v = w
      BY <1>10, <2>3
    <3>2. SomePlay(World) => SomePlay(w)
      BY <1>0, <1>6, <1>8 DEF SomePlay, Others, Playing
    <3>. QED
      BY <1>8, <2>1, <3>1, <3>2
  <2>. QED
    BY <2>2, <2>3
<1>. QED
  BY <1>14, <1>15, <1>16, <1>17, <1>18, <1>19

LEMMA StartupKeeps ==
  ASSUME QueueInv, NEW c \in Children, Startup(c)
  PROVE  QueueInv' /\ (StageInv => StageInv')
<1>1. PICK v : /\ Good(v) /\ SetWorld(v) /\ (Staged(World) => Staged(v))
               /\ \A d \in Children \ {c} :
                     child[d].state # "active" => v.child[d].state = child[d].state
  BY StartupWorld
<1>2. /\ doc' = doc /\ starting' = starting \ {c} /\ c \in starting
      /\ running' = running /\ elist' = elist /\ rounds' = rounds
  BY Zenon DEF Startup
<1>3. Good(World)' /\ (Staged(v) => Staged(World)')
  BY <1>1, <1>2, NextWorld
<1>4. running
  BY <1>2 DEF QueueInv, Turns, Settled
<1>5. child' = v.child
  BY <1>1 DEF SetWorld
<1>6. \A d \in starting' : child'[d].state = "reset"
  BY <1>1, <1>2, <1>5 DEF QueueInv, Turns
<1>7. Turns'
  BY <1>2, <1>4, <1>6 DEF QueueInv, Turns
<1>. QED
  BY <1>1, <1>2, <1>3, <1>4, <1>7 DEF QueueInv, StageInv

LEMMA AdvanceWorld ==
  ASSUME QueueInv, NEW S \in SUBSET Children, Advance(S)
  PROVE  \E v : /\ Good(v) /\ SetWorld(v) /\ Fair(World, v) /\ (Staged(World) => Staged(v))
                /\ (SomePlay(World) => SomePlay(v)) /\ (Timely(World) => Timely(v))
<1>0. /\ doc \in DocumentType /\ Good(World) /\ World.child = child /\ World.queue = m_cont
      /\ child \in [Children -> ChildType] /\ m_cont \in Seq(Children)
  BY WorldIs DEF Good, Worlds
<1>1. PICK f : f = [c \in Children |->
                      IF c \notin S THEN child[c]
                      ELSE IF child[c].interval = "none"
                      THEN [child[c] EXCEPT !.interval = "due", !.more = child[c].more - 1]
                      ELSE [child[c] EXCEPT !.interval = "due"]]
  OBVIOUS
<1>2. child' = f /\ m_cont' = m_cont /\ S # {} /\ \A c \in S : Pending(c)
  BY <1>1 DEF Advance
<1>3. \A c \in S : /\ ~child[c].paused /\ ~child[c].deferred
                   /\ child[c].interval = "none" => child[c].more > 0
  BY <1>2 DEF Pending
<1>4. ASSUME NEW c \in Children
      PROVE  /\ f[c] \in ChildType /\ f[c].state = child[c].state /\ f[c].shown = child[c].shown
             /\ f[c].paused = child[c].paused /\ f[c].deferred = child[c].deferred
             /\ f[c].paused \/ f[c].deferred => f[c] = child[c]
  <2>1. CASE c \notin S
    <3>1. f[c] = child[c]
      BY <1>1, <2>1
    <3>. QED
      BY <1>0, <3>1
  <2>2. CASE c \in S /\ child[c].interval = "none"
    <3>1. PICK m \in 0..MaxBegins : m = child[c].more - 1
      BY <1>0, <1>3, <2>2, BoundsAssumption DEF ChildType
    <3>2. f[c] = [child[c] EXCEPT !.interval = "due", !.more = m]
      BY <1>1, <2>2, <3>1
    <3>3. f[c] \in ChildType
      BY <1>0, <3>2 DEF ChildType
    <3>4. /\ f[c].state = child[c].state /\ f[c].shown = child[c].shown
          /\ f[c].paused = child[c].paused /\ f[c].deferred = child[c].deferred
      BY <1>0, <3>2 DEF ChildType
    <3>. QED
      BY <1>3, <2>2, <3>3, <3>4
  <2>3. CASE c \in S /\ child[c].interval # "none"
    <3>1. f[c] = [child[c] EXCEPT !.interval = "due"]
      BY <1>1, <2>3
    <3>2. f[c] \in ChildType
      BY <1>0, <3>1 DEF ChildType
    <3>3. /\ f[c].state = child[c].state /\ f[c].shown = child[c].shown
          /\ f[c].paused = child[c].paused /\ f[c].deferred = child[c].deferred
      BY <1>0, <3>1 DEF ChildType
    <3>. QED
      BY <1>3, <2>3, <3>2, <3>3
  <2>. QED
    BY <2>1, <2>2, <2>3
<1>5. f \in [Children -> ChildType]
  BY <1>1, <1>4
<1>6. PICK v \in Worlds : v.child = f /\ v.queue = m_cont
  <2>1. [child |-> f, queue |-> m_cont] \in Worlds
    BY <1>0, <1>5 DEF Worlds
  <2>. QED
    BY <2>1
<1>7. \A d \in Children : Stays(World, v, d) /\ SameMarks(World, v, d)
  BY <1>0, <1>4, <1>6 DEF Stays, SameMarks
<1>8. Marked(v)
  BY <1>0, <1>4, <1>6 DEF Good, Marked
<1>9. Good(v)
  BY <1>0, <1>6, <1>7, <1>8, MarksKept
<1>10. SetWorld(v)
  BY <1>2, <1>6 DEF SetWorld
<1>11. \A d \in Children : /\ Playing(v.child[d]) <=> Playing(World.child[d])
                           /\ Filled(v.child[d]) => Filled(World.child[d])
  BY <1>7, StayingIs
<1>12. Staged(World) => Staged(v)
  BY <1>11, StageKept
<1>13. PICK c \in Children : c \in S
  BY <1>2
<1>14. Waits(World, c) => ~Playing(v.child[c])
  BY <1>0, <1>11, WaitersDoNotPlay
<1>15. Fair(World, v)
  BY <1>0, <1>7, <1>9, <1>14, BeginningIsFair
<1>16. SomePlay(World) => SomePlay(v)
  BY <1>11 DEF SomePlay
<1>17. Timely(World) => Timely(v)
  BY <1>0, <1>4, <1>6 DEF Timely
<1>. QED
  BY <1>9, <1>10, <1>12, <1>15, <1>16, <1>17

LEMMA AdvanceKeeps ==
  ASSUME QueueInv, NEW S \in SUBSET Children, Advance(S)
  PROVE  QueueInv' /\ (StageInv => StageInv')
<1>1. PICK v : Good(v) /\ SetWorld(v) /\ (Staged(World) => Staged(v))
  BY AdvanceWorld
<1>2. /\ doc' = doc /\ starting' = starting /\ elist' = S /\ Settled
      /\ running' = running /\ running /\ rounds' = rounds
  BY DEF Advance
<1>3. Good(World)' /\ (Staged(v) => Staged(World)')
  BY <1>1, <1>2, NextWorld
<1>4. Turns'
  BY <1>2 DEF QueueInv, Turns, Settled
<1>. QED
  BY <1>1, <1>2, <1>3, <1>4 DEF QueueInv, StageInv

NoSkip == \A c \in Children : ~doc.skipped[c]

LEMMA ExecWorld ==
  ASSUME QueueInv, NEW c \in Children, Exec(c)
  PROVE  \E v : /\ Good(v) /\ SetWorld(v) /\ Fair(World, v)
                /\ NoEnd /\ Staged(World) => Staged(v)
                /\ Timely(World) /\ (m_cont = <<>> \/ SomePlay(World)) /\ NoSkip =>
                      Timely(v) /\ (v.queue = <<>> \/ SomePlay(v))
<1>0. doc \in DocumentType /\ Good(World) /\ World.child = child /\ World.queue = m_cont
  BY WorldIs
<1>1. CASE EndCond(child[c])
  <2>1. PICK v : v = EndNormally(World, c)
    OBVIOUS
  <2>2. SetWorld(v)
    <3>1. ~BeginCond(child[c])
      BY <1>1 DEF EndCond, BeginCond
    <3>. QED
      BY <1>1, <2>1, <3>1, Zenon DEF Exec
  <2>3. child[c].state = "active" /\ child[c].interval = "due"
    BY <1>1 DEF EndCond
  <2>4. /\ Good(v) /\ v.child[c].state = "postactive" /\ Unmarked(v, c)
        /\ Playing(World.child[c]) /\ Staged(World) => Staged(v)
        /\ Timely(World) /\ (\A d \in Children : ~doc.skipped[d]) =>
              Timely(v) /\ (v.queue = <<>> \/ SomePlay(v))
        /\ \A d, e \in Children \ {c} :
              /\ d # e /\ Waits(World, d) /\ Waits(World, e) /\ Playing(v.child[d])
              => Before(World.child, d, e)
        /\ \A d, e \in Children \ {c} :
              /\ Playing(World.child[d]) /\ ~Playing(v.child[d])
              /\ ~Playing(World.child[e]) /\ Playing(v.child[e])
              => doc.priority[d] <= doc.priority[e]
    BY <1>0, <2>1, <2>3, EndNormallyIs
  <2>5. NoEnd => Playing(World.child[c])
    BY <1>0, <2>3 DEF NoEnd, Good, Marked, Playing
  <2>6. ~Playing(v.child[c]) /\ ~Waits(v, c)
    BY <2>4 DEF Playing, Unmarked, Waits
  <2>7. \A d, e \in Children :
          /\ d # e /\ Waits(World, d) /\ Playing(v.child[d]) /\ Waits(World, e) /\ Waits(v, e)
          => Before(World.child, d, e)
    BY <2>4, <2>6
  <2>8. ASSUME NEW d \in Children, NEW e \in Children,
               Playing(World.child[d]), ~Playing(v.child[d]),
               ~Playing(World.child[e]), Playing(v.child[e]), doc.priority[e] < doc.priority[d]
        PROVE  World.child[d].interval = "due" /\ v.child[d].state = "postactive"
    <3>1. ~(doc.priority[d] <= doc.priority[e])
      BY <1>0, <2>8, DocTypes
    <3>2. d = c
      BY <2>4, <2>6, <2>8, <3>1
    <3>. QED
      BY <1>0, <2>3, <2>4, <3>2
  <2>9. Fair(World, v)
    BY <2>7, <2>8 DEF Fair
  <2>. QED
    BY <2>2, <2>4, <2>5, <2>9 DEF NoSkip
<1>2. CASE ~EndCond(child[c]) /\ BeginCond(child[c])
  <2>1. PICK v : v = SetInterval(World, c)
    OBVIOUS
  <2>2. SetWorld(v)
    BY <1>2, <2>1, Zenon DEF Exec
  <2>3. World.child[c].state # "active"
    BY <1>0, <1>2 DEF BeginCond
  <2>4. /\ Served(World, v, c) /\ (World.child[c].deferred => v = World)
        /\ ~World.child[c].deferred => Prompt(World, v, c)
    BY <1>0, <2>1, <2>3, SetIntervalIs
  <2>5. Good(v) /\ \A d \in Children \ {c} : Stays(World, v, d) \/ Yields(World, v, d, c)
    BY <2>4 DEF Served
  <2>6. Waits(World, c) => ~Playing(v.child[c])
    BY <1>0, <2>3, <2>4 DEF Waits, Playing, Good, Marked
  <2>7. Fair(World, v)
    BY <1>0, <2>5, <2>6, BeginningIsFair
  <2>8. Staged(World) => Staged(v)
    BY <2>4 DEF Served
  <2>9. Timely(World) /\ (m_cont = <<>> \/ SomePlay(World)) /\ NoSkip =>
          Timely(v) /\ (v.queue = <<>> \/ SomePlay(v))
    <3>1. World.child[c].interval = "due"
      BY <1>0, <1>2 DEF BeginCond
    <3>2. CASE World.child[c].deferred
      BY <1>0, <2>4, <3>2
    <3>3. CASE ~World.child[c].deferred
      BY <2>4, <3>1, <3>3 DEF Prompt, NoSkip
    <3>. QED
      BY <3>2, <3>3
  <2>. QED
    BY <2>2, <2>5, <2>7, <2>8, <2>9
<1>3. CASE ~EndCond(child[c]) /\ ~BeginCond(child[c])
  <2>1. SetWorld(World)
    BY <1>3, Zenon DEF Exec
  <2>2. \A d \in Children : Stays(World, World, d)
    BY DEF Stays, SameMarks
  <2>3. Waits(World, c) => ~Playing(World.child[c])
    BY <1>0, WaitersDoNotPlay
  <2>4. Fair(World, World)
    BY <1>0, <2>2, <2>3, BeginningIsFair
  <2>. QED
    BY <1>0, <2>1, <2>4
<1>. QED
  BY <1>1, <1>2, <1>3

LEMMA ExecKeeps ==
  ASSUME QueueInv, NEW c \in Children, Exec(c)
  PROVE  QueueInv' /\ (NoEnd /\ StageInv => StageInv')
<1>1. PICK v : Good(v) /\ SetWorld(v) /\ (NoEnd /\ Staged(World) => Staged(v))
  BY ExecWorld
<1>2. /\ doc' = doc /\ starting' = starting /\ elist' = elist \ {c} /\ c \in elist
      /\ running' = running /\ rounds' = rounds
  BY Zenon DEF Exec
<1>3. Good(World)' /\ (Staged(v) => Staged(World)')
  BY <1>1, <1>2, NextWorld
<1>4. running /\ starting = {}
  BY <1>2 DEF QueueInv, Turns, Settled
<1>5. Turns'
  BY <1>2, <1>4 DEF QueueInv, Turns
<1>. QED
  BY <1>1, <1>2, <1>3, <1>4, <1>5 DEF QueueInv, StageInv

LEMMA Stutters ==
  ASSUME QueueInv, UNCHANGED vars
  PROVE  QueueInv' /\ (StageInv => StageInv')
<1>1. Good(World) /\ SetWorld(World) /\ doc' = doc /\ running' = running
  BY DEF QueueInv, vars, SetWorld, World
<1>2. Good(World)' /\ (Staged(World) => Staged(World)')
  BY <1>1, NextWorld
<1>3. Turns'
  BY DEF QueueInv, Turns, vars, Settled
<1>. QED
  BY <1>1, <1>2, <1>3 DEF QueueInv, StageInv

LEMMA QueueInvInductive ==
  ASSUME QueueInv, [Next]_vars
  PROVE  QueueInv'
BY BeginKeeps, RepeatKeeps, EndKeeps, StartupKeeps, ExecKeeps, AdvanceKeeps, Stutters DEF Next

-----------------------------------------------------------------------------
(* The theorems *)

LEMMA QueueInvHolds ==
  Spec => []QueueInv
<1>1. Init => QueueInv
  BY InitGood
<1>2. QueueInv /\ [Next]_vars => QueueInv'
  BY QueueInvInductive
<1>. QED
  BY <1>1, <1>2, PTL DEF Spec

\* The children, the queue and the scheduler's lists stay within their types;
\* in particular no handler brings a counter of begin instances below zero.
THEOREM TypeCorrect ==
  Spec => []TypeOK
<1>1. QueueInv => TypeOK
  BY WorldIs DEF QueueInv, Turns, Good, Worlds, World, TypeOK
<1>. QED
  BY <1>1, QueueInvHolds, PTL

\* excl_queue holds the paused and the deferred children, each once, by
\* priority and the paused ones first, for any number of children and classes
\* and all priorityClass attributes: the order that push_pause and push_defer
\* keep, and why on_child_normal_end (time_node.cpp 2662) always finds a child
\* that is paused or deferred at its head.
THEOREM QueueIsExact ==
  Spec => []QueueExact
<1>1. ASSUME QueueInv PROVE QueueExact
  <2>1. doc \in DocumentType /\ Good(World) /\ World.child = child /\ World.queue = m_cont
    BY <1>1, WorldIs
  <2>2. m_cont \in Seq(Children)
    BY <2>1 DEF Good, Worlds
  <2>3. Len(m_cont) \in Nat /\ \A i \in 1..Len(m_cont) : m_cont[i] \in Children
    BY <2>2, LenProperties, ElementOfSeq
  <2>4. \A c \in Children : Waiting(c) <=> \E i \in 1..Len(m_cont) : m_cont[i] = c
    BY <2>1 DEF Good, Queued, InQueue, Waiting
  <2>5. ASSUME NEW i \in 1..Len(m_cont), NEW j \in 1..Len(m_cont), i < j
        PROVE  Before(child, m_cont[i], m_cont[j])
    <3>1. Ahead(m_cont, m_cont[i], m_cont[j])
      BY <2>5 DEF Ahead
    <3>. QED
      BY <2>1, <2>3, <3>1 DEF Good, Queued
  <2>6. \A i, j \in 1..Len(m_cont) : m_cont[i] = m_cont[j] => i = j
    <3>. SUFFICES ASSUME NEW i \in 1..Len(m_cont), NEW j \in 1..Len(m_cont),
                         m_cont[i] = m_cont[j], i # j
                  PROVE  FALSE
      OBVIOUS
    <3>1. i < j \/ j < i
      OBVIOUS
    <3>. QED
      BY <2>5, <3>1 DEF Before
  <2>7. \A c \in Children :
          /\ child[c].paused => child[c].state = "active"
          /\ child[c].deferred => child[c].state # "active"
    BY <2>1 DEF Good, Marked
  <2>8. \A i, j \in 1..Len(m_cont) : i < j =>
          \/ doc.priority[m_cont[i]] > doc.priority[m_cont[j]]
          \/ /\ doc.priority[m_cont[i]] = doc.priority[m_cont[j]]
             /\ child[m_cont[j]].paused => child[m_cont[i]].paused
    BY <2>5 DEF Before
  <2>. QED
    BY <2>4, <2>6, <2>7, <2>8 DEF QueueExact
<1>2. QueueInv => QueueExact
  BY <1>1
<1>. QED
  BY <1>2, QueueInvHolds, PTL

LEMMA NextIsFair ==
  ASSUME QueueInv, [Next]_vars
  PROVE  \/ UNCHANGED vars
         \/ \A c \in Children : ~Playing(child'[c])
         \/ \E v : Good(v) /\ Fair(World, v) /\ child' = v.child /\ doc' = doc
<1>1. CASE Begin
  BY <1>1, ResetKeeps DEF Begin, Playing
<1>2. CASE Repeat
  BY <1>2, ResetKeeps DEF Repeat, Playing
<1>3. CASE End
  BY <1>3, EndKeeps DEF Playing
<1>4. ASSUME NEW c \in Children, Startup(c)
      PROVE  \E v : Good(v) /\ Fair(World, v) /\ child' = v.child /\ doc' = doc
  <2>1. doc' = doc
    BY <1>4, Zenon DEF Startup
  <2>. QED
    BY <1>4, <2>1, StartupWorld DEF SetWorld
<1>5. ASSUME NEW c \in Children, Exec(c)
      PROVE  \E v : Good(v) /\ Fair(World, v) /\ child' = v.child /\ doc' = doc
  <2>1. doc' = doc
    BY <1>5, Zenon DEF Exec
  <2>. QED
    BY <1>5, <2>1, ExecWorld DEF SetWorld
<1>6. ASSUME NEW S \in SUBSET Children, Advance(S)
      PROVE  \E v : Good(v) /\ Fair(World, v) /\ child' = v.child /\ doc' = doc
  <2>1. doc' = doc
    BY <1>6 DEF Advance
  <2>. QED
    BY <1>6, <2>1, AdvanceWorld DEF SetWorld
<1>. QED
  BY <1>1, <1>2, <1>3, <1>4, <1>5, <1>6 DEF Next

\* Whoever comes from excl_queue to the stage has the highest priority of
\* those that waited, and was paused if one of them with its priority was:
\* on_child_normal_end serves the head, and no other handler lets a waiting
\* child play.
THEOREM BestWaiterIsNext ==
  Spec => BestWaiterNext
<1>1. ASSUME QueueInv, [Next]_vars
      PROVE  [\A c, d \in Children :
                /\ Waiting(c) /\ Playing(child'[c])
                /\ Waiting(d) /\ Waiting(d)'
                => \/ doc.priority[d] < doc.priority[c]
                   \/ /\ doc.priority[d] = doc.priority[c]
                      /\ child[d].paused => child[c].paused]_vars
  <2>1. CASE UNCHANGED vars
    BY <2>1
  <2>2. CASE \A c \in Children : ~Playing(child'[c])
    BY <2>2
  <2>3. CASE \E v : Good(v) /\ Fair(World, v) /\ child' = v.child /\ doc' = doc
    <3>1. PICK v : Good(v) /\ Fair(World, v) /\ child' = v.child /\ doc' = doc
      BY <2>3
    <3>. QED
      BY <1>1, <3>1, FairStep
  <2>. QED
    BY <1>1, <2>1, <2>2, <2>3, NextIsFair
<1>2. QueueInv /\ [Next]_vars =>
        [\A c, d \in Children :
                /\ Waiting(c) /\ Playing(child'[c])
                /\ Waiting(d) /\ Waiting(d)'
                => \/ doc.priority[d] < doc.priority[c]
                   \/ /\ doc.priority[d] = doc.priority[c]
                      /\ child[d].paused => child[c].paused]_vars
  BY <1>1
<1>. QED
  BY <1>2, QueueInvHolds, PTL DEF Spec, BestWaiterNext

\* Neither interrupt nor the service of the queue takes the stage from a
\* child in favour of one with a lower priority; the one that had it has come
\* to its end.
THEOREM LowerNeverTakesOver ==
  Spec => NoLowerTakesOver
<1>1. ASSUME QueueInv, [Next]_vars
      PROVE  [\A c, d \in Children :
                /\ Playing(child[c]) /\ ~Playing(child'[c]) /\ running' = running
                /\ ~Playing(child[d]) /\ Playing(child'[d])
                /\ doc.priority[d] < doc.priority[c]
                => child[c].interval = "due" /\ child'[c].state = "postactive"]_vars
  <2>1. CASE UNCHANGED vars
    BY <2>1
  <2>2. CASE \A c \in Children : ~Playing(child'[c])
    BY <2>2
  <2>3. CASE \E v : Good(v) /\ Fair(World, v) /\ child' = v.child /\ doc' = doc
    <3>1. PICK v : Good(v) /\ Fair(World, v) /\ child' = v.child /\ doc' = doc
      BY <2>3
    <3>. QED
      BY <1>1, <3>1, FairStep
  <2>. QED
    BY <1>1, <2>1, <2>2, <2>3, NextIsFair
<1>2. QueueInv /\ [Next]_vars =>
        [\A c, d \in Children :
                /\ Playing(child[c]) /\ ~Playing(child'[c]) /\ running' = running
                /\ ~Playing(child[d]) /\ Playing(child'[d])
                /\ doc.priority[d] < doc.priority[c]
                => child[c].interval = "due" /\ child'[c].state = "postactive"]_vars
  BY <1>1
<1>. QED
  BY <1>2, QueueInvHolds, PTL DEF Spec, NoLowerTakesOver

\* No child of any document is ended by an end attribute, or held.
NoEnds == \A d \in Documents : \A c \in Children : ~d.explicitEnd[c]
NoHolds == \A d \in Documents : \A c \in Children : d.fill[c] # "hold"

LEMMA StageInvHolds ==
  ASSUME NoEnds
  PROVE  Spec => [](QueueInv /\ StageInv)
<1>1. Init => QueueInv /\ StageInv
  BY InitGood
<1>2. ASSUME QueueInv, StageInv, [Next]_vars PROVE QueueInv' /\ StageInv'
  <2>1. NoEnd
    BY <1>2 DEF NoEnds, NoEnd, QueueInv, Turns
  <2>. QED
    BY <1>2, <2>1, BeginKeeps, RepeatKeeps, EndKeeps, StartupKeeps, ExecKeeps, AdvanceKeeps,
       Stutters DEF Next
<1>3. (QueueInv /\ StageInv) /\ [Next]_vars => (QueueInv /\ StageInv)'
  BY <1>2
<1>. QED
  BY <1>1, <1>3, PTL DEF Spec

LEMMA NobodyPlaysOutside ==
  ASSUME QueueInv, ~running
  PROVE  \A c \in Children : ~Playing(child[c])
BY DEF QueueInv, Turns, Playing

\* One child plays at a time, as get_active_child asserts, whatever the
\* classes and the interrupts, if no child has an end attribute: the end of a
\* paused child would serve the queue while another one plays.
THEOREM OneChildPlays ==
  ASSUME NoEnds
  PROVE  Spec => []OneActive
<1>1. ASSUME QueueInv, StageInv PROVE OneActive
  <2>1. CASE running
    BY <1>1, <2>1 DEF StageInv, Staged, Alone, World, OneActive
  <2>2. CASE ~running
    BY <1>1, <2>2, NobodyPlaysOutside DEF OneActive
  <2>. QED
    BY <2>1, <2>2
<1>2. QueueInv /\ StageInv => OneActive
  BY <1>1
<1>. QED
  BY <1>2, StageInvHolds, PTL

\* If moreover no child has fill="hold", at most one child shows its last
\* frame while the excl runs, as get_filled_child asserts: interrupt removes
\* the fill of the child it stops and of the one that ended before.
THEOREM OneChildIsFrozen ==
  ASSUME NoEnds, NoHolds
  PROVE  Spec => []OneFilled
<1>1. ASSUME QueueInv, StageInv PROVE OneFilled
  <2>1. NoHold
    BY <1>1 DEF NoHolds, NoHold, QueueInv, Turns
  <2>. QED
    BY <1>1, <2>1 DEF StageInv, Staged, OneFill, World, OneFilled
<1>2. QueueInv /\ StageInv => OneFilled
  BY <1>1
<1>. QED
  BY <1>2, StageInvHolds, PTL

\* And no frozen frame is left while another child plays.
THEOREM FrozenGivesWay ==
  ASSUME NoEnds, NoHolds
  PROVE  Spec => []FillGivesWay
<1>1. ASSUME QueueInv, StageInv PROVE FillGivesWay
  <2>1. NoHold
    BY <1>1 DEF NoHolds, NoHold, QueueInv, Turns
  <2>2. CASE running
    BY <1>1, <2>1, <2>2 DEF StageInv, Staged, Bare, World, FillGivesWay
  <2>3. CASE ~running
    BY <1>1, <2>3, NobodyPlaysOutside DEF FillGivesWay
  <2>. QED
    BY <2>2, <2>3
<1>2. QueueInv /\ StageInv => FillGivesWay
  BY <1>1
<1>. QED
  BY <1>2, StageInvHolds, PTL

-----------------------------------------------------------------------------
(* The stage is not left empty while a child waits *)

\* As long as the excl has begun only once.
BusyInv ==
    /\ running => rounds > 0
    /\ rounds = 0 => m_cont = <<>>
    /\ running =>
          /\ Timely(World)
          /\ m_cont = <<>> \/ SomePlay(World)
          /\ \A c \in starting : ~child[c].deferred

LEMMA NextTimely ==
  ASSUME NEW v, Good(v), doc' = doc, SetWorld(v), Timely(v), v.queue = <<>> \/ SomePlay(v)
  PROVE  Timely(World)' /\ (m_cont' = <<>> \/ SomePlay(World)')
<1>1. World' = v /\ m_cont' = v.queue /\ child' = v.child
  BY NextWorld DEF SetWorld
<1>2. (World.child)' = v.child
  BY <1>1
<1>3. Timely(World)'
  BY <1>2 DEF Timely
<1>4. SomePlay(v) => SomePlay(World)'
  BY <1>2 DEF SomePlay
<1>. QED
  BY <1>1, <1>3, <1>4

LEMMA BusyBegin ==
  ASSUME QueueInv, BusyInv, Begin, MaxRounds <= 1
  PROVE  BusyInv'
<1>1. /\ rounds \in Nat /\ rounds < MaxRounds /\ rounds' = rounds + 1 /\ running' /\ doc' = doc
      /\ starting' = Children
      /\ child' = [c \in Children |-> ResetChild(child[c])]
      /\ m_cont' = Keep(m_cont, {c \in Children : child[c].state # "active"})
  BY DEF Begin, ResetChildren, QueueInv, Turns
<1>2. rounds = 0 /\ m_cont = <<>> /\ rounds' = 1
  BY <1>1, BoundsAssumption DEF BusyInv
<1>3. Good(World) /\ World.child = child /\ World.queue = <<>> /\ child \in [Children -> ChildType]
  BY <1>2, WorldIs DEF Good, Worlds
<1>4. \A c \in Children : ~child[c].paused /\ ~child[c].deferred
  BY <1>3 DEF Good, Queued, InQueue
<1>5. \A c \in Children : ~child'[c].paused /\ ~child'[c].deferred
  BY <1>1, <1>3, <1>4, ResetChildIs
<1>6. Good(World)' /\ m_cont' \in Seq(Children)
  <2>1. Good(World)'
    BY <1>1, ResetKeeps DEF Begin
  <2>2. (World.queue)' \in Seq(Children)
    BY <2>1 DEF Good, Worlds
  <2>. QED
    BY <2>1, <2>2 DEF World
<1>7. m_cont' = <<>>
  <2>1. \A c : ~InQueue(<<>>, c)
    BY DEF InQueue
  <2>2. <<>> \in Seq(Children)
    OBVIOUS
  <2>3. \A c : ~InQueue(m_cont', c)
    BY <1>1, <1>2, <2>1, <2>2, KeepFacts
  <2>. SUFFICES ASSUME m_cont' # <<>> PROVE FALSE
    OBVIOUS
  <2>. QED
    BY <1>6, <2>3, TailFacts
<1>8. Timely(World)'
  BY <1>5 DEF Timely, World
<1>. QED
  BY <1>1, <1>2, <1>5, <1>7, <1>8 DEF BusyInv

LEMMA BusyStartup ==
  ASSUME QueueInv, BusyInv, NEW c \in Children, Startup(c), NoSkip
  PROVE  BusyInv'
<1>1. /\ doc' = doc /\ starting' = starting \ {c} /\ c \in starting
      /\ running' = running /\ rounds' = rounds
  BY Zenon DEF Startup
<1>2. running
  BY <1>1 DEF QueueInv, Turns, Settled
<1>3. /\ Timely(World) /\ (m_cont = <<>> \/ SomePlay(World)) /\ rounds > 0 /\ rounds # 0
      /\ \A d \in starting : ~child[d].deferred
  BY <1>2 DEF BusyInv, QueueInv, Turns
<1>4. PICK v : /\ Good(v) /\ SetWorld(v)
               /\ \A d \in Children \ {c} :
                     child[d].state # "active" =>
                         v.child[d].state = child[d].state /\ SameMarks(World, v, d)
               /\ Timely(World) /\ ~child[c].deferred /\ ~doc.skipped[c] =>
                     Timely(v) /\ (SomePlay(v) \/ (~SomePlay(World) /\ v.queue = m_cont))
  BY StartupWorld
<1>5. Timely(v) /\ (v.queue = <<>> \/ SomePlay(v))
  BY <1>1, <1>3, <1>4 DEF NoSkip
<1>6. Timely(World)' /\ (m_cont' = <<>> \/ SomePlay(World)')
  BY <1>1, <1>4, <1>5, NextTimely
<1>7. \A d \in starting' : ~child'[d].deferred
  <2>1. child' = v.child /\ World.child = child
    BY <1>4 DEF SetWorld, World
  <2>2. \A d \in starting' : d \in Children \ {c} /\ child[d].state = "reset" /\ ~child[d].deferred
    BY <1>1, <1>3 DEF QueueInv, Turns
  <2>. QED
    BY <1>4, <2>1, <2>2 DEF SameMarks
<1>. QED
  BY <1>1, <1>3, <1>6, <1>7 DEF BusyInv

LEMMA BusyAdvance ==
  ASSUME QueueInv, BusyInv, NEW S \in SUBSET Children, Advance(S)
  PROVE  BusyInv'
<1>1. /\ doc' = doc /\ starting' = {} /\ running' = running /\ rounds' = rounds
      /\ m_cont' = m_cont /\ running
  BY DEF Advance, Settled
<1>2. Timely(World) /\ (m_cont = <<>> \/ SomePlay(World)) /\ rounds > 0 /\ rounds # 0
  BY <1>1 DEF BusyInv, QueueInv, Turns
<1>3. PICK v : /\ Good(v) /\ SetWorld(v)
               /\ (SomePlay(World) => SomePlay(v)) /\ (Timely(World) => Timely(v))
  BY AdvanceWorld
<1>4. Timely(v) /\ (v.queue = <<>> \/ SomePlay(v))
  BY <1>1, <1>2, <1>3 DEF SetWorld
<1>5. Timely(World)' /\ (m_cont' = <<>> \/ SomePlay(World)')
  BY <1>1, <1>3, <1>4, NextTimely
<1>. QED
  BY <1>1, <1>2, <1>5 DEF BusyInv

LEMMA BusyExec ==
  ASSUME QueueInv, BusyInv, NEW c \in Children, Exec(c), NoSkip
  PROVE  BusyInv'
<1>1. /\ doc' = doc /\ starting' = starting /\ c \in elist
      /\ running' = running /\ rounds' = rounds
  BY Zenon DEF Exec
<1>2. running /\ starting = {}
  BY <1>1 DEF QueueInv, Turns, Settled
<1>3. Timely(World) /\ (m_cont = <<>> \/ SomePlay(World)) /\ rounds > 0 /\ rounds # 0
  BY <1>2 DEF BusyInv, QueueInv, Turns
<1>4. PICK v : /\ Good(v) /\ SetWorld(v)
               /\ Timely(World) /\ (m_cont = <<>> \/ SomePlay(World)) /\ NoSkip =>
                     Timely(v) /\ (v.queue = <<>> \/ SomePlay(v))
  BY ExecWorld
<1>5. Timely(World)' /\ (m_cont' = <<>> \/ SomePlay(World)')
  BY <1>1, <1>3, <1>4, NextTimely
<1>. QED
  BY <1>1, <1>2, <1>3, <1>5 DEF BusyInv

\* No child of any document is skipped.
NoSkips == \A d \in Documents : \A c \in Children : ~d.skipped[c]

\* Within one activation of the excl, and if no child is skipped, the queue is
\* not left waiting: whenever a child waits another one plays, since every end
\* serves the head of the queue and every child that takes the stage plays.
THEOREM StageIsNeverIdle ==
  ASSUME NoSkips, MaxRounds <= 1
  PROVE  Spec => []NoIdleWait
<1>1. Init => QueueInv /\ BusyInv
  BY InitGood DEF Init, BusyInv
<1>2. ASSUME QueueInv, BusyInv, [Next]_vars PROVE QueueInv' /\ BusyInv'
  <2>1. QueueInv'
    BY <1>2, QueueInvInductive
  <2>2. NoSkip
    BY <1>2 DEF NoSkips, NoSkip, QueueInv, Turns
  <2>3. CASE Begin
    BY <1>2, <2>1, <2>3, BusyBegin
  <2>4. CASE Repeat
    <3>1. rounds \in Nat /\ rounds > 0 /\ rounds < MaxRounds
      BY <1>2, <2>4 DEF Repeat, BusyInv, QueueInv, Turns
    <3>. QED
      BY <3>1, BoundsAssumption
  <2>5. CASE End
    <3>1. /\ running' = FALSE /\ rounds' = rounds /\ rounds > 0 /\ rounds \in Nat
      BY <1>2, <2>5 DEF End, BusyInv, QueueInv, Turns
    <3>. QED
      BY <2>1, <3>1 DEF BusyInv
  <2>6. ASSUME NEW c \in Children, Startup(c) PROVE BusyInv'
    BY <1>2, <2>2, <2>6, BusyStartup
  <2>7. ASSUME NEW c \in Children, Exec(c) PROVE BusyInv'
    BY <1>2, <2>2, <2>7, BusyExec
  <2>8. ASSUME NEW S \in SUBSET Children, Advance(S) PROVE BusyInv'
    BY <1>2, <2>8, BusyAdvance
  <2>9. CASE UNCHANGED vars
    BY <1>2, <2>1, <2>9 DEF vars, BusyInv, Timely, SomePlay, World
  <2>. QED
    BY <1>2, <2>1, <2>3, <2>4, <2>5, <2>6, <2>7, <2>8, <2>9 DEF Next
<1>3. (QueueInv /\ BusyInv) /\ [Next]_vars => (QueueInv /\ BusyInv)'
  BY <1>2
<1>4. QueueInv /\ BusyInv => NoIdleWait
  BY DEF BusyInv, SomePlay, World, NoIdleWait
<1>. QED
  BY <1>1, <1>3, <1>4, PTL DEF Spec
=============================================================================

--------------------------- MODULE TimeCalcProofs ---------------------------
(***************************************************************************)
(* time_calc for any attributes, instances and events: what calc_end       *)
(* yields, and from it that every interval of a node is valid, within min  *)
(* and max, after the one before, and never extended by recomputing it.    *)
(***************************************************************************)
EXTENDS TimeCalc, DataFacts

-----------------------------------------------------------------------------
(* calc_end *)

\* The durations calc_ad yields, and the times calc_end yields.
Durations == 0..(2 * Horizon) \cup {Indefinite, Unresolved}
EndTimes == (-Horizon)..(3 * Horizon) \cup {Indefinite, Unresolved}

\* calc_end of a node with attributes a.
EndAt(a, p, b, e) == Plus(b, CalcAd(a, p, b, e))

LEMMA Special ==
  /\ Indefinite \in Nat /\ Horizon \in Nat /\ 4 * Horizon < Indefinite
  /\ Unresolved = Indefinite + 1 /\ None < -Horizon /\ Indefinite > 0
BY TimeCalcAssumption DEF Unresolved, None

LEMMA TimesAreInt == Times \subseteq Int /\ EndTimes \subseteq Int
BY Special DEF Times, EndTimes

LEMMA MinusTimes ==
  ASSUME NEW e \in Times, NEW b \in Times
  PROVE  Minus(e, b) \in (-2 * Horizon)..(2 * Horizon) \cup {Indefinite, Unresolved}
BY Special DEF Minus, Times, IsDefinite, MaxOf

\* A definite begin does not change the order of ends.
LEMMA MinusMonotone ==
  ASSUME NEW e \in Times, NEW f \in Times, NEW b \in Times, IsDefinite(b), e <= f
  PROVE  Minus(e, b) <= Minus(f, b)
BY Special DEF Minus, Times, IsDefinite, MaxOf

LEMMA PreliminaryAd ==
  ASSUME NEW a \in Attributes, NEW p \in BOOLEAN, NEW b \in Times, NEW e \in Times
  PROVE  CalcPreliminaryAd(a, p, b, e)
             \in (-2 * Horizon)..(2 * Horizon) \cup {Indefinite, Unresolved}
<1>1. CalcIntermediateAd(a, p) \in Times
  BY AttributesAssumption
<1>. QED
  BY <1>1, MinusTimes, Special DEF CalcPreliminaryAd, MinOf, Times

LEMMA PreliminaryAdMonotone ==
  ASSUME NEW a \in Attributes, NEW p \in BOOLEAN, NEW b \in Times, IsDefinite(b),
         NEW e \in Times, NEW f \in Times, e <= f
  PROVE  CalcPreliminaryAd(a, p, b, e) <= CalcPreliminaryAd(a, p, b, f)
<1>1. CalcIntermediateAd(a, p) \in Times
  BY AttributesAssumption
<1>2. Minus(e, b) <= Minus(f, b) /\ Minus(e, b) \in Int /\ Minus(f, b) \in Int
  BY MinusMonotone, MinusTimes, Special
<1>. QED
  BY <1>1, <1>2, Special DEF CalcPreliminaryAd, MinOf, Times

LEMMA MinMaxAttributes ==
  ASSUME NEW a \in Attributes
  PROVE  /\ a.min \in 0..Horizon \cup {None, Indefinite, Unresolved}
         /\ a.max \in 0..Horizon \cup {None, Indefinite, Unresolved}
BY AttributesAssumption

\* calc_ad yields a duration within min and max; max has the last word.
LEMMA ActiveDuration ==
  ASSUME NEW a \in Attributes, NEW p \in BOOLEAN, NEW b \in Times, NEW e \in Times
  PROVE  /\ CalcAd(a, p, b, e) \in Durations
         /\ a.max # None => CalcAd(a, p, b, e) <= a.max
         /\ a.min # None => \/ CalcAd(a, p, b, e) >= MinOf(a.min, Indefinite)
                            \/ CalcAd(a, p, b, e) = a.max
<1>. DEFINE x == CalcPreliminaryAd(a, p, b, e)
<1>1. x \in (-2 * Horizon)..(2 * Horizon) \cup {Indefinite, Unresolved}
  BY PreliminaryAd
<1>. HIDE DEF x
<1>2. CalcAd(a, p, b, e) =
        MinOf(IF a.max # None THEN a.max ELSE Indefinite,
              MaxOf(IF a.min # None THEN a.min ELSE 0, x))
  BY DEF CalcAd, x
<1>. QED
  BY <1>1, <1>2, MinMaxAttributes, Special DEF MinOf, MaxOf, Durations

LEMMA ActiveDurationMonotone ==
  ASSUME NEW a \in Attributes, NEW p \in BOOLEAN, NEW b \in Times, IsDefinite(b),
         NEW e \in Times, NEW f \in Times, e <= f
  PROVE  CalcAd(a, p, b, e) <= CalcAd(a, p, b, f)
<1>. DEFINE x == CalcPreliminaryAd(a, p, b, e)
            y == CalcPreliminaryAd(a, p, b, f)
<1>1. x \in Int /\ y \in Int /\ x <= y
  BY PreliminaryAd, PreliminaryAdMonotone, Special
<1>. HIDE DEF x, y
<1>2. /\ CalcAd(a, p, b, e) =
           MinOf(IF a.max # None THEN a.max ELSE Indefinite,
                 MaxOf(IF a.min # None THEN a.min ELSE 0, x))
      /\ CalcAd(a, p, b, f) =
           MinOf(IF a.max # None THEN a.max ELSE Indefinite,
                 MaxOf(IF a.min # None THEN a.min ELSE 0, y))
  BY DEF CalcAd, x, y
<1>. QED
  BY <1>1, <1>2, MinMaxAttributes, Special DEF MinOf, MaxOf

\* calc_end yields a time that is not before the begin, and the duration
\* can be read off it.
LEMMA EndTime ==
  ASSUME NEW a \in Attributes, NEW p \in BOOLEAN, NEW b \in Times, NEW e \in Times
  PROVE  /\ EndAt(a, p, b, e) \in EndTimes
         /\ b <= EndAt(a, p, b, e)
         /\ IsDefinite(b) => Minus(EndAt(a, p, b, e), b) = CalcAd(a, p, b, e)
<1>. DEFINE d == CalcAd(a, p, b, e)
<1>1. d \in Durations
  BY ActiveDuration
<1>. HIDE DEF d
<1>2. /\ Plus(b, d) \in EndTimes /\ b <= Plus(b, d)
      /\ IsDefinite(b) => Minus(Plus(b, d), b) = d
  BY <1>1, Special DEF Durations, EndTimes, Times, Plus, Minus, IsDefinite, MaxOf
<1>. QED
  BY <1>2 DEF EndAt, d

LEMMA EndTimeMonotone ==
  ASSUME NEW a \in Attributes, NEW p \in BOOLEAN, NEW b \in Times, IsDefinite(b),
         NEW e \in Times, NEW f \in Times, e <= f
  PROVE  EndAt(a, p, b, e) <= EndAt(a, p, b, f)
<1>. DEFINE x == CalcAd(a, p, b, e)
            y == CalcAd(a, p, b, f)
<1>1. x \in Durations /\ y \in Durations /\ x <= y
  BY ActiveDuration, ActiveDurationMonotone
<1>. HIDE DEF x, y
<1>2. Plus(b, x) <= Plus(b, y)
  BY <1>1, Special DEF Durations, Times, Plus, IsDefinite, MaxOf
<1>. QED
  BY <1>2 DEF EndAt, x, y

-----------------------------------------------------------------------------
(* Instances of the begin and end lists *)

LEMMA SmallestInstance ==
  ASSUME NEW S \in SUBSET Times, S # {}
  PROVE  Smallest(S) \in S /\ \A y \in S : Smallest(S) <= y
<1>1. S \in SUBSET Int /\ -Horizon \in Int /\ \A x \in S : -Horizon <= x
  BY Special DEF Times
<1>2. \E x \in S : \A y \in S : x <= y
  BY <1>1, HasLeast, Zenon
<1>. QED
  BY <1>2 DEF Smallest

\* The end instance calc_interval_end finds for an interval that begins at b.
Bound(a, S, b) ==
    IF a.end /\ AtLeast(S, b) # {} THEN Smallest(AtLeast(S, b)) ELSE Unresolved

LEMMA RecomputedEnd ==
  ASSUME NEW i, NEW E, NEW p
  PROVE  CalcIntervalEnd(i, E, p) =
           EndAt(attrs, p, i.begin, Bound(attrs, BagToSet(E), i.begin))
BY DEF CalcIntervalEnd, CalcEnd, EndAt, Bound

LEMMA BoundIsTime ==
  ASSUME NEW a, NEW S \in SUBSET Times, NEW b
  PROVE  Bound(a, S, b) \in Times
<1>1. AtLeast(S, b) \in SUBSET Times
  BY DEF AtLeast
<1>2. AtLeast(S, b) # {} => Smallest(AtLeast(S, b)) \in Times
  BY <1>1, SmallestInstance
<1>. QED
  BY <1>2 DEF Bound, Times

\* The end that calc_first_interval and calc_next_interval look for is an
\* instance or unresolved.  Since they pass over instances that were used, it
\* is never before the one that calc_interval_end finds.
LEMMA EndForIsLater ==
  ASSUME attrs \in Attributes, NEW E, NEW S \in SUBSET Times, BagToSet(E) \subseteq S,
         NEW b, NEW u, EndFor(E, b, u) # {}
  PROVE  /\ Smallest(EndFor(E, b, u)) \in Times
         /\ Bound(attrs, S, b) <= Smallest(EndFor(E, b, u))
         /\ \A x \in EndFor(E, b, u) : Smallest(EndFor(E, b, u)) = x
<1>. DEFINE later == AtLeast(BagToSet(E), b) \ {u}
<1>1. AtLeast(S, b) \in SUBSET Times /\ later \subseteq AtLeast(S, b)
  BY DEF AtLeast
<1>2. Bound(attrs, S, b) \in Times /\ Unresolved \in Times
      /\ \A x \in Times : x \in Int /\ x <= Unresolved
  BY BoundIsTime, Special DEF Times
<1>3. PICK x \in Times : EndFor(E, b, u) = {x} /\ Bound(attrs, S, b) <= x
  <2>1. CASE attrs.end /\ later # {}
    <3>1. Smallest(later) \in later
      BY <1>1, <2>1, SmallestInstance
    <3>2. Bound(attrs, S, b) = Smallest(AtLeast(S, b))
      BY <1>1, <2>1 DEF Bound
    <3>3. Smallest(AtLeast(S, b)) <= Smallest(later)
      BY <1>1, <3>1, SmallestInstance
    <3>4. EndFor(E, b, u) = {Smallest(later)}
      BY <2>1 DEF EndFor
    <3>. QED
      BY <1>1, <3>1, <3>2, <3>3, <3>4
  <2>2. CASE ~(attrs.end /\ later # {})
    <3>1. EndFor(E, b, u) = {Unresolved}
      BY <2>2 DEF EndFor
    <3>. QED
      BY <1>2, <3>1
  <2>. QED
    BY <2>1, <2>2
<1>4. Smallest({x}) \in {x}
  BY SmallestInstance
<1>. QED
  BY <1>3, <1>4

-----------------------------------------------------------------------------
(* The inductive invariant *)

Types ==
    /\ attrs \in Attributes /\ m_paused \in BOOLEAN
    /\ begin_list \in SUBSET Times
    /\ IsABag(end_list) /\ BagToSet(end_list) \in SUBSET Times
    /\ IsABag(ends_left) /\ ends_left \sqsubseteq end_list
    /\ begin_before \in Nat /\ begin_after \in Int
    /\ pc \in {"first", "interval", "failure"}
    /\ interval \in [begin : Times, end : EndTimes]
    /\ prev \in [begin : Times, end : EndTimes]
    /\ changes \in Nat

\* The end of the interval is what calc_end yields for an end instance that
\* is not before the one calc_interval_end would find.
Computed ==
    pc = "interval" =>
        /\ interval.begin \in begin_list /\ IsDefinite(interval.begin)
        /\ interval.begin <= begin_before
        /\ \E x \in Times :
              /\ Bound(attrs, BagToSet(end_list), interval.begin) <= x
              /\ interval.end = EndAt(attrs, m_paused, interval.begin, x)
        /\ changes = 0 => interval.end >= 0

Followed ==
    /\ pc = "first" => prev = NoInterval
    /\ NextIsLater

CalcInv == Types /\ Computed /\ Followed

\* What the node takes for an interval that begins at b.
Candidate(i, p, b) ==
    /\ b \in begin_list /\ IsDefinite(b)
    /\ i \in [begin : Times, end : EndTimes] /\ i.begin = b
    /\ \E x \in Times : /\ Bound(attrs, BagToSet(end_list), b) <= x
                        /\ i.end = EndAt(attrs, p, b, x)

LEMMA TakeYields ==
  ASSUME Types, NEW E, BagToSet(E) \subseteq BagToSet(end_list), NEW b \in begin_list, NEW u,
         EndFor(E, b, u) # {}, NEW p \in BOOLEAN, NEW e,
         e = CalcEnd(p, b, Smallest(EndFor(E, b, u))), Take([begin |-> b, end |-> e])
  PROVE  \/ pc' = "failure" /\ interval' = NoInterval
         \/ pc' = "interval" /\ Candidate(interval', p, b) /\ interval'.end = e
<1>1. PICK x \in Times : x = Smallest(EndFor(E, b, u))
                         /\ Bound(attrs, BagToSet(end_list), b) <= x
  BY EndForIsLater DEF Types
<1>2. e = EndAt(attrs, p, b, x) /\ e \in EndTimes /\ b \in Times
  BY <1>1, EndTime DEF CalcEnd, EndAt, Types
<1>. DEFINE i == [begin |-> b, end |-> e]
<1>3. i \in [begin : Times, end : EndTimes] /\ i.begin = b /\ i.end = e
  BY <1>2
<1>4. IsDefinite(i.begin) => Candidate(i, p, b)
  BY <1>1, <1>2, <1>3 DEF Candidate
<1>5. (pc' = "failure" /\ interval' = NoInterval) \/ (pc' = "interval" /\ interval' = i /\ IsDefinite(i.begin))
  BY DEF Take, IsValid
<1>. QED
  BY <1>3, <1>4, <1>5

LEMMA EndIsTime ==
  ASSUME Types, NEW E, BagToSet(E) \subseteq BagToSet(end_list), NEW b \in begin_list, NEW u,
         EndFor(E, b, u) # {}, NEW p \in BOOLEAN
  PROVE  /\ CalcEnd(p, b, Smallest(EndFor(E, b, u))) \in Int
         /\ b <= CalcEnd(p, b, Smallest(EndFor(E, b, u)))
<1>1. PICK x \in Times : x = Smallest(EndFor(E, b, u))
  BY EndForIsLater DEF Types
<1>2. CalcEnd(p, b, x) = EndAt(attrs, p, b, x)
  BY DEF CalcEnd, EndAt
<1>. QED
  BY <1>1, <1>2, EndTime, Special DEF Types, EndTimes

LEMMA FirstStepYields ==
  ASSUME Types, FirstStep
  PROVE  /\ pc = "first"
         /\ UNCHANGED <<attrs, m_paused, begin_list, end_list, begin_before, prev, changes>>
         /\ IsABag(ends_left') /\ ends_left' \sqsubseteq end_list /\ begin_after' \in Int
         /\ \/ pc' = "first" /\ interval' = interval
            \/ pc' = "failure" /\ interval' = NoInterval
            \/ /\ pc' = "interval"
               /\ \E b \in begin_list :
                     Candidate(interval', m_paused, b) /\ b <= begin_before
               /\ interval'.end >= 0
<1>. DEFINE later == AtLeast(begin_list, begin_after)
            b == Smallest(later)
            E == EndFor(ends_left, b, MinusInfinity)
            e == CalcEnd(m_paused, b, Smallest(E))
<1>1. /\ pc = "first"
      /\ UNCHANGED <<attrs, m_paused, begin_list, end_list, begin_before, prev, changes>>
  BY DEF FirstStep
<1>2. CASE later = {} \/ (later # {} /\ (b > begin_before \/ E = {}))
  <2>1. Fail
    BY <1>2 DEF FirstStep
  <2>. QED
    BY <1>1, <2>1 DEF Fail, Types
<1>3. CASE ~(later = {} \/ (later # {} /\ (b > begin_before \/ E = {})))
  <2>1. /\ ends_left' = ends_left (-) SetToBag(E \cap BagToSet(ends_left))
        /\ IF Acceptable(b, e)
           THEN Take([begin |-> b, end |-> e]) /\ begin_after' = MinusInfinity
           ELSE begin_after' = e /\ UNCHANGED <<pc, interval>>
    BY <1>3 DEF FirstStep
  <2>2. later # {} /\ ~(b > begin_before) /\ E # {}
    BY <1>3
  <2>3. later \in SUBSET Times /\ later \subseteq begin_list
    BY DEF AtLeast, Types
  <2>4. b \in begin_list
    BY <2>2, <2>3, SmallestInstance
  <2>5. b <= begin_before
    <3>2. ~(b > begin_before)
      BY <2>2
    <3>. HIDE DEF b
    <3>1. b \in Int /\ begin_before \in Int
      BY <2>4, Special DEF Types, Times
    <3>. QED
      BY <3>1, <3>2
  <2>6. BagToSet(ends_left) \subseteq BagToSet(end_list)
    BY DEF Types, BagToSet, \sqsubseteq
  <2>7. e \in Int
    BY <2>2, <2>4, <2>6, EndIsTime DEF Types
  <2>8. IsABag(ends_left') /\ ends_left' \sqsubseteq end_list
    <3>. DEFINE F == SetToBag(E \cap BagToSet(ends_left))
    <3>1. IsABag(F)
      BY BagFacts
    <3>. HIDE DEF F
    <3>2. IsABag(ends_left (-) F) /\ ends_left (-) F \sqsubseteq ends_left
      BY <3>1, BagDifference DEF Types
    <3>3. ends_left (-) F \sqsubseteq end_list
      BY <3>2, SubBagTransitive DEF Types
    <3>. QED
      BY <2>1, <3>2, <3>3 DEF F
  <2>9. CASE Acceptable(b, e)
    <3>1. Take([begin |-> b, end |-> e]) /\ begin_after' = MinusInfinity
      BY <2>1, <2>9
    <3>2. \/ pc' = "failure" /\ interval' = NoInterval
          \/ pc' = "interval" /\ Candidate(interval', m_paused, b) /\ interval'.end = e
      <4>1. m_paused \in BOOLEAN
        BY DEF Types
      <4>. QED
        BY <2>2, <2>4, <2>6, <3>1, <4>1, TakeYields
    <3>3. e >= 0
      BY <2>7, <2>9 DEF Acceptable
    <3>4. begin_after' \in Int
      BY <3>1, Special DEF MinusInfinity
    <3>. HIDE DEF b, e
    <3>. QED
      BY <1>1, <2>4, <2>5, <2>8, <3>2, <3>3, <3>4
  <2>10. CASE ~Acceptable(b, e)
    <3>1. begin_after' = e /\ UNCHANGED <<pc, interval>>
      BY <2>1, <2>10
    <3>. HIDE DEF b, e
    <3>. QED
      BY <1>1, <2>7, <2>8, <3>1
  <2>. QED
    BY <2>9, <2>10
<1>. QED
  BY <1>2, <1>3

LEMMA NextIntervalYields ==
  ASSUME Types, Computed, NEW t \in Instants \cup {interval.end}, NextInterval(t)
  PROVE  /\ pc = "interval" /\ m_paused' = FALSE
         /\ UNCHANGED <<attrs, begin_list, end_list, ends_left, begin_before, begin_after, changes>>
         /\ prev' = [begin |-> interval.begin, end |-> t] /\ t \in EndTimes
         /\ changes = 0 => t >= 0
         /\ \/ pc' = "failure" /\ interval' = NoInterval
            \/ /\ pc' = "interval"
               /\ \E b \in begin_list :
                     /\ Candidate(interval', FALSE, b) /\ b <= begin_before
                     /\ b >= t /\ b > interval.begin
<1>. DEFINE begins == NextBegins(prev')
            b == Smallest(begins)
            E == EndFor(end_list, b, t)
            e == CalcEnd(FALSE, b, Smallest(E))
<1>1. /\ pc = "interval" /\ m_paused' = FALSE /\ prev' = [interval EXCEPT !.end = t]
      /\ IsDefinite(t) /\ interval.begin <= t
      /\ UNCHANGED <<attrs, begin_list, end_list, begin_before, changes>>
  BY DEF NextInterval
<1>2. t \in EndTimes /\ (changes = 0 => t >= 0)
  <2>1. CASE t \in Instants
    BY <2>1, TimeCalcAssumption DEF EndTimes
  <2>2. CASE t = interval.end
    BY <1>1, <2>2 DEF Types, Computed
  <2>. QED
    BY <2>1, <2>2
<1>3. prev' = [begin |-> interval.begin, end |-> t]
  BY <1>1 DEF Types
<1>4. CASE begins = {} \/ (begins # {} /\ (b >= begin_before \/ E = {}))
  <2>1. Fail
    BY <1>4 DEF NextInterval
  <2>. QED
    BY <1>1, <1>2, <1>3, <2>1 DEF Fail
<1>5. CASE ~(begins = {} \/ (begins # {} /\ (b >= begin_before \/ E = {})))
  <2>1. Take([begin |-> b, end |-> e]) /\ UNCHANGED <<begin_after, ends_left>>
    BY <1>5 DEF NextInterval
  <2>2. begins # {} /\ ~(b >= begin_before) /\ E # {}
    BY <1>5
  <2>3. /\ begins \in SUBSET Times /\ begins \subseteq begin_list
        /\ \A x \in begins : x >= t /\ (interval.begin = t => x > t)
    <3>1. begin_list \in SUBSET Times /\ interval.begin \in Times /\ IsDefinite(interval.begin)
      BY <1>1 DEF Types, Computed
    <3>2. prev'.begin = interval.begin /\ prev'.end = t
      BY <1>3
    <3>3. begins = IF interval.begin = t THEN After(begin_list, t) ELSE AtLeast(begin_list, t)
      BY <3>1, <3>2 DEF NextBegins, IsZeroDur
    <3>4. begin_list \in SUBSET Int /\ t \in Int
      BY <1>2, <3>1, Special DEF Times, EndTimes
    <3>5. PICK S : S = begins
      OBVIOUS
    <3>6. S = IF interval.begin = t THEN After(begin_list, t) ELSE AtLeast(begin_list, t)
      BY <3>3, <3>5
    <3>7. S \in SUBSET begin_list /\ \A x \in S : x >= t /\ (interval.begin = t => x > t)
      BY <3>4, <3>6 DEF After, AtLeast
    <3>8. S \in SUBSET Times /\ S \subseteq begin_list
      BY <3>1, <3>7
    <3>. HIDE DEF begins
    <3>. QED
      BY <3>5, <3>7, <3>8
  <2>4. b \in begins
    BY <2>2, <2>3, SmallestInstance
  <2>5. b <= begin_before /\ b >= t /\ b > interval.begin
    <3>1. b \in Int /\ begin_before \in Int /\ t \in Int /\ interval.begin \in Int
      BY <1>2, <2>3, <2>4, Special DEF Types, Times, EndTimes
    <3>2. ~(b >= begin_before) /\ b >= t /\ (interval.begin = t => b > t)
      BY <2>2, <2>3, <2>4
    <3>. HIDE DEF b
    <3>. QED
      BY <1>1, <3>1, <3>2
  <2>6. \/ pc' = "failure" /\ interval' = NoInterval
        \/ pc' = "interval" /\ Candidate(interval', FALSE, b) /\ interval'.end = e
    <3>1. FALSE \in BOOLEAN /\ b \in begin_list
      BY <2>3, <2>4
    <3>. QED
      BY <2>1, <2>2, <3>1, TakeYields
  <2>7. b \in begin_list
    BY <2>3, <2>4
  <2>. HIDE DEF b, e
  <2>. QED
    BY <1>1, <1>2, <1>3, <2>1, <2>5, <2>6, <2>7
<1>. QED
  BY <1>4, <1>5

\* An event or a pause: the end is recomputed.
LEMMA RecomputeYields ==
  ASSUME Types, NEW E, NEW p \in BOOLEAN, BagToSet(E) \in SUBSET Times,
         interval' = [interval EXCEPT !.end = CalcIntervalEnd(interval, E, p)]
  PROVE  /\ interval' \in [begin : Times, end : EndTimes] /\ interval'.begin = interval.begin
         /\ Bound(attrs, BagToSet(E), interval.begin) \in Times
         /\ interval'.end = EndAt(attrs, p, interval.begin, Bound(attrs, BagToSet(E), interval.begin))
<1>1. PICK x \in Times : x = Bound(attrs, BagToSet(E), interval.begin)
  BY BoundIsTime
<1>2. PICK e \in EndTimes : e = EndAt(attrs, p, interval.begin, x)
  BY EndTime DEF Types
<1>3. interval' = [interval EXCEPT !.end = e]
  BY <1>1, <1>2, RecomputedEnd
<1>. QED
  BY <1>1, <1>2, <1>3 DEF Types

LEMMA InitInv == Init => CalcInv
<1>. SUFFICES ASSUME Init PROVE CalcInv
  OBVIOUS
<1>1. NoInterval \in [begin : Times, end : EndTimes]
  BY DEF NoInterval, Times, EndTimes
<1>2. IsABag(end_list) /\ BagToSet(end_list) \in SUBSET Times
  <2>1. CASE end_list \in EndLists
    BY <2>1, TimeCalcAssumption
  <2>2. CASE end_list = EmptyBag
    BY <2>2, BagFacts DEF EmptyBag
  <2>. QED
    BY <2>1, <2>2 DEF Init
<1>3. ends_left = end_list /\ end_list \sqsubseteq end_list
  BY <1>2 DEF Init, \sqsubseteq, IsABag
<1>4. begin_list \in SUBSET Times /\ begin_before \in Nat /\ begin_after \in Int
  BY TimeCalcAssumption, Special DEF Init, MinusInfinity
<1>5. Types
  BY <1>1, <1>2, <1>3, <1>4 DEF Init, Types
<1>6. Computed /\ Followed
  BY DEF Init, Computed, Followed, NextIsLater
<1>. QED
  BY <1>5, <1>6 DEF CalcInv

\* A new interval, or none, after the one that is prev now.
LEMMA CandidateKept ==
  ASSUME NEW p \in BOOLEAN, m_paused' = p, NEW b \in begin_list,
         UNCHANGED <<attrs, begin_list, end_list, begin_before, changes>>,
         pc' = "interval", Candidate(interval', p, b), b <= begin_before,
         changes = 0 => interval'.end >= 0
  PROVE  Computed' /\ interval' \in [begin : Times, end : EndTimes]
<1>1. PICK x \in Times : /\ Bound(attrs, BagToSet(end_list), b) <= x
                         /\ interval'.end = EndAt(attrs, p, b, x)
  BY DEF Candidate
<1>2. interval'.begin = b /\ IsDefinite(b)
  BY DEF Candidate
<1>3. \E y \in Times :
        /\ Bound(attrs', BagToSet(end_list'), interval'.begin) <= y
        /\ interval'.end = EndAt(attrs', m_paused', interval'.begin, y)
  BY <1>1, <1>2
<1>4. IsDefinite(interval'.begin)
  BY <1>2
<1>. QED
  BY <1>2, <1>3, <1>4 DEF Candidate, Computed

LEMMA StepInv == CalcInv /\ [Next]_vars => CalcInv'
<1>. SUFFICES ASSUME CalcInv, [Next]_vars PROVE CalcInv'
  OBVIOUS
<1>. USE DEF CalcInv
<1>0. NoInterval \in [begin : Times, end : EndTimes]
  BY DEF NoInterval, Times, EndTimes
<1>1. CASE FirstStep
  <2>1. /\ pc = "first"
        /\ UNCHANGED <<attrs, m_paused, begin_list, end_list, begin_before, prev, changes>>
        /\ IsABag(ends_left') /\ ends_left' \sqsubseteq end_list /\ begin_after' \in Int
        /\ \/ pc' = "first" /\ interval' = interval
           \/ pc' = "failure" /\ interval' = NoInterval
           \/ /\ pc' = "interval"
              /\ \E b \in begin_list :
                    Candidate(interval', m_paused, b) /\ b <= begin_before
              /\ interval'.end >= 0
    BY <1>1, FirstStepYields
  <2>2. Computed' /\ interval' \in [begin : Times, end : EndTimes]
        /\ pc' \in {"first", "interval", "failure"}
    <3>1. CASE pc' # "interval"
      BY <1>0, <2>1, <3>1 DEF Computed, Types
    <3>2. CASE pc' = "interval"
      <4>1. PICK b \in begin_list : Candidate(interval', m_paused, b) /\ b <= begin_before
        BY <2>1, <3>2
      <4>2. interval'.end >= 0
        BY <2>1, <3>2
      <4>3. m_paused \in BOOLEAN
        BY DEF Types
      <4>. QED
        BY <2>1, <3>2, <4>1, <4>2, <4>3, CandidateKept
    <3>. QED
      BY <3>1, <3>2
  <2>3. Types'
    BY <2>1, <2>2 DEF Types
  <2>4. Followed'
    BY <2>1 DEF Followed, NextIsLater
  <2>. QED
    BY <2>2, <2>3, <2>4
<1>2. ASSUME NEW t \in Instants \cup {interval.end}, NextInterval(t) PROVE CalcInv'
  <2>1. /\ pc = "interval" /\ m_paused' = FALSE
        /\ UNCHANGED <<attrs, begin_list, end_list, ends_left, begin_before, begin_after, changes>>
        /\ prev' = [begin |-> interval.begin, end |-> t] /\ t \in EndTimes
        /\ changes = 0 => t >= 0
        /\ \/ pc' = "failure" /\ interval' = NoInterval
           \/ /\ pc' = "interval"
              /\ \E b \in begin_list :
                    /\ Candidate(interval', FALSE, b) /\ b <= begin_before
                    /\ b >= t /\ b > interval.begin
    BY <1>2, NextIntervalYields
  <2>2. /\ Computed' /\ interval' \in [begin : Times, end : EndTimes]
        /\ pc' \in {"interval", "failure"} /\ NextIsLater'
    <3>1. CASE pc' # "interval"
      BY <1>0, <2>1, <3>1 DEF Computed, NextIsLater
    <3>2. CASE pc' = "interval"
      <4>1. PICK b \in begin_list : /\ Candidate(interval', FALSE, b) /\ b <= begin_before
                                    /\ b >= t /\ b > interval.begin
        BY <2>1, <3>2
      <4>2. interval'.begin = b /\ b <= interval'.end
        <5>1. PICK x \in Times : interval'.end = EndAt(attrs, FALSE, b, x)
          BY <4>1 DEF Candidate
        <5>. QED
          BY <4>1, <5>1, EndTime DEF Candidate, Types
      <4>3. changes = 0 => interval'.end >= 0
        <5>0. b \in Times /\ interval'.end \in EndTimes
          BY <4>1 DEF Candidate, Types
        <5>1. t \in Int /\ b \in Int /\ interval'.end \in Int
          BY <2>1, <5>0, TimesAreInt
        <5>. QED
          BY <2>1, <4>1, <4>2, <5>1
      <4>4. Computed' /\ interval' \in [begin : Times, end : EndTimes]
        BY <2>1, <3>2, <4>1, <4>3, CandidateKept
      <4>5. NextIsLater'
        BY <2>1, <4>1, <4>2 DEF NextIsLater
      <4>. QED
        BY <3>2, <4>4, <4>5
    <3>. QED
      BY <3>1, <3>2
  <2>3. prev' \in [begin : Times, end : EndTimes]
    BY <2>1 DEF Types
  <2>4. Types'
    BY <2>1, <2>2, <2>3 DEF Types
  <2>. QED
    BY <2>2, <2>4 DEF Followed
<1>3. ASSUME NEW t \in Instants, NewEnd(t) PROVE CalcInv'
  <2>. DEFINE F == SetToBag({t})
  <2>1. /\ pc = "interval" /\ end_list' = end_list (+) F /\ changes' = changes + 1
        /\ interval' = [interval EXCEPT !.end = CalcIntervalEnd(interval, end_list', m_paused)]
        /\ UNCHANGED <<attrs, m_paused, begin_list, begin_before, pc, begin_after, ends_left, prev>>
    BY <1>3 DEF NewEnd
  <2>2. IsABag(F) /\ BagToSet(F) = {t} /\ t \in Times
    BY BagFacts, TimeCalcAssumption, Special DEF Times
  <2>. HIDE DEF F
  <2>3. BagToSet(end_list (+) F) = BagToSet(end_list) \cup BagToSet(F)
    BY BagFacts
  <2>4. /\ IsABag(end_list') /\ BagToSet(end_list') \in SUBSET Times
        /\ ends_left' \sqsubseteq end_list'
    BY <2>1, <2>2, <2>3, BagSum, SubBagTransitive DEF Types
  <2>5. m_paused \in BOOLEAN
    BY DEF Types
  <2>6. PICK E : E = end_list'
    OBVIOUS
  <2>7. /\ interval' \in [begin : Times, end : EndTimes] /\ interval'.begin = interval.begin
        /\ Bound(attrs, BagToSet(E), interval.begin) \in Times
        /\ interval'.end = EndAt(attrs, m_paused, interval.begin,
                                 Bound(attrs, BagToSet(E), interval.begin))
    BY <2>1, <2>4, <2>5, <2>6, RecomputeYields
  <2>8. \E x \in Times :
              /\ Bound(attrs', BagToSet(end_list'), interval'.begin) <= x
              /\ interval'.end = EndAt(attrs', m_paused', interval'.begin, x)
    BY <2>1, <2>6, <2>7, Special DEF Times
  <2>9. changes' # 0 /\ changes' \in Nat
    BY <2>1 DEF Types
  <2>10. Computed'
    BY <2>1, <2>7, <2>8, <2>9 DEF Computed
  <2>11. Types' /\ Followed'
    BY <2>1, <2>4, <2>7, <2>9 DEF Types, Followed, NextIsLater
  <2>. QED
    BY <2>10, <2>11
<1>4. CASE SetPausedMode
  <2>1. /\ pc = "interval" /\ m_paused' = ~m_paused /\ changes' = changes + 1
        /\ interval' = [interval EXCEPT !.end = CalcIntervalEnd(interval, end_list, m_paused')]
        /\ UNCHANGED <<attrs, begin_list, end_list, begin_before, pc, begin_after, ends_left, prev>>
    BY <1>4 DEF SetPausedMode
  <2>2. PICK p \in BOOLEAN : p = m_paused'
    BY <2>1 DEF Types
  <2>3. /\ interval' \in [begin : Times, end : EndTimes] /\ interval'.begin = interval.begin
        /\ Bound(attrs, BagToSet(end_list), interval.begin) \in Times
        /\ interval'.end = EndAt(attrs, p, interval.begin,
                                 Bound(attrs, BagToSet(end_list), interval.begin))
    <3>1. BagToSet(end_list) \in SUBSET Times
      BY DEF Types
    <3>. QED
      BY <2>1, <2>2, <3>1, RecomputeYields
  <2>4. \E x \in Times :
              /\ Bound(attrs', BagToSet(end_list'), interval'.begin) <= x
              /\ interval'.end = EndAt(attrs', m_paused', interval'.begin, x)
    BY <2>1, <2>2, <2>3, Special DEF Times
  <2>5. changes' # 0 /\ changes' \in Nat
    BY <2>1 DEF Types
  <2>6. Computed'
    BY <2>1, <2>3, <2>4, <2>5 DEF Computed
  <2>7. Types' /\ Followed'
    BY <2>1, <2>2, <2>3, <2>5 DEF Types, Followed, NextIsLater
  <2>. QED
    BY <2>6, <2>7
<1>5. CASE UNCHANGED vars
  BY <1>5 DEF vars, Types, Computed, Followed, NextIsLater, Bound, EndAt
<1>. QED
  BY <1>1, <1>2, <1>3, <1>4, <1>5 DEF Next

LEMMA AlwaysInv == Spec => []CalcInv
BY InitInv, StepInv, PTL DEF Spec

-----------------------------------------------------------------------------
(* Theorems *)

\* The variables keep their types, an end is a time or one of the two special
\* values but nothing computed with these, and the loop of calc_first_interval only uses instances there are.
THEOREM TypeCorrect == Spec => []TypeOK
<1>1. CalcInv => TypeOK
  <2>. SUFFICES ASSUME CalcInv PROVE TypeOK
    OBVIOUS
  <2>1. interval.begin \in Times /\ interval.end \in EndTimes /\ begin_list \subseteq Times
    BY DEF CalcInv, Types
  <2>. QED
    BY <2>1 DEF CalcInv, Types, TypeOK, EndTimes
<1>. QED
  BY <1>1, AlwaysInv, PTL

\* Whatever the attributes and the instances, an interval that a node takes
\* from calc_first_interval or calc_next_interval has a definite begin in the
\* begin list and does not end before it.
THEOREM IntervalsAreValid == Spec => []ValidInterval
<1>1. CalcInv => ValidInterval
  <2>. SUFFICES ASSUME CalcInv, pc = "interval" PROVE ValidInterval
    BY DEF ValidInterval
  <2>1. PICK x \in Times : interval.end = EndAt(attrs, m_paused, interval.begin, x)
    BY DEF CalcInv, Computed
  <2>2. interval.begin <= interval.end
    BY <2>1, EndTime DEF CalcInv, Types
  <2>. QED
    BY <2>2 DEF CalcInv, Computed, ValidInterval
<1>. QED
  BY <1>1, AlwaysInv, PTL

\* calc_ad keeps every interval within min and max, recomputed ones too.
THEOREM WithinMinMax == Spec => []MinMaxKept
<1>1. CalcInv => MinMaxKept
  <2>. SUFFICES ASSUME CalcInv, pc = "interval" PROVE MinMaxKept
    BY DEF MinMaxKept
  <2>1. PICK x \in Times : interval.end = EndAt(attrs, m_paused, interval.begin, x)
    BY DEF CalcInv, Computed
  <2>2. PICK d : d = CalcAd(attrs, m_paused, interval.begin, x)
    OBVIOUS
  <2>3. Minus(interval.end, interval.begin) = d
    BY <2>1, <2>2, EndTime DEF CalcInv, Types, Computed
  <2>4. /\ attrs.max # None => d <= attrs.max
        /\ attrs.min # None => d >= MinOf(attrs.min, Indefinite) \/ d = attrs.max
    BY <2>2, ActiveDuration DEF CalcInv, Types
  <2>. QED
    BY <2>3, <2>4 DEF MinMaxKept
<1>. QED
  BY <1>1, AlwaysInv, PTL

\* calc_next_interval never yields an interval that overlaps the one before
\* or repeats it.
THEOREM IntervalsFollow == Spec => []NextIsLater
<1>1. CalcInv => NextIsLater
  BY DEF CalcInv, Followed
<1>. QED
  BY <1>1, AlwaysInv, PTL

\* calc_interval_end never moves the end of the current interval later.
THEOREM RecomputingNeverExtends == Spec => []RecomputeNeverLater
<1>1. CalcInv => RecomputeNeverLater
  <2>. SUFFICES ASSUME CalcInv, pc = "interval"
                PROVE  CalcIntervalEnd(interval, end_list, m_paused) <= interval.end
    BY DEF RecomputeNeverLater
  <2>1. PICK x \in Times : /\ Bound(attrs, BagToSet(end_list), interval.begin) <= x
                           /\ interval.end = EndAt(attrs, m_paused, interval.begin, x)
    BY DEF CalcInv, Computed
  <2>2. PICK y \in Times : y = Bound(attrs, BagToSet(end_list), interval.begin)
    BY BoundIsTime DEF CalcInv, Types
  <2>3. EndAt(attrs, m_paused, interval.begin, y) <= EndAt(attrs, m_paused, interval.begin, x)
    BY <2>1, <2>2, EndTimeMonotone DEF CalcInv, Types, Computed
  <2>. QED
    BY <2>1, <2>2, <2>3, RecomputedEnd
<1>. QED
  BY <1>1, AlwaysInv, PTL
=============================================================================

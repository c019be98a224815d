------------------------------ MODULE TimeCalc ------------------------------
(***************************************************************************)
(* time_calc (smil2/time_calc.cpp) and the arithmetic of smil_time         *)
(* (smil2/smil_time.h): how a time node computes its first interval, the   *)
(* next one when an interval has ended, and the end of the current one     *)
(* when something it depends on has changed.                               *)
(*                                                                         *)
(* The loop of calc_first_interval is an action per iteration.  Instances  *)
(* of the begin list are a set (a second copy makes no difference), those  *)
(* of the end list a bag (an instance that was used is erased).  A repeat  *)
(* count is given in halves.                                               *)
(***************************************************************************)
EXTENDS Integers, Bags, FiniteSets

CONSTANTS
    Indefinite,     \* max() - 1 of the type of times
    Horizon,        \* no time written in a document or measured lies beyond it
    Attributes,     \* the timing attributes of the nodes considered
    BeginLists,     \* sets of begin instances
    EndLists,       \* bags of end instances
    ParentDurs,     \* simple durations of the parent
    Instants,       \* when events may happen that end the node
    MaxIntervals, MaxChanges    \* bounds on next intervals and on changes

\* The two largest values of the type stand for indefinite and unresolved.
Unresolved == Indefinite + 1
MinusInfinity == -Indefinite

\* Attribute values that are no times.
None == -2 * Indefinite         \* not specified
Media == -2 * Indefinite - 1    \* dur="media"

IsDefinite(t) == t < Indefinite

VARIABLES
    attrs, m_paused,            \* attributes, and whether the node is paused
    begin_list, end_list,       \* instance times
    begin_before,               \* simple duration of the parent
    pc,                         \* "first", "interval" or "failure"
    begin_after, ends_left,     \* the loop of calc_first_interval
    iteration,                  \* parity of its iterations: each one is a step
    interval,                   \* m_interval of the node
    prev,                       \* the interval before
    intervals, changes          \* numbers of next intervals and of changes

vars == <<attrs, m_paused, begin_list, end_list, begin_before, pc, begin_after,
          ends_left, iteration, interval, prev, intervals, changes>>
----------------------------------------------------------------------------
(* smil_time *)

MinOf(a, b) == IF b < a THEN b ELSE a
MaxOf(a, b) == IF a < b THEN b ELSE a

\* Mutant: the special values take part in the sum, and it overflows.
Plus_Plain(a, b) == a + b

\* operator+ and operator-: indefinite and unresolved behave as infinity.
Plus(a, b) ==
    IF IsDefinite(a) /\ IsDefinite(b) THEN a + b ELSE MaxOf(MaxOf(a, b), Indefinite)

Minus(a, b) ==
    IF IsDefinite(a) /\ IsDefinite(b) THEN a - b ELSE MaxOf(MaxOf(a, b), Indefinite)

NoInterval == [begin |-> Unresolved, end |-> Unresolved]
IsValid(i) == IsDefinite(i.begin) /\ i.begin <= i.end
IsZeroDur(i) == IsDefinite(i.begin) /\ i.begin = i.end

\* lower_bound and upper_bound; S is a set of instance times.
AtLeast(S, t) == {x \in S : x >= t}
After(S, t) == {x \in S : x > t}
Smallest(S) == CHOOSE x \in S : \A y \in S : x <= y
----------------------------------------------------------------------------
(* Durations.  a is a record of attributes:                                *)
(*   dur       a time, Indefinite, Media or None                           *)
(*   end       whether end is specified; endIndef: it is "indefinite"      *)
(*   endEvents whether an end condition is an event                        *)
(*   rcount    halves, Indefinite or None;  rdur, min, max: times or None  *)
(*   implicit  get_implicit_dur();  last: get_last_dur()                   *)
(*   speed100, autoReverse: time manipulations                             *)

HasDurSpecifier(a) == a.dur # None \/ a.rdur # None \/ a.rcount # None

TimeManipulated(a, d) ==
    LET e == ((IF a.speed100 = 0 THEN 1 ELSE a.speed100) * d) \div 100
    IN  IF IsDefinite(d) THEN IF a.autoReverse THEN e + e ELSE e ELSE d

IsClockValue(x) == x \notin {Indefinite, Media, None}

CalcDur(a, paused) ==
    IF (~HasDurSpecifier(a) /\ a.end) \/ paused \/ a.dur = Indefinite THEN Indefinite
    ELSE IF IsClockValue(a.dur) THEN TimeManipulated(a, a.dur)
    ELSE a.implicit

\* floor(rcount * d + 0.5)
Repeated(a, d) == IF a.rcount = Indefinite THEN Indefinite ELSE (a.rcount * d + 1) \div 2

CalcActiveRad(a) ==
    IF IsClockValue(a.dur) THEN Repeated(a, TimeManipulated(a, a.dur))
    ELSE IF IsDefinite(a.implicit) THEN Repeated(a, a.implicit)
    ELSE IF IsDefinite(a.last) THEN Repeated(a, a.last)
    ELSE Unresolved

CalcIntermediateAd(a, paused) ==
    LET cdur == CalcDur(a, paused)
        adrad == IF a.rcount # None THEN CalcActiveRad(a) ELSE Indefinite
        rdur == IF a.rdur # None THEN a.rdur ELSE Indefinite
    IN  IF cdur = 0 THEN 0
        ELSE IF a.rcount = None /\ a.rdur = None THEN cdur
        ELSE MinOf(MinOf(adrad, rdur), Indefinite)

CalcPreliminaryAd(a, paused, b, e) ==
    IF ~HasDurSpecifier(a) /\ a.end THEN Minus(e, b)
    ELSE IF ~a.end \/ a.endIndef THEN CalcIntermediateAd(a, paused)
    ELSE MinOf(CalcIntermediateAd(a, paused), Minus(e, b))

\* Mutant: min wins over max.
CalcAd_MinWins(a, paused, b, e) ==
    LET minval == IF a.min # None THEN a.min ELSE 0
        maxval == IF a.max # None THEN a.max ELSE Indefinite
    IN  MaxOf(minval, MinOf(maxval, CalcPreliminaryAd(a, paused, b, e)))

CalcAd(a, paused, b, e) ==
    LET minval == IF a.min # None THEN a.min ELSE 0
        maxval == IF a.max # None THEN a.max ELSE Indefinite
    IN  MinOf(maxval, MaxOf(minval, CalcPreliminaryAd(a, paused, b, e)))

CalcEnd(paused, b, e) == Plus(b, CalcAd(attrs, paused, b, e))

\* Mutant: an end instance at the begin is passed over.
CalcIntervalEnd_PassesOver(i, E, paused) ==
    LET later == After(BagToSet(E), i.begin)
    IN  CalcEnd(paused, i.begin,
                IF attrs.end /\ later # {} THEN Smallest(later) ELSE Unresolved)

\* calc_interval_end: the end of interval i, if E is the end list.
CalcIntervalEnd(i, E, paused) ==
    LET later == AtLeast(BagToSet(E), i.begin)
    IN  CalcEnd(paused, i.begin,
                IF attrs.end /\ later # {} THEN Smallest(later) ELSE Unresolved)

\* Times an instance or an attribute may have; no sum of three of them comes
\* near the special values.
Times == (-Horizon)..Horizon \cup {Indefinite, Unresolved}

ASSUME TimeCalcAssumption ==
    /\ Indefinite \in Nat /\ Horizon \in Nat /\ 4 * Horizon < Indefinite
    /\ \A B \in BeginLists : B \subseteq Times
    /\ \A E \in EndLists : IsABag(E) /\ BagToSet(E) \subseteq Times
    /\ ParentDurs \subseteq Nat /\ Instants \subseteq 0..Horizon
    /\ MaxIntervals \in Nat /\ MaxChanges \in Nat

ASSUME AttributesAssumption ==
    \A a \in Attributes :
        /\ {a.end, a.endIndef, a.endEvents} \subseteq BOOLEAN
        /\ {a.min, a.max} \subseteq 0..Horizon \cup {None, Indefinite, Unresolved}
        /\ \A paused \in BOOLEAN : CalcIntermediateAd(a, paused) \in Times

\* What an interval that begins at b may end with, if E is the end list and
\* the instances at used are passed over: an instance, unresolved, or nothing.
EndFor(E, b, used) ==
    LET later == AtLeast(BagToSet(E), b) \ {used}
    IN  IF ~attrs.end THEN {Unresolved}
        ELSE IF later # {} THEN {Smallest(later)}
        ELSE IF attrs.endEvents \/ E = EmptyBag THEN {Unresolved}
        ELSE {}
----------------------------------------------------------------------------
Init ==
    /\ attrs \in Attributes /\ m_paused = FALSE
    /\ begin_list \in BeginLists
    /\ end_list \in IF attrs.end /\ ~attrs.endIndef THEN EndLists ELSE {EmptyBag}
    /\ begin_before \in ParentDurs
    /\ pc = "first"
    /\ begin_after = MinusInfinity /\ ends_left = end_list /\ iteration = 0
    /\ interval = NoInterval /\ prev = NoInterval
    /\ intervals = 0 /\ changes = 0

Fail ==
    /\ pc' = "failure"
    /\ interval' = NoInterval
    /\ UNCHANGED <<begin_after, ends_left>>

\* Mutant: whatever was computed is accepted.
Acceptable_Any(b, e) == b <= e

\* An interval that is over when the parent begins is not accepted, unless
\* it has no duration and is at the parent's begin.
Acceptable(b, e) == e > 0 \/ (b = 0 /\ e = 0)

\* The node takes interval i, if that is valid; else it stays without one.
Take(i) ==
    /\ interval' = IF IsValid(i) THEN i ELSE NoInterval
    /\ pc' = IF IsValid(i) THEN "interval" ELSE "failure"

\* One iteration of calc_first_interval.
FirstStep ==
    /\ pc = "first"
    /\ LET later == AtLeast(begin_list, begin_after)
           b == Smallest(later)
           E == EndFor(ends_left, b, MinusInfinity)
           e == CalcEnd(m_paused, b, Smallest(E))
       IN  IF later = {} \/ (later # {} /\ (b > begin_before \/ E = {}))
           THEN Fail
           ELSE /\ ends_left' = ends_left (-) SetToBag(E \cap BagToSet(ends_left))
                /\ IF Acceptable(b, e)
                   THEN Take([begin |-> b, end |-> e]) /\ begin_after' = MinusInfinity
                   ELSE /\ begin_after' = e
                        /\ UNCHANGED <<pc, interval>>
    /\ iteration' = 1 - iteration
    /\ UNCHANGED <<attrs, m_paused, begin_list, end_list, begin_before, prev, intervals, changes>>

\* Mutant: an interval of no duration is followed by itself.
NextBegins_Again(i) ==
    AtLeast(begin_list, i.end)

\* Begin instances that the interval after i may begin with.
NextBegins(i) ==
    IF IsZeroDur(i) THEN After(begin_list, i.end) ELSE AtLeast(begin_list, i.end)

\* The interval ends at t, when it is over or when it is cut short; a node
\* that was paused no longer is.  calc_next_interval.
NextInterval(t) ==
    /\ pc = "interval" /\ intervals < MaxIntervals
    /\ IsDefinite(t) /\ interval.begin <= t /\ t <= interval.end
    /\ intervals' = intervals + 1 /\ m_paused' = FALSE
    /\ prev' = [interval EXCEPT !.end = t]
    /\ LET begins == NextBegins(prev')
           b == Smallest(begins)
           E == EndFor(end_list, b, t)
       IN  IF begins = {} \/ (begins # {} /\ (b >= begin_before \/ E = {}))
           THEN Fail
           ELSE /\ Take([begin |-> b, end |-> CalcEnd(FALSE, b, Smallest(E))])
                /\ UNCHANGED <<begin_after, ends_left>>
    /\ UNCHANGED <<attrs, begin_list, end_list, begin_before, iteration, changes>>

\* An event adds an end instance, and the end of the interval is recomputed.
NewEnd(t) ==
    /\ pc = "interval" /\ attrs.endEvents /\ changes < MaxChanges
    /\ end_list' = end_list (+) SetToBag({t})
    /\ interval' = [interval EXCEPT !.end = CalcIntervalEnd(interval, end_list', m_paused)]
    /\ changes' = changes + 1
    /\ UNCHANGED <<attrs, m_paused, begin_list, begin_before, pc, begin_after, ends_left,
                   iteration, prev, intervals>>

\* The node is paused or resumed: its end is recomputed, while it is paused
\* as if its duration were indefinite.
SetPausedMode ==
    /\ pc = "interval" /\ changes < MaxChanges
    /\ m_paused' = ~m_paused
    /\ interval' = [interval EXCEPT !.end = CalcIntervalEnd(interval, end_list, m_paused')]
    /\ changes' = changes + 1
    /\ UNCHANGED <<attrs, begin_list, end_list, begin_before, pc, begin_after, ends_left,
                   iteration, prev, intervals>>

Next ==
    \/ FirstStep \/ SetPausedMode
    \/ \E t \in Instants \cup {interval.end} : NextInterval(t)
    \/ \E t \in Instants : NewEnd(t)

Spec == Init /\ [][Next]_vars

\* The loop runs.
FairSpec == Spec /\ WF_vars(FirstStep)
----------------------------------------------------------------------------
(* Properties *)

\* Every variable holds a value of its type: instances are used up only
\* within the loop, and an end is a time of at most three terms or one of the
\* special values, never the result of computing with these.
TypeOK ==
    /\ attrs \in Attributes /\ m_paused \in BOOLEAN
    /\ begin_list \subseteq Times /\ IsABag(end_list) /\ IsABag(ends_left)
    /\ ends_left \sqsubseteq end_list
    /\ pc \in {"first", "interval", "failure"}
    /\ interval.begin \in Times
    /\ interval.end \in (-Horizon)..(3 * Horizon) \cup {Indefinite, Unresolved}

\* An interval has a definite begin that is an instance of the begin list,
\* does not end before it begins, and reaches into the parent's simple
\* duration, whichever attributes and instances it was computed from.  A
\* recomputed end need not reach so far: calc_interval_end knows nothing of
\* the instances that calc_first_interval passed over.
ValidInterval ==
    pc = "interval" =>
        /\ interval.begin \in begin_list /\ IsDefinite(interval.begin)
        /\ interval.begin <= interval.end
        /\ interval.begin <= begin_before
        /\ changes = 0 => interval.end >= 0

\* min and max bound the duration of every interval; max has the last word.
\* A reader of calc_ad has to consider min above max, indefinite and
\* unresolved ends, and recomputed ends.
MinMaxKept ==
    pc = "interval" =>
        LET d == Minus(interval.end, interval.begin)
        IN  /\ attrs.max # None => d <= attrs.max
            /\ attrs.min # None => d >= MinOf(attrs.min, Indefinite) \/ d = attrs.max

\* Intervals follow each other without overlap and never repeat: an interval
\* of no duration is not found again, so that a node cannot loop in no time.
NextIsLater ==
    pc = "interval" /\ prev # NoInterval =>
        /\ interval.begin >= prev.end
        /\ interval.begin > prev.begin

\* Recomputing the end of the current interval, as every update of an active
\* node does, never moves it later, as long as the instances stay the same.
RecomputeNeverLater ==
    pc = "interval" => CalcIntervalEnd(interval, end_list, m_paused) <= interval.end

\* "When no such interval exists this function returns unresolved":
\* calc_first_interval returns.
FirstReturns == pc = "first" ~> pc # "first"
=============================================================================

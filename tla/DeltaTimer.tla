----------------------------- MODULE DeltaTimer -----------------------------
(***************************************************************************)
(* lib::delta_timer (src/libambulant/lib/delta_timer.cpp): timeouts kept   *)
(* as a list in which every entry stores its distance to the entry before  *)
(* it, the first one its distance to the time of the last execute().       *)
(*                                                                         *)
(* The operations are functions from the list m_events to the new list; an *)
(* entry is a record of the event and its delta.                           *)
(***************************************************************************)
EXTENDS Integers, Sequences, FiniteSetsExt

CONSTANT WORD            \* 2^w: time_type is an unsigned long of w bits

ASSUME WordAssumption == WORD \in Nat \ {0}

Entry(e, t) == [ev |-> e, dt |-> t]

\* The distance of entry i from the last execute(): the sum of the deltas.
Offset(evs, i) ==
  LET S[k \in 0 .. Len(evs)] == IF k = 0 THEN 0 ELSE S[k - 1] + evs[k].dt
  IN  S[i]

\* Mutant of Place: timeouts are appended.
Place_AtEnd(evs, t) == Len(evs) + 1

\* The place a timeout of t milliseconds is put in: before the first entry that
\* is strictly later, so that equal timeouts keep the order of insertion.
Place(evs, t) ==
  Min({i \in 1 .. Len(evs) : t < Offset(evs, i)} \cup {Len(evs) + 1})

\* Puts an entry at place i, r milliseconds after the entry before it, and takes
\* r from the delta of the entry that follows.
InsertAt(evs, i, e, r) ==
  [j \in 1 .. Len(evs) + 1 |->
     CASE j < i -> evs[j]
       [] j = i -> Entry(e, r)
       [] j = i + 1 -> Entry(evs[i].ev, evs[i].dt - r)
       [] OTHER -> evs[j - 1]]

insert(evs, e, t) ==
  LET i == Place(evs, t) IN InsertAt(evs, i, e, t - Offset(evs, i - 1))

\* Mutant of RemoveAt: the delta of the removed entry is lost.
RemoveAt_DeltaLost(evs, i) ==
  [j \in 1 .. Len(evs) - 1 |-> IF j < i THEN evs[j] ELSE evs[j + 1]]

\* Removes entry i and gives its delta to the entry that follows.
RemoveAt(evs, i) ==
  [j \in 1 .. Len(evs) - 1 |->
     CASE j < i -> evs[j]
       [] j = i -> Entry(evs[i + 1].ev, evs[i + 1].dt + evs[i].dt)
       [] OTHER -> evs[j + 1]]

Positions(evs, e) == {i \in 1 .. Len(evs) : evs[i].ev = e}

\* Mutant of ReadyCount: an entry whose time is now has to wait.
ReadyCount_Later(evs, delta) ==
  Max({n \in 0 .. Len(evs) : \A i \in 1 .. n : Offset(evs, i) < delta})

\* How many entries have their turn when delta milliseconds have passed.
ReadyCount(evs, delta) ==
  Max({n \in 0 .. Len(evs) : \A i \in 1 .. n : Offset(evs, i) <= delta})

\* The events of the first n entries, which execute() appends to the run queue.
ReadyEvents(evs, n) == [i \in 1 .. n |-> evs[i].ev]

\* Mutant of Remaining: what is ready is not erased.
Remaining_All(evs, n, delta) == evs

\* What execute() leaves in the list: the first remaining delta loses what has
\* passed since the last entry that became ready, saturating at 0.
Remaining(evs, n, delta) ==
  LET rest == delta - Offset(evs, n)
  IN  [j \in 1 .. Len(evs) - n |->
         IF j = 1
         THEN Entry(evs[n + 1].ev,
                    IF rest > evs[n + 1].dt THEN 0 ELSE evs[n + 1].dt - rest)
         ELSE evs[n + j]]

\* The time that passed since the last execute(), in unsigned arithmetic: a clock
\* that was set back yields a huge delta.
Delta(now, last_run) == (now - last_run) % WORD

\* "The delay until the next event, or a large number."
LARGE == 1000000
next_event_time(evs) == IF evs = << >> THEN LARGE ELSE evs[1].dt
=============================================================================

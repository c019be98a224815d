----------------------------- MODULE TimerSpec -----------------------------
(***************************************************************************)
(* What lib::timer_control does for its users (include/ambulant/lib/       *)
(* timer.h), without epochs: a reading that advances with the parent clock *)
(* while the timer runs and stands still while it does not, and a reported *)
(* drift that is corrected by moving the reading forward by that much or   *)
(* by holding it still for that long.  Pausing, resuming and changing the  *)
(* speed leave the reading alone, as the header says, with two exceptions  *)
(* that the header does not know of: a slow-down that is cut short         *)
(* (CutShort), and a slow-down of a stopped timer (SlowDown).              *)
(*                                                                         *)
(* This is the abstract specification; TimerControl is shown to implement  *)
(* it.                                                                     *)
(***************************************************************************)
EXTENDS Integers

CONSTANTS
  WORD,                  \* readings are unsigned words: they are modulo WORD
  Speeds,                \* the speeds in use, in half units: 2 is normal speed
  Times,                 \* the times the reading is set to
  Drifts                 \* the drifts that are reported

VARIABLES
  reading,               \* what elapsed() returns
  running,               \* the timer ticks
  speed,                 \* the current speed, an element of Speeds
  hold,                  \* parent milliseconds the reading still stands still
  drift,                 \* the correction that is still to be made
  seen                   \* the drift the event processor is about to correct

vars == <<reading, running, speed, hold, drift, seen>>

Init ==
  /\ reading = 0
  /\ running \in BOOLEAN
  /\ speed \in Speeds
  /\ hold = 0
  /\ drift = 0
  /\ seen = 0

\* Where a reading is after d milliseconds.
Moved(d) == (reading + d) % WORD

\* One parent millisecond.  At speed s/2 the reading moves by s/2, rounded
\* either way: the rounding depends on when the timer was last re-based.
Tick ==
  /\ IF running /\ hold = 0
     THEN \E d \in {speed \div 2, (speed + 1) \div 2} : reading' = Moved(d)
     ELSE reading' = reading
  /\ hold' = IF hold > 0 THEN hold - 1 ELSE 0
  /\ UNCHANGED <<running, speed, drift, seen>>

Start ==
  /\ reading' \in Times
  /\ running' = TRUE
  /\ hold' = 0
  /\ UNCHANGED <<speed, drift, seen>>

Stop ==
  /\ reading' = 0
  /\ running' = FALSE
  /\ hold' = 0
  /\ UNCHANGED <<speed, drift, seen>>

SetTime ==
  /\ reading' \in Times
  /\ hold' = 0
  /\ UNCHANGED <<running, speed, drift, seen>>

\* A slow-down that is cut short keeps the reading only at speed zero.  At normal
\* speed the reading falls back by the hold that is left, at others it is lost.
CutShort ==
  IF hold = 0 \/ speed = 0 THEN {reading}
  ELSE IF speed = 2 THEN {Moved(-hold)}
  ELSE 0 .. WORD - 1

Pause ==
  /\ running
  /\ running' = FALSE
  /\ reading' \in CutShort
  /\ hold' = 0
  /\ UNCHANGED <<speed, drift, seen>>

Resume ==
  /\ ~running
  /\ running' = TRUE
  /\ hold' = 0
  /\ UNCHANGED <<reading, speed, drift, seen>>

SetSpeed ==
  /\ speed' \in Speeds
  /\ reading' \in CutShort
  /\ hold' = 0
  /\ UNCHANGED <<running, drift, seen>>

SetDrift ==
  /\ drift' \in Drifts
  /\ UNCHANGED <<reading, running, speed, hold, seen>>

GetDrift ==
  /\ seen' = drift
  /\ UNCHANGED <<reading, running, speed, hold, drift>>

\* A clock that is behind is moved forward at once, by no more than the drift
\* that was seen; the recorded one may be another by now.
SpeedUp ==
  /\ \E k \in 0 .. seen : reading' = Moved(k) /\ drift' = drift - k
  /\ seen' = 0
  /\ UNCHANGED <<running, speed, hold>>

\* A running clock that is ahead is never moved back: its reading is held for the
\* length of the drift.  A drift that is reported while an earlier one is being
\* worked off is dropped.  The reading of a stopped clock is lost.
SlowDown ==
  /\ seen < 0
  /\ IF running
     THEN /\ hold' = IF hold = 0 THEN -seen ELSE hold
          /\ reading' = reading
     ELSE /\ hold' = 0
          /\ reading' \in 0 .. WORD - 1
  /\ drift' = drift - seen
  /\ seen' = 0
  /\ UNCHANGED <<running, speed>>

Next ==
  \/ Tick \/ Start \/ Stop \/ SetTime \/ Pause \/ Resume
  \/ SetSpeed \/ SetDrift \/ GetDrift \/ SpeedUp \/ SlowDown

Spec == Init /\ [][Next]_vars
=============================================================================

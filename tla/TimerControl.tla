---------------------------- MODULE TimerControl ----------------------------
(***************************************************************************)
(* lib::timer_control_impl (src/libambulant/lib/timer.cpp, timer.h): a     *)
(* clock that is slaved to a parent clock at some speed.  The reading is   *)
(* not stored but derived from a pair of epochs: m_local_epoch is what the *)
(* timer reads when the parent reads m_parent_epoch.  To slow the timer    *)
(* down without ever moving it back, skew() puts m_parent_epoch into the   *)
(* future of the parent.                                                   *)
(*                                                                         *)
(* Times are unsigned machine words.  Every operation holds m_lock, so one *)
(* operation is one step; the parent ticks between any two of them.        *)
(***************************************************************************)
EXTENDS Integers

CONSTANTS
  WORD,                  \* 2^w: time_type is an unsigned long of w bits
  Speeds,                \* speeds in use, in half units (2 is 1.0)
  Times,                 \* arguments given to start() and set_time()
  Drifts,                \* drifts that renderers report with set_drift()
  MaxDrift               \* bound on the recorded drift (it has none in the code)

ASSUME WordAssumption == WORD \in Nat \ {0}
ASSUME SpeedsAssumption == Speeds \subseteq Nat
ASSUME TimesAssumption == Times \subseteq 0 .. WORD - 1
ASSUME DriftsAssumption == Drifts \subseteq Int
ASSUME MaxDriftAssumption == MaxDrift \in Nat

VARIABLES
  parent,                \* m_parent->elapsed(), the realtime clock
  m_parent_epoch, m_local_epoch, m_speed, m_running, m_drift,
  seen                   \* the local `drift' of event_processor_impl::_serve_events

epochs == <<m_parent_epoch, m_local_epoch>>
vars == <<parent, epochs, m_speed, m_running, m_drift, seen>>

-----------------------------------------------------------------------------
\* The time_type that holds an integer: unsigned arithmetic is modulo 2^w.
Word(x) == x % WORD

\* Rounds speed * dt to the nearest millisecond, halves upward.
_apply_speed_manip(speed, dt) == (speed * dt + 1) \div 2

\* What the timer has gained since its epochs.
SinceEpoch == _apply_speed_manip(m_speed, Word(parent - m_parent_epoch))

\* What _pause() and skew() may add to m_local_epoch.  They do not ask whether the
\* parent epoch has been reached, so that the difference may have wrapped; the
\* conversion of a double beyond the end of the word is undefined.
Gains == IF SinceEpoch < WORD THEN {SinceEpoch} ELSE 0 .. WORD - 1

_elapsed ==
  IF ~m_running \/ parent < m_parent_epoch
  THEN m_local_epoch
  ELSE Word(m_local_epoch + SinceEpoch)

\* A slow-down is being worked off.
Skewing == m_running /\ parent < m_parent_epoch

-----------------------------------------------------------------------------
Init ==
  /\ parent \in 0 .. WORD - 1
  /\ m_parent_epoch = parent
  /\ m_local_epoch = 0
  /\ m_speed \in Speeds
  /\ m_running \in BOOLEAN
  /\ m_drift = 0
  /\ seen = 0

\* The parent clock, outside the timer, advances by a millisecond.  It does not
\* reach the end of its word (2^64 ms), nor does what the timer gains by it.
Tick ==
  /\ parent + 1 < WORD
  /\ parent' = parent + 1
  /\ m_running => _apply_speed_manip(m_speed, parent' - m_parent_epoch) < WORD
  /\ UNCHANGED <<epochs, m_speed, m_running, m_drift, seen>>

Start(t) ==
  /\ m_parent_epoch' = parent
  /\ m_local_epoch' = t
  /\ m_running' = TRUE
  /\ UNCHANGED <<parent, m_speed, m_drift, seen>>

Stop ==
  /\ m_local_epoch' = 0
  /\ m_running' = FALSE
  /\ UNCHANGED <<parent, m_parent_epoch, m_speed, m_drift, seen>>

Pause ==
  /\ m_running
  /\ \E g \in Gains : m_local_epoch' = Word(m_local_epoch + g)
  /\ m_running' = FALSE
  /\ UNCHANGED <<parent, m_parent_epoch, m_speed, m_drift, seen>>

\* Mutant of Resume: the parent epoch is not renewed.
Resume_OldEpoch ==
  /\ ~m_running
  /\ m_running' = TRUE
  /\ UNCHANGED <<parent, epochs, m_speed, m_drift, seen>>

Resume ==
  /\ ~m_running
  /\ m_parent_epoch' = parent
  /\ m_running' = TRUE
  /\ UNCHANGED <<parent, m_local_epoch, m_speed, m_drift, seen>>

\* A running timer is paused, set and resumed under the one lock.
SetTime(t) ==
  /\ m_local_epoch' = t
  /\ m_parent_epoch' = IF m_running THEN parent ELSE m_parent_epoch
  /\ UNCHANGED <<parent, m_speed, m_running, m_drift, seen>>

\* As set_time, but the reading that _pause() computes is kept.
SetSpeed(s) ==
  /\ m_speed' = s
  /\ IF m_running
     THEN /\ \E g \in Gains : m_local_epoch' = Word(m_local_epoch + g)
          /\ m_parent_epoch' = parent
     ELSE UNCHANGED epochs
  /\ UNCHANGED <<parent, m_running, m_drift, seen>>

SetDrift(d) ==
  /\ m_drift' = d
  /\ UNCHANGED <<parent, epochs, m_speed, m_running, seen>>

\* The event processor reads the drift it is going to correct.
GetDrift ==
  /\ seen' = m_drift
  /\ UNCHANGED <<parent, epochs, m_speed, m_running, m_drift>>

SkewForward(k) ==
  /\ m_local_epoch' = Word(m_local_epoch + k)
  /\ m_parent_epoch' = m_parent_epoch

\* Mutant of SkewBackward: the reading is set back.
SkewBackward_SetBack(k) ==
  /\ m_local_epoch' = m_local_epoch - k
  /\ m_parent_epoch' = m_parent_epoch

\* The timer may be stopped: skew() does not ask.
SkewBackward(k) ==
  IF parent < m_parent_epoch
  THEN UNCHANGED epochs
  ELSE /\ parent + k < WORD
       /\ \E g \in Gains : m_local_epoch' = Word(m_local_epoch + g)
       /\ m_parent_epoch' = parent + k

\* skew(), called by the event processor with the drift it has seen, or with as
\* much of a positive one as leaves the next event in the future.  set_drift() may
\* have recorded another drift meanwhile.
Skew(k) ==
  /\ k \in {seen} \cup 0 .. seen
  /\ m_drift' = m_drift - k
  /\ m_drift' \in -MaxDrift .. MaxDrift
  /\ IF k >= 0 THEN SkewForward(k) ELSE SkewBackward(-k)
  /\ seen' = 0
  /\ UNCHANGED <<parent, m_speed, m_running>>

Next ==
  \/ Tick
  \/ \E t \in Times : Start(t)
  \/ Stop
  \/ Pause
  \/ Resume
  \/ \E t \in Times : SetTime(t)
  \/ \E s \in Speeds : SetSpeed(s)
  \/ \E d \in Drifts : SetDrift(d)
  \/ GetDrift
  \/ \E k \in {seen} \cup 0 .. seen : Skew(k)

Spec == Init /\ [][Next]_vars
-----------------------------------------------------------------------------
\* Every time is an unsigned word; the recorded drift is a signed one.
TypeOK ==
  /\ parent \in 0 .. WORD - 1
  /\ m_parent_epoch \in 0 .. WORD - 1
  /\ m_local_epoch \in 0 .. WORD - 1
  /\ m_speed \in Speeds
  /\ m_running \in BOOLEAN
  /\ m_drift \in Int
  /\ seen \in Int

\* timer.h: pause() does "not reset the elapsed time", and with set_speed() "the
\* current elapsed time is not affected".  It is while a slow-down is being worked
\* off.
ElapsedKept ==
  [][Pause \/ (\E s \in Speeds : SetSpeed(s)) => _elapsed' = _elapsed]_vars

\* The detailed timer implements the abstract one, whoever calls it when: its
\* reading is elapsed(), and the hold that remains is the distance to a parent epoch
\* in the future.  So a drift moves a running timer by exactly the drift or holds
\* it for as many parent milliseconds, no correction moves it back, and only the two
\* exceptions of TimerSpec lose the reading.
Abstract == INSTANCE TimerSpec WITH
  reading <- _elapsed,
  running <- m_running,
  speed <- m_speed,
  hold <- IF Skewing THEN m_parent_epoch - parent ELSE 0,
  drift <- m_drift

ImplementsTimerSpec == Abstract!Spec
=============================================================================

--------------------------- MODULE EventProcessor ---------------------------
(***************************************************************************)
(* lib::event_processor_impl (src/libambulant/lib/event_processor.cpp):    *)
(* one worker thread serves timed events of three priorities.  Events wait *)
(* in a delta timer per priority, move to a run queue when their time has  *)
(* come, and are fired and deleted one by one with m_lock released.        *)
(*                                                                         *)
(* The worker's code between two points where it gives up m_lock is split  *)
(* where it reads state that other threads change without m_lock: the      *)
(* timer (its reading and its recorded drift) and m_observer.  The         *)
(* operations of other threads, and of the events themselves while they    *)
(* are fired, happen whenever the worker does not hold m_lock.             *)
(***************************************************************************)
EXTENDS DeltaTimer

CONSTANTS
  Events,                \* the event objects that are added, each at most once
  Delays,                \* relative times given to add_event()
  Drifts,                \* drifts that renderers report to the timer
  Resets,                \* times that the scheduler sets the timer to
  MaxNow,                \* bound on the reading of the timer, a time_type
  MaxDrift,              \* bound on the recorded drift
  ObserverChanges,       \* set_observer() is called while the worker runs
  NoEvent,               \* no event is being fired
  Lowest                 \* the code has three priorities, 1 .. Lowest

ASSUME DelaysAssumption == Delays \subseteq Nat
ASSUME DriftsAssumption == Drifts \subseteq Int
ASSUME MaxNowAssumption == MaxNow \in Nat /\ MaxNow < WORD
ASSUME MaxDriftAssumption == MaxDrift \in Nat
ASSUME ResetsAssumption == Resets \subseteq 0 .. MaxNow
ASSUME ObserverAssumption == ObserverChanges \in BOOLEAN
ASSUME NoEventAssumption == NoEvent \notin Events
ASSUME LowestAssumption == Lowest \in Nat \ {0}

\* event_priority: ep_high, ep_med and ep_low, most urgent first.
Priority == 1 .. Lowest

VARIABLES
  now, m_drift,          \* the timer: m_timer->elapsed() and get_drift()
  m_last_run, m_events,  \* the three delta timers
  run_queue,             \* m_high_q, m_med_q and m_low_q
  pc,                    \* where the worker is
  level,                 \* the priority _events_available() looks at
  serving,               \* the event that is being fired
  drift,                 \* the drift the worker is about to apply
  m_observer,            \* an observer is set
  redraw,                \* the worker has called lock_redraw()
  m_exit_requested,      \* stop() was called
  status, prio, due      \* bookkeeping: each event's fate, its priority until it
                         \* is deleted and, until it is ready, its delay counted
                         \* from the execute() before it was added

timer == <<now, m_drift>>
queues == <<m_last_run, m_events, run_queue>>
worker == <<pc, level, serving, drift>>
gui == <<m_observer, redraw, m_exit_requested>>
ghosts == <<status, prio, due>>
vars == <<timer, queues, worker, gui, ghosts>>

\* The worker gives up m_lock while it waits for a signal or the redraw lock,
\* while an event is fired and while the observer is told to redraw.
Unlocked == {"wait", "lock_redraw", "fire", "unlock_redraw", "done", "broken"}
LockFree == pc \in Unlocked

Init ==
  /\ now = 0 /\ m_drift = 0
  /\ m_last_run = [p \in Priority |-> 0]
  /\ m_events = [p \in Priority |-> << >>]
  /\ run_queue = [p \in Priority |-> << >>]
  /\ pc = "wait" /\ level = 1 /\ serving = NoEvent /\ drift = 0
  /\ m_observer \in (IF ObserverChanges THEN BOOLEAN ELSE {FALSE})
  /\ redraw = FALSE
  /\ m_exit_requested = FALSE
  /\ status = [e \in Events |-> "new"]
  /\ prio = [e \in Events |-> 1]
  /\ due = [e \in Events |-> 0]

-----------------------------------------------------------------------------
\* The timer, which has a lock of its own (module TimerControl).

Tick ==
  /\ now < MaxNow
  /\ now' = now + 1
  /\ UNCHANGED <<m_drift, queues, worker, gui, ghosts>>

\* scheduler::_exec() sets the timer to the time of the events it executed, and
\* a jump in the document or its end sets it to 0.
SetTime(t) ==
  /\ now' = t
  /\ UNCHANGED <<m_drift, queues, worker, gui, ghosts>>

\* A drift that is reported between get_drift() and skew() is recorded, and then
\* reduced by the drift that was read before it.
SetDrift(d) ==
  /\ d - drift \in -MaxDrift .. MaxDrift
  /\ m_drift' = d
  /\ UNCHANGED <<now, queues, worker, gui, ghosts>>

-----------------------------------------------------------------------------
\* Operations of other threads and of events that are being fired.

add_event(e, t, p) ==
  /\ LockFree
  /\ status[e] = "new"
  /\ m_last_run[p] + t <= MaxNow
  /\ m_events' = [m_events EXCEPT ![p] = insert(@, e, t)]
  /\ status' = [status EXCEPT ![e] = "pending"]
  /\ prio' = [prio EXCEPT ![e] = p]
  /\ due' = [due EXCEPT ![e] = m_last_run[p] + t]
  /\ UNCHANGED <<timer, m_last_run, run_queue, worker, gui>>

\* cancel_event() looks for the event in the delta timer only; it fails when the
\* event is not there.
cancel_event(e, p) ==
  /\ LockFree
  /\ Positions(m_events[p], e) # {}
  /\ m_events' = [m_events EXCEPT ![p] = RemoveAt(@, Min(Positions(@, e)))]
  /\ status' = [status EXCEPT ![e] = "cancelled"]
  /\ prio' = [prio EXCEPT ![e] = 1]
  /\ due' = [due EXCEPT ![e] = 0]
  /\ UNCHANGED <<timer, m_last_run, run_queue, worker, gui>>

InTimer(e) == \E p \in Priority : Positions(m_events[p], e) # {}

cancel_all_events ==
  /\ LockFree
  /\ m_events' = [p \in Priority |-> << >>]
  /\ status' = [e \in Events |-> IF InTimer(e) THEN "cancelled" ELSE status[e]]
  /\ prio' = [e \in Events |-> IF InTimer(e) THEN 1 ELSE prio[e]]
  /\ due' = [e \in Events |-> 0]
  /\ UNCHANGED <<timer, m_last_run, run_queue, worker, gui>>

\* set_observer() does not take m_lock.
set_observer(b) ==
  /\ ObserverChanges
  /\ m_observer' = b
  /\ UNCHANGED <<timer, queues, worker, redraw, m_exit_requested, ghosts>>

\* thread::stop(): the worker is not woken up, it has to notice.
stop ==
  /\ ~m_exit_requested
  /\ m_exit_requested' = TRUE
  /\ UNCHANGED <<timer, queues, worker, m_observer, redraw, ghosts>>

-----------------------------------------------------------------------------
\* The worker, run() and _serve_events().

\* Mutant of Wake: without a timeout only an immediate event wakes the worker.
Wake_OnSignal ==
  /\ pc = "wait"
  /\ m_exit_requested \/ \E p \in Priority : next_event_time(m_events[p]) = 0
  /\ pc' = IF m_exit_requested THEN "done" ELSE "check"
  /\ level' = 1
  /\ UNCHANGED <<timer, queues, serving, drift, gui, ghosts>>

\* Mutant of Wake: exit_requested() is not looked at.
Wake_NoExit ==
  /\ pc = "wait"
  /\ pc' = IF m_observer THEN "lock_redraw" ELSE "check"
  /\ level' = 1
  /\ UNCHANGED <<timer, queues, serving, drift, gui, ghosts>>

\* m_lock.wait() returns after a signal or after 10 ms; so does the first turn.
Wake ==
  /\ pc = "wait"
  /\ pc' = CASE m_exit_requested -> "done"
             [] ~m_exit_requested /\ m_observer -> "lock_redraw"
             [] OTHER -> "check"
  /\ level' = 1
  /\ UNCHANGED <<timer, queues, serving, drift, gui, ghosts>>

LockRedraw ==
  /\ pc = "lock_redraw"
  /\ redraw' = TRUE
  /\ pc' = "relock"
  /\ UNCHANGED <<timer, queues, level, serving, drift, m_observer, m_exit_requested, ghosts>>

\* If the observer disappeared _serve_events() leaves m_lock and returns, and run()
\* waits on a lock that the thread does not own.
Relock ==
  /\ pc = "relock"
  /\ pc' = IF m_observer THEN "check" ELSE "broken"
  /\ UNCHANGED <<timer, queues, level, serving, drift, gui, ghosts>>

\* _events_available() for one priority; the next one is looked at only if this
\* one has nothing to run.  execute() runs only if the run queue is empty.
EventsAvailable ==
  /\ pc = "check"
  /\ LET p == level
         delta == Delta(now, m_last_run[p])
         n == ReadyCount(m_events[p], delta)
     IN  IF run_queue[p] = << >>
         THEN /\ run_queue' = [run_queue EXCEPT ![p] = ReadyEvents(m_events[p], n)]
              /\ m_events' = [m_events EXCEPT ![p] = Remaining(@, n, delta)]
              /\ m_last_run' = [m_last_run EXCEPT ![p] = now]
              /\ LET Ready(e) == \E i \in 1 .. n : m_events[p][i].ev = e
                 IN  /\ status' = [e \in Events |-> IF Ready(e) THEN "ready" ELSE status[e]]
                     /\ due' = [e \in Events |-> IF Ready(e) THEN 0 ELSE due[e]]
         ELSE UNCHANGED <<queues, status, due>>
  /\ \/ run_queue'[level] # << >> /\ pc' = "serve" /\ level' = level
     \/ run_queue'[level] = << >> /\ level < Lowest /\ pc' = "check" /\ level' = level + 1
     \/ run_queue'[level] = << >> /\ level = Lowest /\ pc' = "drift" /\ level' = level
  /\ UNCHANGED <<timer, serving, drift, gui, prio>>

\* _serve_event() of the most urgent run queue that has an event.
ServeEvent(p) ==
  /\ pc = "serve"
  /\ run_queue[p] # << >>
  /\ \A q \in Priority : q < p => run_queue[q] = << >>
  /\ serving' = Head(run_queue[p])
  /\ run_queue' = [run_queue EXCEPT ![p] = Tail(@)]
  /\ status' = [status EXCEPT ![Head(run_queue[p])] = "firing"]
  /\ pc' = "fire"
  /\ UNCHANGED <<timer, m_last_run, m_events, level, drift, gui, prio, due>>

\* Mutant of EventFired: the more urgent queues are not looked at again.
EventFired_SameLevel ==
  /\ pc = "fire"
  /\ status' = [status EXCEPT ![serving] = "fired"]
  /\ prio' = [prio EXCEPT ![serving] = 1]
  /\ serving' = NoEvent
  /\ pc' = "check"
  /\ UNCHANGED <<timer, queues, level, drift, gui, due>>

\* Mutant of EventFired: one event is served per turn.
EventFired_OnePerTurn ==
  /\ pc = "fire"
  /\ status' = [status EXCEPT ![serving] = "fired"]
  /\ prio' = [prio EXCEPT ![serving] = 1]
  /\ serving' = NoEvent
  /\ pc' = "drift"
  /\ UNCHANGED <<timer, queues, level, drift, gui, due>>

\* The event has been fired and is deleted; all queues are looked at again.
EventFired ==
  /\ pc = "fire"
  /\ status' = [status EXCEPT ![serving] = "fired"]
  /\ prio' = [prio EXCEPT ![serving] = 1]
  /\ serving' = NoEvent
  /\ pc' = "check" /\ level' = 1
  /\ UNCHANGED <<timer, queues, drift, gui, due>>

NextEventTime == Min({next_event_time(m_events[p]) : p \in Priority})

\* A positive drift is applied up to just before the next event.
GetDrift ==
  /\ pc = "drift"
  /\ drift' = IF m_drift > 0 /\ m_drift >= NextEventTime THEN NextEventTime - 1 ELSE m_drift
  /\ pc' = "skew"
  /\ UNCHANGED <<timer, queues, level, serving, gui, ghosts>>

\* m_timer->skew(): a positive drift moves the reading, up to its bound; a negative
\* one holds it, which a timer that does not tick for a while shows.
Skew ==
  /\ pc = "skew"
  /\ now' = IF drift > 0 THEN Min({now + drift, MaxNow}) ELSE now
  /\ m_drift' = m_drift - drift
  /\ drift' = 0
  /\ pc' = IF m_observer THEN "unlock_redraw" ELSE "wait"
  /\ UNCHANGED <<queues, level, serving, gui, ghosts>>

\* m_observer is read again, without the lock.
UnlockRedraw ==
  /\ pc = "unlock_redraw"
  /\ IF m_observer
     THEN redraw' = FALSE /\ pc' = "wait"
     ELSE redraw' = redraw /\ pc' = "broken"
  /\ UNCHANGED <<timer, queues, level, serving, drift, m_observer, m_exit_requested, ghosts>>

-----------------------------------------------------------------------------
Worker ==
  \/ Wake \/ LockRedraw \/ Relock \/ EventsAvailable
  \/ \E p \in Priority : ServeEvent(p)
  \/ EventFired \/ GetDrift \/ Skew \/ UnlockRedraw

Clients ==
  \/ \E e \in Events, t \in Delays, p \in Priority : add_event(e, t, p)
  \/ cancel_all_events
  \/ \E e \in Events, p \in Priority : cancel_event(e, p)
  \/ \E b \in BOOLEAN : set_observer(b)
  \/ stop

Clock ==
  \/ Tick
  \/ \E t \in Resets : SetTime(t)
  \/ \E d \in Drifts : SetDrift(d)

Next == Worker \/ Clients \/ Clock

Spec == Init /\ [][Next]_vars

\* The worker is scheduled, the timer runs, and firing an event returns.
FairSpec == Spec /\ WF_vars(Worker) /\ WF_vars(Tick)
-----------------------------------------------------------------------------
Status == {"new", "pending", "ready", "firing", "fired", "cancelled"}

TypeOK ==
  /\ now \in 0 .. MaxNow
  /\ m_drift \in Int
  /\ drift \in Int
  /\ m_last_run \in [Priority -> 0 .. MaxNow]
  /\ m_events \in [Priority -> Seq([ev : Events, dt : Nat])]
  /\ run_queue \in [Priority -> Seq(Events)]
  /\ pc \in Unlocked \cup {"relock", "check", "serve", "drift", "skew"}
  /\ level \in Priority
  /\ serving \in Events \cup {NoEvent}
  /\ m_observer \in BOOLEAN
  /\ redraw \in BOOLEAN
  /\ m_exit_requested \in BOOLEAN
  /\ status \in [Events -> Status]
  /\ prio \in [Events -> Priority]
  /\ due \in [Events -> Nat]

\* Single ownership: an event that add_event() handed over is in exactly one place,
\* the delta timer or the run queue of its priority or the worker's hands, until it
\* is deleted; no event is fired or deleted twice, and none gets lost.
SingleOwner ==
  /\ \A p \in Priority : \A i \in DOMAIN m_events[p] :
       LET e == m_events[p][i].ev IN
       /\ status[e] = "pending" /\ prio[e] = p
       /\ \A j \in DOMAIN m_events[p] : m_events[p][j].ev = e => i = j
  /\ \A p \in Priority : \A i \in DOMAIN run_queue[p] :
       LET e == run_queue[p][i] IN
       /\ status[e] = "ready" /\ prio[e] = p
       /\ \A j \in DOMAIN run_queue[p] : run_queue[p][j] = e => i = j
  /\ \A e \in Events :
       /\ status[e] = "pending" => \E i \in DOMAIN m_events[prio[e]] : m_events[prio[e]][i].ev = e
       /\ status[e] = "ready" => \E i \in DOMAIN run_queue[prio[e]] : run_queue[prio[e]][i] = e
       /\ status[e] = "firing" => pc = "fire" /\ serving = e
  /\ pc = "fire" => serving \in Events /\ status[serving] = "firing"

\* The delta encoding is exact: whatever was inserted, cancelled and executed before
\* it or since, an event's deltas add up to its delay, counted from the execute()
\* before it was added.  That is not the moment at which it was added, so it may
\* fire that much earlier than "relative time t" (event_processor.h 56) says.
DeltasExact ==
  \A p \in Priority : \A i \in DOMAIN m_events[p] :
    m_last_run[p] + Offset(m_events[p], i) = due[m_events[p][i].ev]

\* An event is fired only when nothing more urgent is ready or due: all more urgent
\* queues were looked at again after the previous event was fired.
UrgentFirst ==
  [][\A e, f \in Events :
       status[e] = "ready" /\ status'[e] = "firing" /\ prio[f] < prio[e]
         => /\ status[f] # "ready"
            /\ status[f] = "pending" => due[f] > m_last_run[prio[f]]]_vars

\* The worker sleeps, and ends, with empty run queues: what the destructor cancels
\* in the delta timers is all that is left, and no event is leaked.
NothingLeftToRun ==
  pc \in {"wait", "done", "broken"} => \A p \in Priority : run_queue[p] = << >>

\* The correction that "we don't advance past the next event" cannot turn into a
\* setback: a clock that is behind is never slowed down (next_event_time - 1 >= 0).
NoSetback ==
  pc = "drift" /\ m_drift > 0 => NextEventTime > 0

\* Every event that is added is fired or cancelled, unless the worker is stopped.
EveryEventServed ==
  \A e \in Events : status[e] \in {"pending", "ready", "firing"}
                      ~> status[e] \in {"fired", "cancelled"} \/ pc = "done"

\* stop() joins the worker although nothing wakes it up.
StopJoins == m_exit_requested ~> pc = "done"
=============================================================================

# A TLA+ verification of libambulant: timing, playing and video

Ambulant is a SMIL player. Its library, libambulant, plays a document by
running timed events: clocks drive an *event processor*, the event processor
calls the *scheduler*, and the scheduler moves the nodes of the *time graph*
through their states. The *player* starts and stops all this and owns the
playables; for a video, a thread reads the file, a decoder turns packets into
frames and a renderer shows them in time. This project models these parts from the C++ source,
checks small instances with TLC and proves the safety properties for
all parameters with TLAPS. Paths below are relative to `libambulant` in
`src/libambulant` unless they say otherwise.

## 1. The system and its parts

| Part | State | Operations | Interacts with |
|---|---|---|---|
| timer (`lib/timer.cpp`) | two epochs, speed, running, recorded drift | start, stop, pause, resume, set_time, set_speed, set_drift, skew, elapsed | parent timer; shared by event processor, scheduler and renderers |
| delta timer (`lib/delta_timer.cpp`) | list of (event, delta), time of the last run | insert, cancel, clear, execute, next_event_time | owned by the event processor, reads the timer |
| event processor (`lib/event_processor.cpp`) | three delta timers, three run queues, observer, exit request | add_event, cancel_event, cancel_all_events, set_observer, the worker's run loop | every other thread; fires events without its lock; skews the timer |
| scheduler (`smil2/time_sched.cpp`) | lock, horizon | start, exec, restart, goto_next, goto_previous, activate_node | time graph; sets the shared timer |
| time node and states (`smil2/time_node.cpp`, `time_state.cpp`) | state, interval, history, fill, paused, deferred, update event | set_state, set_interval, exec, sync_update, reset, kill, repeat, pause, resume, defer | parent, children, dependents through sync rules, playables |
| excl (`smil2/time_node.cpp`) | queue of paused and deferred children, priority classes | interrupt, on_child_normal_end, remove | its children |
| interval arithmetic (`smil2/time_calc.cpp`) | paused mode | calc_first_interval, calc_next_interval, calc_interval_end | time node |
| sync rules (`smil2/sync_rule.cpp`) | instance lists | new, update, cancel, add, reset | time nodes |
| player (`smil2/smil_player.cpp`) | play status, playables by node, cache of playables by URL, the shared timer | start, stop, pause, resume, update, create_playable, stop_playable, destroy_playable_in_cache, callbacks, hyperlinks | all of the above, on the user interface's thread and the event processor's |
| demultiplexer (`net/ffmpeg_common.cpp`) | a thread, a table of sinks, where to seek to | run, seek, add_datasink, remove_datasink, cancel | pushes packets to the datasources |
| datasource (`net/demux_datasource.cpp`) | queue of packets, client callback, end of file | start, stop, seek, push_data, get_packet | between the thread and a decoder |
| video decoder (`net/ffmpeg_video.cpp`) | queue of frames, client callback, whether input is to be restarted | start_frame, start_prefetch, data_avail, frame_processed, seek | datasource and renderer, by callbacks through the event processor |
| video renderer (`common/video_renderer.cpp`) | activated, paused, epoch, last frame, where the last clip ended | init_with_node, preroll, start, stop, post_stop, pause, resume, seek, data_avail | decoder and player |
| others | | layout, transitions, animation, smilText, state and scripting, other data sources, parsers, renderers, GUIs | |

What is hard: one timer object is read and set by several threads; events are
fired with the event processor's lock released; observers come and go; unsigned
times wrap; a node's state changes through handlers that call each other, in
batches of events of one document time; children wait in a queue for a turn
that somebody else has to give them; playables are cached, reused and destroyed
by delayed events; callbacks that were queued meet objects that were
stopped, restarted or moved to another position meanwhile; and locks are taken in more than one
order. `PROJECT.json` lists these hazards with
their lines and the properties aimed at them.

What makes the parts correct:

* timer: its two epochs and its speed yield one reading, which moves only with
  the time or on request, never backwards because of a drift correction;
* delta timer: deltas add up to the delays, counted from the last run;
* event processor: each event is owned by one place, is fired once, the most urgent first,
  after its delay and eventually; stopping it ends the worker;
* excl: one child plays, the queue and the children's flags agree, priorities
  are respected, and no child waits for ever;
* interval arithmetic: intervals lie in the list of begin instances and in the
  parent, keep min and max, follow each other, and are found in finite time;
* player and scheduler: a playing document keeps being updated, a stopped one
  leaves nothing behind, playables are neither lost nor used after their release;
* demultiplexer and datasource: packets in order, none lost, no callback
  lost, nobody freed early, stopping ends;
* decoder and renderer: the chain of callbacks goes on until the clip ends, the
  end is reported, and the renderer's clock is right.

## 2. Modules

| Module | Models |
|---|---|
| `TimerSpec` | abstract timer: a reading, whether it runs, a speed, a hold (how long a slow-down still lasts) and a recorded drift |
| `TimerControl` | `timer_control_impl`: epochs, unsigned words, skew |
| `TimerControlProofs` | type correctness and refinement of `TimerSpec` |
| `DeltaTimer` | the list operations of `delta_timer` as functions |
| `EventProcessor` | `event_processor_impl`: the worker thread and its clients; extends `DeltaTimer` |
| `EventProcessorProofs` | types, single ownership, exact deltas, drained run queues, order of urgency |
| `Excl` | `excl`, `excl_queue`, and what `time_node`, `time_state` and `scheduler::_exec` do to the children of an excl |
| `ExclProofs` | types, the queue and the flags, the order of service, one child on the stage |
| `TimeCalc` | `time_calc`, the arithmetic of `smil_time`, and the calls of `time_node` and its states that compute intervals |
| `TimeCalcProofs` | what `calc_end` yields; valid intervals within min and max that follow each other |
| `Player` | `smil_player` with the scheduler's lock: two threads, an external time graph |
| `PlayerProofs` | types and locks, ownership of playables, the chain of updates, a clean end |
| `DemuxDatasource` | `demux_datasource` as functions on a record |
| `Demux` | `ffmpeg_demux::run` and the decoders that use it; extends `DemuxDatasource` |
| `DemuxProofs` | types, references, order of packets |
| `Video` | `video_renderer` and `ffmpeg_video_decoder_datasource` over one datasource; extends `DemuxDatasource` |
| `VideoProofs` | types, the chain of callbacks, the renderer's clock |
| `DataFacts` | lemmas that several proofs use: least and greatest elements, induction over `0..n`, bags |
| `MC*` | constants for TLC |

Definitions named `X_Something` that a comment calls a mutant are variants of
`X` with a plausible mistake. Nothing uses them; they show that the properties
notice the mistake.

### TimerControl and TimerSpec

Variables carry the member names. Every public operation is one action, because
each holds `m_lock` from beginning to end; `set_time` and `set_speed` of a running
timer are pause, assignment and resume in one step, as in the code. `time_type` is
an unsigned word of `WORD` values; a difference that is negative wraps (`Word`).
Speeds are counted in halves so that `_apply_speed_manip` really rounds. The
parent clock is external and only ticks; actions that would take a clock to the
end of its word (2^64 ms) are not considered.

`skew(k)` with `k < 0` does not set the clock back: it moves the parent epoch
into the future, and until it is reached `elapsed()` stands still. `_pause()`
does not know about this: it adds a difference that has wrapped, and if the scaled difference
does not fit into a word its conversion is undefined (`Gains`). Callers are not restricted:
the player and the scheduler pause the timer at any time, and the event processor skews it
whether it runs or not. It does so in two steps, `get_drift` into its local variable (`seen`) and
`skew` with that value or less, between which a renderer may record another drift.
`MaxDrift` bounds what the difference of the two leaves.

In the refinement mapping, `reading` is `_elapsed` and `hold` is the distance to a
parent epoch in the future. `TimerSpec` promises what timer.h does with two exceptions, which
are stated there as exactly as the code allows: a slow-down that is cut short by a pause or a
change of speed (`CutShort`) takes back the rest of the hold at normal speed, and a
slow-down of a stopped timer (`SlowDown`) loses the reading. The run `timer_pause` checks the sentences of timer.h on the first
themselves; the second contradicts "While paused this timer's elapsed() returns the same value".

### DeltaTimer and EventProcessor

The list of deltas is a sequence of records. The saturating subtraction `decr` is
modelled where it matters (`Remaining`); in `insert` it never saturates.
`Delta` is `now - m_last_run` in unsigned arithmetic.

The worker's program counter names the points where it gives up `m_lock`
(`Unlocked`) and the points between which it reads what others change without
`m_lock`: the timer and `m_observer`. Clients act whenever the lock is
free, the clock and `set_observer` at any time. An event object is added at
most once. `status`, `prio` and `due` are bookkeeping: where an event is, its
priority, and its delay counted from the last run of
its delta timer, as the code counts it and not from the time of `add_event` (section 4). A worker that
returns without its lock, or calls through a null observer, is `broken`
and does no more steps.

`SetTime` is the scheduler's `set_time` on the shared timer (time_sched.cpp:308,
and :59, :249, :354 with other values).

### Excl

`child[c]` holds what the code keeps per child: time state, paused and deferred
marks, whether it has something on the screen (`m_needs_remove`), whether its
history is non-empty, and its current interval. Times are abstracted: the next
begin of a child that is not active, or the end of one that is, is `later` or
`due`. `more` counts begin instances still to come; children with clock-based
begins know the next one in advance (`timed`), the others learn of it from an
event.

Handlers that call each other (`interrupt`, `set_state`, `pause`, `fill`,
`raise_end_event`, ...) are operators on the pair of children and queue, one per
function of the code. Actions are the calls from outside:

* `Advance(S)`: the scheduler finds that the events of the children S are
  next; S is any non-empty set of children that `get_pending_events` lists;
* `Exec(c)`: the batch is executed in document order, one child per step;
* `Begin`, `Repeat`, `End` of the excl, and `Startup(c)`, the children being
  brought to life in document order.

Nothing else happens during a batch or a startup, since the scheduler's lock is
held. Children are leaves with `restart="whenNotActive"`; a child's next interval
does not begin at the very instant its previous one ends.

### TimeCalc

A document is a record of timing attributes, a set of begin instances and a bag
of end instances. `FirstStep` is one iteration of the loop of
`calc_first_interval`, so that its termination can be asked about; `ends_left` is
the local end list from which it erases. `NextInterval(t)` ends the current
interval at `t` (its end, or earlier if the node is cut short) and computes the
next one. The states of the node take an interval only if it is valid (`Take`);
`calc_next_interval` itself may return one that ends before it begins. `NewEnd(t)` and `SetPausedMode` recompute the end of the current one
as an event, a pause or a resumption does. `Indefinite` and `Unresolved` are
ordinary large numbers, as in the code, and `Plus` and `Minus` keep them out of
sums. `Horizon` bounds the times that a document writes or a clock measures: three of them
added stay below `Indefinite`. `m_uses_dur` is only read by `end_cond` and `get_interval_end` of the time
node, never by `time_calc` itself, and is left out.

### Player

Two threads act: the one of the user interface (`start`, `stop`, `pause`,
`resume`) and the event processor's (update events, destroy events, the ends of
transitions, hyperlinks). `pc[t]` names the points where a thread waits for one
of the two locks or has left `m_playables_cs` with an iterator in its hands.
`exec()` tests the scheduler's lock (`TestLocked`) and takes it (`EnterExec`)
in two steps, as in the code. The time graph is external: a batch begins, fills
or removes media nodes in any order the states of the nodes allow, and may end
the root. Playables are addresses, and an address that was released can be allocated
again, so that a stale pointer in a destroy event is met by a
new playable. An iterator that was invalidated by the other thread leads to
`pc[t] = "undefined"`.

`cancel_all_events` keeps any part of the pending events (`StopLock`), because
it does not reach the run queues of the event processor.

### DemuxDatasource, Demux and Video

`DemuxDatasource` has one operator per function of `demux_datasource`, each
of which holds `m_lock` throughout. `Demux` composes several datasources with
the thread of `ffmpeg_demux`: `pc` names the points of `run()` between which the
lock of the demultiplexer is held, `cpc[s]` those of a call on the datasource of
stream `s`. `refs` counts references, `gen` the seeks that were carried out on the file.
`av_seek_frame` may fail; `av_read_frame` fails at the end of the file only.
Seeks and stops of different streams come from one thread, as the player makes them. A seek to where
the datasource is already returns without touching anything and is no action; `cpc[s] = "seek"` is a
call that holds the datasource's lock and asks for the demultiplexer's.

`Video` puts the decoder and the renderer on top of one datasource. Time is
counted in frames. `dec.scheduled` holds the times of the renderer's
callbacks that the event processor has yet to serve, `dec.src.event` the number
of the decoder's. `InitWithNode`, `Preroll` and `Start` are the three critical sections in which a
renderer is given another clip and started: callbacks of the last clip, which with
fill="ambulant:continue" plays on, come between them. A clip that ends before it begins is refused.
Live streams, late frames that are dropped (a build option) and the
audio renderer of a video are left out.

## 3. Runs

| Run | Instance | Result |
|---|---|---|
| `timer` | word of 8, speeds 0 to 1.5 in halves, drifts -3, -1 and 2, recorded drift at most 5 | `TypeOK`, `ImplementsTimerSpec` hold |
| `timer_pause` | the same at normal speed | `ElapsedKept` violated: a pause during a slow-down changes the reading |
| `event_processor` | 3 events, 2 priorities, delays 0-2, drifts -1 and 3, timer set back to 0, observer coming and going | all safety properties hold |
| `event_processor_live` | 2 events, 3 priorities, fair worker and clock | `EveryEventServed`, `StopJoins` hold |
| `excl` | 3 children, 2 classes, all class attributes, fill freeze, with and without a skipped child, two children that begin with the excl, 2 rounds | all safety properties hold; `EveryWaiterServed` under fairness; `NoIdleWait` and it within the first round and without a skipped child |
| `time_calc` | every combination of dur, end, repeatCount, repeatDur, min, max and implicit duration; 5 begin lists, 5 end lists, 2 changes, 2 next intervals | all safety properties hold |
| `time_calc_first` | the same | `FirstReturns` violated: `calc_first_interval` loops |
| `player` | 2 nodes with one URL, one of them prefetch, the other fill="ambulant:continue" with a transition; 3 addresses, 3 commands, 1 hyperlink or end of a transition | all properties hold, `StopReturns` under fairness |
| `demux` | 2 streams, 3 packets, room for 2, playback from packet 2, one seek to another packet | all properties hold, `WaiterServed` and `StopReturns` under fairness |
| `demux_embrace` | the same | `NoEmbrace` violated: two threads wait for each other |
| `video` | 3 frames, 2 clips of which the second begins where the first ends and one that ends before it begins, 2 starts, seeks or pauses | all properties hold, `WaiterCalled` and `EndReported` under fairness |
| `video_input` | the same | `InputRestarted` violated: playback stalls after a seek |

**Bounds.** *Timer*: a word of 8 lets readings and differences wrap; the drifts are longer than, equal to and shorter than other
steps, so that every order of a slow-down, its end and the other operations
occurs. *Event processor*: three events are the fewest for an insertion between
two others and a cancellation in the middle; two priorities suffice for order
of urgency (the live run has all three); `MaxNow` and `MaxDrift` bound counters
that nothing else bounds. Events are interchangeable, hence the symmetry
set of the safety run; the live run uses none. *Excl*: three children are the fewest for one that
plays, one that interrupts and one that waits; two classes give peers, higher and lower;
`MaxBegins = 2` lets a child come back after it has played, `MaxRounds = 2`
makes a repeat or a restart see what the previous round left. One run has both the
safety and the liveness properties, so the other fills and patterns of begins
are left to the proofs, which cover all of them.
*TimeCalc*: times from -2 to 3 give begins before, at and after the parent's begin, ends before, at and
after begins, a parent that ends before a begin; a repeat count of 1.5 makes `calc_active_rad` round.
*Player*: one URL, so that every playable competes for one entry of the
cache; three addresses, one more than can be in use by the nodes, and two for the
two playables that a transition creates; three commands are the fewest for start, stop and start
again while an update event is in flight. The safety properties were also
checked with three nodes, one of them without a src, and batches of two events.
*Demux*: a queue of two fills up before the stream that comes next
in the file is served; with one seek and the first from `clipBegin` there is a seek
during a seek. *Video*: three frames and a key frame in the last; `MAX_VIDEO_FRAMES = 0` fills
the decoder's queue with one frame; `MaxTime` lies after the time at which every
frame is due.
Deadlock is checked where the system cannot stop; an excl whose children have
used up their begins really stops.

**Fairness.** `EventProcessor!FairSpec`: the worker thread is scheduled, its
timed wait returns, firing an event returns, and the clock ticks.
`Excl!LiveSpec`: a batch or startup runs to its end, and what lies ahead of a
child comes in time as long as the child stays pending. The latter holds
because the event processor calls the scheduler again and again and the
durations of the documents considered are definite; it is not claimed for
children with an indefinite duration. Ending or repeating the excl is not fair.
`Demux!FairSpec`: the thread runs and a call that was begun goes on; no decoder is
obliged to read, seek or stop: one whose own queue is full, that starves or whose renderer is stopped
does not read. `WaiterServed` therefore says that a decoder that waits for ever does so because the
thread hangs on the full queue of another stream. It and
`StopReturns` have the premise that no embrace happens, since after one
nothing moves. `Video!FairSpec`: the thread and the event processor run and
time goes on; `WaiterCalled` and `EndReported` exclude starvation, the
state that `video_input` reaches. `Player!FairSpec`: both threads run. The user
interface's requests for a lock are strongly fair, because between two updates
the event processor's thread waits until the next one is due (`idle_resolution`)
and the lock is free meanwhile. Commands, hyperlinks and transitions are not fair.
`TimeCalc!FairSpec`: the loop runs.

## 4. What the violations show

* **`ElapsedKept`**: a drift of -3 is corrected at a reading of 0 and the timer is paused before
  three milliseconds have passed: `_pause()` (timer.cpp:156) adds the time since an epoch in the
  future, the difference wraps, and the paused reading is at the end of the word, although
  timer.h:102 says that pause keeps the elapsed time. Later in a presentation it falls back.
* **`NoEmbrace`**: the thread carries out its first seek, to clipBegin: it holds the demultiplexer's
  lock and is about to push a flush packet, for which it needs the datasource's. A decoder seeks
  to another time: `demux_datasource::seek` holds the datasource's lock and
  calls `ffmpeg_demux::seek`, which takes the demultiplexer's. The comment in `set_clip_end`
  names this very deadlock.
* **`InputRestarted`**: a packet arrives and the decoder's `data_avail` is queued
  as an event; a seek empties the datasource; `data_avail` finds nothing, sets
  `m_start_input` and returns. The renderer's callback waits for a frame, and only
  that callback would start the input again.
* **`FirstReturns`**: begin="-2s" dur="0s". The interval [-2, -2] is not
  acceptable, `begin_after` becomes -2, and `lower_bound` finds -2 again.

The passing runs have premises or exceptions where the code is known to do something
else than one would expect, or than a remark in it says. The models show:

* *timer*: timer.h:103 says "While paused this timer's elapsed() returns the same value". A
  timer runs for 1 ms and is paused; a drift that says that it is ahead is corrected, and
  `skew()` (timer.cpp:265) adds that millisecond a second time. This is `SlowDown` of `TimerSpec`.
* *event processor*: event_processor.h:56 says that an event is "to fire at relative time t (millis)",
  but the delay counts from the last `execute()` of the delta timer
  (delta_timer.cpp:65): one with delay 1 that is added at 1, when the last `execute()` was at 0, is
  ready at once. `execute()` runs at least every time the worker wakes, which bounds the
  error. `DeltasExact` is about the delays as the code counts them. The scheduler sets the timer back
  (time_sched.cpp:308), the next `execute()` computes a negative difference in unsigned
  arithmetic, and all pending events fire at once; the model has this, and no property
  forbids it. Also, `cancel_all_events` leaves the events in run queues, which are
  fired after it.
* *excl*: a paused child stays in state active and is queued, so `assert_invariants`
  (time_node.cpp:2709), which nobody calls, would fail: "an element may not simultaneously be active
  and in the queue". A comment in `repeat` (time_node.cpp:1310) says that `reset_children` "for
  excl empties its pause queue": it ends the active children only, and a deferred one stays in the
  queue with its mark, and is not scheduled in the new iteration until another child ends.
  `QueueExact` states what the code does in both cases. With a child that has an end attribute (`Ends`) two children may play:
  peers="pause", 3 plays, 2 begins and pauses it, then at one instant 1 begins and
  2 ends; 1 pauses 2, 2 ends while paused, and `on_child_normal_end` resumes 3 although 1
  plays. With fill="hold" (`Fills`) a stopped child is not removed and two children are filled.
  A skipped child leaves the stage without waking the waiting ones (`Unskipped`).
* *player*: with hyperlinks (`linked`) a `stop()` between the look at the root in `goto_node` and
  `scheduler::start` leaves an active document without update events; a link that ends the
  document leaves filled playables; a link followed during a pause lets the clock
  run in state pausing. `stop()` empties the cache while `create_playable` or
  `stop_playable` holds an iterator into it (`Undefined`). A node with a transition
  creates two playables and loses the first (`life = "lost"`). `stop()` and
  `start()` with an update in flight give two chains of updates; this is allowed by `KeepsPlaying`.
* *demux*: the thread has read a packet, has seen that no seek was asked for and has left its lock
  to push it; a decoder seeks, which flushes its queue; then the packet is pushed. The note at
  ffmpeg_common.cpp:622 describes this race and says that it was fixed; `InSequence` counts the packet to
  the seek before. A seek during `av_seek_frame` is lost (ffmpeg_common.cpp:511); a flush packet is lost when
  the queue is full; a sink that is busy when it is removed keeps a reference for ever.
* *video*: after the end of the file without a frame `m_activated` stays set and a
  restart has no callback (`ranout`); the decoder's queue is not bounded, because
  `start_frame` restarts input whether it is full or not; a `stop()` and `start()` before a late
  callback give two chains of callbacks.
* *time_calc*: the end of a current interval can become earlier by being recomputed,
  because `calc_interval_end` sees end instances that `calc_next_interval` passed over.

## 5. Proofs

TLAPS checks the following for all values of the constants under the named
assumptions of the modules. Every invariant that a proof adds was first checked by TLC
on the run of its component.

**TimerControlProofs.**
`TypeCorrect`: the word arithmetic of every operation stays in range, for any
callers. `TimerRefinement`: `Spec` implements `TimerSpec`, for any callers too. `TypeOK` alone is
not enough: what the timer has gained might not fit into a word, and then its conversion is undefined.
The inductive invariant adds `Fits`: for a running timer past its parent epoch it fits.
`WordFacts`, `WordUnique` and `WordOfSum` are the arithmetic modulo the word, `Scaling` says how much
one tick adds at a given speed, `EpochReached` and `EpochAhead` what the difference to an epoch
is before and after it, `Rebased` that moving the epochs keeps the
reading and `PausedReading` what a pause makes of it; the rest is one step per action.

**EventProcessorProofs.**
`SingleOwnership`: the inductive invariant `OwnInv` says
that each delta timer *enumerates* exactly the events that are pending at its
priority and each run queue *holds* exactly the ready ones. Lemmas show how
insertion, removal, execution and the taking of the head change the
enumerated set; one lemma per action follows. `RunQueuesDrained`: `RunInv` records which
run queues have been found empty at each level of the check.
`DeltasAreExact`: `Offset` is a recursive function, and what it computes is proved by
`SegmentInduction`, induction over `0..n` for a set instead of a predicate
(`SumExists`, `OffsetDef`). Insertion leaves the offsets of all other
entries (`InsertOffsets`), so does removal (`RemoveOffsets`), and execution
takes the time that has passed from the offsets of those that stay
(`RemainingOffsets`). With a clock that was set back, `delta` wraps; then every event is
ready and no offset is left to be wrong. This needs `MaxNow < WORD`: a reading fits
into its type. `TypeCorrect` rests on the same lemmas.
`MostUrgentFirst` and `DriftNeverSetsBack` need `CheckInv`: at each level of the
check, the levels above have an empty run queue and a first delta above zero,
because nobody can add an event before the lock is released.

**ExclProofs.** The handlers are operators on a *world*, the children with the queue, so
the invariant is a predicate on worlds, `Good`: the queue is related to the
flags by who is in it (`InQueue`) and who is before whom (`Ahead`, `Before`), never
by positions. What `Keep` computes is proved by `SegmentInduction`
(`KeepFacts`); for the ways a queue changes there is one lemma each
(`SomeLeave`, `OneLeaves`, `FirstLeaves`, `OneJoins`), and for each handler one that
gives the world it returns (`ExitActiveIs` to `EndNormallyIs`). `QueueInv` adds to
`Good` that a child still to be started is in state reset and that outside the excl's
activity no child is active. It needs more than `QueueExact`: a paused child without end
attribute has no end that is due, or `exec` would end it. `Served` says what every
begin does to the others: they stay as they are, or leave the stage to a child whose
priority is not lower; `BestWaiterIsNext` and `LowerNeverTakesOver` follow (`Fair`), for all
documents. `OneChildPlays` has the premise that no document has end
attributes, `OneChildIsFrozen` and `FrozenGivesWay` also that none has
fill="hold"; section 4 shows that they fail otherwise. Their invariant is `Staged`,
together with `QueueInv`. `StageIsNeverIdle` is about documents without a skipped child and
one activation, the case in which `NoIdleWait` says something; its invariant `BusyInv` adds that the interval of a deferred child
is still the one that was due, so that the child can begin when it is served.

**TimeCalcProofs.** All results come from two lemmas on `calc_end`: it lies
between begin + min and begin + max, and it is monotonic in the end instance. The inductive
invariant `Computed` keeps where the end of the current interval came from: `calc_end` for
an instance that is not before the first one the list has now; hence
`RecomputingNeverExtends`. `IntervalsAreValid` rests on the check of the
caller (`Take`), `IntervalsFollow` on the candidates of
`calc_next_interval`. The assumptions bound times by `Horizon`, so that sums do not
overflow; min="media" gives an unresolved minimum, which counts as
indefinite in `MinMaxKept`.

**PlayerProofs.** `Basic` has the types, what the locks protect (whoever is within
`exec` owns the scheduler's lock) and the number of update events. `PlaysOn` adds
`Chain`: while the root is active an update event is queued or some thread
is at a point from which it will post one. `EndsClean` adds `Clean`: in state done
nothing is held or cached, or a thread is about to reset the document.
`PlayablesAreOwned` adds `Sound` (each live address is in one table, or
in the hands of a thread within `stop_playable`) and `AllDoomed` (for
each cached playable a destroy event is queued or about to be). All this holds until
`Undefined`: the use of an iterator that the other thread invalidated, which the code allows.
`PlaysOn` and `EndsClean` are about documents of which no hyperlink was followed (`linked`), and
`PlayablesAreOwned` excepts the playable that a transition loses (`lost`); section 4 says why.

**DemuxProofs.** `TypeCorrect` shows the capacity of the queues and that a
client has one callback at most. `NoEarlyFree`: the inductive invariant `RefInv`
says that the count of a sink is at least the sum of the decoder's reference, the table's
and the thread's, depending on where each of them is in its release. `PacketsInSequence`:
`SeqInv` says that what a decoder saw last, the packets in its queue and the packet
in the hands of the thread are consecutive packets of the stream, generation by
generation.

**VideoProofs.** `CallbacksGoOn`, which excepts a chain that met the end of the file (`ranout`), is
inductive together with the types; the bag of scheduled callbacks needs the lemmas on bags. `ClockIsRight` needs
`ClockInv`, which relates the paused epoch too. The proof showed that a callback may arrive after
`MaxTime`, so that the type of the decoder's oldest timestamp is `Nat`.

Only model-checked: what needs fairness (`EveryEventServed`, `StopJoins`,
`EveryWaiterServed`, `WaiterServed`, `WaiterCalled`, `EndReported`, and the
`StopReturns` of player and demultiplexer), which is beyond the prover. All
invariants and action properties of the runs that pass are proved.

## 6. Not modelled

The Grand Central Dispatch build of the event processor; observers of timers
(remote sync builds); containers inside an excl, `restart="always"`,
repeating children, hyperlink jumps and transitions of excl children; the
state machine of nodes in seq and par, and the sync rules between them;
`terminate()`, the focus, keys and markers of the player; live streams, fast
forwarding and audio in the video path; and the parts listed as such in
`PROJECT.json`: layout, drawing, animation, text, scripting, other data
sources, parsing and platform code, which are sequential, geometric or wrappers
of other libraries. The Python bindings are generated, and `sandbox` and
`third_party_packages` are not part of the library.

## 7. Plan

1. `TimeNode`: the five states with seq and par parents, restart, the update
   event and its loss in `exec` (time_node.cpp:1028-1032), repeats, end sync.
2. The audio decoders and renderers, which follow the pattern of `Video` and report the
   drift that `EventProcessor` corrects.

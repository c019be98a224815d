-------------------------------- MODULE Excl --------------------------------
(***************************************************************************)
(* The SMIL <excl> time container of libambulant (smil2/time_node.cpp,     *)
(* smil2/time_state.cpp): at most one child plays at a time.  A child that *)
(* begins while another one plays interrupts it, and the priorityClass     *)
(* attributes decide: the playing child is stopped or paused, or the new   *)
(* one is deferred or refused.  Paused and deferred children wait in       *)
(* excl_queue and the first of them is served when a child ends normally.  *)
(*                                                                         *)
(* The scheduler runs one batch of events at a time, all of the same       *)
(* document time, in document order, with the scheduler lock held          *)
(* (scheduler::_exec).  Times are abstracted to what the code branches on: *)
(* whether the next begin (of a child that is not active) or the end (of   *)
(* one that is) lies ahead ("later") or has come ("due").                  *)
(*                                                                         *)
(* The children are leaves with restart="whenNotActive", and an interval   *)
(* never begins at the very instant the previous one of that child ended.  *)
(***************************************************************************)
EXTENDS Integers, Sequences, FiniteSets

CONSTANTS
    NumChildren,  \* children of the excl, numbered in document order
    NumClasses,   \* m_num_classes: its priority classes
    Documents,    \* the documents considered: see DocumentType
    MaxBegins,    \* bound on the begin instances of one child
    MaxRounds     \* bound on the times the excl begins or repeats

Children == 1..NumChildren
Classes == 0..(NumClasses - 1)

\* The attributes of the excl's children and of its priorityClasses.
DocumentType ==
    [priority : [Children -> Classes],
     peers    : [Classes -> {"stop", "pause", "defer", "never"}],
     higher   : [Classes -> {"stop", "pause"}],
     lower    : [Classes -> {"defer", "never"}],
     fill     : [Children -> {"remove", "freeze", "hold"}],
     explicitEnd : [Children -> BOOLEAN],  \* ended by an end attribute
     skipped  : [Children -> BOOLEAN],     \* expr or system test is false
     timed    : [Children -> BOOLEAN],     \* begins by the clock, not by events
     atZero   : [Children -> BOOLEAN]]     \* the first begin is the excl's own

ASSUME SizesAssumption == NumChildren \in Nat \ {0} /\ NumClasses \in Nat \ {0}
ASSUME BoundsAssumption == MaxBegins \in Nat \ {0} /\ MaxRounds \in Nat
ASSUME DocumentsAssumption == \A d \in Documents : d \in DocumentType

VARIABLES
    doc,        \* the document played
    child,      \* the time_node of every child
    m_cont,     \* excl_queue: the paused and the deferred children
    running,    \* the excl itself is active
    starting,   \* children startup_children has still to visit
    elist,      \* children the scheduler has still to exec in this batch
    rounds      \* times the excl has begun or repeated

vars == <<doc, child, m_cont, running, starting, elist, rounds>>

States == {"reset", "proactive", "active", "postactive", "dead"}

ChildType ==
    [state    : States,
     paused   : BOOLEAN,
     deferred : BOOLEAN,
     interval : {"none", "later", "due"},
     shown    : BOOLEAN,        \* m_needs_remove
     played   : BOOLEAN,        \* m_history is not empty
     more     : 0..MaxBegins]   \* begin instances still to come

Alive(r) == r.state \in {"proactive", "active", "postactive"}
Filled(r) == r.state # "active" /\ r.shown
Playing(r) == r.state = "active" /\ ~r.paused

(***************************************************************************)
(* The handlers call each other, so they are operators on the pair w of    *)
(* the children and the queue; each action is one call from outside.       *)
(***************************************************************************)
World == [child |-> child, queue |-> m_cont]

SetWorld(w) == child' = w.child /\ m_cont' = w.queue

\* The members of S in q, in their order: std::list::remove of the others.
Keep(q, S) ==
    LET F[i \in 0..Len(q)] ==
            IF i = 0 THEN <<>> ELSE IF q[i] \in S THEN Append(F[i - 1], q[i]) ELSE F[i - 1]
    IN  F[Len(q)]

Without(q, c) == Keep(q, Children \ {c})

\* The first position of q that holds a member of S, or the end of q.
Position(q, S) ==
    CHOOSE k \in 1..(Len(q) + 1) :
        /\ k <= Len(q) => q[k] \in S
        /\ \A j \in 1..(k - 1) : q[j] \notin S

PutAt(q, k, c) == SubSeq(q, 1, k - 1) \o <<c>> \o SubSeq(q, k, Len(q))

\* Mutant: paused children are put behind all the others.
PushPause_AtEnd(q, c) == Append(Without(q, c), c)

\* Paused children go before the waiting ones of the same priority.
PushPause(q, c) ==
    LET r == Without(q, c)
    IN  PutAt(r, Position(r, {d \in Children : doc.priority[d] <= doc.priority[c]}), c)

\* Deferred children go after the waiting ones of the same priority.
PushDefer(q, c) ==
    LET r == Without(q, c)
    IN  PutAt(r, Position(r, {d \in Children : doc.priority[d] < doc.priority[c]}), c)

\* Mutant: the end of the begin list is not recognised.
CalcNext_Unchecked(r, c) ==
    IF r.played /\ doc.timed[c]
    THEN [r EXCEPT !.interval = "later", !.more = @ - 1]
    ELSE [r EXCEPT !.interval = "none"]

\* calc_next_interval: without a played interval there is none to follow.
CalcNext(r, c) ==
    IF r.played /\ doc.timed[c] /\ r.more > 0
    THEN [r EXCEPT !.interval = "later", !.more = @ - 1]
    ELSE [r EXCEPT !.interval = "none"]

Remove(w, c) == [w EXCEPT !.child[c].shown = FALSE]

\* Any fill but "remove" keeps the child on the screen.
Fill(r, c) == [r EXCEPT !.shown = @ /\ doc.fill[c] # "remove"]

\* raise_end_event: a waiting child leaves the queue.
RaiseEndEvent(w, c) ==
    IF w.child[c].paused \/ w.child[c].deferred
    THEN [child |-> [w.child EXCEPT ![c].paused = FALSE, ![c].deferred = FALSE],
          queue |-> Without(w.queue, c)]
    ELSE w

PlayedInterval(r) == [r EXCEPT !.played = TRUE, !.interval = "none"]

\* active_state::exit
ExitActive(w, c) ==
    LET v == RaiseEndEvent([w EXCEPT !.child[c] = Fill(@, c)], c)
    IN  [v EXCEPT !.child[c] = PlayedInterval(@)]

\* set_state(ts_postactive)
ToPostactive(w, c) ==
    LET v == IF w.child[c].state = "active" THEN ExitActive(w, c) ELSE w
    IN  IF w.child[c].state = "postactive"
        THEN w
        ELSE [v EXCEPT !.child[c] =
                 CalcNext([@ EXCEPT !.state = "postactive"], c)]

\* set_state(ts_active)
ToActive(w, c) ==
    LET v == [w EXCEPT !.child[c] =
                 [@ EXCEPT !.state = "active", !.interval = "later",
                           !.shown = TRUE]]
    IN  CASE w.child[c].state = "active" -> w
          [] w.child[c].state # "active" /\ doc.skipped[c] -> ToPostactive(v, c)
          [] OTHER -> v

\* The last child in document order among those of S, which the code asserts
\* to be the only one.
LastOf(S) == CHOOSE c \in S : \A d \in S : d <= c

\* Mutant: the frozen child is not looked for.
GetFilledChild_None(w) == {}

GetActiveChild(w) == {c \in Children : Playing(w.child[c])}
GetFilledChild(w) == {c \in Children : Filled(w.child[c])}

\* Mutant: the interval is recalculated but the child not marked as paused.
Pause_Unmarked(w, c) == [w EXCEPT !.child[c].interval = "later"]

\* time_node::pause: a duration counts as indefinite while paused, an end
\* attribute does not.
Pause(w, c) ==
    [w EXCEPT !.child[c] =
        [@ EXCEPT !.paused = TRUE,
                  !.interval = IF doc.explicitEnd[c] THEN w.child[c].interval
                               ELSE "later"]]

Resume(w, c) == [w EXCEPT !.child[c] = [@ EXCEPT !.paused = FALSE]]

DeferInterval(w, c) == [w EXCEPT !.child[c].deferred = TRUE]

CancelInterval(w, c) == [w EXCEPT !.child[c].interval = "none"]

\* Mutant: the attributes for higher and lower interrupts are mixed up.
InterruptType_Swapped(a, c) ==
    LET pa == doc.priority[a]
        pc == doc.priority[c]
    IN  CASE pc = pa -> doc.peers[pa]
          [] pc > pa -> doc.lower[pa]
          [] pc < pa -> doc.higher[pa]

\* What the playing child a asks for when c begins.
InterruptType(a, c) ==
    LET pa == doc.priority[a]
        pc == doc.priority[c]
    IN  CASE pc = pa -> doc.peers[pa]
          [] pc > pa -> doc.higher[pa]
          [] pc < pa -> doc.lower[pa]

Interrupt(w, c) ==
    IF GetActiveChild(w) = {}
    THEN LET v == IF GetFilledChild(w) = {} THEN w
                  ELSE Remove(w, LastOf(GetFilledChild(w)))
         IN  ToActive(v, c)
    ELSE
    LET a    == LastOf(GetActiveChild(w))
        what == InterruptType(a, c)
        stopped == LET v == ToPostactive(w, a)
                   IN  IF doc.fill[a] = "freeze" THEN Remove(v, a) ELSE v
        paused  == [Pause(w, a) EXCEPT !.queue = PushPause(@, a)]
    IN  CASE what = "stop"  -> ToActive(stopped, c)
          [] what = "pause" -> ToActive(paused, c)
          [] what = "defer" -> [DeferInterval(w, c) EXCEPT
                                   !.queue = PushDefer(@, c)]
          [] what = "never" -> ToPostactive(CancelInterval(w, c), c)

\* The end of set_interval and the begin in exec: an interval that is due.
SetInterval(w, c) ==
    IF w.child[c].deferred THEN DeferInterval(w, c) ELSE Interrupt(w, c)

\* Mutant: the deferred marker is removed but the interval not scheduled.
SetDeferredInterval_Dropped(w, c) == [w EXCEPT !.child[c].deferred = FALSE]

\* The deferred interval is moved to now, whatever its begin was.
SetDeferredInterval(w, c) ==
    LET v == [w EXCEPT !.child[c].deferred = FALSE]
    IN  IF v.child[c].interval = "none" THEN v
        ELSE SetInterval([v EXCEPT !.child[c].interval = "due"], c)

\* Mutant: the last frame of the ended child is not removed.
OnChildNormalEnd_NoRemove(w, c) ==
    IF w.queue = <<>> THEN w
    ELSE LET nxt == Head(w.queue)
             v   == [w EXCEPT !.queue = Tail(@)]
         IN  IF v.child[nxt].paused THEN Resume(v, nxt)
                                    ELSE SetDeferredInterval(v, nxt)

\* Mutant: a deferred child at the head of the queue is left there.
OnChildNormalEnd_PausedOnly(w, c) ==
    IF w.queue = <<>> \/ ~w.child[Head(w.queue)].paused THEN w
    ELSE Resume([Remove(w, c) EXCEPT !.queue = Tail(@)], Head(w.queue))

\* excl::on_child_normal_end
OnChildNormalEnd(w, c) ==
    IF w.queue = <<>> THEN w
    ELSE LET nxt == Head(w.queue)
             v   == [w EXCEPT !.queue = Tail(@)]
         IN  CASE v.child[nxt].paused -> Resume(Remove(v, c), nxt)
               [] ~v.child[nxt].paused /\ v.child[nxt].deferred ->
                     SetDeferredInterval(v, nxt)
               [] OTHER -> v

\* set_state_ex(ts_postactive): the normal end of a child.
EndNormally(w, c) == OnChildNormalEnd(ToPostactive(w, c), c)

BeginCond(r) == r.state # "active" /\ r.interval = "due"
EndCond(r) == r.state = "active" /\ r.interval = "due"

-----------------------------------------------------------------------------

NewChild ==
    [state |-> "reset", paused |-> FALSE, deferred |-> FALSE,
     interval |-> "none", shown |-> FALSE, played |-> FALSE, more |-> 0]

Init ==
    /\ doc \in Documents
    /\ child = [c \in Children |-> NewChild]
    /\ m_cont = <<>>
    /\ running = FALSE
    /\ starting = {}
    /\ elist = {}
    /\ rounds = 0

Settled == starting = {} /\ elist = {}

\* Mutant: the reset clears the flags of a child that stays in the queue.
ResetChild_ClearsFlags(r) ==
    [r EXCEPT !.state = "reset", !.interval = "none", !.shown = FALSE,
              !.played = FALSE, !.more = 0,
              !.paused = FALSE, !.deferred = FALSE]

\* time_node::reset of a child: an active one is removed and exits, the others
\* cancel their interval.  Only the exit of an active child clears its paused
\* and deferred flags and takes it out of the queue.
ResetChild(r) ==
    [r EXCEPT !.state = "reset", !.interval = "none", !.shown = FALSE,
              !.played = FALSE, !.more = 0,
              !.paused = @ /\ r.state # "active",
              !.deferred = @ /\ r.state # "active"]

\* reset_children and the head of startup_children.
ResetChildren ==
    /\ child' = [c \in Children |-> ResetChild(child[c])]
    /\ m_cont' = Keep(m_cont, {c \in Children : child[c].state # "active"})
    /\ starting' = Children
    /\ rounds' = rounds + 1

\* active_state::enter of the excl.
Begin ==
    /\ Settled
    /\ ~running
    /\ rounds < MaxRounds
    /\ running' = TRUE
    /\ ResetChildren
    /\ UNCHANGED <<doc, elist>>

\* time_node::repeat of the excl.
Repeat ==
    /\ Settled
    /\ running
    /\ rounds < MaxRounds
    /\ ResetChildren
    /\ UNCHANGED <<doc, running, elist>>

\* startup_children, one child: proactive_state::enter computes the first
\* interval, and set_interval begins it when it starts with the excl.
Startup(c) ==
    LET at == CASE doc.atZero[c] -> "due"
                [] ~doc.atZero[c] /\ doc.timed[c] -> "later"
                [] OTHER -> "none"
        r  == [child[c] EXCEPT
                 !.state = "proactive", !.interval = at,
                 !.more = IF at = "none" THEN MaxBegins ELSE MaxBegins - 1]
        w  == [World EXCEPT !.child[c] = r]
    IN  /\ c \in starting
        /\ \A d \in starting : c <= d
        /\ starting' = starting \ {c}
        /\ SetWorld(IF at = "due" THEN SetInterval(w, c) ELSE w)
        /\ UNCHANGED <<doc, running, elist, rounds>>

\* A child that get_pending_events lists, or that an event gives a begin.
Pending(c) ==
    LET r == child[c]
    IN  /\ Alive(r) /\ ~r.paused /\ ~r.deferred
        /\ \/ r.interval = "later"
           \/ /\ r.interval = "none"
              /\ ~doc.timed[c] /\ r.more > 0
              /\ r.state = "proactive" \/ r.played

\* scheduler::_exec: the begins and ends of the next document time come due.
Advance(S) ==
    /\ Settled
    /\ running
    /\ S # {} /\ \A c \in S : Pending(c)
    /\ elist' = S
    /\ child' = [c \in Children |->
          IF c \notin S THEN child[c]
          ELSE IF child[c].interval = "none"
          THEN [child[c] EXCEPT !.interval = "due", !.more = @ - 1]
          ELSE [child[c] EXCEPT !.interval = "due"]]
    /\ UNCHANGED <<doc, m_cont, running, starting, rounds>>

\* time_node::exec of the next child of the batch: its begin or its end, or
\* nothing if an earlier child of the batch has changed its state.
Exec(c) ==
    /\ c \in elist
    /\ \A d \in elist : c <= d
    /\ elist' = elist \ {c}
    /\ SetWorld(CASE EndCond(child[c])   -> EndNormally(World, c)
                  [] BeginCond(child[c]) -> SetInterval(World, c)
                  [] OTHER -> World)
    /\ UNCHANGED <<doc, running, starting, rounds>>

\* proactive_state, active_state and postactive_state ::kill of a child.
KillChild(c) ==
    LET r == IF child[c].state = "active"
             THEN ExitActive(World, c).child[c] ELSE child[c]
    IN  [r EXCEPT !.state = "dead", !.interval = "none"]

\* active_state::exit of the excl: kill_children.
End ==
    /\ Settled
    /\ running
    /\ running' = FALSE
    /\ child' = [c \in Children |-> KillChild(c)]
    /\ m_cont' = Keep(m_cont, {c \in Children : child[c].state # "active"})
    /\ UNCHANGED <<doc, starting, elist, rounds>>

Next ==
    \/ Begin
    \/ Repeat
    \/ End
    \/ \E c \in Children : Startup(c) \/ Exec(c)
    \/ \E S \in SUBSET Children : Advance(S)

Spec == Init /\ [][Next]_vars

\* A batch and a startup run to their end once begun (the scheduler keeps its
\* lock), and every begin or end that lies ahead comes in time, because the
\* event processor keeps calling the scheduler and durations are definite.
LiveSpec ==
    /\ Spec
    /\ WF_vars(\E c \in Children : Startup(c) \/ Exec(c))
    /\ \A c \in Children :
          WF_vars(\E S \in SUBSET Children : c \in S /\ Advance(S))

-----------------------------------------------------------------------------

TypeOK ==
    /\ doc \in DocumentType
    /\ child \in [Children -> ChildType]
    /\ m_cont \in Seq(Children)
    /\ running \in BOOLEAN
    /\ starting \subseteq Children
    /\ elist \subseteq Children
    /\ rounds \in 0..MaxRounds

Waiting(c) == child[c].paused \/ child[c].deferred

\* The queue and the flags agree, as the code keeps them: a child is in excl_queue
\* exactly once if it is paused or deferred and not at all otherwise (else the
\* assert(false) of on_child_normal_end, time_node.cpp 2662, would be reached);
\* a paused child is active and a deferred one is not.  The queue is in the
\* order that push_pause and push_defer describe: higher priorities first, and
\* within a priority the paused children before the deferred ones.  Two
\* remarks of the source disagree with this.  excl_queue::assert_invariants
\* (time_node.cpp 2709), which nobody calls, asserts that "an element may not
\* simultaneously be active and in the queue": every paused child is both.  And
\* repeat (time_node.cpp 1310) says that reset_children "for excl empties its
\* pause queue": the deferred children, which are not active, stay in it.
QueueExact ==
    /\ \A c \in Children :
          Waiting(c) <=> \E i \in 1..Len(m_cont) : m_cont[i] = c
    /\ \A i, j \in 1..Len(m_cont) : m_cont[i] = m_cont[j] => i = j
    /\ \A c \in Children : child[c].paused => child[c].state = "active"
    /\ \A c \in Children : child[c].deferred => child[c].state # "active"
    /\ \A i, j \in 1..Len(m_cont) : i < j =>
          LET a == m_cont[i]
              b == m_cont[j]
          IN  \/ doc.priority[a] > doc.priority[b]
              \/ /\ doc.priority[a] = doc.priority[b]
                 /\ child[b].paused => child[a].paused

\* Only one child plays: get_active_child "Check that there is only one"
\* (time_node.cpp 2504) and asserts it (2514).
OneActive ==
    \A c, d \in Children : Playing(child[c]) /\ Playing(child[d]) => c = d

\* While the excl runs only one child shows its fill: get_filled_child "Check
\* that there is only one" (time_node.cpp 2523) and asserts it (2533).
OneFilled ==
    running =>
        \A c, d \in Children : Filled(child[c]) /\ Filled(child[d]) => c = d

\* The frozen last frame of a child is gone once another child plays.
FillGivesWay ==
    \A c, d \in Children : ~(Playing(child[c]) /\ Filled(child[d]))

\* Every child's medium plays.  The stage that a skipped child frees is given to
\* nobody, and over a repeat deferred children stay queued behind an empty stage:
\* the two properties that need a busy stage exclude both cases.
Unskipped == \A c \in Children : ~doc.skipped[c]

\* No child waits while nothing plays: the queue is served whenever the stage
\* becomes free (on_child_normal_end), within the first activation of an excl
\* without skipped children.
NoIdleWait ==
    Unskipped /\ rounds <= 1 /\ Settled /\ running /\ m_cont # <<>> =>
        \E c \in Children : Playing(child[c])

\* A child that comes from the queue to the stage is the best of those that
\* waited: none of a higher priority, and no paused one of its priority if it
\* was deferred itself, is left behind.
BestWaiterNext ==
    [][\A c, d \in Children :
          /\ Waiting(c) /\ Playing(child'[c])
          /\ Waiting(d) /\ Waiting(d)'
          => \/ doc.priority[d] < doc.priority[c]
             \/ /\ doc.priority[d] = doc.priority[c]
                /\ child[d].paused => child[c].paused]_vars

\* A child of a lower priority never takes the stage from one of a higher
\* priority: if it plays after a step, the other one has ended by itself.
NoLowerTakesOver ==
    [][\A c, d \in Children :
          /\ Playing(child[c]) /\ ~Playing(child'[c]) /\ running' = running
          /\ ~Playing(child[d]) /\ Playing(child'[d])
          /\ doc.priority[d] < doc.priority[c]
          => child[c].interval = "due" /\ child'[c].state = "postactive"]_vars

\* A child that was paused or deferred gets its turn, unless the excl ends or
\* repeats; in an excl without skipped children.
EveryWaiterServed ==
    \A c \in Children :
        (Unskipped /\ rounds <= 1 /\ running /\ Waiting(c))
            ~> (~running \/ rounds > 1 \/ Playing(child[c]))
=============================================================================

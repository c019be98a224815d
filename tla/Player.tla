------------------------------- MODULE Player -------------------------------
(***************************************************************************)
(* smil_player (smil2/smil_player.cpp) with the scheduler's lock           *)
(* (smil2/time_sched.cpp): the commands of the user interface, the chain   *)
(* of update events on the event processor's thread, the callbacks of      *)
(* playables, hyperlinks, and the life of playables between m_playables,   *)
(* the cache by URL and the events that destroy what was cached.           *)
(*                                                                         *)
(* The time graph is external: a batch of scheduler events begins, ends,   *)
(* fills or removes any media nodes, and may end the root.  Playables are  *)
(* addresses: one that was released can be allocated again.  Sections      *)
(* under m_playables_cs are atomic, and so is what a thread does while     *)
(* the locks it holds keep every other thread from the state it touches;   *)
(* a search of the cache outside m_playables_cs is a step of its own.      *)
(* After a use of an iterator that another thread invalidated the program  *)
(* is undefined: the thread stops.                                         *)
(***************************************************************************)
EXTENDS Integers, Bags, FiniteSets

CONSTANTS
    Nodes, Urls,        \* media nodes and URLs of media
    Url,                \* src of a node, 0 if it has none
    Prefetch,           \* prefetch nodes
    Continue,           \* nodes with fill="ambulant:continue"
    TransIn,            \* nodes with a transition at their begin
    Addresses,          \* where playables are allocated; 0 is NULL
    MaxCommands,        \* bounds: commands of the user,
    MaxPosts,           \* hyperlinks followed and transitions ended,
    MaxBatch,           \* scheduler events in one batch,
    MaxDestroys         \* pending events that destroy a playable

ASSUME PlayerAssumption ==
    /\ Url \in [Nodes -> Urls \cup {0}] /\ 0 \notin Urls \cup Addresses
    /\ Prefetch \subseteq Nodes /\ Continue \subseteq Nodes /\ TransIn \subseteq Nodes
    /\ {MaxCommands, MaxPosts, MaxBatch, MaxDestroys} \subseteq Nat

Threads == {"gui", "worker"}
None == "none"

VARIABLES
    m_state, timer,             \* play state; whether m_timer runs
    m_lock, sched,              \* owners of the player's and scheduler's locks
    root, nodes,                \* states of the time nodes
    linked,                     \* whether the document has hyperlinks
    m_playables,                \* node -> playable
    m_cached_playables,         \* URL -> playable
    prefetched,                 \* URLs whose playable a prefetch node cached
    life,                       \* what has become of a playable
    updates, destroys,          \* pending events
    pc, ret, node, victim, found, can_cache,    \* locals of the threads
    batch, commands, posts      \* counters for the bounds

graph == <<root, nodes, linked>>
cache == <<m_playables, m_cached_playables, prefetched, life>>
locals == <<pc, ret, node, victim, found, can_cache>>
vars == <<m_state, timer, m_lock, sched, graph, cache, updates, destroys, locals,
          batch, commands, posts>>
----------------------------------------------------------------------------
Init ==
    /\ m_state = "idle" /\ timer = FALSE
    /\ m_lock = None /\ sched = None
    /\ root = "inactive" /\ nodes = [n \in Nodes |-> "idle"]
    /\ linked \in BOOLEAN
    /\ m_playables = [n \in Nodes |-> 0]
    /\ m_cached_playables = [u \in Urls |-> 0] /\ prefetched = {}
    /\ life = [p \in Addresses |-> "free"]
    /\ updates = 0 /\ destroys = EmptyBag
    /\ pc = [t \in Threads |-> "idle"] /\ ret = [t \in Threads |-> "update"]
    /\ node = [t \in Threads |-> 0] /\ victim = [t \in Threads |-> 0]
    /\ found = [t \in Threads |-> 0] /\ can_cache = [t \in Threads |-> FALSE]
    /\ batch = 0 /\ commands = 0 /\ posts = 0

Held == {m_playables[n] : n \in Nodes} \ {0}
Cached == {m_cached_playables[u] : u \in Urls} \ {0}
Free(S) == [p \in Addresses |-> IF p \in S THEN "free" ELSE life[p]]
NoEntries == [u \in Urls |-> 0]

Go(t, label) == pc' = [pc EXCEPT ![t] = label]
Set(f, t, v) == [f EXCEPT ![t] = v]

\* The entry of the cache for the URL of n.
Find(n) == IF Url[n] = 0 THEN 0 ELSE m_cached_playables[Url[n]]
----------------------------------------------------------------------------
(* Playables; the caller holds the scheduler's lock. *)

\* create_playable has searched the cache.  A node with a transition at its
\* begin creates a playable, and start_playable creates another one.
CreatePlayable(t) ==
    /\ pc[t] \in {"create", "recreate"}
    /\ LET n == node[t]
           again == pc[t] = "create" /\ n \in TransIn
           old == m_playables[n]
       IN  IF found[t] # Find(n) /\ found[t] # 0
           THEN Go(t, "undefined") /\ UNCHANGED <<cache, found>>
           ELSE \E np \in IF found[t] # 0 THEN {found[t]}
                          ELSE {p \in Addresses : life[p] = "free"} :
                /\ m_playables' = [m_playables EXCEPT ![n] = np]
                /\ m_cached_playables' =
                       IF found[t] # 0 THEN [m_cached_playables EXCEPT ![Url[n]] = 0]
                       ELSE m_cached_playables
                /\ prefetched' = IF found[t] # 0 THEN prefetched \ {Url[n]} ELSE prefetched
                /\ life' = [p \in Addresses |-> IF p = np THEN "playing"
                                                ELSE IF p = old THEN "lost" ELSE life[p]]
                /\ Go(t, IF again THEN "recreate" ELSE "exec")
                /\ found' = Set(found, t, IF again /\ Url[n] # 0
                                          THEN m_cached_playables'[Url[n]] ELSE 0)
    /\ UNCHANGED <<m_state, timer, m_lock, sched, graph, updates, destroys, ret, node, victim,
                   can_cache, batch, commands, posts>>

\* stop_playable up to its search of the cache.
StopPlayable(t, n) ==
    /\ nodes' = [nodes EXCEPT ![n] = "idle"]
    /\ m_playables' = [m_playables EXCEPT ![n] = 0]
    /\ node' = Set(node, t, n) /\ victim' = Set(victim, t, m_playables[n])
    /\ found' = Set(found, t, Find(n))
    /\ can_cache' = Set(can_cache, t, m_state # "done" /\ Url[n] # 0)
    /\ Go(t, IF m_playables[n] = 0 THEN "exec" ELSE "stop")
    /\ UNCHANGED <<m_cached_playables, prefetched, life>>

\* The playable in the cache that makes place for another one.
Outdated(t) == {found[t]} \ {0}

\* The rest of stop_playable, but for the event that destroys the playable.
FinishStop(t) ==
    /\ pc[t] = "stop"
    /\ LET n == node[t]
           p == victim[t]
           entries == IF found[t] # 0 THEN [m_cached_playables EXCEPT ![Url[n]] = 0]
                      ELSE m_cached_playables
       IN  IF found[t] # 0 /\ found[t] # Find(n)
           THEN Go(t, "undefined") /\ UNCHANGED cache
           ELSE /\ IF can_cache[t]
                   THEN /\ m_cached_playables' = [entries EXCEPT ![Url[n]] = p]
                        /\ prefetched' = IF n \in Prefetch THEN prefetched \cup {Url[n]}
                                         ELSE prefetched \ {Url[n]}
                        /\ \E really_stopped \in BOOLEAN :
                              life' = [Free(Outdated(t)) EXCEPT ![p] =
                                          IF n \in Continue /\ ~really_stopped
                                          THEN "continuing" ELSE "stopped"]
                        /\ Go(t, IF n \in Prefetch THEN "exec" ELSE "schedule")
                   ELSE /\ m_cached_playables' = entries
                        /\ prefetched' = {u \in prefetched : entries[u] # 0}
                        /\ life' = Free(Outdated(t) \cup {p})
                        /\ Go(t, "exec")
                /\ UNCHANGED m_playables
    /\ UNCHANGED <<m_state, timer, m_lock, sched, graph, updates, destroys, ret, node, victim,
                   found, can_cache, batch, commands, posts>>

ScheduleDestroy(t) ==
    /\ pc[t] = "schedule"
    /\ destroys' = destroys (+) SetToBag({<<node[t], victim[t]>>})
    /\ Go(t, "exec")
    /\ UNCHANGED <<m_state, timer, m_lock, sched, graph, cache, updates, ret, node, victim,
                   found, can_cache, batch, commands, posts>>

\* done_playback with empty_playable_cache.
DonePlayback ==
    /\ m_state' = "done" /\ timer' = FALSE
    /\ m_cached_playables' = NoEntries /\ prefetched' = {}
    /\ life' = Free(Cached)
    /\ UNCHANGED m_playables

\* _reset_document: every node is stopped; the root, if it was active, calls
\* done_playback.
ResetNodes ==
    LET ended == {n \in Nodes : m_playables[n] # 0}
        emptied == root = "active"
        pushed == {Url[n] : n \in ended}
    IN  /\ nodes' = [n \in Nodes |-> "idle"]
        /\ m_playables' = [n \in Nodes |-> 0]
        /\ m_cached_playables' =
               [u \in Urls |-> IF emptied \/ u \in pushed THEN 0 ELSE m_cached_playables[u]]
        /\ prefetched' = {u \in prefetched : m_cached_playables'[u] # 0}
        /\ life' = Free(Held \cup {p \in Cached : \A u \in Urls : m_cached_playables'[u] # p})
        /\ destroys' = IF m_state = "done" THEN destroys
                       ELSE destroys (+) SetToBag({<<n, m_playables[n]>> :
                               n \in {k \in ended : Url[k] # 0 /\ k \notin Prefetch}})
        /\ UNCHANGED linked
----------------------------------------------------------------------------
(* exec and _update, on either thread. *)

\* _update, and the test of the scheduler's lock in exec.
TestLocked(t) ==
    /\ pc[t] = "test"
    /\ Go(t, IF root # "active" THEN "leave" ELSE IF sched # None THEN "after" ELSE "lock")
    /\ UNCHANGED <<m_state, timer, m_lock, sched, graph, cache, updates, destroys, ret, node,
                   victim, found, can_cache, batch, commands, posts>>

\* Mutant: the lock is not waited for once it was seen to be free.
EnterExec_NoWait(t) ==
    /\ pc[t] = "lock"
    /\ sched' = t
    /\ ret' = Set(ret, t, "update")
    /\ Go(t, "exec")
    /\ UNCHANGED <<m_state, timer, m_lock, graph, cache, updates, destroys, node, victim, found,
                   can_cache, batch, commands, posts>>

\* exec takes the lock; it may have to wait all the same.
EnterExec(t) ==
    /\ pc[t] = "lock" /\ sched = None
    /\ sched' = t
    /\ ret' = Set(ret, t, "update")
    /\ Go(t, "exec")
    /\ UNCHANGED <<m_state, timer, m_lock, graph, cache, updates, destroys, node, victim, found,
                   can_cache, batch, commands, posts>>

\* An event of the batch.
InBatch(t) ==
    /\ pc[t] = "exec" /\ ret[t] # "transitioned"
    /\ root = "active" /\ batch < MaxBatch
    /\ batch' = batch + 1
    /\ UNCHANGED <<m_lock, sched, linked, updates, destroys, ret, commands, posts>>

\* A node begins: create_playable searches the cache.
BeginNode(t, n) ==
    /\ InBatch(t)
    /\ nodes[n] = "idle"
    /\ BagCardinality(destroys) < MaxDestroys
    /\ Cardinality({p \in Addresses : life[p] = "free"}) >= IF n \in TransIn THEN 2 ELSE 1
    /\ nodes' = [nodes EXCEPT ![n] = "active"]
    /\ node' = Set(node, t, n) /\ found' = Set(found, t, Find(n))
    /\ Go(t, "create")
    /\ UNCHANGED <<m_state, timer, root, cache, victim, can_cache>>

\* A node ends and remains as fill.
FillNode(t, n) ==
    /\ InBatch(t)
    /\ nodes[n] = "active"
    /\ nodes' = [nodes EXCEPT ![n] = "filled"]
    /\ UNCHANGED <<m_state, timer, root, cache, pc, node, victim, found, can_cache>>

\* A node ends, or its fill is removed.
StopNode(t, n) ==
    /\ InBatch(t)
    /\ nodes[n] # "idle"
    /\ StopPlayable(t, n)
    /\ UNCHANGED <<m_state, timer, root>>

\* The document ends, after its children.
EndRoot(t) ==
    /\ InBatch(t)
    /\ \A n \in Nodes : nodes[n] # "active"
    /\ root' = "inactive"
    /\ DonePlayback
    /\ UNCHANGED <<nodes, pc, node, victim, found, can_cache>>

\* The end of exec, of scheduler::start and of transitioned_async.
LeaveExec(t) ==
    /\ pc[t] = "exec"
    /\ sched' = None /\ batch' = 0
    /\ timer' = IF ret[t] \in {"goto", "gotoUpdate"} THEN TRUE ELSE timer
    /\ Go(t, CASE ret[t] = "update" -> "after" [] ret[t] = "gotoUpdate" -> "test"
               [] OTHER -> "leave")
    /\ UNCHANGED <<m_state, m_lock, graph, cache, updates, destroys, ret, node, victim, found,
                   can_cache, commands, posts>>

\* Mutant: the document that has ended is not reset.
AfterExec_NoReset(t) ==
    /\ pc[t] = "after"
    /\ updates' = IF root = "active" THEN updates + 1 ELSE updates
    /\ Go(t, "leave")

\* Mutant: the chain of events ends when the document was not executed.
AfterExec_OnlyIfFree(t) ==
    /\ pc[t] = "after"
    /\ updates' = IF root = "active" /\ sched = None THEN updates + 1 ELSE updates
    /\ Go(t, IF root = "active" THEN "leave" ELSE "reset")

\* _update after exec: the next event, or the end.
AfterExec(t) ==
    /\ pc[t] = "after"
    /\ updates' = IF root = "active" THEN updates + 1 ELSE updates
    /\ Go(t, IF root = "active" THEN "leave" ELSE "reset")

Continued(t) ==
    /\ AfterExec(t)
    /\ UNCHANGED <<m_state, timer, m_lock, sched, graph, cache, destroys, ret, node, victim,
                   found, can_cache, batch, commands, posts>>

ResetDocument(t) ==
    /\ pc[t] = "reset" /\ sched = None
    /\ ResetNodes
    /\ root' = "inactive"
    /\ IF root = "active" THEN m_state' = "done" /\ timer' = FALSE
       ELSE UNCHANGED <<m_state, timer>>
    /\ Go(t, "leave")
    /\ UNCHANGED <<m_lock, sched, updates, ret, node, victim, found, can_cache, batch, commands,
                   posts>>

\* Mutant: _update returns early, and nobody releases the lock.
Released_IfActive(t) == IF m_lock = t /\ root = "active" THEN None ELSE m_lock

\* The player's lock, which goto_node does not hold, is released.
Released(t) == IF m_lock = t THEN None ELSE m_lock

\* A command or an event is done.
Leave(t) ==
    /\ pc[t] = "leave"
    /\ m_lock' = Released(t)
    /\ Go(t, "idle")
    /\ ret' = Set(ret, t, "update") /\ node' = Set(node, t, 0) /\ victim' = Set(victim, t, 0)
    /\ found' = Set(found, t, 0) /\ can_cache' = Set(can_cache, t, FALSE)
    /\ UNCHANGED <<m_state, timer, sched, graph, cache, updates, destroys, batch, commands,
                   posts>>
----------------------------------------------------------------------------
(* The event processor's thread. *)

\* An update event is served: update waits for the player's lock.
Update ==
    /\ pc["worker"] = "idle" /\ updates > 0
    /\ updates' = updates - 1
    /\ Go("worker", "update")
    /\ UNCHANGED <<m_state, timer, m_lock, sched, graph, cache, destroys, ret, node, victim,
                   found, can_cache, batch, commands, posts>>

LockUpdate ==
    /\ pc["worker"] = "update" /\ m_lock = None
    /\ m_lock' = "worker"
    /\ Go("worker", "test")
    /\ UNCHANGED <<m_state, timer, sched, graph, cache, updates, destroys, ret, node, victim,
                   found, can_cache, batch, commands, posts>>

\* A transition has ended.
Transitioned(n) ==
    /\ pc["worker"] = "idle" /\ posts < MaxPosts
    /\ posts' = posts + 1
    /\ node' = Set(node, "worker", n)
    /\ Go("worker", "transitioned")
    /\ UNCHANGED <<m_state, timer, m_lock, sched, graph, cache, updates, destroys, ret, victim,
                   found, can_cache, batch, commands>>

\* transitioned_async takes the scheduler's lock only, and removes a fill.
TransitionedAsync ==
    /\ pc["worker"] = "transitioned" /\ sched = None
    /\ sched' = "worker" /\ ret' = Set(ret, "worker", "transitioned")
    /\ IF nodes[node["worker"]] = "filled"
       THEN StopPlayable("worker", node["worker"])
       ELSE Go("worker", "exec") /\ UNCHANGED <<nodes, cache, node, victim, found, can_cache>>
    /\ UNCHANGED <<m_state, timer, m_lock, root, linked, updates, destroys, batch, commands,
                   posts>>

\* clicked_async on a link into this document: goto_node looks whether the
\* document is running, and no lock is held.
Clicked ==
    /\ pc["worker"] = "idle" /\ linked /\ m_state # "idle" /\ posts < MaxPosts
    /\ posts' = posts + 1
    /\ ret' = Set(ret, "worker", IF root = "active" THEN "goto" ELSE "gotoUpdate")
    /\ Go("worker", "goto")
    /\ UNCHANGED <<m_state, timer, m_lock, sched, graph, cache, updates, destroys, node, victim,
                   found, can_cache, batch, commands>>

\* scheduler::start: the root is started, or restarted if the target has
\* played before; a batch of events follows to make the target active.
Goto ==
    /\ pc["worker"] = "goto" /\ sched = None
    /\ sched' = "worker" /\ timer' = FALSE
    /\ root' = "active"
    /\ \/ root = "active" /\ UNCHANGED <<m_state, nodes, linked, cache, destroys>>
       \/ root = "active" /\ ResetNodes /\ m_state' = "playing"
       \/ root # "active" /\ m_state' = "playing" /\ UNCHANGED <<nodes, linked, cache, destroys>>
    /\ Go("worker", "exec")
    /\ UNCHANGED <<m_lock, updates, ret, node, victim, found, can_cache, batch, commands, posts>>

\* An event that destroys a playable is served.
Destroy(e) ==
    /\ pc["worker"] = "idle" /\ BagIn(e, destroys)
    /\ destroys' = destroys (-) SetToBag({e})
    /\ node' = Set(node, "worker", e[1]) /\ victim' = Set(victim, "worker", e[2])
    /\ Go("worker", "destroy")
    /\ UNCHANGED <<m_state, timer, m_lock, sched, graph, cache, updates, ret, found, can_cache,
                   batch, commands, posts>>

\* Mutant: the playable is released, whether it is the one in the cache or not.
Reclaimed_Any(n, p) == p

\* The playable that destroy_playable_in_cache releases: p, if it is still
\* in the cache.
Reclaimed(n, p) == IF Find(n) = p THEN p ELSE 0

DestroyPlayableInCache ==
    /\ pc["worker"] = "destroy" /\ m_lock = None
    /\ LET n == node["worker"]
           p == Reclaimed(n, victim["worker"])
       IN  /\ m_cached_playables' = [u \in Urls |-> IF m_cached_playables[u] = p THEN 0
                                                    ELSE m_cached_playables[u]]
           /\ life' = Free({p})
    /\ prefetched' = {u \in prefetched : m_cached_playables'[u] # 0}
    /\ Go("worker", "leave")
    /\ UNCHANGED <<m_state, timer, m_lock, sched, graph, m_playables, updates, destroys, ret, node,
                   victim, found, can_cache, batch, commands, posts>>
----------------------------------------------------------------------------
(* The user interface. *)

Command ==
    /\ pc["gui"] = "idle" /\ commands < MaxCommands
    /\ commands' = commands + 1
    /\ UNCHANGED <<sched, graph, updates, destroys, ret, node, victim, found, can_cache, batch,
                   posts>>

\* start waits for the scheduler's lock if there is something to start.
Start ==
    /\ Command
    /\ m_lock = None
    /\ CASE m_state \in {"idle", "done"} ->
               m_lock' = "gui" /\ Go("gui", "start") /\ UNCHANGED <<m_state, timer>>
         [] m_state = "pausing" ->
               m_state' = "playing" /\ timer' = TRUE /\ UNCHANGED <<m_lock, pc>>
         [] OTHER -> UNCHANGED <<m_state, timer, m_lock, pc>>
    /\ UNCHANGED cache

\* scheduler::start of the root, then _update.
StartRoot ==
    /\ pc["gui"] = "start" /\ sched = None
    /\ IF root = "active" THEN ResetNodes ELSE UNCHANGED <<nodes, linked, cache, destroys>>
    /\ root' = "active" /\ m_state' = "playing" /\ timer' = TRUE
    /\ Go("gui", "test")
    /\ UNCHANGED <<m_lock, sched, updates, ret, node, victim, found, can_cache, batch, commands,
                   posts>>

Pause ==
    /\ Command
    /\ m_lock = None /\ m_state = "playing"
    /\ m_state' = "pausing" /\ timer' = FALSE
    /\ UNCHANGED <<m_lock, cache, pc>>

Resume ==
    /\ Command
    /\ m_lock = None /\ m_state = "pausing"
    /\ m_state' = "playing" /\ timer' = TRUE
    /\ UNCHANGED <<m_lock, cache, pc>>

\* stop empties the cache before it asks for the lock.
Stop ==
    /\ Command
    /\ m_cached_playables' = NoEntries /\ prefetched' = {}
    /\ life' = Free(Cached)
    /\ Go("gui", "stopLock")
    /\ UNCHANGED <<m_state, timer, m_lock, m_playables>>

\* The bags contained in a bag.
PartsOf(B) ==
    {C \in UNION {[S -> 1..BagCardinality(B)] : S \in SUBSET BagToSet(B)} : C \sqsubseteq B}

\* cancel_all_events does not reach events in the run queues.
StopLock ==
    /\ pc["gui"] = "stopLock" /\ m_lock = None
    /\ IF m_state \in {"pausing", "playing"}
       THEN /\ m_lock' = "gui" /\ m_state' = "done" /\ timer' = FALSE
            /\ updates' \in 0..updates /\ destroys' \in PartsOf(destroys)
            /\ Go("gui", "stopReset")
       ELSE Go("gui", "idle") /\ UNCHANGED <<m_lock, m_state, timer, updates, destroys>>
    /\ UNCHANGED <<sched, graph, cache, ret, node, victim, found, can_cache, batch, commands,
                   posts>>

\* reset_document and done_playback.
StopReset ==
    /\ pc["gui"] = "stopReset" /\ sched = None
    /\ ResetNodes
    /\ root' = "inactive"
    /\ Go("gui", "stopDone")
    /\ IF root = "active" THEN m_state' = "done" /\ timer' = FALSE
       ELSE UNCHANGED <<m_state, timer>>
    /\ UNCHANGED <<m_lock, sched, updates, ret, node, victim, found, can_cache, batch, commands,
                   posts>>

StopDone ==
    /\ pc["gui"] = "stopDone"
    /\ DonePlayback
    /\ Go("gui", "leave")
    /\ UNCHANGED <<m_lock, sched, graph, updates, destroys, ret, node, victim, found, can_cache,
                   batch, commands, posts>>
----------------------------------------------------------------------------
Undefined == \E t \in Threads : pc[t] = "undefined"

ThreadStep(t) ==
    \/ CreatePlayable(t) \/ FinishStop(t) \/ ScheduleDestroy(t)
    \/ TestLocked(t) \/ EnterExec(t) \/ EndRoot(t) \/ LeaveExec(t)
    \/ Continued(t) \/ ResetDocument(t) \/ Leave(t)
    \/ \E n \in Nodes : BeginNode(t, n) \/ FillNode(t, n) \/ StopNode(t, n)

WorkerStep ==
    \/ Update \/ LockUpdate \/ TransitionedAsync \/ Goto \/ DestroyPlayableInCache
    \/ \E e \in BagToSet(destroys) : Destroy(e)

GuiStep == StartRoot \/ StopLock \/ StopReset \/ StopDone

Request ==
    \/ Start \/ Pause \/ Resume \/ Stop \/ Clicked
    \/ \E n \in Nodes : Transitioned(n)

Next ==
    \/ Request \/ WorkerStep \/ GuiStep
    \/ \E t \in Threads : ThreadStep(t)

Spec == Init /\ [][Next]_vars

\* Both threads run; a thread that asks for a lock again and again while the
\* other one takes turns with it gets it some time: between two updates the
\* event processor's thread waits for the next one to be due.
FairSpec ==
    /\ Spec
    /\ WF_vars(WorkerStep) /\ WF_vars(ThreadStep("worker")) /\ WF_vars(ThreadStep("gui"))
    /\ SF_vars(GuiStep) /\ SF_vars(EnterExec("gui"))
----------------------------------------------------------------------------
(* Properties *)

Labels == {"idle", "leave", "test", "lock", "exec", "create", "recreate", "stop",
           "schedule", "after", "reset", "undefined"}
GuiLabels == Labels \cup {"start", "stopLock", "stopReset", "stopDone"}
WorkerLabels == Labels \cup {"update", "transitioned", "goto", "destroy"}

\* Every variable holds a value of its type, and whoever is in the middle of
\* a batch owns the scheduler's lock: it is never taken over.
TypeOK ==
    /\ m_state \in {"idle", "playing", "pausing", "done"} /\ timer \in BOOLEAN
    /\ m_lock \in Threads \cup {None} /\ sched \in Threads \cup {None}
    /\ root \in {"active", "inactive"} /\ linked \in BOOLEAN
    /\ nodes \in [Nodes -> {"idle", "active", "filled"}]
    /\ m_playables \in [Nodes -> Addresses \cup {0}]
    /\ m_cached_playables \in [Urls -> Addresses \cup {0}] /\ prefetched \subseteq Urls
    /\ life \in [Addresses -> {"free", "playing", "stopped", "continuing", "lost"}]
    /\ updates \in 0..MaxCommands + MaxPosts /\ IsABag(destroys)
    /\ pc["gui"] \in GuiLabels /\ pc["worker"] \in WorkerLabels
    /\ \A t \in Threads :
          pc[t] \in {"exec", "create", "recreate", "stop", "schedule"} => sched = t

\* Nobody holds a playable that was released, no playable has two owners,
\* and every playable is in m_playables, in the cache or in the hands of the
\* thread that is about to cache or destroy it, so that someone will release
\* it - but for those that start_playable replaces when there is a transition.
\* What was cached, unless by a prefetch node, has an event that destroys it.
PlayablesOwned ==
    Undefined \/
    /\ \A n \in Nodes : m_playables[n] # 0 => life[m_playables[n]] = "playing"
    /\ \A u \in Urls : m_cached_playables[u] # 0 =>
          /\ life[m_cached_playables[u]] \in {"stopped", "continuing"}
          /\ \/ u \in prefetched
             \/ \E n \in Nodes : BagIn(<<n, m_cached_playables[u]>>, destroys)
             \/ \E t \in Threads : pc[t] \in {"schedule", "destroy"}
                                     /\ victim[t] = m_cached_playables[u]
             \/ pc["gui"] \in {"stopReset", "stopDone"}
    /\ \A n1, n2 \in Nodes : m_playables[n1] = m_playables[n2] => n1 = n2 \/ m_playables[n1] = 0
    /\ \A p \in Addresses : life[p] \notin {"free", "lost"} =>
          p \in Held \cup Cached \cup {victim[t] : t \in {k \in Threads : pc[k] = "stop"}}

\* While a document without hyperlinks plays, somebody will call _update:
\* an event is pending or a thread is on its way to post one.  The clock runs
\* exactly when the player is in state playing.
KeepsPlaying ==
    ~linked /\ pc["gui"] = "idle" =>
        /\ root = "active" /\ ~Undefined =>
               updates > 0 \/ pc["worker"] \in {"update", "test", "lock", "after"}
                           \/ (sched = "worker" /\ ret["worker"] = "update")
        /\ timer <=> m_state = "playing"

\* When a document without hyperlinks has been stopped or has ended, and the
\* thread that ended it has finished, nothing plays and nothing is kept,
\* whatever callbacks were in flight.
StopsClean ==
    ~linked /\ m_state = "done" /\ pc["gui"] = "idle"
    /\ pc["worker"] \notin {"exec", "after", "reset"} =>
        root = "inactive" /\ Held = {} /\ Cached = {}

\* stop returns: no order of locks keeps it waiting.
StopReturns == pc["gui"] = "stopLock" ~> pc["gui"] = "idle" \/ Undefined
=============================================================================

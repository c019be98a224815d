---------------------------- MODULE PlayerProofs ----------------------------
(***************************************************************************)
(* smil_player for any document, number of playables and commands: its     *)
(* types and locks, who owns a playable, the chain of update events, and   *)
(* what is left when the document has ended.                               *)
(***************************************************************************)
EXTENDS Player, DataFacts

-----------------------------------------------------------------------------
(* Types, locks and the locals of the threads *)

\* Where a thread holds the scheduler's lock.
Busy == {"exec", "create", "recreate", "stop", "schedule"}

DataTypes ==
    /\ m_state \in {"idle", "playing", "pausing", "done"} /\ timer \in BOOLEAN
    /\ m_lock \in Threads \cup {None} /\ sched \in Threads \cup {None}
    /\ root \in {"active", "inactive"} /\ linked \in BOOLEAN
    /\ nodes \in [Nodes -> {"idle", "active", "filled"}]
    /\ m_playables \in [Nodes -> Addresses \cup {0}]
    /\ m_cached_playables \in [Urls -> Addresses \cup {0}] /\ prefetched \in SUBSET Urls
    /\ life \in [Addresses -> {"free", "playing", "stopped", "continuing", "lost"}]

LocalTypes ==
    /\ DOMAIN pc = Threads /\ pc["gui"] \in GuiLabels /\ pc["worker"] \in WorkerLabels
    /\ ret \in [Threads -> {"update", "transitioned", "goto", "gotoUpdate"}]
    /\ node \in [Threads -> Nodes \cup {0}]
    /\ victim \in [Threads -> Addresses \cup {0}] /\ found \in [Threads -> Addresses \cup {0}]
    /\ can_cache \in [Threads -> BOOLEAN]


\* Pending events that destroy a playable.
Events == IsABag(destroys) /\ BagToSet(destroys) \in SUBSET (Nodes \X Addresses)

\* What a thread knows where it is.
Locals ==
    \A t \in Threads :
       /\ pc[t] \in Busy => sched = t
       /\ pc[t] \in {"create", "recreate", "stop", "schedule", "destroy", "transitioned"} =>
             node[t] \in Nodes
       /\ pc[t] \in {"stop", "schedule", "destroy"} => victim[t] \in Addresses
       /\ pc[t] = "stop" => (found[t] = 0 => Find(node[t]) = 0)
       /\ pc[t] = "stop" /\ can_cache[t] => Url[node[t]] # 0

\* create_playable, in one of three ways: undefined, with a new playable, or
\* with the one from the cache.
LEMMA CreateCases ==
  ASSUME DataTypes, LocalTypes, Locals, NEW t \in Threads, CreatePlayable(t)
  PROVE  /\ node[t] \in Nodes /\ pc[t] \in {"create", "recreate"}
         /\ \/ pc' = [pc EXCEPT ![t] = "undefined"] /\ UNCHANGED <<cache, found>>
            \/ \E np \in Addresses, f \in Addresses \cup {0}, l \in {"recreate", "exec"} :
                  /\ pc' = [pc EXCEPT ![t] = l] /\ found' = [found EXCEPT ![t] = f]
                  /\ m_playables' = [m_playables EXCEPT ![node[t]] = np]
                  /\ life' = [p \in Addresses |-> IF p = np THEN "playing"
                                ELSE IF p = m_playables[node[t]] THEN "lost" ELSE life[p]]
                  /\ \/ life[np] = "free" /\ UNCHANGED <<m_cached_playables, prefetched>>
                     \/ /\ Url[node[t]] \in Urls /\ m_cached_playables[Url[node[t]]] = np
                        /\ m_cached_playables' = [m_cached_playables EXCEPT ![Url[node[t]]] = 0]
                        /\ prefetched' = prefetched \ {Url[node[t]]}
<1>. DEFINE n == node[t]
            again == pc[t] = "create" /\ n \in TransIn
            l == IF again THEN "recreate" ELSE "exec"
            c == IF found[t] # 0 THEN [m_cached_playables EXCEPT ![Url[n]] = 0]
                 ELSE m_cached_playables
            f == IF again /\ Url[n] # 0 THEN c[Url[n]] ELSE 0
<1>1. n \in Nodes /\ pc[t] \in {"create", "recreate"} /\ Url[n] \in Urls \cup {0}
  BY PlayerAssumption DEF CreatePlayable, Locals
<1>2. CASE found[t] # Find(n) /\ found[t] # 0
  BY <1>1, <1>2 DEF CreatePlayable, Go
<1>3. CASE ~(found[t] # Find(n) /\ found[t] # 0)
  <2>1. PICK np \in IF found[t] # 0 THEN {found[t]} ELSE {p \in Addresses : life[p] = "free"} :
          /\ m_playables' = [m_playables EXCEPT ![n] = np]
          /\ m_cached_playables' = c
          /\ prefetched' = IF found[t] # 0 THEN prefetched \ {Url[n]} ELSE prefetched
          /\ life' = [p \in Addresses |-> IF p = np THEN "playing"
                                ELSE IF p = m_playables[n] THEN "lost" ELSE life[p]]
          /\ pc' = [pc EXCEPT ![t] = l]
          /\ found' = [found EXCEPT ![t] = IF again /\ Url[n] # 0
                                           THEN m_cached_playables'[Url[n]] ELSE 0]
    BY <1>3 DEF CreatePlayable, Go, Set
  <2>2. found' = [found EXCEPT ![t] = f]
    <3>1. m_cached_playables' = c /\ found' = [found EXCEPT ![t] = IF again /\ Url[n] # 0
                                           THEN m_cached_playables'[Url[n]] ELSE 0]
      BY <2>1
    <3>. HIDE DEF c, again
    <3>2. (IF again /\ Url[n] # 0 THEN m_cached_playables'[Url[n]] ELSE 0) = f
      BY <3>1
    <3>. HIDE DEF f
    <3>. QED
      BY <3>1, <3>2
  <2>3. c \in [Urls -> Addresses \cup {0}]
    BY <1>1, PlayerAssumption DEF DataTypes
  <2>4. f \in Addresses \cup {0}
    <3>. HIDE DEF c
    <3>. QED
      BY <1>1, <2>3
  <2>5. l \in {"recreate", "exec"}
    OBVIOUS
  <2>6. np \in Addresses
    BY <2>1 DEF LocalTypes
  <2>7. \/ life[np] = "free" /\ UNCHANGED <<m_cached_playables, prefetched>>
        \/ /\ Url[n] \in Urls /\ m_cached_playables[Url[n]] = np
           /\ m_cached_playables' = [m_cached_playables EXCEPT ![Url[n]] = 0]
           /\ prefetched' = prefetched \ {Url[n]}
    <3>1. CASE found[t] = 0
      BY <2>1, <3>1
    <3>2. CASE found[t] # 0
      BY <1>1, <1>3, <2>1, <3>2 DEF Find
    <3>. QED
      BY <3>1, <3>2
  <2>. HIDE DEF l, c, f
  <2>. QED
    BY <1>1, <2>1, <2>2, <2>4, <2>5, <2>6, <2>7
<1>. QED
  BY <1>2, <1>3

\* The rest of stop_playable, in one of three ways: undefined, with the
\* playable put in the cache, or released.  What was in the cache is released.
LEMMA FinishCases ==
  ASSUME DataTypes, LocalTypes, Locals, NEW t \in Threads, FinishStop(t)
  PROVE  /\ node[t] \in Nodes /\ victim[t] \in Addresses /\ pc[t] = "stop"
         /\ m_playables' = m_playables
         /\ \/ pc' = [pc EXCEPT ![t] = "undefined"] /\ UNCHANGED cache
            \/ /\ can_cache[t] /\ Url[node[t]] \in Urls
               /\ m_cached_playables' = [m_cached_playables EXCEPT ![Url[node[t]]] = victim[t]]
               /\ \E s \in {"stopped", "continuing"} :
                     life' = [p \in Addresses |->
                                IF p = victim[t] THEN s
                                ELSE IF p = m_cached_playables[Url[node[t]]] THEN "free" ELSE life[p]]
               /\ \/ /\ pc' = [pc EXCEPT ![t] = "exec"]
                     /\ prefetched' = prefetched \cup {Url[node[t]]}
                  \/ /\ pc' = [pc EXCEPT ![t] = "schedule"]
                     /\ prefetched' = prefetched \ {Url[node[t]]}
            \/ /\ ~can_cache[t] /\ pc' = [pc EXCEPT ![t] = "exec"]
               /\ m_cached_playables' \in [Urls -> Addresses \cup {0}]
               /\ \A u \in Urls : \/ m_cached_playables'[u] = m_cached_playables[u]
                                  \/ u = Url[node[t]] /\ m_cached_playables'[u] = 0
               /\ prefetched' = {u \in prefetched : m_cached_playables'[u] # 0}
               /\ \E q \in Addresses \cup {0} :
                     /\ life' = [p \in Addresses |-> IF p \in {victim[t], q} THEN "free" ELSE life[p]]
                     /\ q # 0 => /\ Url[node[t]] \in Urls /\ m_cached_playables[Url[node[t]]] = q
                                 /\ m_cached_playables'[Url[node[t]]] = 0
                     /\ q = 0 => m_cached_playables' = m_cached_playables
<1>. DEFINE n == node[t]
            v == victim[t]
            entries == IF found[t] # 0 THEN [m_cached_playables EXCEPT ![Url[n]] = 0]
                       ELSE m_cached_playables
<1>1. n \in Nodes /\ pc[t] = "stop" /\ Url[n] \in Urls \cup {0} /\ v \in Addresses
      /\ found[t] \in Addresses \cup {0} /\ 0 \notin Urls \cup Addresses
      /\ (found[t] = 0 => Find(n) = 0) /\ (can_cache[t] => Url[n] # 0)
  BY PlayerAssumption DEF FinishStop, Locals, LocalTypes
<1>2. CASE found[t] # 0 /\ found[t] # Find(n)
  <2>1. pc' = [pc EXCEPT ![t] = "undefined"] /\ UNCHANGED cache
    BY <1>2 DEF FinishStop, Go
  <2>. QED
    BY <1>1, <2>1 DEF cache
<1>3. CASE ~(found[t] # 0 /\ found[t] # Find(n))
  <2>0. m_playables' = m_playables
    BY <1>3 DEF FinishStop
  <2>1. found[t] = Find(n)
    BY <1>1, <1>3
  <2>2. entries \in [Urls -> Addresses \cup {0}]
    BY <1>1 DEF DataTypes
  <2>3. CASE can_cache[t]
    <3>1. /\ m_cached_playables' = [entries EXCEPT ![Url[n]] = v]
          /\ prefetched' = IF n \in Prefetch THEN prefetched \cup {Url[n]} ELSE prefetched \ {Url[n]}
          /\ pc' = [pc EXCEPT ![t] = IF n \in Prefetch THEN "exec" ELSE "schedule"]
      BY <1>3, <2>3 DEF FinishStop, Go
    <3>2. Url[n] \in Urls /\ found[t] = m_cached_playables[Url[n]]
      BY <1>1, <2>1, <2>3 DEF Find
    <3>3. m_cached_playables' = [m_cached_playables EXCEPT ![Url[n]] = v]
      BY <1>1, <3>1, <3>2 DEF DataTypes
    <3>4. \E really_stopped \in BOOLEAN :
            life' = [Free(Outdated(t)) EXCEPT ![v] =
                        IF n \in Continue /\ ~really_stopped THEN "continuing" ELSE "stopped"]
      BY <1>3, <2>3 DEF FinishStop
    <3>5. PICK s \in {"stopped", "continuing"} : life' = [Free(Outdated(t)) EXCEPT ![v] = s]
      BY <3>4
    <3>6. life' = [p \in Addresses |-> IF p = v THEN s
                     ELSE IF p = m_cached_playables[Url[n]] THEN "free" ELSE life[p]]
      BY <1>1, <3>2, <3>5 DEF Free, Outdated
    <3>. QED
      BY <1>1, <2>0, <2>3, <3>1, <3>2, <3>3, <3>6
  <2>4. CASE ~can_cache[t]
    <3>1. /\ m_cached_playables' = entries
          /\ prefetched' = {u \in prefetched : entries[u] # 0}
          /\ life' = Free(Outdated(t) \cup {v})
          /\ pc' = [pc EXCEPT ![t] = "exec"]
      BY <1>3, <2>4 DEF FinishStop, Go
    <3>2. prefetched' = {u \in prefetched : m_cached_playables'[u] # 0}
      BY <3>1
    <3>3. \A u \in Urls : \/ m_cached_playables'[u] = m_cached_playables[u]
                          \/ u = Url[n] /\ m_cached_playables'[u] = 0
      BY <1>1, <3>1 DEF DataTypes
    <3>4. PICK q \in Addresses \cup {0} : q = found[t]
      BY <1>1
    <3>5. life' = [p \in Addresses |-> IF p \in {v, q} THEN "free" ELSE life[p]]
      BY <1>1, <3>1, <3>4 DEF Free, Outdated
    <3>6. q # 0 => /\ Url[n] \in Urls /\ m_cached_playables[Url[n]] = q
                   /\ m_cached_playables'[Url[n]] = 0
      BY <1>1, <2>1, <3>1, <3>4 DEF Find, DataTypes
    <3>7. q = 0 => m_cached_playables' = m_cached_playables
      BY <3>1, <3>4
    <3>8. m_cached_playables' \in [Urls -> Addresses \cup {0}]
      BY <2>2, <3>1
    <3>. HIDE DEF entries
    <3>. QED
      BY <1>1, <2>0, <2>4, <3>1, <3>2, <3>3, <3>5, <3>6, <3>7, <3>8
  <2>. QED
    BY <2>3, <2>4
<1>. QED
  BY <1>2, <1>3

\* Every node is stopped.
LEMMA ResetTypes ==
  ASSUME DataTypes, ResetNodes
  PROVE  /\ nodes' \in [Nodes -> {"idle", "active", "filled"}]
         /\ m_playables' \in [Nodes -> Addresses \cup {0}]
         /\ m_cached_playables' \in [Urls -> Addresses \cup {0}] /\ prefetched' \in SUBSET Urls
         /\ life' \in [Addresses -> {"free", "playing", "stopped", "continuing", "lost"}]
         /\ linked' = linked
BY DEF DataTypes, ResetNodes, Free

LEMMA DataTypesStep ==
  ASSUME DataTypes, LocalTypes, Locals, [Next]_vars
  PROVE  DataTypes'
<1>1. ASSUME NEW t \in Threads, CreatePlayable(t) PROVE DataTypes'
  <2>1. PICK n \in Nodes : n = node[t]
    BY <1>1, CreateCases
  <2>2. CASE UNCHANGED cache
    BY <1>1, <2>2 DEF CreatePlayable, cache, graph, DataTypes
  <2>3. CASE ~UNCHANGED cache
    <3>1. PICK np \in Addresses :
            /\ m_playables' = [m_playables EXCEPT ![n] = np]
            /\ life' = [p \in Addresses |-> IF p = np THEN "playing"
                          ELSE IF p = m_playables[n] THEN "lost" ELSE life[p]]
            /\ \/ UNCHANGED <<m_cached_playables, prefetched>>
               \/ /\ Url[n] \in Urls
                  /\ m_cached_playables' = [m_cached_playables EXCEPT ![Url[n]] = 0]
                  /\ prefetched' = prefetched \ {Url[n]}
      <4>1. PICK np \in Addresses, f \in Addresses \cup {0}, l \in {"recreate", "exec"} :
              /\ m_playables' = [m_playables EXCEPT ![node[t]] = np]
              /\ life' = [p \in Addresses |-> IF p = np THEN "playing"
                            ELSE IF p = m_playables[node[t]] THEN "lost" ELSE life[p]]
              /\ \/ UNCHANGED <<m_cached_playables, prefetched>>
                 \/ /\ Url[node[t]] \in Urls
                    /\ m_cached_playables' = [m_cached_playables EXCEPT ![Url[node[t]]] = 0]
                    /\ prefetched' = prefetched \ {Url[node[t]]}
        BY <1>1, <2>3, CreateCases
      <4>. QED
        BY <2>1, <4>1
    <3>. QED
      BY <1>1, <3>1 DEF CreatePlayable, graph, DataTypes
  <2>. QED
    BY <2>2, <2>3
<1>2. ASSUME NEW t \in Threads, FinishStop(t) PROVE DataTypes'
  <2>1. /\ m_playables' = m_playables
        /\ m_cached_playables' \in [Urls -> Addresses \cup {0}] /\ prefetched' \in SUBSET Urls
        /\ life' \in [Addresses -> {"free", "playing", "stopped", "continuing", "lost"}]
    <3>. DEFINE n == node[t]
    <3>1. victim[t] \in Addresses
      BY <1>2, FinishCases
    <3>2. CASE UNCHANGED cache
      BY <3>2 DEF cache, DataTypes
    <3>3. CASE can_cache[t] /\ ~UNCHANGED cache
      <4>1. /\ Url[n] \in Urls /\ m_playables' = m_playables
            /\ m_cached_playables' = [m_cached_playables EXCEPT ![Url[n]] = victim[t]]
            /\ \/ prefetched' = prefetched \cup {Url[n]}
               \/ prefetched' = prefetched \ {Url[n]}
        BY <1>2, <3>3, FinishCases
      <4>2. PICK s \in {"stopped", "continuing"} :
                     life' = [p \in Addresses |->
                                IF p = victim[t] THEN s
                                ELSE IF p = m_cached_playables[Url[n]] THEN "free" ELSE life[p]]
        BY <1>2, <3>3, FinishCases
      <4>. HIDE DEF n
      <4>. QED
        BY <3>1, <4>1, <4>2 DEF DataTypes
    <3>4. CASE ~can_cache[t] /\ ~UNCHANGED cache
      <4>1. /\ m_playables' = m_playables
            /\ m_cached_playables' \in [Urls -> Addresses \cup {0}]
            /\ prefetched' = {u \in prefetched : m_cached_playables'[u] # 0}
        BY <1>2, <3>4, FinishCases
      <4>2. PICK q \in Addresses \cup {0} :
              life' = [p \in Addresses |-> IF p \in {victim[t], q} THEN "free" ELSE life[p]]
        BY <1>2, <3>4, FinishCases
      <4>. QED
        BY <4>1, <4>2 DEF DataTypes
    <3>. QED
      BY <3>2, <3>3, <3>4
  <2>. QED
    BY <1>2, <2>1 DEF FinishStop, graph, DataTypes
<1>3. ASSUME NEW t \in Threads, ScheduleDestroy(t) PROVE DataTypes'
  BY <1>3, PlayerAssumption DEF ScheduleDestroy, Go, Set, Find, graph, cache, locals, DataTypes,
     LocalTypes, Locals, Threads
<1>4. ASSUME NEW t \in Threads, TestLocked(t) PROVE DataTypes'
  BY <1>4, PlayerAssumption DEF TestLocked, Go, Set, Find, graph, cache, locals, DataTypes,
     LocalTypes, Locals, Threads
<1>5. ASSUME NEW t \in Threads, EnterExec(t) PROVE DataTypes'
  BY <1>5, PlayerAssumption DEF EnterExec, Go, Set, Find, graph, cache, locals, DataTypes,
     LocalTypes, Locals, Threads
<1>6. ASSUME NEW t \in Threads, EndRoot(t) PROVE DataTypes'
  BY <1>6, PlayerAssumption DEF EndRoot, InBatch, DonePlayback, Free, NoEntries, Go, Set, Find,
     graph, cache, locals, DataTypes, LocalTypes, Locals, Threads
<1>7. ASSUME NEW t \in Threads, LeaveExec(t) PROVE DataTypes'
  BY <1>7, PlayerAssumption DEF LeaveExec, Go, Set, Find, graph, cache, locals, DataTypes,
     LocalTypes, Locals, Threads
<1>8. ASSUME NEW t \in Threads, Continued(t) PROVE DataTypes'
  BY <1>8, PlayerAssumption DEF Continued, AfterExec, Go, Set, Find, graph, cache, locals,
     DataTypes, LocalTypes, Locals, Threads
<1>9. ASSUME NEW t \in Threads, ResetDocument(t) PROVE DataTypes'
  BY <1>9, PlayerAssumption DEF ResetDocument, ResetNodes, Free, Go, Set, Find, graph, cache,
     locals, DataTypes, LocalTypes, Locals, Threads
<1>10. ASSUME NEW t \in Threads, Leave(t) PROVE DataTypes'
  BY <1>10, PlayerAssumption DEF Leave, Released, Go, Set, Find, graph, cache, locals, DataTypes,
     LocalTypes, Locals, Threads
<1>11. ASSUME NEW t \in Threads, NEW n \in Nodes, BeginNode(t, n) PROVE DataTypes'
  BY <1>11, PlayerAssumption DEF BeginNode, InBatch, Go, Set, Find, graph, cache, locals,
     DataTypes, LocalTypes, Locals, Threads
<1>12. ASSUME NEW t \in Threads, NEW n \in Nodes, FillNode(t, n) PROVE DataTypes'
  BY <1>12, PlayerAssumption DEF FillNode, InBatch, Go, Set, Find, graph, cache, locals,
     DataTypes, LocalTypes, Locals, Threads
<1>13. ASSUME NEW t \in Threads, NEW n \in Nodes, StopNode(t, n) PROVE DataTypes'
  BY <1>13, PlayerAssumption DEF StopNode, InBatch, StopPlayable, Go, Set, Find, graph, cache,
     locals, DataTypes, LocalTypes, Locals, Threads
<1>14. CASE Update
  BY <1>14, PlayerAssumption DEF Update, Go, Set, Find, graph, cache, locals, DataTypes,
     LocalTypes, Locals, Threads
<1>15. CASE LockUpdate
  BY <1>15, PlayerAssumption DEF LockUpdate, Go, Set, Find, graph, cache, locals, DataTypes,
     LocalTypes, Locals, Threads
<1>16. CASE TransitionedAsync
  <2>1. CASE nodes[node["worker"]] = "filled"
    <3>1. StopPlayable("worker", node["worker"]) /\ node["worker"] \in Nodes
      BY <1>16, <2>1 DEF TransitionedAsync, Locals, Threads
    <3>. QED
      BY <1>16, <3>1 DEF TransitionedAsync, StopPlayable, DataTypes, Threads
  <2>2. CASE nodes[node["worker"]] # "filled"
    BY <1>16, <2>2 DEF TransitionedAsync, cache, DataTypes, Threads
  <2>. QED
    BY <2>1, <2>2
<1>17. CASE Goto
  <2>1. CASE ResetNodes /\ m_state' = "playing"
    BY <1>17, <2>1, ResetTypes DEF Goto, DataTypes, Threads
  <2>2. CASE UNCHANGED <<nodes, linked, cache>> /\ m_state' \in {m_state, "playing"}
    BY <1>17, <2>2 DEF Goto, cache, DataTypes, Threads
  <2>. QED
    BY <1>17, <2>1, <2>2 DEF Goto
<1>18. CASE DestroyPlayableInCache
  BY <1>18, PlayerAssumption DEF DestroyPlayableInCache, Free, Reclaimed, Go, Set, Find, graph,
     cache, locals, DataTypes, LocalTypes, Locals, Threads
<1>19. CASE StartRoot
  <2>1. CASE root = "active"
    BY <1>19, <2>1, ResetTypes DEF StartRoot, DataTypes, Threads
  <2>2. CASE root # "active"
    BY <1>19, <2>2 DEF StartRoot, cache, DataTypes, Threads
  <2>. QED
    BY <2>1, <2>2
<1>20. CASE StopLock
  BY <1>20, PlayerAssumption DEF StopLock, Go, Set, Find, graph, cache, locals, DataTypes,
     LocalTypes, Locals, Threads
<1>21. CASE StopReset
  BY <1>21, PlayerAssumption DEF StopReset, ResetNodes, Free, Go, Set, Find, graph, cache, locals,
     DataTypes, LocalTypes, Locals, Threads
<1>22. CASE StopDone
  BY <1>22, PlayerAssumption DEF StopDone, DonePlayback, Free, NoEntries, Go, Set, Find, graph,
     cache, locals, DataTypes, LocalTypes, Locals, Threads
<1>23. CASE Start
  BY <1>23, PlayerAssumption DEF Start, Command, Go, Set, Find, graph, cache, locals, DataTypes,
     LocalTypes, Locals, Threads
<1>24. CASE Pause
  BY <1>24, PlayerAssumption DEF Pause, Command, Go, Set, Find, graph, cache, locals, DataTypes,
     LocalTypes, Locals, Threads
<1>25. CASE Resume
  BY <1>25, PlayerAssumption DEF Resume, Command, Go, Set, Find, graph, cache, locals, DataTypes,
     LocalTypes, Locals, Threads
<1>26. CASE Stop
  BY <1>26, PlayerAssumption DEF Stop, Command, Free, NoEntries, Go, Set, Find, graph, cache,
     locals, DataTypes, LocalTypes, Locals, Threads
<1>27. CASE Clicked
  BY <1>27, PlayerAssumption DEF Clicked, Go, Set, Find, graph, cache, locals, DataTypes,
     LocalTypes, Locals, Threads
<1>28. ASSUME NEW n \in Nodes, Transitioned(n) PROVE DataTypes'
  BY <1>28, PlayerAssumption DEF Transitioned, Go, Set, Find, graph, cache, locals, DataTypes,
     LocalTypes, Locals, Threads
<1>29. ASSUME NEW e \in BagToSet(destroys), Destroy(e) PROVE DataTypes'
  BY <1>29, PlayerAssumption DEF Destroy, Go, Set, Find, graph, cache, locals, DataTypes,
     LocalTypes, Locals, Threads
<1>30. CASE UNCHANGED vars
  BY <1>30 DEF vars, Go, Set, Find, graph, cache, locals, DataTypes, LocalTypes, Locals, Threads
<1>. QED
  BY <1>1, <1>2, <1>3, <1>4, <1>5, <1>6, <1>7, <1>8, <1>9, <1>10, <1>11, <1>12, <1>13, <1>14,
     <1>15, <1>16, <1>17, <1>18, <1>19, <1>20, <1>21, <1>22, <1>23, <1>24, <1>25, <1>26, <1>27,
     <1>28, <1>29, <1>30 DEF Next, ThreadStep, WorkerStep, GuiStep, Request

\* Resetting adds events, and keeps those there are.
LEMMA ResetEvents ==
  ASSUME DataTypes, Events, ResetNodes
  PROVE  Events' /\ BagToSet(destroys) \subseteq BagToSet(destroys')
<1>. DEFINE added == {<<n, m_playables[n]>> :
                       n \in {k \in {m \in Nodes : m_playables[m] # 0} : Url[k] # 0 /\ k \notin Prefetch}}
<1>1. CASE destroys' = destroys
  BY <1>1 DEF Events
<1>2. CASE destroys' = destroys (+) SetToBag(added)
  <2>1. added \in SUBSET (Nodes \X Addresses)
    BY DEF DataTypes
  <2>. HIDE DEF added
  <2>2. IsABag(SetToBag(added)) /\ BagToSet(SetToBag(added)) = added
    BY BagFacts
  <2>3. IsABag(destroys') /\ BagToSet(destroys') = BagToSet(destroys) \cup added
    BY <1>2, <2>2, BagFacts, BagSum DEF Events
  <2>. QED
    BY <2>1, <2>3 DEF Events
<1>. QED
  BY <1>1, <1>2 DEF ResetNodes

LEMMA EventsStep ==
  ASSUME DataTypes, LocalTypes, Locals, Events, [Next]_vars
  PROVE  Events'
<1>1. ASSUME NEW t \in Threads, CreatePlayable(t) PROVE Events'
  BY <1>1 DEF CreatePlayable, Events
<1>2. ASSUME NEW t \in Threads, FinishStop(t) PROVE Events'
  BY <1>2 DEF FinishStop, Events
<1>3. ASSUME NEW t \in Threads, ScheduleDestroy(t) PROVE Events'
  <2>1. PICK e \in Nodes \X Addresses : e = <<node[t], victim[t]>>
    BY <1>3 DEF ScheduleDestroy, Locals
  <2>2. destroys' = destroys (+) SetToBag({e})
    BY <1>3, <2>1 DEF ScheduleDestroy
  <2>3. IsABag(SetToBag({e})) /\ BagToSet(SetToBag({e})) = {e}
    BY BagFacts
  <2>4. IsABag(destroys') /\ BagToSet(destroys') = BagToSet(destroys) \cup {e}
    BY <2>2, <2>3, BagFacts, BagSum DEF Events
  <2>. QED
    BY <2>1, <2>4 DEF Events
<1>4. ASSUME NEW t \in Threads, TestLocked(t) PROVE Events'
  BY <1>4 DEF TestLocked, Events
<1>5. ASSUME NEW t \in Threads, EnterExec(t) PROVE Events'
  BY <1>5 DEF EnterExec, Events
<1>6. ASSUME NEW t \in Threads, EndRoot(t) PROVE Events'
  BY <1>6 DEF EndRoot, InBatch, DonePlayback, Free, NoEntries, Events
<1>7. ASSUME NEW t \in Threads, LeaveExec(t) PROVE Events'
  BY <1>7 DEF LeaveExec, Events
<1>8. ASSUME NEW t \in Threads, Continued(t) PROVE Events'
  BY <1>8 DEF Continued, AfterExec, Events
<1>9. ASSUME NEW t \in Threads, ResetDocument(t) PROVE Events'
  <2>1. ResetNodes
    BY <1>9 DEF ResetDocument
  <2>. QED
    BY <2>1, ResetEvents
<1>10. ASSUME NEW t \in Threads, Leave(t) PROVE Events'
  BY <1>10 DEF Leave, Events
<1>11. ASSUME NEW t \in Threads, NEW n \in Nodes, BeginNode(t, n) PROVE Events'
  BY <1>11 DEF BeginNode, InBatch, Events
<1>12. ASSUME NEW t \in Threads, NEW n \in Nodes, FillNode(t, n) PROVE Events'
  BY <1>12 DEF FillNode, InBatch, Events
<1>13. ASSUME NEW t \in Threads, NEW n \in Nodes, StopNode(t, n) PROVE Events'
  BY <1>13 DEF StopNode, InBatch, StopPlayable, Events
<1>14. CASE Update
  BY <1>14 DEF Update, Events
<1>15. CASE LockUpdate
  BY <1>15 DEF LockUpdate, Events
<1>16. CASE TransitionedAsync
  BY <1>16 DEF TransitionedAsync, StopPlayable, Events
<1>17. CASE Goto
  <2>1. CASE ResetNodes
    BY <2>1, ResetEvents
  <2>2. CASE destroys' = destroys
    BY <2>2 DEF Events
  <2>. QED
    BY <1>17, <2>1, <2>2 DEF Goto
<1>18. CASE DestroyPlayableInCache
  BY <1>18 DEF DestroyPlayableInCache, Events
<1>19. CASE StartRoot
  <2>1. CASE ResetNodes
    BY <2>1, ResetEvents
  <2>2. CASE destroys' = destroys
    BY <2>2 DEF Events
  <2>. QED
    BY <1>19, <2>1, <2>2 DEF StartRoot
<1>20. CASE StopLock
  <2>1. CASE destroys' = destroys
    BY <2>1 DEF Events
  <2>2. CASE destroys' \in PartsOf(destroys)
    <3>1. destroys' \sqsubseteq destroys
          /\ \E S \in SUBSET BagToSet(destroys) : destroys' \in [S -> 1..BagCardinality(destroys)]
      BY <2>2 DEF PartsOf
    <3>2. PICK S \in SUBSET BagToSet(destroys) : destroys' \in [S -> 1..BagCardinality(destroys)]
      BY <3>1
    <3>3. IsABag(destroys') /\ BagToSet(destroys') = S
      BY <3>2 DEF IsABag, BagToSet
    <3>. QED
      BY <3>3 DEF Events
  <2>. QED
    BY <1>20, <2>1, <2>2 DEF StopLock
<1>21. CASE StopReset
  <2>1. ResetNodes
    BY <1>21 DEF StopReset
  <2>. QED
    BY <2>1, ResetEvents
<1>22. CASE StopDone
  BY <1>22 DEF StopDone, DonePlayback, Free, NoEntries, Events
<1>23. CASE Start
  BY <1>23 DEF Start, Command, Events
<1>24. CASE Pause
  BY <1>24 DEF Pause, Command, Events
<1>25. CASE Resume
  BY <1>25 DEF Resume, Command, Events
<1>26. CASE Stop
  BY <1>26 DEF Stop, Command, Free, NoEntries, Events
<1>27. CASE Clicked
  BY <1>27 DEF Clicked, Events
<1>28. ASSUME NEW n \in Nodes, Transitioned(n) PROVE Events'
  BY <1>28 DEF Transitioned, Events
<1>29. ASSUME NEW e \in BagToSet(destroys), Destroy(e) PROVE Events'
  <2>1. destroys' = destroys (-) SetToBag({e})
    BY <1>29 DEF Destroy
  <2>2. IsABag(SetToBag({e}))
    BY BagFacts
  <2>3. IsABag(destroys') /\ BagToSet(destroys') \subseteq BagToSet(destroys)
    BY <2>1, <2>2, BagFacts, BagDifference DEF Events
  <2>. QED
    BY <2>3 DEF Events
<1>30. CASE UNCHANGED vars
  BY <1>30 DEF vars, graph, cache, locals, Events
<1>. QED
  BY <1>1, <1>2, <1>3, <1>4, <1>5, <1>6, <1>7, <1>8, <1>9, <1>10, <1>11, <1>12, <1>13, <1>14,
     <1>15, <1>16, <1>17, <1>18, <1>19, <1>20, <1>21, <1>22, <1>23, <1>24, <1>25, <1>26, <1>27,
     <1>28, <1>29, <1>30 DEF Next, ThreadStep, WorkerStep, GuiStep, Request

\* A thread goes on.
LEMMA GoTypes ==
  ASSUME LocalTypes, NEW t \in Threads, NEW l \in Labels, pc' = [pc EXCEPT ![t] = l]
  PROVE  DOMAIN pc' = Threads /\ pc'["gui"] \in GuiLabels /\ pc'["worker"] \in WorkerLabels
BY DEF LocalTypes, Threads, GuiLabels, WorkerLabels

LEMMA LocalTypesStep ==
  ASSUME DataTypes, LocalTypes, Locals, Events, [Next]_vars
  PROVE  LocalTypes'
<1>1. ASSUME NEW t \in Threads, CreatePlayable(t) PROVE LocalTypes'
  <2>1. PICK l \in {"undefined", "recreate", "exec"} : pc' = [pc EXCEPT ![t] = l]
    BY <1>1, CreateCases
  <2>2. found' \in [Threads -> Addresses \cup {0}]
    <3>1. CASE found' = found
      BY <3>1 DEF LocalTypes
    <3>2. CASE \E f \in Addresses \cup {0} : found' = [found EXCEPT ![t] = f]
      BY <3>2 DEF LocalTypes
    <3>. QED
      BY <1>1, <3>1, <3>2, CreateCases
  <2>3. DOMAIN pc' = Threads /\ pc'["gui"] \in GuiLabels /\ pc'["worker"] \in WorkerLabels
    BY <2>1, GoTypes DEF Labels
  <2>. QED
    BY <1>1, <2>2, <2>3 DEF CreatePlayable, LocalTypes
<1>2. ASSUME NEW t \in Threads, FinishStop(t) PROVE LocalTypes'
  <2>1. PICK l \in {"undefined", "schedule", "exec"} : pc' = [pc EXCEPT ![t] = l]
    BY <1>2, FinishCases
  <2>2. DOMAIN pc' = Threads /\ pc'["gui"] \in GuiLabels /\ pc'["worker"] \in WorkerLabels
    BY <2>1, GoTypes DEF Labels
  <2>. QED
    BY <1>2, <2>2 DEF FinishStop, LocalTypes
<1>3. ASSUME NEW t \in Threads, ScheduleDestroy(t) PROVE LocalTypes'
  BY <1>3, PlayerAssumption DEF ScheduleDestroy, Go, Set, Find, locals, DataTypes, LocalTypes,
     Locals, Events, Threads, Labels, GuiLabels, WorkerLabels
<1>4. ASSUME NEW t \in Threads, TestLocked(t) PROVE LocalTypes'
  BY <1>4, PlayerAssumption DEF TestLocked, Go, Set, Find, locals, DataTypes, LocalTypes, Locals,
     Events, Threads, Labels, GuiLabels, WorkerLabels
<1>5. ASSUME NEW t \in Threads, EnterExec(t) PROVE LocalTypes'
  BY <1>5, PlayerAssumption DEF EnterExec, Go, Set, Find, locals, DataTypes, LocalTypes, Locals,
     Events, Threads, Labels, GuiLabels, WorkerLabels
<1>6. ASSUME NEW t \in Threads, EndRoot(t) PROVE LocalTypes'
  BY <1>6, PlayerAssumption DEF EndRoot, InBatch, DonePlayback, Free, NoEntries, Go, Set, Find,
     locals, DataTypes, LocalTypes, Locals, Events, Threads, Labels, GuiLabels, WorkerLabels
<1>7. ASSUME NEW t \in Threads, LeaveExec(t) PROVE LocalTypes'
  BY <1>7, PlayerAssumption DEF LeaveExec, Go, Set, Find, locals, DataTypes, LocalTypes, Locals,
     Events, Threads, Labels, GuiLabels, WorkerLabels
<1>8. ASSUME NEW t \in Threads, Continued(t) PROVE LocalTypes'
  BY <1>8, PlayerAssumption DEF Continued, AfterExec, Go, Set, Find, locals, DataTypes,
     LocalTypes, Locals, Events, Threads, Labels, GuiLabels, WorkerLabels
<1>9. ASSUME NEW t \in Threads, ResetDocument(t) PROVE LocalTypes'
  BY <1>9, PlayerAssumption DEF ResetDocument, ResetNodes, Free, Go, Set, Find, locals, DataTypes,
     LocalTypes, Locals, Events, Threads, Labels, GuiLabels, WorkerLabels
<1>10. ASSUME NEW t \in Threads, Leave(t) PROVE LocalTypes'
  BY <1>10, PlayerAssumption DEF Leave, Released, Go, Set, Find, locals, DataTypes, LocalTypes,
     Locals, Events, Threads, Labels, GuiLabels, WorkerLabels
<1>11. ASSUME NEW t \in Threads, NEW n \in Nodes, BeginNode(t, n) PROVE LocalTypes'
  BY <1>11, PlayerAssumption, ZenonT(40) DEF BeginNode, InBatch, Go, Set, Find, locals, DataTypes, LocalTypes,
     Locals, Events, Threads, Labels, GuiLabels, WorkerLabels
<1>12. ASSUME NEW t \in Threads, NEW n \in Nodes, FillNode(t, n) PROVE LocalTypes'
  BY <1>12, PlayerAssumption DEF FillNode, InBatch, Go, Set, Find, locals, DataTypes, LocalTypes,
     Locals, Events, Threads, Labels, GuiLabels, WorkerLabels
<1>13. ASSUME NEW t \in Threads, NEW n \in Nodes, StopNode(t, n) PROVE LocalTypes'
  BY <1>13, PlayerAssumption, ZenonT(40) DEF StopNode, InBatch, StopPlayable, Go, Set, Find, locals,
     DataTypes, LocalTypes, Locals, Events, Threads, Labels, GuiLabels, WorkerLabels
<1>14. CASE Update
  BY <1>14, PlayerAssumption DEF Update, Go, Set, Find, locals, DataTypes, LocalTypes, Locals,
     Events, Threads, Labels, GuiLabels, WorkerLabels
<1>15. CASE LockUpdate
  BY <1>15, PlayerAssumption DEF LockUpdate, Go, Set, Find, locals, DataTypes, LocalTypes, Locals,
     Events, Threads, Labels, GuiLabels, WorkerLabels
<1>16. CASE TransitionedAsync
  <2>. DEFINE n == node["worker"]
  <2>1. n \in Nodes /\ "worker" \in Threads
    BY <1>16 DEF TransitionedAsync, Locals, Threads
  <2>2. ret' = [ret EXCEPT !["worker"] = "transitioned"]
    BY <1>16 DEF TransitionedAsync, Set
  <2>3. CASE nodes[n] = "filled"
    <3>1. StopPlayable("worker", n)
      BY <1>16, <2>3 DEF TransitionedAsync
    <3>2. PICK l \in {"stop", "exec"} : pc' = [pc EXCEPT !["worker"] = l]
      BY <3>1 DEF StopPlayable, Go
    <3>3. PICK f \in Addresses \cup {0}, p \in Addresses \cup {0} : f = Find(n) /\ p = m_playables[n]
      BY <2>1, PlayerAssumption DEF Find, DataTypes
    <3>4. PICK b \in BOOLEAN : b = (m_state # "done" /\ Url[n] # 0)
      OBVIOUS
    <3>5. /\ node' = [node EXCEPT !["worker"] = n] /\ victim' = [victim EXCEPT !["worker"] = p]
          /\ found' = [found EXCEPT !["worker"] = f] /\ can_cache' = [can_cache EXCEPT !["worker"] = b]
      BY <3>1, <3>3, <3>4 DEF StopPlayable, Set
    <3>6. DOMAIN pc' = Threads /\ pc'["gui"] \in GuiLabels /\ pc'["worker"] \in WorkerLabels
      BY <2>1, <3>2, GoTypes DEF Labels
    <3>. HIDE DEF n
    <3>. QED
      BY <2>1, <2>2, <3>5, <3>6 DEF LocalTypes
  <2>4. CASE nodes[n] # "filled"
    BY <1>16, <2>4 DEF TransitionedAsync, LocalTypes, Threads, Go, Set, Labels, GuiLabels,
       WorkerLabels
  <2>. QED
    BY <2>3, <2>4
<1>17. CASE Goto
  BY <1>17, PlayerAssumption DEF Goto, ResetNodes, Free, Go, Set, Find, locals, DataTypes,
     LocalTypes, Locals, Events, Threads, Labels, GuiLabels, WorkerLabels
<1>18. CASE DestroyPlayableInCache
  BY <1>18, PlayerAssumption DEF DestroyPlayableInCache, Free, Reclaimed, Go, Set, Find, locals,
     DataTypes, LocalTypes, Locals, Events, Threads, Labels, GuiLabels, WorkerLabels
<1>19. CASE StartRoot
  BY <1>19, PlayerAssumption DEF StartRoot, ResetNodes, Free, Go, Set, Find, locals, DataTypes,
     LocalTypes, Locals, Events, Threads, Labels, GuiLabels, WorkerLabels
<1>20. CASE StopLock
  BY <1>20, PlayerAssumption DEF StopLock, Go, Set, Find, locals, DataTypes, LocalTypes, Locals,
     Events, Threads, Labels, GuiLabels, WorkerLabels
<1>21. CASE StopReset
  BY <1>21, PlayerAssumption DEF StopReset, ResetNodes, Free, Go, Set, Find, locals, DataTypes,
     LocalTypes, Locals, Events, Threads, Labels, GuiLabels, WorkerLabels
<1>22. CASE StopDone
  BY <1>22, PlayerAssumption DEF StopDone, DonePlayback, Free, NoEntries, Go, Set, Find, locals,
     DataTypes, LocalTypes, Locals, Events, Threads, Labels, GuiLabels, WorkerLabels
<1>23. CASE Start
  BY <1>23, PlayerAssumption DEF Start, Command, Go, Set, Find, locals, DataTypes, LocalTypes,
     Locals, Events, Threads, Labels, GuiLabels, WorkerLabels
<1>24. CASE Pause
  BY <1>24, PlayerAssumption DEF Pause, Command, Go, Set, Find, locals, DataTypes, LocalTypes,
     Locals, Events, Threads, Labels, GuiLabels, WorkerLabels
<1>25. CASE Resume
  BY <1>25, PlayerAssumption DEF Resume, Command, Go, Set, Find, locals, DataTypes, LocalTypes,
     Locals, Events, Threads, Labels, GuiLabels, WorkerLabels
<1>26. CASE Stop
  BY <1>26, PlayerAssumption DEF Stop, Command, Free, NoEntries, Go, Set, Find, locals, DataTypes,
     LocalTypes, Locals, Events, Threads, Labels, GuiLabels, WorkerLabels
<1>27. CASE Clicked
  BY <1>27, PlayerAssumption DEF Clicked, Go, Set, Find, locals, DataTypes, LocalTypes, Locals,
     Events, Threads, Labels, GuiLabels, WorkerLabels
<1>28. ASSUME NEW n \in Nodes, Transitioned(n) PROVE LocalTypes'
  BY <1>28, PlayerAssumption DEF Transitioned, Go, Set, Find, locals, DataTypes, LocalTypes,
     Locals, Events, Threads, Labels, GuiLabels, WorkerLabels
<1>29. ASSUME NEW e \in BagToSet(destroys), Destroy(e) PROVE LocalTypes'
  BY <1>29, PlayerAssumption DEF Destroy, Go, Set, Find, locals, DataTypes, LocalTypes, Locals,
     Events, Threads, Labels, GuiLabels, WorkerLabels
<1>30. CASE UNCHANGED vars
  BY <1>30 DEF vars, graph, cache, locals, Go, Set, Find, locals, DataTypes, LocalTypes, Locals,
     Events, Threads, Labels, GuiLabels, WorkerLabels
<1>. QED
  BY <1>1, <1>2, <1>3, <1>4, <1>5, <1>6, <1>7, <1>8, <1>9, <1>10, <1>11, <1>12, <1>13, <1>14,
     <1>15, <1>16, <1>17, <1>18, <1>19, <1>20, <1>21, <1>22, <1>23, <1>24, <1>25, <1>26, <1>27,
     <1>28, <1>29, <1>30 DEF Next, ThreadStep, WorkerStep, GuiStep, Request

\* A thread goes on to where it holds no playable, and nothing else changes
\* for the other one.
LEMMA GoLocals ==
  ASSUME LocalTypes, Locals, NEW t \in Threads, NEW l \in Labels \cup GuiLabels,
         l \notin {"create", "stop", "schedule"}, l \in Busy => sched = t,
         l = "recreate" => node[t] \in Nodes,
         pc' = [pc EXCEPT ![t] = l], UNCHANGED <<sched, node, victim, can_cache>>,
         \A k \in Threads : k # t /\ pc[k] = "stop" => found'[k] = found[k] /\ UNCHANGED m_cached_playables
  PROVE  Locals'
<1>. SUFFICES ASSUME NEW k \in Threads
     PROVE  /\ pc'[k] \in Busy => sched' = k
            /\ pc'[k] \in {"create", "recreate", "stop", "schedule", "destroy", "transitioned"} =>
                  node'[k] \in Nodes
            /\ pc'[k] \in {"stop", "schedule", "destroy"} => victim'[k] \in Addresses
            /\ pc'[k] = "stop" => (found'[k] = 0 => (Find(node[k]))' = 0)
            /\ pc'[k] = "stop" /\ can_cache'[k] => Url[node'[k]] # 0
  BY DEF Locals, Find
<1>1. CASE k = t
  BY <1>1 DEF LocalTypes, Labels, GuiLabels
<1>2. CASE k # t
  BY <1>2 DEF Locals, LocalTypes, Find
<1>. QED
  BY <1>1, <1>2

LEMMA LocalsStep ==
  ASSUME DataTypes, LocalTypes, Locals, Events, [Next]_vars
  PROVE  Locals'
<1>1. ASSUME NEW t \in Threads, CreatePlayable(t) PROVE Locals'
  <2>1. PICK l \in {"undefined", "recreate", "exec"} : pc' = [pc EXCEPT ![t] = l]
    BY <1>1, CreateCases
  <2>2. sched = t /\ node[t] \in Nodes /\ \A k \in Threads : k # t => pc[k] # "stop"
    BY <1>1 DEF CreatePlayable, Locals, Busy
  <2>. QED
    BY <1>1, <2>1, <2>2, GoLocals DEF CreatePlayable, Labels, Busy
<1>2. ASSUME NEW t \in Threads, FinishStop(t) PROVE Locals'
  <2>1. PICK l \in {"undefined", "exec"} \cup {"schedule"} : pc' = [pc EXCEPT ![t] = l]
    BY <1>2, FinishCases
  <2>2. sched = t /\ node[t] \in Nodes /\ victim[t] \in Addresses
        /\ \A k \in Threads : k # t => pc[k] # "stop"
    BY <1>2 DEF FinishStop, Locals, Busy
  <2>3. pc'[t] = l /\ \A k \in Threads : k # t => pc'[k] = pc[k]
    BY <2>1 DEF LocalTypes
  <2>4. UNCHANGED <<sched, node, victim, can_cache>>
    BY <1>2 DEF FinishStop
  <2>. QED
    BY <2>1, <2>2, <2>3, <2>4 DEF Locals
<1>3. ASSUME NEW t \in Threads, ScheduleDestroy(t) PROVE Locals'
  BY <1>3, PlayerAssumption DEF ScheduleDestroy, Go, Set, Find, cache, graph, DataTypes,
     LocalTypes, Locals, Events, Threads, Busy, None
<1>4. ASSUME NEW t \in Threads, TestLocked(t) PROVE Locals'
  BY <1>4, PlayerAssumption DEF TestLocked, Go, Set, Find, cache, graph, DataTypes, LocalTypes,
     Locals, Events, Threads, Busy, None
<1>5. ASSUME NEW t \in Threads, EnterExec(t) PROVE Locals'
  BY <1>5, PlayerAssumption DEF EnterExec, Go, Set, Find, cache, graph, DataTypes, LocalTypes,
     Locals, Events, Threads, Busy, None
<1>6. ASSUME NEW t \in Threads, EndRoot(t) PROVE Locals'
  BY <1>6, PlayerAssumption DEF EndRoot, InBatch, DonePlayback, Free, NoEntries, Go, Set, Find,
     cache, graph, DataTypes, LocalTypes, Locals, Events, Threads, Busy, None
<1>7. ASSUME NEW t \in Threads, LeaveExec(t) PROVE Locals'
  BY <1>7, PlayerAssumption DEF LeaveExec, Go, Set, Find, cache, graph, DataTypes, LocalTypes,
     Locals, Events, Threads, Busy, None
<1>8. ASSUME NEW t \in Threads, Continued(t) PROVE Locals'
  BY <1>8, PlayerAssumption DEF Continued, AfterExec, Go, Set, Find, cache, graph, DataTypes,
     LocalTypes, Locals, Events, Threads, Busy, None
<1>9. ASSUME NEW t \in Threads, ResetDocument(t) PROVE Locals'
  BY <1>9, PlayerAssumption DEF ResetDocument, ResetNodes, Free, Go, Set, Find, cache, graph,
     DataTypes, LocalTypes, Locals, Events, Threads, Busy, None
<1>10. ASSUME NEW t \in Threads, Leave(t) PROVE Locals'
  BY <1>10, PlayerAssumption DEF Leave, Released, Go, Set, Find, cache, graph, DataTypes,
     LocalTypes, Locals, Events, Threads, Busy, None
<1>11. ASSUME NEW t \in Threads, NEW n \in Nodes, BeginNode(t, n) PROVE Locals'
  BY <1>11, PlayerAssumption DEF BeginNode, InBatch, Go, Set, Find, cache, graph, DataTypes,
     LocalTypes, Locals, Events, Threads, Busy, None
<1>12. ASSUME NEW t \in Threads, NEW n \in Nodes, FillNode(t, n) PROVE Locals'
  BY <1>12, PlayerAssumption DEF FillNode, InBatch, Go, Set, Find, cache, graph, DataTypes,
     LocalTypes, Locals, Events, Threads, Busy, None
<1>13. ASSUME NEW t \in Threads, NEW n \in Nodes, StopNode(t, n) PROVE Locals'
  BY <1>13, PlayerAssumption DEF StopNode, InBatch, StopPlayable, Go, Set, Find, cache, graph,
     DataTypes, LocalTypes, Locals, Events, Threads, Busy, None
<1>14. CASE Update
  BY <1>14, PlayerAssumption DEF Update, Go, Set, Find, cache, graph, DataTypes, LocalTypes,
     Locals, Events, Threads, Busy, None
<1>15. CASE LockUpdate
  BY <1>15, PlayerAssumption DEF LockUpdate, Go, Set, Find, cache, graph, DataTypes, LocalTypes,
     Locals, Events, Threads, Busy, None
<1>16. CASE TransitionedAsync
  <2>. DEFINE n == node["worker"]
  <2>1. n \in Nodes /\ "worker" \in Threads /\ sched' = "worker"
        /\ \A k \in Threads : pc[k] \notin Busy
    BY <1>16 DEF TransitionedAsync, Locals, Threads, None
  <2>2. CASE nodes[n] = "filled"
    <3>1. StopPlayable("worker", n)
      BY <1>16, <2>2 DEF TransitionedAsync
    <3>2. PICK f, p : f = Find(n) /\ p = m_playables[n]
      OBVIOUS
    <3>3. PICK b : b = (m_state # "done" /\ Url[n] # 0)
      OBVIOUS
    <3>4. /\ node' = [node EXCEPT !["worker"] = n] /\ victim' = [victim EXCEPT !["worker"] = p]
          /\ found' = [found EXCEPT !["worker"] = f] /\ can_cache' = [can_cache EXCEPT !["worker"] = b]
          /\ pc' = [pc EXCEPT !["worker"] = IF p = 0 THEN "exec" ELSE "stop"]
          /\ m_cached_playables' = m_cached_playables
      BY <3>1, <3>2, <3>3 DEF StopPlayable, Set, Go
    <3>5. /\ node'["worker"] = n /\ victim'["worker"] = p /\ found'["worker"] = f
          /\ can_cache'["worker"] = b /\ pc'["worker"] \in {"exec", "stop"}
          /\ pc'["worker"] = "stop" => p # 0
      BY <2>1, <3>4 DEF LocalTypes
    <3>6. pc'["gui"] = pc["gui"] /\ node'["gui"] = node["gui"] /\ victim'["gui"] = victim["gui"]
      BY <3>4 DEF LocalTypes, Threads
    <3>7. pc["gui"] \notin Busy /\ Threads = {"gui", "worker"}
      BY <2>1 DEF Threads
    <3>8. (Find(n))' = Find(n) /\ (p # 0 => p \in Addresses)
      BY <2>1, <3>2, <3>4 DEF Find, DataTypes
    <3>9. /\ pc'["worker"] \in {"create", "recreate", "stop", "schedule", "destroy", "transitioned"} =>
                  node'["worker"] \in Nodes
          /\ pc'["worker"] \in {"stop", "schedule", "destroy"} => victim'["worker"] \in Addresses
          /\ pc'["worker"] = "stop" => (found'["worker"] = 0 => (Find(node["worker"]))' = 0)
          /\ pc'["worker"] = "stop" /\ can_cache'["worker"] => Url[node'["worker"]] # 0
      BY <2>1, <3>2, <3>3, <3>4, <3>5, <3>8 DEF Find
    <3>. HIDE DEF n
    <3>. QED
      BY <2>1, <3>6, <3>7, <3>9 DEF Locals, Busy
  <2>3. CASE nodes[n] # "filled"
    BY <1>16, <2>1, <2>3 DEF TransitionedAsync, LocalTypes, Threads, Go, Set, Locals, Busy
  <2>. QED
    BY <2>2, <2>3
<1>17. CASE Goto
  BY <1>17, PlayerAssumption DEF Goto, ResetNodes, Free, Go, Set, Find, cache, graph, DataTypes,
     LocalTypes, Locals, Events, Threads, Busy, None
<1>18. CASE DestroyPlayableInCache
  BY <1>18, PlayerAssumption DEF DestroyPlayableInCache, Free, Reclaimed, Go, Set, Find, cache,
     graph, DataTypes, LocalTypes, Locals, Events, Threads, Busy, None
<1>19. CASE StartRoot
  BY <1>19, PlayerAssumption DEF StartRoot, ResetNodes, Free, Go, Set, Find, cache, graph,
     DataTypes, LocalTypes, Locals, Events, Threads, Busy, None
<1>20. CASE StopLock
  <2>1. PICK l \in {"stopReset", "idle"} : pc' = [pc EXCEPT !["gui"] = l]
    BY <1>20 DEF StopLock, Go
  <2>2. "gui" \in Threads /\ UNCHANGED <<sched, node, victim, found, can_cache, m_cached_playables>>
    BY <1>20 DEF StopLock, Threads, cache
  <2>. QED
    BY <2>1, <2>2, GoLocals DEF Labels, GuiLabels, Busy
<1>21. CASE StopReset
  BY <1>21, PlayerAssumption DEF StopReset, ResetNodes, Free, Go, Set, Find, cache, graph,
     DataTypes, LocalTypes, Locals, Events, Threads, Busy, None
<1>22. CASE StopDone
  BY <1>22, PlayerAssumption DEF StopDone, DonePlayback, Free, NoEntries, Go, Set, Find, cache,
     graph, DataTypes, LocalTypes, Locals, Events, Threads, Busy, None
<1>23. CASE Start
  <2>1. UNCHANGED <<sched, node, victim, found, can_cache, m_cached_playables>> /\ "gui" \in Threads
    BY <1>23 DEF Start, Command, Threads, cache
  <2>2. CASE pc' = pc
    BY <2>1, <2>2 DEF Locals, Find
  <2>3. CASE pc' = [pc EXCEPT !["gui"] = "start"]
    BY <2>1, <2>3, GoLocals DEF Labels, GuiLabels, Busy
  <2>. QED
    BY <1>23, <2>2, <2>3 DEF Start, Go
<1>24. CASE Pause
  BY <1>24, PlayerAssumption DEF Pause, Command, Go, Set, Find, cache, graph, DataTypes,
     LocalTypes, Locals, Events, Threads, Busy, None
<1>25. CASE Resume
  BY <1>25, PlayerAssumption DEF Resume, Command, Go, Set, Find, cache, graph, DataTypes,
     LocalTypes, Locals, Events, Threads, Busy, None
<1>26. CASE Stop
  BY <1>26, PlayerAssumption DEF Stop, Command, Free, NoEntries, Go, Set, Find, cache, graph,
     DataTypes, LocalTypes, Locals, Events, Threads, Busy, None
<1>27. CASE Clicked
  BY <1>27, PlayerAssumption DEF Clicked, Go, Set, Find, cache, graph, DataTypes, LocalTypes,
     Locals, Events, Threads, Busy, None
<1>28. ASSUME NEW n \in Nodes, Transitioned(n) PROVE Locals'
  BY <1>28, PlayerAssumption DEF Transitioned, Go, Set, Find, cache, graph, DataTypes, LocalTypes,
     Locals, Events, Threads, Busy, None
<1>29. ASSUME NEW e \in BagToSet(destroys), Destroy(e) PROVE Locals'
  BY <1>29, PlayerAssumption DEF Destroy, Go, Set, Find, cache, graph, DataTypes, LocalTypes,
     Locals, Events, Threads, Busy, None
<1>30. CASE UNCHANGED vars
  BY <1>30 DEF vars, graph, cache, locals, Go, Set, Find, cache, graph, DataTypes, LocalTypes,
     Locals, Events, Threads, Busy, None
<1>. QED
  BY <1>1, <1>2, <1>3, <1>4, <1>5, <1>6, <1>7, <1>8, <1>9, <1>10, <1>11, <1>12, <1>13, <1>14,
     <1>15, <1>16, <1>17, <1>18, <1>19, <1>20, <1>21, <1>22, <1>23, <1>24, <1>25, <1>26, <1>27,
     <1>28, <1>29, <1>30 DEF Next, ThreadStep, WorkerStep, GuiStep, Request

-----------------------------------------------------------------------------
(* The chain of update events *)

\* A thread is on its way to post an update event, or about to enter _update.
Posting(label, r) ==
    \/ label \in {"start", "update", "test", "lock", "after"}
    \/ label \in Busy /\ r \in {"update", "gotoUpdate"}
    \/ label = "goto" /\ r = "gotoUpdate"

Owed(t) == IF Posting(pc[t], ret[t]) THEN 1 ELSE 0

\* There are no more update events than commands and hyperlinks that start
\* the document.
Counts ==
    /\ updates \in Nat /\ commands \in 0..MaxCommands /\ posts \in 0..MaxPosts
    /\ updates + Owed("gui") + Owed("worker") <= commands + posts

\* What goto_node has seen.
Gotos == pc["worker"] = "goto" => ret["worker"] \in {"goto", "gotoUpdate"}

LEMMA GotosStep ==
  ASSUME LocalTypes, DataTypes, Locals, Gotos, [Next]_vars
  PROVE  Gotos'
<1>1. ASSUME NEW t \in Threads, CreatePlayable(t) PROVE Gotos'
  <2>1. PICK l \in {"undefined", "recreate", "exec"} : pc' = [pc EXCEPT ![t] = l]
    BY <1>1, CreateCases
  <2>. QED
    BY <1>1, <2>1 DEF CreatePlayable, LocalTypes, Gotos
<1>2. ASSUME NEW t \in Threads, FinishStop(t) PROVE Gotos'
  <2>1. PICK l \in {"undefined", "schedule", "exec"} : pc' = [pc EXCEPT ![t] = l]
    BY <1>2, FinishCases
  <2>. QED
    BY <1>2, <2>1 DEF FinishStop, LocalTypes, Gotos
<1>3. ASSUME NEW t \in Threads, ScheduleDestroy(t) PROVE Gotos'
  BY <1>3, PlayerAssumption DEF ScheduleDestroy, Go, Set, LocalTypes, Gotos, Threads
<1>4. ASSUME NEW t \in Threads, TestLocked(t) PROVE Gotos'
  BY <1>4, PlayerAssumption DEF TestLocked, Go, Set, LocalTypes, Gotos, Threads
<1>5. ASSUME NEW t \in Threads, EnterExec(t) PROVE Gotos'
  BY <1>5, PlayerAssumption DEF EnterExec, Go, Set, LocalTypes, Gotos, Threads
<1>6. ASSUME NEW t \in Threads, EndRoot(t) PROVE Gotos'
  BY <1>6, PlayerAssumption DEF EndRoot, InBatch, Go, Set, LocalTypes, Gotos, Threads
<1>7. ASSUME NEW t \in Threads, LeaveExec(t) PROVE Gotos'
  BY <1>7, PlayerAssumption DEF LeaveExec, Go, Set, LocalTypes, Gotos, Threads
<1>8. ASSUME NEW t \in Threads, Continued(t) PROVE Gotos'
  BY <1>8, PlayerAssumption DEF Continued, AfterExec, Go, Set, LocalTypes, Gotos, Threads
<1>9. ASSUME NEW t \in Threads, ResetDocument(t) PROVE Gotos'
  BY <1>9, PlayerAssumption DEF ResetDocument, Go, Set, LocalTypes, Gotos, Threads
<1>10. ASSUME NEW t \in Threads, Leave(t) PROVE Gotos'
  BY <1>10, PlayerAssumption DEF Leave, Released, Go, Set, LocalTypes, Gotos, Threads
<1>11. ASSUME NEW t \in Threads, NEW n \in Nodes, BeginNode(t, n) PROVE Gotos'
  BY <1>11, PlayerAssumption DEF BeginNode, InBatch, Go, Set, LocalTypes, Gotos, Threads
<1>12. ASSUME NEW t \in Threads, NEW n \in Nodes, FillNode(t, n) PROVE Gotos'
  BY <1>12, PlayerAssumption DEF FillNode, InBatch, Go, Set, LocalTypes, Gotos, Threads
<1>13. ASSUME NEW t \in Threads, NEW n \in Nodes, StopNode(t, n) PROVE Gotos'
  BY <1>13, PlayerAssumption DEF StopNode, InBatch, StopPlayable, Go, Set, LocalTypes, Gotos,
     Threads
<1>14. CASE Update
  BY <1>14, PlayerAssumption DEF Update, Go, Set, LocalTypes, Gotos, Threads
<1>15. CASE LockUpdate
  BY <1>15, PlayerAssumption DEF LockUpdate, Go, Set, LocalTypes, Gotos, Threads
<1>16. CASE TransitionedAsync
  BY <1>16, PlayerAssumption DEF TransitionedAsync, StopPlayable, Go, Set, LocalTypes, Gotos,
     Threads
<1>17. CASE Goto
  BY <1>17, PlayerAssumption DEF Goto, Go, Set, LocalTypes, Gotos, Threads
<1>18. CASE DestroyPlayableInCache
  BY <1>18, PlayerAssumption DEF DestroyPlayableInCache, Free, Reclaimed, Go, Set, LocalTypes,
     Gotos, Threads
<1>19. CASE StartRoot
  BY <1>19, PlayerAssumption DEF StartRoot, Go, Set, LocalTypes, Gotos, Threads
<1>20. CASE StopLock
  BY <1>20, PlayerAssumption DEF StopLock, Go, Set, LocalTypes, Gotos, Threads
<1>21. CASE StopReset
  BY <1>21, PlayerAssumption DEF StopReset, Go, Set, LocalTypes, Gotos, Threads
<1>22. CASE StopDone
  BY <1>22, PlayerAssumption DEF StopDone, Go, Set, LocalTypes, Gotos, Threads
<1>23. CASE Start
  <2>1. pc'["worker"] = pc["worker"] /\ ret' = ret
    BY <1>23 DEF Start, Command, Go, LocalTypes, Threads
  <2>. QED
    BY <2>1 DEF Gotos
<1>24. CASE Pause
  BY <1>24, PlayerAssumption DEF Pause, Command, Go, Set, LocalTypes, Gotos, Threads
<1>25. CASE Resume
  BY <1>25, PlayerAssumption DEF Resume, Command, Go, Set, LocalTypes, Gotos, Threads
<1>26. CASE Stop
  BY <1>26, PlayerAssumption DEF Stop, Command, Go, Set, LocalTypes, Gotos, Threads
<1>27. CASE Clicked
  BY <1>27, PlayerAssumption DEF Clicked, Go, Set, LocalTypes, Gotos, Threads
<1>28. ASSUME NEW n \in Nodes, Transitioned(n) PROVE Gotos'
  BY <1>28, PlayerAssumption DEF Transitioned, Go, Set, LocalTypes, Gotos, Threads
<1>29. ASSUME NEW e \in BagToSet(destroys), Destroy(e) PROVE Gotos'
  BY <1>29, PlayerAssumption DEF Destroy, Go, Set, LocalTypes, Gotos, Threads
<1>30. CASE UNCHANGED vars
  BY <1>30 DEF vars, graph, cache, locals, Go, Set, LocalTypes, Gotos, Threads
<1>. QED
  BY <1>1, <1>2, <1>3, <1>4, <1>5, <1>6, <1>7, <1>8, <1>9, <1>10, <1>11, <1>12, <1>13, <1>14,
     <1>15, <1>16, <1>17, <1>18, <1>19, <1>20, <1>21, <1>22, <1>23, <1>24, <1>25, <1>26, <1>27,
     <1>28, <1>29, <1>30 DEF Next, ThreadStep, WorkerStep, GuiStep, Request

LEMMA Bounds == MaxCommands \in Nat /\ MaxPosts \in Nat
BY PlayerAssumption

\* Thread t goes on, from where it owes an event or not.
LEMMA GoCounts ==
  ASSUME LocalTypes, Counts, NEW t \in Threads, NEW l, NEW r, NEW o \in {0, 1},
         pc' = [pc EXCEPT ![t] = l], ret' = [ret EXCEPT ![t] = r], Posting(l, r) => o = 1,
         updates' \in Nat, commands' \in 0..MaxCommands, posts' \in 0..MaxPosts,
         updates' + o - commands' - posts' <= updates + Owed(t) - commands - posts
  PROVE  Counts'
<1>1. PICK g \in {0, 1}, w \in {0, 1} : g = Owed("gui") /\ w = Owed("worker")
  BY DEF Owed
<1>2. PICK x \in {0, 1}, y \in {0, 1} : x = Owed("gui")' /\ y = Owed("worker")'
  BY DEF Owed
<1>3. /\ t = "gui" => pc'["gui"] = l /\ ret'["gui"] = r /\ pc'["worker"] = pc["worker"]
                      /\ ret'["worker"] = ret["worker"]
      /\ t = "worker" => pc'["worker"] = l /\ ret'["worker"] = r /\ pc'["gui"] = pc["gui"]
                         /\ ret'["gui"] = ret["gui"]
      /\ t \in {"gui", "worker"}
  BY DEF LocalTypes, Threads
<1>4. (t = "gui" => x <= o /\ y = w) /\ (t = "worker" => y <= o /\ x = g)
  BY <1>1, <1>2, <1>3 DEF Owed
<1>5. updates \in Nat /\ commands \in Nat /\ posts \in Nat /\ updates + g + w <= commands + posts
  BY <1>1, Bounds DEF Counts
<1>6. updates' \in Nat /\ commands' \in Nat /\ posts' \in Nat
  BY Bounds
<1>7. PICK z \in {0, 1} : z = Owed(t)
  BY DEF Owed
<1>8. updates' + o - commands' - posts' <= updates + z - commands - posts
  BY <1>7
<1>9. x + y + z <= o + g + w
  <2>1. CASE t = "gui"
    <3>1. x <= o /\ y = w /\ z = g
      BY <1>1, <1>4, <1>7, <2>1
    <3>. QED
      BY <3>1
  <2>2. CASE t = "worker"
    <3>1. y <= o /\ x = g /\ z = w
      BY <1>1, <1>4, <1>7, <2>2
    <3>. QED
      BY <3>1
  <2>. QED
    BY <1>3, <2>1, <2>2
<1>10. PICK u \in Nat, c \in Nat, p \in Nat : u = updates' /\ c = commands' /\ p = posts'
  BY <1>6
<1>11. u + x + y <= c + p
  <2>1. u + o - c - p <= updates + z - commands - posts
    BY <1>8, <1>10
  <2>2. x \in Int /\ y \in Int /\ z \in Int /\ o \in Int /\ g \in Int /\ w \in Int
    OBVIOUS
  <2>. QED
    BY <1>5, <1>9, <2>1, <2>2
<1>. QED
  BY <1>2, <1>10, <1>11 DEF Counts

LEMMA GoCountsSame ==
  ASSUME LocalTypes, Counts, NEW t \in Threads, NEW l,
         pc' = [pc EXCEPT ![t] = l], UNCHANGED <<ret, updates, commands, posts>>,
         Posting(l, ret[t]) => Posting(pc[t], ret[t])
  PROVE  Counts'
<1>1. PICK r, o : r = ret[t] /\ o = Owed(t)
  OBVIOUS
<1>2. o \in {0, 1} /\ (Posting(l, r) => o = 1) /\ ret' = [ret EXCEPT ![t] = r]
  BY <1>1 DEF Owed, LocalTypes
<1>3. updates \in Int /\ commands \in Int /\ posts \in Int
  BY Bounds DEF Counts
<1>4. updates' + o - commands' - posts' <= updates + Owed(t) - commands - posts
  BY <1>1, <1>2, <1>3
<1>5. updates' \in Nat /\ commands' \in 0..MaxCommands /\ posts' \in 0..MaxPosts
  BY DEF Counts
<1>. QED
  BY <1>2, <1>4, <1>5, GoCounts

LEMMA CountsStep ==
  ASSUME LocalTypes, Counts, DataTypes, Locals, Gotos, [Next]_vars
  PROVE  Counts'
<1>1. ASSUME NEW t \in Threads, CreatePlayable(t) PROVE Counts'
  <2>1. PICK l \in {"undefined", "recreate", "exec"} : pc' = [pc EXCEPT ![t] = l]
    BY <1>1, CreateCases
  <2>2. pc[t] \in Busy /\ UNCHANGED <<ret, updates, commands, posts>>
    BY <1>1 DEF CreatePlayable, Busy
  <2>3. Posting(l, ret[t]) => Posting(pc[t], ret[t])
    BY <2>2 DEF Posting, Busy
  <2>. QED
    BY <2>1, <2>2, <2>3, GoCountsSame
<1>2. ASSUME NEW t \in Threads, FinishStop(t) PROVE Counts'
  <2>1. PICK l \in {"undefined", "schedule", "exec"} : pc' = [pc EXCEPT ![t] = l]
    BY <1>2, FinishCases
  <2>2. pc[t] \in Busy /\ UNCHANGED <<ret, updates, commands, posts>>
    BY <1>2 DEF FinishStop, Busy
  <2>3. Posting(l, ret[t]) => Posting(pc[t], ret[t])
    BY <2>2 DEF Posting, Busy
  <2>. QED
    BY <2>1, <2>2, <2>3, GoCountsSame
<1>3. ASSUME NEW t \in Threads, ScheduleDestroy(t) PROVE Counts'
  BY <1>3, PlayerAssumption DEF ScheduleDestroy, Go, Set, LocalTypes, Counts, Owed, Posting, Busy,
     Threads
<1>4. ASSUME NEW t \in Threads, TestLocked(t) PROVE Counts'
  <2>1. PICK l \in {"leave", "after", "lock"} : pc' = [pc EXCEPT ![t] = l]
    BY <1>4 DEF TestLocked, Go
  <2>2. PICK r : r = ret[t]
    OBVIOUS
  <2>3. ret' = [ret EXCEPT ![t] = r] /\ Owed(t) = 1 /\ UNCHANGED <<updates, commands, posts>>
    BY <1>4, <2>2 DEF TestLocked, LocalTypes, Owed, Posting
  <2>4. /\ updates' \in Nat /\ commands' \in 0..MaxCommands /\ posts' \in 0..MaxPosts
        /\ updates' + 1 - commands' - posts' <= updates + Owed(t) - commands - posts
    BY <2>3, Bounds DEF Counts
  <2>. QED
    BY <2>1, <2>3, <2>4, GoCounts
<1>5. ASSUME NEW t \in Threads, EnterExec(t) PROVE Counts'
  BY <1>5, PlayerAssumption DEF EnterExec, Go, Set, LocalTypes, Counts, Owed, Posting, Busy, Threads
<1>6. ASSUME NEW t \in Threads, EndRoot(t) PROVE Counts'
  BY <1>6, PlayerAssumption DEF EndRoot, InBatch, Go, Set, LocalTypes, Counts, Owed, Posting,
     Busy, Threads
<1>7. ASSUME NEW t \in Threads, LeaveExec(t) PROVE Counts'
  BY <1>7, PlayerAssumption DEF LeaveExec, Go, Set, LocalTypes, Counts, Owed, Posting, Busy, Threads
<1>8. ASSUME NEW t \in Threads, Continued(t) PROVE Counts'
  <2>1. PICK l \in {"leave", "reset"} : pc' = [pc EXCEPT ![t] = l]
    BY <1>8 DEF Continued, AfterExec, Go
  <2>2. PICK r : r = ret[t]
    OBVIOUS
  <2>3. ret' = [ret EXCEPT ![t] = r] /\ Owed(t) = 1 /\ UNCHANGED <<commands, posts>>
    BY <1>8, <2>2 DEF Continued, AfterExec, LocalTypes, Owed, Posting
  <2>4. ~Posting(l, r)
    BY DEF Posting, Busy
  <2>5. updates' \in Nat /\ updates' + 0 - commands' - posts' <= updates + Owed(t) - commands - posts
    BY <1>8, <2>3, Bounds DEF Continued, AfterExec, Counts
  <2>6. commands' \in 0..MaxCommands /\ posts' \in 0..MaxPosts
    BY <2>3 DEF Counts
  <2>. QED
    BY <2>1, <2>3, <2>4, <2>5, <2>6, GoCounts
<1>9. ASSUME NEW t \in Threads, ResetDocument(t) PROVE Counts'
  BY <1>9, PlayerAssumption DEF ResetDocument, Go, Set, LocalTypes, Counts, Owed, Posting, Busy,
     Threads
<1>10. ASSUME NEW t \in Threads, Leave(t) PROVE Counts'
  BY <1>10, PlayerAssumption DEF Leave, Released, Go, Set, LocalTypes, Counts, Owed, Posting,
     Busy, Threads
<1>11. ASSUME NEW t \in Threads, NEW n \in Nodes, BeginNode(t, n) PROVE Counts'
  BY <1>11, PlayerAssumption DEF BeginNode, InBatch, Go, Set, LocalTypes, Counts, Owed, Posting,
     Busy, Threads
<1>12. ASSUME NEW t \in Threads, NEW n \in Nodes, FillNode(t, n) PROVE Counts'
  BY <1>12, PlayerAssumption DEF FillNode, InBatch, Go, Set, LocalTypes, Counts, Owed, Posting,
     Busy, Threads
<1>13. ASSUME NEW t \in Threads, NEW n \in Nodes, StopNode(t, n) PROVE Counts'
  BY <1>13, PlayerAssumption DEF StopNode, InBatch, StopPlayable, Go, Set, LocalTypes, Counts,
     Owed, Posting, Busy, Threads
<1>14. CASE Update
  <2>1. PICK l \in {"update"} : pc' = [pc EXCEPT !["worker"] = l]
    BY <1>14 DEF Update, Go, LocalTypes, Threads
  <2>2. PICK r : r = ret["worker"]
    OBVIOUS
  <2>3. ret' = [ret EXCEPT !["worker"] = r] /\ "worker" \in Threads
    BY <1>14, <2>2 DEF Update, Set, LocalTypes, Threads
  <2>4. PICK o \in {0, 1} : o = 1
    OBVIOUS
  <2>5. Posting(l, r) => o = 1
    BY <1>14, <2>1, <2>2, <2>4 DEF Update, Posting, Busy, LocalTypes, Threads
  <2>6. PICK z \in {0, 1} : z = Owed("worker")
    BY DEF Owed
  <2>8. updates > 0 /\ updates' = updates - 1 /\ UNCHANGED <<commands, posts>>
    BY <1>14 DEF Update
  <2>7. /\ updates' \in Nat /\ commands' \in 0..MaxCommands /\ posts' \in 0..MaxPosts
        /\ updates' + o - commands' - posts' <= updates + Owed("worker") - commands - posts
    <3>1. updates \in Nat /\ commands \in 0..MaxCommands /\ posts \in 0..MaxPosts
      BY DEF Counts
    <3>2. z \in Int /\ o \in Int
      OBVIOUS
    <3>3. /\ updates' \in Nat /\ commands' \in 0..MaxCommands /\ posts' \in 0..MaxPosts
          /\ updates' + o - commands' - posts' <= updates + z - commands - posts
      BY <2>4, <2>8, <3>1, <3>2, Bounds
    <3>. QED
      BY <2>6, <3>3
  <2>. QED
    BY <2>1, <2>3, <2>5, <2>7, GoCounts
<1>15. CASE LockUpdate
  BY <1>15, PlayerAssumption DEF LockUpdate, Go, Set, LocalTypes, Counts, Owed, Posting, Busy,
     Threads
<1>16. CASE TransitionedAsync
  BY <1>16, PlayerAssumption DEF TransitionedAsync, StopPlayable, Go, Set, LocalTypes, Counts,
     Owed, Posting, Busy, Threads
<1>17. CASE Goto
  <2>1. pc' = [pc EXCEPT !["worker"] = "exec"] /\ "worker" \in Threads /\ pc["worker"] = "goto"
    BY <1>17 DEF Goto, Go, Threads
  <2>2. UNCHANGED <<ret, updates, commands, posts>>
    BY <1>17 DEF Goto
  <2>3. Posting("exec", ret["worker"]) => Posting(pc["worker"], ret["worker"])
    BY <2>1 DEF Posting, Gotos
  <2>. QED
    BY <2>1, <2>2, <2>3, GoCountsSame
<1>18. CASE DestroyPlayableInCache
  BY <1>18, PlayerAssumption DEF DestroyPlayableInCache, Free, Reclaimed, Go, Set, LocalTypes,
     Counts, Owed, Posting, Busy, Threads
<1>19. CASE StartRoot
  BY <1>19, PlayerAssumption DEF StartRoot, Go, Set, LocalTypes, Counts, Owed, Posting, Busy,
     Threads
<1>20. CASE StopLock
  <2>1. PICK l \in {"stopReset", "idle"} : pc' = [pc EXCEPT !["gui"] = l]
    BY <1>20 DEF StopLock, Go, LocalTypes, Threads
  <2>2. PICK r : r = ret["gui"]
    OBVIOUS
  <2>3. ret' = [ret EXCEPT !["gui"] = r] /\ "gui" \in Threads
    BY <1>20, <2>2 DEF StopLock, Set, LocalTypes, Threads
  <2>4. PICK o \in {0, 1} : o = 0
    OBVIOUS
  <2>5. Posting(l, r) => o = 1
    BY <1>20, <2>1, <2>2, <2>4 DEF StopLock, Posting, Busy, LocalTypes, Threads
  <2>6. PICK z \in {0, 1} : z = Owed("gui")
    BY DEF Owed
  <2>8. (updates' = updates \/ updates' \in 0..updates) /\ UNCHANGED <<commands, posts>>
    BY <1>20 DEF StopLock
  <2>7. /\ updates' \in Nat /\ commands' \in 0..MaxCommands /\ posts' \in 0..MaxPosts
        /\ updates' + o - commands' - posts' <= updates + Owed("gui") - commands - posts
    <3>1. updates \in Nat /\ commands \in 0..MaxCommands /\ posts \in 0..MaxPosts
      BY DEF Counts
    <3>2. z \in Int /\ o \in Int
      OBVIOUS
    <3>3. /\ updates' \in Nat /\ commands' \in 0..MaxCommands /\ posts' \in 0..MaxPosts
          /\ updates' + o - commands' - posts' <= updates + z - commands - posts
      BY <2>4, <2>8, <3>1, <3>2, Bounds
    <3>. QED
      BY <2>6, <3>3
  <2>. QED
    BY <2>1, <2>3, <2>5, <2>7, GoCounts
<1>21. CASE StopReset
  BY <1>21, PlayerAssumption DEF StopReset, Go, Set, LocalTypes, Counts, Owed, Posting, Busy,
     Threads
<1>22. CASE StopDone
  BY <1>22, PlayerAssumption DEF StopDone, Go, Set, LocalTypes, Counts, Owed, Posting, Busy, Threads
<1>23. CASE Start
  <2>1. UNCHANGED <<ret, updates, posts>> /\ commands' = commands + 1 /\ commands < MaxCommands
        /\ pc["gui"] = "idle" /\ "gui" \in Threads
    BY <1>23 DEF Start, Command, Threads
  <2>2. CASE pc' = pc
    <3>1. PICK g \in {0, 1}, w \in {0, 1} : g = Owed("gui") /\ w = Owed("worker")
      BY DEF Owed
    <3>2. g = Owed("gui")' /\ w = Owed("worker")'
      BY <2>1, <2>2, <3>1 DEF Owed
    <3>. QED
      BY <2>1, <3>1, <3>2, Bounds DEF Counts
  <2>3. CASE pc' = [pc EXCEPT !["gui"] = "start"]
    <3>1. PICK r : r = ret["gui"]
      OBVIOUS
    <3>2. ret' = [ret EXCEPT !["gui"] = r] /\ Owed("gui") = 0
      BY <2>1, <3>1 DEF LocalTypes, Owed, Posting, Busy
    <3>3. /\ updates' \in Nat /\ commands' \in 0..MaxCommands /\ posts' \in 0..MaxPosts
          /\ updates' + 1 - commands' - posts' <= updates + Owed("gui") - commands - posts
      BY <2>1, <3>2, Bounds DEF Counts
    <3>. QED
      BY <2>1, <2>3, <3>2, <3>3, GoCounts
  <2>. QED
    BY <1>23, <2>2, <2>3 DEF Start, Go
<1>24. CASE Pause
  <2>1. UNCHANGED <<pc, ret, updates, posts>> /\ commands' = commands + 1 /\ commands < MaxCommands
    BY <1>24 DEF Pause, Command
  <2>2. PICK g \in {0, 1}, w \in {0, 1} : g = Owed("gui") /\ w = Owed("worker")
    BY DEF Owed
  <2>3. g = Owed("gui")' /\ w = Owed("worker")'
    BY <2>1, <2>2 DEF Owed
  <2>. QED
    BY <2>1, <2>2, <2>3, Bounds DEF Counts
<1>25. CASE Resume
  <2>1. UNCHANGED <<pc, ret, updates, posts>> /\ commands' = commands + 1 /\ commands < MaxCommands
    BY <1>25 DEF Resume, Command
  <2>2. PICK g \in {0, 1}, w \in {0, 1} : g = Owed("gui") /\ w = Owed("worker")
    BY DEF Owed
  <2>3. g = Owed("gui")' /\ w = Owed("worker")'
    BY <2>1, <2>2 DEF Owed
  <2>. QED
    BY <2>1, <2>2, <2>3, Bounds DEF Counts
<1>26. CASE Stop
  <2>1. PICK l \in {"stopLock"} : pc' = [pc EXCEPT !["gui"] = l]
    BY <1>26 DEF Stop, Go, Command, LocalTypes, Threads
  <2>2. PICK r : r = ret["gui"]
    OBVIOUS
  <2>3. ret' = [ret EXCEPT !["gui"] = r] /\ "gui" \in Threads
    BY <1>26, <2>2 DEF Stop, Set, Command, LocalTypes, Threads
  <2>4. PICK o \in {0, 1} : o = 0
    OBVIOUS
  <2>5. Posting(l, r) => o = 1
    BY <1>26, <2>1, <2>2, <2>4 DEF Stop, Posting, Busy, LocalTypes, Threads, Command
  <2>6. PICK z \in {0, 1} : z = Owed("gui")
    BY DEF Owed
  <2>8. updates' = updates /\ commands' = commands + 1 /\ commands < MaxCommands /\ UNCHANGED posts
    BY <1>26 DEF Stop, Command
  <2>7. /\ updates' \in Nat /\ commands' \in 0..MaxCommands /\ posts' \in 0..MaxPosts
        /\ updates' + o - commands' - posts' <= updates + Owed("gui") - commands - posts
    <3>1. updates \in Nat /\ commands \in 0..MaxCommands /\ posts \in 0..MaxPosts
      BY DEF Counts
    <3>2. z \in Int /\ o \in Int
      OBVIOUS
    <3>3. /\ updates' \in Nat /\ commands' \in 0..MaxCommands /\ posts' \in 0..MaxPosts
          /\ updates' + o - commands' - posts' <= updates + z - commands - posts
      BY <2>4, <2>8, <3>1, <3>2, Bounds
    <3>. QED
      BY <2>6, <3>3
  <2>. QED
    BY <2>1, <2>3, <2>5, <2>7, GoCounts
<1>27. CASE Clicked
  <2>1. PICK l \in {"goto"} : pc' = [pc EXCEPT !["worker"] = l]
    BY <1>27 DEF Clicked, Go, LocalTypes, Threads
  <2>2. PICK r : r = IF root = "active" THEN "goto" ELSE "gotoUpdate"
    OBVIOUS
  <2>3. ret' = [ret EXCEPT !["worker"] = r] /\ "worker" \in Threads
    BY <1>27, <2>2 DEF Clicked, Set, LocalTypes, Threads
  <2>4. PICK o \in {0, 1} : o = 1
    OBVIOUS
  <2>5. Posting(l, r) => o = 1
    BY <1>27, <2>1, <2>2, <2>4 DEF Clicked, Posting, Busy, LocalTypes, Threads
  <2>6. PICK z \in {0, 1} : z = Owed("worker")
    BY DEF Owed
  <2>8. updates' = updates /\ posts' = posts + 1 /\ posts < MaxPosts /\ UNCHANGED commands
    BY <1>27 DEF Clicked
  <2>7. /\ updates' \in Nat /\ commands' \in 0..MaxCommands /\ posts' \in 0..MaxPosts
        /\ updates' + o - commands' - posts' <= updates + Owed("worker") - commands - posts
    <3>1. updates \in Nat /\ commands \in 0..MaxCommands /\ posts \in 0..MaxPosts
      BY DEF Counts
    <3>2. z \in Int /\ o \in Int
      OBVIOUS
    <3>3. /\ updates' \in Nat /\ commands' \in 0..MaxCommands /\ posts' \in 0..MaxPosts
          /\ updates' + o - commands' - posts' <= updates + z - commands - posts
      BY <2>4, <2>8, <3>1, <3>2, Bounds
    <3>. QED
      BY <2>6, <3>3
  <2>. QED
    BY <2>1, <2>3, <2>5, <2>7, GoCounts
<1>28. ASSUME NEW n \in Nodes, Transitioned(n) PROVE Counts'
  <2>1. PICK l \in {"transitioned"} : pc' = [pc EXCEPT !["worker"] = l]
    BY <1>28 DEF Transitioned, Go, LocalTypes, Threads
  <2>2. PICK r : r = ret["worker"]
    OBVIOUS
  <2>3. ret' = [ret EXCEPT !["worker"] = r] /\ "worker" \in Threads
    BY <1>28, <2>2 DEF Transitioned, Set, LocalTypes, Threads
  <2>4. PICK o \in {0, 1} : o = 0
    OBVIOUS
  <2>5. Posting(l, r) => o = 1
    BY <1>28, <2>1, <2>2, <2>4 DEF Transitioned, Posting, Busy, LocalTypes, Threads
  <2>6. PICK z \in {0, 1} : z = Owed("worker")
    BY DEF Owed
  <2>8. updates' = updates /\ posts' = posts + 1 /\ posts < MaxPosts /\ UNCHANGED commands
    BY <1>28 DEF Transitioned
  <2>7. /\ updates' \in Nat /\ commands' \in 0..MaxCommands /\ posts' \in 0..MaxPosts
        /\ updates' + o - commands' - posts' <= updates + Owed("worker") - commands - posts
    <3>1. updates \in Nat /\ commands \in 0..MaxCommands /\ posts \in 0..MaxPosts
      BY DEF Counts
    <3>2. z \in Int /\ o \in Int
      OBVIOUS
    <3>3. /\ updates' \in Nat /\ commands' \in 0..MaxCommands /\ posts' \in 0..MaxPosts
          /\ updates' + o - commands' - posts' <= updates + z - commands - posts
      BY <2>4, <2>8, <3>1, <3>2, Bounds
    <3>. QED
      BY <2>6, <3>3
  <2>. QED
    BY <2>1, <2>3, <2>5, <2>7, GoCounts
<1>29. ASSUME NEW e \in BagToSet(destroys), Destroy(e) PROVE Counts'
  BY <1>29, PlayerAssumption DEF Destroy, Go, Set, LocalTypes, Counts, Owed, Posting, Busy, Threads
<1>30. CASE UNCHANGED vars
  BY <1>30 DEF vars, graph, cache, locals, Go, Set, LocalTypes, Counts, Owed, Posting, Busy, Threads
<1>. QED
  BY <1>1, <1>2, <1>3, <1>4, <1>5, <1>6, <1>7, <1>8, <1>9, <1>10, <1>11, <1>12, <1>13, <1>14,
     <1>15, <1>16, <1>17, <1>18, <1>19, <1>20, <1>21, <1>22, <1>23, <1>24, <1>25, <1>26, <1>27,
     <1>28, <1>29, <1>30 DEF Next, ThreadStep, WorkerStep, GuiStep, Request

Basic == DataTypes /\ LocalTypes /\ Locals /\ Events /\ Gotos /\ Counts

LEMMA BasicInit == Init => Basic
<1>. SUFFICES ASSUME Init PROVE Basic
  OBVIOUS
<1>1. DataTypes /\ LocalTypes /\ Locals /\ Gotos
  BY DEF Init, DataTypes, LocalTypes, Locals, Gotos, Threads, Labels, GuiLabels, WorkerLabels, Busy
<1>2. Events
  BY BagFacts DEF Init, Events, EmptyBag
<1>3. Counts
  BY Bounds DEF Init, Counts, Owed, Posting, Busy, Threads
<1>. QED
  BY <1>1, <1>2, <1>3 DEF Basic

LEMMA BasicStep == Basic /\ [Next]_vars => Basic'
BY DataTypesStep, EventsStep, LocalTypesStep, LocalsStep, GotosStep, CountsStep DEF Basic

LEMMA AlwaysBasic == Spec => []Basic
BY BasicInit, BasicStep, PTL DEF Spec

\* A document without hyperlinks: nobody follows one, somebody will post an
\* update event, and the clock runs while the player plays.
Chain ==
    ~linked =>
        /\ pc["worker"] # "goto" /\ ret["worker"] \in {"update", "transitioned"}
        /\ ret["gui"] = "update"
        /\ root = "active" /\ ~Undefined =>
              updates > 0 \/ pc["gui"] = "stopReset" \/ \E t \in Threads : Posting(pc[t], ret[t])
        /\ timer <=> m_state = "playing"

LEMMA ChainStep ==
  ASSUME Basic, Chain, [Next]_vars
  PROVE  Chain'
<1>1. ASSUME NEW t \in Threads, CreatePlayable(t) PROVE Chain'
  <2>1. PICK l \in {"undefined", "recreate", "exec"} : pc' = [pc EXCEPT ![t] = l]
    BY <1>1, CreateCases DEF Basic
  <2>. QED
    BY <1>1, <2>1 DEF CreatePlayable, Chain, LocalTypes, Basic, Threads, Posting, Busy, graph,
       Undefined
<1>2. ASSUME NEW t \in Threads, FinishStop(t) PROVE Chain'
  <2>1. PICK l \in {"undefined", "schedule", "exec"} : pc' = [pc EXCEPT ![t] = l]
    BY <1>2, FinishCases DEF Basic
  <2>. QED
    BY <1>2, <2>1 DEF FinishStop, Chain, LocalTypes, Basic, Threads, Posting, Busy, graph, Undefined
<1>3. ASSUME NEW t \in Threads, ScheduleDestroy(t) PROVE Chain'
  BY <1>3 DEF ScheduleDestroy, Go, Set, graph, Basic, DataTypes, LocalTypes, Counts, Chain,
     Posting, Busy, Threads, Undefined
<1>4. ASSUME NEW t \in Threads, TestLocked(t) PROVE Chain'
  BY <1>4 DEF TestLocked, Go, Set, graph, Basic, DataTypes, LocalTypes, Counts, Chain, Posting,
     Busy, Threads, Undefined
<1>5. ASSUME NEW t \in Threads, EnterExec(t) PROVE Chain'
  BY <1>5 DEF EnterExec, Go, Set, graph, Basic, DataTypes, LocalTypes, Counts, Chain, Posting,
     Busy, Threads, Undefined
<1>6. ASSUME NEW t \in Threads, EndRoot(t) PROVE Chain'
  BY <1>6 DEF EndRoot, InBatch, DonePlayback, Go, Set, graph, Basic, DataTypes, LocalTypes,
     Counts, Chain, Posting, Busy, Threads, Undefined
<1>7. ASSUME NEW t \in Threads, LeaveExec(t) PROVE Chain'
  BY <1>7 DEF LeaveExec, Go, Set, graph, Basic, DataTypes, LocalTypes, Counts, Chain, Posting,
     Busy, Threads, Undefined
<1>8. ASSUME NEW t \in Threads, Continued(t) PROVE Chain'
  BY <1>8 DEF Continued, AfterExec, Go, Set, graph, Basic, DataTypes, LocalTypes, Counts, Chain,
     Posting, Busy, Threads, Undefined
<1>9. ASSUME NEW t \in Threads, ResetDocument(t) PROVE Chain'
  BY <1>9 DEF ResetDocument, ResetNodes, Go, Set, graph, Basic, DataTypes, LocalTypes, Counts,
     Chain, Posting, Busy, Threads, Undefined
<1>10. ASSUME NEW t \in Threads, Leave(t) PROVE Chain'
  BY <1>10 DEF Leave, Released, Go, Set, graph, Basic, DataTypes, LocalTypes, Counts, Chain,
     Posting, Busy, Threads, Undefined
<1>11. ASSUME NEW t \in Threads, NEW n \in Nodes, BeginNode(t, n) PROVE Chain'
  BY <1>11 DEF BeginNode, InBatch, Go, Set, graph, Basic, DataTypes, LocalTypes, Counts, Chain,
     Posting, Busy, Threads, Undefined
<1>12. ASSUME NEW t \in Threads, NEW n \in Nodes, FillNode(t, n) PROVE Chain'
  BY <1>12 DEF FillNode, InBatch, Go, Set, graph, Basic, DataTypes, LocalTypes, Counts, Chain,
     Posting, Busy, Threads, Undefined
<1>13. ASSUME NEW t \in Threads, NEW n \in Nodes, StopNode(t, n) PROVE Chain'
  BY <1>13 DEF StopNode, InBatch, StopPlayable, Go, Set, graph, Basic, DataTypes, LocalTypes,
     Counts, Chain, Posting, Busy, Threads, Undefined
<1>14. CASE Update
  BY <1>14 DEF Update, Go, Set, graph, Basic, DataTypes, LocalTypes, Counts, Chain, Posting, Busy,
     Threads, Undefined
<1>15. CASE LockUpdate
  BY <1>15 DEF LockUpdate, Go, Set, graph, Basic, DataTypes, LocalTypes, Counts, Chain, Posting,
     Busy, Threads, Undefined
<1>16. CASE TransitionedAsync
  BY <1>16 DEF TransitionedAsync, StopPlayable, Go, Set, graph, Basic, DataTypes, LocalTypes,
     Counts, Chain, Posting, Busy, Threads, Undefined
<1>17. CASE Goto
  BY <1>17 DEF Goto, ResetNodes, Go, Set, graph, Basic, DataTypes, LocalTypes, Counts, Chain,
     Posting, Busy, Threads, Undefined
<1>18. CASE DestroyPlayableInCache
  BY <1>18 DEF DestroyPlayableInCache, Free, Reclaimed, Go, Set, graph, Basic, DataTypes,
     LocalTypes, Counts, Chain, Posting, Busy, Threads, Undefined
<1>19. CASE StartRoot
  BY <1>19 DEF StartRoot, ResetNodes, Go, Set, graph, Basic, DataTypes, LocalTypes, Counts, Chain,
     Posting, Busy, Threads, Undefined
<1>20. CASE StopLock
  BY <1>20 DEF StopLock, Go, Set, graph, Basic, DataTypes, LocalTypes, Counts, Chain, Posting,
     Busy, Threads, Undefined
<1>21. CASE StopReset
  BY <1>21 DEF StopReset, ResetNodes, Go, Set, graph, Basic, DataTypes, LocalTypes, Counts, Chain,
     Posting, Busy, Threads, Undefined
<1>22. CASE StopDone
  BY <1>22 DEF StopDone, DonePlayback, Go, Set, graph, Basic, DataTypes, LocalTypes, Counts,
     Chain, Posting, Busy, Threads, Undefined
<1>23. CASE Start
  BY <1>23 DEF Start, Command, Go, Set, graph, Basic, DataTypes, LocalTypes, Counts, Chain,
     Posting, Busy, Threads, Undefined
<1>24. CASE Pause
  BY <1>24 DEF Pause, Command, Go, Set, graph, Basic, DataTypes, LocalTypes, Counts, Chain,
     Posting, Busy, Threads, Undefined
<1>25. CASE Resume
  BY <1>25 DEF Resume, Command, Go, Set, graph, Basic, DataTypes, LocalTypes, Counts, Chain,
     Posting, Busy, Threads, Undefined
<1>26. CASE Stop
  BY <1>26 DEF Stop, Command, Go, Set, graph, Basic, DataTypes, LocalTypes, Counts, Chain,
     Posting, Busy, Threads, Undefined
<1>27. CASE Clicked
  BY <1>27 DEF Clicked, Go, Set, graph, Basic, DataTypes, LocalTypes, Counts, Chain, Posting,
     Busy, Threads, Undefined
<1>28. ASSUME NEW n \in Nodes, Transitioned(n) PROVE Chain'
  BY <1>28 DEF Transitioned, Go, Set, graph, Basic, DataTypes, LocalTypes, Counts, Chain, Posting,
     Busy, Threads, Undefined
<1>29. ASSUME NEW e \in BagToSet(destroys), Destroy(e) PROVE Chain'
  BY <1>29 DEF Destroy, Go, Set, graph, Basic, DataTypes, LocalTypes, Counts, Chain, Posting,
     Busy, Threads, Undefined
<1>30. CASE UNCHANGED vars
  BY <1>30 DEF vars, graph, cache, locals, Go, Set, graph, Basic, DataTypes, LocalTypes, Counts,
     Chain, Posting, Busy, Threads, Undefined
<1>. QED
  BY <1>1, <1>2, <1>3, <1>4, <1>5, <1>6, <1>7, <1>8, <1>9, <1>10, <1>11, <1>12, <1>13, <1>14,
     <1>15, <1>16, <1>17, <1>18, <1>19, <1>20, <1>21, <1>22, <1>23, <1>24, <1>25, <1>26, <1>27,
     <1>28, <1>29, <1>30 DEF Next, ThreadStep, WorkerStep, GuiStep, Request

-----------------------------------------------------------------------------
(* The end of a document *)

NothingHeld == \A n \in Nodes : m_playables[n] = 0
NothingCached == \A u \in Urls : m_cached_playables[u] = 0

\* Thread t will reset the document, if that has ended.
WillReset(t) == pc[t] \in {"after", "reset"} \/ (pc[t] = "exec" /\ ret[t] = "update")

\* A document without hyperlinks.
Clean ==
    ~linked =>
        /\ pc["gui"] # "stopReset" => (root = "active" <=> m_state \in {"playing", "pausing"})
        /\ pc["gui"] \in {"stopReset", "stopDone"} => m_state = "done"
        /\ pc["gui"] = "start" => m_state \in {"idle", "done"}
        /\ \A t \in Threads :
              /\ pc[t] \in {"create", "recreate"} => root = "active"
              /\ pc[t] \in {"stop", "schedule"} /\ ret[t] = "update" => root = "active"
              /\ pc[t] = "stop" /\ can_cache[t] => m_state # "done" \/ pc["gui"] = "stopReset"
        /\ m_state = "done" /\ pc["gui"] \notin {"stopReset", "stopDone"} => NothingCached
        /\ m_state = "done" /\ pc["gui"] # "stopReset" =>
              NothingHeld \/ \E t \in Threads : WillReset(t)

LEMMA CleanStep ==
  ASSUME Basic, Chain, Chain', Basic', Clean, [Next]_vars
  PROVE  Clean'
<1>1. ASSUME NEW t \in Threads, CreatePlayable(t) PROVE Clean'
  BY <1>1 DEF CreatePlayable, Go, Set, graph, cache, Basic, DataTypes, LocalTypes, Locals, Chain,
     Clean, Busy, Threads, None, NothingHeld, NothingCached, WillReset
<1>2. ASSUME NEW t \in Threads, FinishStop(t) PROVE Clean'
  BY <1>2 DEF FinishStop, Free, Outdated, Go, Set, graph, cache, Basic, DataTypes, LocalTypes,
     Locals, Chain, Clean, Busy, Threads, None, NothingHeld, NothingCached, WillReset
<1>3. ASSUME NEW t \in Threads, ScheduleDestroy(t) PROVE Clean'
  BY <1>3 DEF ScheduleDestroy, Go, Set, graph, cache, Basic, DataTypes, LocalTypes, Locals, Chain,
     Clean, Busy, Threads, None, NothingHeld, NothingCached, WillReset
<1>4. ASSUME NEW t \in Threads, TestLocked(t) PROVE Clean'
  BY <1>4 DEF TestLocked, Go, Set, graph, cache, Basic, DataTypes, LocalTypes, Locals, Chain,
     Clean, Busy, Threads, None, NothingHeld, NothingCached, WillReset
<1>5. ASSUME NEW t \in Threads, EnterExec(t) PROVE Clean'
  BY <1>5 DEF EnterExec, Go, Set, graph, cache, Basic, DataTypes, LocalTypes, Locals, Chain,
     Clean, Busy, Threads, None, NothingHeld, NothingCached, WillReset
<1>6. ASSUME NEW t \in Threads, EndRoot(t) PROVE Clean'
  BY <1>6 DEF EndRoot, InBatch, DonePlayback, NoEntries, Go, Set, graph, cache, Basic, DataTypes,
     LocalTypes, Locals, Chain, Clean, Busy, Threads, None, NothingHeld, NothingCached, WillReset
<1>7. ASSUME NEW t \in Threads, LeaveExec(t) PROVE Clean'
  BY <1>7 DEF LeaveExec, Go, Set, graph, cache, Basic, DataTypes, LocalTypes, Locals, Chain,
     Clean, Busy, Threads, None, NothingHeld, NothingCached, WillReset
<1>8. ASSUME NEW t \in Threads, Continued(t) PROVE Clean'
  BY <1>8 DEF Continued, AfterExec, Go, Set, graph, cache, Basic, DataTypes, LocalTypes, Locals,
     Chain, Clean, Busy, Threads, None, NothingHeld, NothingCached, WillReset
<1>9. ASSUME NEW t \in Threads, ResetDocument(t) PROVE Clean'
  BY <1>9 DEF ResetDocument, ResetNodes, Go, Set, graph, cache, Basic, DataTypes, LocalTypes,
     Locals, Chain, Clean, Busy, Threads, None, NothingHeld, NothingCached, WillReset
<1>10. ASSUME NEW t \in Threads, Leave(t) PROVE Clean'
  BY <1>10 DEF Leave, Released, Go, Set, graph, cache, Basic, DataTypes, LocalTypes, Locals,
     Chain, Clean, Busy, Threads, None, NothingHeld, NothingCached, WillReset
<1>11. ASSUME NEW t \in Threads, NEW n \in Nodes, BeginNode(t, n) PROVE Clean'
  BY <1>11 DEF BeginNode, InBatch, Go, Set, graph, cache, Basic, DataTypes, LocalTypes, Locals,
     Chain, Clean, Busy, Threads, None, NothingHeld, NothingCached, WillReset
<1>12. ASSUME NEW t \in Threads, NEW n \in Nodes, FillNode(t, n) PROVE Clean'
  BY <1>12 DEF FillNode, InBatch, Go, Set, graph, cache, Basic, DataTypes, LocalTypes, Locals,
     Chain, Clean, Busy, Threads, None, NothingHeld, NothingCached, WillReset
<1>13. ASSUME NEW t \in Threads, NEW n \in Nodes, StopNode(t, n) PROVE Clean'
  BY <1>13 DEF StopNode, InBatch, StopPlayable, Go, Set, graph, cache, Basic, DataTypes,
     LocalTypes, Locals, Chain, Clean, Busy, Threads, None, NothingHeld, NothingCached, WillReset
<1>14. CASE Update
  BY <1>14 DEF Update, Go, Set, graph, cache, Basic, DataTypes, LocalTypes, Locals, Chain, Clean,
     Busy, Threads, None, NothingHeld, NothingCached, WillReset
<1>15. CASE LockUpdate
  BY <1>15 DEF LockUpdate, Go, Set, graph, cache, Basic, DataTypes, LocalTypes, Locals, Chain,
     Clean, Busy, Threads, None, NothingHeld, NothingCached, WillReset
<1>16. CASE TransitionedAsync
  BY <1>16 DEF TransitionedAsync, StopPlayable, Go, Set, graph, cache, Basic, DataTypes,
     LocalTypes, Locals, Chain, Clean, Busy, Threads, None, NothingHeld, NothingCached, WillReset
<1>17. CASE Goto
  BY <1>17 DEF Goto, ResetNodes, Go, Set, graph, cache, Basic, DataTypes, LocalTypes, Locals,
     Chain, Clean, Busy, Threads, None, NothingHeld, NothingCached, WillReset
<1>18. CASE DestroyPlayableInCache
  BY <1>18 DEF DestroyPlayableInCache, Free, Reclaimed, Go, Set, graph, cache, Basic, DataTypes,
     LocalTypes, Locals, Chain, Clean, Busy, Threads, None, NothingHeld, NothingCached, WillReset
<1>19. CASE StartRoot
  BY <1>19 DEF StartRoot, ResetNodes, Go, Set, graph, cache, Basic, DataTypes, LocalTypes, Locals,
     Chain, Clean, Busy, Threads, None, NothingHeld, NothingCached, WillReset
<1>20. CASE StopLock
  BY <1>20 DEF StopLock, Go, Set, graph, cache, Basic, DataTypes, LocalTypes, Locals, Chain,
     Clean, Busy, Threads, None, NothingHeld, NothingCached, WillReset
<1>21. CASE StopReset
  BY <1>21 DEF StopReset, ResetNodes, Go, Set, graph, cache, Basic, DataTypes, LocalTypes, Locals,
     Chain, Clean, Busy, Threads, None, NothingHeld, NothingCached, WillReset
<1>22. CASE StopDone
  BY <1>22 DEF StopDone, DonePlayback, NoEntries, Go, Set, graph, cache, Basic, DataTypes,
     LocalTypes, Locals, Chain, Clean, Busy, Threads, None, NothingHeld, NothingCached, WillReset
<1>23. CASE Start
  BY <1>23 DEF Start, Command, Go, Set, graph, cache, Basic, DataTypes, LocalTypes, Locals, Chain,
     Clean, Busy, Threads, None, NothingHeld, NothingCached, WillReset
<1>24. CASE Pause
  BY <1>24 DEF Pause, Command, Go, Set, graph, cache, Basic, DataTypes, LocalTypes, Locals, Chain,
     Clean, Busy, Threads, None, NothingHeld, NothingCached, WillReset
<1>25. CASE Resume
  BY <1>25 DEF Resume, Command, Go, Set, graph, cache, Basic, DataTypes, LocalTypes, Locals,
     Chain, Clean, Busy, Threads, None, NothingHeld, NothingCached, WillReset
<1>26. CASE Stop
  BY <1>26 DEF Stop, Command, NoEntries, Go, Set, graph, cache, Basic, DataTypes, LocalTypes,
     Locals, Chain, Clean, Busy, Threads, None, NothingHeld, NothingCached, WillReset
<1>27. CASE Clicked
  BY <1>27 DEF Clicked, Go, Set, graph, cache, Basic, DataTypes, LocalTypes, Locals, Chain, Clean,
     Busy, Threads, None, NothingHeld, NothingCached, WillReset
<1>28. ASSUME NEW n \in Nodes, Transitioned(n) PROVE Clean'
  BY <1>28 DEF Transitioned, Go, Set, graph, cache, Basic, DataTypes, LocalTypes, Locals, Chain,
     Clean, Busy, Threads, None, NothingHeld, NothingCached, WillReset
<1>29. ASSUME NEW e \in BagToSet(destroys), Destroy(e) PROVE Clean'
  BY <1>29 DEF Destroy, Go, Set, graph, cache, Basic, DataTypes, LocalTypes, Locals, Chain, Clean,
     Busy, Threads, None, NothingHeld, NothingCached, WillReset
<1>30. CASE UNCHANGED vars
  BY <1>30 DEF vars, graph, cache, locals, Go, Set, graph, cache, Basic, DataTypes, LocalTypes,
     Locals, Chain, Clean, Busy, Threads, None, NothingHeld, NothingCached, WillReset
<1>. QED
  BY <1>1, <1>2, <1>3, <1>4, <1>5, <1>6, <1>7, <1>8, <1>9, <1>10, <1>11, <1>12, <1>13, <1>14,
     <1>15, <1>16, <1>17, <1>18, <1>19, <1>20, <1>21, <1>22, <1>23, <1>24, <1>25, <1>26, <1>27,
     <1>28, <1>29, <1>30 DEF Next, ThreadStep, WorkerStep, GuiStep, Request

-----------------------------------------------------------------------------
(* Who owns a playable *)

\* What m_playables and the cache hold is what plays and what was stopped;
\* the playable that is being stopped is held no more; and none is lost.
Sound ==
    /\ \A n \in Nodes : m_playables[n] # 0 => life[m_playables[n]] = "playing"
    /\ \A u \in Urls : m_cached_playables[u] # 0 =>
          life[m_cached_playables[u]] \in {"stopped", "continuing"}
    /\ \A n1, n2 \in Nodes : m_playables[n1] = m_playables[n2] => n1 = n2 \/ m_playables[n1] = 0
    /\ \A u1, u2 \in Urls : m_cached_playables[u1] = m_cached_playables[u2] =>
          u1 = u2 \/ m_cached_playables[u1] = 0
    /\ \A t \in Threads : pc[t] = "stop" =>
          life[victim[t]] = "playing" /\ \A n \in Nodes : m_playables[n] # victim[t]
    /\ \A p \in Addresses : life[p] \notin {"free", "lost"} =>
          \/ \E n \in Nodes : m_playables[n] = p
          \/ \E u \in Urls : m_cached_playables[u] = p
          \/ \E t \in Threads : pc[t] = "stop" /\ victim[t] = p

\* The cache is emptied.
LEMMA EmptySound ==
  ASSUME Basic, Sound, m_cached_playables' = NoEntries, life' = Free(Cached),
         UNCHANGED <<m_playables, victim>>,
         \A t \in Threads : pc'[t] = "stop" <=> pc[t] = "stop"
  PROVE  Sound'
<1>1. \A p \in Addresses : life'[p] = IF \E u \in Urls : m_cached_playables[u] = p THEN "free" ELSE life[p]
  BY PlayerAssumption DEF Free, Cached
<1>2. \A u \in Urls : m_cached_playables'[u] = 0
  BY DEF NoEntries
<1>3. /\ \A n \in Nodes : m_playables[n] \in Addresses \cup {0}
      /\ \A u \in Urls : m_cached_playables[u] \in Addresses \cup {0}
      /\ \A t \in Threads : pc[t] = "stop" => victim[t] \in Addresses
      /\ 0 \notin Addresses
  BY PlayerAssumption DEF Basic, DataTypes, Locals
<1>4. \A p \in Addresses : life[p] = "playing" => life'[p] = "playing"
  BY <1>1, <1>3 DEF Sound
<1>5. \A n \in Nodes : m_playables'[n] # 0 => life'[m_playables'[n]] = "playing"
  BY <1>3, <1>4 DEF Sound
<1>6. \A t \in Threads : pc'[t] = "stop" =>
          life'[victim'[t]] = "playing" /\ \A n \in Nodes : m_playables'[n] # victim'[t]
  BY <1>3, <1>4 DEF Sound
<1>7. \A p \in Addresses : life'[p] \notin {"free", "lost"} =>
          \/ \E n \in Nodes : m_playables'[n] = p
          \/ \E u \in Urls : m_cached_playables'[u] = p
          \/ \E t \in Threads : pc'[t] = "stop" /\ victim'[t] = p
  BY <1>1 DEF Sound
<1>8. \A n1, n2 \in Nodes : m_playables'[n1] = m_playables'[n2] => n1 = n2 \/ m_playables'[n1] = 0
  BY DEF Sound
<1>. QED
  BY <1>2, <1>5, <1>6, <1>7, <1>8 DEF Sound

\* All nodes are stopped, while nobody is in the middle of stopping one.
LEMMA ResetSound ==
  ASSUME Basic, Sound, ResetNodes,
         \A t \in Threads : pc[t] # "stop" /\ pc'[t] # "stop"
  PROVE  Sound'
<1>1. \A n \in Nodes : m_playables'[n] = 0
  BY DEF ResetNodes
<1>2. \A u \in Urls : m_cached_playables'[u] \in {0, m_cached_playables[u]}
  BY DEF ResetNodes
<1>3. \A p \in Addresses :
        life'[p] = IF \/ \E n \in Nodes : m_playables[n] = p
                      \/ /\ \E u \in Urls : m_cached_playables[u] = p
                         /\ \A u \in Urls : m_cached_playables'[u] # p
                   THEN "free" ELSE life[p]
  BY PlayerAssumption DEF ResetNodes, Free, Held, Cached
<1>4. /\ \A n \in Nodes : m_playables[n] \in Addresses \cup {0}
      /\ \A u \in Urls : m_cached_playables[u] \in Addresses \cup {0}
      /\ 0 \notin Addresses
  BY PlayerAssumption DEF Basic, DataTypes
<1>5. \A u \in Urls : m_cached_playables'[u] # 0 =>
          life'[m_cached_playables'[u]] \in {"stopped", "continuing"}
  <2>. SUFFICES ASSUME NEW u \in Urls, m_cached_playables'[u] # 0
                PROVE  life'[m_cached_playables'[u]] \in {"stopped", "continuing"}
    OBVIOUS
  <2>1. PICK p \in Addresses : p = m_cached_playables[u] /\ p = m_cached_playables'[u]
    BY <1>2, <1>4
  <2>2. p # 0 /\ life[p] \in {"stopped", "continuing"}
    BY <1>4, <2>1 DEF Sound
  <2>3. \A n \in Nodes : m_playables[n] # p
    BY <2>2 DEF Sound
  <2>. QED
    BY <1>3, <2>1, <2>2, <2>3
<1>6. \A u1, u2 \in Urls : m_cached_playables'[u1] = m_cached_playables'[u2] =>
          u1 = u2 \/ m_cached_playables'[u1] = 0
  BY <1>2 DEF Sound
<1>7. \A p \in Addresses : life'[p] \notin {"free", "lost"} => \E u \in Urls : m_cached_playables'[u] = p
  <2>. SUFFICES ASSUME NEW p \in Addresses, life'[p] \notin {"free", "lost"}
                PROVE  \E u \in Urls : m_cached_playables'[u] = p
    OBVIOUS
  <2>1. /\ life'[p] = life[p] /\ \A n \in Nodes : m_playables[n] # p
        /\ (\E u \in Urls : m_cached_playables[u] = p) => \E u \in Urls : m_cached_playables'[u] = p
    BY <1>3
  <2>. QED
    BY <2>1 DEF Sound
<1>. QED
  BY <1>1, <1>5, <1>6, <1>7 DEF Sound

LEMMA SoundStep ==
  ASSUME Basic, Basic', Sound, [Next]_vars
  PROVE  (Undefined \/ Sound)'
<1>1. ASSUME NEW t \in Threads, CreatePlayable(t) PROVE (Undefined \/ Sound)'
  <2>1. CASE pc' = [pc EXCEPT ![t] = "undefined"]
    BY <2>1 DEF Undefined, Basic, LocalTypes
  <2>2. CASE pc' # [pc EXCEPT ![t] = "undefined"]
    <3>1. node[t] \in Nodes /\ victim' = victim /\ sched = t
      BY <1>1, CreateCases DEF Basic, CreatePlayable, Locals, Busy
    <3>2. PICK np \in Addresses, f \in Addresses \cup {0}, l \in {"recreate", "exec"} :
             /\ pc' = [pc EXCEPT ![t] = l]
             /\ m_playables' = [m_playables EXCEPT ![node[t]] = np]
             /\ life' = [p \in Addresses |-> IF p = np THEN "playing"
                           ELSE IF p = m_playables[node[t]] THEN "lost" ELSE life[p]]
             /\ \/ life[np] = "free" /\ UNCHANGED m_cached_playables
                \/ /\ Url[node[t]] \in Urls /\ m_cached_playables[Url[node[t]]] = np
                   /\ m_cached_playables' = [m_cached_playables EXCEPT ![Url[node[t]]] = 0]
      BY <1>1, <2>2, CreateCases DEF Basic
    <3>3. PICK n \in Nodes : n = node[t]
      BY <3>1
    <3>4. \A k \in Threads : pc[k] # "stop" /\ pc'[k] # "stop"
      BY <1>1, <3>1, <3>2 DEF CreatePlayable, Basic, LocalTypes, Locals, Busy
    <3>5. /\ \A k \in Nodes : m_playables'[k] = IF k = n THEN np ELSE m_playables[k]
          /\ \A p \in Addresses : life'[p] = IF p = np THEN "playing"
                                             ELSE IF p = m_playables[n] THEN "lost" ELSE life[p]
      BY <3>2, <3>3 DEF Basic, DataTypes
    <3>6. /\ \A u \in Urls : m_cached_playables'[u] \in {m_cached_playables[u], 0}
          /\ \A u \in Urls : m_cached_playables'[u] # m_cached_playables[u] => m_cached_playables[u] = np
          /\ \A u \in Urls : m_cached_playables'[u] # np
          /\ life[np] # "playing"
      <4>1. CASE life[np] = "free" /\ UNCHANGED m_cached_playables
        BY <4>1, PlayerAssumption DEF Sound
      <4>2. CASE /\ Url[n] \in Urls /\ m_cached_playables[Url[n]] = np
                 /\ m_cached_playables' = [m_cached_playables EXCEPT ![Url[n]] = 0]
        BY <4>2, PlayerAssumption DEF Sound, Basic, DataTypes
      <4>. QED
        BY <3>2, <3>3, <4>1, <4>2
    <3>7. /\ \A k \in Nodes : m_playables[k] \in Addresses \cup {0}
          /\ \A u \in Urls : m_cached_playables[u] \in Addresses \cup {0}
          /\ 0 \notin Addresses
      BY PlayerAssumption DEF Basic, DataTypes
    <3>8. \A k \in Nodes : m_playables'[k] # 0 => life'[m_playables'[k]] = "playing"
      <4>. SUFFICES ASSUME NEW k \in Nodes, m_playables'[k] # 0 PROVE life'[m_playables'[k]] = "playing"
        OBVIOUS
      <4>1. CASE k = n
        BY <3>5, <4>1
      <4>2. CASE k # n
        <5>1. PICK p \in Addresses : p = m_playables[k] /\ p = m_playables'[k]
          BY <3>5, <3>7, <4>2
        <5>2. p # 0 /\ life[p] = "playing"
          <6>1. \A m \in Nodes : m_playables[m] # 0 => life[m_playables[m]] = "playing"
            BY DEF Sound
          <6>. QED
            BY <3>7, <5>1, <6>1
        <5>3. p # m_playables[n]
          <6>1. \A i, j \in Nodes : m_playables[i] = m_playables[j] => i = j \/ m_playables[i] = 0
            BY DEF Sound
          <6>. QED
            BY <4>2, <5>1, <5>2, <6>1
        <5>. QED
          BY <3>5, <5>1, <5>2, <5>3
      <4>. QED
        BY <4>1, <4>2
    <3>9. \A k, m \in Nodes : m_playables'[k] = m_playables'[m] => k = m \/ m_playables'[k] = 0
      <4>1. \A k \in Nodes : m_playables[k] # np
        BY <3>6, <3>7 DEF Sound
      <4>. QED
        BY <3>5, <4>1 DEF Sound
    <3>10. \A u \in Urls : m_cached_playables'[u] # 0 =>
              life'[m_cached_playables'[u]] \in {"stopped", "continuing"}
      <4>. SUFFICES ASSUME NEW u \in Urls, m_cached_playables'[u] # 0
                    PROVE  life'[m_cached_playables'[u]] \in {"stopped", "continuing"}
        OBVIOUS
      <4>1. PICK p \in Addresses : p = m_cached_playables[u] /\ p = m_cached_playables'[u] /\ p # np
        BY <3>6, <3>7
      <4>2. p # 0 /\ life[p] \in {"stopped", "continuing"}
        BY <3>7, <4>1 DEF Sound
      <4>3. p # m_playables[n]
        BY <4>2 DEF Sound
      <4>. QED
        BY <3>5, <4>1, <4>2, <4>3
    <3>11. \A u, v \in Urls : m_cached_playables'[u] = m_cached_playables'[v] =>
              u = v \/ m_cached_playables'[u] = 0
      BY <3>6 DEF Sound
    <3>12. \A p \in Addresses : life'[p] \notin {"free", "lost"} =>
              \/ \E k \in Nodes : m_playables'[k] = p
              \/ \E u \in Urls : m_cached_playables'[u] = p
      <4>. SUFFICES ASSUME NEW p \in Addresses, life'[p] \notin {"free", "lost"}, p # np
                    PROVE  \/ \E k \in Nodes : m_playables'[k] = p
                           \/ \E u \in Urls : m_cached_playables'[u] = p
        BY <3>5
      <4>1. life'[p] = life[p] /\ p # m_playables[n]
        BY <3>5
      <4>2. CASE \E k \in Nodes : m_playables[k] = p
        BY <3>5, <4>1, <4>2
      <4>3. CASE \E u \in Urls : m_cached_playables[u] = p
        BY <3>6, <4>3
      <4>. QED
        BY <3>4, <4>1, <4>2, <4>3 DEF Sound
    <3>. QED
      BY <3>4, <3>8, <3>9, <3>10, <3>11, <3>12 DEF Sound
  <2>. QED
    BY <2>1, <2>2
<1>2. ASSUME NEW t \in Threads, FinishStop(t) PROVE (Undefined \/ Sound)'
  <2>. DEFINE w == Url[node[t]]
  <2>1. PICK v \in Addresses : v = victim[t]
    BY <1>2, FinishCases DEF Basic
  <2>2. /\ \A k \in Nodes : m_playables'[k] = m_playables[k]
        /\ \A k \in Nodes : m_playables[k] \in Addresses \cup {0}
        /\ \A u \in Urls : m_cached_playables[u] \in Addresses \cup {0}
        /\ \A u \in Urls : m_cached_playables'[u] \in Addresses \cup {0}
        /\ 0 \notin Addresses /\ pc[t] = "stop"
    BY <1>2, FinishCases, PlayerAssumption DEF Basic, DataTypes
  <2>3. \A k \in Threads : k # t => pc[k] # "stop"
    BY <2>2 DEF Basic, Locals, Busy, None, Threads
  <2>4. life[v] = "playing" /\ \A k \in Nodes : m_playables[k] # v
    BY <2>1, <2>2 DEF Sound
  <2>5. \A u \in Urls : m_cached_playables[u] # v
    BY <2>2, <2>4 DEF Sound
  <2>6. CASE pc' = [pc EXCEPT ![t] = "undefined"]
    BY <2>6 DEF Undefined, Basic, LocalTypes
  <2>. DEFINE Shape(c, q, l) ==
               /\ pc' = [pc EXCEPT ![t] = l]
               /\ q # 0 => \E u \in Urls : m_cached_playables[u] = q
               /\ \A u \in Urls : m_cached_playables'[u] # q \/ q = 0
               /\ \A u \in Urls : \/ m_cached_playables'[u] = m_cached_playables[u]
                                  \/ m_cached_playables[u] = q /\ m_cached_playables'[u] = 0
                                  \/ m_cached_playables[u] = q /\ m_cached_playables'[u] = v /\ u = w
               /\ c # "free" => m_cached_playables'[w] = v /\ w \in Urls
               /\ \A u \in Urls : m_cached_playables'[u] = v => c # "free"
               /\ \A p \in Addresses :
                     life'[p] = IF p = v THEN c ELSE IF p = q THEN "free" ELSE life[p]
             Some == \E c \in {"stopped", "continuing", "free"}, q \in Addresses \cup {0},
                        l \in {"exec", "schedule"} : Shape(c, q, l)
  <2>7. ASSUME can_cache[t] /\ pc' # [pc EXCEPT ![t] = "undefined"] PROVE Some
    <3>1. /\ w \in Urls /\ m_cached_playables' = [m_cached_playables EXCEPT ![w] = v]
          /\ \E l \in {"exec", "schedule"} : pc' = [pc EXCEPT ![t] = l]
          /\ \E s \in {"stopped", "continuing"} :
                life' = [p \in Addresses |-> IF p = v THEN s
                           ELSE IF p = m_cached_playables[w] THEN "free" ELSE life[p]]
      BY <1>2, <2>1, <2>7, FinishCases DEF Basic
    <3>. HIDE DEF w
    <3>2. PICK l \in {"exec", "schedule"} : pc' = [pc EXCEPT ![t] = l]
      BY <3>1
    <3>3. PICK q \in Addresses \cup {0} : q = m_cached_playables[w]
      BY <2>2, <3>1
    <3>4. PICK s \in {"stopped", "continuing"} :
             life' = [p \in Addresses |-> IF p = v THEN s ELSE IF p = q THEN "free" ELSE life[p]]
      BY <3>1, <3>3
    <3>5. \A u \in Urls : m_cached_playables'[u] = IF u = w THEN v ELSE m_cached_playables[u]
      BY <3>1 DEF Basic, DataTypes
    <3>6. \A u \in Urls : m_cached_playables'[u] # q \/ q = 0
      BY <2>2, <2>5, <3>1, <3>3, <3>5 DEF Sound
    <3>7. \A p \in Addresses : life'[p] = IF p = v THEN s ELSE IF p = q THEN "free" ELSE life[p]
      BY <3>4
    <3>8. \A u \in Urls : \/ m_cached_playables'[u] = m_cached_playables[u]
                          \/ m_cached_playables[u] = q /\ m_cached_playables'[u] = v /\ u = w
      BY <3>3, <3>5
    <3>9. Shape(s, q, l)
      BY <3>1, <3>2, <3>3, <3>5, <3>6, <3>7, <3>8
    <3>. HIDE DEF Shape
    <3>. QED
      BY <3>9
  <2>8. ASSUME ~can_cache[t] /\ pc' # [pc EXCEPT ![t] = "undefined"] PROVE Some
    <3>1. /\ pc' = [pc EXCEPT ![t] = "exec"]
          /\ \A u \in Urls : \/ m_cached_playables'[u] = m_cached_playables[u]
                             \/ u = w /\ m_cached_playables'[u] = 0
          /\ \E q \in Addresses \cup {0} :
                /\ life' = [p \in Addresses |-> IF p \in {v, q} THEN "free" ELSE life[p]]
                /\ q # 0 => /\ w \in Urls /\ m_cached_playables[w] = q
                            /\ m_cached_playables'[w] = 0
                /\ q = 0 => m_cached_playables' = m_cached_playables
      BY <1>2, <2>1, <2>8, FinishCases DEF Basic
    <3>. HIDE DEF w
    <3>2. PICK q \in Addresses \cup {0} :
                /\ life' = [p \in Addresses |-> IF p \in {v, q} THEN "free" ELSE life[p]]
                /\ q # 0 => /\ w \in Urls /\ m_cached_playables[w] = q
                            /\ m_cached_playables'[w] = 0
                /\ q = 0 => m_cached_playables' = m_cached_playables
      BY <3>1
    <3>3. \A u \in Urls : \/ m_cached_playables'[u] = m_cached_playables[u]
                          \/ m_cached_playables[u] = q /\ m_cached_playables'[u] = 0
      BY <3>1, <3>2
    <3>4. \A u \in Urls : m_cached_playables'[u] # q \/ q = 0
      BY <2>2, <3>1, <3>2 DEF Sound
    <3>5. \A p \in Addresses : life'[p] = IF p = v THEN "free" ELSE IF p = q THEN "free" ELSE life[p]
      BY <3>2
    <3>6. \A u \in Urls : m_cached_playables'[u] # v
      BY <2>2, <2>5, <3>3
    <3>7. q # 0 => \E u \in Urls : m_cached_playables[u] = q
      BY <3>2
    <3>8. pc' = [pc EXCEPT ![t] = "exec"]
      BY <3>1
    <3>9. Shape("free", q, "exec")
      BY <3>3, <3>4, <3>5, <3>6, <3>7, <3>8
    <3>. HIDE DEF Shape
    <3>. QED
      BY <3>9
  <2>9. CASE pc' # [pc EXCEPT ![t] = "undefined"]
    <3>0. PICK c \in {"stopped", "continuing", "free"}, q \in Addresses \cup {0},
               l \in {"exec", "schedule"} : Shape(c, q, l)
      <4>. HIDE DEF Shape
      <4>. QED
        BY <2>7, <2>8, <2>9
    <3>. HIDE DEF w
    <3>1. \A k \in Threads : pc'[k] # "stop"
      BY <2>3, <3>0 DEF Basic, LocalTypes
    <3>2. \A p \in Addresses : life[p] = "playing" => p # q
      BY <2>2, <3>0 DEF Sound
    <3>3. \A k \in Nodes : m_playables'[k] # 0 => life'[m_playables'[k]] = "playing"
      BY <2>2, <2>4, <3>0, <3>2 DEF Sound
    <3>4. \A k, m \in Nodes : m_playables'[k] = m_playables'[m] => k = m \/ m_playables'[k] = 0
      BY <2>2 DEF Sound
    <3>5. \A u \in Urls : m_cached_playables'[u] # 0 =>
              life'[m_cached_playables'[u]] \in {"stopped", "continuing"}
      <4>. SUFFICES ASSUME NEW u \in Urls, m_cached_playables'[u] # 0
                    PROVE  life'[m_cached_playables'[u]] \in {"stopped", "continuing"}
        OBVIOUS
      <4>1. PICK p \in Addresses : p = m_cached_playables'[u]
        BY <2>2
      <4>2. CASE p = v
        BY <3>0, <4>1, <4>2
      <4>3. CASE p # v
        <5>1. p = m_cached_playables[u] /\ p # q
          BY <2>2, <3>0, <4>1, <4>3
        <5>2. life[p] \in {"stopped", "continuing"}
          BY <2>2, <4>1, <5>1 DEF Sound
        <5>. QED
          BY <3>0, <4>1, <4>3, <5>1, <5>2
      <4>. QED
        BY <4>2, <4>3
    <3>6. \A x, y \in Urls : m_cached_playables'[x] = m_cached_playables'[y] =>
              x = y \/ m_cached_playables'[x] = 0
      BY <2>5, <3>0 DEF Sound
    <3>7. \A p \in Addresses : life'[p] \notin {"free", "lost"} =>
              \/ \E k \in Nodes : m_playables'[k] = p
              \/ \E u \in Urls : m_cached_playables'[u] = p
      <4>. SUFFICES ASSUME NEW p \in Addresses, life'[p] \notin {"free", "lost"}, p # v
                    PROVE  \/ \E k \in Nodes : m_playables'[k] = p
                           \/ \E u \in Urls : m_cached_playables'[u] = p
        BY <3>0
      <4>1. p # q /\ life'[p] = life[p]
        BY <3>0
      <4>2. CASE \E k \in Nodes : m_playables[k] = p
        BY <2>2, <4>2
      <4>3. CASE \E u \in Urls : m_cached_playables[u] = p
        BY <3>0, <4>1, <4>3
      <4>. QED
        BY <2>1, <2>3, <4>1, <4>2, <4>3 DEF Sound
    <3>. QED
      BY <3>1, <3>3, <3>4, <3>5, <3>6, <3>7 DEF Sound
  <2>. QED
    BY <2>6, <2>9
<1>3. ASSUME NEW t \in Threads, ScheduleDestroy(t) PROVE (Undefined \/ Sound)'
  BY <1>3, PlayerAssumption DEF ScheduleDestroy, Go, Set, graph, cache, Basic, DataTypes,
     LocalTypes, Locals, Sound, Busy, Threads, None
<1>4. ASSUME NEW t \in Threads, TestLocked(t) PROVE (Undefined \/ Sound)'
  BY <1>4, PlayerAssumption DEF TestLocked, Go, Set, graph, cache, Basic, DataTypes, LocalTypes,
     Locals, Sound, Busy, Threads, None
<1>5. ASSUME NEW t \in Threads, EnterExec(t) PROVE (Undefined \/ Sound)'
  BY <1>5, PlayerAssumption DEF EnterExec, Go, Set, graph, cache, Basic, DataTypes, LocalTypes,
     Locals, Sound, Busy, Threads, None
<1>6. ASSUME NEW t \in Threads, EndRoot(t) PROVE (Undefined \/ Sound)'
  <2>1. \A k \in Threads : pc'[k] = "stop" <=> pc[k] = "stop"
    BY <1>6 DEF EndRoot, InBatch, Go, Basic, LocalTypes, Threads
  <2>2. m_cached_playables' = NoEntries /\ life' = Free(Cached) /\ UNCHANGED <<m_playables, victim>>
    BY <1>6 DEF EndRoot, DonePlayback
  <2>. QED
    BY <2>1, <2>2, EmptySound
<1>7. ASSUME NEW t \in Threads, LeaveExec(t) PROVE (Undefined \/ Sound)'
  BY <1>7, PlayerAssumption DEF LeaveExec, Go, Set, graph, cache, Basic, DataTypes, LocalTypes,
     Locals, Sound, Busy, Threads, None
<1>8. ASSUME NEW t \in Threads, Continued(t) PROVE (Undefined \/ Sound)'
  BY <1>8, PlayerAssumption DEF Continued, AfterExec, Go, Set, graph, cache, Basic, DataTypes,
     LocalTypes, Locals, Sound, Busy, Threads, None
<1>9. ASSUME NEW t \in Threads, ResetDocument(t) PROVE (Undefined \/ Sound)'
  <2>1. \A k \in Threads : pc[k] # "stop" /\ pc'[k] # "stop"
    BY <1>9 DEF ResetDocument, Go, Basic, LocalTypes, Locals, Threads, Busy, None
  <2>2. ResetNodes
    BY <1>9 DEF ResetDocument
  <2>. QED
    BY <2>1, <2>2, ResetSound
<1>10. ASSUME NEW t \in Threads, Leave(t) PROVE (Undefined \/ Sound)'
  BY <1>10, PlayerAssumption DEF Leave, Released, Go, Set, graph, cache, Basic, DataTypes,
     LocalTypes, Locals, Sound, Busy, Threads, None
<1>11. ASSUME NEW t \in Threads, NEW n \in Nodes, BeginNode(t, n) PROVE (Undefined \/ Sound)'
  BY <1>11, PlayerAssumption DEF BeginNode, InBatch, Go, Set, graph, cache, Basic, DataTypes,
     LocalTypes, Locals, Sound, Busy, Threads, None
<1>12. ASSUME NEW t \in Threads, NEW n \in Nodes, FillNode(t, n) PROVE (Undefined \/ Sound)'
  BY <1>12, PlayerAssumption DEF FillNode, InBatch, Go, Set, graph, cache, Basic, DataTypes,
     LocalTypes, Locals, Sound, Busy, Threads, None
<1>13. ASSUME NEW t \in Threads, NEW n \in Nodes, StopNode(t, n) PROVE (Undefined \/ Sound)'
  BY <1>13, PlayerAssumption DEF StopNode, InBatch, StopPlayable, Go, Set, graph, cache, Basic,
     DataTypes, LocalTypes, Locals, Sound, Busy, Threads, None
<1>14. CASE Update
  BY <1>14, PlayerAssumption DEF Update, Go, Set, graph, cache, Basic, DataTypes, LocalTypes,
     Locals, Sound, Busy, Threads, None
<1>15. CASE LockUpdate
  BY <1>15, PlayerAssumption DEF LockUpdate, Go, Set, graph, cache, Basic, DataTypes, LocalTypes,
     Locals, Sound, Busy, Threads, None
<1>16. CASE TransitionedAsync
  BY <1>16, PlayerAssumption DEF TransitionedAsync, StopPlayable, Go, Set, graph, cache, Basic,
     DataTypes, LocalTypes, Locals, Sound, Busy, Threads, None
<1>17. CASE Goto
  <2>1. \A k \in Threads : pc[k] # "stop" /\ pc'[k] # "stop"
    BY <1>17 DEF Goto, Go, Basic, LocalTypes, Locals, Threads, Busy, None
  <2>2. CASE ResetNodes
    BY <2>1, <2>2, ResetSound
  <2>3. CASE UNCHANGED cache
    BY <2>1, <2>3 DEF cache, Sound
  <2>. QED
    BY <1>17, <2>2, <2>3 DEF Goto
<1>18. CASE DestroyPlayableInCache
  <2>. DEFINE n == node["worker"]
              q == Reclaimed(n, victim["worker"])
  <2>1. \A k \in Threads : pc'[k] = "stop" <=> pc[k] = "stop"
    BY <1>18 DEF DestroyPlayableInCache, Go, Basic, LocalTypes, Threads
  <2>2. PICK p : p = q
    OBVIOUS
  <2>3. /\ m_cached_playables' = [u \in Urls |-> IF m_cached_playables[u] = p THEN 0
                                                 ELSE m_cached_playables[u]]
        /\ life' = Free({p}) /\ UNCHANGED <<m_playables, victim>>
    BY <1>18, <2>2 DEF DestroyPlayableInCache
  <2>4. p = 0 \/ \E u \in Urls : m_cached_playables[u] = p
    <3>1. n \in Nodes
      BY <1>18 DEF DestroyPlayableInCache, Basic, Locals, Threads
    <3>. HIDE DEF n
    <3>. QED
      BY <2>2, <3>1, PlayerAssumption DEF Reclaimed, Find
  <2>5. /\ \A k \in Nodes : m_playables[k] \in Addresses \cup {0}
        /\ \A u \in Urls : m_cached_playables[u] \in Addresses \cup {0}
        /\ \A t \in Threads : pc[t] = "stop" => victim[t] \in Addresses
        /\ 0 \notin Addresses
    BY PlayerAssumption DEF Basic, DataTypes, Locals
  <2>6. \A a \in Addresses : life'[a] = IF a = p THEN "free" ELSE life[a]
    BY <2>3 DEF Free
  <2>7. \A a \in Addresses : life[a] = "playing" => a # p
    BY <2>4, <2>5 DEF Sound
  <2>8. \A u \in Urls : m_cached_playables'[u] = IF m_cached_playables[u] = p THEN 0
                                                 ELSE m_cached_playables[u]
    BY <2>3
  <2>9. \A k \in Nodes : m_playables'[k] # 0 => life'[m_playables'[k]] = "playing"
    BY <2>3, <2>5, <2>6, <2>7 DEF Sound
  <2>10. \A u \in Urls : m_cached_playables'[u] # 0 =>
              life'[m_cached_playables'[u]] \in {"stopped", "continuing"}
    BY <2>5, <2>6, <2>8 DEF Sound
  <2>11. \A u, v \in Urls : m_cached_playables'[u] = m_cached_playables'[v] =>
              u = v \/ m_cached_playables'[u] = 0
    BY <2>8 DEF Sound
  <2>12. \A t \in Threads : pc'[t] = "stop" =>
          life'[victim'[t]] = "playing" /\ \A k \in Nodes : m_playables'[k] # victim'[t]
    BY <2>1, <2>3, <2>5, <2>6, <2>7 DEF Sound
  <2>13. \A a \in Addresses : life'[a] \notin {"free", "lost"} =>
          \/ \E k \in Nodes : m_playables'[k] = a
          \/ \E u \in Urls : m_cached_playables'[u] = a
          \/ \E t \in Threads : pc'[t] = "stop" /\ victim'[t] = a
    BY <2>1, <2>3, <2>6, <2>8 DEF Sound
  <2>14. \A k, m \in Nodes : m_playables'[k] = m_playables'[m] => k = m \/ m_playables'[k] = 0
    BY <2>3 DEF Sound
  <2>. QED
    BY <2>9, <2>10, <2>11, <2>12, <2>13, <2>14 DEF Sound
<1>19. CASE StartRoot
  <2>1. \A k \in Threads : pc[k] # "stop" /\ pc'[k] # "stop"
    BY <1>19 DEF StartRoot, Go, Basic, LocalTypes, Locals, Threads, Busy, None
  <2>2. CASE ResetNodes
    BY <2>1, <2>2, ResetSound
  <2>3. CASE UNCHANGED cache
    BY <2>1, <2>3 DEF cache, Sound
  <2>. QED
    BY <1>19, <2>2, <2>3 DEF StartRoot
<1>20. CASE StopLock
  BY <1>20, PlayerAssumption DEF StopLock, Go, Set, graph, cache, Basic, DataTypes, LocalTypes,
     Locals, Sound, Busy, Threads, None
<1>21. CASE StopReset
  <2>1. \A k \in Threads : pc[k] # "stop" /\ pc'[k] # "stop"
    BY <1>21 DEF StopReset, Go, Basic, LocalTypes, Locals, Threads, Busy, None
  <2>2. ResetNodes
    BY <1>21 DEF StopReset
  <2>. QED
    BY <2>1, <2>2, ResetSound
<1>22. CASE StopDone
  <2>1. \A k \in Threads : pc'[k] = "stop" <=> pc[k] = "stop"
    BY <1>22 DEF StopDone, Go, Basic, LocalTypes, Threads
  <2>2. m_cached_playables' = NoEntries /\ life' = Free(Cached) /\ UNCHANGED <<m_playables, victim>>
    BY <1>22 DEF StopDone, DonePlayback
  <2>. QED
    BY <2>1, <2>2, EmptySound
<1>23. CASE Start
  BY <1>23, PlayerAssumption DEF Start, Command, Go, Set, graph, cache, Basic, DataTypes,
     LocalTypes, Locals, Sound, Busy, Threads, None
<1>24. CASE Pause
  BY <1>24, PlayerAssumption DEF Pause, Command, Go, Set, graph, cache, Basic, DataTypes,
     LocalTypes, Locals, Sound, Busy, Threads, None
<1>25. CASE Resume
  BY <1>25, PlayerAssumption DEF Resume, Command, Go, Set, graph, cache, Basic, DataTypes,
     LocalTypes, Locals, Sound, Busy, Threads, None
<1>26. CASE Stop
  <2>1. \A k \in Threads : pc'[k] = "stop" <=> pc[k] = "stop"
    BY <1>26 DEF Stop, Command, Go, Basic, LocalTypes, Threads
  <2>2. m_cached_playables' = NoEntries /\ life' = Free(Cached) /\ UNCHANGED <<m_playables, victim>>
    BY <1>26 DEF Stop, Command
  <2>. QED
    BY <2>1, <2>2, EmptySound
<1>27. CASE Clicked
  BY <1>27, PlayerAssumption DEF Clicked, Go, Set, graph, cache, Basic, DataTypes, LocalTypes,
     Locals, Sound, Busy, Threads, None
<1>28. ASSUME NEW n \in Nodes, Transitioned(n) PROVE (Undefined \/ Sound)'
  BY <1>28, PlayerAssumption DEF Transitioned, Go, Set, graph, cache, Basic, DataTypes,
     LocalTypes, Locals, Sound, Busy, Threads, None
<1>29. ASSUME NEW e \in BagToSet(destroys), Destroy(e) PROVE (Undefined \/ Sound)'
  BY <1>29, PlayerAssumption DEF Destroy, Go, Set, graph, cache, Basic, DataTypes, LocalTypes,
     Locals, Sound, Busy, Threads, None
<1>30. CASE UNCHANGED vars
  BY <1>30 DEF vars, graph, cache, locals, Go, Set, graph, cache, Basic, DataTypes, LocalTypes,
     Locals, Sound, Busy, Threads, None
<1>. QED
  BY <1>1, <1>2, <1>3, <1>4, <1>5, <1>6, <1>7, <1>8, <1>9, <1>10, <1>11, <1>12, <1>13, <1>14,
     <1>15, <1>16, <1>17, <1>18, <1>19, <1>20, <1>21, <1>22, <1>23, <1>24, <1>25, <1>26, <1>27,
     <1>28, <1>29, <1>30 DEF Next, ThreadStep, WorkerStep, GuiStep, Request

-----------------------------------------------------------------------------
(* What will destroy the playables in the cache *)

\* The entry of URL u was made by a prefetch node, an event that destroys it
\* is pending, being posted or being served, or stop is about to empty the
\* cache.
Doomed(u) ==
    \/ u \in prefetched
    \/ \E n \in Nodes : Url[n] = u /\ <<n, m_cached_playables[u]>> \in BagToSet(destroys)
    \/ \E t \in Threads : /\ pc[t] \in {"schedule", "destroy"}
                          /\ victim[t] = m_cached_playables[u] /\ Url[node[t]] = u
    \/ pc["gui"] \in {"stopReset", "stopDone"}

AllDoomed == \A u \in Urls : m_cached_playables[u] # 0 => Doomed(u)

\* Entries are only removed, and what will destroy the others stays.
LEMMA StillDoomed ==
  ASSUME AllDoomed,
         \A u \in Urls : m_cached_playables'[u] # 0 =>
            /\ m_cached_playables'[u] = m_cached_playables[u]
            /\ u \in prefetched => u \in prefetched',
         BagToSet(destroys) \in SUBSET BagToSet(destroys'),
         \A t \in Threads : pc[t] \in {"schedule", "destroy"} =>
            pc'[t] = pc[t] /\ victim'[t] = victim[t] /\ node'[t] = node[t],
         pc["gui"] \in {"stopReset", "stopDone"} => pc'["gui"] \in {"stopReset", "stopDone"}
  PROVE  AllDoomed'
<1>. SUFFICES ASSUME NEW u \in Urls, m_cached_playables'[u] # 0
              PROVE  Doomed(u)'
  BY DEF AllDoomed
<1>1. Doomed(u) /\ m_cached_playables'[u] = m_cached_playables[u]
  BY DEF AllDoomed
<1>2. CASE u \in prefetched
  BY <1>2 DEF Doomed
<1>3. CASE \E n \in Nodes : Url[n] = u /\ <<n, m_cached_playables[u]>> \in BagToSet(destroys)
  BY <1>1, <1>3 DEF Doomed
<1>4. CASE \E t \in Threads : /\ pc[t] \in {"schedule", "destroy"}
                              /\ victim[t] = m_cached_playables[u] /\ Url[node[t]] = u
  BY <1>1, <1>4 DEF Doomed
<1>5. CASE pc["gui"] \in {"stopReset", "stopDone"}
  BY <1>5 DEF Doomed
<1>. QED
  BY <1>1, <1>2, <1>3, <1>4, <1>5 DEF Doomed

LEMMA DoomedStep ==
  ASSUME Basic, Basic', AllDoomed, [Next]_vars
  PROVE  AllDoomed'
<1>1. ASSUME NEW t \in Threads, CreatePlayable(t) PROVE AllDoomed'
  <2>1. \A u \in Urls : m_cached_playables'[u] # 0 =>
            /\ m_cached_playables'[u] = m_cached_playables[u]
            /\ u \in prefetched => u \in prefetched'
    BY <1>1, CreateCases, PlayerAssumption DEF Basic, DataTypes, cache
  <2>2. BagToSet(destroys) \in SUBSET BagToSet(destroys')
    BY <1>1 DEF CreatePlayable
  <2>3. \A k \in Threads : pc[k] \in {"schedule", "destroy"} =>
            pc'[k] = pc[k] /\ victim'[k] = victim[k] /\ node'[k] = node[k]
    BY <1>1 DEF CreatePlayable, Go, Set, graph, cache, Basic, LocalTypes, Threads
  <2>4. pc["gui"] \in {"stopReset", "stopDone"} => pc'["gui"] \in {"stopReset", "stopDone"}
    BY <1>1 DEF CreatePlayable, Go, Set, graph, cache, Basic, LocalTypes, Threads
  <2>. QED
    BY <2>1, <2>2, <2>3, <2>4, StillDoomed
<1>2. ASSUME NEW t \in Threads, FinishStop(t) PROVE AllDoomed'
  <2>. DEFINE w == Url[node[t]]
  <2>1. /\ pc[t] = "stop" /\ UNCHANGED <<node, victim, destroys>>
        /\ \E l \in {"undefined", "exec", "schedule"} : pc' = [pc EXCEPT ![t] = l]
    BY <1>2, FinishCases DEF Basic, FinishStop
  <2>2. PICK l \in {"undefined", "exec", "schedule"} : pc' = [pc EXCEPT ![t] = l]
    BY <2>1
  <2>3. /\ pc'[t] = l /\ \A k \in Threads : k # t => pc'[k] = pc[k]
        /\ pc["gui"] \in {"stopReset", "stopDone"} => pc'["gui"] \in {"stopReset", "stopDone"}
        /\ \A k \in Threads : pc[k] \in {"schedule", "destroy"} =>
              pc'[k] = pc[k] /\ victim'[k] = victim[k] /\ node'[k] = node[k]
    BY <2>1, <2>2 DEF Basic, LocalTypes, Threads
  <2>4. CASE /\ w \in Urls /\ m_cached_playables' = [m_cached_playables EXCEPT ![w] = victim[t]]
             /\ \/ l = "exec" /\ prefetched' = prefetched \cup {w}
                \/ l = "schedule" /\ prefetched' = prefetched \ {w}
    <3>. SUFFICES ASSUME NEW u \in Urls, m_cached_playables'[u] # 0
                  PROVE  Doomed(u)'
      BY DEF AllDoomed
    <3>1. CASE u = w
      <4>1. m_cached_playables'[u] = victim[t]
        BY <2>4, <3>1 DEF Basic, DataTypes
      <4>2. CASE l = "exec"
        BY <2>4, <3>1, <4>2 DEF Doomed
      <4>3. CASE l = "schedule"
        BY <2>1, <2>3, <3>1, <4>1, <4>3 DEF Doomed
      <4>. QED
        BY <2>4, <4>2, <4>3
    <3>2. CASE u # w
      <4>1. /\ m_cached_playables'[u] = m_cached_playables[u]
            /\ u \in prefetched => u \in prefetched'
        BY <2>4, <3>2 DEF Basic, DataTypes
      <4>2. Doomed(u)
        BY <4>1 DEF AllDoomed
      <4>. QED
        BY <2>1, <2>3, <4>1, <4>2 DEF Doomed
    <3>. QED
      BY <3>1, <3>2
  <2>5. CASE \A u \in Urls : m_cached_playables'[u] # 0 =>
                /\ m_cached_playables'[u] = m_cached_playables[u]
                /\ u \in prefetched => u \in prefetched'
    BY <2>1, <2>3, <2>5, StillDoomed
  <2>6. CASE UNCHANGED cache
    BY <2>5, <2>6 DEF cache
  <2>7. CASE /\ can_cache[t] /\ w \in Urls
             /\ m_cached_playables' = [m_cached_playables EXCEPT ![w] = victim[t]]
             /\ \/ pc' = [pc EXCEPT ![t] = "exec"] /\ prefetched' = prefetched \cup {w}
                \/ pc' = [pc EXCEPT ![t] = "schedule"] /\ prefetched' = prefetched \ {w}
    <3>1. pc' = [pc EXCEPT ![t] = "exec"] => l = "exec"
      BY <2>3 DEF Basic, LocalTypes
    <3>2. pc' = [pc EXCEPT ![t] = "schedule"] => l = "schedule"
      BY <2>3 DEF Basic, LocalTypes
    <3>. QED
      BY <2>4, <2>7, <3>1, <3>2
  <2>8. CASE /\ \A u \in Urls : \/ m_cached_playables'[u] = m_cached_playables[u]
                                \/ u = w /\ m_cached_playables'[u] = 0
             /\ prefetched' = {u \in prefetched : m_cached_playables'[u] # 0}
    <3>1. \A u \in Urls : m_cached_playables'[u] # 0 =>
                /\ m_cached_playables'[u] = m_cached_playables[u]
                /\ u \in prefetched => u \in prefetched'
      BY <2>8
    <3>. QED
      BY <2>5, <3>1
  <2>9. \/ UNCHANGED cache
        \/ /\ can_cache[t] /\ w \in Urls
           /\ m_cached_playables' = [m_cached_playables EXCEPT ![w] = victim[t]]
           /\ \/ pc' = [pc EXCEPT ![t] = "exec"] /\ prefetched' = prefetched \cup {w}
              \/ pc' = [pc EXCEPT ![t] = "schedule"] /\ prefetched' = prefetched \ {w}
        \/ /\ \A u \in Urls : \/ m_cached_playables'[u] = m_cached_playables[u]
                              \/ u = w /\ m_cached_playables'[u] = 0
           /\ prefetched' = {u \in prefetched : m_cached_playables'[u] # 0}
    <3>1. DataTypes /\ LocalTypes /\ Locals
      BY DEF Basic
    <3>. QED
      BY <1>2, <3>1, FinishCases
  <2>. QED
    BY <2>6, <2>7, <2>8, <2>9
<1>3. ASSUME NEW t \in Threads, ScheduleDestroy(t) PROVE AllDoomed'
  <2>1. /\ node[t] \in Nodes /\ victim[t] \in Addresses /\ pc[t] = "schedule"
        /\ pc' = [pc EXCEPT ![t] = "exec"]
        /\ UNCHANGED <<m_cached_playables, prefetched, node, victim>>
    BY <1>3 DEF ScheduleDestroy, Basic, Locals, Go, cache
  <2>2. PICK e : e = <<node[t], victim[t]>>
    OBVIOUS
  <2>3. BagToSet(destroys') = BagToSet(destroys) \cup {e}
    <3>1. destroys' = destroys (+) SetToBag({e})
      BY <1>3, <2>2 DEF ScheduleDestroy
    <3>. QED
      BY <3>1, BagFacts
  <2>. SUFFICES ASSUME NEW u \in Urls, m_cached_playables[u] # 0
                PROVE  Doomed(u)'
    BY <2>1 DEF AllDoomed
  <2>4. Doomed(u)
    BY DEF AllDoomed
  <2>5. CASE u \in prefetched
    BY <2>1, <2>5 DEF Doomed
  <2>6. CASE \E n \in Nodes : Url[n] = u /\ <<n, m_cached_playables[u]>> \in BagToSet(destroys)
    BY <2>1, <2>3, <2>6 DEF Doomed
  <2>7. ASSUME NEW k \in Threads, pc[k] \in {"schedule", "destroy"},
               victim[k] = m_cached_playables[u], Url[node[k]] = u
        PROVE  Doomed(u)'
    <3>1. CASE k = t
      <4>1. Url[node[t]] = u /\ <<node[t], m_cached_playables[u]>> \in BagToSet(destroys')
        BY <2>2, <2>3, <2>7, <3>1
      <4>. QED
        BY <2>1, <4>1 DEF Doomed
    <3>2. CASE k # t
      <4>1. pc'[k] = pc[k]
        BY <2>1, <3>2 DEF Basic, LocalTypes
      <4>. QED
        BY <2>1, <2>7, <4>1 DEF Doomed
    <3>. QED
      BY <3>1, <3>2
  <2>8. CASE pc["gui"] \in {"stopReset", "stopDone"}
    <3>1. pc'["gui"] = pc["gui"]
      BY <2>1, <2>8 DEF Basic, LocalTypes, Threads
    <3>. QED
      BY <2>8, <3>1 DEF Doomed
  <2>. QED
    BY <2>4, <2>5, <2>6, <2>7, <2>8 DEF Doomed
<1>4. ASSUME NEW t \in Threads, TestLocked(t) PROVE AllDoomed'
  <2>1. UNCHANGED <<m_cached_playables, prefetched, destroys>>
    BY <1>4 DEF TestLocked, cache
  <2>2. \A k \in Threads : pc[k] \in {"schedule", "destroy"} =>
            pc'[k] = pc[k] /\ victim'[k] = victim[k] /\ node'[k] = node[k]
    BY <1>4 DEF TestLocked, Go, Set, graph, cache, Basic, LocalTypes, Threads
  <2>3. pc["gui"] \in {"stopReset", "stopDone"} => pc'["gui"] \in {"stopReset", "stopDone"}
    BY <1>4 DEF TestLocked, Go, Set, graph, cache, Basic, LocalTypes, Threads
  <2>. QED
    BY <2>1, <2>2, <2>3, StillDoomed
<1>5. ASSUME NEW t \in Threads, EnterExec(t) PROVE AllDoomed'
  <2>1. UNCHANGED <<m_cached_playables, prefetched, destroys>>
    BY <1>5 DEF EnterExec, cache
  <2>2. \A k \in Threads : pc[k] \in {"schedule", "destroy"} =>
            pc'[k] = pc[k] /\ victim'[k] = victim[k] /\ node'[k] = node[k]
    BY <1>5 DEF EnterExec, Go, Set, graph, cache, Basic, LocalTypes, Threads
  <2>3. pc["gui"] \in {"stopReset", "stopDone"} => pc'["gui"] \in {"stopReset", "stopDone"}
    BY <1>5 DEF EnterExec, Go, Set, graph, cache, Basic, LocalTypes, Threads
  <2>. QED
    BY <2>1, <2>2, <2>3, StillDoomed
<1>6. ASSUME NEW t \in Threads, EndRoot(t) PROVE AllDoomed'
  BY <1>6 DEF EndRoot, DonePlayback, NoEntries, AllDoomed
<1>7. ASSUME NEW t \in Threads, LeaveExec(t) PROVE AllDoomed'
  <2>1. UNCHANGED <<m_cached_playables, prefetched, destroys>>
    BY <1>7 DEF LeaveExec, cache
  <2>2. \A k \in Threads : pc[k] \in {"schedule", "destroy"} =>
            pc'[k] = pc[k] /\ victim'[k] = victim[k] /\ node'[k] = node[k]
    BY <1>7 DEF LeaveExec, Go, Set, graph, cache, Basic, LocalTypes, Threads
  <2>3. pc["gui"] \in {"stopReset", "stopDone"} => pc'["gui"] \in {"stopReset", "stopDone"}
    BY <1>7 DEF LeaveExec, Go, Set, graph, cache, Basic, LocalTypes, Threads
  <2>. QED
    BY <2>1, <2>2, <2>3, StillDoomed
<1>8. ASSUME NEW t \in Threads, Continued(t) PROVE AllDoomed'
  <2>1. UNCHANGED <<m_cached_playables, prefetched, destroys>>
    BY <1>8 DEF Continued, AfterExec, cache
  <2>2. \A k \in Threads : pc[k] \in {"schedule", "destroy"} =>
            pc'[k] = pc[k] /\ victim'[k] = victim[k] /\ node'[k] = node[k]
    BY <1>8 DEF Continued, AfterExec, Go, Set, graph, cache, Basic, LocalTypes, Threads
  <2>3. pc["gui"] \in {"stopReset", "stopDone"} => pc'["gui"] \in {"stopReset", "stopDone"}
    BY <1>8 DEF Continued, AfterExec, Go, Set, graph, cache, Basic, LocalTypes, Threads
  <2>. QED
    BY <2>1, <2>2, <2>3, StillDoomed
<1>9. ASSUME NEW t \in Threads, ResetDocument(t) PROVE AllDoomed'
  <2>1. \A k \in Threads : pc[k] \in {"schedule", "destroy"} =>
            pc'[k] = pc[k] /\ victim'[k] = victim[k] /\ node'[k] = node[k]
    BY <1>9 DEF ResetDocument, Go, Set, graph, cache, Basic, LocalTypes, Threads
  <2>2. pc["gui"] \in {"stopReset", "stopDone"} => pc'["gui"] \in {"stopReset", "stopDone"}
    BY <1>9 DEF ResetDocument, Go, Set, graph, cache, Basic, LocalTypes, Threads
  <2>3. CASE ResetNodes
    <3>1. \A u \in Urls : m_cached_playables'[u] # 0 =>
              /\ m_cached_playables'[u] = m_cached_playables[u]
              /\ u \in prefetched => u \in prefetched'
      BY <2>3 DEF ResetNodes
    <3>2. BagToSet(destroys) \in SUBSET BagToSet(destroys')
      BY <2>3, ResetEvents DEF Basic
    <3>. QED
      BY <2>1, <2>2, <3>1, <3>2, StillDoomed
  <2>. QED
    BY <1>9, <2>3 DEF ResetDocument
<1>10. ASSUME NEW t \in Threads, Leave(t) PROVE AllDoomed'
  <2>1. UNCHANGED <<m_cached_playables, prefetched, destroys>>
    BY <1>10 DEF Leave, cache
  <2>2. \A k \in Threads : pc[k] \in {"schedule", "destroy"} =>
            pc'[k] = pc[k] /\ victim'[k] = victim[k] /\ node'[k] = node[k]
    BY <1>10 DEF Leave, Go, Set, graph, cache, Basic, LocalTypes, Threads
  <2>3. pc["gui"] \in {"stopReset", "stopDone"} => pc'["gui"] \in {"stopReset", "stopDone"}
    BY <1>10 DEF Leave, Go, Set, graph, cache, Basic, LocalTypes, Threads
  <2>. QED
    BY <2>1, <2>2, <2>3, StillDoomed
<1>11. ASSUME NEW t \in Threads, NEW n \in Nodes, BeginNode(t, n) PROVE AllDoomed'
  <2>1. UNCHANGED <<m_cached_playables, prefetched, destroys>>
    BY <1>11 DEF BeginNode, InBatch, cache
  <2>2. \A k \in Threads : pc[k] \in {"schedule", "destroy"} =>
            pc'[k] = pc[k] /\ victim'[k] = victim[k] /\ node'[k] = node[k]
    BY <1>11 DEF BeginNode, InBatch, Go, Set, graph, cache, Basic, LocalTypes, Threads
  <2>3. pc["gui"] \in {"stopReset", "stopDone"} => pc'["gui"] \in {"stopReset", "stopDone"}
    BY <1>11 DEF BeginNode, InBatch, Go, Set, graph, cache, Basic, LocalTypes, Threads
  <2>. QED
    BY <2>1, <2>2, <2>3, StillDoomed
<1>12. ASSUME NEW t \in Threads, NEW n \in Nodes, FillNode(t, n) PROVE AllDoomed'
  <2>1. UNCHANGED <<m_cached_playables, prefetched, destroys>>
    BY <1>12 DEF FillNode, InBatch, cache
  <2>2. \A k \in Threads : pc[k] \in {"schedule", "destroy"} =>
            pc'[k] = pc[k] /\ victim'[k] = victim[k] /\ node'[k] = node[k]
    BY <1>12 DEF FillNode, InBatch, Go, Set, graph, cache, Basic, LocalTypes, Threads
  <2>3. pc["gui"] \in {"stopReset", "stopDone"} => pc'["gui"] \in {"stopReset", "stopDone"}
    BY <1>12 DEF FillNode, InBatch, Go, Set, graph, cache, Basic, LocalTypes, Threads
  <2>. QED
    BY <2>1, <2>2, <2>3, StillDoomed
<1>13. ASSUME NEW t \in Threads, NEW n \in Nodes, StopNode(t, n) PROVE AllDoomed'
  <2>1. UNCHANGED <<m_cached_playables, prefetched, destroys>>
    BY <1>13 DEF StopNode, InBatch, StopPlayable, cache
  <2>2. \A k \in Threads : pc[k] \in {"schedule", "destroy"} =>
            pc'[k] = pc[k] /\ victim'[k] = victim[k] /\ node'[k] = node[k]
    BY <1>13 DEF StopNode, InBatch, StopPlayable, Go, Set, graph, cache, Basic, LocalTypes, Threads
  <2>3. pc["gui"] \in {"stopReset", "stopDone"} => pc'["gui"] \in {"stopReset", "stopDone"}
    BY <1>13 DEF StopNode, InBatch, StopPlayable, Go, Set, graph, cache, Basic, LocalTypes, Threads
  <2>. QED
    BY <2>1, <2>2, <2>3, StillDoomed
<1>14. CASE Update
  <2>1. UNCHANGED <<m_cached_playables, prefetched, destroys>>
    BY <1>14 DEF Update, cache
  <2>2. \A k \in Threads : pc[k] \in {"schedule", "destroy"} =>
            pc'[k] = pc[k] /\ victim'[k] = victim[k] /\ node'[k] = node[k]
    BY <1>14 DEF Update, Go, Set, graph, cache, Basic, LocalTypes, Threads
  <2>3. pc["gui"] \in {"stopReset", "stopDone"} => pc'["gui"] \in {"stopReset", "stopDone"}
    BY <1>14 DEF Update, Go, Set, graph, cache, Basic, LocalTypes, Threads
  <2>. QED
    BY <2>1, <2>2, <2>3, StillDoomed
<1>15. CASE LockUpdate
  <2>1. UNCHANGED <<m_cached_playables, prefetched, destroys>>
    BY <1>15 DEF LockUpdate, cache
  <2>2. \A k \in Threads : pc[k] \in {"schedule", "destroy"} =>
            pc'[k] = pc[k] /\ victim'[k] = victim[k] /\ node'[k] = node[k]
    BY <1>15 DEF LockUpdate, Go, Set, graph, cache, Basic, LocalTypes, Threads
  <2>3. pc["gui"] \in {"stopReset", "stopDone"} => pc'["gui"] \in {"stopReset", "stopDone"}
    BY <1>15 DEF LockUpdate, Go, Set, graph, cache, Basic, LocalTypes, Threads
  <2>. QED
    BY <2>1, <2>2, <2>3, StillDoomed
<1>16. CASE TransitionedAsync
  <2>1. UNCHANGED <<m_cached_playables, prefetched, destroys>>
    BY <1>16 DEF TransitionedAsync, StopPlayable, cache
  <2>2. \A k \in Threads : pc[k] \in {"schedule", "destroy"} =>
            pc'[k] = pc[k] /\ victim'[k] = victim[k] /\ node'[k] = node[k]
    BY <1>16 DEF TransitionedAsync, StopPlayable, Go, Set, graph, cache, Basic, LocalTypes, Threads
  <2>3. pc["gui"] \in {"stopReset", "stopDone"} => pc'["gui"] \in {"stopReset", "stopDone"}
    BY <1>16 DEF TransitionedAsync, StopPlayable, Go, Set, graph, cache, Basic, LocalTypes, Threads
  <2>. QED
    BY <2>1, <2>2, <2>3, StillDoomed
<1>17. CASE Goto
  <2>1. \A k \in Threads : pc[k] \in {"schedule", "destroy"} =>
            pc'[k] = pc[k] /\ victim'[k] = victim[k] /\ node'[k] = node[k]
    BY <1>17 DEF Goto, Go, Set, graph, cache, Basic, LocalTypes, Threads
  <2>2. pc["gui"] \in {"stopReset", "stopDone"} => pc'["gui"] \in {"stopReset", "stopDone"}
    BY <1>17 DEF Goto, Go, Set, graph, cache, Basic, LocalTypes, Threads
  <2>3. CASE ResetNodes
    <3>1. \A u \in Urls : m_cached_playables'[u] # 0 =>
              /\ m_cached_playables'[u] = m_cached_playables[u]
              /\ u \in prefetched => u \in prefetched'
      BY <2>3 DEF ResetNodes
    <3>2. BagToSet(destroys) \in SUBSET BagToSet(destroys')
      BY <2>3, ResetEvents DEF Basic
    <3>. QED
      BY <2>1, <2>2, <3>1, <3>2, StillDoomed
  <2>4. CASE UNCHANGED <<cache, destroys>>
    BY <2>1, <2>2, <2>4, StillDoomed DEF cache
  <2>. QED
    BY <1>17, <2>3, <2>4 DEF Goto
<1>18. CASE DestroyPlayableInCache
  <2>. DEFINE n == node["worker"]
              p == victim["worker"]
  <2>1. /\ pc["worker"] = "destroy" /\ pc'["worker"] = "leave" /\ pc'["gui"] = pc["gui"]
        /\ n \in Nodes /\ p \in Addresses /\ 0 \notin Addresses
        /\ UNCHANGED <<node, victim, destroys>>
    BY <1>18, PlayerAssumption DEF DestroyPlayableInCache, Go, Basic, LocalTypes, Locals, Threads
  <2>2. /\ \A u \in Urls : m_cached_playables'[u] = IF m_cached_playables[u] = Reclaimed(n, p) THEN 0
                                                    ELSE m_cached_playables[u]
        /\ prefetched' = {u \in prefetched : m_cached_playables'[u] # 0}
    BY <1>18 DEF DestroyPlayableInCache
  <2>. HIDE DEF n, p
  <2>. SUFFICES ASSUME NEW u \in Urls, m_cached_playables'[u] # 0
                PROVE  Doomed(u)'
    BY DEF AllDoomed
  <2>3. m_cached_playables'[u] = m_cached_playables[u] /\ m_cached_playables[u] # Reclaimed(n, p)
    BY <2>2
  <2>4. Doomed(u)
    BY <2>3 DEF AllDoomed
  <2>5. CASE u \in prefetched
    BY <2>2, <2>5 DEF Doomed
  <2>6. CASE \E k \in Nodes : Url[k] = u /\ <<k, m_cached_playables[u]>> \in BagToSet(destroys)
    BY <2>1, <2>3, <2>6 DEF Doomed
  <2>7. ASSUME NEW k \in Threads, pc[k] \in {"schedule", "destroy"},
               victim[k] = m_cached_playables[u], Url[node[k]] = u
        PROVE  Doomed(u)'
    <3>1. CASE k = "worker"
      <4>1. Url[n] = u /\ p = m_cached_playables[u]
        BY <2>7, <3>1 DEF n, p
      <4>2. Reclaimed(n, p) = p
        BY <4>1, PlayerAssumption DEF Reclaimed, Find
      <4>. QED
        BY <2>3, <4>1, <4>2
    <3>2. CASE k = "gui"
      BY <2>1, <2>3, <2>7, <3>2 DEF Doomed
    <3>. QED
      BY <3>1, <3>2 DEF Threads
  <2>8. CASE pc["gui"] \in {"stopReset", "stopDone"}
    BY <2>1, <2>8 DEF Doomed
  <2>. QED
    BY <2>4, <2>5, <2>6, <2>7, <2>8 DEF Doomed
<1>19. CASE StartRoot
  <2>1. \A k \in Threads : pc[k] \in {"schedule", "destroy"} =>
            pc'[k] = pc[k] /\ victim'[k] = victim[k] /\ node'[k] = node[k]
    BY <1>19 DEF StartRoot, Go, Set, graph, cache, Basic, LocalTypes, Threads
  <2>2. pc["gui"] \in {"stopReset", "stopDone"} => pc'["gui"] \in {"stopReset", "stopDone"}
    BY <1>19 DEF StartRoot, Go, Set, graph, cache, Basic, LocalTypes, Threads
  <2>3. CASE ResetNodes
    <3>1. \A u \in Urls : m_cached_playables'[u] # 0 =>
              /\ m_cached_playables'[u] = m_cached_playables[u]
              /\ u \in prefetched => u \in prefetched'
      BY <2>3 DEF ResetNodes
    <3>2. BagToSet(destroys) \in SUBSET BagToSet(destroys')
      BY <2>3, ResetEvents DEF Basic
    <3>. QED
      BY <2>1, <2>2, <3>1, <3>2, StillDoomed
  <2>4. CASE UNCHANGED <<cache, destroys>>
    BY <2>1, <2>2, <2>4, StillDoomed DEF cache
  <2>. QED
    BY <1>19, <2>3, <2>4 DEF StartRoot
<1>20. CASE StopLock
  <2>1. CASE pc' = [pc EXCEPT !["gui"] = "stopReset"]
    BY <2>1 DEF AllDoomed, Doomed, Basic, LocalTypes, Threads
  <2>2. CASE pc' = [pc EXCEPT !["gui"] = "idle"] /\ UNCHANGED destroys
    <3>1. \A k \in Threads : pc[k] \in {"schedule", "destroy"} =>
            pc'[k] = pc[k] /\ victim'[k] = victim[k] /\ node'[k] = node[k]
      BY <1>20, <2>2 DEF StopLock, Basic, LocalTypes, Threads
    <3>2. pc["gui"] = "stopLock" /\ UNCHANGED <<m_cached_playables, prefetched>>
      BY <1>20 DEF StopLock, cache
    <3>. QED
      BY <2>2, <3>1, <3>2, StillDoomed
  <2>. QED
    BY <1>20, <2>1, <2>2 DEF StopLock, Go
<1>21. CASE StopReset
  <2>1. \A k \in Threads : pc[k] \in {"schedule", "destroy"} =>
            pc'[k] = pc[k] /\ victim'[k] = victim[k] /\ node'[k] = node[k]
    BY <1>21 DEF StopReset, Go, Set, graph, cache, Basic, LocalTypes, Threads
  <2>2. pc["gui"] \in {"stopReset", "stopDone"} => pc'["gui"] \in {"stopReset", "stopDone"}
    BY <1>21 DEF StopReset, Go, Set, graph, cache, Basic, LocalTypes, Threads
  <2>3. CASE ResetNodes
    <3>1. \A u \in Urls : m_cached_playables'[u] # 0 =>
              /\ m_cached_playables'[u] = m_cached_playables[u]
              /\ u \in prefetched => u \in prefetched'
      BY <2>3 DEF ResetNodes
    <3>2. BagToSet(destroys) \in SUBSET BagToSet(destroys')
      BY <2>3, ResetEvents DEF Basic
    <3>. QED
      BY <2>1, <2>2, <3>1, <3>2, StillDoomed
  <2>. QED
    BY <1>21, <2>3 DEF StopReset
<1>22. CASE StopDone
  BY <1>22 DEF StopDone, DonePlayback, NoEntries, AllDoomed
<1>23. CASE Start
  <2>1. UNCHANGED <<m_cached_playables, prefetched, destroys>>
    BY <1>23 DEF Start, Command, cache
  <2>2. \A k \in Threads : pc[k] \in {"schedule", "destroy"} =>
            pc'[k] = pc[k] /\ victim'[k] = victim[k] /\ node'[k] = node[k]
    BY <1>23 DEF Start, Command, Go, Set, graph, cache, Basic, LocalTypes, Threads
  <2>3. pc["gui"] \in {"stopReset", "stopDone"} => pc'["gui"] \in {"stopReset", "stopDone"}
    BY <1>23 DEF Start, Command, Go, Set, graph, cache, Basic, LocalTypes, Threads
  <2>. QED
    BY <2>1, <2>2, <2>3, StillDoomed
<1>24. CASE Pause
  <2>1. UNCHANGED <<m_cached_playables, prefetched, destroys>>
    BY <1>24 DEF Pause, Command, cache
  <2>2. \A k \in Threads : pc[k] \in {"schedule", "destroy"} =>
            pc'[k] = pc[k] /\ victim'[k] = victim[k] /\ node'[k] = node[k]
    BY <1>24 DEF Pause, Command, Go, Set, graph, cache, Basic, LocalTypes, Threads
  <2>3. pc["gui"] \in {"stopReset", "stopDone"} => pc'["gui"] \in {"stopReset", "stopDone"}
    BY <1>24 DEF Pause, Command, Go, Set, graph, cache, Basic, LocalTypes, Threads
  <2>. QED
    BY <2>1, <2>2, <2>3, StillDoomed
<1>25. CASE Resume
  <2>1. UNCHANGED <<m_cached_playables, prefetched, destroys>>
    BY <1>25 DEF Resume, Command, cache
  <2>2. \A k \in Threads : pc[k] \in {"schedule", "destroy"} =>
            pc'[k] = pc[k] /\ victim'[k] = victim[k] /\ node'[k] = node[k]
    BY <1>25 DEF Resume, Command, Go, Set, graph, cache, Basic, LocalTypes, Threads
  <2>3. pc["gui"] \in {"stopReset", "stopDone"} => pc'["gui"] \in {"stopReset", "stopDone"}
    BY <1>25 DEF Resume, Command, Go, Set, graph, cache, Basic, LocalTypes, Threads
  <2>. QED
    BY <2>1, <2>2, <2>3, StillDoomed
<1>26. CASE Stop
  BY <1>26 DEF Stop, NoEntries, AllDoomed
<1>27. CASE Clicked
  <2>1. UNCHANGED <<m_cached_playables, prefetched, destroys>>
    BY <1>27 DEF Clicked, cache
  <2>2. \A k \in Threads : pc[k] \in {"schedule", "destroy"} =>
            pc'[k] = pc[k] /\ victim'[k] = victim[k] /\ node'[k] = node[k]
    BY <1>27 DEF Clicked, Go, Set, graph, cache, Basic, LocalTypes, Threads
  <2>3. pc["gui"] \in {"stopReset", "stopDone"} => pc'["gui"] \in {"stopReset", "stopDone"}
    BY <1>27 DEF Clicked, Go, Set, graph, cache, Basic, LocalTypes, Threads
  <2>. QED
    BY <2>1, <2>2, <2>3, StillDoomed
<1>28. ASSUME NEW n \in Nodes, Transitioned(n) PROVE AllDoomed'
  <2>1. UNCHANGED <<m_cached_playables, prefetched, destroys>>
    BY <1>28 DEF Transitioned, cache
  <2>2. \A k \in Threads : pc[k] \in {"schedule", "destroy"} =>
            pc'[k] = pc[k] /\ victim'[k] = victim[k] /\ node'[k] = node[k]
    BY <1>28 DEF Transitioned, Go, Set, graph, cache, Basic, LocalTypes, Threads
  <2>3. pc["gui"] \in {"stopReset", "stopDone"} => pc'["gui"] \in {"stopReset", "stopDone"}
    BY <1>28 DEF Transitioned, Go, Set, graph, cache, Basic, LocalTypes, Threads
  <2>. QED
    BY <2>1, <2>2, <2>3, StillDoomed
<1>29. ASSUME NEW e \in BagToSet(destroys), Destroy(e) PROVE AllDoomed'
  <2>1. /\ pc["worker"] = "idle" /\ pc' = [pc EXCEPT !["worker"] = "destroy"]
        /\ node' = [node EXCEPT !["worker"] = e[1]]
        /\ victim' = [victim EXCEPT !["worker"] = e[2]]
        /\ UNCHANGED <<m_cached_playables, prefetched>>
        /\ destroys' = destroys (-) SetToBag({e})
    BY <1>29 DEF Destroy, Go, Set, cache
  <2>2. BagToSet(destroys) \ {e} \subseteq BagToSet(destroys')
    BY <2>1, BagWithout DEF Basic, Events
  <2>3. pc'["worker"] = "destroy" /\ node'["worker"] = e[1] /\ victim'["worker"] = e[2]
        /\ pc'["gui"] = pc["gui"] /\ node'["gui"] = node["gui"] /\ victim'["gui"] = victim["gui"]
    BY <2>1 DEF Basic, LocalTypes, Threads
  <2>. SUFFICES ASSUME NEW u \in Urls, m_cached_playables[u] # 0
                PROVE  Doomed(u)'
    BY <2>1 DEF AllDoomed
  <2>4. Doomed(u)
    BY DEF AllDoomed
  <2>5. CASE u \in prefetched
    BY <2>1, <2>5 DEF Doomed
  <2>6. ASSUME NEW n \in Nodes, Url[n] = u, <<n, m_cached_playables[u]>> \in BagToSet(destroys)
        PROVE  Doomed(u)'
    <3>1. CASE e = <<n, m_cached_playables[u]>>
      <4>1. e[1] = n /\ e[2] = m_cached_playables[u]
        BY <3>1
      <4>. QED
        BY <2>1, <2>3, <2>6, <4>1 DEF Doomed, Threads
    <3>2. CASE e # <<n, m_cached_playables[u]>>
      BY <2>1, <2>2, <2>6, <3>2 DEF Doomed
    <3>. QED
      BY <3>1, <3>2
  <2>7. CASE \E k \in Threads : /\ pc[k] \in {"schedule", "destroy"}
                                /\ victim[k] = m_cached_playables[u] /\ Url[node[k]] = u
    BY <2>1, <2>3, <2>7 DEF Doomed, Threads
  <2>8. CASE pc["gui"] \in {"stopReset", "stopDone"}
    BY <2>3, <2>8 DEF Doomed
  <2>. QED
    BY <2>4, <2>5, <2>6, <2>7, <2>8 DEF Doomed
<1>30. CASE UNCHANGED vars
  BY <1>30 DEF vars, graph, cache, locals, Go, Set, graph, cache, Basic, LocalTypes, Threads,
     AllDoomed, Doomed
<1>. QED
  BY <1>1, <1>2, <1>3, <1>4, <1>5, <1>6, <1>7, <1>8, <1>9, <1>10, <1>11, <1>12, <1>13, <1>14,
     <1>15, <1>16, <1>17, <1>18, <1>19, <1>20, <1>21, <1>22, <1>23, <1>24, <1>25, <1>26, <1>27,
     <1>28, <1>29, <1>30 DEF Next, ThreadStep, WorkerStep, GuiStep, Request

\* A thread that used an invalid iterator does nothing more.
LEMMA UndefinedStep ==
  ASSUME Basic, Undefined, [Next]_vars
  PROVE  Undefined'
<1>. SUFFICES ASSUME NEW s \in Threads, pc[s] = "undefined"
              PROVE  pc'[s] = "undefined"
  BY DEF Undefined
<1>1. ASSUME NEW t \in Threads, CreatePlayable(t) PROVE pc'[s] = "undefined"
  BY <1>1 DEF CreatePlayable, Go, Set, Basic, LocalTypes, Threads
<1>2. ASSUME NEW t \in Threads, FinishStop(t) PROVE pc'[s] = "undefined"
  BY <1>2 DEF FinishStop, Go, Set, Basic, LocalTypes, Threads
<1>3. ASSUME NEW t \in Threads, ScheduleDestroy(t) PROVE pc'[s] = "undefined"
  BY <1>3 DEF ScheduleDestroy, Go, Set, Basic, LocalTypes, Threads
<1>4. ASSUME NEW t \in Threads, TestLocked(t) PROVE pc'[s] = "undefined"
  BY <1>4 DEF TestLocked, Go, Set, Basic, LocalTypes, Threads
<1>5. ASSUME NEW t \in Threads, EnterExec(t) PROVE pc'[s] = "undefined"
  BY <1>5 DEF EnterExec, Go, Set, Basic, LocalTypes, Threads
<1>6. ASSUME NEW t \in Threads, EndRoot(t) PROVE pc'[s] = "undefined"
  BY <1>6 DEF EndRoot, InBatch, Go, Set, Basic, LocalTypes, Threads
<1>7. ASSUME NEW t \in Threads, LeaveExec(t) PROVE pc'[s] = "undefined"
  BY <1>7 DEF LeaveExec, Go, Set, Basic, LocalTypes, Threads
<1>8. ASSUME NEW t \in Threads, Continued(t) PROVE pc'[s] = "undefined"
  BY <1>8 DEF Continued, AfterExec, Go, Set, Basic, LocalTypes, Threads
<1>9. ASSUME NEW t \in Threads, ResetDocument(t) PROVE pc'[s] = "undefined"
  BY <1>9 DEF ResetDocument, Go, Set, Basic, LocalTypes, Threads
<1>10. ASSUME NEW t \in Threads, Leave(t) PROVE pc'[s] = "undefined"
  BY <1>10 DEF Leave, Go, Set, Basic, LocalTypes, Threads
<1>11. ASSUME NEW t \in Threads, NEW n \in Nodes, BeginNode(t, n) PROVE pc'[s] = "undefined"
  BY <1>11 DEF BeginNode, InBatch, Go, Set, Basic, LocalTypes, Threads
<1>12. ASSUME NEW t \in Threads, NEW n \in Nodes, FillNode(t, n) PROVE pc'[s] = "undefined"
  BY <1>12 DEF FillNode, InBatch, Go, Set, Basic, LocalTypes, Threads
<1>13. ASSUME NEW t \in Threads, NEW n \in Nodes, StopNode(t, n) PROVE pc'[s] = "undefined"
  BY <1>13 DEF StopNode, InBatch, StopPlayable, Go, Set, Basic, LocalTypes, Threads
<1>14. CASE Update
  BY <1>14 DEF Update, Go, Set, Basic, LocalTypes, Threads
<1>15. CASE LockUpdate
  BY <1>15 DEF LockUpdate, Go, Set, Basic, LocalTypes, Threads
<1>16. CASE TransitionedAsync
  BY <1>16 DEF TransitionedAsync, StopPlayable, Go, Set, Basic, LocalTypes, Threads
<1>17. CASE Goto
  BY <1>17 DEF Goto, Go, Set, Basic, LocalTypes, Threads
<1>18. CASE DestroyPlayableInCache
  BY <1>18 DEF DestroyPlayableInCache, Go, Set, Basic, LocalTypes, Threads
<1>19. CASE StartRoot
  BY <1>19 DEF StartRoot, Go, Set, Basic, LocalTypes, Threads
<1>20. CASE StopLock
  BY <1>20 DEF StopLock, Go, Set, Basic, LocalTypes, Threads
<1>21. CASE StopReset
  BY <1>21 DEF StopReset, Go, Set, Basic, LocalTypes, Threads
<1>22. CASE StopDone
  BY <1>22 DEF StopDone, Go, Set, Basic, LocalTypes, Threads
<1>23. CASE Start
  BY <1>23 DEF Start, Command, Go, Set, Basic, LocalTypes, Threads
<1>24. CASE Pause
  BY <1>24 DEF Pause, Command, Go, Set, Basic, LocalTypes, Threads
<1>25. CASE Resume
  BY <1>25 DEF Resume, Command, Go, Set, Basic, LocalTypes, Threads
<1>26. CASE Stop
  BY <1>26 DEF Stop, Command, Go, Set, Basic, LocalTypes, Threads
<1>27. CASE Clicked
  BY <1>27 DEF Clicked, Go, Set, Basic, LocalTypes, Threads
<1>28. ASSUME NEW n \in Nodes, Transitioned(n) PROVE pc'[s] = "undefined"
  BY <1>28 DEF Transitioned, Go, Set, Basic, LocalTypes, Threads
<1>29. ASSUME NEW e \in BagToSet(destroys), Destroy(e) PROVE pc'[s] = "undefined"
  BY <1>29 DEF Destroy, Go, Set, Basic, LocalTypes, Threads
<1>30. CASE UNCHANGED vars
  BY <1>30 DEF vars, locals, Go, Set, Basic, LocalTypes, Threads
<1>. QED
  BY <1>1, <1>2, <1>3, <1>4, <1>5, <1>6, <1>7, <1>8, <1>9, <1>10, <1>11, <1>12, <1>13, <1>14,
     <1>15, <1>16, <1>17, <1>18, <1>19, <1>20, <1>21, <1>22, <1>23, <1>24, <1>25, <1>26, <1>27,
     <1>28, <1>29, <1>30 DEF Next, ThreadStep, WorkerStep, GuiStep, Request

LEMMA AlwaysClean == Spec => []Clean
<1>1. Init => Chain /\ Clean
  BY DEF Init, Chain, Clean, Threads, NothingHeld, NothingCached
<1>2. Basic /\ Chain /\ Clean /\ [Next]_vars => Chain' /\ Clean'
  BY BasicStep, ChainStep, CleanStep
<1>. QED
  BY <1>1, <1>2, AlwaysBasic, PTL DEF Spec

-----------------------------------------------------------------------------
(* Theorems *)

\* The variables keep their types, there are never more update events than
\* requests to start, and whoever is within exec owns the scheduler's lock.
THEOREM TypeCorrect == Spec => []TypeOK
<1>1. Basic => TypeOK
  <2>. SUFFICES ASSUME Basic PROVE TypeOK
    OBVIOUS
  <2>1. updates \in 0..MaxCommands + MaxPosts
    <3>1. PICK g \in {0, 1}, w \in {0, 1} : g = Owed("gui") /\ w = Owed("worker")
      BY DEF Owed
    <3>2. updates + g + w <= commands + posts /\ updates \in Nat
          /\ commands \in 0..MaxCommands /\ posts \in 0..MaxPosts
      BY <3>1 DEF Basic, Counts
    <3>. QED
      BY <3>2, Bounds
  <2>2. /\ DataTypes /\ IsABag(destroys) /\ pc["gui"] \in GuiLabels /\ pc["worker"] \in WorkerLabels
        /\ \A t \in Threads : pc[t] \in Busy => sched = t
    BY DEF Basic, LocalTypes, Locals, Events
  <2>. QED
    BY <2>1, <2>2 DEF DataTypes, Busy, TypeOK
<1>. QED
  BY <1>1, AlwaysBasic, PTL

\* While a document without hyperlinks plays, _update will be called again,
\* whatever the user does and whichever callbacks meet it, and the clock of
\* the player runs exactly in state playing.
THEOREM PlaysOn == Spec => []KeepsPlaying
<1>1. Init => Chain
  BY DEF Init, Chain, Threads
<1>2. Basic /\ Chain /\ [Next]_vars => Chain'
  BY ChainStep
<1>3. Basic /\ Chain => KeepsPlaying
  <2>. SUFFICES ASSUME Basic, Chain, ~linked, pc["gui"] = "idle"
                PROVE  /\ root = "active" /\ ~Undefined =>
                             updates > 0 \/ pc["worker"] \in {"update", "test", "lock", "after"}
                                         \/ (sched = "worker" /\ ret["worker"] = "update")
                       /\ timer <=> m_state = "playing"
    BY DEF KeepsPlaying
  <2>1. ~Posting(pc["gui"], ret["gui"])
    BY DEF Posting, Busy
  <2>2. Posting(pc["worker"], ret["worker"]) =>
           \/ pc["worker"] \in {"update", "test", "lock", "after"}
           \/ sched = "worker" /\ ret["worker"] = "update"
    BY DEF Basic, LocalTypes, Locals, Chain, Posting, Busy, Threads, WorkerLabels, Labels
  <2>3. root = "active" /\ ~Undefined => updates > 0 \/ \E t \in Threads : Posting(pc[t], ret[t])
    BY DEF Chain
  <2>4. timer <=> m_state = "playing"
    BY DEF Chain
  <2>. QED
    BY <2>1, <2>2, <2>3, <2>4 DEF Threads
<1>. QED
  BY <1>1, <1>2, <1>3, AlwaysBasic, PTL DEF Spec

\* When a document without hyperlinks has ended or was stopped, no playable is
\* left in m_playables or in the cache, and the root is inactive.
THEOREM EndsClean == Spec => []StopsClean
<1>1. Basic /\ Clean => StopsClean
  <2>. SUFFICES ASSUME Basic, Clean, ~linked, m_state = "done", pc["gui"] = "idle",
                       pc["worker"] \notin {"exec", "after", "reset"}
                PROVE  root = "inactive" /\ Held = {} /\ Cached = {}
    BY DEF StopsClean
  <2>1. root = "inactive" /\ NothingCached
    BY DEF Clean, Basic, DataTypes
  <2>2. NothingHeld
    BY DEF Clean, WillReset, Threads
  <2>. QED
    BY <2>1, <2>2 DEF NothingHeld, NothingCached, Held, Cached
<1>. QED
  BY <1>1, AlwaysBasic, AlwaysClean, PTL

\* Until a thread has used an iterator that another one invalidated, nobody
\* holds a released playable, no playable has two owners, none is leaked but the
\* first of the two that a node with a transition creates, and what was cached will be destroyed, whatever interleaving of commands,
\* updates, transitions and hyperlinks.
THEOREM PlayablesAreOwned == Spec => []PlayablesOwned
<1>. DEFINE Inv == Undefined \/ (Sound /\ AllDoomed)
<1>1. Init => Inv
  BY PlayerAssumption DEF Init, Sound, AllDoomed, Threads
<1>2. Basic /\ Basic' /\ Inv /\ [Next]_vars => Inv'
  BY SoundStep, DoomedStep, UndefinedStep
<1>3. Basic /\ Inv => PlayablesOwned
  <2>. SUFFICES ASSUME Basic, Sound, AllDoomed PROVE PlayablesOwned
    BY DEF PlayablesOwned
  <2>1. \A u \in Urls : m_cached_playables[u] # 0 =>
          \/ u \in prefetched
          \/ \E n \in Nodes : BagIn(<<n, m_cached_playables[u]>>, destroys)
          \/ \E t \in Threads : pc[t] \in {"schedule", "destroy"}
                                  /\ victim[t] = m_cached_playables[u]
          \/ pc["gui"] \in {"stopReset", "stopDone"}
    BY DEF AllDoomed, Doomed, BagIn
  <2>2. \A p \in Addresses : life[p] \notin {"free", "lost"} =>
          p \in Held \cup Cached \cup {victim[t] : t \in {k \in Threads : pc[k] = "stop"}}
    BY PlayerAssumption DEF Sound, Held, Cached
  <2>. QED
    BY <2>1, <2>2 DEF Sound, PlayablesOwned
<1>. QED
  BY <1>1, <1>2, <1>3, AlwaysBasic, PTL DEF Spec
=============================================================================

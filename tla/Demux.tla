------------------------------- MODULE Demux -------------------------------
(***************************************************************************)
(* ffmpeg_demux (net/ffmpeg_common.cpp) and its demux_datasources          *)
(* (net/demux_datasource.cpp).  One thread reads the packets of a file and *)
(* hands each to the datasource of its stream; a decoder per stream takes  *)
(* them out again, asks to be called back when there is nothing to take,   *)
(* and seeks and stops.                                                    *)
(*                                                                         *)
(* Two kinds of locks matter: m_lock of the demultiplexer and m_lock of    *)
(* each datasource.  The thread holds the former in pc "flush" and "eof",  *)
(* where it waits for the latter; a decoder holds the latter in cpc        *)
(* "seek", where it waits for the former.  All other critical sections are *)
(* single steps.                                                           *)
(***************************************************************************)
EXTENDS DemuxDatasource, FiniteSets

CONSTANTS
    NumStreams,             \* streams with a datasource
    File,                   \* the stream of each packet, in file order
    ClipBegins,             \* where playback may begin
    SeekTimes,              \* where decoders may seek to
    MaxSeeks                \* bound on the number of seeks

Streams == 1..NumStreams
Positions == 1..Len(File)

ASSUME DemuxAssumption ==
    /\ NumStreams \in Nat \ {0}
    /\ File \in Seq(Streams) /\ File # <<>>
    /\ ClipBegins \subseteq Positions /\ ClipBegins # {}
    /\ SeekTimes \subseteq Positions
    /\ MaxSeeks \in Nat

VARIABLES
    pc,                     \* where the thread is in ffmpeg_demux::run
    sinkno,                 \* the stream a loop over m_sinks has come to
    pkt,                    \* the packet that is being pushed, or None
    accepted,               \* result of the last push_data of that packet
    seektime,               \* the position av_seek_frame is called with, or None
    filepos,                \* where m_con will read next
    eof_sent_to_clients,
    m_sinks,                \* streams that have a sink
    m_clip_begin,
    m_clip_begin_changed,
    exit_requested,
    ds,                     \* the datasources
    cpc,                    \* what the decoder of a stream is doing
    refs,                   \* reference counts of the datasources
    seeks,                  \* number of seeks asked for
    gen,                    \* number of seeks carried out on the file
    got                     \* the last packet each decoder took

run == <<pc, sinkno, pkt, accepted, seektime, filepos, eof_sent_to_clients>>
shared == <<m_sinks, m_clip_begin, m_clip_begin_changed, exit_requested>>
vars == <<run, shared, ds, cpc, refs, seeks, gen, got>>

None == 0                   \* a local variable of run() out of its scope
Packet(flag, pos) == [flag |-> flag, pos |-> pos, gen |-> gen]
NoData == [flag |-> "nodata", pos |-> 0, gen |-> 0]
----------------------------------------------------------------------------
Init ==
    /\ m_clip_begin \in ClipBegins
    /\ m_clip_begin_changed = (m_clip_begin # 1)
    /\ m_sinks = Streams
    /\ exit_requested = FALSE
    /\ ds = [s \in Streams |-> NewDatasource(m_clip_begin)]
    /\ refs = [s \in Streams |-> 2]
    /\ pc = "none" /\ sinkno = 1 /\ pkt = None /\ accepted = FALSE
    /\ seektime = None /\ filepos = 1 /\ eof_sent_to_clients = FALSE
    /\ cpc = [s \in Streams |-> "idle"]
    /\ seeks = 0 /\ gen = 0
    /\ got = [s \in Streams |-> NoData]
----------------------------------------------------------------------------
(* ffmpeg_demux::run *)

\* The top of the while loop, with m_lock held.
LoopTop(eofSent) ==
    LET seek == ~exit_requested /\ m_clip_begin_changed
    IN  /\ pc' = IF exit_requested THEN "exit" ELSE IF seek THEN "seek" ELSE "read"
        /\ seektime' = IF seek THEN m_clip_begin ELSE None
        /\ eof_sent_to_clients' = (eofSent /\ ~seek)
        /\ pkt' = None /\ accepted' = FALSE

\* The thread begins, or wakes up from its sleep at the end of the file.
Loop ==
    /\ pc = "loop"
    /\ LoopTop(eof_sent_to_clients)
    /\ UNCHANGED <<sinkno, filepos, shared, ds, cpc, refs, seeks, gen, got>>

\* av_seek_frame is called without m_lock, and may fail.
SeekFrame ==
    /\ pc = "seek"
    /\ filepos' \in {seektime, filepos}
    /\ seektime' = None
    /\ gen' = gen + 1
    /\ m_clip_begin_changed' = FALSE
    /\ pc' = "flush" /\ sinkno' = 1
    /\ UNCHANGED <<pkt, accepted, eof_sent_to_clients, m_sinks, m_clip_begin,
                   exit_requested, ds, cpc, refs, seeks, got>>

\* A loop over m_sinks comes to the next sink, which gets packet p.
PushToSink(p) ==
    /\ sinkno \in m_sinks => cpc[sinkno] # "seek"
    /\ ds' = IF sinkno \in m_sinks
             THEN [ds EXCEPT ![sinkno] = PushData(@, p)]
             ELSE ds

PushFlush ==
    /\ pc = "flush"
    /\ PushToSink(Packet("flush", 0))
    /\ IF sinkno < NumStreams
       THEN sinkno' = sinkno + 1 /\ UNCHANGED pc
       ELSE pc' = "read" /\ UNCHANGED sinkno
    /\ UNCHANGED <<pkt, accepted, seektime, filepos, eof_sent_to_clients, shared,
                   cpc, refs, seeks, gen, got>>

PushEof ==
    /\ pc = "eof"
    /\ PushToSink(Packet("eof", 0))
    /\ IF sinkno < NumStreams
       THEN sinkno' = sinkno + 1 /\ UNCHANGED <<pc, eof_sent_to_clients>>
       ELSE pc' = "loop" /\ eof_sent_to_clients' = TRUE /\ UNCHANGED sinkno
    /\ UNCHANGED <<pkt, accepted, seektime, filepos, shared, cpc, refs, seeks, gen, got>>

\* The condition under which the packet is pushed (again) to the sink of s.
KeepPushing(s) == s \in m_sinks /\ ~exit_requested /\ ~m_clip_begin_changed

\* av_read_frame, called without m_lock, gives a packet.
ReadPacket ==
    /\ pc = "read" /\ filepos <= Len(File)
    /\ filepos' = filepos + 1
    /\ LET s == File[filepos]
       IN  IF KeepPushing(s)
           THEN /\ pc' = "push" /\ pkt' = filepos
                /\ refs' = [refs EXCEPT ![s] = @ + 1]
                /\ eof_sent_to_clients' = FALSE /\ UNCHANGED <<seektime, accepted>>
           ELSE /\ LoopTop(eof_sent_to_clients /\ s \notin m_sinks)
                /\ UNCHANGED refs
    /\ UNCHANGED <<sinkno, shared, ds, cpc, seeks, gen, got>>

\* av_read_frame fails at the end of the file.
ReadEof ==
    /\ pc = "read" /\ filepos > Len(File)
    /\ pc' = IF eof_sent_to_clients THEN "loop" ELSE "eof"
    /\ sinkno' = 1
    /\ UNCHANGED <<pkt, accepted, seektime, filepos, eof_sent_to_clients, shared,
                   ds, cpc, refs, seeks, gen, got>>

\* push_data to the sink that m_current_sink points to, without m_lock.
Push ==
    /\ pc = "push"
    /\ LET s == File[pkt]
       IN  /\ cpc[s] # "seek"
           /\ accepted' = Accepts(ds[s])
           /\ ds' = [ds EXCEPT ![s] = PushData(@, Packet("avpacket", pkt))]
    /\ pc' = "pushed"
    /\ UNCHANGED <<sinkno, pkt, seektime, filepos, eof_sent_to_clients, shared,
                   cpc, refs, seeks, gen, got>>

\* Mutant: the thread releases the sink it pushed to once more when it finds
\* that the sink has been removed.
Pushed_Disposes ==
    /\ pc = "pushed"
    /\ LET s == File[pkt]
       IN  /\ ds' = IF s \in m_sinks THEN ds
                    ELSE [ds EXCEPT ![s] = PushData(@, Packet("eof", 0))]
           /\ IF ~accepted /\ KeepPushing(s)
              THEN pc' = "push" /\ UNCHANGED <<pkt, accepted, seektime, eof_sent_to_clients, refs>>
              ELSE /\ LoopTop(eof_sent_to_clients)
                   /\ refs' = [refs EXCEPT ![s] = @ - (IF s \in m_sinks THEN 1 ELSE 2)]
    /\ UNCHANGED <<sinkno, filepos, shared, cpc, seeks, gen, got>>

\* Mutant: a packet that was refused is not tried again.
Pushed_NoRetry ==
    /\ pc = "pushed"
    /\ LET s == File[pkt]
       IN  /\ ds' = IF s \in m_sinks THEN ds
                    ELSE [ds EXCEPT ![s] = PushData(@, Packet("eof", 0))]
           /\ LoopTop(eof_sent_to_clients)
           /\ refs' = [refs EXCEPT ![s] = @ - 1]
    /\ UNCHANGED <<sinkno, filepos, shared, cpc, seeks, gen, got>>

\* Back under m_lock: a sink that was removed meanwhile is told, the
\* reference is dropped, and a packet that was refused is tried again.
Pushed ==
    /\ pc = "pushed"
    /\ LET s == File[pkt]
       IN  /\ ds' = IF s \in m_sinks THEN ds
                    ELSE [ds EXCEPT ![s] = PushData(@, Packet("eof", 0))]
           /\ IF ~accepted /\ KeepPushing(s)
              THEN pc' = "push" /\ UNCHANGED <<pkt, accepted, seektime, eof_sent_to_clients, refs>>
              ELSE /\ LoopTop(eof_sent_to_clients)
                   /\ refs' = [refs EXCEPT ![s] = @ - 1]
    /\ UNCHANGED <<sinkno, filepos, shared, cpc, seeks, gen, got>>

\* The end of run(), without m_lock: sinks that are left are told and released.
Exit ==
    /\ pc = "exit"
    /\ ds' = [s \in Streams |->
                IF s \in m_sinks THEN PushData(ds[s], Packet("eof", 0)) ELSE ds[s]]
    /\ refs' = [s \in Streams |-> IF s \in m_sinks THEN refs[s] - 1 ELSE refs[s]]
    /\ m_sinks' = {}
    /\ pc' = "exited"
    /\ UNCHANGED <<sinkno, pkt, accepted, seektime, filepos, eof_sent_to_clients,
                   m_clip_begin, m_clip_begin_changed, exit_requested, cpc, seeks, gen, got>>

Run == Loop \/ SeekFrame \/ PushFlush \/ PushEof \/ ReadPacket \/ ReadEof \/ Push \/ Pushed
----------------------------------------------------------------------------
(* The decoders.  m_lock of the decoder makes the calls for one stream     *)
(* exclusive; seek and stop come from one thread.                          *)

InRunLock == pc \in {"flush", "eof"}
ControlFree == \A s \in Streams : cpc[s] \in {"idle", "stopped"}

\* demux_datasource::start: the thread is started if it was not; call back
\* now, or when there is something.
Start(s) ==
    /\ cpc[s] = "idle" /\ ds[s].event = 0
    /\ pc' = IF pc = "none" THEN "loop" ELSE pc
    /\ ds' = [ds EXCEPT ![s] = StartDatasource(@)]
    /\ UNCHANGED <<sinkno, pkt, accepted, seektime, filepos, eof_sent_to_clients, shared, cpc, refs, seeks, gen, got>>

\* The decoder's data_avail event: get_packet.
GetPacket(s) ==
    /\ cpc[s] = "idle" /\ ds[s].event > 0
    /\ ds' = [ds EXCEPT ![s] = TakePacket(@)]
    /\ got' = IF ds[s].frames = <<>> THEN got
              ELSE [got EXCEPT ![s] = Head(ds[s].frames)]
    /\ UNCHANGED <<run, shared, cpc, refs, seeks, gen>>

\* demux_datasource::seek takes its own lock; if its queue is already where it is
\* to go it leaves the lock again and nothing has changed.  Otherwise ...
Seek(s) ==
    /\ ControlFree /\ cpc[s] = "idle" /\ seeks < MaxSeeks
    /\ \E t \in SeekTimes : t # ds[s].time
    /\ cpc' = [cpc EXCEPT ![s] = "seek"]
    /\ seeks' = seeks + 1
    /\ UNCHANGED <<run, shared, ds, refs, gen, got>>

\* ... it holds on to it and calls ffmpeg_demux::seek, which takes the lock of the
\* demultiplexer.  (m_current_time cannot change in between.)
SeekThread(s) ==
    /\ cpc[s] = "seek" /\ ~InRunLock
    /\ cpc' = [cpc EXCEPT ![s] = "idle"]
    /\ \E t \in SeekTimes :
         /\ t # ds[s].time
         /\ m_clip_begin' = t /\ m_clip_begin_changed' = TRUE
         /\ ds' = [ds EXCEPT ![s] = FlushDatasource(@, t)]
    /\ got' = [got EXCEPT ![s] = NoData]
    /\ UNCHANGED <<run, m_sinks, exit_requested, refs, seeks, gen>>

\* demux_datasource::stop forgets the thread, then calls remove_datasink.
Stop(s) ==
    /\ ControlFree /\ cpc[s] = "idle"
    /\ ds' = [ds EXCEPT ![s].thread = FALSE]
    /\ cpc' = [cpc EXCEPT ![s] = "remove"]
    /\ UNCHANGED <<run, shared, refs, seeks, gen, got>>

RemoveDatasink(s) ==
    /\ cpc[s] = "remove" /\ ~InRunLock
    /\ m_sinks' = m_sinks \ {s}
    /\ cpc' = [cpc EXCEPT ![s] = "dispose"]
    /\ UNCHANGED <<run, m_clip_begin, m_clip_begin_changed, exit_requested,
                   ds, refs, seeks, gen, got>>

\* m_current_sink = s
Busy(s) == pc \in {"push", "pushed"} /\ File[pkt] = s

\* Mutant: the last sink waits for the thread but does not ask it to exit.
Dispose_NoExit(s) ==
    /\ cpc[s] = "dispose"
    /\ IF Busy(s)
       THEN UNCHANGED <<ds, refs>>
       ELSE /\ ds' = [ds EXCEPT ![s] = PushData(@, Packet("eof", 0))]
            /\ refs' = [refs EXCEPT ![s] = @ - 1]
    /\ cpc' = [cpc EXCEPT ![s] = IF m_sinks = {} THEN "cancel" ELSE "cleanup"]
    /\ UNCHANGED <<run, shared, seeks, gen, got>>

\* The rest of remove_datasink, without m_lock: a sink that is not busy is
\* told and released; the thread is cancelled when no sink is left.
Dispose(s) ==
    /\ cpc[s] = "dispose"
    /\ IF Busy(s)
       THEN UNCHANGED <<ds, refs>>
       ELSE /\ ds' = [ds EXCEPT ![s] = PushData(@, Packet("eof", 0))]
            /\ refs' = [refs EXCEPT ![s] = @ - 1]
    /\ exit_requested' = (m_sinks = {})
    /\ cpc' = [cpc EXCEPT ![s] = IF m_sinks = {} THEN "cancel" ELSE "cleanup"]
    /\ UNCHANGED <<run, m_sinks, m_clip_begin, m_clip_begin_changed, seeks, gen, got>>

\* cancel: thread::stop, if it was started, returns when the thread has ended.
Join(s) ==
    /\ cpc[s] = "cancel" /\ pc \in {"none", "exited"}
    /\ cpc' = [cpc EXCEPT ![s] = "cleanup"]
    /\ UNCHANGED <<run, shared, ds, refs, seeks, gen, got>>

\* The rest of demux_datasource::stop, and the decoder drops its reference.
\* A data_avail event that is still queued will find the decoder stopped.
Cleanup(s) ==
    /\ cpc[s] = "cleanup"
    /\ ds' = [ds EXCEPT ![s] = [CloseDatasource(@) EXCEPT !.event = 0]]
    /\ refs' = [refs EXCEPT ![s] = @ - 1]
    /\ cpc' = [cpc EXCEPT ![s] = "stopped"]
    /\ got' = [got EXCEPT ![s] = NoData]
    /\ UNCHANGED <<run, shared, seeks, gen>>

Finish(s) == SeekThread(s) \/ RemoveDatasink(s) \/ Dispose(s) \/ Join(s) \/ Cleanup(s)

Next ==
    \/ Loop \/ SeekFrame \/ PushFlush \/ PushEof \/ ReadPacket \/ ReadEof
    \/ Push \/ Pushed \/ Exit
    \/ \E s \in Streams :
          \/ Start(s) \/ GetPacket(s) \/ Seek(s) \/ SeekThread(s) \/ Stop(s)
          \/ RemoveDatasink(s) \/ Dispose(s) \/ Join(s) \/ Cleanup(s)

Spec == Init /\ [][Next]_vars

\* The thread runs, and calls that were begun go on.  Decoders are not obliged to
\* read: one whose own queue is full, or whose renderer stands still, does not.
FairSpec ==
    /\ Spec
    /\ WF_vars(Run \/ Exit)
    /\ \A s \in Streams : WF_vars(Finish(s))
----------------------------------------------------------------------------
(* Properties *)

\* Every variable holds a value of its type, and no queue is longer than
\* MAX_PACKETS_BUFFERED.
TypeOK ==
    /\ pc \in {"none", "loop", "seek", "flush", "read", "eof", "push", "pushed", "exit", "exited"}
    /\ sinkno \in Streams /\ pkt \in Positions \cup {None}
    /\ accepted \in BOOLEAN /\ eof_sent_to_clients \in BOOLEAN
    /\ seektime \in Positions \cup {None} /\ filepos \in 1..(Len(File) + 1)
    /\ m_sinks \subseteq Streams /\ m_clip_begin \in Positions
    /\ m_clip_begin_changed \in BOOLEAN /\ exit_requested \in BOOLEAN
    /\ \A s \in Streams :
         /\ Len(ds[s].frames) <= MAX_PACKETS_BUFFERED
         /\ \A i \in DOMAIN ds[s].frames : ds[s].frames[i].flag \in Flags \ {"nodata"}
         /\ ds[s].time \in Positions \cup {NoTime} /\ ds[s].event \in 0..1
    /\ cpc \in [Streams -> {"idle", "seek", "remove", "dispose", "cancel", "cleanup", "stopped"}]
    /\ refs \in [Streams -> Nat]

\* A datasource is never freed while its decoder, the table of sinks or the
\* thread that pushes to it still uses it: the unlocked comparison with
\* m_current_sink in remove_datasink never releases a reference too many.
NeverFreedEarly ==
    \A s \in Streams :
        refs[s] >= Cardinality({u \in {"decoder", "table", "thread"} :
                                   \/ u = "decoder" /\ cpc[s] # "stopped"
                                   \/ u = "table" /\ s \in m_sinks
                                   \/ u = "thread" /\ Busy(s)})

\* Packets of stream s that the file holds after position p.
After(s, p) == {q \in Positions : q > p /\ File[q] = s}

\* What the decoder of s has seen last and will see.
Seen(s) == <<got[s]>> \o ds[s].frames

IsData(p) == p.flag \in {"avpacket", "eof"}

\* Packet b of stream s may be the first that follows a, but for flush packets.
Follows(s, a, b) ==
    \/ a.gen < b.gen
    \/ /\ a.gen = b.gen /\ a.flag = "avpacket"
       /\ IF b.flag = "eof"
          THEN After(s, a.pos) = {}
          ELSE b.pos \in After(s, a.pos) /\ \A q \in After(s, a.pos) : q >= b.pos

\* Between two seeks on the file a decoder sees the packets of its stream in
\* order, none twice and none left out, and end of file only after the last,
\* although packets are refused, tried again and dropped.  The packet that the
\* thread holds when a decoder seeks may still arrive behind the datasource's
\* flush, because m_lock is left between the check of m_clip_begin_changed and
\* push_data (the note at ffmpeg_common.cpp 622 says that this was fixed); it
\* belongs to the seek before and is not objected to here.
InSequence ==
    \A s \in Streams : \A i, j \in DOMAIN Seen(s) :
        /\ i < j /\ IsData(Seen(s)[i]) /\ IsData(Seen(s)[j])
        /\ \A k \in DOMAIN Seen(s) : i < k /\ k < j => ~IsData(Seen(s)[k])
        => Follows(s, Seen(s)[i], Seen(s)[j])

\* The thread holds the demultiplexer's lock and waits for that of a
\* datasource, whose holder waits for the demultiplexer's.
Embrace ==
    \E s \in m_sinks : InRunLock /\ sinkno = s /\ cpc[s] = "seek"

\* "The seek is outside the lock, otherwise there's a deadlock with the
\* thread trying to deliver new data to this demux_datasource."  That is said in
\* set_clip_end; in demux_datasource::seek itself it is inside.
NoEmbrace == ~Embrace

\* The thread waits for room in the queue of another stream than s.
HeadOfLine(s) ==
    \E o \in Streams \ {s} : Busy(o) /\ BufferFull(ds[o])

\* A decoder that waits for a callback gets one, unless two threads are caught in an
\* embrace or the thread hangs for ever on the full queue of another stream,
\* whose decoder has stopped reading: there is no other way to starve.
WaiterServed ==
    [](~Embrace) =>
        \A s \in Streams : <>[]ds[s].callback => <>[]HeadOfLine(s)

\* If nobody is caught in an embrace, stopping a datasource ends, joining the
\* thread included, whether or not anybody reads.
StopReturns ==
    [](~Embrace) => \A s \in Streams : cpc[s] = "remove" ~> cpc[s] = "stopped"
=============================================================================

----------------------------- MODULE DemuxProofs -----------------------------
(***************************************************************************)
(* The demultiplexer for any number of streams, any file and any capacity  *)
(* of the queues: types, the references that keep a datasource alive, and  *)
(* the order of the packets a decoder sees.                                *)
(***************************************************************************)
EXTENDS Demux, TLAPS, SequenceTheorems, FiniteSetTheorems

-----------------------------------------------------------------------------
(* Datasources *)

PacketSet == [flag : Flags \ {"nodata"}, pos : Nat, gen : Nat]

DatasourceSet ==
    [frames : Seq(PacketSet), src_eof : BOOLEAN, callback : BOOLEAN, event : 0..1,
     thread : BOOLEAN, time : Positions \cup {NoTime}]

\* A queue never exceeds its capacity, and a datasource that waits to call its
\* client back has no other callback under way.
Sound(d) ==
    /\ d \in DatasourceSet
    /\ Len(d.frames) <= MAX_PACKETS_BUFFERED
    /\ d.callback => d.event = 0

LEMMA CallbackUpdate ==
  ASSUME NEW d \in DatasourceSet, NEW c \in BOOLEAN, NEW v \in 0..1
  PROVE  [d EXCEPT !.event = v, !.callback = c] \in DatasourceSet
BY DEF DatasourceSet

LEMMA QueueUpdate ==
  ASSUME NEW d \in DatasourceSet, NEW f \in Seq(PacketSet), NEW c \in BOOLEAN,
         NEW v \in 0..1, NEW t \in Positions \cup {NoTime}
  PROVE  /\ [d EXCEPT !.event = v, !.frames = f, !.time = t] \in DatasourceSet
         /\ [d EXCEPT !.callback = c, !.frames = f, !.time = t, !.event = v] \in DatasourceSet
BY DEF DatasourceSet

\* What push_data does to a datasource.
LEMMA PushDataSound ==
  ASSUME NEW d, Sound(d), NEW p \in PacketSet
  PROVE  /\ Sound(PushData(d, p))
         /\ PushData(d, p).thread = d.thread
         /\ PushData(d, p).frames = IF d.thread /\ ~BufferFull(d)
                                    THEN Append(d.frames, p) ELSE d.frames
<1>. DEFINE e == [d EXCEPT !.src_eof = (p.flag = "eof")]
<1>1. d \in DatasourceSet /\ MAX_PACKETS_BUFFERED \in Nat
  BY BufferAssumption DEF Sound
<1>2. e \in DatasourceSet /\ e.frames = d.frames /\ e.thread = d.thread
      /\ e.callback = d.callback /\ e.event = d.event
  BY <1>1 DEF DatasourceSet
<1>3. CASE d.thread /\ ~BufferFull(d)
  <2>1. /\ Append(d.frames, p) \in Seq(PacketSet)
        /\ Len(Append(d.frames, p)) = Len(d.frames) + 1
    BY <1>1, AppendProperties DEF DatasourceSet
  <2>2. Len(d.frames) \in Nat /\ Len(d.frames) < MAX_PACKETS_BUFFERED
    BY <1>1, <1>3, LenProperties DEF DatasourceSet, BufferFull
  <2>3. PushData(d, p) = [e EXCEPT !.frames = Append(@, p),
                                   !.event = IF d.callback THEN @ + 1 ELSE @,
                                   !.callback = FALSE]
    BY <1>3 DEF PushData
  <2>4. d.callback => d.event = 0
    BY DEF Sound
  <2>. DEFINE f == PushData(d, p)
  <2>5. /\ f.frames = Append(d.frames, p) /\ f.thread = d.thread /\ f.callback = FALSE
        /\ f.event = IF d.callback THEN d.event + 1 ELSE d.event
    BY <1>2, <2>3 DEF DatasourceSet
  <2>6. (IF d.callback THEN d.event + 1 ELSE d.event) \in 0..1
    BY <1>1, <2>4 DEF DatasourceSet
  <2>7. f \in DatasourceSet
    BY <1>2, <2>1, <2>3, <2>6 DEF DatasourceSet
  <2>. QED
    BY <1>3, <2>1, <2>2, <2>5, <2>7, <1>1 DEF Sound
<1>4. CASE ~(d.thread /\ ~BufferFull(d))
  <2>1. PushData(d, p) = e
    BY <1>4 DEF PushData
  <2>. QED
    BY <1>2, <1>4, <2>1 DEF Sound
<1>. QED
  BY <1>3, <1>4

\* A datasource whose thread was forgotten swallows what is pushed.
LEMMA StoppedSwallows ==
  ASSUME NEW d, Sound(d), ~d.thread, NEW p \in PacketSet
  PROVE  Sound(PushData(d, p)) /\ ~PushData(d, p).thread /\ PushData(d, p).frames = d.frames
BY PushDataSound

LEMMA NewSound ==
  ASSUME NEW t \in Positions
  PROVE  Sound(NewDatasource(t))
BY BufferAssumption DEF Sound, NewDatasource, DatasourceSet

LEMMA StartSound ==
  ASSUME NEW d, Sound(d), d.event = 0
  PROVE  /\ Sound(StartDatasource(d))
         /\ StartDatasource(d).thread = d.thread
         /\ StartDatasource(d).frames = d.frames
<1>. DEFINE e == StartDatasource(d)
<1>1. d \in DatasourceSet
  BY DEF Sound
<1>2. e.frames = d.frames /\ e.thread = d.thread /\ (e.callback => e.event = 0)
  BY <1>1 DEF StartDatasource, DatasourceSet
<1>3. e \in DatasourceSet
  <2>1. CASE d.frames # <<>> \/ EndOfFile(d)
    <3>1. e = [d EXCEPT !.event = 1, !.callback = FALSE]
      BY <2>1, <1>1 DEF StartDatasource, DatasourceSet
    <3>2. 1 \in 0..1 /\ FALSE \in BOOLEAN
      OBVIOUS
    <3>3. [d EXCEPT !.event = 1, !.callback = FALSE] \in DatasourceSet
      BY <1>1, <3>2, CallbackUpdate, Zenon
    <3>. QED
      BY <3>1, <3>3
  <2>2. CASE ~(d.frames # <<>> \/ EndOfFile(d))
    <3>1. e = [d EXCEPT !.callback = TRUE]
      BY <2>2 DEF StartDatasource
    <3>. HIDE DEF e
    <3>. QED
      BY <1>1, <3>1 DEF DatasourceSet
  <2>. QED
    BY <2>1, <2>2
<1>. QED
  BY <1>1, <1>2, <1>3 DEF Sound

LEMMA TakeSound ==
  ASSUME NEW d, Sound(d), d.event > 0
  PROVE  /\ Sound(TakePacket(d))
         /\ TakePacket(d).thread = d.thread
         /\ TakePacket(d).frames = IF d.frames = <<>> THEN <<>> ELSE Tail(d.frames)
<1>1. d \in DatasourceSet /\ d.event = 1 /\ MAX_PACKETS_BUFFERED \in Nat
  BY BufferAssumption DEF Sound, DatasourceSet
<1>2. CASE d.frames = <<>>
  BY <1>1, <1>2 DEF Sound, TakePacket, DatasourceSet
<1>3. CASE d.frames # <<>>
  <2>1. Tail(d.frames) \in Seq(PacketSet) /\ Len(Tail(d.frames)) = Len(d.frames) - 1
        /\ Len(d.frames) \in Nat
    BY <1>1, <1>3, HeadTailProperties, LenProperties DEF DatasourceSet
  <2>. DEFINE e == TakePacket(d)
  <2>2. e.frames = Tail(d.frames) /\ e.thread = d.thread /\ e.callback = d.callback /\ e.event = 0
    BY <1>1, <1>3 DEF TakePacket, DatasourceSet
  <2>3. e \in DatasourceSet
    <3>1. e = [d EXCEPT !.event = 0, !.frames = Tail(d.frames), !.time = NoTime]
      BY <1>1, <1>3 DEF TakePacket, DatasourceSet
    <3>2. 0 \in 0..1 /\ FALSE \in BOOLEAN /\ NoTime \in Positions \cup {NoTime}
      OBVIOUS
    <3>3. [d EXCEPT !.event = 0, !.frames = Tail(d.frames), !.time = NoTime] \in DatasourceSet
      BY <1>1, <2>1, <3>2, QueueUpdate, Zenon
    <3>. QED
      BY <3>1, <3>3
  <2>. QED
    BY <1>1, <1>3, <2>1, <2>2, <2>3 DEF Sound
<1>. QED
  BY <1>2, <1>3

LEMMA FlushSound ==
  ASSUME NEW d, Sound(d), NEW t \in Positions
  PROVE  /\ Sound(FlushDatasource(d, t))
         /\ FlushDatasource(d, t).thread = d.thread
         /\ FlushDatasource(d, t).frames = <<>>
<1>. DEFINE e == FlushDatasource(d, t)
<1>0. <<>> \in Seq(PacketSet) /\ Len(<<>>) = 0 /\ MAX_PACKETS_BUFFERED \in Nat
  BY BufferAssumption
<1>1. d \in DatasourceSet /\ (d.callback => d.event = 0)
  BY DEF Sound
<1>2. e.frames = <<>> /\ e.thread = d.thread /\ e.callback = d.callback /\ e.event = d.event
  BY <1>1 DEF FlushDatasource, DatasourceSet
<1>3. e \in DatasourceSet
  BY <1>0, <1>1 DEF FlushDatasource, DatasourceSet
<1>. QED
  BY <1>0, <1>1, <1>2, <1>3 DEF Sound

LEMMA CloseSound ==
  ASSUME NEW d, Sound(d), NEW e, e = [CloseDatasource(d) EXCEPT !.event = 0]
  PROVE  Sound(e) /\ e.thread = d.thread /\ e.frames = <<>>
<1>1. <<>> \in Seq(PacketSet) /\ Len(<<>>) = 0 /\ MAX_PACKETS_BUFFERED \in Nat
  BY BufferAssumption
<1>2. d \in DatasourceSet
  BY DEF Sound
<1>3. e.frames = <<>> /\ e.thread = d.thread /\ e.callback = FALSE /\ e.event = 0
  BY <1>2 DEF CloseDatasource, DatasourceSet
<1>4. e = [d EXCEPT !.callback = FALSE, !.frames = <<>>, !.time = NoTime, !.event = 0]
  BY <1>2 DEF CloseDatasource, DatasourceSet
<1>5. e \in DatasourceSet
  <2>1. 0 \in 0..1 /\ FALSE \in BOOLEAN /\ NoTime \in Positions \cup {NoTime}
    OBVIOUS
  <2>2. [d EXCEPT !.callback = FALSE, !.frames = <<>>, !.time = NoTime, !.event = 0]
            \in DatasourceSet
    BY <1>1, <1>2, <2>1, QueueUpdate, Zenon
  <2>. QED
    BY <1>4, <2>2
<1>. QED
  BY <1>1, <1>2, <1>3, <1>5 DEF Sound

-----------------------------------------------------------------------------
(* Types *)

PcLabels == {"none", "loop", "seek", "flush", "read", "eof", "push", "pushed", "exit", "exited"}
CpcLabels == {"idle", "seek", "remove", "dispose", "cancel", "cleanup", "stopped"}

\* The locals of run(), and which of them are in scope where.
RunType ==
    /\ pc \in PcLabels
    /\ sinkno \in Streams /\ pkt \in Positions \cup {None}
    /\ accepted \in BOOLEAN /\ eof_sent_to_clients \in BOOLEAN
    /\ seektime \in Positions \cup {None} /\ filepos \in 1..(Len(File) + 1)
    /\ gen \in Nat
    /\ pc \in {"push", "pushed"} => pkt \in Positions /\ filepos = pkt + 1
    /\ pc = "seek" => seektime \in Positions
    /\ pc = "eof" => ~eof_sent_to_clients /\ filepos > Len(File)

SharedType ==
    /\ m_sinks \subseteq Streams /\ m_clip_begin \in Positions
    /\ m_clip_begin_changed \in BOOLEAN /\ exit_requested \in BOOLEAN

DecoderType ==
    /\ cpc \in [Streams -> CpcLabels]
    /\ refs \in [Streams -> Int]
    /\ got \in [Streams -> PacketSet \cup {NoData}]

QueueType ==
    /\ ds = [s \in Streams |-> ds[s]]
    /\ \A s \in Streams : Sound(ds[s])

TypeInv == RunType /\ SharedType /\ DecoderType /\ QueueType

LEMMA FileFacts ==
  /\ Len(File) \in Nat \ {0}
  /\ \A p \in Positions : File[p] \in Streams /\ p \in Nat \ {0}
  /\ NumStreams \in Nat \ {0} /\ 1 \in Streams
<1>1. File \in Seq(Streams) /\ File # <<>> /\ NumStreams \in Nat \ {0}
  BY DemuxAssumption
<1>2. Len(File) \in Nat \ {0}
  BY <1>1, EmptySeq
<1>3. \A p \in Positions : File[p] \in Streams
  BY <1>1, ElementOfSeq DEF Positions
<1>. QED
  BY <1>1, <1>2, <1>3 DEF Positions, Streams

LEMMA PacketType ==
  ASSUME gen \in Nat, NEW f \in Flags \ {"nodata"}, NEW p \in Nat
  PROVE  Packet(f, p) \in PacketSet
BY DEF Packet, PacketSet

LEMMA Packets ==
  ASSUME RunType
  PROVE  /\ Packet("flush", 0) \in PacketSet /\ Packet("eof", 0) \in PacketSet
         /\ \A p \in Positions : Packet("avpacket", p) \in PacketSet
BY FileFacts, PacketType DEF RunType, Flags

\* What the top of the loop leaves.
LEMMA LoopTopType ==
  ASSUME TypeInv, NEW e \in BOOLEAN, LoopTop(e)
  PROVE  /\ pc' \in {"exit", "seek", "read"}
         /\ pkt' = None /\ accepted' = FALSE
         /\ seektime' \in Positions \cup {None} /\ (pc' = "seek" => seektime' \in Positions)
         /\ eof_sent_to_clients' \in BOOLEAN
         /\ pc' = "exit" <=> exit_requested
         /\ pc' = "seek" <=> ~exit_requested /\ m_clip_begin_changed
         /\ pc' # "seek" => eof_sent_to_clients' = e
BY DEF TypeInv, SharedType, LoopTop

LEMMA InitType == Init => TypeInv
<1>. SUFFICES ASSUME Init PROVE TypeInv
  OBVIOUS
<1>1. m_clip_begin \in Positions
  BY DemuxAssumption DEF Init
<1>2. RunType /\ SharedType
  <2>1. 1 \in 1..(Len(File) + 1) /\ 1 \in Streams
    BY FileFacts
  <2>2. RunType
    BY <2>1 DEF Init, RunType, PcLabels
  <2>3. m_clip_begin_changed \in BOOLEAN
    BY DEF Init
  <2>4. SharedType
    BY <1>1, <2>3 DEF Init, SharedType
  <2>. QED
    BY <2>2, <2>4
<1>3. DecoderType
  BY DEF Init, DecoderType, CpcLabels
<1>4. QueueType
  BY <1>1, NewSound DEF Init, QueueType
<1>. QED
  BY <1>2, <1>3, <1>4 DEF TypeInv

\* Pushing to one sink, or to none.
LEMMA PushOne ==
  ASSUME QueueType, NEW s \in Streams, NEW p \in PacketSet,
         ds' = [ds EXCEPT ![s] = PushData(@, p)]
  PROVE  /\ QueueType'
         /\ \A u \in Streams : ds'[u].thread = ds[u].thread
         /\ \A u \in Streams :
               ds'[u].frames = IF u = s /\ ds[s].thread /\ ~BufferFull(ds[s])
                               THEN Append(ds[s].frames, p) ELSE ds[u].frames
<1>1. \A u \in Streams : ds'[u] = IF u = s THEN PushData(ds[s], p) ELSE ds[u]
  BY DEF QueueType
<1>2. /\ Sound(PushData(ds[s], p)) /\ PushData(ds[s], p).thread = ds[s].thread
      /\ PushData(ds[s], p).frames = IF ds[s].thread /\ ~BufferFull(ds[s])
                                      THEN Append(ds[s].frames, p) ELSE ds[s].frames
  BY PushDataSound DEF QueueType
<1>. QED
  BY <1>1, <1>2 DEF QueueType

LEMMA RunStepType ==
  ASSUME TypeInv, Loop \/ SeekFrame \/ PushFlush \/ PushEof \/ ReadPacket \/ ReadEof
                    \/ Push \/ Pushed \/ Exit
  PROVE  TypeInv'
<1>. USE FileFacts
<1>1. CASE Loop
  <2>1. LoopTop(eof_sent_to_clients) /\ eof_sent_to_clients \in BOOLEAN
    BY <1>1 DEF Loop, TypeInv, RunType
  <2>2. RunType'
    BY <1>1, <2>1, LoopTopType DEF Loop, TypeInv, RunType, PcLabels
  <2>. QED
    BY <1>1, <2>2 DEF Loop, TypeInv, SharedType, DecoderType, QueueType, shared
<1>2. CASE SeekFrame
  <2>1. RunType'
    BY <1>2 DEF SeekFrame, TypeInv, RunType, PcLabels, Positions
  <2>. QED
    BY <1>2, <2>1 DEF SeekFrame, TypeInv, SharedType, DecoderType, QueueType
<1>3. CASE PushFlush
  <2>1. RunType'
    BY <1>3 DEF PushFlush, TypeInv, RunType, PcLabels, Streams
  <2>2. QueueType'
    BY <1>3, Packets, PushOne DEF PushFlush, PushToSink, TypeInv, RunType, QueueType
  <2>. QED
    BY <1>3, <2>1, <2>2 DEF PushFlush, TypeInv, SharedType, DecoderType, shared
<1>4. CASE PushEof
  <2>1. RunType'
    <3>1. CASE sinkno < NumStreams
      <4>1. sinkno' \in Streams
        BY <1>4, <3>1 DEF PushEof, TypeInv, RunType, Streams
      <4>. QED
        BY <1>4, <3>1, <4>1 DEF PushEof, TypeInv, RunType
    <3>2. CASE ~(sinkno < NumStreams)
      BY <1>4, <3>2 DEF PushEof, TypeInv, RunType, PcLabels
    <3>. QED
      BY <3>1, <3>2
  <2>2. QueueType'
    BY <1>4, Packets, PushOne DEF PushEof, PushToSink, TypeInv, RunType, QueueType
  <2>. QED
    BY <1>4, <2>1, <2>2 DEF PushEof, TypeInv, SharedType, DecoderType, shared
<1>5. CASE ReadPacket
  <2>. DEFINE s == File[filepos]
  <2>1. filepos \in Positions /\ s \in Streams
    BY <1>5 DEF ReadPacket, TypeInv, RunType, Positions
  <2>0. filepos + 1 \in 1..(Len(File) + 1)
    BY <2>1 DEF Positions
  <2>2. CASE KeepPushing(s)
    <3>1. RunType'
      <4>1. /\ pc' = "push" /\ pkt' = filepos /\ eof_sent_to_clients' = FALSE
            /\ filepos' = filepos + 1 /\ UNCHANGED <<seektime, accepted, sinkno, gen>>
        BY <1>5, <2>2 DEF ReadPacket
      <4>. QED
        BY <2>1, <2>0, <4>1 DEF TypeInv, RunType, PcLabels
    <3>2. DecoderType'
      BY <1>5, <2>1, <2>2 DEF ReadPacket, TypeInv, DecoderType
    <3>. QED
      BY <1>5, <3>1, <3>2 DEF ReadPacket, TypeInv, SharedType, QueueType, shared
  <2>3. CASE ~KeepPushing(s)
    <3>. DEFINE e == eof_sent_to_clients /\ s \notin m_sinks
    <3>1. LoopTop(e) /\ e \in BOOLEAN /\ filepos' = filepos + 1
      BY <1>5, <2>3 DEF ReadPacket, TypeInv, RunType
    <3>. HIDE DEF e
    <3>2. RunType'
      <4>1. UNCHANGED <<sinkno, gen>>
        BY <1>5 DEF ReadPacket
      <4>2. /\ pc' \in {"exit", "seek", "read"} /\ pkt' = None /\ accepted' = FALSE
            /\ seektime' \in Positions \cup {None} /\ (pc' = "seek" => seektime' \in Positions)
            /\ eof_sent_to_clients' \in BOOLEAN
        BY <3>1, LoopTopType
      <4>. QED
        BY <2>0, <3>1, <4>1, <4>2 DEF TypeInv, RunType, PcLabels
    <3>. QED
      BY <1>5, <2>3, <3>2 DEF ReadPacket, TypeInv, SharedType, DecoderType, QueueType, shared
  <2>. QED
    BY <2>2, <2>3
<1>6. CASE ReadEof
  BY <1>6 DEF ReadEof, TypeInv, RunType, SharedType, DecoderType, QueueType, shared, PcLabels
<1>7. CASE Push
  <2>1. File[pkt] \in Streams /\ pkt \in Positions
    BY <1>7 DEF Push, TypeInv, RunType
  <2>2. Sound(ds[File[pkt]])
    BY <2>1 DEF TypeInv, QueueType
  <2>3. accepted' \in BOOLEAN
    BY <1>7 DEF Push, Accepts
  <2>4. RunType'
    BY <1>7, <2>1, <2>3 DEF Push, TypeInv, RunType, PcLabels
  <2>5. QueueType'
    BY <1>7, <2>1, Packets, PushOne DEF Push, TypeInv
  <2>. QED
    BY <1>7, <2>4, <2>5 DEF Push, TypeInv, SharedType, DecoderType, shared
<1>8. CASE Pushed
  <2>1. File[pkt] \in Streams /\ pkt \in Positions
    BY <1>8 DEF Pushed, TypeInv, RunType
  <2>2. QueueType'
    BY <1>8, <2>1, Packets, PushOne DEF Pushed, TypeInv, QueueType
  <2>3. RunType' /\ DecoderType'
    <3>1. CASE ~accepted /\ KeepPushing(File[pkt])
      BY <1>8, <3>1 DEF Pushed, TypeInv, RunType, DecoderType, PcLabels
    <3>2. CASE ~(~accepted /\ KeepPushing(File[pkt]))
      <4>1. LoopTop(eof_sent_to_clients) /\ eof_sent_to_clients \in BOOLEAN
        BY <1>8, <3>2 DEF Pushed, TypeInv, RunType
      <4>2. RunType'
        BY <1>8, <3>2, <4>1, LoopTopType DEF Pushed, TypeInv, RunType, PcLabels
      <4>3. DecoderType'
        BY <1>8, <3>2, <2>1 DEF Pushed, TypeInv, DecoderType
      <4>. QED
        BY <4>2, <4>3
    <3>. QED
      BY <3>1, <3>2
  <2>. QED
    BY <1>8, <2>2, <2>3 DEF Pushed, TypeInv, SharedType, shared
<1>9. CASE Exit
  <2>1. RunType' /\ SharedType'
    BY <1>9 DEF Exit, TypeInv, RunType, SharedType, PcLabels
  <2>2. DecoderType'
    BY <1>9 DEF Exit, TypeInv, DecoderType
  <2>3. QueueType'
    BY <1>9, Packets, PushDataSound DEF Exit, TypeInv, QueueType
  <2>. QED
    BY <2>1, <2>2, <2>3 DEF TypeInv
<1>. QED
  BY <1>1, <1>2, <1>3, <1>4, <1>5, <1>6, <1>7, <1>8, <1>9

\* A step that changes one datasource, to a sound one.
LEMMA OneSound ==
  ASSUME QueueType, NEW s \in Streams, NEW d, Sound(d), ds' = [ds EXCEPT ![s] = d]
  PROVE  QueueType' /\ \A u \in Streams : ds'[u] = IF u = s THEN d ELSE ds[u]
<1>1. \A u \in Streams : ds'[u] = IF u = s THEN d ELSE ds[u]
  BY DEF QueueType
<1>. QED
  BY <1>1 DEF QueueType

LEMMA DecoderStepType ==
  ASSUME TypeInv, NEW s \in Streams,
         \/ Start(s) \/ GetPacket(s) \/ Seek(s) \/ SeekThread(s) \/ Stop(s)
         \/ RemoveDatasink(s) \/ Dispose(s) \/ Join(s) \/ Cleanup(s)
  PROVE  TypeInv'
<1>. USE FileFacts
<1>0. Sound(ds[s]) /\ ds[s] \in DatasourceSet
  BY DEF TypeInv, QueueType, Sound
<1>1. CASE Start(s)
  <2>1. RunType'
    BY <1>1 DEF Start, TypeInv, RunType, PcLabels
  <2>2. QueueType'
    <3>1. ds[s].event = 0 /\ ds' = [ds EXCEPT ![s] = StartDatasource(ds[s])]
      BY <1>1 DEF Start
    <3>2. Sound(StartDatasource(ds[s]))
      BY <1>0, <3>1, StartSound
    <3>. QED
      BY <3>1, <3>2, OneSound DEF TypeInv
  <2>. QED
    BY <1>1, <2>1, <2>2 DEF Start, TypeInv, SharedType, DecoderType, shared
<1>2. CASE GetPacket(s)
  <2>1. QueueType'
    <3>1. ds[s].event > 0 /\ ds' = [ds EXCEPT ![s] = TakePacket(ds[s])]
      BY <1>2 DEF GetPacket
    <3>2. Sound(TakePacket(ds[s]))
      BY <1>0, <3>1, TakeSound
    <3>. QED
      BY <3>1, <3>2, OneSound DEF TypeInv
  <2>2. DecoderType'
    <3>1. ds[s].frames # <<>> => Head(ds[s].frames) \in PacketSet
      BY <1>0, HeadTailProperties DEF DatasourceSet
    <3>. QED
      BY <1>2, <3>1 DEF GetPacket, TypeInv, DecoderType
  <2>. QED
    BY <1>2, <2>1, <2>2 DEF GetPacket, TypeInv, RunType, SharedType, run, shared
<1>3. CASE Seek(s)
  <2>1. DecoderType'
    BY <1>3 DEF Seek, TypeInv, DecoderType, CpcLabels
  <2>. QED
    BY <1>3, <2>1 DEF Seek, TypeInv, RunType, SharedType, QueueType, run, shared
<1>4. CASE SeekThread(s)
  <2>1. PICK t \in SeekTimes :
          /\ m_clip_begin' = t /\ m_clip_begin_changed' = TRUE
          /\ ds' = [ds EXCEPT ![s] = FlushDatasource(@, t)]
    BY <1>4 DEF SeekThread
  <2>2. t \in Positions
    BY DemuxAssumption
  <2>3. RunType'
    BY <1>4 DEF SeekThread, TypeInv, RunType, run
  <2>4. cpc' = [cpc EXCEPT ![s] = "idle"] /\ UNCHANGED <<m_sinks, exit_requested, refs>>
    BY <1>4 DEF SeekThread
  <2>5. QueueType'
    BY <1>0, <2>1, <2>2, FlushSound, OneSound DEF TypeInv
  <2>6. DecoderType'
    BY <1>4, <2>4 DEF SeekThread, TypeInv, DecoderType, CpcLabels
  <2>. QED
    BY <2>1, <2>2, <2>3, <2>4, <2>5, <2>6 DEF TypeInv, SharedType
<1>5. CASE Stop(s)
  <2>1. QueueType'
    <3>1. Sound([ds[s] EXCEPT !.thread = FALSE])
      BY <1>0 DEF Sound, DatasourceSet
    <3>2. ds' = [ds EXCEPT ![s] = [ds[s] EXCEPT !.thread = FALSE]]
      BY <1>5 DEF Stop
    <3>. QED
      BY <3>1, <3>2, OneSound DEF TypeInv
  <2>2. DecoderType'
    BY <1>5 DEF Stop, TypeInv, DecoderType, CpcLabels
  <2>. QED
    BY <1>5, <2>1, <2>2 DEF Stop, TypeInv, RunType, SharedType, run, shared
<1>6. CASE RemoveDatasink(s)
  <2>1. DecoderType' /\ SharedType'
    BY <1>6 DEF RemoveDatasink, TypeInv, DecoderType, SharedType, CpcLabels
  <2>. QED
    BY <1>6, <2>1 DEF RemoveDatasink, TypeInv, RunType, QueueType, run
<1>7. CASE Dispose(s)
  <2>1. QueueType'
    BY <1>7, Packets, PushOne DEF Dispose, TypeInv, QueueType
  <2>2. DecoderType'
    BY <1>7 DEF Dispose, TypeInv, DecoderType, CpcLabels
  <2>3. exit_requested' \in BOOLEAN
    BY <1>7 DEF Dispose
  <2>. QED
    BY <1>7, <2>1, <2>2, <2>3 DEF Dispose, TypeInv, RunType, SharedType, run
<1>8. CASE Join(s)
  <2>1. DecoderType'
    BY <1>8 DEF Join, TypeInv, DecoderType, CpcLabels
  <2>. QED
    BY <1>8, <2>1 DEF Join, TypeInv, RunType, SharedType, QueueType, run, shared
<1>9. CASE Cleanup(s)
  <2>1. QueueType'
    BY <1>0, <1>9, CloseSound, OneSound DEF Cleanup, TypeInv
  <2>2. DecoderType'
    BY <1>9 DEF Cleanup, TypeInv, DecoderType, CpcLabels
  <2>. QED
    BY <1>9, <2>1, <2>2 DEF Cleanup, TypeInv, RunType, SharedType, run, shared
<1>. QED
  BY <1>1, <1>2, <1>3, <1>4, <1>5, <1>6, <1>7, <1>8, <1>9

LEMMA TypeNext == TypeInv /\ [Next]_vars => TypeInv'
<1>. SUFFICES ASSUME TypeInv, [Next]_vars PROVE TypeInv'
  OBVIOUS
<1>1. CASE Next
  BY <1>1, RunStepType, DecoderStepType DEF Next
<1>2. CASE UNCHANGED vars
  BY <1>2 DEF vars, run, shared, TypeInv, RunType, SharedType, DecoderType, QueueType
<1>. QED
  BY <1>1, <1>2

LEMMA TypeInvariant == Spec => []TypeInv
BY InitType, TypeNext, PTL DEF Spec

-----------------------------------------------------------------------------
(* References *)

One(b) == IF b THEN 1 ELSE 0

\* Where a sink is on its way out of the table, and that the thread exits only
\* when the table is empty.
SinkInv ==
    /\ \A s \in Streams : s \in m_sinks <=> cpc[s] \in {"idle", "seek", "remove"}
    /\ \A s \in Streams : cpc[s] \notin {"idle", "seek"} => ~ds[s].thread
    /\ exit_requested => m_sinks = {}
    /\ pc \in {"exit", "exited"} => exit_requested

\* The reference of the table is passed to the decoder that removes the sink:
\* it is the decoder's to drop, or to leave, until it is past "dispose".
InTable(s) == cpc[s] \in {"idle", "seek", "remove", "dispose"}

RefInv ==
    \A s \in Streams :
        refs[s] >= One(cpc[s] # "stopped") + One(InTable(s)) + One(Busy(s))

LEMMA InitSink == Init => SinkInv /\ RefInv
BY DEF Init, SinkInv, RefInv, NewDatasource, InTable, Busy, One

LEMMA RunStepSink ==
  ASSUME TypeInv, TypeInv', SinkInv, RefInv,
         Loop \/ SeekFrame \/ PushFlush \/ PushEof \/ ReadPacket \/ ReadEof
           \/ Push \/ Pushed \/ Exit
  PROVE  SinkInv' /\ RefInv'
<1>. USE FileFacts
<1>. DEFINE Quiet == /\ UNCHANGED <<m_sinks, exit_requested, cpc>>
                     /\ \A u \in Streams : ds'[u].thread = ds[u].thread
<1>0. /\ \A u \in Streams : Sound(ds[u]) /\ Sound(ds'[u])
      /\ \A u \in Streams : refs[u] \in Int
  BY DEF TypeInv, QueueType, DecoderType
<1>1. ASSUME Quiet, pc' \in {"exit", "exited"} => exit_requested
      PROVE  SinkInv'
  BY <1>1 DEF SinkInv
<1>2. ASSUME Quiet, UNCHANGED refs, \A s \in Streams : Busy(s)' => Busy(s)
      PROVE  RefInv'
  BY <1>0, <1>2 DEF RefInv, InTable, One
<1>3. CASE Loop
  <2>1. Quiet /\ UNCHANGED refs /\ pc' \notin {"push", "pushed"} /\ (pc' = "exit" => exit_requested)
        /\ pc' # "exited"
    BY <1>3, LoopTopType DEF Loop, TypeInv, RunType, shared
  <2>. QED
    BY <1>1, <1>2, <2>1 DEF Busy
<1>4. CASE SeekFrame
  BY <1>1, <1>2, <1>4 DEF SeekFrame, Busy
<1>5. CASE PushFlush \/ PushEof
  <2>1. /\ \A u \in Streams : ds'[u].thread = ds[u].thread
        /\ UNCHANGED <<m_sinks, exit_requested, cpc, refs>>
        /\ pc' \notin {"push", "pushed", "exit", "exited"}
    <3>1. PICK p \in PacketSet : PushToSink(p)
      BY <1>5, Packets DEF PushFlush, PushEof, TypeInv
    <3>2. \A u \in Streams : ds'[u].thread = ds[u].thread
      BY <1>0, <3>1, PushDataSound DEF PushToSink, TypeInv, QueueType, RunType
    <3>. QED
      BY <1>5, <3>2 DEF PushFlush, PushEof, shared
  <2>. QED
    BY <1>1, <1>2, <2>1 DEF Busy
<1>6. CASE ReadPacket
  <2>. DEFINE s == File[filepos]
  <2>1. filepos \in Positions /\ s \in Streams
    BY <1>6 DEF ReadPacket, TypeInv, RunType, Positions
  <2>2. Quiet
    BY <1>6 DEF ReadPacket, shared
  <2>3. CASE KeepPushing(s)
    <3>1. /\ pc' = "push" /\ pkt' = filepos
          /\ refs' = [refs EXCEPT ![s] = @ + 1]
      BY <1>6, <2>3 DEF ReadPacket
    <3>2. \A u \in Streams : ~Busy(u) /\ (Busy(u)' <=> u = s)
      BY <1>6, <3>1 DEF ReadPacket, Busy
    <3>3. \A u \in Streams : refs'[u] = IF u = s THEN refs[s] + 1 ELSE refs[u]
      BY <2>1, <3>1 DEF TypeInv, DecoderType
    <3>4. RefInv'
      BY <1>0, <2>1, <2>2, <3>2, <3>3 DEF RefInv, InTable, One
    <3>. QED
      BY <1>1, <2>2, <3>1, <3>4
  <2>4. CASE ~KeepPushing(s)
    <3>. DEFINE e == eof_sent_to_clients /\ s \notin m_sinks
    <3>1. LoopTop(e) /\ e \in BOOLEAN /\ UNCHANGED refs
      BY <1>6, <2>4 DEF ReadPacket, TypeInv, RunType
    <3>. HIDE DEF e
    <3>2. pc' \notin {"push", "pushed", "exited"} /\ (pc' = "exit" => exit_requested)
      BY <3>1, LoopTopType
    <3>. QED
      BY <1>1, <1>2, <2>2, <3>1, <3>2 DEF Busy
  <2>. QED
    BY <2>3, <2>4
<1>7. CASE ReadEof
  <2>1. Quiet /\ UNCHANGED refs /\ pc' \notin {"push", "pushed", "exit", "exited"}
    BY <1>7 DEF ReadEof, shared
  <2>. QED
    BY <1>1, <1>2, <2>1 DEF Busy
<1>8. CASE Push
  <2>1. File[pkt] \in Streams /\ pkt \in Positions
    BY <1>8 DEF Push, TypeInv, RunType
  <2>2. \A u \in Streams : ds'[u].thread = ds[u].thread
    BY <1>8, <2>1, Packets, PushOne DEF Push, TypeInv
  <2>3. UNCHANGED <<m_sinks, exit_requested, cpc, refs, pkt>> /\ pc = "push" /\ pc' = "pushed"
    BY <1>8 DEF Push, shared
  <2>. QED
    BY <1>1, <1>2, <2>2, <2>3 DEF Busy
<1>9. CASE Pushed
  <2>. DEFINE s == File[pkt]
  <2>1. s \in Streams /\ pkt \in Positions
    BY <1>9 DEF Pushed, TypeInv, RunType
  <2>2. \A u \in Streams : ds'[u].thread = ds[u].thread
    BY <1>9, <2>1, Packets, PushOne DEF Pushed, TypeInv
  <2>3. UNCHANGED <<m_sinks, exit_requested, cpc>> /\ pc = "pushed"
    BY <1>9 DEF Pushed, shared
  <2>4. CASE ~accepted /\ KeepPushing(s)
    <3>1. pc' = "push" /\ UNCHANGED <<pkt, refs>>
      BY <1>9, <2>4 DEF Pushed
    <3>. QED
      BY <1>1, <1>2, <2>2, <2>3, <3>1 DEF Busy
  <2>5. CASE ~(~accepted /\ KeepPushing(s))
    <3>1. LoopTop(eof_sent_to_clients) /\ refs' = [refs EXCEPT ![s] = @ - 1]
      BY <1>9, <2>5 DEF Pushed
    <3>2. pc' \notin {"push", "pushed", "exited"} /\ (pc' = "exit" => exit_requested)
      BY <3>1, LoopTopType DEF TypeInv, RunType
    <3>3. \A u \in Streams : ~Busy(u)' /\ (Busy(u) <=> u = s)
      BY <2>3, <3>2 DEF Busy
    <3>4. \A u \in Streams : refs'[u] = IF u = s THEN refs[s] - 1 ELSE refs[u]
      BY <2>1, <3>1 DEF TypeInv, DecoderType
    <3>5. RefInv'
      BY <1>0, <2>1, <2>3, <3>3, <3>4 DEF RefInv, InTable, One
    <3>. QED
      BY <1>1, <2>2, <2>3, <3>2, <3>5
  <2>. QED
    BY <2>4, <2>5
<1>10. CASE Exit
  <2>1. m_sinks = {} /\ exit_requested
    BY <1>10 DEF Exit, SinkInv
  <2>2. UNCHANGED <<m_sinks, exit_requested, cpc>> /\ pc' = "exited"
    BY <1>10, <2>1 DEF Exit
  <2>3. \A u \in Streams : ds'[u] = ds[u] /\ refs'[u] = refs[u]
    BY <1>10, <2>1 DEF Exit
  <2>4. \A u \in Streams : ~Busy(u)'
    BY <2>2 DEF Busy
  <2>. QED
    BY <1>0, <2>1, <2>2, <2>3, <2>4 DEF SinkInv, RefInv, InTable, One
<1>. QED
  BY <1>3, <1>4, <1>5, <1>6, <1>7, <1>8, <1>9, <1>10

LEMMA DecoderStepSink ==
  ASSUME TypeInv, TypeInv', SinkInv, RefInv, NEW s \in Streams,
         \/ Start(s) \/ GetPacket(s) \/ Seek(s) \/ SeekThread(s) \/ Stop(s)
         \/ RemoveDatasink(s) \/ Dispose(s) \/ Join(s) \/ Cleanup(s)
  PROVE  SinkInv' /\ RefInv'
<1>0. /\ \A u \in Streams : Sound(ds[u]) /\ Sound(ds'[u])
      /\ refs \in [Streams -> Int] /\ cpc \in [Streams -> CpcLabels]
      /\ ds = [u \in Streams |-> ds[u]]
  BY DEF TypeInv, QueueType, DecoderType
<1>1. CASE Start(s)
  <2>1. \A u \in Streams : ds'[u].thread = ds[u].thread
    BY <1>0, <1>1, StartSound DEF Start
  <2>2. \A u \in Streams : Busy(u)' => Busy(u)
    BY <1>1 DEF Start, Busy
  <2>3. UNCHANGED <<m_sinks, exit_requested, cpc, refs>>
    BY <1>1 DEF Start, shared
  <2>4. pc' \in {"exit", "exited"} => pc \in {"exit", "exited"}
    BY <1>1 DEF Start
  <2>. QED
    BY <1>0, <2>1, <2>2, <2>3, <2>4 DEF SinkInv, RefInv, InTable, One
<1>2. CASE GetPacket(s)
  <2>1. \A u \in Streams : ds'[u].thread = ds[u].thread
    BY <1>0, <1>2, TakeSound DEF GetPacket
  <2>2. UNCHANGED <<m_sinks, exit_requested, cpc, refs, pc, pkt>>
    BY <1>2 DEF GetPacket, run, shared
  <2>. QED
    BY <2>1, <2>2 DEF SinkInv, RefInv, InTable, Busy
<1>3. CASE Seek(s)
  <2>1. UNCHANGED <<m_sinks, exit_requested, refs, pc, pkt, ds>>
    BY <1>3 DEF Seek, run, shared
  <2>2. cpc[s] = "idle" /\ \A u \in Streams : cpc'[u] = IF u = s THEN "seek" ELSE cpc[u]
    BY <1>0, <1>3 DEF Seek
  <2>. QED
    BY <1>0, <2>1, <2>2 DEF SinkInv, RefInv, InTable, Busy, One
<1>4. CASE SeekThread(s)
  <2>1. UNCHANGED <<m_sinks, exit_requested, refs, pc, pkt>>
    BY <1>4 DEF SeekThread, run
  <2>2. cpc[s] = "seek" /\ \A u \in Streams : cpc'[u] = IF u = s THEN "idle" ELSE cpc[u]
    BY <1>0, <1>4 DEF SeekThread
  <2>3. \A u \in Streams : u # s => ds'[u] = ds[u]
    BY <1>0, <1>4 DEF SeekThread
  <2>. QED
    BY <1>0, <2>1, <2>2, <2>3 DEF SinkInv, RefInv, InTable, Busy, One
<1>5. CASE Stop(s)
  <2>1. UNCHANGED <<m_sinks, exit_requested, refs, pc, pkt>>
    BY <1>5 DEF Stop, run, shared
  <2>2. cpc[s] = "idle" /\ \A u \in Streams : cpc'[u] = IF u = s THEN "remove" ELSE cpc[u]
    BY <1>0, <1>5 DEF Stop
  <2>3. \A u \in Streams : ds'[u].thread = IF u = s THEN FALSE ELSE ds[u].thread
    BY <1>0, <1>5 DEF Stop, Sound, DatasourceSet
  <2>. QED
    BY <1>0, <2>1, <2>2, <2>3 DEF SinkInv, RefInv, InTable, Busy, One
<1>6. CASE RemoveDatasink(s)
  <2>1. UNCHANGED <<exit_requested, refs, pc, pkt, ds>> /\ m_sinks' = m_sinks \ {s}
    BY <1>6 DEF RemoveDatasink, run
  <2>2. cpc[s] = "remove" /\ \A u \in Streams : cpc'[u] = IF u = s THEN "dispose" ELSE cpc[u]
    BY <1>0, <1>6 DEF RemoveDatasink
  <2>. QED
    BY <1>0, <2>1, <2>2 DEF SinkInv, RefInv, InTable, Busy, One
<1>7. CASE Dispose(s)
  <2>1. UNCHANGED <<m_sinks, pc, pkt>> /\ exit_requested' = (m_sinks = {})
    BY <1>7 DEF Dispose, run
  <2>2. /\ cpc[s] = "dispose"
        /\ \A u \in Streams : cpc'[u] = IF u = s
                                        THEN IF m_sinks = {} THEN "cancel" ELSE "cleanup"
                                        ELSE cpc[u]
    BY <1>0, <1>7 DEF Dispose
  <2>3. \A u \in Streams : ds'[u].thread = ds[u].thread
    BY <1>7, Packets, PushOne DEF Dispose, TypeInv
  <2>4. SinkInv'
    BY <2>1, <2>2, <2>3 DEF SinkInv
  <2>5. \A u \in Streams : refs'[u] = IF u = s /\ ~Busy(s) THEN refs[u] - 1 ELSE refs[u]
    BY <1>0, <1>7 DEF Dispose
  <2>6. \A u \in Streams : Busy(u)' <=> Busy(u)
    BY <2>1 DEF Busy
  <2>7. RefInv'
    BY <1>0, <2>2, <2>5, <2>6 DEF RefInv, InTable, One
  <2>. QED
    BY <2>4, <2>7
<1>8. CASE Join(s)
  <2>1. UNCHANGED <<m_sinks, exit_requested, refs, pc, pkt, ds>>
    BY <1>8 DEF Join, run, shared
  <2>2. cpc[s] = "cancel" /\ \A u \in Streams : cpc'[u] = IF u = s THEN "cleanup" ELSE cpc[u]
    BY <1>0, <1>8 DEF Join
  <2>. QED
    BY <1>0, <2>1, <2>2 DEF SinkInv, RefInv, InTable, Busy, One
<1>9. CASE Cleanup(s)
  <2>1. UNCHANGED <<m_sinks, exit_requested, pc, pkt>>
    BY <1>9 DEF Cleanup, run, shared
  <2>2. cpc[s] = "cleanup" /\ \A u \in Streams : cpc'[u] = IF u = s THEN "stopped" ELSE cpc[u]
    BY <1>0, <1>9 DEF Cleanup
  <2>3. \A u \in Streams : ds'[u].thread = ds[u].thread
    BY <1>0, <1>9, CloseSound DEF Cleanup
  <2>4. \A u \in Streams : refs'[u] = IF u = s THEN refs[s] - 1 ELSE refs[u]
    BY <1>0, <1>9 DEF Cleanup
  <2>. QED
    BY <1>0, <2>1, <2>2, <2>3, <2>4 DEF SinkInv, RefInv, InTable, Busy, One
<1>. QED
  BY <1>1, <1>2, <1>3, <1>4, <1>5, <1>6, <1>7, <1>8, <1>9

LEMMA SinkInvariant == Spec => [](TypeInv /\ SinkInv /\ RefInv)
<1>1. Init => TypeInv /\ SinkInv /\ RefInv
  BY InitType, InitSink
<1>2. TypeInv /\ SinkInv /\ RefInv /\ [Next]_vars => (TypeInv /\ SinkInv /\ RefInv)'
  <2>. SUFFICES ASSUME TypeInv, SinkInv, RefInv, [Next]_vars
                PROVE  TypeInv' /\ SinkInv' /\ RefInv'
    OBVIOUS
  <2>1. TypeInv'
    BY TypeNext
  <2>2. CASE Next
    BY <2>1, <2>2, RunStepSink, DecoderStepSink DEF Next
  <2>3. CASE UNCHANGED vars
    BY <2>1, <2>3 DEF vars, run, shared, SinkInv, RefInv, InTable, Busy
  <2>. QED
    BY <2>2, <2>3
<1>. QED
  BY <1>1, <1>2, PTL DEF Spec

\* The demultiplexer is type-correct, for any file and number of streams: no
\* queue exceeds MAX_PACKETS_BUFFERED, a client has at most one callback under
\* way, and no reference count falls below zero.
THEOREM TypeCorrect == Spec => []TypeOK
<1>1. TypeInv /\ SinkInv /\ RefInv => TypeOK
  <2>. SUFFICES ASSUME TypeInv, RefInv PROVE TypeOK
    OBVIOUS
  <2>1. ASSUME NEW s \in Streams
        PROVE  /\ Len(ds[s].frames) <= MAX_PACKETS_BUFFERED
               /\ \A i \in DOMAIN ds[s].frames : ds[s].frames[i].flag \in Flags \ {"nodata"}
               /\ ds[s].time \in Positions \cup {NoTime} /\ ds[s].event \in 0..1
    <3>1. ds[s] \in DatasourceSet /\ Len(ds[s].frames) <= MAX_PACKETS_BUFFERED
      BY DEF TypeInv, QueueType, Sound
    <3>2. \A i \in DOMAIN ds[s].frames : ds[s].frames[i] \in PacketSet
      BY <3>1, LenProperties DEF DatasourceSet
    <3>. QED
      BY <3>1, <3>2 DEF DatasourceSet, PacketSet
  <2>2. refs \in [Streams -> Nat]
    BY DEF TypeInv, DecoderType, RefInv, One
  <2>. QED
    BY <2>1, <2>2 DEF TypeInv, RunType, SharedType, DecoderType, TypeOK, PcLabels, CpcLabels
<1>. QED
  BY <1>1, SinkInvariant, PTL

LEMMA UnionBound ==
  ASSUME NEW A, IsFiniteSet(A), NEW B, IsFiniteSet(B), NEW C, IsFiniteSet(C)
  PROVE  Cardinality((A \cup B) \cup C) <= Cardinality(A) + Cardinality(B) + Cardinality(C)
<1>1. /\ IsFiniteSet(A \cup B)
      /\ Cardinality(A \cup B) = Cardinality(A) + Cardinality(B) - Cardinality(A \cap B)
  BY FS_Union
<1>2. /\ IsFiniteSet((A \cup B) \cup C)
      /\ Cardinality((A \cup B) \cup C)
            = Cardinality(A \cup B) + Cardinality(C) - Cardinality((A \cup B) \cap C)
  BY <1>1, FS_Union
<1>3. IsFiniteSet(A \cap B) /\ IsFiniteSet((A \cup B) \cap C)
  BY <1>1, FS_Intersection
<1>4. /\ Cardinality(A) \in Nat /\ Cardinality(B) \in Nat /\ Cardinality(C) \in Nat
      /\ Cardinality(A \cap B) \in Nat /\ Cardinality((A \cup B) \cap C) \in Nat
      /\ Cardinality(A \cup B) \in Nat
  BY <1>1, <1>3, FS_CardinalityType
<1>. QED
  BY <1>1, <1>2, <1>4

\* Counting the users of a datasource.
LEMMA UsersCount ==
  ASSUME NEW a \in BOOLEAN, NEW b \in BOOLEAN, NEW c \in BOOLEAN
  PROVE  Cardinality({u \in {"decoder", "table", "thread"} :
                         (u = "decoder" /\ a) \/ (u = "table" /\ b) \/ (u = "thread" /\ c)})
           <= One(a) + One(b) + One(c)
<1>. DEFINE A == IF a THEN {"decoder"} ELSE {}
            B == IF b THEN {"table"} ELSE {}
            C == IF c THEN {"thread"} ELSE {}
<1>1. /\ IsFiniteSet(A) /\ Cardinality(A) = One(a)
      /\ IsFiniteSet(B) /\ Cardinality(B) = One(b)
      /\ IsFiniteSet(C) /\ Cardinality(C) = One(c)
  BY FS_EmptySet, FS_Singleton DEF One
<1>2. {u \in {"decoder", "table", "thread"} :
         (u = "decoder" /\ a) \/ (u = "table" /\ b) \/ (u = "thread" /\ c)} = (A \cup B) \cup C
  OBVIOUS
<1>. HIDE DEF A, B, C
<1>3. Cardinality((A \cup B) \cup C) <= Cardinality(A) + Cardinality(B) + Cardinality(C)
  BY <1>1, UnionBound
<1>. QED
  BY <1>1, <1>2, <1>3

\* No datasource is freed while its decoder, the table of sinks or the thread
\* still uses it, whatever remove_datasink finds when it compares the sink with
\* m_current_sink without the lock: a sink that is out of the table is never
\* taken up by the thread again.
THEOREM NoEarlyFree == Spec => []NeverFreedEarly
<1>1. TypeInv /\ SinkInv /\ RefInv => NeverFreedEarly
  <2>. SUFFICES ASSUME TypeInv, SinkInv, RefInv, NEW s \in Streams
                PROVE  refs[s] >= Cardinality({u \in {"decoder", "table", "thread"} :
                                       \/ u = "decoder" /\ cpc[s] # "stopped"
                                       \/ u = "table" /\ s \in m_sinks
                                       \/ u = "thread" /\ Busy(s)})
    BY DEF NeverFreedEarly
  <2>. DEFINE a == cpc[s] # "stopped"
              b == s \in m_sinks
              c == Busy(s)
              U == {u \in {"decoder", "table", "thread"} :
                      (u = "decoder" /\ a) \/ (u = "table" /\ b) \/ (u = "thread" /\ c)}
  <2>1. refs[s] >= One(a) + One(b) + One(c) /\ refs[s] \in Int
    BY DEF RefInv, SinkInv, InTable, One, TypeInv, DecoderType
  <2>2. a \in BOOLEAN /\ b \in BOOLEAN /\ c \in BOOLEAN
    BY DEF Busy
  <2>3. IsFiniteSet(U) /\ Cardinality(U) \in Nat
    <3>1. IsFiniteSet({"decoder", "table", "thread"})
      <4>1. IsFiniteSet({"decoder"} \cup {"table"} \cup {"thread"})
        BY FS_Singleton, FS_Union
      <4>2. {"decoder", "table", "thread"} = {"decoder"} \cup {"table"} \cup {"thread"}
        OBVIOUS
      <4>. QED
        BY <4>1, <4>2
    <3>2. U \in SUBSET {"decoder", "table", "thread"}
      OBVIOUS
    <3>. HIDE DEF U
    <3>. QED
      BY <3>1, <3>2, FS_Subset, FS_CardinalityType
  <2>. HIDE DEF a, b, c
  <2>4. Cardinality(U) <= One(a) + One(b) + One(c)
    BY <2>2, UsersCount
  <2>5. refs[s] >= Cardinality(U)
    <3>. HIDE DEF U
    <3>. QED
      BY <2>1, <2>3, <2>4 DEF One
  <2>. QED
    BY <2>5 DEF a, b, c
<1>. QED
  BY <1>1, SinkInvariant, PTL

-----------------------------------------------------------------------------
(* Order *)

\* The order of the packets in a queue q of stream s.
Chain(s, q) ==
    \A i, j \in DOMAIN q :
        /\ i < j /\ IsData(q[i]) /\ IsData(q[j])
        /\ \A k \in DOMAIN q : i < k /\ k < j => ~IsData(q[k])
        => Follows(s, q[i], q[j])

\* i is the place of the last data in q.
LastData(q, i) ==
    i \in DOMAIN q /\ IsData(q[i]) /\ \A k \in DOMAIN q : k > i => ~IsData(q[k])

\* The thread has read a packet of s that is still to be accepted.
Pending(s) == (pc = "push" \/ (pc = "pushed" /\ ~accepted)) /\ File[pkt] = s

\* Where the packets begin that have not been handed to s since the last seek.
Unsent(s) == IF Pending(s) THEN pkt ELSE filepos

\* What the thread will push to s carries on from packet a.
Continues(s, a) ==
    IF a.flag = "eof"
    THEN /\ filepos > Len(File) /\ pc \notin {"push", "pushed"}
         /\ eof_sent_to_clients \/ (pc = "eof" /\ sinkno > s)
    ELSE a.pos < Unsent(s) /\ \A q \in After(s, a.pos) : q >= Unsent(s)

\* The decoder of s sees its packets in order, and the thread carries on where
\* it left off.
InOrder(s) ==
    /\ Chain(s, Seen(s))
    /\ \A i \in DOMAIN Seen(s) : Seen(s)[i].gen <= gen
    /\ ds[s].thread /\ pc # "seek" =>
          \A i \in DOMAIN Seen(s) :
             LastData(Seen(s), i) /\ Seen(s)[i].gen = gen => Continues(s, Seen(s)[i])

SeqInv == \A s \in Streams : InOrder(s)

PacketOrNone == PacketSet \cup {NoData}

\* A packet put in front of a queue.
LEMMA PutFirst ==
  ASSUME NEW f \in Seq(PacketSet), NEW g \in PacketOrNone
  PROVE  /\ <<g>> \o f \in Seq(PacketOrNone) /\ Len(<<g>> \o f) = Len(f) + 1
         /\ (<<g>> \o f)[1] = g
         /\ \A i \in 1..Len(f) : (<<g>> \o f)[i + 1] = f[i]
<1>1. f \in Seq(PacketOrNone) /\ <<g>> \in Seq(PacketOrNone)
  BY DEF PacketOrNone
<1>. QED
  BY <1>1, ConcatProperties

LEMMA SeenFacts ==
  ASSUME TypeInv, NEW s \in Streams
  PROVE  /\ Seen(s) \in Seq(PacketOrNone)
         /\ ds[s].frames \in Seq(PacketSet) /\ Len(ds[s].frames) \in Nat
         /\ got[s] \in PacketOrNone
         /\ Len(Seen(s)) = Len(ds[s].frames) + 1
         /\ Seen(s)[1] = got[s]
         /\ \A i \in 1..Len(ds[s].frames) : Seen(s)[i + 1] = ds[s].frames[i]
<1>1. ds[s].frames \in Seq(PacketSet) /\ got[s] \in PacketOrNone
  BY DEF TypeInv, QueueType, DecoderType, Sound, DatasourceSet, PacketOrNone
<1>3. /\ Seen(s) \in Seq(PacketOrNone) /\ Len(Seen(s)) = Len(ds[s].frames) + 1
      /\ Seen(s)[1] = got[s]
      /\ \A i \in 1..Len(ds[s].frames) : Seen(s)[i + 1] = ds[s].frames[i]
  BY <1>1, PutFirst DEF Seen
<1>. QED
  BY <1>1, <1>3, LenProperties

LEMMA ChainAppend ==
  ASSUME NEW T, NEW q \in Seq(T), NEW p \in T, NEW s, Chain(s, q),
         IsData(p) => \A i \in DOMAIN q : LastData(q, i) => Follows(s, q[i], p)
  PROVE  /\ Chain(s, Append(q, p))
         /\ \A i \in DOMAIN Append(q, p) : LastData(Append(q, p), i) =>
               IF IsData(p) THEN Append(q, p)[i] = p
                            ELSE i \in DOMAIN q /\ LastData(q, i) /\ Append(q, p)[i] = q[i]
<1>. DEFINE r == Append(q, p)
<1>1. /\ DOMAIN q = 1..Len(q) /\ Len(q) \in Nat /\ DOMAIN r = 1..(Len(q) + 1)
      /\ \A i \in 1..Len(q) : r[i] = q[i]
      /\ r[Len(q) + 1] = p
  BY AppendProperties, LenProperties
<1>. HIDE DEF r
<1>2. Chain(s, r)
  <2>. SUFFICES ASSUME NEW i \in DOMAIN r, NEW j \in DOMAIN r,
                       i < j, IsData(r[i]), IsData(r[j]),
                       \A k \in DOMAIN r : i < k /\ k < j => ~IsData(r[k])
                PROVE  Follows(s, r[i], r[j])
    BY DEF Chain
  <2>1. i \in DOMAIN q /\ r[i] = q[i] /\ i \in Nat /\ j \in Nat
    BY <1>1
  <2>2. CASE j = Len(q) + 1
    <3>1. LastData(q, i)
      <4>. SUFFICES ASSUME NEW k \in DOMAIN q, k > i PROVE ~IsData(q[k])
        BY <2>1 DEF LastData
      <4>1. k \in DOMAIN r /\ i < k /\ k < j /\ r[k] = q[k]
        BY <1>1, <2>1, <2>2
      <4>. QED
        BY <4>1
    <3>. QED
      BY <1>1, <2>1, <2>2, <3>1
  <2>3. CASE j # Len(q) + 1
    <3>1. j \in DOMAIN q /\ r[j] = q[j]
      BY <1>1, <2>3
    <3>2. ASSUME NEW k \in DOMAIN q, i < k, k < j PROVE ~IsData(q[k])
      <4>1. k \in DOMAIN r /\ r[k] = q[k]
        BY <1>1
      <4>. QED
        BY <3>2, <4>1
    <3>. QED
      BY <2>1, <3>1, <3>2 DEF Chain
  <2>. QED
    BY <2>2, <2>3
<1>3. ASSUME NEW i \in DOMAIN r, LastData(r, i), IsData(p)
      PROVE  r[i] = p
  <2>1. ~(Len(q) + 1 > i)
    BY <1>1, <1>3 DEF LastData
  <2>2. i = Len(q) + 1
    BY <1>1, <2>1
  <2>. QED
    BY <1>1, <2>2
<1>4. ASSUME NEW i \in DOMAIN r, LastData(r, i), ~IsData(p)
      PROVE  i \in DOMAIN q /\ LastData(q, i) /\ r[i] = q[i]
  <2>1. i # Len(q) + 1
    BY <1>1, <1>4 DEF LastData
  <2>2. i \in DOMAIN q /\ r[i] = q[i]
    BY <1>1, <2>1
  <2>3. ASSUME NEW k \in DOMAIN q, k > i PROVE ~IsData(q[k])
    <3>1. k \in DOMAIN r /\ r[k] = q[k]
      BY <1>1
    <3>. QED
      BY <1>4, <2>3, <3>1 DEF LastData
  <2>. QED
    BY <1>4, <2>2, <2>3 DEF LastData
<1>. QED
  BY <1>2, <1>3, <1>4 DEF r

\* r is q without its first packet.
LEMMA ChainTail ==
  ASSUME NEW T, NEW q \in Seq(T), NEW r \in Seq(T), Len(q) = Len(r) + 1,
         \A i \in 1..Len(r) : r[i] = q[i + 1], NEW s, Chain(s, q)
  PROVE  /\ Chain(s, r)
         /\ \A i \in DOMAIN r : LastData(r, i) => i + 1 \in DOMAIN q /\ LastData(q, i + 1)
<1>1. /\ DOMAIN q = 1..Len(q) /\ Len(q) \in Nat /\ DOMAIN r = 1..Len(r) /\ Len(r) \in Nat
  BY LenProperties
<1>2. \A i \in DOMAIN r : i + 1 \in DOMAIN q /\ r[i] = q[i + 1] /\ i \in Nat
  BY <1>1
<1>3. \A k \in DOMAIN q : k > 1 => k - 1 \in DOMAIN r /\ r[k - 1] = q[k] /\ k \in Nat
  <2>. SUFFICES ASSUME NEW k \in DOMAIN q, k > 1
                PROVE  k - 1 \in DOMAIN r /\ r[k - 1] = q[k] /\ k \in Nat
    OBVIOUS
  <2>1. k - 1 \in DOMAIN r /\ (k - 1) + 1 = k /\ k \in Nat
    BY <1>1
  <2>. QED
    BY <1>2, <2>1
<1>4. Chain(s, r)
  <2>. SUFFICES ASSUME NEW i \in DOMAIN r, NEW j \in DOMAIN r,
                       i < j, IsData(r[i]), IsData(r[j]),
                       \A k \in DOMAIN r : i < k /\ k < j => ~IsData(r[k])
                PROVE  Follows(s, r[i], r[j])
    BY DEF Chain
  <2>1. i + 1 \in DOMAIN q /\ j + 1 \in DOMAIN q /\ i + 1 < j + 1
        /\ IsData(q[i + 1]) /\ IsData(q[j + 1])
    BY <1>2
  <2>2. ASSUME NEW k \in DOMAIN q, i + 1 < k, k < j + 1 PROVE ~IsData(q[k])
    <3>1. k \in Nat /\ i \in Nat /\ j \in Nat
      BY <1>1
    <3>2. k - 1 \in DOMAIN r /\ r[k - 1] = q[k] /\ i < k - 1 /\ k - 1 < j
      BY <1>3, <2>2, <3>1
    <3>. QED
      BY <3>2
  <2>. QED
    BY <1>2, <2>1, <2>2 DEF Chain
<1>5. ASSUME NEW i \in DOMAIN r, LastData(r, i)
      PROVE  i + 1 \in DOMAIN q /\ LastData(q, i + 1)
  <2>1. ASSUME NEW k \in DOMAIN q, k > i + 1 PROVE ~IsData(q[k])
    <3>1. k \in Nat /\ i \in Nat /\ i >= 1
      BY <1>1
    <3>2. k - 1 \in DOMAIN r /\ r[k - 1] = q[k] /\ k - 1 > i
      BY <1>3, <2>1, <3>1
    <3>. QED
      BY <1>5, <3>2 DEF LastData
  <2>. QED
    BY <1>2, <1>5, <2>1 DEF LastData
<1>. QED
  BY <1>4, <1>5

LEMMA ChainNone ==
  ASSUME NEW s, NEW q, q = <<NoData>>
  PROVE  Chain(s, q) /\ \A i \in DOMAIN q : ~LastData(q, i) /\ q[i].gen = 0
<1>1. DOMAIN q = {1} /\ q[1] = NoData
  OBVIOUS
<1>2. ~IsData(NoData) /\ NoData.gen = 0
  BY DEF IsData, NoData
<1>. QED
  BY <1>1, <1>2 DEF Chain, LastData

LEMMA SeenAppend ==
  ASSUME TypeInv, NEW s \in Streams, NEW p \in PacketSet, got'[s] = got[s],
         ds'[s].frames = Append(ds[s].frames, p)
  PROVE  Seen(s)' = Append(Seen(s), p)
<1>1. ds[s].frames \in Seq(PacketOrNone) /\ <<got[s]>> \in Seq(PacketOrNone) /\ p \in PacketOrNone
  BY SeenFacts DEF PacketOrNone
<1>2. <<got[s]>> \o Append(ds[s].frames, p) = Append(<<got[s]>> \o ds[s].frames, p)
  BY <1>1
<1>. QED
  BY <1>2 DEF Seen

\* A step that leaves alone what the decoder sees.
LEMMA SameOrder ==
  ASSUME TypeInv, NEW s \in Streams, InOrder(s), gen' = gen,
         ds'[s].frames = ds[s].frames, got'[s] = got[s],
         ds'[s].thread /\ pc' # "seek" =>
            /\ ds[s].thread /\ pc # "seek"
            /\ \A a \in PacketSet : Continues(s, a) => Continues(s, a)'
  PROVE  InOrder(s)'
<1>1. Seen(s)' = Seen(s)
  BY DEF Seen
<1>2. \A i \in DOMAIN Seen(s) : LastData(Seen(s), i) => Seen(s)[i] \in PacketSet
  BY SeenFacts DEF LastData, IsData, PacketOrNone, NoData
<1>3. Chain(s, Seen(s)) /\ \A i \in DOMAIN Seen(s) : Seen(s)[i].gen <= gen
  BY DEF InOrder
<1>4. Chain(s, Seen(s))'
  BY <1>1, <1>3 DEF Chain
<1>5. (\A i \in DOMAIN Seen(s) : Seen(s)[i].gen <= gen)'
  BY <1>1, <1>3
<1>6. ASSUME ds'[s].thread, pc' # "seek", NEW i \in DOMAIN Seen(s)',
             LastData(Seen(s), i)', Seen(s)'[i].gen = gen'
      PROVE  Continues(s, Seen(s)[i])'
  <2>. DEFINE a == Seen(s)[i]
  <2>1. i \in DOMAIN Seen(s) /\ LastData(Seen(s), i) /\ a.gen = gen /\ a \in PacketSet
    BY <1>1, <1>2, <1>6 DEF LastData
  <2>2. Continues(s, a)
    BY <1>6, <2>1 DEF InOrder
  <2>. HIDE DEF a
  <2>3. PICK b \in PacketSet : b = a
    BY <2>1
  <2>4. Continues(s, b)'
    BY <1>6, <2>2, <2>3
  <2>. QED
    BY <1>1, <2>3, <2>4 DEF a, Continues
<1>. QED
  BY <1>4, <1>5, <1>6 DEF InOrder

\* A step that puts a packet in the queue.
LEMMA AppendOrder ==
  ASSUME TypeInv, NEW s \in Streams, InOrder(s), gen' = gen,
         NEW p \in PacketSet, p.gen = gen,
         ds'[s].frames = Append(ds[s].frames, p), got'[s] = got[s],
         IsData(p) => /\ Continues(s, p)'
                      /\ \A i \in DOMAIN Seen(s) : LastData(Seen(s), i) => Follows(s, Seen(s)[i], p),
         ~IsData(p) /\ ds'[s].thread /\ pc' # "seek" =>
            /\ ds[s].thread /\ pc # "seek"
            /\ \A a \in PacketSet : Continues(s, a) => Continues(s, a)'
  PROVE  InOrder(s)'
<1>0. p \in PacketOrNone /\ Seen(s) \in Seq(PacketOrNone)
  BY SeenFacts DEF PacketOrNone
<1>1. Seen(s)' = Append(Seen(s), p)
  BY SeenAppend
<1>2. Chain(s, Seen(s)) /\ \A i \in DOMAIN Seen(s) : Seen(s)[i].gen <= gen
  BY DEF InOrder
<1>3. /\ Chain(s, Append(Seen(s), p))
      /\ \A i \in DOMAIN Append(Seen(s), p) : LastData(Append(Seen(s), p), i) =>
               IF IsData(p) THEN Append(Seen(s), p)[i] = p
                            ELSE /\ i \in DOMAIN Seen(s) /\ LastData(Seen(s), i)
                                 /\ Append(Seen(s), p)[i] = Seen(s)[i]
  BY <1>0, <1>2, ChainAppend
<1>4. Chain(s, Seen(s))'
  BY <1>1, <1>3 DEF Chain
<1>5. (\A i \in DOMAIN Seen(s) : Seen(s)[i].gen <= gen)'
  <2>1. \A i \in DOMAIN Append(Seen(s), p) :
            (i \in DOMAIN Seen(s) /\ Append(Seen(s), p)[i] = Seen(s)[i]) \/ Append(Seen(s), p)[i] = p
    BY <1>0, AppendProperties, LenProperties
  <2>2. gen \in Nat
    BY DEF TypeInv, RunType
  <2>. QED
    BY <1>1, <1>2, <2>1, <2>2
<1>6. ASSUME ds'[s].thread, pc' # "seek", NEW i \in DOMAIN Seen(s)',
             LastData(Seen(s), i)', Seen(s)'[i].gen = gen'
      PROVE  Continues(s, Seen(s)[i])'
  <2>1. i \in DOMAIN Append(Seen(s), p) /\ LastData(Append(Seen(s), p), i)
    BY <1>1, <1>6 DEF LastData
  <2>2. CASE IsData(p)
    <3>1. Seen(s)'[i] = p
      BY <1>1, <1>3, <2>1, <2>2
    <3>. QED
      BY <2>2, <3>1 DEF Continues
  <2>3. CASE ~IsData(p)
    <3>. DEFINE a == Seen(s)[i]
    <3>1. i \in DOMAIN Seen(s) /\ LastData(Seen(s), i) /\ Seen(s)'[i] = a
      BY <1>1, <1>3, <2>1, <2>3
    <3>2. a \in PacketOrNone
      BY <1>0, <3>1, LenProperties
    <3>3. a \in PacketSet
      BY <3>1, <3>2 DEF LastData, IsData, PacketOrNone, NoData
    <3>4. Continues(s, a)
      BY <1>6, <2>3, <3>1 DEF InOrder
    <3>. HIDE DEF a
    <3>5. PICK b \in PacketSet : b = a
      BY <3>3
    <3>6. Continues(s, b)'
      BY <1>6, <2>3, <3>4, <3>5
    <3>. QED
      BY <3>1, <3>5, <3>6 DEF Continues
  <2>. QED
    BY <2>2, <2>3
<1>. QED
  BY <1>4, <1>5, <1>6 DEF InOrder

LEMMA InitOrder == Init => SeqInv
<1>. SUFFICES ASSUME Init, NEW s \in Streams PROVE InOrder(s)
  BY DEF SeqInv
<1>1. Seen(s) = <<NoData>>
  <2>1. ds[s].frames = <<>> /\ got[s] = NoData
    BY DEF Init, NewDatasource
  <2>. QED
    BY <2>1 DEF Seen
<1>. QED
  BY <1>1, ChainNone DEF Init, InOrder

\* Steps of the thread that only move it on: nothing is pending afterwards.
LEMMA MoveOrder ==
  ASSUME TypeInv, SeqInv, NEW s \in Streams, gen' = gen, filepos' = filepos,
         ds'[s].frames = ds[s].frames, got'[s] = got[s], ds'[s].thread = ds[s].thread,
         ds[s].thread /\ pc' # "seek" =>
            /\ pc # "seek" /\ pc' \notin {"push", "pushed"} /\ ~Pending(s)
            /\ pc = "eof" => pc' = "eof" /\ sinkno' = sinkno
            /\ eof_sent_to_clients' = eof_sent_to_clients
  PROVE  InOrder(s)'
<1>1. ASSUME ds[s].thread, pc' # "seek", NEW a \in PacketSet, Continues(s, a)
      PROVE  Continues(s, a)'
  BY <1>1 DEF Continues, Unsent, Pending
<1>. QED
  BY <1>1, SameOrder DEF SeqInv

LEMMA RunStepOrder ==
  ASSUME TypeInv, TypeInv', SinkInv, SeqInv,
         Loop \/ SeekFrame \/ PushFlush \/ PushEof \/ ReadPacket \/ ReadEof
           \/ Push \/ Pushed \/ Exit
  PROVE  SeqInv'
<1>. USE FileFacts
<1>. SUFFICES ASSUME NEW s \in Streams PROVE InOrder(s)'
  BY DEF SeqInv
<1>0. /\ InOrder(s) /\ (exit_requested => ~ds[s].thread) /\ (s \notin m_sinks => ~ds[s].thread)
      /\ gen \in Nat
  BY DEF SeqInv, SinkInv, TypeInv, RunType
<1>1. CASE Loop
  <2>1. LoopTop(eof_sent_to_clients) /\ eof_sent_to_clients \in BOOLEAN /\ pc = "loop"
        /\ UNCHANGED <<gen, filepos, ds, got>>
    BY <1>1 DEF Loop, TypeInv, RunType
  <2>2. /\ pc' \in {"exit", "seek", "read"} /\ (pc' = "exit" => exit_requested)
        /\ pc' # "seek" => eof_sent_to_clients' = eof_sent_to_clients
    BY <2>1, LoopTopType
  <2>. QED
    BY <1>0, <2>1, <2>2, MoveOrder DEF Pending
<1>2. CASE SeekFrame
  <2>1. Seen(s)' = Seen(s) /\ gen' = gen + 1
    BY <1>2 DEF SeekFrame, Seen
  <2>2. Chain(s, Seen(s))'
    BY <1>0, <2>1 DEF Chain, InOrder
  <2>3. \A i \in DOMAIN Seen(s) : Seen(s)[i].gen <= gen /\ Seen(s)[i].gen \in Nat
    <3>1. \A i \in DOMAIN Seen(s) : Seen(s)[i] \in PacketOrNone
      BY SeenFacts, LenProperties
    <3>. QED
      BY <1>0, <3>1 DEF InOrder, PacketOrNone, PacketSet, NoData
  <2>4. \A i \in DOMAIN Seen(s)' : Seen(s)'[i].gen <= gen' /\ Seen(s)'[i].gen # gen'
    BY <1>0, <2>1, <2>3
  <2>. QED
    BY <2>2, <2>4 DEF InOrder
<1>3. CASE PushFlush
  <2>0. PICK p \in PacketSet : p = Packet("flush", 0)
    BY Packets DEF TypeInv
  <2>1. p.gen = gen /\ ~IsData(p) /\ sinkno \in Streams
    BY <2>0 DEF Packet, IsData, TypeInv, RunType
  <2>2. /\ pc = "flush" /\ pc' \in {"flush", "read"} /\ UNCHANGED <<gen, filepos, got>>
        /\ eof_sent_to_clients' = eof_sent_to_clients
    BY <1>3 DEF PushFlush
  <2>3. \/ ds' = ds
        \/ ds' = [ds EXCEPT ![sinkno] = PushData(@, p)]
    BY <1>3, <2>0 DEF PushFlush, PushToSink
  <2>4. /\ ds'[s].thread = ds[s].thread
        /\ ds'[s].frames = ds[s].frames \/ ds'[s].frames = Append(ds[s].frames, p)
    <3>1. CASE ds' = ds
      BY <3>1
    <3>2. CASE ds' = [ds EXCEPT ![sinkno] = PushData(@, p)]
      <4>1. /\ \A u \in Streams : ds'[u].thread = ds[u].thread
            /\ \A u \in Streams :
                 ds'[u].frames = IF u = sinkno /\ ds[sinkno].thread /\ ~BufferFull(ds[sinkno])
                                 THEN Append(ds[sinkno].frames, p) ELSE ds[u].frames
        BY <2>1, <3>2, PushOne, Zenon DEF TypeInv
      <4>. QED
        BY <4>1
    <3>. QED
      BY <2>3, <3>1, <3>2
  <2>5. CASE ds'[s].frames = ds[s].frames
    BY <2>2, <2>4, <2>5, MoveOrder DEF Pending
  <2>6. CASE ds'[s].frames = Append(ds[s].frames, p)
    <3>1. ASSUME NEW a \in PacketSet, Continues(s, a) PROVE Continues(s, a)'
      BY <2>2, <3>1 DEF Continues, Unsent, Pending
    <3>. QED
      BY <1>0, <2>1, <2>2, <2>4, <2>6, <3>1, AppendOrder
  <2>. QED
    BY <2>4, <2>5, <2>6
<1>4. CASE ReadEof
  <2>1. /\ pc = "read" /\ pc' \in {"loop", "eof"} /\ UNCHANGED <<gen, filepos, got, ds>>
        /\ eof_sent_to_clients' = eof_sent_to_clients
    BY <1>4 DEF ReadEof
  <2>. QED
    BY <2>1, MoveOrder DEF Pending
<1>5. CASE Exit
  <2>1. exit_requested /\ m_sinks = {} /\ UNCHANGED <<gen, filepos, got>>
    BY <1>5 DEF Exit, SinkInv
  <2>2. ds'[s] = ds[s]
    BY <1>5, <2>1 DEF Exit
  <2>. QED
    BY <1>0, <2>1, <2>2, MoveOrder
<1>6. CASE PushEof
  <2>0. PICK p \in PacketSet : p = Packet("eof", 0)
    BY Packets DEF TypeInv
  <2>1. p.gen = gen /\ p.flag = "eof" /\ IsData(p) /\ sinkno \in Streams
    BY <2>0 DEF Packet, IsData, TypeInv, RunType
  <2>2. /\ pc = "eof" /\ UNCHANGED <<gen, filepos, got>> /\ filepos > Len(File)
        /\ ~eof_sent_to_clients
        /\ \/ pc' = "eof" /\ sinkno' = sinkno + 1
           \/ pc' = "loop" /\ eof_sent_to_clients'
    BY <1>6 DEF PushEof, TypeInv, RunType
  <2>3. \/ ds' = ds
        \/ ds' = [ds EXCEPT ![sinkno] = PushData(@, p)]
    BY <1>6, <2>0 DEF PushEof, PushToSink
  <2>4. /\ ds'[s].thread = ds[s].thread
        /\ \/ ds'[s].frames = ds[s].frames
           \/ ds'[s].frames = Append(ds[s].frames, p) /\ s = sinkno /\ ds[s].thread
    <3>1. CASE ds' = ds
      BY <3>1
    <3>2. CASE ds' = [ds EXCEPT ![sinkno] = PushData(@, p)]
      <4>1. /\ \A u \in Streams : ds'[u].thread = ds[u].thread
            /\ \A u \in Streams :
                 ds'[u].frames = IF u = sinkno /\ ds[sinkno].thread /\ ~BufferFull(ds[sinkno])
                                 THEN Append(ds[sinkno].frames, p) ELSE ds[u].frames
        BY <2>1, <3>2, PushOne, Zenon DEF TypeInv
      <4>. QED
        BY <4>1
    <3>. QED
      BY <2>3, <3>1, <3>2
  <2>5. s \in Int /\ sinkno \in Int
    BY <2>1 DEF Streams
  <2>6. CASE ds'[s].frames = ds[s].frames
    <3>1. ASSUME NEW a \in PacketSet, Continues(s, a) PROVE Continues(s, a)'
      BY <2>2, <2>5, <3>1 DEF Continues, Unsent, Pending
    <3>. QED
      BY <1>0, <2>2, <2>4, <2>6, <3>1, SameOrder
  <2>7. CASE ds'[s].frames = Append(ds[s].frames, p) /\ s = sinkno /\ ds[s].thread
    <3>1. Continues(s, p)'
      BY <2>1, <2>2, <2>5, <2>7 DEF Continues
    <3>2. ASSUME NEW i \in DOMAIN Seen(s), LastData(Seen(s), i)
          PROVE  Follows(s, Seen(s)[i], p)
      <4>. DEFINE a == Seen(s)[i]
      <4>1. a \in PacketOrNone /\ IsData(a) /\ a.gen <= gen
        BY <1>0, <3>2, SeenFacts, LenProperties DEF LastData, InOrder
      <4>2. a \in PacketSet
        BY <4>1 DEF IsData, PacketOrNone, NoData
      <4>3. a.gen = gen => Continues(s, a)
        BY <1>0, <2>2, <2>7, <3>2 DEF InOrder
      <4>. HIDE DEF a
      <4>4. CASE a.gen = gen
        <5>1. a.flag = "avpacket"
          BY <2>2, <2>5, <2>7, <4>1, <4>3, <4>4 DEF Continues, IsData
        <5>2. \A q \in After(s, a.pos) : q >= filepos
          BY <2>2, <4>3, <4>4, <5>1 DEF Continues, Unsent, Pending
        <5>3. After(s, a.pos) = {}
          BY <2>2, <5>2 DEF After, Positions, TypeInv, RunType
        <5>. QED
          BY <2>1, <4>4, <5>1, <5>3 DEF Follows, a
      <4>5. CASE a.gen # gen
        <5>1. a.gen < p.gen
          BY <1>0, <2>1, <4>1, <4>2, <4>5 DEF PacketSet
        <5>. QED
          BY <5>1 DEF Follows, a
      <4>. QED
        BY <4>4, <4>5
    <3>. QED
      BY <1>0, <2>1, <2>2, <2>7, <3>1, <3>2, AppendOrder
  <2>. QED
    BY <2>4, <2>6, <2>7
<1>7. CASE ReadPacket
  <2>. DEFINE r == File[filepos]
  <2>1. /\ filepos \in Positions /\ r \in Streams /\ filepos \in Nat /\ pc = "read"
        /\ filepos <= Len(File) /\ filepos' = filepos + 1 /\ UNCHANGED <<gen, ds, got>>
    BY <1>7 DEF ReadPacket, TypeInv, RunType, Positions
  <2>2. ASSUME NEW a \in PacketSet, Continues(s, a)
        PROVE  /\ a.flag # "eof" /\ a.pos < filepos
               /\ \A q \in After(s, a.pos) : q >= filepos
    BY <2>1, <2>2 DEF Continues, Unsent, Pending
  <2>3. CASE KeepPushing(r)
    <3>1. pc' = "push" /\ pkt' = filepos
      BY <1>7, <2>3 DEF ReadPacket
    <3>2. ASSUME NEW a \in PacketSet, Continues(s, a) PROVE Continues(s, a)'
      <4>1. a.flag # "eof" /\ a.pos < filepos /\ a.pos \in Nat
            /\ \A q \in After(s, a.pos) : q >= filepos
        BY <2>2, <3>2 DEF PacketSet
      <4>2. CASE r = s
        <5>1. Unsent(s)' = filepos
          BY <3>1, <4>2 DEF Unsent, Pending
        <5>. QED
          BY <4>1, <5>1 DEF Continues
      <4>3. CASE r # s
        <5>1. Unsent(s)' = filepos + 1
          BY <2>1, <3>1, <4>3 DEF Unsent, Pending
        <5>2. \A q \in After(s, a.pos) : q >= filepos + 1
          BY <2>1, <4>1, <4>3 DEF After, Positions
        <5>. QED
          BY <2>1, <4>1, <5>1, <5>2 DEF Continues
      <4>. QED
        BY <4>2, <4>3
    <3>. QED
      BY <1>0, <2>1, <3>1, <3>2, SameOrder
  <2>4. CASE ~KeepPushing(r)
    <3>. DEFINE e == eof_sent_to_clients /\ r \notin m_sinks
    <3>1. LoopTop(e) /\ e \in BOOLEAN
      BY <1>7, <2>4 DEF ReadPacket, TypeInv, RunType
    <3>. HIDE DEF e
    <3>2. /\ pc' \in {"exit", "seek", "read"} /\ (pc' = "exit" => exit_requested)
          /\ pc' = "read" => ~m_clip_begin_changed
      BY <3>1, LoopTopType
    <3>3. ASSUME ds[s].thread, pc' # "seek" PROVE r # s /\ pc' = "read"
      BY <1>0, <2>4, <3>2, <3>3 DEF KeepPushing
    <3>4. ASSUME ds[s].thread, pc' # "seek", NEW a \in PacketSet, Continues(s, a)
          PROVE  Continues(s, a)'
      <4>1. a.flag # "eof" /\ a.pos < filepos /\ a.pos \in Nat
            /\ \A q \in After(s, a.pos) : q >= filepos
        BY <2>2, <3>4 DEF PacketSet
      <4>2. r # s /\ pc' = "read"
        BY <3>3, <3>4
      <4>3. Unsent(s)' = filepos + 1
        BY <2>1, <4>2 DEF Unsent, Pending
      <4>4. \A q \in After(s, a.pos) : q >= filepos + 1
        BY <2>1, <4>1, <4>2 DEF After, Positions
      <4>. QED
        BY <2>1, <4>1, <4>3, <4>4 DEF Continues
    <3>. QED
      BY <1>0, <2>1, <3>4, SameOrder
  <2>. QED
    BY <2>3, <2>4
<1>8. CASE Push
  <2>. DEFINE r == File[pkt]
  <2>1. /\ pkt \in Positions /\ r \in Streams /\ pkt \in Nat /\ filepos = pkt + 1 /\ pc = "push"
    BY <1>8 DEF Push, TypeInv, RunType
  <2>0. PICK p \in PacketSet : p = Packet("avpacket", pkt)
    BY <2>1, Packets DEF TypeInv
  <2>2. p.gen = gen /\ p.flag = "avpacket" /\ p.pos = pkt /\ IsData(p)
    BY <2>0 DEF Packet, IsData
  <2>3. /\ pc' = "pushed" /\ UNCHANGED <<pkt, gen, filepos, got>>
        /\ accepted' = Accepts(ds[r]) /\ ds' = [ds EXCEPT ![r] = PushData(@, p)]
    BY <1>8, <2>0 DEF Push
  <2>4. /\ ds'[s].thread = ds[s].thread
        /\ ds'[s].frames = IF s = r /\ ds[r].thread /\ ~BufferFull(ds[r])
                           THEN Append(ds[r].frames, p) ELSE ds[s].frames
    BY <2>1, <2>3, PushOne, ZenonT(30) DEF TypeInv
  <2>5. CASE s = r /\ ds[r].thread /\ ~BufferFull(ds[r])
    <3>1. accepted' /\ Unsent(s)' = pkt + 1
      BY <2>1, <2>3, <2>5 DEF Accepts, Unsent, Pending
    <3>2. Continues(s, p)'
      <4>1. \A q \in After(s, pkt) : q >= pkt + 1
        BY <2>1 DEF After, Positions
      <4>. QED
        BY <2>1, <2>2, <3>1, <4>1 DEF Continues
    <3>3. ASSUME NEW i \in DOMAIN Seen(s), LastData(Seen(s), i)
          PROVE  Follows(s, Seen(s)[i], p)
      <4>. DEFINE a == Seen(s)[i]
      <4>1. a \in PacketOrNone /\ IsData(a) /\ a.gen <= gen
        BY <1>0, <3>3, SeenFacts, LenProperties DEF LastData, InOrder
      <4>2. a \in PacketSet
        BY <4>1 DEF IsData, PacketOrNone, NoData
      <4>3. a.gen = gen => Continues(s, a)
        BY <1>0, <2>1, <2>5, <3>3 DEF InOrder
      <4>. HIDE DEF a
      <4>4. CASE a.gen = gen
        <5>1. /\ a.flag = "avpacket" /\ a.pos < pkt
              /\ \A q \in After(s, a.pos) : q >= pkt
          BY <2>1, <2>5, <4>1, <4>3, <4>4 DEF Continues, IsData, Unsent, Pending
        <5>2. pkt \in After(s, a.pos)
          BY <2>1, <2>5, <4>2, <5>1 DEF After, PacketSet
        <5>. QED
          BY <2>2, <4>4, <5>1, <5>2 DEF Follows, a
      <4>5. CASE a.gen # gen
        <5>1. a.gen < p.gen
          BY <1>0, <2>2, <4>1, <4>2, <4>5 DEF PacketSet
        <5>. QED
          BY <5>1 DEF Follows, a
      <4>. QED
        BY <4>4, <4>5
    <3>. QED
      BY <1>0, <2>2, <2>3, <2>4, <2>5, <3>2, <3>3, AppendOrder
  <2>6. CASE ~(s = r /\ ds[r].thread /\ ~BufferFull(ds[r]))
    <3>1. ASSUME ds[s].thread, NEW a \in PacketSet, Continues(s, a) PROVE Continues(s, a)'
      <4>1. s = r => ~accepted'
        BY <2>3, <2>6, <3>1 DEF Accepts
      <4>2. Unsent(s)' = Unsent(s)
        BY <2>1, <2>3, <4>1 DEF Unsent, Pending
      <4>. QED
        BY <2>1, <3>1, <4>2 DEF Continues
    <3>. QED
      BY <1>0, <2>1, <2>3, <2>4, <2>6, <3>1, SameOrder
  <2>. QED
    BY <2>5, <2>6
<1>9. CASE Pushed
  <2>. DEFINE r == File[pkt]
  <2>0. PICK p \in PacketSet : p = Packet("eof", 0)
    BY Packets DEF TypeInv
  <2>1. pkt \in Positions /\ r \in Streams /\ pc = "pushed"
    BY <1>9 DEF Pushed, TypeInv, RunType
  <2>2. /\ UNCHANGED <<gen, filepos, got>>
        /\ ds' = IF r \in m_sinks THEN ds ELSE [ds EXCEPT ![r] = PushData(@, p)]
    BY <1>9, <2>0 DEF Pushed
  <2>3. r \notin m_sinks => ~ds[r].thread
    BY <2>1 DEF SinkInv
  <2>4. ds'[s].thread = ds[s].thread /\ ds'[s].frames = ds[s].frames
    BY <2>1, <2>2, <2>3, PushOne DEF TypeInv
  <2>5. CASE ~accepted /\ KeepPushing(r)
    <3>1. pc' = "push" /\ UNCHANGED <<pkt, accepted>>
      BY <1>9, <2>5 DEF Pushed
    <3>2. ASSUME NEW a \in PacketSet, Continues(s, a) PROVE Continues(s, a)'
      <4>1. Unsent(s)' = Unsent(s)
        BY <2>1, <2>2, <2>5, <3>1 DEF Unsent, Pending
      <4>. QED
        BY <2>1, <3>2, <4>1 DEF Continues
    <3>. QED
      BY <1>0, <2>1, <2>2, <2>4, <3>2, SameOrder
  <2>6. CASE ~(~accepted /\ KeepPushing(r))
    <3>1. LoopTop(eof_sent_to_clients) /\ eof_sent_to_clients \in BOOLEAN
      BY <1>9, <2>6 DEF Pushed, TypeInv, RunType
    <3>2. /\ pc' \in {"exit", "seek", "read"} /\ (pc' = "exit" => exit_requested)
          /\ pc' = "read" => ~m_clip_begin_changed /\ ~exit_requested
          /\ pc' # "seek" => eof_sent_to_clients' = eof_sent_to_clients
      BY <3>1, LoopTopType
    <3>3. ASSUME ds[s].thread, pc' # "seek" PROVE ~Pending(s)
      <4>1. s \in m_sinks /\ pc' = "read"
        BY <1>0, <3>2, <3>3
      <4>. QED
        BY <2>1, <2>6, <3>2, <4>1 DEF KeepPushing, Pending
    <3>. QED
      BY <1>0, <2>1, <2>2, <2>4, <3>2, <3>3, MoveOrder
  <2>. QED
    BY <2>5, <2>6
<1>. QED
  BY <1>1, <1>2, <1>3, <1>4, <1>5, <1>6, <1>7, <1>8, <1>9

\* A step of a decoder that empties what decoder s sees.
LEMMA ClearedOrder ==
  ASSUME TypeInv, NEW s \in Streams, gen' = gen, ds'[s].frames = <<>>, got'[s] = NoData
  PROVE  InOrder(s)'
<1>1. Seen(s)' = <<NoData>>
  BY DEF Seen
<1>2. Chain(s, Seen(s)') /\ \A i \in DOMAIN Seen(s)' : ~LastData(Seen(s)', i) /\ Seen(s)'[i].gen = 0
  BY <1>1, ChainNone
<1>. QED
  BY <1>2 DEF InOrder, TypeInv, RunType

\* A decoder takes the first packet of its queue.
LEMMA TakeOrder ==
  ASSUME TypeInv, TypeInv', NEW s \in Streams, InOrder(s), ds[s].frames # <<>>,
         ds'[s].frames = Tail(ds[s].frames), got'[s] = Head(ds[s].frames),
         ds'[s].thread = ds[s].thread, UNCHANGED <<run, gen>>
  PROVE  InOrder(s)'
<1>. DEFINE q == Seen(s)
            r == Seen(s)'
<1>1. /\ q \in Seq(PacketOrNone) /\ r \in Seq(PacketOrNone)
      /\ Len(q) = Len(ds[s].frames) + 1 /\ Len(r) = Len(ds'[s].frames) + 1
      /\ r[1] = got'[s]
      /\ \A i \in 1..Len(ds[s].frames) : q[i + 1] = ds[s].frames[i]
      /\ \A i \in 1..Len(ds'[s].frames) : r[i + 1] = ds'[s].frames[i]
      /\ ds[s].frames \in Seq(PacketSet)
  <2>1. /\ ds[s].frames \in Seq(PacketSet) /\ ds'[s].frames \in Seq(PacketSet)
        /\ got[s] \in PacketOrNone /\ got'[s] \in PacketOrNone
    BY DEF TypeInv, QueueType, DecoderType, Sound, DatasourceSet, PacketOrNone
  <2>. HIDE DEF q, r
  <2>3. /\ q \in Seq(PacketOrNone) /\ Len(q) = Len(ds[s].frames) + 1 /\ q[1] = got[s]
        /\ \A i \in 1..Len(ds[s].frames) : q[i + 1] = ds[s].frames[i]
    BY <2>1, PutFirst DEF Seen, q
  <2>4. /\ r \in Seq(PacketOrNone) /\ Len(r) = Len(ds'[s].frames) + 1 /\ r[1] = got'[s]
        /\ \A i \in 1..Len(ds'[s].frames) : r[i + 1] = ds'[s].frames[i]
    BY <2>1, PutFirst DEF Seen, r
  <2>. QED
    BY <2>1, <2>3, <2>4
<1>2. /\ Len(ds'[s].frames) = Len(ds[s].frames) - 1 /\ Len(ds[s].frames) \in Nat \ {0}
      /\ got'[s] = ds[s].frames[1]
      /\ \A i \in 1..Len(ds'[s].frames) : ds'[s].frames[i] = ds[s].frames[i + 1]
  BY <1>1, HeadTailProperties, EmptySeq
<1>3. Len(q) = Len(r) + 1
  BY <1>1, <1>2
<1>4. \A i \in 1..Len(r) : r[i] = q[i + 1]
  <2>. SUFFICES ASSUME NEW i \in 1..Len(r) PROVE r[i] = q[i + 1]
    OBVIOUS
  <2>1. CASE i = 1
    BY <1>1, <1>2, <2>1
  <2>2. CASE i # 1
    <3>1. i - 1 \in 1..Len(ds'[s].frames) /\ i \in 1..Len(ds[s].frames) /\ (i - 1) + 1 = i
      BY <1>1, <1>2, <2>2
    <3>2. r[i] = ds'[s].frames[i - 1] /\ ds'[s].frames[i - 1] = ds[s].frames[(i - 1) + 1]
      BY <1>1, <1>2, <3>1
    <3>. QED
      BY <1>1, <3>1, <3>2
  <2>. QED
    BY <2>1, <2>2
<1>5. Chain(s, q) /\ \A i \in DOMAIN q : q[i].gen <= gen
  BY DEF InOrder
<1>. HIDE DEF q, r
<1>6. /\ Chain(s, r)
      /\ \A i \in DOMAIN r : LastData(r, i) => i + 1 \in DOMAIN q /\ LastData(q, i + 1)
  BY <1>1, <1>3, <1>4, <1>5, ChainTail
<1>7. \A i \in DOMAIN r : i \in 1..Len(r) /\ i + 1 \in DOMAIN q /\ r[i] = q[i + 1]
  BY <1>1, <1>3, <1>4, LenProperties
<1>8. gen' = gen /\ pc' = pc /\ \A a \in PacketOrNone : Continues(s, a) => Continues(s, a)'
  BY DEF run, Continues, Unsent, Pending
<1>9. ASSUME ds'[s].thread, pc' # "seek", NEW i \in DOMAIN r, LastData(r, i), r[i].gen = gen'
      PROVE  Continues(s, Seen(s)[i])'
  <2>1. i + 1 \in DOMAIN q /\ LastData(q, i + 1) /\ r[i] = q[i + 1] /\ q[i + 1] \in PacketOrNone
    BY <1>1, <1>6, <1>7, <1>9, LenProperties
  <2>2. Continues(s, q[i + 1])
    BY <1>8, <1>9, <2>1 DEF InOrder, q
  <2>3. PICK b \in PacketOrNone : b = q[i + 1]
    BY <2>1
  <2>4. Continues(s, b)'
    BY <1>8, <2>2, <2>3
  <2>. QED
    BY <2>1, <2>3, <2>4 DEF r, Continues
<1>10. \A i \in DOMAIN r : r[i].gen <= gen'
  BY <1>5, <1>7, <1>8
<1>. QED
  BY <1>6, <1>9, <1>10 DEF InOrder, r

LEMMA DecoderStepOrder ==
  ASSUME TypeInv, TypeInv', SinkInv, SeqInv, NEW c \in Streams,
         \/ Start(c) \/ GetPacket(c) \/ Seek(c) \/ SeekThread(c) \/ Stop(c)
         \/ RemoveDatasink(c) \/ Dispose(c) \/ Join(c) \/ Cleanup(c)
  PROVE  SeqInv'
<1>. SUFFICES ASSUME NEW s \in Streams PROVE InOrder(s)'
  BY DEF SeqInv
<1>0. /\ InOrder(s) /\ gen \in Nat /\ \A u \in Streams : Sound(ds[u])
      /\ ds = [u \in Streams |-> ds[u]] /\ got \in [Streams -> PacketSet \cup {NoData}]
  BY DEF SeqInv, TypeInv, RunType, QueueType, DecoderType
\* The thread and what s sees stay as they are.
<1>1. ASSUME UNCHANGED <<run, gen>>, ds'[s].frames = ds[s].frames, got'[s] = got[s],
             ds'[s].thread => ds[s].thread
      PROVE  InOrder(s)'
  <2>1. pc' = pc /\ gen' = gen /\ \A a \in PacketSet : Continues(s, a) => Continues(s, a)'
    BY <1>1 DEF run, Continues, Unsent, Pending
  <2>. QED
    BY <1>0, <1>1, <2>1, SameOrder
<1>2. CASE Start(c)
  <2>1. ds'[s].thread = ds[s].thread /\ ds'[s].frames = ds[s].frames
    BY <1>0, <1>2, StartSound DEF Start
  <2>2. UNCHANGED <<gen, got, filepos, pkt, accepted, sinkno, eof_sent_to_clients>>
        /\ pc' = IF pc = "none" THEN "loop" ELSE pc
    BY <1>2 DEF Start
  <2>3. \A a \in PacketSet : Continues(s, a) => Continues(s, a)'
    BY <2>2 DEF Continues, Unsent, Pending
  <2>. QED
    BY <1>0, <2>1, <2>2, <2>3, SameOrder
<1>3. CASE GetPacket(c)
  <2>1. UNCHANGED <<run, gen>>
    BY <1>3 DEF GetPacket
  <2>2. CASE s # c \/ ds[s].frames = <<>>
    <3>1. ds'[s].thread = ds[s].thread /\ ds'[s].frames = ds[s].frames /\ got'[s] = got[s]
      BY <1>0, <1>3, <2>2, TakeSound DEF GetPacket
    <3>. QED
      BY <1>1, <2>1, <3>1
  <2>3. CASE s = c /\ ds[s].frames # <<>>
    <3>1. /\ ds'[s].thread = ds[s].thread /\ ds'[s].frames = Tail(ds[s].frames)
          /\ got'[s] = Head(ds[s].frames)
      BY <1>0, <1>3, <2>3, TakeSound DEF GetPacket
    <3>. QED
      BY <1>0, <2>1, <2>3, <3>1, TakeOrder
  <2>. QED
    BY <2>2, <2>3
<1>4. CASE Seek(c) \/ RemoveDatasink(c) \/ Join(c)
  BY <1>1, <1>4 DEF Seek, RemoveDatasink, Join
<1>5. CASE SeekThread(c)
  <2>1. UNCHANGED <<run, gen>>
    BY <1>5 DEF SeekThread
  <2>2. PICK t \in SeekTimes :
           /\ ds' = [ds EXCEPT ![c] = FlushDatasource(@, t)]
           /\ got' = [got EXCEPT ![c] = NoData]
    BY <1>5 DEF SeekThread
  <2>3. CASE s # c
    <3>1. ds'[s] = ds[s] /\ got'[s] = got[s]
      BY <1>0, <2>2, <2>3
    <3>. QED
      BY <1>1, <2>1, <3>1
  <2>4. CASE s = c
    <3>1. ds'[s].frames = <<>> /\ got'[s] = NoData
      BY <1>0, <2>2, <2>4, FlushSound, DemuxAssumption
    <3>. QED
      BY <2>1, <3>1, ClearedOrder
  <2>. QED
    BY <2>3, <2>4
<1>6. CASE Stop(c)
  <2>1. UNCHANGED <<run, gen, got>>
    BY <1>6 DEF Stop
  <2>2. ds'[s].frames = ds[s].frames /\ (ds'[s].thread => ds[s].thread)
    BY <1>0, <1>6 DEF Stop, Sound, DatasourceSet
  <2>. QED
    BY <1>1, <2>1, <2>2
<1>7. CASE Dispose(c)
  <2>1. UNCHANGED <<run, gen, got>> /\ ~ds[c].thread
    BY <1>7 DEF Dispose, SinkInv
  <2>2. PICK p \in PacketSet : p = Packet("eof", 0)
    BY Packets DEF TypeInv
  <2>3. ds' = ds \/ ds' = [ds EXCEPT ![c] = PushData(@, p)]
    BY <1>7, <2>2 DEF Dispose
  <2>4. ds'[s].thread = ds[s].thread /\ ds'[s].frames = ds[s].frames
    BY <2>1, <2>3, PushOne DEF TypeInv
  <2>. QED
    BY <1>1, <2>1, <2>4
<1>8. CASE Cleanup(c)
  <2>1. UNCHANGED <<run, gen>>
    BY <1>8 DEF Cleanup
  <2>2. CASE s # c
    <3>1. ds'[s] = ds[s] /\ got'[s] = got[s]
      BY <1>0, <1>8, <2>2 DEF Cleanup
    <3>. QED
      BY <1>1, <2>1, <3>1
  <2>3. CASE s = c
    <3>1. ds'[s].frames = <<>> /\ got'[s] = NoData
      BY <1>0, <1>8, <2>3, CloseSound DEF Cleanup
    <3>. QED
      BY <2>1, <3>1, ClearedOrder
  <2>. QED
    BY <2>2, <2>3
<1>. QED
  BY <1>2, <1>3, <1>4, <1>5, <1>6, <1>7, <1>8

\* Between two seeks on the file a decoder sees every packet of its stream
\* once and in file order, and end of file only after the last one: a refused
\* packet is tried again until it is accepted, and a packet is dropped only
\* when a seek or the end of the stream's datasource makes that invisible.
THEOREM PacketsInSequence == Spec => []InSequence
<1>. DEFINE Inv == TypeInv /\ SinkInv /\ RefInv
<1>1. Init => SeqInv
  BY InitOrder
<1>2. Inv /\ Inv' /\ SeqInv /\ [Next]_vars => SeqInv'
  <2>. SUFFICES ASSUME TypeInv, TypeInv', SinkInv, SeqInv, [Next]_vars PROVE SeqInv'
    OBVIOUS
  <2>1. CASE Next
    BY <2>1, RunStepOrder, DecoderStepOrder DEF Next
  <2>2. CASE UNCHANGED vars
    <3>. SUFFICES ASSUME NEW s \in Streams PROVE InOrder(s)'
      BY DEF SeqInv
    <3>1. UNCHANGED <<gen, pc, filepos, pkt, accepted, sinkno, eof_sent_to_clients, ds, got>>
      BY <2>2 DEF vars, run
    <3>2. \A a \in PacketSet : Continues(s, a) => Continues(s, a)'
      BY <3>1 DEF Continues, Unsent, Pending
    <3>. QED
      BY <3>1, <3>2, SameOrder DEF SeqInv
  <2>. QED
    BY <2>1, <2>2
<1>3. SeqInv => InSequence
  BY DEF SeqInv, InOrder, Chain, InSequence
<1>4. Spec => []Inv
  BY SinkInvariant
<1>. HIDE DEF Inv
<1>. QED
  BY <1>1, <1>2, <1>3, <1>4, PTL DEF Spec
=============================================================================

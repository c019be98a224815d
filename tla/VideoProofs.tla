----------------------------- MODULE VideoProofs -----------------------------
(***************************************************************************)
(* The video renderer for any file, clips and number of calls: its types,  *)
(* the chain of its callbacks, and its clock.                              *)
(***************************************************************************)
EXTENDS Video, DataFacts, SequenceTheorems

-----------------------------------------------------------------------------
(* The datasource of the decoder *)

PacketSet == [flag : {"flush", "eof"}] \cup [flag : {"avpacket"}, pts : Frames]

SourceSet ==
    [frames : Seq(PacketSet), src_eof : BOOLEAN, callback : BOOLEAN, event : Nat,
     thread : BOOLEAN, time : Times]

\* The queue does not exceed its capacity.
Bounded(x) == x \in SourceSet /\ Len(x.frames) <= MAX_PACKETS_BUFFERED

LEMMA PushBounded ==
  ASSUME NEW x, Bounded(x), NEW p \in PacketSet
  PROVE  Bounded(PushData(x, p))
<1>. DEFINE b == (p.flag = "eof")
            e == [x EXCEPT !.src_eof = b]
            v == IF x.callback THEN e.event + 1 ELSE e.event
            f == Append(e.frames, p)
<1>1. x \in SourceSet /\ Len(x.frames) <= MAX_PACKETS_BUFFERED /\ b \in BOOLEAN
      /\ MAX_PACKETS_BUFFERED \in Nat
  BY BufferAssumption DEF Bounded
<1>2. e \in SourceSet /\ e.frames = x.frames
  <2>. HIDE DEF b
  <2>. QED
    BY <1>1 DEF SourceSet
<1>3. CASE x.thread /\ ~BufferFull(x)
  <2>1. PushData(x, p) = [e EXCEPT !.frames = f, !.event = v, !.callback = FALSE]
    BY <1>3 DEF PushData
  <2>2. v \in Nat /\ f \in Seq(PacketSet) /\ Len(f) = Len(x.frames) + 1 /\ FALSE \in BOOLEAN
        /\ Len(x.frames) \in Nat
    BY <1>1, <1>2, AppendProperties, LenProperties DEF SourceSet
  <2>3. Len(f) <= MAX_PACKETS_BUFFERED
    BY <1>1, <1>3, <2>2 DEF BufferFull
  <2>. HIDE DEF e, v, f
  <2>4. /\ [e EXCEPT !.frames = f, !.event = v, !.callback = FALSE] \in SourceSet
        /\ [e EXCEPT !.frames = f, !.event = v, !.callback = FALSE].frames = f
    BY <1>2, <2>2 DEF SourceSet
  <2>. QED
    BY <2>1, <2>3, <2>4 DEF Bounded
<1>4. CASE ~(x.thread /\ ~BufferFull(x))
  BY <1>1, <1>2, <1>4 DEF PushData, Bounded
<1>. QED
  BY <1>3, <1>4

LEMMA StartBounded ==
  ASSUME NEW x, Bounded(x)
  PROVE  Bounded(StartDatasource(x))
<1>1. x \in SourceSet /\ x.event + 1 \in Nat /\ TRUE \in BOOLEAN /\ FALSE \in BOOLEAN
  BY DEF Bounded, SourceSet
<1>2. /\ [x EXCEPT !.callback = TRUE] \in SourceSet
      /\ [x EXCEPT !.callback = TRUE].frames = x.frames
      /\ [x EXCEPT !.event = x.event + 1, !.callback = FALSE] \in SourceSet
      /\ [x EXCEPT !.event = x.event + 1, !.callback = FALSE].frames = x.frames
  BY <1>1 DEF SourceSet
<1>. QED
  BY <1>2 DEF StartDatasource, Bounded

LEMMA TakeBounded ==
  ASSUME NEW x, Bounded(x), x.event > 0
  PROVE  Bounded(TakePacket(x))
<1>1. x \in SourceSet /\ x.event - 1 \in Nat /\ NoTime \in Times
      /\ Len(x.frames) \in Nat /\ MAX_PACKETS_BUFFERED \in Nat
  BY LenProperties, BufferAssumption DEF Bounded, SourceSet, NoTime, Times, None
<1>2. CASE x.frames = <<>>
  <2>1. TakePacket(x) = [x EXCEPT !.event = x.event - 1]
    BY <1>2 DEF TakePacket
  <2>2. /\ [x EXCEPT !.event = x.event - 1] \in SourceSet
        /\ [x EXCEPT !.event = x.event - 1].frames = x.frames
    BY <1>1 DEF SourceSet
  <2>. QED
    BY <2>1, <2>2 DEF Bounded
<1>3. CASE x.frames # <<>>
  <2>. DEFINE f == Tail(x.frames)
  <2>1. TakePacket(x) = [x EXCEPT !.event = x.event - 1, !.frames = f, !.time = NoTime]
    BY <1>3 DEF TakePacket
  <2>2. f \in Seq(PacketSet) /\ Len(f) = Len(x.frames) - 1
    BY <1>1, <1>3, HeadTailProperties DEF SourceSet
  <2>. HIDE DEF f
  <2>3. /\ [x EXCEPT !.event = x.event - 1, !.frames = f, !.time = NoTime] \in SourceSet
        /\ [x EXCEPT !.event = x.event - 1, !.frames = f, !.time = NoTime].frames = f
    BY <1>1, <2>2 DEF SourceSet
  <2>. QED
    BY <1>1, <2>1, <2>2, <2>3 DEF Bounded
<1>. QED
  BY <1>2, <1>3

LEMMA FlushBounded ==
  ASSUME NEW x, Bounded(x), NEW t \in Frames
  PROVE  Bounded(FlushDatasource(x, t))
<1>. DEFINE f == <<>>
<1>1. x \in SourceSet /\ f \in Seq(PacketSet) /\ t \in Times /\ FALSE \in BOOLEAN
      /\ Len(f) = 0 /\ MAX_PACKETS_BUFFERED \in Nat
  BY BufferAssumption DEF Bounded, Times
<1>2. FlushDatasource(x, t) = [x EXCEPT !.frames = f, !.time = t, !.src_eof = FALSE]
  BY DEF FlushDatasource
<1>. HIDE DEF f
<1>3. /\ [x EXCEPT !.frames = f, !.time = t, !.src_eof = FALSE] \in SourceSet
      /\ [x EXCEPT !.frames = f, !.time = t, !.src_eof = FALSE].frames = f
  BY <1>1 DEF SourceSet
<1>. QED
  BY <1>1, <1>2, <1>3 DEF Bounded

-----------------------------------------------------------------------------
(* The decoder *)

\* Bags of times.
TimeBags == UNION {[D -> Nat \ {0}] : D \in SUBSET Nat}

LEMMA OneMore ==
  ASSUME NEW B \in TimeBags, NEW t \in Nat
  PROVE  B (+) SetToBag({t}) \in TimeBags /\ B (+) SetToBag({t}) # EmptyBag
<1>1. PICK D \in SUBSET Nat : B \in [D -> Nat \ {0}]
  BY DEF TimeBags
<1>. DEFINE C == B (+) SetToBag({t})
            E == D \cup {t}
<1>2. DOMAIN SetToBag({t}) = {t} /\ SetToBag({t})[t] = 1 /\ DOMAIN B = D
  BY <1>1 DEF SetToBag
<1>3. C = [e \in E |-> (IF e \in D THEN B[e] ELSE 0) + (IF e \in {t} THEN SetToBag({t})[e] ELSE 0)]
  BY <1>2 DEF (+)
<1>4. ASSUME NEW e \in E PROVE C[e] \in Nat \ {0}
  BY <1>1, <1>2, <1>3
<1>5. C \in [E -> Nat \ {0}] /\ DOMAIN C = E
  BY <1>3, <1>4
<1>6. DOMAIN EmptyBag = {}
  BY DEF EmptyBag, SetToBag
<1>. HIDE DEF C
<1>7. C # EmptyBag
  BY <1>5, <1>6
<1>8. E \in SUBSET Nat
  BY <1>1
<1>9. C \in TimeBags
  BY <1>5, <1>8 DEF TimeBags
<1>. QED
  BY <1>7, <1>9 DEF C

LEMMA OneLess ==
  ASSUME NEW B \in TimeBags, NEW t
  PROVE  B (-) SetToBag({t}) \in TimeBags
<1>1. PICK D \in SUBSET Nat : B \in [D -> Nat \ {0}]
  BY DEF TimeBags
<1>2. DOMAIN SetToBag({t}) = {t} /\ SetToBag({t})[t] = 1 /\ DOMAIN B = D
  BY <1>1 DEF SetToBag
<1>. DEFINE A == [e \in D |-> IF e \in {t} THEN B[e] - SetToBag({t})[e] ELSE B[e]]
            E == {d \in D : A[d] > 0}
            C == B (-) SetToBag({t})
<1>3. C = [e \in E |-> A[e]]
  BY <1>2 DEF (-)
<1>4. \A e \in D : A[e] \in Int
  BY <1>1, <1>2
<1>. HIDE DEF A, C
<1>6. E \in SUBSET Nat /\ \A e \in E : A[e] \in Nat \ {0}
  <2>1. E \in SUBSET D /\ \A e \in E : A[e] > 0
    OBVIOUS
  <2>. HIDE DEF E
  <2>. QED
    BY <1>1, <1>4, <2>1
<1>. HIDE DEF E
<1>5. C \in [E -> Nat \ {0}]
  BY <1>3, <1>6
<1>. QED
  BY <1>5, <1>6 DEF TimeBags, C

DecoderSet ==
    [frames : Seq(Frames), client : BOOLEAN, start_input : BOOLEAN, oldest : Nat,
     src : SourceSet, scheduled : TimeBags]

IsDecoder(d) == d \in DecoderSet /\ Bounded(d.src)

\* The renderer is going to be called back.
Alive(d) == d.client \/ d.scheduled # EmptyBag

LEMMA StartInputKeeps ==
  ASSUME NEW d, IsDecoder(d)
  PROVE  /\ IsDecoder(StartInput(d)) /\ IsDecoder(StartPrefetch(d))
         /\ Alive(d) => Alive(StartInput(d)) /\ Alive(StartPrefetch(d))
<1>. DEFINE x == StartDatasource(d.src)
            e == [d EXCEPT !.src = x, !.start_input = FALSE]
<1>1. d \in DecoderSet /\ Bounded(x) /\ x \in SourceSet
  BY StartBounded DEF IsDecoder, Bounded
<1>2. StartInput(d) = e
  BY DEF StartInput
<1>. HIDE DEF x
<1>3. e \in DecoderSet /\ e.src = x /\ e.client = d.client /\ e.scheduled = d.scheduled
  BY <1>1 DEF DecoderSet
<1>. QED
  BY <1>1, <1>2, <1>3 DEF IsDecoder, Alive, StartPrefetch

\* After start_frame a callback is scheduled, or the client is recorded.
LEMMA StartFrameAlive ==
  ASSUME now \in Nat, NEW d, IsDecoder(d), NEW t \in Int
  PROVE  IsDecoder(StartFrame(d, t)) /\ Alive(StartFrame(d, t))
<1>. DEFINE B == d.scheduled (+) SetToBag({Due(t)})
            e == [d EXCEPT !.client = FALSE, !.scheduled = B]
            f == [d EXCEPT !.client = TRUE]
<1>1. d \in DecoderSet /\ Bounded(d.src) /\ d.scheduled \in TimeBags
  BY DEF IsDecoder, DecoderSet
<1>2. Due(t) \in Nat
  BY DEF Due
<1>3. B \in TimeBags /\ B # EmptyBag
  BY <1>1, <1>2, OneMore
<1>. HIDE DEF B
<1>4. IsDecoder(e) /\ Alive(e)
  BY <1>1, <1>3 DEF IsDecoder, DecoderSet, Alive
<1>5. IsDecoder(f) /\ Alive(f)
  BY <1>1 DEF IsDecoder, DecoderSet, Alive
<1>6. StartFrame(d, t) = StartPrefetch(e) \/ StartFrame(d, t) = StartPrefetch(f)
  BY DEF StartFrame, B
<1>. QED
  BY <1>4, <1>5, <1>6, StartInputKeeps

LEMMA RestartKeeps ==
  ASSUME now \in Nat, NEW d, IsDecoder(d)
  PROVE  IsDecoder(RestartQueues(d)) /\ (Alive(d) => Alive(RestartQueues(d)))
<1>. DEFINE B == d.scheduled (+) SetToBag({now})
            c == [d EXCEPT !.client = FALSE, !.scheduled = B]
            e == IF d.client /\ (d.frames # <<>> \/ EndOfFile(d.src)) THEN c ELSE d
<1>1. d \in DecoderSet /\ Bounded(d.src) /\ d.scheduled \in TimeBags
  BY DEF IsDecoder, DecoderSet
<1>2. B \in TimeBags /\ B # EmptyBag
  BY <1>1, OneMore
<1>3. RestartQueues(d) = IF ~EndOfFile(e.src) /\ ~DecoderFull(e) THEN StartInput(e) ELSE e
  BY DEF RestartQueues
<1>. HIDE DEF B
<1>4. IsDecoder(c) /\ Alive(c)
  BY <1>1, <1>2 DEF IsDecoder, DecoderSet, Alive
<1>. HIDE DEF c
<1>5. IsDecoder(e) /\ (Alive(d) => Alive(e))
  BY <1>4
<1>. HIDE DEF e
<1>. QED
  BY <1>3, <1>5, StartInputKeeps

\* Frames are dropped from the front of the queue.
LEMMA FrameProcessedType ==
  ASSUME NEW d, IsDecoder(d), NEW t \in Nat
  PROVE  IsDecoder(FrameProcessed(d, t))
<1>. DEFINE L == Len(d.frames)
            P(n) == /\ \A i \in 1..n : d.frames[i] <= t
                    /\ n < L => d.frames[n + 1] > t
            n == CHOOSE m \in 0..L : P(m)
            f == SubSeq(d.frames, n + 1, L)
<1>1. d \in DecoderSet /\ d.frames \in Seq(Frames) /\ L \in Nat
  BY LenProperties DEF IsDecoder, DecoderSet
<1>2. \A i \in 1..L : d.frames[i] \in Int
  BY <1>1, ElementOfSeq, VideoAssumption DEF Frames
<1>3. \E m \in 0..L : P(m)
  <2>. DEFINE S == {m \in 0..L : m = L \/ d.frames[m + 1] > t}
  <2>1. S \in SUBSET Int /\ 0 \in Int /\ L \in S /\ \A m \in S : 0 <= m
    BY <1>1
  <2>2. PICK m \in S : \A k \in S : m <= k
    <3>. HIDE DEF S
    <3>1. S # {}
      BY <2>1
    <3>. QED
      BY <2>1, <3>1, HasLeast, Zenon
  <2>3. ASSUME NEW i \in 1..m PROVE d.frames[i] <= t
    <3>1. i - 1 \in 0..L /\ i - 1 # L /\ (i - 1) + 1 = i /\ ~(m <= i - 1) /\ i \in 1..L
      BY <1>1
    <3>2. ~(d.frames[i] > t)
      BY <2>2, <3>1
    <3>. QED
      BY <1>2, <3>1, <3>2
  <2>4. P(m)
    BY <1>1, <2>3
  <2>. QED
    BY <2>4
<1>4. n \in 0..L
  <2>. HIDE DEF P
  <2>. QED
    BY <1>3
<1>5. f \in Seq(Frames)
  <2>. HIDE DEF n
  <2>1. \A i \in (n + 1)..L : d.frames[i] \in Frames
    BY <1>1, <1>4, ElementOfSeq
  <2>2. n + 1 \in 1..(L + 1)
    BY <1>1, <1>4
  <2>. QED
    BY <1>1, <2>1, <2>2, SubSeqProperties
<1>6. FrameProcessed(d, t) = [d EXCEPT !.oldest = t, !.frames = f]
  BY DEF FrameProcessed
<1>. HIDE DEF f
<1>7. [d EXCEPT !.oldest = t, !.frames = f] \in DecoderSet
      /\ [d EXCEPT !.oldest = t, !.frames = f].src = d.src
  BY <1>1, <1>5 DEF DecoderSet
<1>. QED
  BY <1>6, <1>7 DEF IsDecoder

LEMMA KeepdataType ==
  ASSUME NEW d, IsDecoder(d), d.frames # <<>>, NEW t \in Nat
  PROVE  IsDecoder(FrameProcessedKeepdata(d, t))
<1>. DEFINE f == Tail(d.frames)
<1>1. d \in DecoderSet /\ d.frames \in Seq(Frames)
  BY DEF IsDecoder, DecoderSet
<1>2. f \in Seq(Frames)
  BY <1>1, HeadTailProperties
<1>3. FrameProcessedKeepdata(d, t) = [d EXCEPT !.oldest = t, !.frames = f]
  BY DEF FrameProcessedKeepdata
<1>. HIDE DEF f
<1>4. [d EXCEPT !.oldest = t, !.frames = f] \in DecoderSet
      /\ [d EXCEPT !.oldest = t, !.frames = f].src = d.src
  BY <1>1, <1>2 DEF DecoderSet
<1>. QED
  BY <1>3, <1>4 DEF IsDecoder

\* What the decoder makes of a packet.
LEMMA DecodedKeeps ==
  ASSUME now \in Nat, NEW d, IsDecoder(d), NEW p \in PacketSet \cup {[flag |-> "nodata"]},
         NEW g \in BOOLEAN
  PROVE  IsDecoder(Decoded(d, p, g)) /\ (Alive(d) => Alive(Decoded(d, p, g)))
<1>0. ASSUME NEW c, IsDecoder(c)
      PROVE  /\ IsDecoder([c EXCEPT !.start_input = TRUE])
             /\ Alive(c) => Alive([c EXCEPT !.start_input = TRUE])
  BY <1>0 DEF IsDecoder, DecoderSet, Alive
<1>1. CASE p.flag = "eof"
  <2>1. Decoded(d, p, g) = [RestartQueues(d) EXCEPT !.start_input = TRUE]
    BY <1>1 DEF Decoded
  <2>. QED
    BY <1>0, <2>1, RestartKeeps
<1>2. CASE p.flag = "flush"
  <2>1. Decoded(d, p, g) = RestartQueues([d EXCEPT !.start_input = TRUE])
    BY <1>2 DEF Decoded
  <2>. QED
    BY <1>0, <2>1, RestartKeeps
<1>3. CASE p.flag = "nodata"
  <2>1. Decoded(d, p, g) = [d EXCEPT !.start_input = TRUE]
    BY <1>3 DEF Decoded
  <2>. QED
    BY <1>0, <2>1
<1>4. CASE p.flag = "avpacket"
  <2>. DEFINE f == IF g /\ p.pts >= d.oldest THEN Append(d.frames, p.pts) ELSE d.frames
              e == [d EXCEPT !.start_input = TRUE, !.frames = f]
  <2>1. Decoded(d, p, g) = RestartQueues(e)
    BY <1>4 DEF Decoded
  <2>2. p.pts \in Frames /\ d \in DecoderSet
    BY <1>4 DEF PacketSet, IsDecoder
  <2>3. f \in Seq(Frames)
    BY <2>2, AppendProperties DEF DecoderSet
  <2>. HIDE DEF f
  <2>4. IsDecoder(e) /\ (Alive(d) => Alive(e))
    BY <2>2, <2>3 DEF IsDecoder, DecoderSet, Alive
  <2>. HIDE DEF e
  <2>. QED
    BY <2>1, <2>4, RestartKeeps
<1>. QED
  BY <1>1, <1>2, <1>3, <1>4 DEF PacketSet

LEMMA SourceReplaced ==
  ASSUME NEW d, IsDecoder(d), NEW x, Bounded(x)
  PROVE  /\ IsDecoder([d EXCEPT !.src = x])
         /\ Alive(d) => Alive([d EXCEPT !.src = x])
BY DEF IsDecoder, DecoderSet, Alive, Bounded

LEMMA SeekKeeps ==
  ASSUME NEW d, IsDecoder(d), NEW t \in Frames
  PROVE  IsDecoder(SeekDecoder(d, t)) /\ (Alive(d) => Alive(SeekDecoder(d, t)))
<1>. DEFINE x == IF d.src.time = t THEN d.src ELSE FlushDatasource(d.src, t)
            f == <<>>
            e == [d EXCEPT !.oldest = t, !.frames = f, !.src = x]
<1>1. d \in DecoderSet /\ Bounded(x) /\ x \in SourceSet /\ f \in Seq(Frames) /\ t \in Nat
  BY FlushBounded, VideoAssumption DEF IsDecoder, Bounded, Frames
<1>2. SeekDecoder(d, t) = IF d.oldest = t THEN d ELSE e
  BY DEF SeekDecoder
<1>. HIDE DEF x, f
<1>3. IsDecoder(e) /\ (Alive(d) => Alive(e))
  BY <1>1 DEF IsDecoder, DecoderSet, Alive
<1>. QED
  BY <1>2, <1>3

LEMMA Unscheduled ==
  ASSUME NEW d, IsDecoder(d), NEW t
  PROVE  /\ IsDecoder([d EXCEPT !.scheduled = @ (-) SetToBag({t})])
         /\ [d EXCEPT !.scheduled = @ (-) SetToBag({t})].frames = d.frames
<1>. DEFINE B == d.scheduled (-) SetToBag({t})
<1>1. d \in DecoderSet /\ B \in TimeBags
  BY OneLess DEF IsDecoder, DecoderSet
<1>. HIDE DEF B
<1>2. IsDecoder([d EXCEPT !.scheduled = B]) /\ [d EXCEPT !.scheduled = B].frames = d.frames
  BY <1>1 DEF IsDecoder, DecoderSet
<1>. QED
  BY <1>2 DEF B

-----------------------------------------------------------------------------
(* Types, the chain of callbacks and the clock *)

StatusLabels ==
    {"new", "reused", "prerolled", "playing", "refused", "paused", "stopped", "done"}

ThreadType ==
    /\ filepos \in 0..NumFrames /\ hand \in Times /\ m_clip_begin \in Frames
    /\ running \in BOOLEAN /\ eof_sent_to_clients \in BOOLEAN /\ m_clip_begin_changed \in BOOLEAN

RendererType ==
    /\ clip \in Clips /\ status \in StatusLabels
    /\ m_activated \in BOOLEAN /\ m_post_stop_called \in BOOLEAN
    /\ ended \in BOOLEAN /\ ranout \in BOOLEAN
    /\ m_last_frame_timestamp \in Times /\ m_previous_clip_position \in Times

ClockType ==
    /\ m_is_paused \in BOOLEAN /\ m_paused_epoch \in Int /\ m_epoch \in Int
    /\ now \in 0..MaxTime /\ played \in Nat

TypeInv == ThreadType /\ RendererType /\ ClockType /\ IsDecoder(dec)

\* What the renderer's clock is compared with is the time of the last pause
\* as long as it is paused, and it is paused exactly when the player thinks so.
ClockInv ==
    /\ m_activated /\ status = "playing" =>
          ~m_is_paused /\ now - m_epoch = clip.begin + played
    /\ m_activated /\ status = "paused" =>
          m_is_paused /\ m_paused_epoch - m_epoch = clip.begin + played

LEMMA Constants ==
  /\ NumFrames \in Nat \ {0} /\ MaxTime \in Nat /\ Frames \subseteq Nat
  /\ \A c \in Clips : c.begin \in Frames /\ c.end \in Times /\ c.begin \in Nat
  /\ \A x \in Times : x \in Int
<1>1. /\ NumFrames \in Nat \ {0} /\ LastStart \in Nat /\ MaxPause \in Nat /\ MaxCalls - 1 \in Nat
  BY VideoAssumption
<1>2. (MaxCalls - 1) * MaxPause \in Nat
  BY <1>1
<1>3. MaxTime \in Nat
  BY <1>1, <1>2 DEF MaxTime
<1>. QED
  BY <1>1, <1>3, VideoAssumption DEF Frames, Times, None

LEMMA InitInv == Init => TypeInv /\ ChainAlive /\ ClockInv
<1>. SUFFICES ASSUME Init PROVE TypeInv /\ ChainAlive /\ ClockInv
  OBVIOUS
<1>1. clip \in Clips /\ clip.begin \in Frames
  BY Constants DEF Init
<1>2. ThreadType
  <2>1. 0 \in 0..NumFrames
    BY Constants
  <2>2. m_clip_begin_changed \in BOOLEAN
    BY DEF Init
  <2>. QED
    BY <1>1, <2>1, <2>2 DEF Init, ThreadType, Times
<1>3. RendererType
  BY <1>1 DEF Init, RendererType, StatusLabels, Times
<1>4. ClockType
  <2>1. 0 \in 0..MaxTime /\ 0 \in Int /\ 0 \in Nat
    BY Constants
  <2>. QED
    BY <2>1, Zenon DEF Init, ClockType
<1>5. IsDecoder(dec)
  <2>1. Bounded(NewDatasource(clip.begin))
    BY <1>1, BufferAssumption DEF Bounded, NewDatasource, SourceSet, Times
  <2>2. EmptyBag \in TimeBags
    BY DEF EmptyBag, SetToBag, TimeBags
  <2>. QED
    BY <2>1, <2>2 DEF Init, IsDecoder, DecoderSet, Bounded
<1>. QED
  BY <1>2, <1>3, <1>4, <1>5 DEF Init, TypeInv, ChainAlive, ClockInv

LEMMA ThreadStep ==
  ASSUME TypeInv, ChainAlive, ClockInv, Thread
  PROVE  TypeInv' /\ ChainAlive' /\ ClockInv'
<1>. USE Constants
<1>0. IsDecoder(dec) /\ Bounded(dec.src)
  BY DEF TypeInv, IsDecoder
\* A thread only changes the datasource of the decoder.
<1>1. ASSUME NEW p \in PacketSet, dec' = [dec EXCEPT !.src = PushData(@, p)]
      PROVE  IsDecoder(dec') /\ (Alive(dec) => Alive(dec'))
  BY <1>0, <1>1, PushBounded, SourceReplaced
<1>2. ASSUME ThreadType', IsDecoder(dec'), Alive(dec) => Alive(dec'),
             UNCHANGED <<clip, m_activated, m_post_stop_called, clock, position, now,
                         status, calls, played, ended, ranout>>
      PROVE  TypeInv' /\ ChainAlive' /\ ClockInv'
  BY <1>2 DEF TypeInv, RendererType, ClockType, ChainAlive, ClockInv, Alive, clock, position
<1>3. CASE ThreadSeek
  <2>. DEFINE S == {k \in KeyFrames : k <= m_clip_begin}
  <2>1. m_clip_begin \in Int /\ S \in SUBSET Int /\ 0 \in S /\ \A k \in S : k <= m_clip_begin
    <3>1. m_clip_begin \in Nat /\ KeyFrames \in SUBSET Int /\ 0 \in KeyFrames
      BY VideoAssumption DEF TypeInv, ThreadType, Frames
    <3>2. 0 <= m_clip_begin
      BY <3>1
    <3>3. 0 \in S
      BY <3>1, <3>2
    <3>4. S \in SUBSET Int /\ \A k \in S : k <= m_clip_begin
      BY <3>1
    <3>. QED
      BY <3>1, <3>3, <3>4
  <2>2. \E k \in S : \A j \in S : j <= k
    <3>1. S # {}
      BY <2>1
    <3>. HIDE DEF S
    <3>. QED
      BY <2>1, <3>1, HasGreatest, Zenon
  <2>3. \E k \in KeyFrames : k <= m_clip_begin /\ \A j \in KeyFrames : j <= m_clip_begin => j <= k
    BY <2>2
  <2>4. filepos' \in KeyFrames
    BY <1>3, <2>3 DEF ThreadSeek
  <2>5. filepos' \in 0..NumFrames
    BY <2>4, VideoAssumption DEF Frames
  <2>6. ThreadType'
    BY <1>3, <2>5 DEF ThreadSeek, TypeInv, ThreadType
  <2>7. [flag |-> "flush"] \in PacketSet
    BY DEF PacketSet
  <2>8. IsDecoder(dec') /\ (Alive(dec) => Alive(dec'))
    BY <1>1, <1>3, <2>7 DEF ThreadSeek
  <2>. QED
    BY <1>2, <1>3, <2>6, <2>8 DEF ThreadSeek
<1>4. CASE ThreadRead
  <2>1. filepos + 1 \in 0..NumFrames /\ filepos \in Times
    BY <1>4 DEF ThreadRead, TypeInv, ThreadType, Times, Frames
  <2>2. ThreadType'
    BY <1>4, <2>1 DEF ThreadRead, TypeInv, ThreadType
  <2>3. dec' = dec
    BY <1>4 DEF ThreadRead
  <2>. QED
    BY <1>0, <1>2, <1>4, <2>2, <2>3 DEF ThreadRead
<1>5. CASE ThreadPush
  <2>1. hand \in Frames
    BY <1>5 DEF ThreadPush, TypeInv, ThreadType, Times
  <2>2. [flag |-> "avpacket", pts |-> hand] \in PacketSet
    BY <2>1 DEF PacketSet
  <2>3. IsDecoder(dec') /\ (Alive(dec) => Alive(dec'))
    BY <1>1, <1>5, <2>2 DEF ThreadPush
  <2>4. ThreadType'
    BY <1>5 DEF ThreadPush, TypeInv, ThreadType, Times
  <2>. QED
    BY <1>2, <1>5, <2>3, <2>4 DEF ThreadPush
<1>6. CASE ThreadEof
  <2>1. [flag |-> "eof"] \in PacketSet
    BY DEF PacketSet
  <2>2. IsDecoder(dec') /\ (Alive(dec) => Alive(dec'))
    BY <1>1, <1>6, <2>1 DEF ThreadEof
  <2>3. ThreadType'
    BY <1>6 DEF ThreadEof, TypeInv, ThreadType
  <2>. QED
    BY <1>2, <1>6, <2>2, <2>3 DEF ThreadEof
<1>. QED
  BY <1>3, <1>4, <1>5, <1>6 DEF Thread

LEMMA DecoderStep ==
  ASSUME TypeInv, ChainAlive, ClockInv, DecoderDataAvail
  PROVE  TypeInv' /\ ChainAlive' /\ ClockInv'
<1>. DEFINE d == [dec EXCEPT !.src = TakePacket(@)]
            p == IF dec.src.frames = <<>> THEN [flag |-> "nodata"] ELSE Head(dec.src.frames)
<1>1. PICK g \in BOOLEAN : dec' = Decoded(d, p, g)
  BY DEF DecoderDataAvail
<1>2. now \in Nat /\ IsDecoder(dec) /\ Bounded(dec.src) /\ dec.src.event > 0
  BY Constants DEF TypeInv, ClockType, IsDecoder, DecoderDataAvail
<1>3. p \in PacketSet \cup {[flag |-> "nodata"]}
  BY <1>2, HeadTailProperties DEF Bounded, SourceSet
<1>4. IsDecoder(d) /\ (Alive(dec) => Alive(d))
  BY <1>2, TakeBounded, SourceReplaced
<1>. HIDE DEF d, p
<1>5. IsDecoder(dec') /\ (Alive(dec) => Alive(dec'))
  BY <1>1, <1>2, <1>3, <1>4, DecodedKeeps
<1>. QED
  BY <1>5 DEF DecoderDataAvail, TypeInv, ThreadType, RendererType, ClockType, ChainAlive,
       ClockInv, Alive, thread, clock, position

LEMMA MediaNowType == ASSUME TypeInv PROVE MediaNow \in Nat
BY Constants DEF TypeInv, ClockType, MediaNow

\* data_avail of the renderer: every way out either asks for another callback,
\* or ends the chain on purpose.
LEMMA ShowFrameAlive ==
  ASSUME TypeInv, NEW d, IsDecoder(d), d.frames # <<>>, NEW f, f = Head(d.frames),
         ShowFrame(d, f)
  PROVE  IsDecoder(dec') /\ Alive(dec') /\ m_last_frame_timestamp' \in Times
<1>. DEFINE skip == f + 1 < clip.begin
            early == ~skip /\ f > MediaNow + 1
            dup == ~skip /\ ~early /\ f <= m_last_frame_timestamp
            show == ~skip /\ ~early /\ ~dup
            behind == f + 1 < MediaNow - 1
            next == IF show THEN IF behind THEN MediaNow - 1 ELSE f + 1
                    ELSE IF dup THEN m_last_frame_timestamp + 1 ELSE f
            e == CASE early         -> d
                   [] skip \/ dup   -> FrameProcessed(d, f)
                   [] show /\ behind  -> FrameProcessed(FrameProcessedKeepdata(d, f), next)
                   [] show /\ ~behind -> FrameProcessedKeepdata(d, f)
<1>1. /\ dec' = StartFrame(e, next + m_epoch)
      /\ m_last_frame_timestamp' = IF show THEN f ELSE m_last_frame_timestamp
  BY DEF ShowFrame
<1>2. f \in Frames /\ f \in Nat /\ MediaNow \in Nat /\ now \in Nat /\ m_epoch \in Int
      /\ m_last_frame_timestamp \in Int /\ m_last_frame_timestamp \in Times
      /\ clip.begin \in Nat
  <2>1. f \in Frames /\ f \in Nat
    BY HeadTailProperties, Constants DEF IsDecoder, DecoderSet
  <2>2. MediaNow \in Nat /\ now \in Nat /\ m_epoch \in Int
    BY MediaNowType, Constants DEF TypeInv, ClockType
  <2>. QED
    BY <2>1, <2>2, Constants DEF TypeInv, RendererType
<1>3. IsDecoder(e)
  <2>1. IsDecoder(FrameProcessed(d, f)) /\ IsDecoder(FrameProcessedKeepdata(d, f))
    BY <1>2, FrameProcessedType, KeepdataType
  <2>2. ASSUME show, behind PROVE IsDecoder(FrameProcessed(FrameProcessedKeepdata(d, f), next))
    <3>1. next \in Nat
      BY <1>2, <2>2
    <3>. HIDE DEF next
    <3>. QED
      BY <2>1, <3>1, FrameProcessedType
  <2>3. early \/ skip \/ dup \/ show
    OBVIOUS
  <2>. HIDE DEF next
  <2>4. CASE early
    <3>1. e = d
      BY <2>4
    <3>. QED
      BY <3>1
  <2>5. CASE ~early /\ (skip \/ dup)
    <3>1. e = FrameProcessed(d, f)
      BY <2>5
    <3>. QED
      BY <2>1, <3>1
  <2>6. CASE show /\ behind
    <3>1. e = FrameProcessed(FrameProcessedKeepdata(d, f), next)
      BY <2>6
    <3>. QED
      BY <2>2, <2>6, <3>1
  <2>7. CASE show /\ ~behind
    <3>1. e = FrameProcessedKeepdata(d, f)
      BY <2>7
    <3>. QED
      BY <2>1, <3>1
  <2>. QED
    BY <2>3, <2>4, <2>5, <2>6, <2>7
<1>4. next + m_epoch \in Int
  BY <1>2
<1>5. m_last_frame_timestamp' \in Times
  BY <1>1, <1>2 DEF Times
<1>. HIDE DEF e, next
<1>. QED
  BY <1>1, <1>2, <1>3, <1>4, <1>5, StartFrameAlive

LEMMA RendererStep ==
  ASSUME TypeInv, ChainAlive, ClockInv, RendererDataAvail
  PROVE  TypeInv' /\ ChainAlive' /\ ClockInv'
<1>. DEFINE d(t) == [dec EXCEPT !.scheduled = @ (-) SetToBag({t})]
<1>1. PICK due \in BagToSet(dec.scheduled) :
          IF m_post_stop_called \/ ~m_activated
          THEN /\ dec' = d(due) /\ m_activated' = FALSE
               /\ UNCHANGED <<position, ended, ranout>>
          ELSE IF d(due).frames = <<>> THEN NoFrame(d(due))
          ELSE HaveFrame(d(due), Head(d(due).frames))
  BY DEF RendererDataAvail
<1>. DEFINE c == d(due)
<1>2. IsDecoder(c) /\ c.frames = dec.frames
  BY Unscheduled DEF TypeInv
<1>3. UNCHANGED <<thread, clip, m_post_stop_called, clock, now, status, played>>
  BY DEF RendererDataAvail
<1>4. now \in Nat /\ clip.begin \in Int /\ clip.end \in Times
  BY Constants DEF TypeInv, ClockType, RendererType
\* What has to be shown, whichever way the callback goes.
<1>5. ASSUME IsDecoder(dec'), m_activated' \in BOOLEAN, m_activated' => m_activated,
             m_activated' /\ ~ranout' => Alive(dec'),
             ended' \in BOOLEAN, ranout' \in BOOLEAN,
             m_last_frame_timestamp' \in Times, m_previous_clip_position' \in Times
      PROVE  TypeInv' /\ ChainAlive' /\ ClockInv'
  <2>1. TypeInv'
    BY <1>3, <1>5 DEF TypeInv, ThreadType, RendererType, ClockType, thread, clock
  <2>2. ChainAlive'
    BY <1>5 DEF ChainAlive, Alive
  <2>3. ClockInv'
    BY <1>3, <1>5 DEF ClockInv, clock
  <2>. QED
    BY <2>1, <2>2, <2>3
<1>. HIDE DEF d
<1>6. CASE m_post_stop_called \/ ~m_activated
  <2>1. dec' = c /\ m_activated' = FALSE /\ UNCHANGED <<position, ended, ranout>>
    BY <1>1, <1>6
  <2>. QED
    BY <1>2, <1>5, <2>1 DEF TypeInv, RendererType, position
<1>7. CASE ~(m_post_stop_called \/ ~m_activated) /\ c.frames = <<>>
  <2>1. NoFrame(c)
    BY <1>1, <1>7
  <2>2. UNCHANGED <<m_activated, position>>
    BY <2>1 DEF NoFrame
  <2>3. CASE AtEnd(c)
    <3>1. dec' = c /\ ended' = TRUE /\ ranout' = TRUE
      BY <2>1, <2>3 DEF NoFrame
    <3>. QED
      BY <1>2, <1>5, <2>2, <3>1 DEF TypeInv, RendererType, position
  <2>4. CASE ~AtEnd(c)
    <3>1. dec' = StartFrame(c, clip.begin) /\ UNCHANGED <<ended, ranout>>
      BY <2>1, <2>4 DEF NoFrame
    <3>2. IsDecoder(dec') /\ Alive(dec')
      BY <1>2, <1>4, <3>1, StartFrameAlive
    <3>. QED
      BY <1>5, <2>2, <3>1, <3>2 DEF TypeInv, RendererType, position
  <2>. QED
    BY <2>3, <2>4
<1>8. CASE ~(m_post_stop_called \/ ~m_activated) /\ c.frames # <<>>
  <2>. DEFINE f == Head(c.frames)
  <2>1. HaveFrame(c, f)
    BY <1>1, <1>8
  <2>2. /\ ended' \in BOOLEAN /\ ranout' = ranout /\ m_previous_clip_position' \in Times
    BY <1>4, <2>1 DEF HaveFrame, TypeInv, RendererType
  <2>3. CASE PastClip(f) /\ ~clip.continue
    <3>1. dec' = c /\ m_activated' = FALSE /\ UNCHANGED m_last_frame_timestamp
      BY <2>1, <2>3 DEF HaveFrame
    <3>. QED
      BY <1>2, <1>5, <2>2, <3>1 DEF TypeInv, RendererType
  <2>4. CASE ~(PastClip(f) /\ ~clip.continue)
    <3>1. ShowFrame(c, f) /\ UNCHANGED m_activated
      BY <2>1, <2>4 DEF HaveFrame
    <3>2. IsDecoder(dec') /\ Alive(dec') /\ m_last_frame_timestamp' \in Times
      BY <1>2, <1>8, <3>1, ShowFrameAlive
    <3>. QED
      BY <1>5, <2>2, <3>1, <3>2 DEF TypeInv, RendererType
  <2>. QED
    BY <2>3, <2>4
<1>. QED
  BY <1>6, <1>7, <1>8

\* The calls of the player, and time.
LEMMA PlayerStep ==
  ASSUME TypeInv, ChainAlive, ClockInv,
         \/ Tick \/ Stop \/ PostStop \/ Pause \/ Resume
         \/ \E t \in SeekTimes : Seek(t)
  PROVE  TypeInv' /\ ChainAlive' /\ ClockInv'
<1>. USE Constants
<1>0. /\ now \in Nat /\ m_epoch \in Int /\ m_paused_epoch \in Int /\ played \in Nat
      /\ clip.begin \in Nat /\ IsDecoder(dec)
  BY DEF TypeInv, ClockType, RendererType
<1>1. CASE Tick
  <2>1. now' = now + 1 /\ now' \in 0..MaxTime
        /\ played' = IF status = "playing" THEN played + 1 ELSE played
    BY <1>1 DEF Tick, TypeInv, ClockType
  <2>2. UNCHANGED <<thread, dec, clip, m_activated, m_post_stop_called, clock,
                    position, status, ended, ranout>>
    BY <1>1 DEF Tick
  <2>3. TypeInv'
    <3>1. played' \in Nat
      BY <1>0, <2>1
    <3>. QED
      BY <2>1, <2>2, <3>1 DEF TypeInv, ThreadType, RendererType, ClockType, thread, clock, position
  <2>4. ClockInv'
    <3>1. (now + 1) - m_epoch = (now - m_epoch) + 1 /\ clip.begin + (played + 1) = (clip.begin + played) + 1
      BY <1>0
    <3>. QED
      BY <2>1, <2>2, <3>1 DEF ClockInv, clock
  <2>. QED
    BY <2>2, <2>3, <2>4 DEF ChainAlive
<1>2. CASE Stop
  <2>1. (m_activated' => m_activated) /\ m_activated' \in BOOLEAN /\ status' = "stopped" /\ played' = 0
        /\ UNCHANGED <<thread, dec, clip, m_post_stop_called, clock, position, now, ended, ranout>>
    BY <1>2 DEF Stop
  <2>2. TypeInv'
    BY <2>1 DEF TypeInv, ThreadType, RendererType, ClockType, StatusLabels, thread, clock, position
  <2>. QED
    BY <2>1, <2>2 DEF ChainAlive, ClockInv
<1>3. CASE PostStop
  <2>1. m_post_stop_called' \in BOOLEAN /\ status' = "done"
        /\ UNCHANGED <<thread, dec, clip, m_activated, clock, position, now, played, ended, ranout>>
    BY <1>3 DEF PostStop
  <2>2. TypeInv'
    BY <2>1 DEF TypeInv, ThreadType, RendererType, ClockType, StatusLabels, thread, clock, position
  <2>. QED
    BY <2>1, <2>2 DEF ChainAlive, ClockInv
<1>4. CASE Pause
  <2>1. status = "playing" /\ status' = "paused"
        /\ UNCHANGED <<thread, dec, clip, m_activated, m_post_stop_called, m_epoch,
                       position, now, played, ended, ranout>>
    BY <1>4 DEF Pause
  <2>2. IF m_activated /\ ~m_is_paused
        THEN m_is_paused' = TRUE /\ m_paused_epoch' = now
        ELSE UNCHANGED <<m_is_paused, m_paused_epoch>>
    BY <1>4 DEF Pause
  <2>3. m_is_paused' \in BOOLEAN /\ m_paused_epoch' \in Int
    <3>1. m_is_paused \in BOOLEAN /\ now \in Int
      BY <1>0 DEF TypeInv, ClockType
    <3>. QED
      BY <1>0, <2>2, <3>1, Zenon
  <2>4. TypeInv'
    BY <2>1, <2>3 DEF TypeInv, ThreadType, RendererType, ClockType, StatusLabels, thread, position
  <2>5. ClockInv'
    BY <2>1, <2>2 DEF ClockInv
  <2>. QED
    BY <2>1, <2>4, <2>5 DEF ChainAlive
<1>5. CASE Resume
  <2>1. status = "paused" /\ status' = "playing"
        /\ UNCHANGED <<thread, dec, clip, m_activated, m_post_stop_called, m_paused_epoch,
                       position, now, played, ended, ranout>>
    BY <1>5 DEF Resume
  <2>2. IF m_activated /\ m_is_paused
        THEN m_is_paused' = FALSE /\ m_epoch' = m_epoch + (now - m_paused_epoch)
        ELSE UNCHANGED <<m_is_paused, m_epoch>>
    BY <1>5 DEF Resume
  <2>3. m_is_paused' \in BOOLEAN /\ m_epoch' \in Int
    <3>1. m_is_paused \in BOOLEAN /\ m_epoch + (now - m_paused_epoch) \in Int
      BY <1>0 DEF TypeInv, ClockType
    <3>. QED
      BY <1>0, <2>2, <3>1, Zenon
  <2>4. TypeInv'
    BY <2>1, <2>3 DEF TypeInv, ThreadType, RendererType, ClockType, StatusLabels, thread, position
  <2>5. ClockInv'
    <3>1. now - (m_epoch + (now - m_paused_epoch)) = m_paused_epoch - m_epoch
      BY <1>0
    <3>. QED
      BY <2>1, <2>2, <3>1 DEF ClockInv
  <2>. QED
    BY <2>1, <2>4, <2>5 DEF ChainAlive
<1>6. ASSUME NEW t \in SeekTimes, Seek(t)
      PROVE  TypeInv' /\ ChainAlive' /\ ClockInv'
  <2>1. t \in Frames
    BY VideoAssumption
  <2>2. IsDecoder(dec') /\ (Alive(dec) => Alive(dec'))
    BY <1>0, <1>6, <2>1, SeekKeeps DEF Seek
  <2>3. m_clip_begin' \in Frames /\ m_clip_begin_changed' \in BOOLEAN
    BY <1>6, <2>1 DEF Seek, SeekThread, TypeInv, ThreadType
  <2>4. UNCHANGED <<running, filepos, hand, eof_sent_to_clients, clip, m_activated, m_post_stop_called,
                    clock, position, now, status, played, ended, ranout>>
    BY <1>6 DEF Seek
  <2>5. TypeInv'
    BY <2>2, <2>3, <2>4 DEF TypeInv, ThreadType, RendererType, ClockType, clock, position
  <2>. QED
    BY <2>2, <2>4, <2>5 DEF ChainAlive, ClockInv, Alive, clock
<1>. QED
  BY <1>1, <1>2, <1>3, <1>4, <1>5, <1>6

LEMMA InitWithNodeStep ==
  ASSUME TypeInv, ChainAlive, ClockInv, NEW c \in Clips, InitWithNode(c)
  PROVE  TypeInv' /\ ChainAlive' /\ ClockInv'
<1>1. clip' = c /\ status' = "reused"
      /\ UNCHANGED <<thread, dec, m_activated, m_post_stop_called, clock, position,
                     now, played, ended, ranout>>
  BY DEF InitWithNode
<1>2. TypeInv'
  BY <1>1 DEF TypeInv, ThreadType, RendererType, ClockType, StatusLabels, thread, clock, position
<1>. QED
  BY <1>1, <1>2 DEF ChainAlive, ClockInv

LEMMA PrerollStep ==
  ASSUME TypeInv, ChainAlive, ClockInv, Preroll
  PROVE  TypeInv' /\ ChainAlive' /\ ClockInv'
<1>. USE Constants
<1>1. status' = "prerolled"
      /\ UNCHANGED <<clip, m_activated, m_post_stop_called, now, played, ended, ranout>>
  BY DEF Preroll
<1>2. clip.begin \in Frames /\ clip.begin \in Nat /\ IsDecoder(dec)
  BY DEF TypeInv, RendererType
<1>3. CASE EndsBeforeBegin
  <2>1. UNCHANGED <<thread, dec, clock, position>>
    BY <1>3 DEF Preroll
  <2>2. TypeInv'
    BY <1>1, <2>1 DEF TypeInv, ThreadType, RendererType, ClockType, StatusLabels, thread, clock, position
  <2>. QED
    BY <1>1, <2>1, <2>2 DEF ChainAlive, ClockInv
<1>4. CASE ~EndsBeforeBegin
  <2>. DEFINE seek == clip.begin # m_previous_clip_position
              b == IF seek THEN SeekDecoder(dec, clip.begin) ELSE dec
  <2>1. /\ dec' = StartPrefetch(b)
        /\ IF seek THEN SeekThread(dec, clip.begin)
           ELSE UNCHANGED <<m_clip_begin, m_clip_begin_changed>>
        /\ running' = TRUE /\ m_is_paused' = FALSE /\ m_paused_epoch' = 0
        /\ m_previous_clip_position' = clip.begin /\ m_last_frame_timestamp' = None
        /\ UNCHANGED <<filepos, hand, eof_sent_to_clients, m_epoch>>
    BY <1>4 DEF Preroll
  <2>2. IsDecoder(b) /\ (Alive(dec) => Alive(b))
    BY <1>2, SeekKeeps
  <2>. HIDE DEF b
  <2>3. IsDecoder(dec') /\ (Alive(dec) => Alive(dec'))
    BY <2>1, <2>2, StartInputKeeps
  <2>4. ThreadType'
    BY <1>2, <2>1 DEF SeekThread, TypeInv, ThreadType
  <2>5. RendererType'
    BY <1>1, <1>2, <2>1 DEF TypeInv, RendererType, StatusLabels, Times
  <2>6. ClockType'
    <3>1. m_paused_epoch' \in Int
      BY <2>1
    <3>. QED
      BY <1>1, <2>1, <3>1, Zenon DEF TypeInv, ClockType
  <2>. QED
    BY <1>1, <2>3, <2>4, <2>5, <2>6 DEF TypeInv, ChainAlive, ClockInv, Alive
<1>. QED
  BY <1>3, <1>4

LEMMA StartStep ==
  ASSUME TypeInv, ChainAlive, ClockInv, Start
  PROVE  TypeInv' /\ ChainAlive' /\ ClockInv'
<1>. USE Constants
<1>1. played' = 0 /\ UNCHANGED <<thread, clip, now>>
  BY DEF Start
<1>2. clip.begin \in Nat /\ now \in Nat /\ IsDecoder(dec)
  BY DEF TypeInv, RendererType, ClockType
<1>3. CASE EndsBeforeBegin
  <2>1. status' = "refused" /\ ended' = TRUE
        /\ UNCHANGED <<dec, m_activated, m_post_stop_called, clock, position, ranout>>
    BY <1>3 DEF Start
  <2>2. TypeInv'
    BY <1>1, <2>1 DEF TypeInv, ThreadType, RendererType, ClockType, StatusLabels, thread, clock, position
  <2>. QED
    BY <2>1, <2>2 DEF ChainAlive, ClockInv
<1>4. CASE ~EndsBeforeBegin
  <2>1. /\ status' = "playing" /\ ended' = FALSE
        /\ m_activated' = TRUE /\ m_post_stop_called' = FALSE
        /\ m_is_paused' = FALSE /\ m_epoch' = now - clip.begin
        /\ m_previous_clip_position' = None
        /\ ranout' = (ranout /\ m_activated)
        /\ UNCHANGED <<m_paused_epoch, m_last_frame_timestamp>>
    BY <1>4 DEF Start
  <2>2. dec' = IF m_activated THEN dec ELSE StartFrame(dec, 0)
    BY <1>4 DEF Start
  <2>3. IsDecoder(dec') /\ (~m_activated \/ Alive(dec) => Alive(dec'))
    BY <1>2, <2>2, StartFrameAlive
  <2>4. ThreadType'
    BY <1>1 DEF TypeInv, ThreadType, thread
  <2>5. RendererType'
    BY <1>1, <2>1 DEF TypeInv, RendererType, StatusLabels, Times
  <2>6. ClockType'
    <3>1. m_epoch' \in Int /\ played' \in Nat
      BY <1>1, <1>2, <2>1
    <3>. QED
      BY <1>1, <2>1, <3>1, Zenon DEF TypeInv, ClockType
  <2>7. ClockInv'
    <3>1. now' - m_epoch' = clip'.begin + played'
      BY <1>1, <1>2, <2>1
    <3>. QED
      BY <2>1, <3>1 DEF ClockInv
  <2>8. ChainAlive'
    BY <2>1, <2>3 DEF ChainAlive, Alive
  <2>. QED
    BY <2>3, <2>4, <2>5, <2>6, <2>7, <2>8 DEF TypeInv
<1>. QED
  BY <1>3, <1>4

LEMMA Invariants == Spec => [](TypeInv /\ ChainAlive /\ ClockInv)
<1>1. TypeInv /\ ChainAlive /\ ClockInv /\ [Next]_vars => (TypeInv /\ ChainAlive /\ ClockInv)'
  <2>. SUFFICES ASSUME TypeInv, ChainAlive, ClockInv, [Next]_vars
                PROVE  TypeInv' /\ ChainAlive' /\ ClockInv'
    OBVIOUS
  <2>1. CASE Next
    BY <2>1, ThreadStep, DecoderStep, RendererStep, PlayerStep, InitWithNodeStep, PrerollStep,
       StartStep DEF Next, Thread
  <2>2. CASE UNCHANGED vars
    BY <2>2 DEF vars, thread, clock, position, TypeInv, ThreadType, RendererType, ClockType,
         ChainAlive, ClockInv
  <2>. QED
    BY <2>1, <2>2
<1>. QED
  BY <1>1, InitInv, PTL DEF Spec

\* The renderer, its decoder and the thread are type-correct for any file and
\* any clips, and the queue of packets never exceeds its capacity.
THEOREM TypeCorrect == Spec => []TypeOK
<1>1. TypeInv => TypeOK
  <2>. SUFFICES ASSUME TypeInv PROVE TypeOK
    OBVIOUS
  <2>1. /\ dec.frames \in Seq(Frames) /\ dec.oldest \in Nat
        /\ Len(dec.src.frames) <= MAX_PACKETS_BUFFERED
        /\ dec.src.event \in Nat /\ dec.client \in BOOLEAN /\ dec.start_input \in BOOLEAN
    BY DEF TypeInv, IsDecoder, DecoderSet, Bounded, SourceSet
  <2>2. {running, eof_sent_to_clients, m_clip_begin_changed, m_activated, m_post_stop_called,
         m_is_paused, ended, ranout} \subseteq BOOLEAN
    BY Zenon DEF TypeInv, ThreadType, RendererType, ClockType
  <2>. QED
    BY <2>1, <2>2 DEF TypeInv, ThreadType, RendererType, ClockType, StatusLabels, TypeOK
<1>. QED
  BY <1>1, Invariants, PTL

\* No order of starts, stops, pauses, seeks and callbacks loses the callback
\* that keeps an activated renderer going: whatever data_avail finds, it asks
\* for the next one, or the renderer is over, or the end of the file was met
\* without a frame (ranout).
THEOREM CallbacksGoOn == Spec => []ChainAlive
BY Invariants, PTL

\* The clock of the renderer shows where the clip began plus the time played,
\* for any sequence of starts, stops, pauses and resumes: Pause and Resume
\* agree with the player on whether the clock runs as long as it is activated.
THEOREM ClockIsRight == Spec => []MediaClock
<1>1. TypeInv /\ ClockInv => MediaClock
  <2>. SUFFICES ASSUME TypeInv, ClockInv, m_activated, status \in {"playing", "paused"}
                PROVE  MediaNow = clip.begin + played
    BY DEF MediaClock
  <2>1. /\ now \in Int /\ m_epoch \in Int /\ m_paused_epoch \in Int
        /\ clip.begin \in Nat /\ played \in Nat
    BY Constants DEF TypeInv, ClockType, RendererType
  <2>2. CASE status = "playing"
    <3>1. ~m_is_paused /\ now - m_epoch = clip.begin + played
      BY <2>2 DEF ClockInv
    <3>2. ~(now < m_epoch)
      BY <2>1, <3>1
    <3>. QED
      BY <3>1, <3>2 DEF MediaNow
  <2>3. CASE status = "paused"
    <3>1. m_is_paused /\ m_paused_epoch - m_epoch = clip.begin + played
      BY <2>3 DEF ClockInv
    <3>2. ~(m_paused_epoch < m_epoch)
      BY <2>1, <3>1
    <3>. QED
      BY <3>1, <3>2 DEF MediaNow
  <2>. QED
    BY <2>2, <2>3
<1>. QED
  BY <1>1, Invariants, PTL
=============================================================================

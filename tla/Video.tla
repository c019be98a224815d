------------------------------- MODULE Video -------------------------------
(***************************************************************************)
(* Playing a video without sound: video_renderer                           *)
(* (common/video_renderer.cpp), the decoder                                *)
(* ffmpeg_video_decoder_datasource (net/ffmpeg_video.cpp) and the          *)
(* datasource it reads from, filled by the thread of ffmpeg_demux.         *)
(*                                                                         *)
(* The event processor serves two callbacks: DecoderDataAvail takes a      *)
(* packet, decodes it and queues the frame; RendererDataAvail shows the    *)
(* first frame if it is time and asks to be called back for the next.  The *)
(* player starts, stops, pauses, resumes and seeks the renderer at any     *)
(* time, and uses it again, with another node, after stop.  Every action   *)
(* is what one holding of the object's m_lock does: start takes it for its *)
(* preroll and once more.  There is one worker.                            *)
(*                                                                         *)
(* Times are counted in frames: the frame at position n of the file has    *)
(* timestamp n and lasts 1.                                                *)
(***************************************************************************)
EXTENDS DemuxDatasource, FiniteSets, Bags

CONSTANTS
    NumFrames,              \* frames in the file, 0 .. NumFrames - 1
    KeyFrames,              \* frames that av_seek_frame can go to
    Clips,                  \* [begin, end, continue] of the nodes played
    MAX_VIDEO_FRAMES,
    SeekTimes,
    MaxCalls,               \* bound on the starts, seeks and pauses
    LastStart, MaxPause     \* bounds on the time of a start and of a pause

Frames == 0..(NumFrames - 1)
None == -1
Times == Frames \cup {None}

\* By then every frame is due: the clock may stop.
MaxTime == LastStart + (MaxCalls - 1) * MaxPause + NumFrames

ASSUME VideoAssumption ==
    /\ NumFrames \in Nat \ {0}
    /\ KeyFrames \subseteq Frames /\ 0 \in KeyFrames
    /\ SeekTimes \subseteq Frames
    /\ Clips # {} /\ \A c \in Clips : c.begin \in Frames /\ c.end \in Times
    /\ {MAX_VIDEO_FRAMES, LastStart, MaxPause} \subseteq Nat /\ MaxCalls \in Nat \ {0}

VARIABLES
    running,                \* the thread has been started
    filepos, hand,          \* and its next frame to read, packet to push
    eof_sent_to_clients, m_clip_begin, m_clip_begin_changed,
    dec,                    \* the decoder, its datasource and its callbacks
    clip,                   \* of the node that is played
    m_activated, m_post_stop_called,
    m_is_paused, m_paused_epoch, m_epoch,
    m_last_frame_timestamp, m_previous_clip_position,
    now,                    \* elapsed() of the event processor's timer
    status,                 \* the last call of the player
    calls,                  \* number of starts, seeks and pauses
    played,                 \* time played since start, pauses not counted
    ended,                  \* stopped() was reported since start
    ranout                  \* the end of the file was reached since the
                            \* first of the current chain of callbacks

thread == <<running, filepos, hand, eof_sent_to_clients, m_clip_begin, m_clip_begin_changed>>
clock == <<m_is_paused, m_paused_epoch, m_epoch>>
position == <<m_last_frame_timestamp, m_previous_clip_position>>
vars == <<thread, dec, clip, m_activated, m_post_stop_called, clock,
          position, now, status, calls, played, ended, ranout>>
----------------------------------------------------------------------------
(* ffmpeg_video_decoder_datasource, as functions of its state: a record of *)
(* m_frames, m_client_callback, m_start_input, m_oldest_timestamp_wanted,  *)
(* the datasource m_src, and the client callbacks that are scheduled.      *)

DecoderFull(d) == Len(d.frames) > MAX_VIDEO_FRAMES

AtEnd(d) == d.frames = <<>> /\ EndOfFile(d.src)

Due(t) == IF t < now THEN now ELSE t

StartInput(d) == [d EXCEPT !.src = StartDatasource(@), !.start_input = FALSE]

StartPrefetch(d) == IF d.start_input THEN StartInput(d) ELSE d

\* Mutant: a callback that must wait for a frame is not recorded.
StartFrame_NotRecorded(d, t) ==
    StartPrefetch(
        IF d.frames # <<>> \/ AtEnd(d)
        THEN [d EXCEPT !.client = FALSE, !.scheduled = @ (+) SetToBag({Due(t)})]
        ELSE [d EXCEPT !.client = FALSE])

\* start_frame: a callback at time t, or when there is a frame.
StartFrame(d, t) ==
    StartPrefetch(
        IF d.frames # <<>> \/ AtEnd(d)
        THEN [d EXCEPT !.client = FALSE, !.scheduled = @ (+) SetToBag({Due(t)})]
        ELSE [d EXCEPT !.client = TRUE])

\* Mutant: the client is not called back at the end of the file.
RestartQueues_NotAtEnd(d) ==
    LET e == IF d.client /\ d.frames # <<>>
             THEN [d EXCEPT !.client = FALSE, !.scheduled = @ (+) SetToBag({now})]
             ELSE d
    IN  IF ~EndOfFile(e.src) /\ ~DecoderFull(e) THEN StartInput(e) ELSE e

\* _restart_queues: MIN_VIDEO_FRAMES is 0.
RestartQueues(d) ==
    LET e == IF d.client /\ (d.frames # <<>> \/ EndOfFile(d.src))
             THEN [d EXCEPT !.client = FALSE, !.scheduled = @ (+) SetToBag({now})]
             ELSE d
    IN  IF ~EndOfFile(e.src) /\ ~DecoderFull(e) THEN StartInput(e) ELSE e

\* frame_processed drops the frames up to t at the front of the queue.
FrameProcessed(d, t) ==
    LET n == CHOOSE n \in 0..Len(d.frames) :
                /\ \A i \in 1..n : d.frames[i] <= t
                /\ n < Len(d.frames) => d.frames[n + 1] > t
    IN  [d EXCEPT !.oldest = t, !.frames = SubSeq(@, n + 1, Len(@))]

FrameProcessedKeepdata(d, t) == [d EXCEPT !.oldest = t, !.frames = Tail(@)]

\* The packet p has been taken: what is done with it, and whether a frame
\* came out of the decoder.
Decoded(d, p, got_pic) ==
    CASE p.flag = "eof"      -> [RestartQueues(d) EXCEPT !.start_input = TRUE]
      [] p.flag = "flush"    -> RestartQueues([d EXCEPT !.start_input = TRUE])
      [] p.flag = "nodata"   -> [d EXCEPT !.start_input = TRUE]
      [] p.flag = "avpacket" ->
            RestartQueues([d EXCEPT !.start_input = TRUE,
                                    !.frames = IF got_pic /\ p.pts >= d.oldest
                                               THEN Append(@, p.pts) ELSE @])

Init ==
    /\ clip \in Clips
    /\ m_clip_begin = clip.begin /\ m_clip_begin_changed = (clip.begin # 0)
    /\ running = FALSE /\ filepos = 0 /\ hand = None /\ eof_sent_to_clients = FALSE
    /\ dec = [frames |-> <<>>, client |-> FALSE, start_input |-> TRUE, oldest |-> 0,
              src |-> NewDatasource(clip.begin), scheduled |-> EmptyBag]
    /\ m_activated = FALSE /\ m_post_stop_called = FALSE
    /\ m_is_paused = FALSE /\ m_paused_epoch = 0 /\ m_epoch = 0
    /\ m_last_frame_timestamp = None /\ m_previous_clip_position = None
    /\ now = 0 /\ status = "new"
    /\ calls = 0
    /\ played = 0 /\ ended = FALSE /\ ranout = FALSE
----------------------------------------------------------------------------
(* The thread of ffmpeg_demux, for one stream (Demux has the rest).        *)

ThreadSeek ==
    /\ running /\ hand = None /\ m_clip_begin_changed
    /\ filepos' = CHOOSE k \in KeyFrames :
                     /\ k <= m_clip_begin
                     /\ \A j \in KeyFrames : j <= m_clip_begin => j <= k
    /\ m_clip_begin_changed' = FALSE /\ eof_sent_to_clients' = FALSE
    /\ dec' = [dec EXCEPT !.src = PushData(@, [flag |-> "flush"])]
    /\ UNCHANGED <<running, hand, m_clip_begin, clip, m_activated, m_post_stop_called,
                   clock, position, now, status, calls, played, ended, ranout>>

\* A packet is read and no seek has been asked for.
ThreadRead ==
    /\ running /\ hand = None /\ ~m_clip_begin_changed /\ filepos < NumFrames
    /\ hand' = filepos /\ filepos' = filepos + 1
    /\ eof_sent_to_clients' = FALSE
    /\ UNCHANGED <<running, m_clip_begin, m_clip_begin_changed, dec, clip, m_activated,
                   m_post_stop_called, clock, position, now, status,
                   calls, played, ended, ranout>>

\* It is pushed, and tried again if there is no room, unless a seek was asked for.
ThreadPush ==
    /\ hand # None
    /\ dec' = [dec EXCEPT !.src = PushData(@, [flag |-> "avpacket", pts |-> hand])]
    /\ hand' = IF Accepts(dec.src) \/ m_clip_begin_changed THEN None ELSE hand
    /\ UNCHANGED <<running, filepos, eof_sent_to_clients, m_clip_begin, m_clip_begin_changed,
                   clip, m_activated, m_post_stop_called, clock, position,
                   now, status, calls, played, ended, ranout>>

ThreadEof ==
    /\ running /\ hand = None /\ ~m_clip_begin_changed /\ filepos = NumFrames
    /\ ~eof_sent_to_clients
    /\ eof_sent_to_clients' = TRUE
    /\ dec' = [dec EXCEPT !.src = PushData(@, [flag |-> "eof"])]
    /\ UNCHANGED <<running, filepos, hand, m_clip_begin, m_clip_begin_changed, clip, m_activated,
                   m_post_stop_called, clock, position, now, status,
                   calls, played, ended, ranout>>

Thread == ThreadSeek \/ ThreadRead \/ ThreadPush \/ ThreadEof
----------------------------------------------------------------------------
(* The callbacks, served by the event processor. *)

\* ffmpeg_video_decoder_datasource::data_avail
DecoderDataAvail ==
    /\ dec.src.event > 0
    /\ \E got_pic \in BOOLEAN :
         LET p == IF dec.src.frames = <<>> THEN [flag |-> "nodata"] ELSE Head(dec.src.frames)
         IN  dec' = Decoded([dec EXCEPT !.src = TakePacket(@)], p, got_pic)
    /\ UNCHANGED <<thread, clip, m_activated, m_post_stop_called, clock,
                   position, now, status, calls, played, ended, ranout>>

\* _now()
MediaNow ==
    LET elapsed == IF m_is_paused THEN m_paused_epoch ELSE now
    IN  IF elapsed < m_epoch THEN 0 ELSE elapsed - m_epoch

\* There is no frame: the end of the file, or a seek has flushed the queue.
NoFrame(d) ==
    /\ IF AtEnd(d)
       THEN dec' = d /\ ended' = TRUE /\ ranout' = TRUE
       ELSE dec' = StartFrame(d, clip.begin) /\ UNCHANGED <<ended, ranout>>
    /\ UNCHANGED <<m_activated, position>>

PastClip(f) == clip.end > 0 /\ f > clip.end

\* Frame f is skipped, is too early, comes after a later one or is shown,
\* and the next callback is asked for.
ShowFrame(d, f) ==
    LET skip == f + 1 < clip.begin
        early == ~skip /\ f > MediaNow + 1
        dup == ~skip /\ ~early /\ f <= m_last_frame_timestamp
        show == ~skip /\ ~early /\ ~dup
        behind == f + 1 < MediaNow - 1
        next == IF show THEN IF behind THEN MediaNow - 1 ELSE f + 1
                ELSE IF dup THEN m_last_frame_timestamp + 1 ELSE f
        e == CASE early         -> d
               [] skip \/ dup   -> FrameProcessed(d, f)
               [] show /\ behind  -> FrameProcessed(FrameProcessedKeepdata(d, f), next)
               [] show /\ ~behind -> FrameProcessedKeepdata(d, f)
    IN  /\ dec' = StartFrame(e, next + m_epoch)
        /\ m_last_frame_timestamp' = IF show THEN f ELSE m_last_frame_timestamp

\* There is a frame: the end of the clip ends playback, unless fill is
\* continue; otherwise the frame is dealt with.
HaveFrame(d, f) ==
    /\ ended' = (ended \/ PastClip(f))
    /\ m_previous_clip_position' = IF PastClip(f) THEN clip.end ELSE m_previous_clip_position
    /\ IF PastClip(f) /\ ~clip.continue
       THEN dec' = d /\ m_activated' = FALSE /\ UNCHANGED m_last_frame_timestamp
       ELSE ShowFrame(d, f) /\ UNCHANGED m_activated
    /\ UNCHANGED ranout

\* video_renderer::data_avail
RendererDataAvail ==
    /\ \E due \in BagToSet(dec.scheduled) :
         LET d == [dec EXCEPT !.scheduled = @ (-) SetToBag({due})]
         IN  /\ due <= now
             /\ IF m_post_stop_called \/ ~m_activated
                THEN /\ dec' = d /\ m_activated' = FALSE
                     /\ UNCHANGED <<position, ended, ranout>>
                ELSE IF d.frames = <<>> THEN NoFrame(d) ELSE HaveFrame(d, Head(d.frames))
    /\ UNCHANGED <<thread, clip, m_post_stop_called, clock, now, status, calls, played>>

Tick ==
    /\ now < MaxTime
    /\ status \in {"new", "reused", "prerolled"} => now < LastStart
    /\ m_is_paused => now - m_paused_epoch < MaxPause
    /\ now' = now + 1
    /\ played' = IF status = "playing" THEN played + 1 ELSE played
    /\ UNCHANGED <<thread, dec, clip, m_activated, m_post_stop_called, clock,
                   position, status, calls, ended, ranout>>
----------------------------------------------------------------------------
(* The player's calls. *)

\* ffmpeg_video_decoder_datasource::seek does nothing if it is there already;
\* nor does demux_datasource::seek, whose thread is told otherwise.
SeekDecoder(d, t) ==
    IF d.oldest = t THEN d
    ELSE [d EXCEPT !.oldest = t, !.frames = <<>>,
                   !.src = IF @.time = t THEN @ ELSE FlushDatasource(@, t)]

SeekThread(d, t) ==
    IF d.oldest # t /\ d.src.time # t
    THEN m_clip_begin' = t /\ m_clip_begin_changed' = TRUE
    ELSE UNCHANGED <<m_clip_begin, m_clip_begin_changed>>

\* init_with_node: the player uses the renderer again, for the clip of
\* another node.  It still plays the last one if that has fill=continue.
InitWithNode(c) ==
    /\ status = "stopped" /\ calls < MaxCalls /\ now <= LastStart
    /\ clip' = c
    /\ status' = "reused" /\ calls' = calls + 1
    /\ UNCHANGED <<thread, dec, m_activated, m_post_stop_called, clock, position,
                   now, played, ended, ranout>>

EndsBeforeBegin == clip.end # None /\ clip.end < clip.begin

\* preroll, with which start begins: seek to the begin of the clip, unless
\* the previous one ended there, and start the input.
Preroll ==
    /\ status \in {"new", "reused"}
    /\ status' = "prerolled"
    /\ calls' = IF status = "new" THEN calls + 1 ELSE calls
    /\ IF EndsBeforeBegin
       THEN UNCHANGED <<thread, dec, clock, position>>
       ELSE LET seek == clip.begin # m_previous_clip_position
            IN  /\ dec' = StartPrefetch(IF seek THEN SeekDecoder(dec, clip.begin) ELSE dec)
                /\ IF seek THEN SeekThread(dec, clip.begin)
                   ELSE UNCHANGED <<m_clip_begin, m_clip_begin_changed>>
                /\ running' = TRUE
                /\ m_previous_clip_position' = clip.begin /\ m_last_frame_timestamp' = None
                /\ m_is_paused' = FALSE /\ m_paused_epoch' = 0
                /\ UNCHANGED <<filepos, hand, eof_sent_to_clients, m_epoch>>
    /\ UNCHANGED <<clip, m_activated, m_post_stop_called, now, played, ended, ranout>>

\* The rest of start: a clip that ends before it begins is reported to have
\* stopped, and the player stops it next; otherwise a chain of callbacks
\* begins, unless the renderer plays already.
Start ==
    /\ status = "prerolled" /\ played' = 0
    /\ IF EndsBeforeBegin
       THEN /\ status' = "refused" /\ ended' = TRUE
            /\ UNCHANGED <<dec, m_activated, m_post_stop_called, clock, position, ranout>>
       ELSE /\ status' = "playing" /\ ended' = FALSE
            /\ dec' = IF m_activated THEN dec ELSE StartFrame(dec, 0)
            /\ m_activated' = TRUE /\ m_post_stop_called' = FALSE
            /\ m_is_paused' = FALSE /\ m_epoch' = now - clip.begin
            /\ m_previous_clip_position' = None
            /\ ranout' = (ranout /\ m_activated)
            /\ UNCHANGED <<m_paused_epoch, m_last_frame_timestamp>>
    /\ UNCHANGED <<thread, clip, now, calls>>

\* stop: a node with fill=continue plays on.
Stop ==
    /\ status \in {"playing", "paused", "refused"}
    /\ m_activated' = (m_activated /\ clip.continue)
    /\ status' = "stopped" /\ played' = 0
    /\ UNCHANGED <<thread, dec, clip, m_post_stop_called, clock, position,
                   now, calls, ended, ranout>>

PostStop ==
    /\ status = "stopped"
    /\ m_post_stop_called' = TRUE
    /\ status' = "done"
    /\ UNCHANGED <<thread, dec, clip, m_activated, clock, position,
                   now, calls, played, ended, ranout>>

Pause ==
    /\ status = "playing" /\ calls < MaxCalls
    /\ IF m_activated /\ ~m_is_paused
       THEN m_is_paused' = TRUE /\ m_paused_epoch' = now
       ELSE UNCHANGED <<m_is_paused, m_paused_epoch>>
    /\ status' = "paused" /\ calls' = calls + 1
    /\ UNCHANGED <<thread, dec, clip, m_activated, m_post_stop_called, m_epoch,
                   position, now, played, ended, ranout>>

\* Mutant: the time of the pause counts as time played.
Resume_CountsPause ==
    /\ status = "paused"
    /\ m_is_paused' = (m_is_paused /\ ~m_activated)
    /\ status' = "playing"
    /\ UNCHANGED <<thread, dec, clip, m_activated, m_post_stop_called, m_epoch,
                   m_paused_epoch, position, now, calls, played, ended, ranout>>

Resume ==
    /\ status = "paused"
    /\ IF m_activated /\ m_is_paused
       THEN m_is_paused' = FALSE /\ m_epoch' = m_epoch + (now - m_paused_epoch)
       ELSE UNCHANGED <<m_is_paused, m_epoch>>
    /\ status' = "playing"
    /\ UNCHANGED <<thread, dec, clip, m_activated, m_post_stop_called,
                   m_paused_epoch, position, now, calls, played, ended, ranout>>

\* seek to time t of the file.
Seek(t) ==
    /\ status \in {"playing", "paused"} /\ calls < MaxCalls
    /\ dec' = SeekDecoder(dec, t) /\ SeekThread(dec, t)
    /\ calls' = calls + 1
    /\ UNCHANGED <<running, filepos, hand, eof_sent_to_clients, clip, m_activated,
                   m_post_stop_called, clock, position, now, status, played, ended, ranout>>

Next ==
    \/ ThreadSeek \/ ThreadRead \/ ThreadPush \/ ThreadEof
    \/ DecoderDataAvail \/ RendererDataAvail \/ Tick
    \/ \E c \in Clips : InitWithNode(c)
    \/ Preroll \/ Start \/ Stop \/ PostStop \/ Pause \/ Resume
    \/ \E t \in SeekTimes : Seek(t)

Spec == Init /\ [][Next]_vars

\* The thread and the event processor run, and time goes on.
FairSpec ==
    /\ Spec
    /\ WF_vars(Thread) /\ WF_vars(DecoderDataAvail) /\ WF_vars(RendererDataAvail)
    /\ WF_vars(Tick)
----------------------------------------------------------------------------
(* Properties *)

\* Every variable holds a value of its type, and the datasource's queue is
\* bounded.  The decoder's is not: start_frame restarts input although the
\* decoder is full.
TypeOK ==
    /\ filepos \in 0..NumFrames /\ hand \in Times
    /\ m_clip_begin \in Frames /\ clip \in Clips
    /\ {running, eof_sent_to_clients, m_clip_begin_changed, m_activated, m_post_stop_called, m_is_paused, ended, ranout} \subseteq BOOLEAN
    /\ dec.frames \in Seq(Frames) /\ dec.oldest \in Nat
    /\ Len(dec.src.frames) <= MAX_PACKETS_BUFFERED
    /\ dec.src.event \in Nat /\ dec.client \in BOOLEAN /\ dec.start_input \in BOOLEAN
    /\ m_last_frame_timestamp \in Times /\ m_previous_clip_position \in Times
    /\ now \in 0..MaxTime
    /\ status \in {"new", "reused", "prerolled", "playing", "refused", "paused", "stopped", "done"}

\* While the renderer is activated and has not come to the end of the file,
\* a callback to it is scheduled or waits for a frame: no order of starts,
\* stops, pauses, seeks and callbacks loses the last one.
ChainAlive ==
    m_activated /\ ~ranout => dec.client \/ dec.scheduled # EmptyBag

\* The renderer's clock shows where the clip began plus the time it played,
\* however pauses, stops and starts follow each other.
MediaClock ==
    m_activated /\ status \in {"playing", "paused"} => MediaNow = clip.begin + played

\* The client waits for a frame, and nothing will bring one: a packet's
\* callback found that a seek had taken the packet away.
Starved ==
    /\ dec.client /\ dec.start_input
    /\ ~dec.src.callback /\ dec.src.event = 0 /\ ~EndOfFile(dec.src)

\* Unless it starves, a client that waits for a frame is called back, at
\* the end of the file too.
WaiterCalled ==
    [](~Starved) => (dec.client ~> ~dec.client)

\* Unless it starves, a renderer that plays on comes to the end of its clip
\* or file and tells the player.  Not so one that is started again after the
\* end of the file: the chain of its callbacks ended there (ranout).
EndReported ==
    [](~Starved) =>
        (m_activated /\ status = "playing" /\ ~ranout
            ~> ended \/ ~m_activated \/ status # "playing")

\* "Now that we have gotten this callback we need to restart input at some
\* point": a renderer that plays does not wait forever for input that is to be
\* restarted.
InputRestarted ==
    dec.client /\ dec.start_input
        ~> ~dec.client \/ ~dec.start_input \/ status # "playing"
=============================================================================

--------------------------- MODULE DemuxDatasource ---------------------------
(***************************************************************************)
(* demux_datasource (net/demux_datasource.cpp): the queue of packets       *)
(* between the thread that reads a file and the decoder of one stream.     *)
(* Every operation holds m_lock throughout, and is given here as a         *)
(* function of the state of the datasource, a record:                      *)
(*   frames     m_frames, a sequence of packets with a field flag          *)
(*   src_eof    m_src_end_of_file                                          *)
(*   callback   m_client_callback # NULL                                   *)
(*   event      client callbacks that the event processor will serve       *)
(*   thread     m_thread # NULL                                            *)
(*   time       m_current_time                                             *)
(***************************************************************************)
EXTENDS Integers, Sequences

CONSTANT MAX_PACKETS_BUFFERED       \* capacity of m_frames

ASSUME BufferAssumption == MAX_PACKETS_BUFFERED \in Nat \ {0}

NoTime == -1
Flags == {"nodata", "avpacket", "flush", "eof"}

NewDatasource(clip_begin) ==
    [frames |-> <<>>, src_eof |-> FALSE, callback |-> FALSE, event |-> 0,
     thread |-> TRUE, time |-> clip_begin]

\* Mutant: one packet more than the queue may hold.
BufferFull_OffByOne(d) == Len(d.frames) > MAX_PACKETS_BUFFERED

BufferFull(d) == Len(d.frames) >= MAX_PACKETS_BUFFERED

EndOfFile(d) == d.src_eof /\ d.frames = <<>>

\* The result of push_data: a stopped datasource swallows the packet.
Accepts(d) == d.thread => ~BufferFull(d)

\* Mutant: a packet that arrives does not call the client back.
PushData_NoCallback(d, p) ==
    LET e == [d EXCEPT !.src_eof = (p.flag = "eof")]
    IN  IF d.thread /\ ~BufferFull(d)
        THEN [e EXCEPT !.frames = Append(@, p)]
        ELSE e

\* push_data: src_eof is set even if there is no room for the packet.
PushData(d, p) ==
    LET e == [d EXCEPT !.src_eof = (p.flag = "eof")]
    IN  IF d.thread /\ ~BufferFull(d)
        THEN [e EXCEPT !.frames = Append(@, p),
                       !.event = IF d.callback THEN @ + 1 ELSE @,
                       !.callback = FALSE]
        ELSE e

\* start: call back at once if there is something, or else when there is.
StartDatasource(d) ==
    IF d.frames # <<>> \/ EndOfFile(d)
    THEN [d EXCEPT !.event = @ + 1, !.callback = FALSE]
    ELSE [d EXCEPT !.callback = TRUE]

\* get_packet, called by the client when its callback is served.
TakePacket(d) ==
    IF d.frames = <<>>
    THEN [d EXCEPT !.event = @ - 1]
    ELSE [d EXCEPT !.event = @ - 1, !.frames = Tail(@), !.time = NoTime]

\* seek, once the thread has been told.
FlushDatasource(d, t) ==
    [d EXCEPT !.frames = <<>>, !.time = t, !.src_eof = FALSE]

\* The last part of stop.
CloseDatasource(d) ==
    [d EXCEPT !.callback = FALSE, !.frames = <<>>, !.time = NoTime]
=============================================================================

------------------------------ MODULE MCDemux ------------------------------
(* Constants of Demux for TLC. *)
EXTENDS Demux

\* Two streams that alternate, with a second packet of stream 1 in a row.
MCFile == <<1, 1, 2>>
=============================================================================

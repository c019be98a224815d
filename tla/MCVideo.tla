------------------------------ MODULE MCVideo ------------------------------
(* Constants of Video for TLC. *)
EXTENDS Video

\* The second clip begins where the first ends, the third after its end.
MCClips == {[begin |-> 0, end |-> 1, continue |-> TRUE],
            [begin |-> 1, end |-> None, continue |-> FALSE],
            [begin |-> 2, end |-> 1, continue |-> FALSE]}
=============================================================================

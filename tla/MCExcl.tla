------------------------------- MODULE MCExcl -------------------------------
(***************************************************************************)
(* Documents for TLC: every way to spread three children over at most two  *)
(* priority classes, in document order (built_priorities numbers the       *)
(* classes downwards), with every combination of priorityClass attributes. *)
(***************************************************************************)
EXTENDS Excl

CONSTANTS
    Fills,       \* fill behaviours considered, the same for all children
    Ends,        \* sets of children that are ended by an end attribute
    Skips,       \* sets of children whose expr is false
    Zeros        \* sets of children that begin with the excl

\* Attributes that no interrupt consults are kept at one value.
MCDocuments ==
    {[priority |-> prio, peers |-> peers, higher |-> higher, lower |-> lower,
      fill |-> [c \in Children |-> fill],
      explicitEnd |-> [c \in Children |-> c \in end],
      skipped |-> [c \in Children |-> c \in skip],
      timed   |-> [c \in Children |-> c # 2],
      atZero  |-> [c \in Children |-> c \in zero]] :
        prio   \in {p \in [Children -> Classes] :
                       \A c, d \in Children : c < d => p[c] >= p[d]},
        peers  \in [Classes -> {"stop", "pause", "defer", "never"}],
        higher \in {h \in [Classes -> {"stop", "pause"}] :
                       h[NumClasses - 1] = "stop"},
        lower  \in {l \in [Classes -> {"defer", "never"}] : l[0] = "defer"},
        fill \in Fills, end \in Ends, skip \in Skips, zero \in Zeros}
=============================================================================

----------------------------- MODULE MCTimeCalc -----------------------------
(* Constants of TimeCalc for TLC. *)
EXTENDS TimeCalc

AllAttributes ==
    {[dur |-> dur, end |-> end[1], endIndef |-> end[2], endEvents |-> end[3],
      rcount |-> rcount, rdur |-> rdur, min |-> bounds[1], max |-> bounds[2],
      implicit |-> implicit, last |-> 2, speed100 |-> 50, autoReverse |-> TRUE] :
        dur \in {None, Indefinite, Media, 0, 2},
        end \in {<<FALSE, FALSE, FALSE>>, <<TRUE, TRUE, FALSE>>,
                 <<TRUE, FALSE, FALSE>>, <<TRUE, FALSE, TRUE>>},
        rcount \in {None, 3, Indefinite}, rdur \in {None, 3},
        bounds \in {<<None, None>>, <<3, None>>, <<None, 1>>, <<3, 1>>, <<Unresolved, None>>},
        implicit \in {3, Unresolved}}

\* Every combination of the attributes that interact; what an end attribute
\* brings along is only varied where there is one, and the duration of the
\* media where it is used.
MCAttributes == {a \in AllAttributes : a.dur \in {0, 2} => a.implicit = 3}

MCBeginLists == {{-2}, {-2, 0}, {-2, 1}, {0, 1}, {0, Indefinite}}

MCEndLists == {EmptyBag, SetToBag({-1, 1}), SetToBag({-2, 1, 2}),
               SetToBag({1}) (+) SetToBag({1}), SetToBag({0})}

MCParentDurs == {1, Unresolved}

MCInstants == {0, 2}
=============================================================================

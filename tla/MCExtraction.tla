----------------------------- MODULE MCExtraction -----------------------------
(* Instances of Extraction for model checking. *)
EXTENDS Extraction, TLC

CONSTANTS r1, r2, r3

Ends(end) == [end |-> end, empty |-> FALSE]
Empty(end) == [end |-> end, empty |-> TRUE]

\* A file with an empty packet that goes on beyond its stated duration, one that
\* goes back before zero, and one whose only packet is empty.
ThreeFiles ==
    r1 :> <<Ends(1), Empty(2), Ends(4)>> @@ r2 :> <<Ends(1), Ends(-1)>> @@ r3 :> <<Empty(1)>>

\* The duration of the first file may be unknown.
ThreeDurations == r1 :> {0, 2} @@ r2 :> {2} @@ r3 :> {2}
=============================================================================

--------------------------- MODULE MCSubPicQueue ---------------------------
(* Small instances of SubPicQueue: the subtitle lists the providers hold.   *)
EXTENDS SubPicQueue, SubPicQueueProperties

MCUnknown == 100

Text(a, b) == [start |-> a, stop |-> b, animated |-> FALSE]
Moving(a, b) == [start |-> a, stop |-> b, animated |-> TRUE]

\* Two texts with a gap, long and short; a short text and its successor; an animation and a
\* text whose end is not known yet
OneTrack == {<<Text(0, 2), Text(3, 5)>>}
GapTrack == {<<Text(0, 1), Text(2, 3)>>}
ShortTrack == {<<Text(0, 1), Text(1, 2)>>}
AnimationText == {<<Moving(0, 2), Text(2, MCUnknown)>>}
=============================================================================

---------------------------- MODULE TimedBuffer ----------------------------
(***************************************************************************)
(* What a queue of pre-rendered pictures promises, told by the times at    *)
(* which its pictures stop being valid: at most Capacity of them, in time  *)
(* order.  Playback takes them from the front, an invalidation removes all *)
(* of those that end after its time and no other, and a new one goes to    *)
(* the end.                                                                *)
(***************************************************************************)
EXTENDS Integers, Sequences

CONSTANT Capacity

VARIABLE buf    \* the stop times

Init == buf = << >>

Put ==
    /\ Len(buf) < Capacity
    /\ Len(buf') = Len(buf) + 1
    /\ buf = SubSeq(buf', 1, Len(buf))
    /\ \A i \in 1 .. Len(buf) : buf[i] < buf'[Len(buf) + 1]

Take == \E k \in 1 .. Len(buf) : buf' = SubSeq(buf, k + 1, Len(buf))

Cut == \E rt \in {-1} \cup {buf[i] : i \in 1 .. Len(buf)}, k \in 0 .. Len(buf) :
    /\ \A i \in 1 .. Len(buf) : i <= k <=> buf[i] <= rt
    /\ buf' = SubSeq(buf, 1, k)

Next == Put \/ Take \/ Cut

Spec == Init /\ [][Next]_buf
============================================================================

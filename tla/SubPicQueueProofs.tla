------------------------- MODULE SubPicQueueProofs -------------------------
(* Proofs about CSubPicQueue for every value of the constants: its types   *)
(* and counters, its pictures, its condition variables, what a lookup      *)
(* returns, pictures that an edit outdated, and who waits for whom.        *)
EXTENDS SubPicQueueProperties, TLAPS

\* During a pass the worker has a provider, and while it renders a subtitle of it
Place ==
    /\ Rendering => wprov \in Provider
    /\ wpc = "pos" => pos >= 1
    /\ wpc \in {"render", "enqueue", "late"} =>
        pos \in 1 .. Len(track[wprov])
    /\ wpc \in {"enqueue", "block", "full"} => pic # NoPic

USE DEF shared, worker, lookup, history, vars

LEMMA LargerType == \A S, a, b : a \in S /\ b \in S => Larger(a, b) \in S /\ Smaller(a, b) \in S
  BY DEF Larger, Smaller

\* What the types of the constants give for a subtitle at a position of a track
LEMMA SubAt ==
    ASSUME NEW tr \in Tracks, NEW i \in 1 .. Len(tr)
    PROVE  tr[i] \in Sub /\ tr[i].start < tr[i].stop /\ tr[i].start < Unknown
  BY TrackAssumption

\* The picture the worker renders is a subpicture
LEMMA RenderedType ==
    ASSUME TypeOK, Place, wpc = "render", provider # NoProvider, NEW drawn \in BOOLEAN
    PROVE  Rendered(track[wprov][pos], drawn) \in SubPic
  <1> DEFINE sub == track[wprov][pos]
  <1>1. sub \in Sub /\ wprov \in Provider /\ provider \in Provider
    BY SubAt DEF TypeOK, Place, Rendering
  <1>2. wframe \in Nat /\ Span(wframe) \in Nat /\ cur \in Nat /\ Len(edits) \in Nat
    BY TimeAssumption DEF TypeOK
  <1>3. StopReal(sub) \in Nat
    BY <1>1, <1>2 DEF StopReal, Sub
  <1>4. Smaller(cur + Span(wframe), StopReal(sub)) \in Nat /\ Larger(cur + wframe, StopReal(sub)) \in Nat
    BY <1>2, <1>3 DEF Smaller, Larger
  <1>5. sub.start \in Nat /\ sub.animated \in BOOLEAN
    BY <1>1 DEF Sub
  <1> QED
    BY <1>1, <1>2, <1>3, <1>4, <1>5 DEF Rendered, SubPic

\* The end of a queue of subpictures is a time
LEMMA EndType ==
    ASSUME NEW q \in Seq(SubPic)
    PROVE  (IF q = << >> THEN -1 ELSE q[Len(q)].stop) \in Time
  <1>1. CASE q = << >>
    BY <1>1 DEF Time
  <1>2. CASE q # << >>
    <2>1. Len(q) \in 1 .. Len(q)
      BY <1>2
    <2>2. q[Len(q)] \in SubPic
      BY <2>1
    <2> QED
      BY <1>2, <2>2 DEF Time, SubPic
  <1> QED
    BY <1>1, <1>2

LEMMA TailStopType == TypeOK => TailStop \in Time
  BY EndType DEF TypeOK, TailStop

LEMMA InitType == Init => TypeOK /\ Place
  <1> SUFFICES ASSUME Init PROVE TypeOK /\ Place
    OBVIOUS
  <1>1. Place
    BY DEF Init, Place, Rendering
  <1>2. queue \in Seq(SubPic) /\ edits \in Seq(Time)
    BY DEF Init
  <1>3. pc \in [Thread -> {"idle"}] /\ arg \in [Thread -> Time]
    BY DEF Init, Time
  <1>4. now \in Nat /\ nowLast \in Time /\ rtInval \in Time /\ startRt \in Time
    BY DEF Init, Time
  <1>5. TypeOK
    BY <1>2, <1>3, <1>4, ThreadAssumption DEF Init, TypeOK, WorkerPlace, CallPlace
  <1> QED
    BY <1>1, <1>5

LEMMA NextType == TypeOK /\ Place /\ [Next]_vars => TypeOK' /\ Place'
  <1> SUFFICES ASSUME TypeOK, Place, [Next]_vars PROVE TypeOK' /\ Place'
    OBVIOUS
  <1> USE ThreadAssumption, TimeAssumption, NoPicAssumption DEF Thread, WorkerPlace, CallPlace
  <1>1. ASSUME NEW t \in Thread, InvalidatePurge(t) PROVE TypeOK' /\ Place'
    <2>1. queue' \in Seq(SubPic)
      BY <1>1 DEF InvalidatePurge, TypeOK
    <2>2. subPic' \in SubPic \cup {NoPic}
      BY <1>1 DEF InvalidatePurge, TypeOK
    <2>3. inval' \in BOOLEAN
      BY <1>1 DEF InvalidatePurge
    <2>4. lockQ' \in Thread \cup {Free}
      BY <1>1 DEF InvalidatePurge
    <2>5. rtInval' \in Time /\ nowLast' \in Time
      BY <1>1 DEF InvalidatePurge, TypeOK, Time
    <2>6. pc' \in [Thread -> CallPlace]
      BY <1>1 DEF InvalidatePurge, TypeOK
    <2>7. TypeOK'
      BY <1>1, <2>1, <2>2, <2>3, <2>4, <2>5, <2>6 DEF TypeOK, InvalidatePurge
    <2>8. Place'
      BY <1>1 DEF TypeOK, Place, Rendering, InvalidatePurge
    <2> QED
      BY <2>7, <2>8
  <1>2. ASSUME NEW t \in Thread, InvalidateLower(t) PROVE TypeOK' /\ Place'
    BY <1>2 DEF TypeOK, Place, Rendering, InvalidateLower, LowersNow, Time
  <1>3. ASSUME NEW t \in Thread, InvalidateSignal(t) PROVE TypeOK' /\ Place'
    BY <1>3 DEF TypeOK, Place, Rendering, InvalidateSignal, NotifyFull, SetEvent, Time
  <1>4. ASSUME NEW c \in Client, NEW p \in Provider \cup {NoProvider}, SetSubPicProvider(c, p) PROVE TypeOK' /\ Place'
    BY <1>4 DEF TypeOK, Place, Rendering, SetSubPicProvider, Time
  <1>5. ASSUME NEW c \in Client, NEW tr \in Tracks, NEW rt \in 0 .. MaxTime, EditSubtitles(c, tr, rt) PROVE TypeOK' /\ Place'
    BY <1>5 DEF TypeOK, Place, Rendering, EditSubtitles, Time
  <1>6. ASSUME NEW c \in Client, NEW f \in FrameTimes, SetFPS(c, f) PROVE TypeOK' /\ Place'
    BY <1>6 DEF TypeOK, Place, Rendering, SetFPS, SetEvent
  <1>7. ASSUME NEW c \in Client, Destroy(c) PROVE TypeOK' /\ Place'
    BY <1>7 DEF TypeOK, Place, Rendering, Destroy
  <1>8. ASSUME NEW c \in Client, DestroyProvider(c) PROVE TypeOK' /\ Place'
    BY <1>8 DEF TypeOK, Place, Rendering, DestroyProvider, Time
  <1>9. ASSUME NEW c \in Client, DestroyJoin(c) PROVE TypeOK' /\ Place'
    BY <1>9 DEF TypeOK, Place, Rendering, DestroyJoin
  <1>10. ASSUME NEW rt \in 0 .. MaxTime, SetTime(rt) PROVE TypeOK' /\ Place'
    BY <1>10 DEF TypeOK, Place, Rendering, SetTime
  <1>11. ASSUME SetTimeCheck PROVE TypeOK' /\ Place'
    BY <1>11 DEF TypeOK, Place, Rendering, SetTimeCheck, Time
  <1>12. ASSUME SetTimeStamp PROVE TypeOK' /\ Place'
    BY <1>12 DEF TypeOK, Place, Rendering, SetTimeStamp, SetEvent, Time
  <1>13. ASSUME LookupReuse PROVE TypeOK' /\ Place'
    <2>1. mayBlock' \in BOOLEAN
      BY <1>13, OptionAssumption DEF LookupReuse
    <2>2. res' \in SubPic \cup {NoPic} /\ subPic' \in SubPic \cup {NoPic}
      BY <1>13 DEF LookupReuse, TypeOK
    <2>3. pc' \in [Thread -> CallPlace]
      BY <1>13 DEF LookupReuse, TypeOK
    <2>4. TypeOK'
      BY <1>13, <2>1, <2>2, <2>3 DEF TypeOK, LookupReuse
    <2>5. Place'
      BY <1>13 DEF TypeOK, Place, Rendering, LookupReuse
    <2> QED
      BY <2>4, <2>5
  <1>14. ASSUME LookupSearch PROVE TypeOK' /\ Place'
    <2>1. queue' \in Seq(SubPic) /\ res' \in SubPic \cup {NoPic}
      <3>1. queue \in Seq(SubPic) /\ res \in SubPic \cup {NoPic}
        BY DEF TypeOK
      <3>2. \A i \in 1 .. Len(queue) : queue[i] \in SubPic
        BY <3>1
      <3>3. PICK k \in 1 .. Len(queue) + 1, c \in {res} \cup {queue[i] : i \in 1 .. Len(queue)} :
              \/ k <= Len(queue) /\ res' = queue[k] /\ queue' = SubSeq(queue, k + 1, Len(queue))
              \/ res' = c /\ queue' = SubSeq(queue, k, Len(queue))
        BY <1>14 DEF LookupSearch, Taken
      <3>4. c \in SubPic \cup {NoPic}
        BY <3>1, <3>2
      <3>5. Len(queue) \in Nat /\ k \in Nat /\ (k <= Len(queue) => k \in 1 .. Len(queue))
        BY <3>1
      <3>6. queue' \in Seq(SubPic)
        <4>1. SubSeq(queue, k, Len(queue)) \in Seq(SubPic)
          BY <3>1, <3>5
        <4>2. SubSeq(queue, k + 1, Len(queue)) \in Seq(SubPic)
          BY <3>1, <3>5
        <4> QED
          BY <3>3, <4>1, <4>2
      <3>7. res' \in SubPic \cup {NoPic}
        BY <3>2, <3>3, <3>4, <3>5
      <3> QED
        BY <3>6, <3>7
    <2>2. pc' \in [Thread -> CallPlace]
      BY <1>14 DEF LookupSearch, TypeOK
    <2>3. TypeOK'
      BY <1>14, <2>1, <2>2 DEF TypeOK, LookupSearch
    <2>4. Place'
      BY <1>14 DEF TypeOK, Place, Rendering, LookupSearch
    <2> QED
      BY <2>3, <2>4
  <1>15. ASSUME LookupFound PROVE TypeOK' /\ Place'
    BY <1>15 DEF TypeOK, Place, Rendering, LookupFound, NotifyFull, TryAgain
  <1>16. ASSUME LookupAsk PROVE TypeOK' /\ Place'
    BY <1>16 DEF TypeOK, Place, Rendering, LookupAsk
  <1>17. ASSUME LookupAwait PROVE TypeOK' /\ Place'
    BY <1>17 DEF TypeOK, Place, Rendering, LookupAwait
  <1>18. ASSUME LookupTimeout PROVE TypeOK' /\ Place'
    BY <1>18 DEF TypeOK, Place, Rendering, LookupTimeout
  <1>19. ASSUME LookupSave PROVE TypeOK' /\ Place'
    <2>1. mayBlock' \in BOOLEAN
      BY <1>19 DEF LookupSave
    <2>2. res' \in SubPic \cup {NoPic} /\ subPic' \in SubPic \cup {NoPic}
      BY <1>19 DEF LookupSave, TypeOK
    <2>3. pc' \in [Thread -> CallPlace]
      BY <1>19 DEF LookupSave, TypeOK
    <2>4. TypeOK'
      BY <1>19, <2>1, <2>2, <2>3 DEF TypeOK, LookupSave
    <2>5. Place'
      BY <1>19 DEF TypeOK, Place, Rendering, LookupSave
    <2> QED
      BY <2>4, <2>5
  <1>20. ASSUME RenderTop PROVE TypeOK' /\ Place'
    <2>1. waits' \in BOOLEAN
      BY <1>20 DEF RenderTop
    <2>2. wpc' \in WorkerPlace
      BY <1>20 DEF RenderTop
    <2>3. TypeOK'
      BY <1>20, <2>1, <2>2 DEF TypeOK, RenderTop
    <2>4. Place'
      BY <1>20 DEF TypeOK, Place, Rendering, RenderTop
    <2> QED
      BY <2>3, <2>4
  <1>21. ASSUME RenderWait PROVE TypeOK' /\ Place'
    <2>1. event' \in BOOLEAN
      BY <1>21 DEF RenderWait
    <2>2. wpc' \in WorkerPlace
      BY <1>21 DEF RenderWait
    <2>3. TypeOK'
      BY <1>21, <2>1, <2>2 DEF TypeOK, RenderWait
    <2>4. Place'
      BY <1>21 DEF TypeOK, Place, Rendering, RenderWait
    <2> QED
      BY <2>3, <2>4
  <1>22. ASSUME RenderFetch PROVE TypeOK' /\ Place'
    BY <1>22 DEF TypeOK, Place, Rendering, RenderFetch
  <1>23. ASSUME RenderLock PROVE TypeOK' /\ Place'
    <2>1. waits' \in BOOLEAN /\ inval' \in BOOLEAN
      BY <1>23 DEF RenderLock, TypeOK
    <2>2. wpc' \in WorkerPlace /\ wframe' \in FrameTimes
      BY <1>23 DEF RenderLock, TypeOK
    <2>3. TypeOK'
      BY <1>23, <2>1, <2>2 DEF TypeOK, RenderLock
    <2>4. Place'
      BY <1>23 DEF TypeOK, Place, Rendering, RenderLock
    <2> QED
      BY <2>3, <2>4
  <1>24. ASSUME RenderTail PROVE TypeOK' /\ Place'
    <2>1. startRt' \in Time
      BY <1>24, TailStopType DEF RenderTail
    <2>2. wpc' \in WorkerPlace
      BY <1>24 DEF RenderTail
    <2>3. TypeOK'
      BY <1>24, <2>1, <2>2 DEF TypeOK, RenderTail
    <2>4. Place'
      BY <1>24 DEF TypeOK, Place, Rendering, RenderTail, TailStop, Time
    <2> QED
      BY <2>3, <2>4
  <1>25. ASSUME RenderStart PROVE TypeOK' /\ Place'
    <2>1. waits' \in BOOLEAN
      BY <1>25 DEF RenderStart
    <2>2. startRt' \in Time
      BY <1>25 DEF RenderStart, TypeOK, Larger, Time
    <2>3. pos' \in Nat /\ wpc' \in WorkerPlace
      BY <1>25 DEF RenderStart
    <2>4. TypeOK'
      BY <1>25, <2>1, <2>2, <2>3 DEF TypeOK, RenderStart
    <2>5. Place'
      BY <1>25 DEF TypeOK, Place, Rendering, RenderStart, IsStartPosition, Time
    <2> QED
      BY <2>4, <2>5
  <1>26. ASSUME RenderPos PROVE TypeOK' /\ Place'
    <2>1. waits' \in BOOLEAN
      BY <1>26 DEF RenderPos, TypeOK
    <2>2. cur' \in Nat
      <3>1. CASE cur' = cur
        BY <3>1 DEF TypeOK
      <3>2. CASE /\ pos \in 1 .. Len(track[wprov])
                 /\ cur' = Larger(Larger(track[wprov][pos].start, startRt), now)
        <4>1. track[wprov][pos].start \in Nat
          BY <3>2, <1>26, SubAt DEF TypeOK, Place, Rendering, RenderPos, Sub
        <4> QED
          BY <3>2, <4>1 DEF TypeOK, Larger, Time
      <3> QED
        <4>1. pos >= 1 /\ pos \in Nat /\ Len(track[wprov]) \in Nat
          BY <1>26, TrackAssumption DEF TypeOK, Place, Rendering, RenderPos
        <4> QED
          BY <1>26, <3>1, <3>2, <4>1 DEF RenderPos
    <2>3. pos' \in Nat /\ wpc' \in WorkerPlace
      BY <1>26 DEF RenderPos, TypeOK, NextPos
    <2>4. TypeOK'
      BY <1>26, <2>1, <2>2, <2>3 DEF TypeOK, RenderPos
    <2>5. Place'
      BY <1>26 DEF TypeOK, Place, Rendering, RenderPos, NextPos
    <2> QED
      BY <2>4, <2>5
  <1>27. ASSUME RenderPicture PROVE TypeOK' /\ Place'
    <2>1. pic' \in SubPic
      BY <1>27, RenderedType DEF RenderPicture
    <2>2. cur' \in Nat
      BY <1>27, SubAt DEF RenderPicture, TypeOK, Sub, StopReal, Smaller, Place, Rendering
    <2>3. TypeOK'
      BY <1>27, <2>1, <2>2 DEF TypeOK, RenderPicture
    <2>4. Place'
      BY <1>27, <2>1 DEF TypeOK, Place, Rendering, RenderPicture
    <2> QED
      BY <2>3, <2>4
  <1>28. ASSUME NEW why, RenderFails(why) PROVE TypeOK' /\ Place'
    <2>1. pic' \in SubPic \cup {NoPic}
      BY <1>28, RenderedType DEF RenderFails, TypeOK
    <2>2. pos' = pos + 1 /\ wpc' = "pos"
      BY <1>28 DEF RenderFails, NextPos
    <2>3. TypeOK'
      <3>1. UNCHANGED <<shared, wprov, wframe, waits, startRt, cur, pc, arg, lookup, history>>
        BY <1>28 DEF RenderFails
      <3> QED
        BY <2>1, <2>2, <3>1 DEF TypeOK
    <2>4. Place'
      BY <1>28 DEF TypeOK, Place, Rendering, RenderFails, NextPos
    <2> QED
      BY <2>3, <2>4
  <1>29. ASSUME RenderEnqueue PROVE TypeOK' /\ Place'
    <2>1. queue' \in Seq(SubPic) /\ pic' \in SubPic \cup {NoPic}
      <3>1. pic \in SubPic /\ queue \in Seq(SubPic)
        BY <1>29 DEF RenderEnqueue, TypeOK, Place
      <3>2. \/ queue' = queue /\ pic' \in {pic, NoPic}
            \/ queue' = Append(queue, pic) /\ pic' = NoPic
        BY <1>29 DEF RenderEnqueue, Add
      <3> QED
        BY <3>1, <3>2
    <2>2. wpc' \in WorkerPlace
      BY <1>29 DEF RenderEnqueue, GiveUp
    <2>3. TypeOK'
      BY <1>29, <2>1, <2>2 DEF TypeOK, RenderEnqueue
    <2>4. Place'
      BY <1>29 DEF TypeOK, Place, Rendering, RenderEnqueue, Add, GiveUp
    <2> QED
      BY <2>3, <2>4
  <1>30. ASSUME RenderLate PROVE TypeOK' /\ Place'
    <2>1. cur' \in Nat /\ pos' \in Nat
      BY <1>30 DEF RenderLate, TypeOK, NextPos, Larger
    <2>2. pc' \in [Thread -> CallPlace]
      BY <1>30 DEF RenderLate, TypeOK, NotifyReady
    <2>3. wpc' \in WorkerPlace
      BY <1>30 DEF RenderLate, NextPos
    <2>4. TypeOK'
      BY <1>30, <2>1, <2>2, <2>3 DEF TypeOK, RenderLate
    <2>5. Place'
      BY <1>30 DEF TypeOK, Place, Rendering, RenderLate, NotifyReady, NextPos
    <2> QED
      BY <2>4, <2>5
  <1>31. ASSUME RenderUnlock PROVE TypeOK' /\ Place'
    <2>1. wprov' \in Provider \cup {NoProvider} /\ startRt' \in Time
      BY <1>31 DEF RenderUnlock, Time
    <2>2. wpc' \in WorkerPlace
      BY <1>31 DEF RenderUnlock
    <2>3. TypeOK'
      BY <1>31, <2>1, <2>2 DEF TypeOK, RenderUnlock
    <2>4. Place'
      BY <1>31 DEF TypeOK, Place, Rendering, RenderUnlock
    <2> QED
      BY <2>3, <2>4
  <1>32. ASSUME RenderBlock PROVE TypeOK' /\ Place'
    <2>1. queue' \in Seq(SubPic) /\ pic' \in SubPic \cup {NoPic}
      <3>1. pic \in SubPic /\ queue \in Seq(SubPic)
        BY <1>32 DEF RenderBlock, TypeOK, Place
      <3>2. \/ queue' = queue /\ pic' \in {pic, NoPic}
            \/ queue' = Append(queue, pic) /\ pic' = NoPic
        BY <1>32 DEF RenderBlock, Add
      <3> QED
        BY <3>1, <3>2
    <2>2. wpc' \in WorkerPlace
      BY <1>32 DEF RenderBlock
    <2>3. TypeOK'
      BY <1>32, <2>1, <2>2 DEF TypeOK, RenderBlock
    <2>4. Place'
      BY <1>32 DEF TypeOK, Place, Rendering, RenderBlock, Add
    <2> QED
      BY <2>3, <2>4
  <1>33. ASSUME RenderNotify PROVE TypeOK' /\ Place'
    BY <1>33 DEF TypeOK, Place, Rendering, RenderNotify, NotifyReady
  <1>34. CASE UNCHANGED vars
    BY <1>34 DEF TypeOK, Place, Rendering
  <1> QED
    BY <1>1, <1>2, <1>3, <1>4, <1>5, <1>6, <1>7, <1>8, <1>9, <1>10, <1>11, <1>12, <1>13, <1>14, <1>15, <1>16, <1>17, <1>18, <1>19, <1>20, <1>21, <1>22, <1>23, <1>24, <1>25, <1>26, <1>27, <1>28, <1>29, <1>30, <1>31, <1>32, <1>33, <1>34 DEF Next, ClientCall, ClientStep, RendererStep, LookupStep, WorkerStep, Invalidate

THEOREM TypeCorrect == Spec => []TypeOK
  <1>1. TypeOK /\ Place /\ [Next]_vars => (TypeOK /\ Place)'
    BY NextType
  <1> QED
    BY InitType, <1>1, PTL DEF Spec

----------------------------------------------------------------------------
(* The order of the queue.  What the worker renders next must end after     *)
(* everything queued; the other threads only take from the queue.           *)

\* The queue ends before the subtitles from position k on, or where the pass started
RestAfter(k) == \A i \in k .. Len(track[wprov]) :
    TailStop <= startRt \/ TailStop <= track[wprov][i].start

OrderInv ==
    /\ QueueBounded /\ StopsAscend
    /\ pic # NoPic => TailStop < pic.stop
    /\ wpc = "start" => TailStop <= startRt
    /\ wpc = "pos" => RestAfter(pos)
    /\ wpc \in {"render", "enqueue", "late"} => RestAfter(pos + 1)
    /\ wpc \in {"render", "late"} => TailStop <= cur
    /\ wpc = "render" => cur < track[wprov][pos].stop
    /\ wpc = "enqueue" =>
        /\ pic.stop <= cur
        /\ \A i \in pos + 1 .. Len(track[wprov]) : pic.stop <= track[wprov][i].start

\* A contiguous part of the queue is in order and ends no later
LEMMA PartInOrder ==
    ASSUME TypeOK, QueueBounded, StopsAscend, NEW a \in Nat \ {0}, NEW b \in Nat, b <= Len(queue),
           queue' = SubSeq(queue, a, b)
    PROVE  QueueBounded' /\ StopsAscend' /\ TailStop' <= TailStop
  <1>1. queue \in Seq(SubPic) /\ Len(queue) \in Nat /\ Size \in Nat
    BY SizeAssumption DEF TypeOK
  <1>2. CASE b < a
    <2>1. queue' = << >>
      BY <1>1, <1>2
    <2>2. TailStop' = -1
      BY <2>1 DEF TailStop
    <2> QED
      BY <1>1, <2>1, <2>2, TailStopType DEF QueueBounded, StopsAscend, Time
  <1>3. CASE a <= b
    <2>1. Len(queue') = b - a + 1 /\ \A i \in 1 .. Len(queue') : queue'[i] = queue[a + i - 1]
      BY <1>1, <1>3
    <2>2. TailStop' = queue[b].stop
      <3>1. queue' # << >> /\ queue'[Len(queue')] = queue[b]
        BY <1>1, <1>3, <2>1
      <3> QED
        BY <3>1 DEF TailStop
    <2>3. TailStop = queue[Len(queue)].stop
      BY <1>1, <1>3 DEF TailStop
    <2>4. \A i \in 1 .. Len(queue) : queue[i].stop \in Nat
      <3>1. \A i \in 1 .. Len(queue) : queue[i] \in SubPic
        BY <1>1
      <3> QED
        BY <3>1 DEF SubPic
    <2>5. TailStop' <= TailStop
      BY <1>1, <1>3, <2>2, <2>3, <2>4 DEF StopsAscend
    <2>6. StopsAscend'
      <3> SUFFICES ASSUME NEW i \in 1 .. Len(queue'), NEW j \in 1 .. Len(queue'), i < j
                   PROVE  queue'[i].stop < queue'[j].stop
        BY DEF StopsAscend
      <3>1. a + i - 1 \in 1 .. Len(queue) /\ a + j - 1 \in 1 .. Len(queue) /\ a + i - 1 < a + j - 1
        BY <1>1, <1>3, <2>1
      <3> QED
        BY <2>1, <3>1 DEF StopsAscend
    <2>7. QueueBounded'
      BY <1>1, <1>3, <2>1 DEF QueueBounded
    <2> QED
      BY <2>5, <2>6, <2>7
  <1> QED
    BY <1>2, <1>3, <1>1

\* The subtitles of the provider the worker renders
LEMMA TrackFacts ==
    ASSUME TypeOK, Place, Rendering
    PROVE  /\ track[wprov] \in Seq(Sub) /\ Len(track[wprov]) \in Nat
           /\ \A i \in 1 .. Len(track[wprov]) :
                /\ track[wprov][i].start \in Nat /\ track[wprov][i].stop \in Nat
                /\ track[wprov][i].animated \in BOOLEAN
                /\ track[wprov][i].start < Unknown
           /\ \A i, j \in 1 .. Len(track[wprov]) :
                i < j => track[wprov][i].stop <= track[wprov][j].start
  <1>1. track[wprov] \in Tracks
    BY DEF TypeOK, Place
  <1>2. \A i \in 1 .. Len(track[wprov]) : track[wprov][i] \in Sub
    BY <1>1, SubAt
  <1> QED
    BY <1>1, <1>2, TrackAssumption DEF Sub

\* A step of another thread, which leaves the worker's locals and its provider's
\* subtitles alone and at most takes from the queue, preserves the order
LEMMA OthersKeepOrder ==
    ASSUME TypeOK, TypeOK', Place, OrderInv, QueueBounded', StopsAscend', TailStop' <= TailStop,
           UNCHANGED <<wprov, startRt, pos, cur, pic>>,
           Rendering => track'[wprov] = track[wprov],
           wpc' = wpc \/ wpc' = "block"
    PROVE  OrderInv'
  <1>1. TailStop \in Int /\ TailStop' \in Int
    BY EndType DEF Time, TypeOK, TailStop
  <1>2. startRt \in Int /\ cur \in Int /\ pos \in Nat
    BY DEF TypeOK, Time
  <1>3. pic # NoPic => pic.stop \in Nat
    BY DEF TypeOK, SubPic
  <1>4. (pic # NoPic => TailStop < pic.stop)'
    BY <1>1, <1>3 DEF OrderInv
  <1>5. (wpc = "start" => TailStop <= startRt)'
    BY <1>1, <1>2 DEF OrderInv
  <1>6. (wpc \in {"render", "late"} => TailStop <= cur)'
    BY <1>1, <1>2 DEF OrderInv
  <1>7. ASSUME Rendering, NEW k \in Nat \ {0}, RestAfter(k) PROVE RestAfter(k)'
    <2> SUFFICES ASSUME NEW i \in k .. Len(track[wprov])
                 PROVE  TailStop' <= startRt \/ TailStop' <= track[wprov][i].start
      BY <1>7 DEF RestAfter
    <2>1. track[wprov][i].start \in Nat
      BY <1>7, TrackFacts
    <2> QED
      BY <1>1, <1>2, <1>7, <2>1 DEF RestAfter
  <1>8. (wpc = "pos" => RestAfter(pos))'
    BY <1>2, <1>7 DEF OrderInv, Place, Rendering
  <1>9. (wpc \in {"render", "enqueue", "late"} => RestAfter(pos + 1))'
    BY <1>2, <1>7 DEF OrderInv, Rendering
  <1>10. (wpc = "render" => cur < track[wprov][pos].stop)'
    BY DEF OrderInv, Rendering
  <1>11. (wpc = "enqueue" =>
            /\ pic.stop <= cur
            /\ \A i \in pos + 1 .. Len(track[wprov]) : pic.stop <= track[wprov][i].start)'
    BY DEF OrderInv, Rendering
  <1> QED
    BY <1>4, <1>5, <1>6, <1>8, <1>9, <1>10, <1>11 DEF OrderInv

LEMMA InitOrder == Init => OrderInv
  BY SizeAssumption DEF Init, OrderInv, QueueBounded, StopsAscend

\* What the worker renders at cur ends after cur and where its next start is, and
\* before the provider's later subtitles
LEMMA RenderedStop ==
    ASSUME TypeOK, Place, wpc = "render", cur < track[wprov][pos].stop, NEW drawn
    PROVE  LET sub == track[wprov][pos]
               stop == Rendered(sub, drawn).stop
           IN  /\ cur < stop
               /\ stop <= IF sub.animated
                            THEN Smaller(cur + SubFrame(wframe), StopReal(sub)) ELSE StopReal(sub)
               /\ \A i \in pos + 1 .. Len(track[wprov]) : stop <= track[wprov][i].start
  <1> DEFINE sub == track[wprov][pos]
             stop == Rendered(sub, drawn).stop
  <1>1. /\ wframe \in Nat \ {0} /\ SubFrame(wframe) \in Nat
        /\ Span(wframe) \in 1 .. SubFrame(wframe) /\ cur \in Nat /\ Unknown \in Nat
    BY TimeAssumption DEF TypeOK
  <1>2. pos \in 1 .. Len(track[wprov]) /\ sub.stop \in Nat /\ sub.animated \in BOOLEAN
    BY TrackFacts DEF Place, Rendering
  <1>3. StopReal(sub) \in Nat /\ cur < StopReal(sub)
    BY <1>1, <1>2 DEF StopReal
  <1>4. stop = IF sub.animated THEN Smaller(cur + Span(wframe), StopReal(sub)) ELSE StopReal(sub)
    BY DEF Rendered
  <1>5. stop \in Nat /\ cur < stop /\ stop <= StopReal(sub)
    BY <1>1, <1>2, <1>3, <1>4 DEF Smaller
  <1>6. sub.animated => stop <= Smaller(cur + SubFrame(wframe), StopReal(sub))
    BY <1>1, <1>3, <1>4 DEF Smaller
  <1>7. ASSUME NEW i \in pos + 1 .. Len(track[wprov]) PROVE stop <= track[wprov][i].start
    <2>1. i \in 1 .. Len(track[wprov]) /\ pos < i
      BY <1>2
    <2>2. /\ track[wprov][i].start \in Nat /\ track[wprov][i].start < Unknown
          /\ sub.stop <= track[wprov][i].start
      BY <1>2, <2>1, TrackFacts DEF Rendering
    <2>3. StopReal(sub) = sub.stop
      BY <1>1, <1>2, <2>2 DEF StopReal
    <2> QED
      BY <1>2, <1>5, <2>2, <2>3
  <1> QED
    BY <1>4, <1>5, <1>6, <1>7

\* What the worker adds ends after everything queued
LEMMA AddInOrder ==
    ASSUME TypeOK, QueueBounded, StopsAscend, Room, pic \in SubPic, TailStop < pic.stop,
           queue' = Append(queue, pic)
    PROVE  QueueBounded' /\ StopsAscend' /\ TailStop' = pic.stop
  <1>1. queue \in Seq(SubPic) /\ Len(queue) \in Nat /\ Size \in Nat
    BY SizeAssumption DEF TypeOK
  <1>2. /\ Len(queue') = Len(queue) + 1 /\ queue'[Len(queue) + 1] = pic
        /\ \A i \in 1 .. Len(queue) : queue'[i] = queue[i]
    BY <1>1
  <1>3. QueueBounded'
    BY <1>1, <1>2 DEF QueueBounded, Room
  <1>4. TailStop' = pic.stop
    BY <1>1, <1>2 DEF TailStop
  <1>5. \A i \in 1 .. Len(queue) : queue[i].stop \in Nat /\ queue[i].stop <= TailStop
    <2> SUFFICES ASSUME NEW i \in 1 .. Len(queue) PROVE queue[i].stop \in Nat /\ queue[i].stop <= TailStop
      OBVIOUS
    <2>1. queue[i] \in SubPic /\ queue[Len(queue)] \in SubPic /\ queue # << >>
      BY <1>1
    <2>2. queue[i].stop \in Nat /\ queue[Len(queue)].stop \in Nat
      BY <2>1 DEF SubPic
    <2>3. i = Len(queue) \/ queue[i].stop < queue[Len(queue)].stop
      BY <1>1 DEF StopsAscend
    <2> QED
      BY <2>1, <2>2, <2>3 DEF TailStop
  <1>6. StopsAscend'
    <2> SUFFICES ASSUME NEW i \in 1 .. Len(queue'), NEW j \in 1 .. Len(queue'), i < j
                 PROVE  queue'[i].stop < queue'[j].stop
      BY DEF StopsAscend
    <2>1. CASE j = Len(queue) + 1
      <3>1. i \in 1 .. Len(queue)
        BY <1>1, <1>2, <2>1
      <3>2. pic.stop \in Nat
        BY DEF SubPic
      <3>3. TailStop \in Int
        BY TailStopType DEF Time
      <3> QED
        BY <1>2, <1>5, <2>1, <3>1, <3>2, <3>3
    <2>2. CASE j \in 1 .. Len(queue)
      BY <1>1, <1>2, <2>2 DEF StopsAscend
    <2> QED
      BY <1>1, <1>2, <2>1, <2>2
  <1> QED
    BY <1>3, <1>4, <1>6
\* Every step preserves the order
LEMMA NextOrder == TypeOK /\ TypeOK' /\ Place /\ Place' /\ OrderInv /\ [Next]_vars => OrderInv'
  <1> SUFFICES ASSUME TypeOK, TypeOK', Place, Place', OrderInv, [Next]_vars PROVE OrderInv'
    OBVIOUS
  <1>a. TailStop \in Int /\ TailStop' \in Int
    <2>1. queue \in Seq(SubPic) /\ queue' \in Seq(SubPic)
      BY DEF TypeOK
    <2> QED
      BY <2>1, EndType DEF Time, TailStop
  <1>b. QueueBounded /\ StopsAscend
    BY DEF OrderInv
  <1>c. ASSUME queue' = queue PROVE QueueBounded' /\ StopsAscend' /\ TailStop' = TailStop
    BY <1>b, <1>c DEF QueueBounded, StopsAscend, TailStop
  <1>d. ASSUME queue' = queue, UNCHANGED <<wprov, startRt, pos, cur, pic>>,
               Rendering => track'[wprov] = track[wprov],
               wpc' = wpc \/ wpc' = "block"
        PROVE  OrderInv'
    BY <1>a, <1>c, <1>d, OthersKeepOrder
  <1>1. ASSUME NEW t \in Thread, InvalidatePurge(t) PROVE OrderInv'
    <2>1. PICK k \in 0 .. Len(queue) : queue' = SubSeq(queue, 1, k)
      BY <1>1 DEF InvalidatePurge
    <2>2. k \in Nat /\ k <= Len(queue)
      BY DEF TypeOK
    <2>3. QueueBounded' /\ StopsAscend' /\ TailStop' <= TailStop
      BY <1>b, <2>1, <2>2, PartInOrder
    <2> QED
      BY <1>1, <2>3, OthersKeepOrder DEF InvalidatePurge
  <1>2. ASSUME LookupSearch PROVE OrderInv'
    <2>1. PICK n \in 1 .. Len(queue) + 1 :
            queue' = SubSeq(queue, n, Len(queue)) \/ queue' = SubSeq(queue, n + 1, Len(queue))
      BY <1>2 DEF LookupSearch
    <2>2. n \in Nat \ {0} /\ n + 1 \in Nat \ {0} /\ Len(queue) \in Nat /\ Len(queue) <= Len(queue)
      BY DEF TypeOK
    <2>3. QueueBounded' /\ StopsAscend' /\ TailStop' <= TailStop
      <3>1. CASE queue' = SubSeq(queue, n, Len(queue))
        BY <1>b, <2>2, <3>1, PartInOrder
      <3>2. CASE queue' = SubSeq(queue, n + 1, Len(queue))
        BY <1>b, <2>2, <3>2, PartInOrder
      <3> QED
        BY <2>1, <3>1, <3>2
    <2> QED
      BY <1>2, <2>3, OthersKeepOrder DEF LookupSearch
  <1>3. ASSUME NEW c \in Client, NEW tr \in Tracks, NEW rt \in 0 .. MaxTime, EditSubtitles(c, tr, rt)
        PROVE  OrderInv'
    <2>1. Rendering => track'[wprov] = track[wprov]
      BY <1>3 DEF EditSubtitles, TypeOK, Place
    <2> QED
      BY <1>3, <1>d, <2>1 DEF EditSubtitles
  <1>4. ASSUME NEW t \in Thread, InvalidateLower(t) \/ InvalidateSignal(t) PROVE OrderInv'
    BY <1>4, <1>d DEF InvalidateLower, InvalidateSignal, NotifyFull
  <1>5. ASSUME NEW c \in Client,
               \/ \E p \in Provider \cup {NoProvider} : SetSubPicProvider(c, p)
               \/ \E f \in FrameTimes : SetFPS(c, f)
               \/ Destroy(c) \/ DestroyProvider(c) \/ DestroyJoin(c)
        PROVE  OrderInv'
    BY <1>5, <1>d DEF SetSubPicProvider, SetFPS, Destroy, DestroyProvider, DestroyJoin
  <1>6. ASSUME (\E rt \in 0 .. MaxTime : SetTime(rt)) \/ SetTimeCheck \/ SetTimeStamp PROVE OrderInv'
    BY <1>6, <1>d DEF SetTime, SetTimeCheck, SetTimeStamp
  <1>7. ASSUME \/ LookupReuse \/ LookupFound \/ LookupAsk \/ LookupAwait \/ LookupTimeout \/ LookupSave
        PROVE  OrderInv'
    BY <1>7, <1>d DEF LookupReuse, LookupFound, NotifyFull, LookupAsk, LookupAwait,
                      LookupTimeout, LookupSave
  <1>8. ASSUME RenderTop \/ RenderWait \/ RenderFetch \/ RenderLock PROVE OrderInv'
    <2>1. queue' = queue /\ pic' = pic
          /\ wpc' \notin {"start", "pos", "render", "enqueue", "late"}
      BY <1>8 DEF RenderTop, RenderWait, RenderFetch, RenderLock
    <2> QED
      BY <2>1, <1>c DEF OrderInv
  <1>9. ASSUME RenderTail PROVE OrderInv'
    <2>1. queue' = queue /\ pic' = pic /\ wpc' = "start" /\ startRt' = TailStop
      BY <1>9 DEF RenderTail
    <2> QED
      BY <1>a, <2>1, <1>c DEF OrderInv
  <1>10. ASSUME RenderStart PROVE OrderInv'
    <2>1. /\ queue' = queue /\ pic' = pic /\ wpc' \in {"unlock", "pos"}
          /\ startRt' = Larger(startRt, now) /\ TailStop <= startRt
      BY <1>10 DEF RenderStart, OrderInv
    <2>2. TailStop' <= startRt'
      BY <1>a, <1>c, <2>1 DEF Larger, TypeOK, Time
    <2> QED
      BY <2>1, <2>2, <1>c DEF OrderInv, RestAfter
  <1>11. ASSUME RenderPos PROVE OrderInv'
    <2>1. /\ queue' = queue /\ pic' = pic /\ wprov' = wprov /\ track' = track /\ startRt' = startRt
          /\ RestAfter(pos)
      BY <1>11 DEF RenderPos, OrderInv
    <2>2. CASE wpc' = "unlock"
      BY <2>1, <2>2, <1>c DEF OrderInv
    <2>3. CASE wpc' = "pos"
      <3>1. pos' = pos + 1
        BY <1>11, <2>3 DEF RenderPos, NextPos
      <3>2. RestAfter(pos)'
        BY <2>1, <3>1, <1>c DEF RestAfter, TypeOK
      <3> QED
        BY <2>1, <2>3, <3>2, <1>c DEF OrderInv
    <2>4. CASE wpc' = "render"
      <3> DEFINE sub == track[wprov][pos]
      <3>1. /\ pos' = pos /\ pos \in 1 .. Len(track[wprov]) /\ cur' < sub.stop
            /\ cur' = Larger(Larger(sub.start, startRt), now)
        BY <1>11, <2>4, TrackFacts DEF RenderPos, NextPos, Place, Rendering, TypeOK
      <3>2. sub.start \in Nat
        BY <1>11, <3>1, TrackFacts DEF RenderPos, Rendering
      <3>3. startRt <= cur' /\ sub.start <= cur'
        BY <3>1, <3>2 DEF Larger, TypeOK, Time
      <3>4. TailStop <= cur'
        <4>1. TailStop <= startRt \/ TailStop <= sub.start
          BY <2>1, <3>1 DEF RestAfter
        <4>2. startRt \in Int /\ cur' \in Int
          BY DEF TypeOK, Time
        <4> QED
          BY <1>a, <3>2, <3>3, <4>1, <4>2
      <3>5. RestAfter(pos + 1)'
        BY <2>1, <3>1, <1>c DEF RestAfter
      <3> QED
        BY <2>1, <2>4, <3>1, <3>4, <3>5, <1>c DEF OrderInv
    <2> QED
      BY <1>11, <2>2, <2>3, <2>4 DEF RenderPos, NextPos
  <1>12. ASSUME RenderPicture PROVE OrderInv'
    <2> DEFINE sub == track[wprov][pos]
    <2>1. /\ queue' = queue /\ wprov' = wprov /\ track' = track /\ startRt' = startRt /\ pos' = pos
          /\ RestAfter(pos + 1) /\ cur < sub.stop /\ TailStop <= cur /\ wpc = "render" /\ wpc' = "enqueue"
          /\ pic' = Rendered(sub, TRUE)
          /\ cur' = IF sub.animated
                      THEN Smaller(cur + SubFrame(wframe), StopReal(sub)) ELSE StopReal(sub)
      BY <1>12 DEF RenderPicture, OrderInv
    <2>2. /\ cur < pic'.stop /\ pic'.stop <= cur'
          /\ \A i \in pos + 1 .. Len(track[wprov]) : pic'.stop <= track[wprov][i].start
      BY <2>1, RenderedStop
    <2>3. pic'.stop \in Nat
      BY <2>1, RenderedType, <1>12 DEF RenderPicture, SubPic
    <2>4. TailStop < pic'.stop
      <3>1. cur \in Nat
        BY DEF TypeOK
      <3>2. TailStop <= cur
        BY <2>1
      <3> QED
        BY <1>a, <2>2, <2>3, <3>1, <3>2
    <2>5. RestAfter(pos + 1)'
      BY <2>1, <1>c DEF RestAfter
    <2> QED
      BY <2>1, <2>2, <2>4, <2>5, <1>c DEF OrderInv
  <1>13. ASSUME NEW why, RenderFails(why) PROVE OrderInv'
    <2> DEFINE sub == track[wprov][pos]
    <2>1. /\ queue' = queue /\ wprov' = wprov /\ track' = track /\ startRt' = startRt /\ pos' = pos + 1
          /\ RestAfter(pos + 1) /\ cur < sub.stop /\ TailStop <= cur /\ wpc = "render" /\ wpc' = "pos"
          /\ pic' \in {pic, NoPic} \/ (pic' = Rendered(sub, FALSE) /\ provider # NoProvider)
      BY <1>13 DEF RenderFails, NextPos, OrderInv
    <2>2. pic' # NoPic => TailStop < pic'.stop
      <3>1. CASE pic' = Rendered(sub, FALSE) /\ provider # NoProvider
        <4>1. cur < pic'.stop
          BY <2>1, <3>1, RenderedStop
        <4>2. pic'.stop \in Nat
          BY <2>1, <3>1, RenderedType DEF SubPic
        <4> QED
          BY <1>a, <2>1, <4>1, <4>2 DEF TypeOK
      <3> QED
        BY <2>1, <3>1 DEF OrderInv
    <2>3. RestAfter(pos)'
      BY <2>1, <1>c DEF RestAfter
    <2> QED
      BY <2>1, <2>2, <2>3, <1>c DEF OrderInv
  <1>14. ASSUME RenderEnqueue PROVE OrderInv'
    <2>1. /\ wprov' = wprov /\ track' = track /\ startRt' = startRt /\ pos' = pos /\ cur' = cur
          /\ wpc = "enqueue" /\ wpc' \in {"unlock", "late"}
          /\ pic.stop <= cur /\ TailStop < pic.stop
          /\ \A i \in pos + 1 .. Len(track[wprov]) : pic.stop <= track[wprov][i].start
          /\ pic \in SubPic
      BY <1>14 DEF RenderEnqueue, GiveUp, OrderInv, Place, TypeOK
    <2>2. CASE queue' = queue /\ pic' \in {pic, NoPic} /\ wpc' = "unlock"
      BY <2>1, <2>2, <1>c DEF OrderInv
    <2>3. CASE Room /\ queue' = Append(queue, pic) /\ pic' = NoPic /\ wpc' = "late"
      <3>1. QueueBounded' /\ StopsAscend' /\ TailStop' = pic.stop
        BY <1>b, <2>1, <2>3, AddInOrder
      <3>2. RestAfter(pos + 1)'
        BY <2>1, <3>1 DEF RestAfter
      <3> QED
        BY <2>1, <2>3, <3>1, <3>2 DEF OrderInv
    <2> QED
      BY <1>14, <2>2, <2>3 DEF RenderEnqueue, Add, GiveUp
  <1>15. ASSUME RenderLate PROVE OrderInv'
    <2>1. /\ queue' = queue /\ pic' = pic /\ wprov' = wprov /\ track' = track /\ startRt' = startRt
          /\ RestAfter(pos + 1) /\ TailStop <= cur /\ cur' = Larger(cur, now)
          /\ \/ wpc' = "render" /\ pos' = pos /\ cur' < track[wprov][pos].stop
             \/ wpc' = "pos" /\ pos' = pos + 1
      BY <1>15 DEF RenderLate, NextPos, OrderInv
    <2>2. TailStop <= cur'
      BY <1>a, <2>1 DEF Larger, TypeOK
    <2>3. (wpc = "pos" => RestAfter(pos))' /\ (wpc = "render" => RestAfter(pos + 1))'
      BY <2>1, <1>c DEF RestAfter
    <2> QED
      BY <2>1, <2>2, <2>3, <1>c DEF OrderInv
  <1>16. ASSUME RenderUnlock \/ RenderNotify PROVE OrderInv'
    <2>1. queue' = queue /\ pic' = pic /\ wpc' \in {"top", "block"}
      BY <1>16 DEF RenderUnlock, RenderNotify
    <2> QED
      BY <2>1, <1>c DEF OrderInv
  <1>17. ASSUME RenderBlock PROVE OrderInv'
    <2>1. /\ wpc = "block" /\ wpc' \in {"top", "notify", "full"} /\ TailStop < pic.stop /\ pic \in SubPic
      BY <1>17 DEF RenderBlock, OrderInv, Place, TypeOK
    <2>2. CASE queue' = queue /\ pic' \in {pic, NoPic}
      BY <2>1, <2>2, <1>c DEF OrderInv
    <2>3. CASE Room /\ queue' = Append(queue, pic) /\ pic' = NoPic
      <3>1. QueueBounded' /\ StopsAscend'
        BY <1>b, <2>1, <2>3, AddInOrder
      <3> QED
        BY <2>1, <2>3, <3>1 DEF OrderInv
    <2> QED
      BY <1>17, <2>2, <2>3 DEF RenderBlock, Add
  <1>18. CASE UNCHANGED vars
    BY <1>18, <1>d
  <1> QED
    BY <1>1, <1>2, <1>3, <1>4, <1>5, <1>6, <1>7, <1>8, <1>9, <1>10, <1>11, <1>12, <1>13, <1>14, <1>15,
       <1>16, <1>17, <1>18
       DEF Next, ClientCall, ClientStep, RendererStep, LookupStep, WorkerStep, Invalidate, Thread

\* The inductive invariant of the theorems
LEMMA Inductive == Spec => [](TypeOK /\ Place /\ OrderInv)
  <1>1. Init => TypeOK /\ Place /\ OrderInv
    BY InitType, InitOrder
  <1>2. TypeOK /\ Place /\ OrderInv /\ [Next]_vars => (TypeOK /\ Place /\ OrderInv)'
    BY NextType, NextOrder
  <1> QED
    BY <1>1, <1>2, PTL DEF Spec

\* m_queue holds at most nSize pictures, though room is made and used by threads
\* that do not know of each other
THEOREM Bounded == Spec => []QueueBounded
  <1>1. TypeOK /\ Place /\ OrderInv => QueueBounded
    BY DEF OrderInv
  <1> QED
    BY Inductive, <1>1, PTL

\* The pictures of m_queue stay in time order, across seeks, edits and failures
THEOREM Ordered == Spec => []StopsAscend
  <1>1. TypeOK /\ Place /\ OrderInv => StopsAscend
    BY DEF OrderInv
  <1> QED
    BY Inductive, <1>1, PTL

----------------------------------------------------------------------------
(* The worker's wait for room.                                              *)

\* Who makes room notifies afterwards, and no step of another thread stands between
LEMMA NextFullNotified ==
    ASSUME TypeOK, FullNotified, [Next]_vars
    PROVE  FullNotified'
  <1> USE DEF Thread
  <1>1. ASSUME NEW t \in Thread, InvalidatePurge(t) PROVE FullNotified'
    <2>1. pc'[t] = "lower"
      BY <1>1 DEF InvalidatePurge, TypeOK
    <2> QED
      BY <2>1 DEF FullNotified
  <1>2. ASSUME NEW t \in Thread, InvalidateLower(t) PROVE FullNotified'
    <2>1. pc'[t] = "signal"
      BY <1>2 DEF InvalidateLower, TypeOK
    <2> QED
      BY <2>1 DEF FullNotified
  <1>3. ASSUME NEW t \in Thread, InvalidateSignal(t) \/ LookupFound PROVE FullNotified'
    <2>1. wpc' # "full"
      BY <1>3 DEF InvalidateSignal, LookupFound, NotifyFull
    <2> QED
      BY <2>1 DEF FullNotified
  <1>4. ASSUME LookupSearch PROVE FullNotified'
    <2>1. pc'[Renderer] = "found"
      BY <1>4 DEF LookupSearch, TypeOK
    <2> QED
      BY <2>1 DEF FullNotified
  <1>5. ASSUME NEW t \in Thread, pc[t] \notin {"lower", "signal", "found"},
               \/ pc' = pc
               \/ \E place \in CallPlace : pc' = [pc EXCEPT ![t] = place],
               queue' = queue, wpc' = wpc
        PROVE  FullNotified'
    <2>1. \A u \in Thread : pc[u] \in {"lower", "signal", "found"} => pc'[u] = pc[u]
      BY <1>5 DEF TypeOK
    <2> QED
      BY <1>5, <2>1 DEF FullNotified, Room
  <1>6. ASSUME NEW c \in Client, ClientCall(c) \/ DestroyProvider(c) \/ DestroyJoin(c) PROVE FullNotified'
    <2>1. /\ pc[c] \notin {"lower", "signal", "found"} /\ queue' = queue /\ wpc' = wpc
          /\ \/ pc' = pc
             \/ \E place \in CallPlace : pc' = [pc EXCEPT ![c] = place]
      BY <1>6 DEF ClientCall, SetSubPicProvider, EditSubtitles, SetFPS, Destroy,
                  DestroyProvider, DestroyJoin, CallPlace
    <2> QED
      BY <1>5, <2>1
  <1>7. ASSUME \/ \E rt \in 0 .. MaxTime : SetTime(rt)
               \/ SetTimeCheck \/ SetTimeStamp \/ LookupReuse
               \/ LookupAsk \/ LookupAwait \/ LookupTimeout \/ LookupSave
        PROVE  FullNotified'
    <2>1. /\ pc[Renderer] \notin {"lower", "signal", "found"} /\ queue' = queue /\ wpc' = wpc
          /\ \E place \in CallPlace : pc' = [pc EXCEPT ![Renderer] = place]
      BY <1>7 DEF SetTime, SetTimeCheck, SetTimeStamp, LookupReuse, LookupAsk, LookupAwait,
                  LookupTimeout, LookupSave, CallPlace
    <2> QED
      BY <1>5, <2>1
  <1>8. ASSUME WorkerStep \/ \E why \in Failures : RenderFails(why) PROVE FullNotified'
    <2>1. wpc' # "full" \/ (wpc' = "full" /\ queue' = queue /\ ~Room)
      BY <1>8 DEF WorkerStep, RenderTop, RenderWait, RenderFetch, RenderLock, RenderTail, RenderStart,
                  RenderPos, RenderPicture, RenderFails, RenderEnqueue, RenderLate, RenderUnlock,
                  RenderBlock, RenderNotify, NextPos, GiveUp
    <2> QED
      BY <2>1 DEF FullNotified, Room
  <1>9. CASE UNCHANGED vars
    BY <1>9 DEF FullNotified, Room
  <1> QED
    BY <1>1, <1>2, <1>3, <1>4, <1>6, <1>7, <1>8, <1>9
       DEF Next, ClientStep, RendererStep, LookupStep, Invalidate

\* The worker never sleeps on m_condQueueFull while there is room, unless the thread
\* that made the room is about to wake it: no notification is lost, whoever calls
THEOREM FullAlwaysNotified == Spec => []FullNotified
  <1>1. Init => FullNotified
    BY DEF Init, FullNotified
  <1>2. TypeOK /\ FullNotified /\ [Next]_vars => FullNotified'
    BY NextFullNotified
  <1> QED
    BY TypeCorrect, <1>1, <1>2, PTL DEF Spec

----------------------------------------------------------------------------
(* The renderer's wait for its picture.                                     *)

\* What the renderer waits for
Awaited == Len(queue) = Size \/ TailStop > clock

\* Only the worker brings about what the renderer waits for: a purge shortens the
\* queue, which never held more than Size, and its stop times ascend
LEMMA PurgeBringsNothing ==
    ASSUME TypeOK, QueueBounded, StopsAscend, NEW t \in Thread, InvalidatePurge(t), Awaited'
    PROVE  Awaited
  <1>1. PICK k \in 0 .. Len(queue) : queue' = SubSeq(queue, 1, k)
    BY DEF InvalidatePurge
  <1>2. k \in Nat /\ k <= Len(queue) /\ Len(queue) \in Nat /\ queue \in Seq(SubPic)
    BY DEF TypeOK
  <1>3. TailStop' <= TailStop
    BY <1>1, <1>2, PartInOrder
  <1>4. Len(queue') = k
    BY <1>1, <1>2
  <1>5. TailStop \in Int /\ TailStop' \in Int /\ clock \in Int /\ clock' = clock
    <2>1. queue' \in Seq(SubPic)
      BY <1>1, <1>2
    <2>2. TailStop \in Int /\ TailStop' \in Int
      BY <1>2, <2>1, EndType DEF Time, TailStop
    <2>3. clock \in Int /\ clock' = clock
      BY DEF TypeOK, InvalidatePurge
    <2> QED
      BY <2>2, <2>3
  <1>6. CASE Len(queue') = Size
    <2>1. Len(queue) = Size
      BY <1>2, <1>4, <1>6 DEF QueueBounded
    <2> QED
      BY <2>1 DEF Awaited
  <1>7. CASE (TailStop > clock)'
    <2>1. TailStop > clock
      BY <1>3, <1>5, <1>7
    <2> QED
      BY <2>1 DEF Awaited
  <1>8. Len(queue') = Size \/ (TailStop > clock)'
    BY DEF Awaited
  <1> QED
    BY <1>6, <1>7, <1>8

LEMMA NextReadyNotified ==
    ASSUME TypeOK, TypeOK', QueueBounded, StopsAscend, ReadyNotified, [Next]_vars
    PROVE  ReadyNotified'
  <1> USE DEF Thread
  <1>0. ReadyNotified <=> (pc[Renderer] = "ready" /\ Awaited => wpc \in {"late", "notify"})
    BY DEF ReadyNotified, Awaited
  <1>1. ASSUME NEW t \in Thread, InvalidatePurge(t) PROVE ReadyNotified'
    <2>1. /\ wpc' = wpc /\ (pc'[Renderer] = "ready" => pc[Renderer] = "ready")
      BY <1>1 DEF InvalidatePurge, TypeOK
    <2>2. Awaited' => Awaited
      BY <1>1, PurgeBringsNothing
    <2> QED
      BY <1>0, <2>1, <2>2 DEF ReadyNotified, Awaited
  <1>2. ASSUME queue' = queue, clock' = clock, pc'[Renderer] = "ready" => pc[Renderer] = "ready",
               wpc \in {"late", "notify"} => wpc' = wpc
        PROVE  ReadyNotified'
    BY <1>2 DEF ReadyNotified, TailStop
  <1>3. ASSUME NEW t \in Thread, InvalidateLower(t) \/ InvalidateSignal(t) PROVE ReadyNotified'
    <2>1. pc'[Renderer] = "ready" => pc[Renderer] = "ready"
      BY <1>3 DEF InvalidateLower, InvalidateSignal, TypeOK
    <2> QED
      BY <1>2, <1>3, <2>1 DEF InvalidateLower, InvalidateSignal, NotifyFull
  <1>4. ASSUME NEW c \in Client, ClientCall(c) \/ DestroyProvider(c) \/ DestroyJoin(c) PROVE ReadyNotified'
    <2>1. /\ queue' = queue /\ clock' = clock /\ wpc' = wpc
          /\ \/ pc' = pc
             \/ \E place \in CallPlace \ {"ready"} : pc' = [pc EXCEPT ![c] = place]
      BY <1>4 DEF ClientCall, SetSubPicProvider, EditSubtitles, SetFPS, Destroy,
                  DestroyProvider, DestroyJoin, CallPlace
    <2>2. pc'[Renderer] = "ready" => pc[Renderer] = "ready"
      BY <2>1 DEF TypeOK
    <2> QED
      BY <1>2, <2>1, <2>2
  <1>5. ASSUME \/ \E rt \in 0 .. MaxTime : SetTime(rt)
               \/ SetTimeCheck \/ SetTimeStamp \/ LookupReuse \/ LookupSearch \/ LookupFound
               \/ LookupAsk \/ LookupTimeout \/ LookupSave
        PROVE  ReadyNotified'
    <2>1. \E place \in CallPlace \ {"ready"} : pc' = [pc EXCEPT ![Renderer] = place]
      BY <1>5 DEF SetTime, SetTimeCheck, SetTimeStamp, LookupReuse, LookupSearch, LookupFound,
                  LookupAsk, LookupTimeout, LookupSave, CallPlace
    <2>2. pc'[Renderer] # "ready"
      BY <2>1 DEF TypeOK
    <2> QED
      BY <2>2 DEF ReadyNotified
  <1>6. ASSUME LookupAwait PROVE ReadyNotified'
    <2>1. queue' = queue /\ clock' = clock /\ (Awaited => pc'[Renderer] = "search")
      BY <1>6 DEF LookupAwait, Awaited, TypeOK
    <2> QED
      BY <2>1 DEF ReadyNotified, Awaited, TailStop
  <1>7. ASSUME RenderEnqueue \/ RenderBlock PROVE ReadyNotified'
    <2>1. CASE queue' = queue
      <3>1. pc' = pc /\ clock' = clock /\ wpc \notin {"late", "notify"}
        BY <1>7 DEF RenderEnqueue, RenderBlock
      <3> QED
        BY <1>2, <2>1, <3>1
    <2>2. CASE queue' # queue
      <3>1. wpc' \in {"late", "notify"}
        BY <1>7, <2>2 DEF RenderEnqueue, RenderBlock, Add
      <3> QED
        BY <3>1 DEF ReadyNotified
    <2> QED
      BY <2>1, <2>2
  <1>8. ASSUME RenderLate \/ RenderNotify PROVE ReadyNotified'
    <2>1. pc'[Renderer] # "ready"
      BY <1>8 DEF RenderLate, RenderNotify, NotifyReady, TypeOK
    <2> QED
      BY <2>1 DEF ReadyNotified
  <1>9. ASSUME \/ RenderTop \/ RenderWait \/ RenderFetch \/ RenderLock \/ RenderTail \/ RenderStart
               \/ RenderPos \/ RenderPicture \/ RenderUnlock \/ (\E why : RenderFails(why))
        PROVE  ReadyNotified'
    <2>1. pc' = pc /\ queue' = queue /\ clock' = clock /\ wpc \notin {"late", "notify"}
      BY <1>9 DEF RenderTop, RenderWait, RenderFetch, RenderLock, RenderTail, RenderStart,
                  RenderPos, RenderPicture, RenderFails, RenderUnlock
    <2> QED
      BY <1>2, <2>1
  <1>10. CASE UNCHANGED vars
    BY <1>2, <1>10
  <1> QED
    BY <1>1, <1>3, <1>4, <1>5, <1>6, <1>7, <1>8, <1>9, <1>10
       DEF Next, ClientStep, RendererStep, LookupStep, WorkerStep, Invalidate

\* The renderer never sleeps on m_condQueueReady while its picture may be in the
\* queue, unless the worker is about to wake it
THEOREM ReadyAlwaysNotified == Spec => []ReadyNotified
  <1>1. Init => ReadyNotified
    BY DEF Init, ReadyNotified, Thread
  <1>2. TypeOK /\ TypeOK' /\ QueueBounded /\ StopsAscend /\ ReadyNotified /\ [Next]_vars => ReadyNotified'
    BY NextReadyNotified
  <1> QED
    BY TypeCorrect, Bounded, Ordered, <1>1, <1>2, PTL DEF Spec

----------------------------------------------------------------------------
(* What a lookup returns.                                                   *)

\* The result so far covers the time asked for, at every place of the lookup
ResultInv ==
    pc[Renderer] \in {"search", "found", "ask", "await", "ready", "save"} /\ res # NoPic
        => InSegment(res, clock)

LEMMA SearchShowsClock == ASSUME TypeOK, ResultInv, LookupSearch PROVE ResultInv'
  <1>1. PICK k \in 1 .. Len(queue) + 1, c \in {res} \cup {queue[i] : i \in 1 .. Len(queue)} :
          /\ \A i \in 1 .. k - 1 : Passed(queue[i])
          /\ CandidateBefore(k, c)
          /\ IF Taken(k, c) THEN res' = queue[k] ELSE res' = c
    BY DEF LookupSearch
  <1>2. clock' = clock /\ clock \in Nat /\ queue \in Seq(SubPic) /\ Len(queue) \in Nat
    BY DEF LookupSearch, TypeOK
  <1>3. c # NoPic => InSegment(c, clock)
    <2>1. CASE c = res
      BY <2>1 DEF ResultInv, LookupSearch
    <2>2. ASSUME NEW i \in 1 .. k - 1, queue[i].segStop > clock, c = queue[i]
          PROVE  InSegment(c, clock)
      <3>1. Passed(queue[i]) /\ queue[i] \in SubPic
        BY <1>1, <1>2
      <3> QED
        BY <1>2, <2>2, <3>1 DEF Passed, InSegment, SubPic
    <2> QED
      BY <1>1, <2>1, <2>2 DEF CandidateBefore
  <1>4. Taken(k, c) => InSegment(queue[k], clock)
    BY DEF Taken
  <1>5. res' # NoPic => InSegment(res', clock)
    BY <1>1, <1>3, <1>4
  <1> QED
    BY <1>2, <1>5 DEF ResultInv

LEMMA NextResult == ASSUME TypeOK, ResultInv, [Next]_vars PROVE ResultInv'
  <1> USE DEF Thread
  <1> DEFINE Places == {"search", "found", "ask", "await", "ready", "save"}
  <1>1. ASSUME res' = res, clock' = clock, pc'[Renderer] \in Places => pc[Renderer] \in Places
        PROVE  ResultInv'
    BY <1>1 DEF ResultInv
  <1>2. ASSUME pc'[Renderer] \notin Places PROVE ResultInv'
    BY <1>2 DEF ResultInv
  <1>3. ASSUME NEW t \in Thread, Invalidate(t) PROVE ResultInv'
    <2>1. /\ res' = res /\ clock' = clock
          /\ \E place \in {"lower", "signal", "stamp", "join", "idle"} : pc' = [pc EXCEPT ![t] = place]
      BY <1>3 DEF Invalidate, InvalidatePurge, InvalidateLower, InvalidateSignal
    <2> QED
      BY <1>1, <2>1 DEF TypeOK
  <1>4. ASSUME NEW c \in Client, ClientCall(c) \/ DestroyProvider(c) \/ DestroyJoin(c) PROVE ResultInv'
    <2>1. /\ res' = res /\ clock' = clock
          /\ \/ pc' = pc
             \/ \E place \in {"purge", "destroy", "gone"} : pc' = [pc EXCEPT ![c] = place]
      BY <1>4 DEF ClientCall, SetSubPicProvider, EditSubtitles, SetFPS, Destroy,
                  DestroyProvider, DestroyJoin
    <2> QED
      BY <1>1, <2>1 DEF TypeOK
  <1>5. ASSUME (\E rt \in 0 .. MaxTime : SetTime(rt)) \/ SetTimeCheck \/ SetTimeStamp \/ LookupSave
        PROVE  ResultInv'
    <2>1. \E place \in {"check", "purge", "stamp", "idle"} : pc' = [pc EXCEPT ![Renderer] = place]
      BY <1>5 DEF SetTime, SetTimeCheck, SetTimeStamp, LookupSave
    <2>2. pc'[Renderer] \notin Places
      BY <2>1 DEF TypeOK
    <2> QED
      BY <1>2, <2>2
  <1>6. ASSUME LookupReuse PROVE ResultInv'
    BY <1>6 DEF LookupReuse, ResultInv
  <1>7. ASSUME LookupSearch PROVE ResultInv'
    BY <1>7, SearchShowsClock
  <1>8. ASSUME LookupFound \/ LookupAsk \/ LookupAwait \/ LookupTimeout PROVE ResultInv'
    <2>1. res' = res /\ clock' = clock /\ pc[Renderer] \in Places
      BY <1>8 DEF LookupFound, LookupAsk, LookupAwait, LookupTimeout
    <2> QED
      BY <1>1, <2>1
  <1>9. ASSUME WorkerStep \/ \E why \in Failures : RenderFails(why) PROVE ResultInv'
    <2>1. /\ res' = res /\ clock' = clock
          /\ \/ pc' = pc
             \/ pc[Renderer] = "ready" /\ pc' = [pc EXCEPT ![Renderer] = "await"]
      BY <1>9 DEF WorkerStep, RenderTop, RenderWait, RenderFetch, RenderLock, RenderTail, RenderStart,
                  RenderPos, RenderPicture, RenderFails, RenderEnqueue, RenderLate, RenderUnlock,
                  RenderBlock, RenderNotify, NotifyReady
    <2> QED
      BY <1>1, <2>1
  <1>10. CASE UNCHANGED vars
    BY <1>1, <1>10
  <1> QED
    BY <1>3, <1>4, <1>5, <1>6, <1>7, <1>8, <1>9, <1>10 DEF Next, ClientStep, RendererStep, LookupStep

\* What LookupSubPic returns is to be shown at the time it was asked for, whatever
\* is added, purged or searched again between its critical sections
THEOREM LookupShowsClock == Spec => []ResultShowsClock
  <1>1. Init => ResultInv
    BY DEF Init, ResultInv
  <1>2. TypeOK /\ ResultInv /\ [Next]_vars => ResultInv'
    BY NextResult
  <1>3. ResultInv => ResultShowsClock
    BY DEF ResultInv, ResultShowsClock
  <1> QED
    BY TypeCorrect, <1>1, <1>2, <1>3, PTL DEF Spec

----------------------------------------------------------------------------
(* Pictures that an edit outdated while the worker rendered or kept them.   *)

\* Outside a pass and EnqueueSubPic the worker has no picture; an edit made since
\* the picture was drawn is known to EnqueueSubPic, or its Invalidate will tell it
EditInv ==
    /\ wpc \in {"top", "wait", "fetch", "lock", "tail", "start", "notify", "done"} => pic = NoPic
    /\ pic # NoPic /\ pic.seen < Len(edits) => inval \/ Pending

LEMMA NextEdit == ASSUME TypeOK, Place, EditInv, [Next]_vars PROVE EditInv'
  <1> USE DEF Thread
  <1>1. ASSUME NEW t \in Thread, InvalidatePurge(t) PROVE EditInv'
    BY <1>1 DEF InvalidatePurge, EditInv
  <1>2. ASSUME pic' = pic, edits' = edits, inval' = inval,
               wpc' = wpc \/ (wpc = "full" /\ wpc' = "block"),
               \A t \in Thread : pc[t] = "purge" => pc'[t] = "purge"
        PROVE  EditInv'
    <2>1. Pending => Pending'
      BY <1>2 DEF Pending
    <2> QED
      BY <1>2, <2>1 DEF EditInv
  <1>3. ASSUME NEW t \in Thread, InvalidateLower(t) \/ InvalidateSignal(t) PROVE EditInv'
    <2>1. \A u \in Thread : pc[u] = "purge" => pc'[u] = "purge"
      BY <1>3 DEF InvalidateLower, InvalidateSignal, TypeOK
    <2> QED
      BY <1>2, <1>3, <2>1 DEF InvalidateLower, InvalidateSignal, NotifyFull
  <1>4. ASSUME NEW c \in Client,
               \/ \E p \in Provider \cup {NoProvider} : SetSubPicProvider(c, p)
               \/ \E tr \in Tracks, rt \in 0 .. MaxTime : EditSubtitles(c, tr, rt)
        PROVE  EditInv'
    <2>1. Pending'
      <3>1. pc'[c] = "purge"
        BY <1>4 DEF SetSubPicProvider, EditSubtitles, TypeOK
      <3> QED
        BY <3>1 DEF Pending
    <2>2. wpc' = wpc /\ pic' = pic
      BY <1>4 DEF SetSubPicProvider, EditSubtitles
    <2> QED
      BY <2>1, <2>2 DEF EditInv
  <1>5. ASSUME NEW c \in Client,
               \/ \E f \in FrameTimes : SetFPS(c, f)
               \/ Destroy(c) \/ DestroyProvider(c) \/ DestroyJoin(c)
        PROVE  EditInv'
    <2>1. /\ pic' = pic /\ edits' = edits /\ inval' = inval /\ wpc' = wpc
          /\ \/ pc' = pc
             \/ \E place \in CallPlace : pc[c] # "purge" /\ pc' = [pc EXCEPT ![c] = place]
      BY <1>5 DEF SetFPS, Destroy, DestroyProvider, DestroyJoin, CallPlace
    <2>2. \A u \in Thread : pc[u] = "purge" => pc'[u] = "purge"
      BY <2>1 DEF TypeOK
    <2> QED
      BY <1>2, <2>1, <2>2
  <1>6. ASSUME \/ \E rt \in 0 .. MaxTime : SetTime(rt)
               \/ SetTimeCheck \/ SetTimeStamp \/ LookupReuse \/ LookupStep
        PROVE  EditInv'
    <2>1. /\ pic' = pic /\ edits' = edits /\ inval' = inval
          /\ wpc' = wpc \/ (wpc = "full" /\ wpc' = "block")
          /\ pc[Renderer] # "purge" /\ \E place \in CallPlace : pc' = [pc EXCEPT ![Renderer] = place]
      BY <1>6 DEF SetTime, SetTimeCheck, SetTimeStamp, LookupReuse, LookupStep, LookupSearch, LookupFound,
                  LookupAsk, LookupAwait, LookupTimeout, LookupSave, NotifyFull, CallPlace
    <2>2. \A u \in Thread : pc[u] = "purge" => pc'[u] = "purge"
      BY <2>1 DEF TypeOK
    <2> QED
      BY <1>2, <2>1, <2>2
  <1>7. ASSUME pic' = NoPic PROVE EditInv'
    BY <1>7 DEF EditInv
  <1>8. ASSUME RenderTop \/ RenderWait \/ RenderFetch \/ RenderLock \/ RenderTail \/ RenderStart PROVE EditInv'
    <2>1. pic' = NoPic
      BY <1>8 DEF RenderTop, RenderWait, RenderFetch, RenderLock, RenderTail, RenderStart, EditInv
    <2> QED
      BY <1>7, <2>1
  <1>9. ASSUME RenderPicture \/ \E why : RenderFails(why) PROVE EditInv'
    <2>1. /\ edits' = edits /\ inval' = inval /\ pc' = pc /\ wpc' \in {"enqueue", "pos"}
          /\ \/ pic' \in {pic, NoPic}
             \/ \E drawn \in BOOLEAN : pic' = Rendered(track[wprov][pos], drawn)
      BY <1>9, Zenon DEF RenderPicture, RenderFails, NextPos
    <2>2. CASE pic' \in {pic, NoPic}
      BY <2>1, <2>2 DEF EditInv, Pending
    <2>3. ASSUME NEW drawn \in BOOLEAN, pic' = Rendered(track[wprov][pos], drawn) PROVE EditInv'
      <3>1. pic'.seen = Len(edits) /\ Len(edits) \in Nat
        BY <2>3 DEF Rendered, TypeOK
      <3> QED
        BY <2>1, <3>1 DEF EditInv
    <2> QED
      BY <2>1, <2>2, <2>3
  <1>10. ASSUME RenderPos \/ RenderLate PROVE EditInv'
    <2>1. /\ pic' = pic /\ edits' = edits /\ inval' = inval /\ wpc' \in {"unlock", "render", "pos"}
          /\ \/ pc' = pc
             \/ pc[Renderer] = "ready" /\ pc' = [pc EXCEPT ![Renderer] = "await"]
      BY <1>10 DEF RenderPos, RenderLate, NotifyReady, NextPos
    <2>2. Pending => Pending'
      BY <2>1 DEF Pending, TypeOK
    <2> QED
      BY <2>1, <2>2 DEF EditInv
  <1>11. ASSUME RenderEnqueue \/ RenderUnlock \/ RenderBlock PROVE EditInv'
    <2>1. \/ pic' = NoPic
          \/ /\ pic' = pic /\ edits' = edits /\ inval' = inval /\ pc' = pc
             /\ wpc' \in {"unlock", "block", "full"}
      BY <1>11 DEF RenderEnqueue, RenderUnlock, RenderBlock, Add, GiveUp
    <2> QED
      BY <1>7, <2>1 DEF EditInv, Pending
  <1>12. ASSUME RenderNotify PROVE EditInv'
    <2>1. pic' = NoPic
      BY <1>12 DEF RenderNotify, EditInv
    <2> QED
      BY <1>7, <2>1
  <1>13. CASE UNCHANGED vars
    BY <1>2, <1>13
  <1> QED
    BY <1>1, <1>3, <1>4, <1>5, <1>6, <1>8, <1>9, <1>10, <1>11, <1>12, <1>13
       DEF Next, ClientCall, ClientStep, RendererStep, WorkerStep, Invalidate

\* Only EnqueueSubPic lengthens the queue
LEMMA WhoAdds ==
    ASSUME TypeOK, [Next]_vars, Len(queue') > Len(queue)
    PROVE  (RenderEnqueue \/ RenderBlock) /\ ~Dropped
  <1>1. queue \in Seq(SubPic) /\ Len(queue) \in Nat
    BY DEF TypeOK
  <1>2. queue' # queue
    BY <1>1
  <1>3. ASSUME NEW t \in Thread, InvalidatePurge(t) PROVE FALSE
    <2>1. PICK k \in 0 .. Len(queue) : queue' = SubSeq(queue, 1, k)
      BY <1>3 DEF InvalidatePurge
    <2>2. Len(queue') = k
      BY <1>1, <2>1
    <2> QED
      BY <1>1, <2>2
  <1>4. ASSUME LookupSearch PROVE FALSE
    <2>1. PICK k \in 1 .. Len(queue) + 1 :
            queue' = SubSeq(queue, k, Len(queue)) \/ queue' = SubSeq(queue, k + 1, Len(queue))
      BY <1>4 DEF LookupSearch
    <2>2. Len(SubSeq(queue, k, Len(queue))) <= Len(queue)
      BY <1>1
    <2>3. Len(SubSeq(queue, k + 1, Len(queue))) <= Len(queue)
      BY <1>1
    <2> QED
      BY <1>1, <2>1, <2>2, <2>3
  <1>5. ASSUME NEW c \in Client, ClientCall(c) \/ DestroyProvider(c) \/ DestroyJoin(c) PROVE FALSE
    BY <1>2, <1>5 DEF ClientCall, SetSubPicProvider, EditSubtitles, SetFPS, Destroy,
                      DestroyProvider, DestroyJoin
  <1>6. ASSUME NEW t \in Thread, InvalidateLower(t) \/ InvalidateSignal(t) PROVE FALSE
    BY <1>2, <1>6 DEF InvalidateLower, InvalidateSignal
  <1>7. ASSUME \/ \E rt \in 0 .. MaxTime : SetTime(rt)
               \/ SetTimeCheck \/ SetTimeStamp \/ LookupReuse \/ LookupFound
               \/ LookupAsk \/ LookupAwait \/ LookupTimeout \/ LookupSave
        PROVE  FALSE
    BY <1>2, <1>7 DEF SetTime, SetTimeCheck, SetTimeStamp, LookupReuse, LookupFound,
                      LookupAsk, LookupAwait, LookupTimeout, LookupSave
  <1>8. ASSUME \/ RenderTop \/ RenderWait \/ RenderFetch \/ RenderLock \/ RenderTail \/ RenderStart
               \/ RenderPos \/ RenderPicture \/ RenderLate \/ RenderUnlock \/ RenderNotify
               \/ \E why : RenderFails(why)
        PROVE  FALSE
    BY <1>2, <1>8 DEF RenderTop, RenderWait, RenderFetch, RenderLock, RenderTail, RenderStart,
                      RenderPos, RenderPicture, RenderLate, RenderUnlock, RenderNotify, RenderFails
  <1>9. ASSUME RenderEnqueue \/ RenderBlock PROVE ~Dropped
    BY <1>2, <1>9 DEF RenderEnqueue, RenderBlock, Add
  <1> QED
    BY <1>2, <1>3, <1>4, <1>5, <1>6, <1>7, <1>8, <1>9
       DEF Next, ClientStep, RendererStep, LookupStep, WorkerStep, Invalidate, Thread

LEMMA StaleDropped ==
    ASSUME TypeOK, Place, EditInv, [Next]_vars, Len(queue') > Len(queue), Stale(pic), ~Pending
    PROVE  inval /\ \E i \in pic.seen + 1 .. Len(edits) : edits[i] < rtInval
  <1>1. pic \in SubPic /\ ~Dropped
    BY WhoAdds DEF TypeOK, Place, RenderEnqueue, RenderBlock
  <1>2. /\ pic.seen \in Nat /\ pic.stop \in Nat /\ pic # NoPic /\ rtInval \in Int /\ Len(edits) \in Nat
        /\ \A i \in 1 .. Len(edits) : edits[i] \in Int
    <2>1. edits \in Seq(Time)
      BY DEF TypeOK
    <2>2. \A i \in 1 .. Len(edits) : edits[i] \in Time
      BY <2>1
    <2> QED
      BY <1>1, <2>1, <2>2, NoPicAssumption DEF SubPic, TypeOK, Time
  <1>3. PICK i \in pic.seen + 1 .. Len(edits) : edits[i] < pic.stop
    BY DEF Stale
  <1>4. inval
    BY <1>2, <1>3 DEF EditInv
  <1>5. pic.stop <= rtInval
    BY <1>1, <1>2, <1>4 DEF Dropped
  <1>6. edits[i] < rtInval
    BY <1>2, <1>3, <1>5
  <1> QED
    BY <1>4, <1>6

\* EnqueueSubPic refuses the picture that an edit outdated while it was rendered or
\* waited for room, except when a later Invalidate has overwritten m_rtInvalidate
THEOREM OutdatedRefused == Spec => StaleOnlyIfOverwritten
  <1>1. Init => EditInv
    BY DEF Init, EditInv
  <1>2. TypeOK /\ Place /\ OrderInv /\ EditInv /\ [Next]_vars => EditInv'
    BY NextEdit
  <1>3. TypeOK /\ Place /\ OrderInv /\ EditInv /\ [Next]_vars
          => [Len(queue') > Len(queue) /\ Stale(pic) /\ ~Pending
                => inval /\ \E i \in pic.seen + 1 .. Len(edits) : edits[i] < rtInval]_vars
    BY StaleDropped
  <1> QED
    BY Inductive, <1>1, <1>2, <1>3, PTL DEF Spec, StaleOnlyIfOverwritten

----------------------------------------------------------------------------
(* The search of a lookup.                                                  *)

\* Subtitles that overlap in time, in one list or in two, begin together and are both animated
\* or both not: lists that subtitles are added to and removed from, and in which the stop of
\* one may change, but not lists with other times for the same text.
Consistent ==
    \A tr1, tr2 \in Tracks : \A i \in 1 .. Len(tr1), j \in 1 .. Len(tr2) :
        \/ tr1[i].start = tr2[j].start /\ tr1[i].animated = tr2[j].animated
        \/ tr1[i].stop <= tr2[j].start
        \/ tr2[j].stop <= tr1[i].start

\* Picture p was rendered for a subtitle
Shows(p, sub) ==
    /\ p.segStart = sub.start
    /\ IF sub.animated THEN sub.start <= p.start ELSE p.start = sub.start
    /\ p.start < sub.stop /\ p.start < p.stop /\ p.stop <= p.segStop

Made(p) == \E tr \in Tracks : \E k \in 1 .. Len(tr) : Shows(p, tr[k])

StartsAscend == \A i, j \in 1 .. Len(queue) : i < j => queue[i].start <= queue[j].start

MadeInv ==
    /\ \A i \in 1 .. Len(queue) : Made(queue[i])
    /\ StartsAscend
    /\ pic # NoPic => Made(pic) /\ \A i \in 1 .. Len(queue) : queue[i].start <= pic.start
    /\ wpc \in {"render", "enqueue", "late"} => track[wprov][pos].start <= cur

\* A picture of a consistent list that is rendered at a time after another's stop does not
\* begin before it
LEMMA LaterStarts ==
    ASSUME Consistent, NEW p \in SubPic, Made(p),
           NEW tr \in Tracks, NEW k \in 1 .. Len(tr), NEW at \in Nat,
           p.stop <= at, at < tr[k].stop
    PROVE  IF tr[k].animated THEN p.start <= at ELSE p.start <= tr[k].start
  <1>a. PICK tr0 \in Tracks : \E k0 \in 1 .. Len(tr0) : Shows(p, tr0[k0])
    BY DEF Made
  <1>1. PICK k0 \in 1 .. Len(tr0) : Shows(p, tr0[k0])
    BY <1>a
  <1>2. /\ tr0[k0].start \in Nat /\ tr0[k0].stop \in Nat /\ tr0[k0].animated \in BOOLEAN
        /\ tr[k].start \in Nat /\ tr[k].stop \in Nat /\ tr[k].animated \in BOOLEAN
    BY SubAt DEF Sub
  <1>3. p.start \in Nat /\ p.stop \in Nat /\ p.segStart \in Nat
    BY DEF SubPic
  <1>4. /\ tr0[k0].start <= p.start /\ p.start < tr0[k0].stop /\ p.start < p.stop
        /\ ~tr0[k0].animated => p.start = tr0[k0].start
    BY <1>1, <1>2, <1>3 DEF Shows
  <1>5. \/ tr0[k0].start = tr[k].start /\ tr0[k0].animated = tr[k].animated
        \/ tr0[k0].stop <= tr[k].start
        \/ tr[k].stop <= tr0[k0].start
    BY DEF Consistent
  <1> QED
    BY <1>2, <1>3, <1>4, <1>5

\* What the worker renders shows the subtitle and begins after what is queued
LEMMA RenderedMade ==
    ASSUME Consistent, TypeOK, Place, OrderInv, MadeInv, wpc = "render", provider # NoProvider,
           NEW drawn \in BOOLEAN
    PROVE  LET p == Rendered(track[wprov][pos], drawn)
           IN  Made(p) /\ \A i \in 1 .. Len(queue) : queue[i].start <= p.start
  <1> DEFINE sub == track[wprov][pos]
             p == Rendered(sub, drawn)
  <1>1. track[wprov] \in Tracks /\ pos \in 1 .. Len(track[wprov])
    BY DEF TypeOK, Place, Rendering
  <1>2. sub.start \in Nat /\ sub.stop \in Nat /\ sub.animated \in BOOLEAN
    BY <1>1, SubAt DEF Sub
  <1>3. cur \in Nat /\ sub.start <= cur /\ cur < sub.stop /\ TailStop <= cur
    BY DEF TypeOK, MadeInv, OrderInv
  <1>4. p \in SubPic
    BY RenderedType
  <1>5. cur < p.stop
    BY <1>3, RenderedStop
  <1>6. p.start = (IF sub.animated THEN cur ELSE sub.start) /\ p.segStart = sub.start
    BY DEF Rendered
  <1>7. p.stop <= p.segStop
    <2>1. wframe \in Nat /\ Span(wframe) \in Nat /\ Unknown \in Nat
      BY TimeAssumption DEF TypeOK
    <2>2. StopReal(sub) \in Nat
      BY <1>2, <1>3, <2>1 DEF StopReal
    <2>3. /\ p.stop = IF sub.animated THEN Smaller(cur + Span(wframe), StopReal(sub)) ELSE StopReal(sub)
          /\ p.segStop = IF sub.animated THEN Larger(cur + wframe, StopReal(sub)) ELSE StopReal(sub)
      BY DEF Rendered
    <2> QED
      BY <1>2, <1>3, <2>1, <2>2, <2>3 DEF Smaller, Larger
  <1>8. p.start \in Nat /\ p.stop \in Nat
    BY <1>4 DEF SubPic
  <1>9. Shows(p, sub)
    BY <1>2, <1>3, <1>5, <1>6, <1>7, <1>8 DEF Shows
  <1>10. ASSUME NEW i \in 1 .. Len(queue) PROVE queue[i].start <= p.start
    <2>1. queue \in Seq(SubPic) /\ queue[i] \in SubPic /\ queue[Len(queue)] \in SubPic /\ queue # << >>
      BY DEF TypeOK
    <2>2. queue[i].stop \in Nat /\ queue[Len(queue)].stop \in Nat
      BY <2>1 DEF SubPic
    <2>3. i = Len(queue) \/ queue[i].stop < queue[Len(queue)].stop
      BY <2>1 DEF OrderInv, StopsAscend
    <2>4. queue[i].stop <= cur
      BY <1>3, <2>1, <2>2, <2>3 DEF TailStop
    <2> QED
      BY <1>1, <1>3, <1>6, <2>1, <2>4, LaterStarts DEF MadeInv
  <1> QED
    BY <1>1, <1>9, <1>10 DEF Made

\* A part of the queue is made and in order like the whole
LEMMA PartMade ==
    ASSUME TypeOK, MadeInv, NEW a \in Nat \ {0}, NEW b \in Nat, b <= Len(queue),
           queue' = SubSeq(queue, a, b)
    PROVE  /\ \A i \in 1 .. Len(queue') : Made(queue'[i])
           /\ StartsAscend'
           /\ pic # NoPic => \A i \in 1 .. Len(queue') : queue'[i].start <= pic.start
  <1>1. queue \in Seq(SubPic) /\ Len(queue) \in Nat
    BY DEF TypeOK
  <1>2. \A i \in 1 .. Len(queue') :
            a + i - 1 \in 1 .. Len(queue) /\ queue'[i] = queue[a + i - 1]
    <2>1. CASE b < a
      BY <1>1, <2>1
    <2>2. CASE a <= b
      BY <1>1, <2>2
    <2> QED
      BY <2>1, <2>2
  <1>3. Len(queue') \in Nat
    <2>1. CASE b < a
      BY <1>1, <2>1
    <2>2. CASE a <= b
      BY <1>1, <2>2
    <2> QED
      BY <2>1, <2>2
  <1>4. StartsAscend'
    <2> SUFFICES ASSUME NEW i \in 1 .. Len(queue'), NEW j \in 1 .. Len(queue'), i < j
                 PROVE  queue'[i].start <= queue'[j].start
      BY DEF StartsAscend
    <2>1. a + i - 1 < a + j - 1
      BY <1>3
    <2> QED
      BY <1>2, <2>1 DEF MadeInv, StartsAscend
  <1> QED
    BY <1>2, <1>4 DEF MadeInv

\* A step that adds nothing, with the picture and the position of the worker as they were
LEMMA OthersKeepMade ==
    ASSUME TypeOK, TypeOK', MadeInv,
           queue' = queue \/ \E a \in Nat \ {0}, b \in 0 .. Len(queue) : queue' = SubSeq(queue, a, b),
           pic' \in {pic, NoPic},
           (wpc \in {"render", "enqueue", "late"})' =>
               track'[wprov'][pos'].start <= cur'
    PROVE  MadeInv'
  <1>1. CASE queue' = queue
    BY <1>1 DEF MadeInv, StartsAscend, Made
  <1>2. ASSUME NEW a \in Nat \ {0}, NEW b \in 0 .. Len(queue), queue' = SubSeq(queue, a, b)
        PROVE  MadeInv'
    <2>1. b \in Nat /\ b <= Len(queue)
      BY DEF TypeOK
    <2> QED
      BY <1>2, <2>1, PartMade DEF MadeInv, Made
  <1> QED
    BY <1>1, <1>2

\* Every step keeps the pictures made and their starts in order
LEMMA NextMade ==
    ASSUME Consistent, TypeOK, TypeOK', Place, OrderInv, MadeInv, [Next]_vars
    PROVE  MadeInv'
  <1> USE DEF Thread
  <1> DEFINE Working == wpc \in {"render", "enqueue", "late"}
             Same == UNCHANGED <<wpc, wprov, pos, cur>>
  <1>a. ASSUME Same \/ wpc' \notin {"render", "enqueue", "late"}, track' = track
        PROVE  Working' => track'[wprov'][pos'].start <= cur'
    BY <1>a DEF MadeInv
  <1>b. ASSUME queue' = queue, pic' = pic, track' = track,
               \/ Same
               \/ wpc' \notin {"render", "enqueue", "late"}
        PROVE  MadeInv'
    BY <1>a, <1>b, OthersKeepMade
  <1>1. ASSUME NEW t \in Thread, InvalidatePurge(t) PROVE MadeInv'
    <2>1. PICK k \in 0 .. Len(queue) : queue' = SubSeq(queue, 1, k)
      BY <1>1 DEF InvalidatePurge
    <2>2. pic' = pic /\ Same /\ track' = track
      BY <1>1 DEF InvalidatePurge
    <2> QED
      BY <1>a, <2>1, <2>2, OthersKeepMade
  <1>2. ASSUME LookupSearch PROVE MadeInv'
    <2>1. PICK n \in 1 .. Len(queue) + 1 :
            queue' = SubSeq(queue, n, Len(queue)) \/ queue' = SubSeq(queue, n + 1, Len(queue))
      BY <1>2 DEF LookupSearch
    <2>2. Len(queue) \in Nat /\ n \in Nat \ {0} /\ n + 1 \in Nat \ {0} /\ Len(queue) \in 0 .. Len(queue)
      BY DEF TypeOK
    <2>3. pic' = pic /\ Same /\ track' = track
      BY <1>2 DEF LookupSearch
    <2> QED
      BY <1>a, <2>1, <2>2, <2>3, OthersKeepMade
  <1>3. ASSUME NEW c \in Client, NEW tr \in Tracks, NEW rt \in 0 .. MaxTime, EditSubtitles(c, tr, rt)
        PROVE  MadeInv'
    <2>1. queue' = queue /\ pic' = pic /\ Same /\ (Rendering => track'[wprov] = track[wprov])
      BY <1>3 DEF EditSubtitles, TypeOK, Place
    <2> QED
      BY <2>1, OthersKeepMade DEF MadeInv, Rendering
  <1>4. ASSUME NEW t \in Thread, InvalidateLower(t) \/ InvalidateSignal(t) PROVE MadeInv'
    <2>1. /\ queue' = queue /\ pic' = pic /\ track' = track
          /\ Same \/ wpc' = "block"
      BY <1>4 DEF InvalidateLower, InvalidateSignal, NotifyFull
    <2> QED
      BY <1>b, <2>1
  <1>5. ASSUME NEW c \in Client,
               \/ \E p \in Provider \cup {NoProvider} : SetSubPicProvider(c, p)
               \/ \E f \in FrameTimes : SetFPS(c, f)
               \/ Destroy(c) \/ DestroyProvider(c) \/ DestroyJoin(c)
        PROVE  MadeInv'
    BY <1>5, <1>b DEF SetSubPicProvider, SetFPS, Destroy, DestroyProvider, DestroyJoin
  <1>6. ASSUME (\E rt \in 0 .. MaxTime : SetTime(rt)) \/ SetTimeCheck \/ SetTimeStamp PROVE MadeInv'
    BY <1>6, <1>b DEF SetTime, SetTimeCheck, SetTimeStamp
  <1>7. ASSUME \/ LookupReuse \/ LookupFound \/ LookupAsk \/ LookupAwait \/ LookupTimeout \/ LookupSave
        PROVE  MadeInv'
    <2>1. /\ queue' = queue /\ pic' = pic /\ track' = track
          /\ Same \/ wpc' = "block"
      BY <1>7 DEF LookupReuse, LookupFound, NotifyFull, LookupAsk, LookupAwait, LookupTimeout, LookupSave
    <2> QED
      BY <1>b, <2>1
  <1>8. ASSUME \/ RenderTop \/ RenderWait \/ RenderFetch \/ RenderLock \/ RenderTail \/ RenderStart
               \/ RenderUnlock \/ RenderNotify
        PROVE  MadeInv'
    <2>1. /\ queue' = queue /\ pic' = pic /\ track' = track
          /\ wpc' \notin {"render", "enqueue", "late"}
      BY <1>8 DEF RenderTop, RenderWait, RenderFetch, RenderLock, RenderTail, RenderStart,
                  RenderUnlock, RenderNotify
    <2> QED
      BY <1>b, <2>1
  <1>9. ASSUME RenderPos PROVE MadeInv'
    <2>1. queue' = queue /\ pic' = pic /\ track' = track /\ wprov' = wprov
      BY <1>9 DEF RenderPos
    <2>2. CASE wpc' # "render"
      <3>1. wpc' \in {"unlock", "pos"}
        BY <1>9, <2>2 DEF RenderPos, NextPos
      <3> QED
        BY <1>b, <2>1, <3>1
    <2>3. CASE wpc' = "render"
      <3> DEFINE sub == track[wprov][pos]
      <3>1. /\ pos' = pos /\ pos \in 1 .. Len(track[wprov])
            /\ cur' = Larger(Larger(sub.start, startRt), now)
        BY <1>9, <2>3, TrackFacts DEF RenderPos, NextPos, Place, Rendering, TypeOK
      <3>2. sub.start \in Nat
        BY <1>9, <3>1, TrackFacts DEF RenderPos, Rendering
      <3>3. now \in Nat /\ startRt \in Int
        BY DEF TypeOK, Time
      <3>4. sub.start <= cur'
        BY <3>1, <3>2, <3>3 DEF Larger
      <3> QED
        BY <2>1, <3>1, <3>4, OthersKeepMade
    <2> QED
      BY <2>2, <2>3
  <1>10. ASSUME RenderPicture PROVE MadeInv'
    <2> DEFINE sub == track[wprov][pos]
    <2>1. /\ queue' = queue /\ track' = track /\ wprov' = wprov /\ pos' = pos
          /\ wpc = "render" /\ provider # NoProvider
          /\ pic' = Rendered(sub, TRUE)
          /\ cur' = IF sub.animated
                      THEN Smaller(cur + SubFrame(wframe), StopReal(sub)) ELSE StopReal(sub)
      BY <1>10 DEF RenderPicture
    <2>2. Made(pic') /\ \A i \in 1 .. Len(queue) : queue[i].start <= pic'.start
      BY <2>1, RenderedMade
    <2>3. sub.start <= cur'
      <3>1. sub.start <= cur /\ cur < sub.stop
        BY <2>1 DEF MadeInv, OrderInv
      <3>2. cur < pic'.stop /\ pic'.stop <= cur'
        BY <2>1, <3>1, RenderedStop
      <3>3. pic'.stop \in Nat
        BY <2>1, RenderedType DEF SubPic
      <3>4. sub.start \in Nat /\ sub.stop \in Nat
        BY <2>1, TrackFacts DEF Rendering, Place
      <3>5. cur \in Nat /\ cur' \in Nat
        BY DEF TypeOK
      <3> QED
        BY <3>1, <3>2, <3>3, <3>4, <3>5
    <2> QED
      BY <2>1, <2>2, <2>3 DEF MadeInv, StartsAscend, Made
  <1>11. ASSUME NEW why, RenderFails(why) PROVE MadeInv'
    <2> DEFINE sub == track[wprov][pos]
    <2>1. /\ queue' = queue /\ wpc = "render" /\ wpc' = "pos"
          /\ pic' \in {pic, NoPic} \/ (pic' = Rendered(sub, FALSE) /\ provider # NoProvider)
      BY <1>11 DEF RenderFails, NextPos
    <2>2. CASE pic' \in {pic, NoPic}
      BY <2>1, <2>2, OthersKeepMade
    <2>3. CASE pic' = Rendered(sub, FALSE) /\ provider # NoProvider
      <3>1. Made(pic') /\ \A i \in 1 .. Len(queue) : queue[i].start <= pic'.start
        BY <2>1, <2>3, RenderedMade
      <3> QED
        BY <2>1, <3>1 DEF MadeInv, StartsAscend, Made
    <2> QED
      BY <2>1, <2>2, <2>3
  <1>12. ASSUME RenderEnqueue \/ RenderBlock PROVE MadeInv'
    <2>1. /\ track' = track /\ wprov' = wprov /\ pos' = pos /\ cur' = cur
          /\ wpc = "enqueue" \/ wpc' \notin {"render", "enqueue", "late"}
          /\ pic # NoPic
      BY <1>12 DEF RenderEnqueue, RenderBlock, GiveUp, Place
    <2>2. Working' => track'[wprov'][pos'].start <= cur'
      BY <2>1 DEF MadeInv
    <2>3. CASE queue' = queue /\ pic' \in {pic, NoPic}
      BY <2>2, <2>3, OthersKeepMade
    <2>4. CASE queue' = Append(queue, pic) /\ pic' = NoPic
      <3>1. queue \in Seq(SubPic) /\ Len(queue) \in Nat
        BY DEF TypeOK
      <3>2. /\ Len(queue') = Len(queue) + 1 /\ queue'[Len(queue) + 1] = pic
            /\ \A i \in 1 .. Len(queue) : queue'[i] = queue[i]
        BY <2>4, <3>1
      <3>3. StartsAscend'
        <4> SUFFICES ASSUME NEW i \in 1 .. Len(queue'), NEW j \in 1 .. Len(queue'), i < j
                     PROVE  queue'[i].start <= queue'[j].start
          BY DEF StartsAscend
        <4>1. i \in 1 .. Len(queue)
          BY <3>1, <3>2
        <4>2. CASE j = Len(queue) + 1
          BY <2>1, <3>2, <4>1, <4>2 DEF MadeInv
        <4>3. CASE j \in 1 .. Len(queue)
          BY <3>2, <4>1, <4>3 DEF MadeInv, StartsAscend
        <4> QED
          BY <3>1, <3>2, <4>2, <4>3
      <3>4. \A i \in 1 .. Len(queue') : Made(queue'[i])
        BY <2>1, <3>1, <3>2 DEF MadeInv
      <3> QED
        BY <2>2, <2>4, <3>3, <3>4 DEF MadeInv, Made
    <2> QED
      BY <1>12, <2>3, <2>4 DEF RenderEnqueue, RenderBlock, Add, GiveUp
  <1>13. ASSUME RenderLate PROVE MadeInv'
    <2>1. /\ queue' = queue /\ pic' = pic /\ wprov' = wprov /\ track' = track
          /\ wpc = "late" /\ cur' = Larger(cur, now)
          /\ (wpc' = "render" /\ pos' = pos) \/ wpc' = "pos"
      BY <1>13 DEF RenderLate, NextPos
    <2>2. track[wprov][pos].start <= cur /\ track[wprov][pos].start \in Nat
      BY <2>1, TrackFacts DEF MadeInv, Place, Rendering
    <2>3. track[wprov][pos].start <= cur'
      BY <2>1, <2>2 DEF Larger, TypeOK
    <2> QED
      BY <2>1, <2>3, OthersKeepMade
  <1>14. CASE UNCHANGED vars
    BY <1>14, <1>b
  <1> QED
    BY <1>1, <1>2, <1>3, <1>4, <1>5, <1>6, <1>7, <1>8, <1>9, <1>10, <1>11, <1>12, <1>13, <1>14
       DEF Next, ClientCall, ClientStep, RendererStep, LookupStep, WorkerStep, Invalidate

\* Where the search stops, the first picture that is not over is the exact one
LEMMA SearchFinds ==
    ASSUME TypeOK, MadeInv, LookupSearch, NEW i \in 1 .. Len(queue), Exact(queue[i], clock)
    PROVE  res' # NoPic /\ Exact(res', clock)
  <1>1. /\ queue \in Seq(SubPic) /\ Len(queue) \in Nat /\ clock \in Nat
        /\ \A m \in 1 .. Len(queue) : queue[m] \in SubPic
    BY DEF TypeOK
  <1>2. \A m \in 1 .. Len(queue) :
            /\ queue[m].start \in Nat /\ queue[m].stop \in Nat
            /\ queue[m].segStart \in Nat /\ queue[m].segStop \in Nat
            /\ queue[m].segStart <= queue[m].start /\ queue[m].stop <= queue[m].segStop
    <2> SUFFICES ASSUME NEW m \in 1 .. Len(queue)
                 PROVE  /\ queue[m].start \in Nat /\ queue[m].stop \in Nat
                        /\ queue[m].segStart \in Nat /\ queue[m].segStop \in Nat
                        /\ queue[m].segStart <= queue[m].start /\ queue[m].stop <= queue[m].segStop
      OBVIOUS
    <2>1. /\ queue[m].start \in Nat /\ queue[m].stop \in Nat
          /\ queue[m].segStart \in Nat /\ queue[m].segStop \in Nat
      BY <1>1 DEF SubPic
    <2>2. PICK tr \in Tracks : \E k \in 1 .. Len(tr) : Shows(queue[m], tr[k])
      BY DEF MadeInv, Made
    <2>3. PICK k \in 1 .. Len(tr) : Shows(queue[m], tr[k])
      BY <2>2
    <2>4. tr[k].start \in Nat /\ tr[k].animated \in BOOLEAN
      BY SubAt DEF Sub
    <2> QED
      BY <2>1, <2>3, <2>4 DEF Shows
  <1>3. PICK k \in 1 .. Len(queue) + 1, c \in {res} \cup {queue[m] : m \in 1 .. Len(queue)} :
            /\ \A m \in 1 .. k - 1 : Passed(queue[m])
            /\ k <= Len(queue) => ~Passed(queue[k])
            /\ Taken(k, c) => res' = queue[k]
    BY DEF LookupSearch
  <1>4. k <= i
    <2>1. ~Passed(queue[i])
      BY <1>1, <1>2 DEF Exact, Passed
    <2> QED
      BY <1>1, <1>3, <2>1
  <1>5. queue[k].start <= queue[i].start /\ k \in 1 .. Len(queue)
    BY <1>1, <1>2, <1>4 DEF MadeInv, StartsAscend
  <1>6. queue[k].start <= clock /\ clock < queue[k].stop
    BY <1>1, <1>2, <1>3, <1>5 DEF Exact, Passed
  <1>7. Taken(k, c)
    BY <1>1, <1>2, <1>5, <1>6 DEF Taken, InSegment
  <1> QED
    BY <1>1, <1>3, <1>5, <1>6, <1>7, NoPicAssumption DEF Exact

\* A lookup finds the picture that is valid at its time, if the queue has one, whatever was
\* added, purged or searched before, for providers whose lists are consistent.
THEOREM LookupIsExact == Consistent => (Spec => LookupFindsExact)
  <1> SUFFICES ASSUME Consistent PROVE Spec => LookupFindsExact
    OBVIOUS
  <1>1. Init => MadeInv
    BY DEF Init, MadeInv, StartsAscend
  <1>2. TypeOK /\ TypeOK' /\ Place /\ OrderInv /\ MadeInv /\ [Next]_vars => MadeInv'
    BY NextMade
  <1>3. TypeOK /\ MadeInv /\ [Next]_vars
        => [LookupSearch /\ (\E i \in 1 .. Len(queue) : Exact(queue[i], clock))
                => res' # NoPic /\ Exact(res', clock)]_vars
    BY SearchFinds
  <1> QED
    BY Inductive, <1>1, <1>2, <1>3, PTL DEF Spec, LookupFindsExact

----------------------------------------------------------------------------
(* Locks and the destructor: the parts of CallsEnd and DestroyEnds that     *)
(* need no fairness.                                                        *)

\* Locks are held from one step to the next by an Invalidate only: whoever waits for
\* m_mutexQueue waits for one that waits for nothing, and whoever waits for
\* m_csSubPicProvider for one that waits for m_mutexQueue at most.
LocksHeld ==
    /\ lockQ # Free => lockQ \in Thread /\ pc[lockQ] = "lower"
    /\ lockP # Free => lockP \in Thread /\ pc[lockP] \in {"purge", "lower", "signal"}

\* Where the destructor joins, the worker sleeps on no condition, on no event but one already
\* set, and finds every lock free.
JoinServed ==
    \A c \in Client : pc[c] = "join" =>
        wpc # "full" /\ (wpc = "wait" => event) /\ lockQ = Free /\ lockP = Free

Ending == {"destroy", "purge", "lower", "signal", "join", "gone"}

\* The destructor is the last call, and alone
LastCall ==
    /\ \A t \in Thread : pc[t] \in {"destroy", "join", "gone"} => exit
    /\ exit => \E c \in Client : pc[c] \in Ending /\ \A t \in Thread \ {c} : pc[t] = "idle"

\* Once the destructor has taken the provider away the worker renders nothing; what it had
\* in hand finds room, for the queue was emptied
Drained ==
    \A c \in Client : exit =>
        /\ pc[c] \in Ending \ {"destroy"} => provider = NoProvider
        /\ pc[c] = "purge" => arg[c] = -1
        /\ pc[c] \in {"lower", "signal", "join", "gone"} =>
               queue = << >> \/ (Len(queue) = 1 /\ pic = NoPic)

\* It is woken, and does not lie down again
Roused == \A c \in Client : pc[c] \in {"join", "gone"} => wpc # "full" /\ (wpc = "wait" => event)

WaitInv == LocksHeld /\ LastCall /\ Drained /\ Roused

LEMMA InitWaits == Init => WaitInv
  BY DEF Init, WaitInv, LocksHeld, LastCall, Drained, Roused

\* What the worker leaves alone; it notifies the renderer.
LEMMA WorkerFrame ==
    ASSUME WorkerStep \/ \E why \in Failures : RenderFails(why)
    PROVE  UNCHANGED <<lockQ, lockP, exit, provider, arg>> /\ (pc' = pc \/ NotifyReady)
  <1>1. RenderTop \/ RenderWait \/ RenderFetch \/ RenderLock \/ RenderTail \/ RenderStart \/ RenderPos
          => UNCHANGED <<lockQ, lockP, exit, provider, arg, pc>>
    BY DEF RenderTop, RenderWait, RenderFetch, RenderLock, RenderTail, RenderStart, RenderPos
  <1>2. RenderPicture \/ RenderEnqueue \/ RenderUnlock \/ RenderBlock \/ (\E why : RenderFails(why))
          => UNCHANGED <<lockQ, lockP, exit, provider, arg, pc>>
    BY DEF RenderPicture, RenderEnqueue, RenderUnlock, RenderBlock, RenderFails
  <1>3. RenderLate \/ RenderNotify => UNCHANGED <<lockQ, lockP, exit, provider, arg>> /\ NotifyReady
    BY DEF RenderLate, RenderNotify
  <1> QED
    BY <1>1, <1>2, <1>3 DEF WorkerStep

\* Without a provider the worker renders nothing, and adds what it has in hand.
LEMMA WorkerAlone ==
    ASSUME TypeOK, Place, WorkerStep \/ \E why \in Failures : RenderFails(why),
           provider = NoProvider, queue = << >> \/ (Len(queue) = 1 /\ pic = NoPic)
    PROVE  queue' = << >> \/ (Len(queue') = 1 /\ pic' = NoPic)
  <1>0. queue \in Seq(SubPic)
    BY DEF TypeOK
  <1>1. CASE RenderTop \/ RenderWait \/ RenderFetch \/ RenderLock \/ RenderTail \/ RenderStart \/ RenderPos
    BY <1>1 DEF RenderTop, RenderWait, RenderFetch, RenderLock, RenderTail, RenderStart, RenderPos
  <1>2. CASE RenderLate \/ RenderUnlock \/ RenderNotify
    BY <1>2 DEF RenderLate, RenderUnlock, RenderNotify
  <1>3. CASE \E why \in Failures \cup {"render"} : RenderFails(why)
    BY <1>3 DEF RenderFails
  <1>4. CASE RenderEnqueue \/ RenderBlock
    <2>1. wpc \in {"enqueue", "block"} /\ pic # NoPic
      BY <1>4 DEF RenderEnqueue, RenderBlock, Place
    <2>2. queue = << >>
      BY <2>1
    <2>3. queue' = queue \/ (queue' = Append(queue, pic) /\ pic' = NoPic)
      BY <1>4 DEF RenderEnqueue, RenderBlock, Add, GiveUp
    <2> QED
      BY <1>0, <2>2, <2>3
  <1>5. ~RenderPicture
    BY DEF RenderPicture
  <1> QED
    BY <1>1, <1>2, <1>3, <1>4, <1>5 DEF WorkerStep

\* Where the worker goes to sleep.
LEMMA WorkerWaits ==
    ASSUME WorkerStep \/ \E why \in Failures : RenderFails(why)
    PROVE  /\ wpc' = "wait" /\ exit => wpc = "wait" /\ event' = event
           /\ wpc' = "full" => wpc = "full" \/ (wpc = "block" /\ ~Room)
  <1>1. CASE RenderTop \/ RenderWait \/ RenderFetch \/ RenderLock \/ RenderTail \/ RenderStart \/ RenderPos
    BY <1>1 DEF RenderTop, RenderWait, RenderFetch, RenderLock, RenderTail, RenderStart, RenderPos, NextPos
  <1>2. CASE RenderLate \/ RenderUnlock \/ RenderNotify \/ RenderPicture
    BY <1>2 DEF RenderLate, RenderUnlock, RenderNotify, RenderPicture, NextPos
  <1>3. CASE \E why : RenderFails(why)
    BY <1>3 DEF RenderFails, NextPos
  <1>4. CASE RenderEnqueue \/ RenderBlock
    BY <1>4 DEF RenderEnqueue, RenderBlock, GiveUp
  <1> QED
    BY <1>1, <1>2, <1>3, <1>4 DEF WorkerStep

\* The program ends the queue while no call is under way.
LEMMA ExitStep ==
    ASSUME TypeOK, ~exit, exit', [Next]_vars
    PROVE  \A t \in Thread : pc'[t] \in {"idle", "destroy"}
  <1>1. PICK c \in Client : Destroy(c)
    <2>1. ~(WorkerStep \/ \E why \in Failures : RenderFails(why))
      BY WorkerFrame
    <2>2. \A t \in Thread : ~Invalidate(t)
      BY DEF Invalidate, InvalidatePurge, InvalidateLower, InvalidateSignal
    <2>3. \A c \in Client : ClientCall(c) \/ ClientStep(c) => Destroy(c)
      BY <2>2 DEF ClientCall, ClientStep, SetSubPicProvider, EditSubtitles, SetFPS, DestroyProvider,
                  DestroyJoin, Thread
    <2>4. ~(\/ \E rt \in 0 .. MaxTime : SetTime(rt)
            \/ SetTimeCheck \/ SetTimeStamp \/ LookupReuse \/ LookupStep)
      BY DEF SetTime, SetTimeCheck, SetTimeStamp, LookupReuse, LookupStep, LookupSearch, LookupFound,
             LookupAsk, LookupAwait, LookupTimeout, LookupSave
    <2> QED
      BY <2>1, <2>2, <2>3, <2>4 DEF Next, RendererStep, Thread
  <1> QED
    BY <1>1 DEF Destroy, TypeOK

\* Locks are taken and released by an Invalidate and what calls it.
LEMMA NextLocks == ASSUME TypeOK, LocksHeld, [Next]_vars PROVE LocksHeld'
  <1> USE ThreadAssumption DEF Thread, TypeOK, LocksHeld
  <1>1. ASSUME NEW t \in Thread, InvalidatePurge(t) PROVE LocksHeld'
    BY <1>1 DEF InvalidatePurge
  <1>2. ASSUME NEW t \in Thread, InvalidateLower(t) PROVE LocksHeld'
    BY <1>2 DEF InvalidateLower
  <1>3. ASSUME NEW t \in Thread, InvalidateSignal(t) PROVE LocksHeld'
    BY <1>3 DEF InvalidateSignal
  <1>4. ASSUME NEW c \in Client,
               \/ \E p \in Provider \cup {NoProvider} : SetSubPicProvider(c, p)
               \/ DestroyProvider(c)
        PROVE  LocksHeld'
    BY <1>4 DEF SetSubPicProvider, DestroyProvider
  \* Steps of t that are none of an Invalidate
  <1>5. ASSUME NEW t \in Thread, pc[t] \notin {"purge", "lower", "signal"},
               UNCHANGED <<lockQ, lockP>>, \A u \in Thread \ {t} : pc'[u] = pc[u]
        PROVE  LocksHeld'
    BY <1>5
  <1>6. ASSUME NEW c \in Client,
               \/ \E tr \in Tracks, rt \in 0 .. MaxTime : EditSubtitles(c, tr, rt)
               \/ \E f \in FrameTimes : SetFPS(c, f)
               \/ Destroy(c) \/ DestroyJoin(c)
        PROVE  LocksHeld'
    <2>1. CASE \E f \in FrameTimes : SetFPS(c, f)
      BY <2>1 DEF SetFPS
    <2>2. CASE (\E tr \in Tracks, rt \in 0 .. MaxTime : EditSubtitles(c, tr, rt)) \/ Destroy(c) \/ DestroyJoin(c)
      BY <1>5, <2>2 DEF EditSubtitles, Destroy, DestroyJoin
    <2> QED
      BY <1>6, <2>1, <2>2
  <1>7. ASSUME \/ \E rt \in 0 .. MaxTime : SetTime(rt)
               \/ SetTimeCheck \/ SetTimeStamp \/ LookupReuse \/ LookupStep
        PROVE  LocksHeld'
    <2>1. /\ pc[Renderer] \notin {"purge", "lower", "signal"} /\ UNCHANGED <<lockQ, lockP>>
          /\ \A u \in Thread \ {Renderer} : pc'[u] = pc[u]
      BY <1>7 DEF SetTime, SetTimeCheck, SetTimeStamp, LookupReuse, LookupStep, LookupSearch,
                  LookupFound, LookupAsk, LookupAwait, LookupTimeout, LookupSave
    <2> QED
      BY <1>5, <2>1
  <1>8. ASSUME WorkerStep \/ \E why \in Failures : RenderFails(why) PROVE LocksHeld'
    <2>1. UNCHANGED <<lockQ, lockP, exit>> /\ (pc' = pc \/ NotifyReady)
      BY <1>8, WorkerFrame
    <2> QED
      BY <2>1 DEF NotifyReady
  <1>9. CASE UNCHANGED vars
    BY <1>9
  <1> QED
    BY <1>1, <1>2, <1>3, <1>4, <1>6, <1>7, <1>8, <1>9
       DEF Next, ClientCall, ClientStep, RendererStep, Invalidate

\* No call begins once the destructor has, and its own goes from step to step.
LEMMA NextLastCall == ASSUME TypeOK, LastCall, [Next]_vars PROVE LastCall'
  <1> USE ThreadAssumption DEF Thread, TypeOK, LastCall, Ending
  \* A step of t, by which a call begins before the destructor only
  <1>1. ASSUME NEW t \in Thread, exit' = exit, \A u \in Thread \ {t} : pc'[u] = pc[u],
               pc[t] = "idle" => ~exit,
               exit /\ t \in Client => pc'[t] \in Ending,
               ~exit => pc'[t] \notin {"destroy", "join", "gone"}
        PROVE  LastCall'
    BY <1>1
  <1>2. ASSUME NEW t \in Thread, Invalidate(t) PROVE LastCall'
    <2>1. /\ pc[t] # "idle" /\ exit' = exit /\ \A u \in Thread \ {t} : pc'[u] = pc[u]
          /\ exit /\ t \in Client => pc'[t] \in Ending
          /\ ~exit => pc'[t] \notin {"destroy", "join", "gone"}
      BY <1>2 DEF Invalidate, InvalidatePurge, InvalidateLower, InvalidateSignal
    <2> QED
      BY <1>1, <2>1
  <1>3. ASSUME NEW c \in Client,
               \/ \E p \in Provider \cup {NoProvider} : SetSubPicProvider(c, p)
               \/ \E tr \in Tracks, rt \in 0 .. MaxTime : EditSubtitles(c, tr, rt)
        PROVE  LastCall'
    <2>1. /\ ~exit /\ exit' = exit /\ \A u \in Thread \ {c} : pc'[u] = pc[u]
          /\ pc'[c] = "purge"
      BY <1>3 DEF SetSubPicProvider, EditSubtitles
    <2> QED
      BY <1>1, <2>1
  <1>4. ASSUME NEW c \in Client, \E f \in FrameTimes : SetFPS(c, f) PROVE LastCall'
    BY <1>4 DEF SetFPS
  <1>5. ASSUME NEW c \in Client, Destroy(c) PROVE LastCall'
    BY <1>5 DEF Destroy
  <1>6. ASSUME NEW c \in Client, DestroyProvider(c) \/ DestroyJoin(c) PROVE LastCall'
    <2>1. /\ pc[c] \in {"destroy", "join"} /\ exit' = exit /\ \A u \in Thread \ {c} : pc'[u] = pc[u]
          /\ pc'[c] \in {"purge", "gone"}
      BY <1>6 DEF DestroyProvider, DestroyJoin
    <2> QED
      BY <1>1, <2>1
  <1>7. ASSUME \/ \E rt \in 0 .. MaxTime : SetTime(rt)
               \/ SetTimeCheck \/ SetTimeStamp \/ LookupReuse \/ LookupStep
        PROVE  LastCall'
    <2>1. /\ pc[Renderer] = "idle" => ~exit
          /\ exit' = exit /\ \A u \in Thread \ {Renderer} : pc'[u] = pc[u]
          /\ pc'[Renderer] \notin {"destroy", "join", "gone"}
      BY <1>7 DEF SetTime, SetTimeCheck, SetTimeStamp, LookupReuse, LookupStep, LookupSearch,
                  LookupFound, LookupAsk, LookupAwait, LookupTimeout, LookupSave
    <2> QED
      BY <1>1, <2>1
  <1>8. ASSUME WorkerStep \/ \E why \in Failures : RenderFails(why) PROVE LastCall'
    <2>1. UNCHANGED <<lockQ, lockP, exit>> /\ (pc' = pc \/ NotifyReady)
      BY <1>8, WorkerFrame
    <2> QED
      BY <2>1 DEF NotifyReady
  <1>9. CASE UNCHANGED vars
    BY <1>9
  <1> QED
    BY <1>2, <1>3, <1>4, <1>5, <1>6, <1>7, <1>8, <1>9
       DEF Next, ClientCall, ClientStep, RendererStep

\* What the destructor does to the worker, step by step, and what the worker still does.
LEMMA NextDrained ==
    ASSUME TypeOK, Place, LastCall, Drained, Roused, [Next]_vars PROVE Drained' /\ Roused'
  <1> USE ThreadAssumption DEF Thread, Ending
  <1>0. pc \in [Thread -> CallPlace] /\ arg \in [Thread -> Time] /\ queue \in Seq(SubPic)
    BY DEF TypeOK
  <1>1. CASE ~exit
    <2>1. exit' => \A t \in Thread : pc'[t] \in {"idle", "destroy"}
      BY <1>0, <1>1, ExitStep
    <2>2. exit' \/ \A c \in Client : pc'[c] \notin {"join", "gone"}
      BY <1>1, NextLastCall DEF LastCall
    <2> QED
      BY <2>1, <2>2 DEF Drained, Roused
  <1>2. ASSUME exit PROVE Drained' /\ Roused'
    <2>1. PICK c \in Client : pc[c] \in Ending /\ \A t \in Thread \ {c} : pc[t] = "idle"
      BY <1>2 DEF LastCall
    <2>2. ASSUME InvalidatePurge(c) PROVE Drained' /\ Roused'
      <3>1. arg[c] = -1 /\ provider = NoProvider
        BY <1>2, <2>2 DEF InvalidatePurge, Drained
      <3>2. queue' = << >>
        <4>1. PICK k \in 0 .. Len(queue) :
                /\ k > 0 => queue[k].stop <= -1
                /\ queue' = SubSeq(queue, 1, k)
          BY <2>2, <3>1 DEF InvalidatePurge
        <4>2. k > 0 => queue[k] \in SubPic
          BY <1>0
        <4>3. k = 0
          BY <4>1, <4>2 DEF SubPic
        <4> QED
          BY <1>0, <4>1, <4>3
      <3>3. provider' = provider /\ pc' = [pc EXCEPT ![c] = "lower"]
        BY <2>2 DEF InvalidatePurge
      <3> QED
        BY <1>0, <2>1, <3>1, <3>2, <3>3 DEF Drained, Roused
    <2>3. ASSUME InvalidateLower(c) PROVE Drained' /\ Roused'
      BY <1>0, <1>2, <2>1, <2>3 DEF InvalidateLower, Drained, Roused
    <2>4. ASSUME InvalidateSignal(c) PROVE Drained' /\ Roused'
      <3>1. /\ event' = TRUE /\ wpc' # "full" /\ pc' = [pc EXCEPT ![c] = "join"]
            /\ UNCHANGED <<exit, queue, pic, provider>> /\ pc[c] = "signal"
        BY <1>2, <2>4 DEF InvalidateSignal, SetEvent, NotifyFull
      <3> QED
        BY <1>0, <1>2, <2>1, <3>1 DEF Drained, Roused
    <2>5. ASSUME DestroyProvider(c) \/ DestroyJoin(c) PROVE Drained' /\ Roused'
      BY <1>0, <1>2, <2>1, <2>5 DEF DestroyProvider, DestroyJoin, Drained, Roused
    <2>6. ASSUME WorkerStep \/ \E why \in Failures : RenderFails(why) PROVE Drained' /\ Roused'
      <3>1. UNCHANGED <<exit, provider, arg>> /\ pc' = pc
        BY <2>1, <2>6, WorkerFrame DEF NotifyReady
      <3>2. ASSUME provider = NoProvider, queue = << >> \/ (Len(queue) = 1 /\ pic = NoPic)
            PROVE  queue' = << >> \/ (Len(queue') = 1 /\ pic' = NoPic)
        BY <1>0, <2>6, <3>2, WorkerAlone
      <3>3. wpc' = "wait" => wpc = "wait" /\ event' = event
        BY <1>2, <2>6, WorkerWaits
      <3>4. ASSUME pc[c] \in {"join", "gone"} PROVE wpc' # "full"
        <4>1. queue = << >> \/ pic = NoPic
          BY <1>2, <3>4 DEF Drained
        <4>2. wpc # "full"
          BY <3>4 DEF Roused
        <4>3. wpc = "block" => Room
          BY <4>1, SizeAssumption DEF Place, Room
        <4> QED
          BY <2>6, <4>2, <4>3, WorkerWaits
      <3> QED
        BY <1>2, <2>1, <3>1, <3>2, <3>3, <3>4 DEF Drained, Roused
    <2>7. CASE UNCHANGED vars
      BY <2>7 DEF Drained, Roused
    <2>8. ASSUME NEW t \in Thread, t # c, Invalidate(t) PROVE FALSE
      BY <2>1, <2>8 DEF Invalidate, InvalidatePurge, InvalidateLower, InvalidateSignal
    <2>9. ASSUME NEW d \in Client,
                 ClientCall(d) \/ (d # c /\ (DestroyProvider(d) \/ DestroyJoin(d))), ~(\E f \in FrameTimes : SetFPS(d, f))
          PROVE  FALSE
      BY <1>2, <2>1, <2>9
      DEF ClientCall, SetSubPicProvider, EditSubtitles, Destroy, DestroyProvider, DestroyJoin
    <2>10. ASSUME NEW d \in Client, \E f \in FrameTimes : SetFPS(d, f) PROVE FALSE
      BY <1>2, <2>10 DEF SetFPS
    <2>11. ASSUME \/ \E rt \in 0 .. MaxTime : SetTime(rt)
                  \/ SetTimeCheck \/ SetTimeStamp \/ LookupReuse \/ LookupStep
           PROVE  FALSE
      BY <1>2, <2>1, <2>11
      DEF SetTime, SetTimeCheck, SetTimeStamp, LookupReuse, LookupStep, LookupSearch, LookupFound,
          LookupAsk, LookupAwait, LookupTimeout, LookupSave
    <2>12. \A t \in Thread : Invalidate(t) => Drained' /\ Roused'
      BY <2>2, <2>3, <2>4, <2>8 DEF Invalidate
    <2>13. \A d \in Client : ClientCall(d) \/ ClientStep(d) => Drained' /\ Roused'
      BY <2>5, <2>9, <2>10, <2>12 DEF ClientStep
    <2> QED
      BY <2>6, <2>7, <2>11, <2>12, <2>13 DEF Next, RendererStep
  <1> QED
    BY <1>1, <1>2

\* However edits, seeks and lookups meet, no lock is waited for in a circle; and the destructor's
\* join never waits for a worker asleep, neither on the condition nor on the event, though the
\* worker looks at m_bExitThread only between passes and may have a picture in hand
THEOREM WaitsServed == Spec => [](LocksHeld /\ JoinServed)
  <1>1. Init => WaitInv
    BY InitWaits
  <1>2. TypeOK /\ Place /\ WaitInv /\ [Next]_vars => WaitInv'
    BY NextLocks, NextLastCall, NextDrained DEF WaitInv
  <1>3. WaitInv => LocksHeld /\ JoinServed
    <2> SUFFICES ASSUME WaitInv PROVE LocksHeld /\ JoinServed
      OBVIOUS
    <2>1. LocksHeld
      BY DEF WaitInv
    <2>2. ASSUME NEW c \in Client, pc[c] = "join"
          PROVE  wpc # "full" /\ (wpc = "wait" => event) /\ lockQ = Free /\ lockP = Free
      <3>1. wpc # "full" /\ (wpc = "wait" => event)
        BY <2>2 DEF WaitInv, Roused
      <3>2. \A t \in Thread : pc[t] \notin {"purge", "lower", "signal"}
        BY <2>2 DEF WaitInv, LastCall, Ending, Thread
      <3> QED
        BY <2>1, <3>1, <3>2 DEF LocksHeld
    <2> QED
      BY <2>1, <2>2 DEF JoinServed
  <1> QED
    BY Inductive, <1>1, <1>2, <1>3, PTL DEF Spec

=============================================================================

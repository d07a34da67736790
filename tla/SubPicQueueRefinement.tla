----------------------- MODULE SubPicQueueRefinement -----------------------
(* CSubPicQueue implements the buffer of TimedBuffer: every step of its     *)
(* threads adds a picture at the end, takes some from the front, cuts the   *)
(* late ones off, or leaves the stop times as they are.                     *)
EXTENDS SubPicQueueProofs

\* The refinement mapping
Stops(q) == [i \in 1 .. Len(q) |-> q[i].stop]

LEMMA StopsType ==
    ASSUME NEW q \in Seq(SubPic)
    PROVE  /\ Stops(q) \in Seq(Nat) /\ Len(q) \in Nat /\ Len(Stops(q)) = Len(q)
           /\ \A i \in 1 .. Len(q) : q[i] \in SubPic /\ q[i].stop \in Nat /\ Stops(q)[i] = q[i].stop
  <1>1. Len(q) \in Nat /\ \A i \in 1 .. Len(q) : q[i] \in SubPic
    OBVIOUS
  <1>2. \A i \in 1 .. Len(q) : q[i].stop \in Nat
    BY <1>1 DEF SubPic
  <1> QED
    BY <1>1, <1>2 DEF Stops

\* The stop times of a part of the queue are that part of the stop times
LEMMA StopsOfPart ==
    ASSUME NEW q \in Seq(SubPic), NEW a \in Nat \ {0}, NEW b \in 0 .. Len(q)
    PROVE  Stops(SubSeq(q, a, b)) = SubSeq(Stops(q), a, b)
  <1>1. Stops(q) \in Seq(Nat) /\ Len(q) \in Nat /\ Len(Stops(q)) = Len(q)
    BY StopsType
  <1>2. CASE b < a
    <2>1. SubSeq(q, a, b) = << >> /\ SubSeq(Stops(q), a, b) = << >>
      BY <1>1, <1>2
    <2> QED
      BY <2>1 DEF Stops
  <1>3. CASE a <= b
    <2> DEFINE part == SubSeq(q, a, b)
               stops == SubSeq(Stops(q), a, b)
    <2>1. /\ Len(part) = b - a + 1 /\ part \in Seq(SubPic)
          /\ \A i \in 1 .. b - a + 1 : part[i] = q[a + i - 1]
      BY <1>1, <1>3
    <2>2. /\ Len(stops) = b - a + 1 /\ stops \in Seq(Nat)
          /\ \A i \in 1 .. b - a + 1 : stops[i] = Stops(q)[a + i - 1]
      BY <1>1, <1>3
    <2>3. \A i \in 1 .. b - a + 1 : a + i - 1 \in 1 .. Len(q)
      BY <1>1, <1>3
    <2>4. stops = [i \in 1 .. b - a + 1 |-> stops[i]]
      BY <2>2
    <2>5. \A i \in 1 .. b - a + 1 : stops[i] = part[i].stop
      BY <2>1, <2>2, <2>3, StopsType
    <2> HIDE DEF part, stops
    <2>6. Stops(part) = stops
      BY <2>1, <2>4, <2>5 DEF Stops
    <2> QED
      BY <2>6 DEF part, stops
  <1> QED
    BY <1>1, <1>2, <1>3

\* How a step of the threads changes the queue
LEMMA QueueSteps ==
    ASSUME TypeOK, Place, OrderInv, [Next]_vars
    PROVE  \/ queue' = queue
           \/ \E k \in 0 .. Len(queue), rt \in Time :
                /\ k > 0 => queue[k].stop <= rt
                /\ \A i \in k + 1 .. Len(queue) : queue[i].stop > rt
                /\ queue' = SubSeq(queue, 1, k)
           \/ \E k \in 1 .. Len(queue) : queue' = SubSeq(queue, k + 1, Len(queue))
           \/ Room /\ pic \in SubPic /\ TailStop < pic.stop /\ queue' = Append(queue, pic)
  <1> DEFINE Done ==
           \/ queue' = queue
           \/ \E k \in 0 .. Len(queue), rt \in Time :
                /\ k > 0 => queue[k].stop <= rt
                /\ \A i \in k + 1 .. Len(queue) : queue[i].stop > rt
                /\ queue' = SubSeq(queue, 1, k)
           \/ \E k \in 1 .. Len(queue) : queue' = SubSeq(queue, k + 1, Len(queue))
           \/ Room /\ pic \in SubPic /\ TailStop < pic.stop /\ queue' = Append(queue, pic)
  <1>1. ASSUME NEW t \in Thread, InvalidatePurge(t) PROVE Done
    BY <1>1 DEF InvalidatePurge, TypeOK
  <1>2. CASE LookupSearch
    <2>1. PICK k \in 1 .. Len(queue) + 1 :
              \/ queue' = SubSeq(queue, k + 1, Len(queue)) /\ k <= Len(queue)
              \/ queue' = SubSeq(queue, k, Len(queue))
      BY <1>2 DEF LookupSearch, Taken
    <2>2. queue \in Seq(SubPic) /\ Len(queue) \in Nat
      BY DEF TypeOK
    <2>3. CASE queue' = SubSeq(queue, k + 1, Len(queue)) /\ k <= Len(queue)
      BY <2>2, <2>3
    <2>4. CASE queue' = SubSeq(queue, k, Len(queue)) /\ k = 1
      BY <2>2, <2>4
    <2>5. CASE queue' = SubSeq(queue, k, Len(queue)) /\ k # 1
      <3>1. k - 1 \in 1 .. Len(queue) /\ (k - 1) + 1 = k
        BY <2>2, <2>5
      <3>2. queue' = SubSeq(queue, (k - 1) + 1, Len(queue))
        BY <2>5, <3>1
      <3> QED
        BY <3>1, <3>2
    <2> QED
      BY <2>1, <2>3, <2>4, <2>5
  <1>3. ASSUME Add, Room, wpc \in {"enqueue", "block"} PROVE Done
    BY <1>3 DEF Add, Place, TypeOK, OrderInv
  <1>4. CASE RenderEnqueue
    BY <1>3, <1>4 DEF RenderEnqueue
  <1>5. CASE RenderBlock
    BY <1>3, <1>5 DEF RenderBlock
  <1>6. ASSUME NEW t \in Thread, InvalidateLower(t) \/ InvalidateSignal(t) PROVE Done
    BY <1>6 DEF InvalidateLower, InvalidateSignal
  <1>7. ASSUME NEW c \in Client, ClientCall(c) \/ DestroyProvider(c) \/ DestroyJoin(c) PROVE Done
    BY <1>7 DEF ClientCall, SetSubPicProvider, EditSubtitles, SetFPS, Destroy, DestroyProvider, DestroyJoin, shared
  <1>8. ASSUME NEW rt \in 0 .. MaxTime, SetTime(rt) PROVE Done
    BY <1>8 DEF SetTime
  <1>9. CASE LookupReuse \/ SetTimeCheck \/ SetTimeStamp
    BY <1>9 DEF LookupReuse, SetTimeCheck, SetTimeStamp, shared
  <1>10. CASE LookupFound \/ LookupAsk \/ LookupAwait \/ LookupTimeout \/ LookupSave
    BY <1>10 DEF LookupFound, LookupAsk, LookupAwait, LookupTimeout, LookupSave, shared
  <1>11. CASE \/ RenderTop \/ RenderWait \/ RenderFetch \/ RenderLock \/ RenderTail \/ RenderStart
              \/ RenderPos \/ RenderPicture \/ RenderLate \/ RenderUnlock \/ RenderNotify
    BY <1>11 DEF RenderTop, RenderWait, RenderFetch, RenderLock, RenderTail, RenderStart,
                 RenderPos, RenderPicture, RenderLate, RenderUnlock, RenderNotify, shared
  <1>12. ASSUME NEW why, RenderFails(why) PROVE Done
    BY <1>12 DEF RenderFails, shared
  <1>13. CASE UNCHANGED vars
    BY <1>13 DEF vars, shared
  <1>14. Done
    BY <1>1, <1>2, <1>4, <1>5, <1>6, <1>7, <1>8, <1>9, <1>10, <1>11, <1>12, <1>13, ThreadAssumption
       DEF Next, ClientStep, Invalidate, RendererStep, LookupStep, WorkerStep, Thread
  <1> QED
    BY <1>14

\* A step of the queue is a step of the buffer
LEMMA StepRefines ==
    ASSUME TypeOK, Place, OrderInv, TypeOK', OrderInv', [Next]_vars
    PROVE  Buffer!Next \/ UNCHANGED Stops(queue)
  <1>1. queue \in Seq(SubPic) /\ queue' \in Seq(SubPic) /\ Len(queue) \in Nat
    BY DEF TypeOK
  <1>2. /\ Len(Stops(queue)) = Len(queue) /\ Stops(queue) \in Seq(Nat)
        /\ \A i \in 1 .. Len(queue) : Stops(queue)[i] = queue[i].stop /\ queue[i].stop \in Nat
    BY <1>1, StopsType
  <1>3. CASE queue' = queue
    BY <1>3 DEF Stops
  <1>4. ASSUME NEW k \in 0 .. Len(queue), NEW rt \in Time, k > 0 => queue[k].stop <= rt,
               \A i \in k + 1 .. Len(queue) : queue[i].stop > rt, queue' = SubSeq(queue, 1, k)
        PROVE  Buffer!Cut
    <2> DEFINE last == IF k = 0 THEN -1 ELSE queue[k].stop
    <2>1. last \in {-1} \cup {Stops(queue)[i] : i \in 1 .. Len(queue)}
      BY <1>2
    <2>2. ASSUME NEW i \in 1 .. Len(queue) PROVE i <= k <=> Stops(queue)[i] <= last
      <3>1. CASE i <= k
        BY <1>1, <1>2, <2>2, <3>1 DEF OrderInv, StopsAscend
      <3>2. CASE k < i
        BY <1>1, <1>2, <1>4, <2>2, <3>2 DEF Time, OrderInv, StopsAscend
      <3> QED
        BY <1>1, <3>1, <3>2
    <2>3. Stops(queue') = SubSeq(Stops(queue), 1, k)
      BY <1>1, <1>4, StopsOfPart
    <2> QED
      BY <1>2, <2>1, <2>2, <2>3 DEF Buffer!Cut, Stops
  <1>5. ASSUME NEW k \in 1 .. Len(queue), queue' = SubSeq(queue, k + 1, Len(queue)) PROVE Buffer!Take
    <2>1. k + 1 \in Nat \ {0} /\ Len(queue) \in 0 .. Len(queue)
      BY <1>1
    <2>2. Stops(queue') = SubSeq(Stops(queue), k + 1, Len(Stops(queue)))
      BY <1>1, <1>2, <1>5, <2>1, StopsOfPart
    <2> QED
      BY <1>2, <2>2 DEF Buffer!Take, Stops
  <1>6. CASE Room /\ pic \in SubPic /\ TailStop < pic.stop /\ queue' = Append(queue, pic)
    <2>1. /\ Len(queue') = Len(queue) + 1 /\ \A i \in 1 .. Len(queue) : queue'[i] = queue[i]
          /\ queue'[Len(queue) + 1] = pic
      BY <1>1, <1>6
    <2>2. Len(Stops(queue')) = Len(queue') /\ Stops(queue') \in Seq(Nat)
      BY <1>1, StopsType
    <2>3. SubSeq(queue', 1, Len(queue)) = queue
      BY <1>1, <2>1
    <2>4. 1 \in Nat \ {0} /\ Len(queue) \in 0 .. Len(queue')
      BY <1>1, <2>1
    <2>5. Stops(queue) = SubSeq(Stops(queue'), 1, Len(queue))
      BY <1>1, <2>3, <2>4, StopsOfPart
    <2>6. Stops(queue')[Len(queue) + 1] = pic.stop
      BY <1>1, <2>1 DEF Stops
    <2>7. ASSUME NEW i \in 1 .. Len(queue) PROVE Stops(queue)[i] < Stops(queue')[Len(queue) + 1]
      <3>1. TailStop = queue[Len(queue)].stop /\ Len(queue) \in 1 .. Len(queue)
        BY <1>1, <2>7 DEF TailStop
      <3>2. queue[i].stop <= queue[Len(queue)].stop
        BY <1>1, <1>2, <2>7, <3>1 DEF OrderInv, StopsAscend
      <3>3. pic.stop \in Nat
        BY <1>6 DEF SubPic
      <3> QED
        BY <1>2, <1>6, <2>6, <3>1, <3>2, <3>3
    <2>8. Len(Stops(queue)) < Size
      BY <1>2, <1>6 DEF Room
    <2>9. /\ Len(Stops(queue')) = Len(Stops(queue)) + 1
          /\ Stops(queue) = SubSeq(Stops(queue'), 1, Len(Stops(queue)))
          /\ \A i \in 1 .. Len(Stops(queue)) : Stops(queue)[i] < Stops(queue')[Len(Stops(queue)) + 1]
      BY <1>2, <2>1, <2>2, <2>5, <2>7
    <2>10. Buffer!Put
      BY <2>8, <2>9 DEF Buffer!Put, Stops
    <2> QED
      BY <2>10 DEF Buffer!Next
  <1> QED
    BY <1>3, <1>4, <1>5, <1>6, QueueSteps DEF Buffer!Next

\* The queue of pre-rendered pictures behaves as the buffer of TimedBuffer, whatever its
\* threads do and whatever fails.
THEOREM QueueIsBuffer == Spec => ImplementsBuffer
  <1>1. Init => Buffer!Init
    BY DEF Init, Buffer!Init
  <1>2. /\ TypeOK /\ Place /\ OrderInv /\ (TypeOK /\ Place /\ OrderInv)' /\ [Next]_vars
        => [Buffer!Next]_([i \in 1 .. Len(queue) |-> queue[i].stop])
    BY StepRefines DEF Stops
  <1> QED
    BY Inductive, <1>1, <1>2, PTL DEF Spec, ImplementsBuffer, Buffer!Spec
=============================================================================

------------------------ MODULE SplitterOrderProofs ------------------------
(* Packets of a run are delivered under its segment and in order.  Both     *)
(* arguments span the three threads: what a flush spoils for a pin stays    *)
(* covered by its m_fFlushing until the demultiplexer has begun the next    *)
(* run, and what a failure spoils by its m_hrDeliver.  A third theorem says *)
(* that the threads never wait for each other in vain.                      *)
EXTENDS SplitterProofs

\* The demultiplexer has announced its run
Playing == {"loop", "queue", "add", "added", "eos"}
Announcing == {"announce", "segment"}

\* The demultiplexer has answered the call, if there is one, and the flush is being ended
Answered ==
    \/ apc \in {"up", "accept", "ended", "end"}
    \/ apc = "called" /\ cmd = "none"

\* While a flush is ended the demultiplexer is gone or waits for it, with m_eEndFlush reset
FlushOrder ==
    /\ apc # "idle" => call # "none"
    /\ Answered => dpc = "off" \/ (dpc = "wait" /\ ~fEnd)
    /\ dpc \in Announcing \cup Playing => ~fEnd

Begun == dpc \notin {"off", "start", "begin"} => run >= 1

\* Where a pin is active
ActiveInv ==
    /\ dpc = "announce" => \A p \in active : p < dpin
    /\ dpc = "segment" => \A p \in active : p <= dpin
    /\ dpc \in {"queue", "add", "added"} => dpin \in active

\* The packets of a pin, on their way downstream
Has(p) == {packet[p]} \cup {queue[p][i] : i \in 1 .. Len(queue[p])}

\* No packet is of a run to come, nor of a run whose segments are not announced
Past ==
    \A p \in Pin : \A k \in Has(p) :
        k.run <= run /\ (dpc \in {"wait"} \cup Announcing => k.run < run)

\* A pin that may deliver a packet of the run knows its segment
Told(p) ==
    \/ raced[p] \/ flushing[p]
    \/ /\ dpc \in Playing /\ (p \in active \/ \E k \in Has(p) : k.run = run) => seg[p] = run
       /\ dpc \in Announcing /\ p \in active /\ p < dpin => seg[p] = run

SegmentInv ==
    FlushOrder /\ Begun /\ ActiveInv /\ Past /\ \A p \in Pin : Told(p)

-----------------------------------------------------------------------------
USE DEF app, filter, demux, flags, thread, downstream, history, vars

LEMMA InitSegment == Init => SegmentInv
<1> SUFFICES ASSUME Init PROVE SegmentInv
  OBVIOUS
<1>1. FlushOrder /\ Begun /\ ActiveInv
  BY DEF Init, FlushOrder, Answered, Begun, ActiveInv, Announcing, Playing
<1>2. Past
  <2> SUFFICES ASSUME NEW p \in Pin, NEW k \in Has(p) PROVE k.run <= run
    BY DEF Past, Init, Announcing
  <2>1. k = NoPacket
    BY DEF Has, Init, Nothing
  <2> QED
    BY <2>1, NoPacketType DEF Init
<1>3. \A p \in Pin : Told(p)
  BY DEF Told, Init, Playing, Announcing
<1> QED
  BY <1>1, <1>2, <1>3 DEF SegmentInv

\* The flush ends while the demultiplexer waits.
LEMMA NextFlushOrder ==
    ASSUME FlushOrder, Requested, AppType, DemuxType, [Next]_vars PROVE FlushOrder'
<1> USE DEF FlushOrder, Answered, Announcing, Playing
<1>1. CASE Pause
  BY <1>1 DEF Pause, ThreadExists
<1>2. CASE Seek \/ Stop
  BY <1>2 DEF Seek, Stop, BeginFlush, ThreadExists
<1>3. CASE ResetPin \/ FlushPin \/ RefusePackets \/ ClearQueue \/ FlushDownstream
  BY <1>3 DEF ResetPin, FlushPin, RefusePackets, ClearQueue, FlushDownstream, Turn
<1>4. CASE CallDemux
  BY <1>4 DEF CallDemux, ThreadExists
<1>5. CASE Called \/ SkipPin \/ EndFlushDownstream \/ AcceptPackets \/ EndFlushPin
  BY <1>5 DEF Called, SkipPin, EndFlushDownstream, AcceptPackets, EndFlushPin, Turn
<1>6. CASE EndFlush
  BY <1>6 DEF EndFlush
<1>7. CASE ExitPin \/ Exited
  BY <1>7, OutputsAssumption DEF ExitPin, Exited, Turn, AppType, Pin
<1>8. CASE DemuxStart \/ DemuxBegin \/ DemuxWait \/ DemuxAnnounce \/ DemuxSegment \/ DemuxAnnounced
  BY <1>8 DEF DemuxStart, DemuxBegin, NewRun, DemuxWait, FlushAwaited, DemuxAnnounce, DemuxSegment,
      DemuxAnnounced
<1>9. CASE (\E p \in Pin : DemuxRead(p)) \/ DemuxLoopEnds \/ DemuxQueue \/ DemuxAdd
  BY <1>9 DEF DemuxRead, DemuxLoopEnds, DemuxQueue, DemuxAdd
<1>10. CASE DemuxQueued \/ DemuxRefused \/ DemuxEnd
  BY <1>10 DEF DemuxQueued, DemuxRefused, AfterQueue, DemuxEnd
<1>11. CASE DemuxRequest
  BY <1>11 DEF DemuxRequest, NewRun, Requested
<1>12. ASSUME NEW p \in Pin, PinStep(p) \/ PinDelivery(p) PROVE FlushOrder'
  BY <1>12, PinFrame
<1>13. CASE UNCHANGED vars
  BY <1>13
<1> QED
  BY <1>1, <1>2, <1>3, <1>4, <1>5, <1>6, <1>7, <1>8, <1>9, <1>10, <1>11, <1>12, <1>13
  DEF Next, AppStep, DemuxStep

\* The active pins, and that a run has begun.
LEMMA NextActive ==
    ASSUME ActiveInv, Begun, DemuxType, AppType, [Next]_vars PROVE ActiveInv' /\ Begun'
<1> USE OutputsAssumption DEF ActiveInv, Begun, DemuxType, Pin, Run
<1>1. CASE Pause
  BY <1>1 DEF Pause
<1>2. CASE Seek \/ Stop \/ AppStep
  <2>1. UNCHANGED <<demux, active>>
    BY <1>2, AppFrame DEF AppStep, Seek, Stop, BeginFlush, ResetPin, FlushPin, RefusePackets,
       ClearQueue, FlushDownstream, CallDemux, Called, SkipPin, EndFlushDownstream, AcceptPackets,
       EndFlushPin, EndFlush, ExitPin, Exited
  <2> QED
    BY <2>1
<1>3. CASE DemuxStart \/ DemuxBegin \/ DemuxWait
  BY <1>3 DEF DemuxStart, DemuxBegin, NewRun, DemuxWait
<1>4. CASE DemuxAnnounce
  <2>0. dpc = "announce" /\ run' = run /\ (dpc' = "segment" \/ dpc' = "announce")
    BY <1>4 DEF DemuxAnnounce
  <2>1. dpin \in Int /\ Begun' /\ \A p \in active : p \in Int /\ p < dpin
    BY <2>0 DEF AppType
  <2>2. CASE dpc' = "segment"
    <3>1. dpin' = dpin /\ active' = active \cup {dpin}
      BY <1>4, <2>2 DEF DemuxAnnounce
    <3> QED
      BY <2>1, <2>2, <3>1
  <2>3. CASE dpc' = "announce"
    <3>1. dpin' = dpin + 1 /\ active' = active
      BY <1>4, <2>3 DEF DemuxAnnounce
    <3> QED
      BY <2>1, <2>3, <3>1
  <2> QED
    BY <2>0, <2>1, <2>2, <2>3
<1>5. CASE DemuxSegment \/ DemuxAnnounced
  <2>1. dpin \in Int /\ active' = active /\ Begun' /\ \A p \in active : p \in Int
    BY <1>5 DEF DemuxSegment, DemuxAnnounced, AppType
  <2>2. CASE dpc' = "announce"
    <3>1. dpc = "segment" /\ dpin' = dpin + 1
      BY <1>5, <2>2 DEF DemuxSegment, DemuxAnnounced
    <3> QED
      BY <2>1, <2>2, <3>1
  <2>3. CASE dpc' = "loop"
    BY <2>1, <2>3
  <2> QED
    BY <1>5, <2>2, <2>3 DEF DemuxSegment, DemuxAnnounced
<1>6. CASE (\E p \in Pin : DemuxRead(p)) \/ DemuxLoopEnds \/ DemuxQueue \/ DemuxAdd
  BY <1>6 DEF DemuxRead, DemuxLoopEnds, DemuxQueue, DemuxAdd
<1>7. CASE DemuxQueued \/ DemuxRefused \/ DemuxEnd
  BY <1>7 DEF DemuxQueued, DemuxRefused, AfterQueue, DemuxEnd
<1>8. CASE DemuxRequest
  BY <1>8 DEF DemuxRequest, NewRun
<1>9. ASSUME NEW p \in Pin, PinStep(p) \/ PinDelivery(p) PROVE ActiveInv' /\ Begun'
  BY <1>9, PinFrame
<1>10. CASE UNCHANGED vars
  BY <1>10
<1> QED
  BY <1>1, <1>2, <1>3, <1>4, <1>5, <1>6, <1>7, <1>8, <1>9, <1>10 DEF Next, DemuxStep

\* The parts of a queue hold nothing new.
LEMMA Parts ==
    ASSUME NEW s \in Seq(Packet), NEW k \in Packet
    PROVE  /\ s # << >> => /\ Head(s) \in {s[i] : i \in 1 .. Len(s)}
                           /\ \A j \in 1 .. Len(Tail(s)) : Tail(s)[j] \in {s[i] : i \in 1 .. Len(s)}
           /\ \A j \in 1 .. Len(Append(s, k)) :
                Append(s, k)[j] \in {s[i] : i \in 1 .. Len(s)} \cup {k}
<1>1. s # << >> => 1 \in 1 .. Len(s) /\ Head(s) = s[1]
  OBVIOUS
<1>2. s # << >> => \A j \in 1 .. Len(Tail(s)) : j + 1 \in 1 .. Len(s) /\ Tail(s)[j] = s[j + 1]
  OBVIOUS
<1>3. \A j \in 1 .. Len(Append(s, k)) :
        IF j \in 1 .. Len(s) THEN Append(s, k)[j] = s[j] ELSE Append(s, k)[j] = k
  OBVIOUS
<1> QED
  BY <1>1, <1>2, <1>3

\* What a pin has: packets leave it, and only the demultiplexer adds one.
LEMMA HasOld ==
    ASSUME PinType, DownstreamType, DemuxType, [Next]_vars, NEW q \in Pin
    PROVE  \A k \in Has(q)' :
             k \in Has(q) \/ k = NoPacket \/ (DemuxAdd /\ q = dpin /\ k = dpacket)
<1> DEFINE Held == {queue[q][i] : i \in 1 .. Len(queue[q])}
<1> USE DEF Has
<1>1. queue[q] \in Seq(Packet) /\ dpacket \in Packet
  BY DEF PinType, DemuxType
<1>2. CASE Pause \/ UNCHANGED vars
  BY <1>2 DEF Pause
<1>3. CASE Seek \/ Stop \/ AppStep
  <2>1. packet' = packet
    BY <1>3, AppFrame
  <2>2. queue'[q] \in {queue[q], << >>}
    BY <1>3, <1>1 DEF AppStep, Seek, Stop, BeginFlush, ResetPin, FlushPin, RefusePackets,
       ClearQueue, Cleared, FlushDownstream, CallDemux, Called, SkipPin, EndFlushDownstream,
       AcceptPackets, EndFlushPin, EndFlush, ExitPin, Exited, PinType
  <2> QED
    BY <2>1, <2>2
<1>4. CASE DemuxAdd
  <2>1. packet' = packet /\ (q # dpin => queue'[q] = queue[q])
        /\ (q = dpin => queue'[q] = Append(queue[q], dpacket))
    BY <1>4 DEF DemuxAdd, PinType
  <2> QED
    BY <1>1, <1>4, <2>1, Parts
<1>5. CASE DemuxStep /\ ~DemuxAdd
  <2>1. packet' = packet
    BY <1>5, DemuxFrame
  <2>2. queue' = queue
    BY <1>5 DEF DemuxStep, DemuxStart, DemuxBegin, DemuxWait, DemuxAnnounce, DemuxSegment,
       DemuxAnnounced, DemuxRead, DemuxLoopEnds, DemuxQueue, DemuxQueued, DemuxRefused, DemuxEnd,
       DemuxRequest
  <2> QED
    BY <2>1, <2>2
<1>6. ASSUME NEW p \in Pin, PinTake(p) PROVE \A k \in Has(q)' : k \in Has(q)
  <2>1. p # q => packet'[q] = packet[q] /\ queue'[q] = queue[q]
    BY <1>6 DEF PinTake, PinType
  <2>2. p = q => queue[q] # << >> /\ packet'[q] = Head(queue[q]) /\ queue'[q] = Tail(queue[q])
    BY <1>6 DEF PinTake, PinType
  <2> QED
    <3>1. CASE p # q
      BY <2>1, <3>1
    <3>2. CASE p = q
      <4>1. Head(queue[q]) \in Held /\ \A j \in 1 .. Len(Tail(queue[q])) : Tail(queue[q])[j] \in Held
        BY <1>1, <2>2, <3>2, Parts
      <4> HIDE DEF Held
      <4>2. \A k \in Has(q)' : k \in Held
        BY <2>2, <3>2, <4>1
      <4> QED
        BY <4>2 DEF Held
    <3> QED
      BY <3>1, <3>2
<1>7. ASSUME NEW p \in Pin, (PinStep(p) /\ ~PinTake(p)) \/ PinDelivery(p)
      PROVE  \A k \in Has(q)' : k \in Has(q) \/ k = NoPacket
  <2>1. queue' = queue
    BY <1>7 DEF PinStep, PinDelivery, PinStart, PinRestart, PinExit, PinFindsNone, PinTest,
       PinPlace, PinWait, PinCheck, PinReport, PinGrows, PinDelivers, PinFails
  <2>2. packet'[q] \in {packet[q], NoPacket}
    BY <1>7 DEF PinStep, PinDelivery, PinStart, PinRestart, PinExit, PinFindsNone, PinTest,
       PinPlace, PinWait, PinCheck, PinReport, PinGrows, PinDelivers, PinFails, Onward, Forget,
       Remember, PinType
  <2> QED
    BY <2>1, <2>2
<1> QED
  BY <1>2, <1>3, <1>4, <1>5, <1>6, <1>7 DEF Next, PinStep

\* A run begins with the wait; nothing else leads back before the announcements.
LEMMA RunStep ==
    ASSUME [Next]_vars
    PROVE  \/ run' = run + 1 /\ dpc' = "wait"
           \/ run' = run /\ (dpc' \in {"wait"} \cup Announcing => dpc \in {"wait"} \cup Announcing)
<1> USE DEF Announcing
<1>1. CASE Pause \/ UNCHANGED vars
  BY <1>1 DEF Pause
<1>2. CASE Seek \/ Stop \/ AppStep
  BY <1>2, AppFrame
<1>3. CASE DemuxStart \/ DemuxBegin \/ DemuxWait \/ DemuxAnnounce \/ DemuxSegment \/ DemuxAnnounced
  BY <1>3 DEF DemuxStart, DemuxBegin, NewRun, DemuxWait, DemuxAnnounce, DemuxSegment, DemuxAnnounced
<1>4. CASE (\E p \in Pin : DemuxRead(p)) \/ DemuxLoopEnds \/ DemuxQueue \/ DemuxAdd
  BY <1>4 DEF DemuxRead, DemuxLoopEnds, DemuxQueue, DemuxAdd
<1>5. CASE DemuxQueued \/ DemuxRefused \/ DemuxEnd \/ DemuxRequest
  BY <1>5 DEF DemuxQueued, DemuxRefused, AfterQueue, DemuxEnd, DemuxRequest, NewRun
<1>6. ASSUME NEW p \in Pin, PinStep(p) \/ PinDelivery(p) PROVE run' = run /\ dpc' = dpc
  BY <1>6, PinFrame
<1> QED
  BY <1>1, <1>2, <1>3, <1>4, <1>5, <1>6 DEF Next, DemuxStep

\* Packets are of the runs begun.
LEMMA NextPast ==
    ASSUME Past, Begun', Queueing, PinType, DownstreamType, DemuxType, DemuxType', [Next]_vars
    PROVE  Past'
<1> SUFFICES ASSUME NEW q \in Pin, NEW k \in Has(q)'
             PROVE  k.run <= run' /\ (dpc' \in {"wait"} \cup Announcing => k.run < run')
  BY DEF Past
<1>1. run \in Nat /\ run' \in Nat
  BY BoundAssumption DEF DemuxType, Run
<1>2. CASE k \in Has(q)
  <2>1. k.run \in Nat
    <3>1. packet[q] \in Packet /\ \A i \in 1 .. Len(queue[q]) : queue[q][i] \in Packet
      BY DEF PinType
    <3>2. k \in Packet
      BY <1>2, <3>1 DEF Has
    <3> QED
      BY <3>2, BoundAssumption DEF Packet, Run
  <2> QED
    BY <1>1, <1>2, <2>1, RunStep DEF Past
<1>3. CASE k = NoPacket
  BY <1>1, <1>3, NoPacketType DEF Begun, Announcing
<1>4. CASE DemuxAdd /\ k = dpacket
  BY <1>1, <1>4 DEF DemuxAdd, Queueing, Announcing
<1> QED
  BY <1>2, <1>3, <1>4, HasOld

\* The application stops flushing a pin only while the demultiplexer is gone or waits.
LEMMA FlushKept ==
    ASSUME FlushOrder, PinType, Seek \/ Stop \/ AppStep, NEW q \in Pin, flushing[q]
    PROVE  flushing'[q] \/ dpc \in {"off", "wait"}
<1>1. CASE EndFlushPin
  BY <1>1 DEF EndFlushPin, FlushOrder, Answered
<1>2. CASE FlushPin
  BY <1>2 DEF FlushPin, PinType, Flag
<1>3. CASE Seek \/ Stop \/ ResetPin \/ RefusePackets \/ ClearQueue \/ FlushDownstream \/ CallDemux
  BY <1>3 DEF Seek, Stop, BeginFlush, ResetPin, RefusePackets, ClearQueue, FlushDownstream, CallDemux
<1>4. CASE Called \/ SkipPin \/ EndFlushDownstream \/ AcceptPackets \/ EndFlush \/ ExitPin \/ Exited
  BY <1>4 DEF Called, SkipPin, EndFlushDownstream, AcceptPackets, EndFlush, ExitPin, Exited
<1> QED
  BY <1>1, <1>2, <1>3, <1>4 DEF AppStep

\* A pin's thread ends a flush only if it then counts as raced, and announces no segment.
LEMMA PinKeeps ==
    ASSUME PinType, DownstreamType, NEW p \in Pin, PinStep(p) \/ PinDelivery(p), NEW q \in Pin
    PROVE  /\ UNCHANGED <<demux, active, seg>>
           /\ raced[q] \/ flushing[q] => raced'[q] \/ flushing'[q]
<1>1. UNCHANGED <<demux, active>>
  BY PinFrame
<1>2. CASE PinStart(p)
  BY <1>1, <1>2 DEF PinStart, PinType, DownstreamType, Flag
<1>3. CASE (PinStep(p) /\ ~PinStart(p)) \/ PinDelivery(p)
  BY <1>1, <1>3 DEF PinStep, PinDelivery, PinRestart, PinExit, PinTake, PinFindsNone, PinTest,
     PinPlace, PinWait, PinCheck, PinReport, PinGrows, PinDelivers, PinFails
<1> QED
  BY <1>2, <1>3 DEF PinStep

\* Each pin that may deliver knows the segment.
LEMMA NextTold ==
    ASSUME SegmentInv, Begun', Queueing, PinType, DownstreamType, DemuxType, AppType,
           [Next]_vars, NEW q \in Pin
    PROVE  Told(q)'
<1> DEFINE ofRun == \E k \in Has(q) : k.run = run
<1>1. Told(q) /\ FlushOrder /\ ActiveInv /\ Past /\ Begun
  BY DEF SegmentInv
<1>2. run \in Nat /\ dpin \in Int /\ active \subseteq Int /\ q \in Int
  BY BoundAssumption DEF DemuxType, AppType, Run, Pin
<1>3. ASSUME run' = run, dpc' \in Playing PROVE ofRun' => ofRun \/ (DemuxAdd /\ q = dpin)
  <2>1. run >= 1
    BY <1>3 DEF Begun, Playing
  <2> QED
    BY <1>2, <1>3, <2>1, HasOld, NoPacketType
<1> HIDE DEF ofRun
<1>4. Told(q) <=> \/ raced[q] \/ flushing[q]
                  \/ /\ dpc \in Playing /\ (q \in active \/ ofRun) => seg[q] = run
                     /\ dpc \in Announcing /\ q \in active /\ q < dpin => seg[q] = run
  BY DEF Told, ofRun
<1>5. Told(q)' <=> \/ raced'[q] \/ flushing'[q]
                   \/ /\ dpc' \in Playing /\ (q \in active' \/ ofRun') => seg'[q] = run'
                      /\ dpc' \in Announcing /\ q \in active' /\ q < dpin' => seg'[q] = run'
  BY DEF Told, ofRun
<1> USE <1>1, <1>2, <1>4, <1>5 DEF Playing, Announcing
<1>6. CASE Pause
  BY <1>6 DEF Pause
<1>7. CASE Seek \/ Stop \/ AppStep
  <2>1. UNCHANGED <<demux, seg, raced>>
    BY <1>7, AppFrame
  <2>2. active' = active
    BY <1>7 DEF AppStep, Seek, Stop, BeginFlush, ResetPin, FlushPin, RefusePackets,
       ClearQueue, FlushDownstream, CallDemux, Called, SkipPin, EndFlushDownstream, AcceptPackets,
       EndFlushPin, EndFlush, ExitPin, Exited
  <2>3. flushing[q] => flushing'[q] \/ dpc \in {"off", "wait"}
    BY <1>7, FlushKept
  <2>4. dpc \in Playing => (ofRun' => ofRun)
    BY <1>3, <2>1 DEF DemuxAdd
  <2> QED
    BY <2>1, <2>2, <2>3, <2>4
<1>8. CASE DemuxStep
  <2>1. UNCHANGED <<flushing, raced>>
    BY <1>8, DemuxFrame
  <2>2. CASE DemuxStart \/ DemuxBegin \/ DemuxWait
    BY <2>2 DEF DemuxStart, DemuxBegin, NewRun, DemuxWait
  <2>3. CASE DemuxAnnounce
    BY <2>1, <2>3 DEF DemuxAnnounce, ActiveInv
  <2>4. CASE DemuxSegment
    BY <2>1, <2>4 DEF DemuxSegment, DownstreamType
  <2>5. CASE DemuxAnnounced
    <3>1. ~ ofRun
      BY <2>5 DEF DemuxAnnounced, Past, ofRun
    <3>2. ~ ofRun'
      BY <1>3, <2>5, <3>1 DEF DemuxAnnounced, DemuxAdd
    <3> QED
      BY <2>1, <2>5, <3>2 DEF DemuxAnnounced, ActiveInv
  <2>6. CASE (\E p \in Pin : DemuxRead(p)) \/ DemuxLoopEnds \/ DemuxQueue
    <3>1. run' = run /\ seg' = seg /\ active' = active /\ dpc \in Playing /\ dpc' \in Playing
          /\ ~DemuxAdd
      BY <2>6 DEF DemuxRead, DemuxLoopEnds, DemuxQueue, DemuxAdd
    <3> QED
      BY <1>3, <2>1, <3>1
  <2>7. CASE DemuxAdd
    <3>1. run' = run /\ seg' = seg /\ active' = active /\ dpc = "add" /\ dpc' = "added"
      BY <2>7 DEF DemuxAdd
    <3> QED
      BY <1>3, <2>1, <3>1 DEF ActiveInv
  <2>8. CASE DemuxQueued \/ DemuxRefused \/ DemuxEnd
    <3>1. run' = run /\ seg' = seg /\ active' \subseteq active /\ dpc \in Playing
          /\ dpc' \in Playing /\ ~DemuxAdd
      BY <2>8 DEF DemuxQueued, DemuxRefused, AfterQueue, DemuxEnd, DemuxAdd
    <3> QED
      BY <1>3, <2>1, <3>1
  <2>9. CASE DemuxRequest
    BY <2>9 DEF DemuxRequest, NewRun
  <2> QED
    BY <1>8, <2>2, <2>3, <2>4, <2>5, <2>6, <2>7, <2>8, <2>9 DEF DemuxStep
<1>9. ASSUME NEW p \in Pin, PinStep(p) \/ PinDelivery(p) PROVE Told(q)'
  <2>1. UNCHANGED <<demux, active, seg>> /\ (raced[q] \/ flushing[q] => raced'[q] \/ flushing'[q])
    BY <1>9, PinKeeps
  <2>2. dpc \in Playing => (ofRun' => ofRun)
    BY <1>3, <2>1 DEF DemuxAdd
  <2> QED
    BY <2>1, <2>2
<1>10. CASE UNCHANGED vars
  <2>1. ofRun' <=> ofRun
    BY <1>10 DEF ofRun, Has
  <2> QED
    BY <1>10, <2>1
<1> QED
  BY <1>6, <1>7, <1>8, <1>9, <1>10 DEF Next

\* Every step keeps the invariant.
LEMMA NextSegment == ASSUME IInv, IInv', SegmentInv, [Next]_vars PROVE SegmentInv'
<1> USE DEF IInv, TypeOK, Place
<1>1. FlushOrder' /\ ActiveInv' /\ Begun'
  BY NextFlushOrder, NextActive DEF SegmentInv
<1>2. Past'
  BY <1>1, NextPast DEF SegmentInv
<1>3. \A q \in Pin : Told(q)'
  BY <1>1, NextTold
<1> QED
  BY <1>1, <1>2, <1>3 DEF SegmentInv

\* What arrives in a step is a packet of the run, which the pin's thread had in hand.
LEMMA ArrivesTold ==
    ASSUME IInv, SegmentInv, [Next]_vars, NEW q \in Pin, Arrives(q)
    PROVE  seg[q] = run
<1> USE DEF IInv, TypeOK
<1>1. run >= 1 /\ ~raced[q] /\ ~flushing[q] /\ got'[q] # got[q] /\ got'[q].run = run
  BY DEF Arrives, SegmentInv, Begun
<1>2. \A p \in Pin : got'[p] = NoPacket => p # q
  BY <1>1, NoPacketType
<1>3. CASE Pause \/ UNCHANGED vars
  BY <1>1, <1>3 DEF Pause
<1>4. CASE Seek \/ Stop \/ AppStep
  BY <1>1, <1>4, AppFrame
<1>5. CASE DemuxStep
  <2>1. got' \in {got, Nothing}
    BY <1>5 DEF DemuxStep, DemuxStart, DemuxBegin, NewRun, DemuxWait, DemuxAnnounce, DemuxSegment,
       DemuxAnnounced, DemuxRead, DemuxLoopEnds, DemuxQueue, DemuxAdd, DemuxQueued, DemuxRefused,
       DemuxEnd, DemuxRequest
  <2> QED
    BY <1>1, <1>2, <2>1 DEF Nothing
<1>6. ASSUME NEW p \in Pin, PinDelivers(p) PROVE seg[q] = run
  <2>1. got'[q] = packet[q] /\ packet[q].run = run
    BY <1>1, <1>6 DEF PinDelivers, DownstreamType
  <2>2. packet[q] \in Has(q)
    BY DEF Has
  <2>3. dpc \in {"wait"} \cup Announcing \cup Playing
    BY DEF Arrives, DemuxType, DemuxPlace, Announcing, Playing
  <2>4. dpc \in Playing
    BY <2>1, <2>2, <2>3, BoundAssumption DEF SegmentInv, Past, DemuxType, Run
  <2> QED
    BY <1>1, <2>1, <2>2, <2>4 DEF SegmentInv, Told
<1>7. ASSUME NEW p \in Pin, PinStep(p) \/ PinGrows(p) \/ PinFails(p) PROVE got' = got
  BY <1>7 DEF PinStep, PinStart, PinRestart, PinExit, PinTake, PinFindsNone, PinTest,
     PinPlace, PinWait, PinCheck, PinReport, PinGrows, PinFails
<1> QED
  BY <1>1, <1>3, <1>4, <1>5, <1>6, <1>7 DEF Next, PinDelivery

\* A packet of the present run is delivered under the present run's segment, unless the pin
\* is being flushed, however a seek meets the announcements and the pins' threads.
THEOREM SegmentFits == Spec => UnderItsSegment
<1>1. Init => IInv /\ SegmentInv
  BY InitInv, InitSegment
<1>2. IInv /\ SegmentInv /\ [Next]_vars => (IInv /\ SegmentInv)'
  BY NextInv, NextSegment
<1>3. IInv /\ SegmentInv /\ [Next]_vars => [\A p \in Pin : Arrives(p) => seg[p] = run]_vars
  BY ArrivesTold
<1> QED
  BY <1>1, <1>2, <1>3, PTL DEF Spec, UnderItsSegment
-----------------------------------------------------------------------------
(* The order of a pin's packets.  They form a line: what the pin downstream *)
(* has got, what the thread has in hand, the queue, what the demultiplexer  *)
(* is adding.  Their numbers ascend by one along it, up to sent[p].         *)

\* The end of the stream comes after the last packet
Value(p, k) == IF k.number = EndOfStream THEN sent[p] + 1 ELSE k.number

Before == {"test", "place", "deliver"}      \* the packet in hand is not delivered yet

Got(p) == IF got[p].run = run THEN Value(p, got[p]) ELSE 0
Passed(p) == IF packet[p].run = run THEN Value(p, packet[p]) ELSE Got(p)
OldHead(p) == IF queue[p] # << >> /\ queue[p][1].run # run THEN 1 ELSE 0
OnItsWay(p) ==
    IF dpc \in {"queue", "add"} /\ dpin = p /\ dpacket.number # EndOfStream THEN 1 ELSE 0

\* There is more to come for a pin
Open(p) ==
    /\ p \in active
    /\ \/ dpc = "loop"
       \/ dpc \in {"queue", "add"} /\ (dpacket.number # EndOfStream \/ dpin <= p)
       \/ dpc = "added" /\ (dpacket.number # EndOfStream \/ dpin < p)
       \/ dpc = "eos" /\ dpin <= p

InHandNext(p) ==
    packet[p].run = run =>
        /\ ppc[p] \in Before => Value(p, packet[p]) = Got(p) + 1
        /\ ppc[p] = "wait" => got[p] = packet[p]

Lined(p) ==
    /\ InHandNext(p)
    /\ \A i \in 1 .. Len(queue[p]) :
         queue[p][i].run = run => Value(p, queue[p][i]) = Passed(p) + i - OldHead(p)
    /\ Open(p) => sent[p] - OnItsWay(p) = Passed(p) + Len(queue[p]) - OldHead(p)

\* A packet of the run was not delivered: the pin delivers no other until it is flushed
Broken(p) ==
    \/ hr[p] # "ok" /\ ppc[p] \in {"off", "restart", "idle", "take", "test"}
    \/ ppc[p] \in {"wait", "check", "report"} /\ packet[p].run = run /\ res[p] # "ok"

Ordered(p) == raced[p] \/ flushing[p] \/ dpc \notin Playing \/ Broken(p) \/ Lined(p)

\* Only a thread that delivers has a packet of the run, and no flush excuses it
HandInv ==
    \A p \in Pin : dpc \in Playing /\ packet[p].run = run =>
        /\ ppc[p] \notin {"off", "start", "restart", "idle", "take"}
        /\ ppc[p] \in {"deliver", "wait", "check"} => ~flushed[p]

\* What is got is of the run, and nothing at its beginning
GotInv ==
    /\ \A p \in Pin : got[p].run # run => got[p] = NoPacket
    /\ dpc \in {"wait"} \cup Announcing => got = Nothing /\ sent = [p \in Pin |-> 0]

\* The packets are those made for the pin
NumberInv ==
    /\ \A p \in Pin : \A k \in Has(p) : k.run = run => k.number <= sent[p]
    /\ dpc \in {"queue", "add", "added"} => dpacket.number \in {EndOfStream, sent[dpin]}

\* While there are packets of the file to come, no pin has an end of the stream
EndInv ==
    dpc = "loop" \/ (dpc \in {"queue", "add", "added"} /\ dpacket.number # EndOfStream) =>
        \A p \in Pin : \A k \in Has(p) \cup {got[p]} : k.run = run => k.number # EndOfStream

OrderInv == HandInv /\ GotInv /\ NumberInv /\ EndInv /\ \A p \in Pin : Ordered(p)
LEMMA InitOrder == Init => OrderInv
<1> SUFFICES ASSUME Init PROVE OrderInv
  OBVIOUS
<1>1. HandInv
  BY DEF Init, HandInv, Playing, Nothing
<1>2. GotInv
  BY NoPacketType DEF Init, GotInv, Nothing, Announcing
<1>3. NumberInv
  <2>1. ASSUME NEW p \in Pin, NEW k \in Has(p) PROVE k.number <= sent[p]
    BY <2>1 DEF Init, Has, Nothing, NoPacket
  <2> QED
    BY <2>1 DEF Init, NumberInv
<1>4. EndInv /\ \A p \in Pin : Ordered(p)
  BY DEF Init, EndInv, Ordered, Playing
<1> QED
  BY <1>1, <1>2, <1>3, <1>4 DEF OrderInv

\* What the pin downstream has got changes with a new run and with a delivery.
LEMMA GotStep ==
    ASSUME [Next]_vars, DownstreamType
    PROVE  \/ got' = got /\ run' = run
           \/ got' = Nothing /\ run' = run + 1 /\ dpc' = "wait" /\ sent' = [p \in Pin |-> 0]
           \/ \E p \in Pin : PinDelivers(p) /\ got' = [got EXCEPT ![p] = packet[p]]
                             /\ packet[p].run = run /\ run' = run
<1>1. CASE Pause \/ UNCHANGED vars
  BY <1>1 DEF Pause
<1>2. CASE Seek \/ Stop \/ AppStep
  BY <1>2, AppFrame
<1>3. CASE DemuxStart \/ DemuxBegin \/ DemuxWait \/ DemuxAnnounce \/ DemuxSegment \/ DemuxAnnounced
  BY <1>3 DEF DemuxStart, DemuxBegin, NewRun, DemuxWait, DemuxAnnounce, DemuxSegment, DemuxAnnounced
<1>4. CASE (\E p \in Pin : DemuxRead(p)) \/ DemuxLoopEnds \/ DemuxQueue \/ DemuxAdd
  BY <1>4 DEF DemuxRead, DemuxLoopEnds, DemuxQueue, DemuxAdd
<1>5. CASE DemuxQueued \/ DemuxRefused \/ DemuxEnd \/ DemuxRequest
  BY <1>5 DEF DemuxQueued, DemuxRefused, AfterQueue, DemuxEnd, DemuxRequest, NewRun
<1>6. ASSUME NEW p \in Pin, PinDelivers(p)
      PROVE  /\ run' = run
             /\ \/ got' = got
                \/ got' = [got EXCEPT ![p] = packet[p]] /\ packet[p].run = run
  <2>1. run' = run /\ got' = [got EXCEPT ![p] = IF packet[p].run = run THEN packet[p] ELSE @]
    BY <1>6 DEF PinDelivers
  <2>2. packet[p].run # run => got' = got
    BY <2>1 DEF DownstreamType
  <2>3. packet[p].run = run => got' = [got EXCEPT ![p] = packet[p]]
    BY <2>1
  <2> QED
    BY <2>1, <2>2, <2>3
<1>7. ASSUME NEW p \in Pin, PinStep(p) \/ PinGrows(p) \/ PinFails(p) PROVE got' = got /\ run' = run
  BY <1>7 DEF PinStep, PinStart, PinRestart, PinExit, PinTake, PinFindsNone, PinTest,
     PinPlace, PinWait, PinCheck, PinReport, PinGrows, PinFails
<1> QED
  BY <1>1, <1>2, <1>3, <1>4, <1>5, <1>6, <1>7 DEF Next, DemuxStep, PinDelivery

\* The packet in hand, and that no flush excuses it.
LEMMA NextHand ==
    ASSUME HandInv, FlushOrder, Past, Begun, PinType, DemuxType, [Next]_vars
    PROVE  HandInv'
<1> SUFFICES ASSUME NEW q \in Pin, dpc' \in Playing, packet'[q].run = run'
             PROVE  /\ ppc'[q] \notin {"off", "start", "restart", "idle", "take"}
                    /\ ppc'[q] \in {"deliver", "wait", "check"} => ~flushed'[q]
  BY DEF HandInv
<1> USE DEF HandInv, PinType, Flag
<1>1. CASE Pause
  BY <1>1 DEF Pause, ThreadExists, Playing
<1>2. CASE Seek \/ Stop \/ AppStep
  <2>1. UNCHANGED <<demux, ppc, packet>>
    BY <1>2, AppFrame
  <2>2. flushed'[q] => flushed[q] \/ dpc \in {"off", "wait"}
    <3>1. CASE EndFlushPin
      BY <3>1 DEF FlushOrder, Answered, EndFlushPin
    <3>2. CASE ResetPin
      BY <3>2 DEF ResetPin
    <3>3. CASE Seek \/ Stop \/ FlushPin \/ RefusePackets \/ ClearQueue \/ FlushDownstream \/ CallDemux
      BY <3>3 DEF Seek, Stop, BeginFlush, FlushPin, RefusePackets, ClearQueue, FlushDownstream, CallDemux
    <3>4. CASE Called \/ SkipPin \/ EndFlushDownstream \/ AcceptPackets \/ EndFlush \/ ExitPin \/ Exited
      BY <3>4 DEF Called, SkipPin, EndFlushDownstream, AcceptPackets, EndFlush, ExitPin, Exited
    <3> QED
      BY <1>2, <3>1, <3>2, <3>3, <3>4 DEF AppStep
  <2> QED
    BY <2>1, <2>2 DEF Playing
<1>3. CASE DemuxStep
  <2>1. UNCHANGED <<flags, thread>>
    BY <1>3, DemuxFrame
  <2>2. dpc' \in Playing => run' = run /\ (dpc \in Playing \/ dpc = "announce")
    BY <1>3 DEF Playing, DemuxStep, DemuxStart, DemuxBegin, NewRun, DemuxWait, DemuxAnnounce,
       DemuxSegment, DemuxAnnounced, DemuxRead, DemuxLoopEnds, DemuxQueue, DemuxAdd, DemuxQueued,
       DemuxRefused, AfterQueue, DemuxEnd, DemuxRequest
  <2>3. dpc = "announce" => packet[q].run # run
    <3>1. packet[q] \in Has(q) /\ run \in Int
      BY BoundAssumption DEF Has, DemuxType, Run
    <3> QED
      BY <3>1 DEF Past, Announcing
  <2> QED
    BY <2>1, <2>2, <2>3
<1>4. ASSUME NEW p \in Pin, PinStep(p) \/ PinDelivery(p), p # q
      PROVE  ppc'[q] = ppc[q] /\ packet'[q] = packet[q] /\ flushed'[q] = flushed[q]
  BY <1>4 DEF PinStep, PinDelivery, PinStart, PinRestart, PinExit, PinTake, PinFindsNone, PinTest,
     PinPlace, PinWait, PinCheck, PinReport, PinGrows, PinDelivers, PinFails, Onward, Forget,
     Remember, PinGoTo
<1>5. ASSUME NEW p \in Pin, PinStep(p) \/ PinDelivery(p) PROVE dpc' = dpc /\ run' = run
  BY <1>5, PinFrame
<1>51. dpc \in Playing => NoPacket.run # run
  BY NoPacketType DEF Begun, Playing
<1>6. CASE PinStart(q) \/ PinRestart(q) \/ PinExit(q) \/ PinFindsNone(q) \/ PinTake(q) \/ PinTest(q)
  BY <1>5, <1>51, <1>6 DEF PinStart, PinRestart, PinExit, PinFindsNone, PinTake, PinTest, Onward,
     Forget, Remember, PinGoTo
<1>7. CASE PinPlace(q) \/ PinWait(q) \/ PinCheck(q) \/ PinReport(q)
  BY <1>5, <1>51, <1>7 DEF PinPlace, PinWait, PinCheck, PinReport, Onward, Forget, Remember, PinGoTo
<1>8. CASE PinDelivery(q)
  BY <1>5, <1>8 DEF PinDelivery, PinGrows, PinDelivers, PinFails, PinGoTo
<1>9. CASE UNCHANGED vars
  BY <1>9
<1> QED
  BY <1>1, <1>2, <1>3, <1>4, <1>5, <1>6, <1>7, <1>8, <1>9 DEF Next, PinStep

\* How many packets were made
LEMMA SentStep ==
    ASSUME [Next]_vars, DemuxType
    PROVE  \/ sent' = sent
           \/ run' = run + 1 /\ sent' = [p \in Pin |-> 0]
           \/ \E p \in Pin : DemuxRead(p) /\ p \in active /\ sent' = [sent EXCEPT ![p] = @ + 1]
                             /\ dpacket' = [run |-> run, number |-> sent'[p]]
                             /\ dpin' = p /\ dpc' = "queue" /\ run' = run
<1>1. CASE Pause \/ UNCHANGED vars
  BY <1>1 DEF Pause
<1>2. CASE Seek \/ Stop \/ AppStep
  BY <1>2, AppFrame
<1>3. CASE DemuxStart \/ DemuxBegin \/ DemuxWait \/ DemuxAnnounce \/ DemuxSegment \/ DemuxAnnounced
  BY <1>3 DEF DemuxStart, DemuxBegin, NewRun, DemuxWait, DemuxAnnounce, DemuxSegment, DemuxAnnounced
<1>4. ASSUME NEW p \in Pin, DemuxRead(p)
      PROVE  \/ sent' = sent
             \/ p \in active /\ sent' = [sent EXCEPT ![p] = @ + 1] /\ dpin' = p
                /\ dpacket' = [run |-> run, number |-> sent'[p]] /\ dpc' = "queue" /\ run' = run
  BY <1>4 DEF DemuxRead, DemuxType
<1>5. CASE DemuxLoopEnds \/ DemuxQueue \/ DemuxAdd
  BY <1>5 DEF DemuxLoopEnds, DemuxQueue, DemuxAdd
<1>6. CASE DemuxQueued \/ DemuxRefused \/ DemuxEnd \/ DemuxRequest
  BY <1>6 DEF DemuxQueued, DemuxRefused, AfterQueue, DemuxEnd, DemuxRequest, NewRun
<1>7. ASSUME NEW p \in Pin, PinStep(p) \/ PinDelivery(p) PROVE sent' = sent
  BY <1>7, PinFrame
<1> QED
  BY <1>1, <1>2, <1>3, <1>4, <1>5, <1>6, <1>7 DEF Next, DemuxStep

\* What is got, and that a run begins with nothing.
LEMMA NextGot ==
    ASSUME GotInv, Begun', Past, DemuxType, DownstreamType, PinType, [Next]_vars PROVE GotInv'
<1> USE DEF GotInv
<1>1. run \in Int /\ NoPacket.run = 0
  BY BoundAssumption, NoPacketType DEF DemuxType, Run
<1>2. \A p \in Pin : got'[p].run # run' => got'[p] = NoPacket
  BY <1>1, GotStep DEF Nothing, DownstreamType
<1>3. dpc' \in {"wait"} \cup Announcing => got' = Nothing /\ sent' = [p \in Pin |-> 0]
  <2>1. CASE run' = run + 1
    BY <1>1, <2>1, GotStep
  <2>2. CASE run' = run /\ dpc \in {"wait"} \cup Announcing
    <3>1. \A p \in Pin : packet[p].run # run
      BY <1>1, <2>2 DEF Past, Has
    <3>2. got' = got
      BY <1>1, <2>2, <3>1, GotStep
    <3>3. sent' = sent
      BY <1>1, <2>2, SentStep DEF DemuxRead, Announcing
    <3> QED
      BY <2>2, <3>2, <3>3
  <2> QED
    BY <2>1, <2>2, RunStep
<1> QED
  BY <1>2, <1>3

\* The numbers of the packets.
LEMMA NextNumber ==
    ASSUME NumberInv, Past, Begun', PinType, DemuxType, DemuxType', DownstreamType, Queueing, [Next]_vars
    PROVE  NumberInv'
<1> USE DEF NumberInv
<1>1. run \in Nat /\ run' \in Nat /\ \A p \in Pin : sent[p] \in Nat /\ sent'[p] \in Nat
  BY BoundAssumption DEF DemuxType, Run
<1>2. ASSUME NEW q \in Pin, NEW k \in Has(q)', k.run = run' PROVE k.number <= sent'[q]
  <2>1. CASE k = NoPacket
    BY <1>1, <2>1 DEF NoPacket
  <2>2. CASE k \in Has(q)
    <3>1. k.run <= run
      BY <2>2 DEF Past
    <3>2. run' = run
      BY <1>1, <1>2, <3>1, RunStep
    <3>3. k.number <= sent[q] /\ k.number \in Int
      <4>1. packet[q] \in Packet /\ \A i \in 1 .. Len(queue[q]) : queue[q][i] \in Packet
        BY DEF PinType
      <4>2. k \in Packet
        BY <2>2, <4>1 DEF Has
      <4> QED
        BY <1>2, <2>2, <3>2, <4>2, BoundAssumption DEF Packet
    <3>4. sent[q] <= sent'[q]
      <4>1. CASE sent' = sent
        BY <1>1, <4>1
      <4>2. ASSUME NEW p \in Pin, sent' = [sent EXCEPT ![p] = @ + 1] PROVE sent[q] <= sent'[q]
        BY <1>1, <4>2 DEF DemuxType
      <4> QED
        BY <1>1, <3>2, <4>1, <4>2, SentStep
    <3> QED
      BY <1>1, <3>3, <3>4
  <2>3. CASE DemuxAdd /\ q = dpin /\ k = dpacket
    BY <1>1, <2>3 DEF DemuxAdd, EndOfStream
  <2> QED
    BY <2>1, <2>2, <2>3, HasOld
<1>3. dpc' \in {"queue", "add", "added"} => dpacket'.number \in {EndOfStream, sent'[dpin']}
  <2>1. CASE Pause \/ UNCHANGED vars
    BY <2>1 DEF Pause
  <2>2. CASE Seek \/ Stop \/ AppStep
    BY <2>2, AppFrame
  <2>3. CASE DemuxStart \/ DemuxBegin \/ DemuxWait \/ DemuxAnnounce \/ DemuxSegment \/ DemuxAnnounced
    BY <2>3 DEF DemuxStart, DemuxBegin, NewRun, DemuxWait, DemuxAnnounce, DemuxSegment, DemuxAnnounced
  <2>4. ASSUME NEW p \in Pin, DemuxRead(p)
        PROVE  dpc' = "loop" \/ dpacket'.number = sent'[dpin']
    BY <2>4 DEF DemuxRead, DemuxType
  <2>5. CASE DemuxLoopEnds \/ DemuxQueue \/ DemuxAdd
    BY <2>5 DEF DemuxLoopEnds, DemuxQueue, DemuxAdd
  <2>6. CASE DemuxQueued \/ DemuxRefused \/ DemuxEnd \/ DemuxRequest
    BY <2>6 DEF DemuxQueued, DemuxRefused, AfterQueue, DemuxEnd, DemuxRequest, NewRun
  <2>7. ASSUME NEW p \in Pin, PinStep(p) \/ PinDelivery(p) PROVE UNCHANGED demux
    BY <2>7, PinFrame
  <2> QED
    BY <2>1, <2>2, <2>3, <2>4, <2>5, <2>6, <2>7 DEF Next, DemuxStep
<1> QED
  BY <1>2, <1>3

\* No end of the stream while there is more of the file.
LEMMA NextEnd ==
    ASSUME EndInv, GotInv, Past, Begun, Begun', PinType, DemuxType, DownstreamType, Queueing, [Next]_vars
    PROVE  EndInv'
<1> DEFINE reading == dpc = "loop" \/ (dpc \in {"queue", "add", "added"} /\ dpacket.number # EndOfStream)
<1> SUFFICES ASSUME reading', NEW q \in Pin, NEW k \in Has(q)' \cup {got'[q]}, k.run = run'
             PROVE  k.number # EndOfStream
  BY DEF EndInv
<1>1. run' = run /\ (reading \/ dpc = "announce") /\ (DemuxAdd => dpacket.number # EndOfStream)
  <2>1. CASE Pause \/ UNCHANGED vars
    BY <2>1 DEF Pause, DemuxAdd
  <2>2. CASE Seek \/ Stop \/ AppStep
    BY <2>2, AppFrame DEF DemuxAdd
  <2>3. CASE DemuxStart \/ DemuxBegin \/ DemuxWait \/ DemuxAnnounce \/ DemuxSegment \/ DemuxAnnounced
    BY <2>3 DEF DemuxStart, DemuxBegin, NewRun, DemuxWait, DemuxAnnounce, DemuxSegment,
       DemuxAnnounced, DemuxAdd
  <2>4. CASE (\E p \in Pin : DemuxRead(p)) \/ DemuxLoopEnds \/ DemuxQueue \/ DemuxAdd
    BY <2>4 DEF DemuxRead, DemuxLoopEnds, DemuxQueue, DemuxAdd
  <2>5. CASE DemuxQueued \/ DemuxRefused \/ DemuxEnd \/ DemuxRequest
    BY <2>5 DEF DemuxQueued, DemuxRefused, AfterQueue, DemuxEnd, DemuxRequest, NewRun, DemuxAdd
  <2>6. ASSUME NEW p \in Pin, PinStep(p) \/ PinDelivery(p) PROVE UNCHANGED demux
    BY <2>6, PinFrame
  <2> QED
    BY <2>1, <2>2, <2>3, <2>4, <2>5, <2>6 DEF Next, DemuxStep, DemuxAdd
<1>2. run >= 1 /\ run \in Nat
  BY <1>1, BoundAssumption DEF Begun, DemuxType, Run
<1>3. k # NoPacket
  BY <1>1, <1>2, NoPacketType
<1>4. k \in Has(q) \/ k = got[q] \/ (DemuxAdd /\ k = dpacket)
  <2>1. k \in Has(q)' => k \in Has(q) \/ (DemuxAdd /\ k = dpacket)
    BY <1>3, HasOld
  <2>2. got'[q] = got[q] \/ got'[q] = packet[q]
    BY <1>1, <1>2, GotStep DEF DownstreamType
  <2> QED
    BY <2>1, <2>2 DEF Has
<1>5. CASE dpc = "announce"
  <2>1. got[q] = NoPacket
    BY <1>5 DEF GotInv, Announcing, Nothing
  <2>2. k \in Has(q)
    BY <1>3, <1>4, <1>5, <2>1 DEF DemuxAdd
  <2> QED
    BY <1>1, <1>2, <1>5, <2>2 DEF Past, Announcing
<1>6. CASE reading
  BY <1>1, <1>4, <1>6 DEF EndInv
<1> QED
  BY <1>1, <1>5, <1>6

\* The line stands while the queue does, whoever holds its first packet.
LEMMA LineKept ==
    ASSUME NEW q \in Pin, Lined(q), InHandNext(q)', run' = run, queue'[q] = queue[q],
           sent'[q] = sent[q], Passed(q)' = Passed(q),
           Open(q)' => Open(q) /\ OnItsWay(q)' = OnItsWay(q)
    PROVE  Lined(q)'
BY DEF Lined, Value, OldHead

\* The application breaks no line: it clears the queue of a pin that is flushing.
LEMMA AppOrder ==
    ASSUME NEW q \in Pin, Ordered(q), FlushOrder, FlushInv, PinType, DownstreamType,
           Seek \/ Stop \/ AppStep
    PROVE  Ordered(q)'
<1> SUFFICES ASSUME ~raced'[q], ~flushing'[q], dpc' \in Playing, ~Broken(q)'
             PROVE  Lined(q)'
  BY DEF Ordered
<1>1. UNCHANGED <<demux, ppc, packet, more, res, seg, got, late, raced>>
  BY AppFrame
<1>2. dpc \notin {"off", "wait"} /\ ~raced[q] /\ dpc \in Playing
  BY <1>1 DEF Playing
<1>3. ~flushing[q]
  BY <1>2, FlushKept
<1>4. active' = active /\ (hr'[q] = "ok" => hr[q] = "ok") /\ queue'[q] = queue[q]
  <2>1. CASE RefusePackets
    BY <1>2, <1>3, <2>1 DEF RefusePackets, PinType, FlushInv, Refusing
  <2>2. CASE ClearQueue
    BY <1>2, <1>3, <2>2 DEF ClearQueue, Cleared, PinType, FlushInv, Refusing
  <2>3. CASE AcceptPackets
    BY <1>2, <2>3 DEF AcceptPackets, FlushOrder, Answered
  <2>4. CASE Seek \/ Stop \/ ResetPin \/ FlushPin \/ FlushDownstream \/ CallDemux
    BY <2>4 DEF Seek, Stop, BeginFlush, ResetPin, FlushPin, FlushDownstream, CallDemux
  <2>5. CASE Called \/ SkipPin \/ EndFlushDownstream \/ EndFlushPin \/ EndFlush \/ ExitPin \/ Exited
    BY <2>5 DEF Called, SkipPin, EndFlushDownstream, EndFlushPin, EndFlush, ExitPin, Exited
  <2> QED
    BY <2>1, <2>2, <2>3, <2>4, <2>5 DEF AppStep
<1>5. Lined(q)
  BY <1>1, <1>2, <1>3, <1>4 DEF Ordered, Broken
<1>6. InHandNext(q)' /\ Passed(q)' = Passed(q)
  BY <1>1, <1>5 DEF Lined, InHandNext, Passed, Got, Value
<1>7. Open(q)' => Open(q) /\ OnItsWay(q)' = OnItsWay(q)
  BY <1>1, <1>4 DEF Open, OnItsWay
<1> QED
  BY <1>1, <1>4, <1>5, <1>6, <1>7, LineKept

\* The demultiplexer adds the next packet.
LEMMA DemuxOrder ==
    ASSUME IInv, IInv', SegmentInv, OrderInv, DemuxStep, [Next]_vars, NEW q \in Pin
    PROVE  Ordered(q)'
<1> SUFFICES ASSUME ~raced'[q], ~flushing'[q], dpc' \in Playing, ~Broken(q)'
             PROVE  Lined(q)'
  BY DEF Ordered
<1>1. UNCHANGED <<app, flags, thread, down, history>>
  BY DemuxFrame
<1>2. /\ run \in Nat /\ dpin \in Nat /\ q \in Nat /\ Len(queue[q]) \in Nat /\ queue[q] \in Seq(Packet)
      /\ sent \in [Pin -> 0 .. Length] /\ sent[q] \in Nat
      /\ dpacket \in Packet /\ packet[q] \in Packet /\ got[q] \in Packet
      /\ \A k \in Packet : k.run \in Nat /\ k.number \in Nat
  <2>1. DemuxType /\ PinType /\ DownstreamType
    BY DEF IInv, TypeOK
  <2>2. run \in Nat /\ dpin \in Nat /\ q \in Nat /\ sent[q] \in Nat
    BY <2>1, BoundAssumption, OutputsAssumption DEF DemuxType, Run, Pin
  <2>3. \A k \in Packet : k.run \in Nat /\ k.number \in Nat
    BY BoundAssumption DEF Packet, Run
  <2>4. queue[q] \in Seq(Packet) /\ packet[q] \in Packet /\ got[q] \in Packet
    BY <2>1 DEF PinType, DownstreamType
  <2> QED
    BY <2>1, <2>2, <2>3, <2>4 DEF DemuxType
<1>3. dpc = "announce" \/ dpc \in Playing
  BY DEF Playing, DemuxStep, DemuxStart, DemuxBegin, NewRun, DemuxWait, DemuxAnnounce,
       DemuxSegment, DemuxAnnounced, DemuxRead, DemuxLoopEnds, DemuxQueue, DemuxAdd, DemuxQueued,
       DemuxRefused, AfterQueue, DemuxEnd, DemuxRequest
<1>4. run' = run /\ run >= 1
  BY <1>2, <1>3, RunStep DEF Playing, SegmentInv, Begun
<1>5. OldHead(q) \in Nat /\ Passed(q) \in Nat
  BY <1>2 DEF OldHead, Passed, Got, Value
<1>6. dpc \in Playing => Lined(q)
  BY <1>1, <1>4 DEF OrderInv, Ordered, Broken
<1>7. CASE DemuxAnnounced
  <2>1. got[q] = NoPacket /\ sent[q] = 0 /\ \A k \in Has(q) : k.run # run
    BY <1>2, <1>7 DEF DemuxAnnounced, OrderInv, GotInv, Announcing, Nothing, SegmentInv, Past
  <2>2. UNCHANGED <<got, sent, packet, queue>>
    BY <1>7 DEF DemuxAnnounced
  <2>3. packet[q].run # run /\ got[q].run # run /\ \A i \in 1 .. Len(queue[q]) : queue[q][i].run # run
    BY <1>4, <2>1, NoPacketType DEF Has
  <2>4. Passed(q)' = 0
    BY <1>4, <2>2, <2>3 DEF Passed, Got
  <2>5. Len(queue[q]) = OldHead(q)
    <3>1. Old(q) \subseteq {1} /\ \A i \in 1 .. Len(queue[q]) : i \in Old(q)
      <4>1. Old(q) \subseteq {1}
        BY <1>1 DEF IInv, StaleInv, StaleAtMostOne
      <4>2. \A i \in 1 .. Len(queue[q]) : queue[q][i].run < run
        BY <1>7 DEF DemuxAnnounced, SegmentInv, Past, Has, Announcing
      <4> QED
        BY <1>2, <4>1, <4>2 DEF Old
    <3>2. Len(queue[q]) <= 1
      <4>1. Len(queue[q]) >= 2 => 2 \in 1 .. Len(queue[q])
        BY <1>2
      <4> QED
        BY <1>2, <3>1, <4>1
    <3> QED
      BY <1>2, <2>3, <3>2 DEF OldHead
  <2>6. dpc' = "loop" /\ OldHead(q)' = OldHead(q) /\ OnItsWay(q)' = 0
    BY <1>4, <1>7, <2>2 DEF DemuxAnnounced, OldHead, OnItsWay
  <2> QED
    BY <1>2, <1>4, <1>5, <2>1, <2>2, <2>3, <2>4, <2>5, <2>6 DEF Lined, InHandNext
<1>8. ASSUME NEW p \in Pin, DemuxRead(p) PROVE Lined(q)'
  <2>1. UNCHANGED <<queue, packet, got, ppc, active>> /\ dpc = "loop"
    BY <1>8 DEF DemuxRead
  <2>2. packet[q].run = run => packet[q].number # EndOfStream
    BY <2>1 DEF OrderInv, EndInv, Has
  <2>3. got[q].run = run => got[q].number # EndOfStream
    BY <2>1 DEF OrderInv, EndInv
  <2>4. \A i \in 1 .. Len(queue[q]) : queue[q][i].run = run => queue[q][i].number # EndOfStream
    BY <2>1 DEF OrderInv, EndInv, Has
  <2>5. Got(q)' = Got(q) /\ Passed(q)' = Passed(q) /\ OldHead(q)' = OldHead(q)
    BY <1>4, <2>1, <2>2, <2>3 DEF Got, Passed, Value, OldHead
  <2>6. Lined(q) /\ InHandNext(q)'
    BY <1>4, <1>6, <2>1, <2>2, <2>5 DEF Lined, InHandNext, Value, Playing
  <2>7. \A i \in 1 .. Len(queue[q]) : queue[q][i].run = run =>
           Value(q, queue[q][i])' = Passed(q) + i - OldHead(q)
    BY <1>4, <2>1, <2>4, <2>6 DEF Lined, Value
  <2>8. q \in active => sent'[q] - OnItsWay(q)' = Passed(q) + Len(queue[q]) - OldHead(q)
    <3>1. q \in active => sent[q] = Passed(q) + Len(queue[q]) - OldHead(q)
      BY <1>2, <2>1, <2>6 DEF Lined, Open, OnItsWay
    <3>2. CASE p \in active /\ p = q
      <4>1. sent'[q] = sent[q] + 1 /\ dpacket'.number = sent[q] + 1 /\ dpc' = "queue" /\ dpin' = q
        BY <1>2, <1>8, <3>2 DEF DemuxRead
      <4> QED
        BY <1>2, <1>5, <3>1, <4>1 DEF OnItsWay, EndOfStream
    <3>3. CASE p \in active /\ p # q
      BY <1>2, <1>8, <3>1, <3>3 DEF DemuxRead, OnItsWay
    <3>4. CASE p \notin active
      BY <1>2, <1>8, <3>1, <3>4 DEF DemuxRead, OnItsWay
    <3> QED
      BY <3>2, <3>3, <3>4
  <2> QED
    BY <1>4, <2>1, <2>5, <2>6, <2>7, <2>8 DEF Lined, Open
<1>9. CASE DemuxAdd
  <2>1. UNCHANGED <<packet, got, ppc, active, sent, dpin, dpacket>> /\ dpc = "add" /\ dpc' = "added"
    BY <1>9 DEF DemuxAdd
  <2>2. Lined(q) /\ Passed(q)' = Passed(q) /\ InHandNext(q)'
    BY <1>4, <1>6, <2>1 DEF Lined, InHandNext, Passed, Got, Value, Playing
  <2>3. CASE q # dpin
    <3>1. queue'[q] = queue[q]
      BY <1>9, <2>3 DEF DemuxAdd, IInv, TypeOK, PinType
    <3>2. Open(q)' => Open(q) /\ OnItsWay(q)' = OnItsWay(q)
      BY <1>2, <2>1, <2>3 DEF Open, OnItsWay
    <3> QED
      BY <1>4, <2>1, <2>2, <3>1, <3>2, LineKept
  <2>4. CASE q = dpin
    <3> DEFINE n == Len(queue[q])
    <3>1. queue'[q] = Append(queue[q], dpacket) /\ dpacket.run = run /\ q \in active
      BY <1>9, <2>1, <2>4 DEF DemuxAdd, IInv, TypeOK, PinType, Place, Queueing, SegmentInv, ActiveInv
    <3>2. /\ Len(queue'[q]) = n + 1 /\ queue'[q][n + 1] = dpacket
          /\ \A i \in 1 .. n : queue'[q][i] = queue[q][i]
      BY <1>2, <3>1
    <3>3. OldHead(q)' = OldHead(q)
      BY <1>2, <1>4, <3>1, <3>2 DEF OldHead
    <3>4. Open(q)
      BY <1>2, <2>1, <2>4, <3>1 DEF Open
    <3>5. Value(q, dpacket) = Passed(q) + (n + 1) - OldHead(q)
      <4>1. sent[q] - OnItsWay(q) = Passed(q) + n - OldHead(q)
        BY <2>2, <3>4 DEF Lined
      <4>2. dpacket.number = EndOfStream \/ dpacket.number = sent[q]
        BY <2>1, <2>4 DEF OrderInv, NumberInv
      <4>3. CASE dpacket.number = EndOfStream
        BY <1>2, <1>5, <4>1, <4>3 DEF OnItsWay, Value
      <4>4. CASE dpacket.number # EndOfStream
        <5>1. OnItsWay(q) = 1 /\ dpacket.number = sent[q]
          BY <2>1, <2>4, <4>2, <4>4 DEF OnItsWay
        <5> QED
          BY <1>2, <1>5, <4>1, <4>4, <5>1 DEF Value
      <4> QED
        BY <4>3, <4>4
    <3>6. \A i \in 1 .. n + 1 : queue'[q][i].run = run =>
            Value(q, queue'[q][i]) = Passed(q) + i - OldHead(q)
      <4>1. \A i \in 1 .. n : queue[q][i].run = run =>
            Value(q, queue[q][i]) = Passed(q) + i - OldHead(q)
        BY <2>2 DEF Lined
      <4>2. \A i \in 1 .. n + 1 : i \in 1 .. n \/ i = n + 1
        BY <1>2
      <4> QED
        BY <3>2, <3>5, <4>1, <4>2
    <3>7. Open(q)' => sent[q] = Passed(q) + (n + 1) - OldHead(q)
      <4>1. Open(q)' => dpacket.number # EndOfStream
        BY <1>2, <2>1, <2>4 DEF Open
      <4> QED
        BY <3>5, <4>1, <2>1, <2>4 DEF OrderInv, NumberInv, Value
    <3>8. OnItsWay(q)' = 0
      BY <2>1 DEF OnItsWay
    <3> HIDE DEF n
    <3> QED
      BY <1>2, <1>4, <2>1, <2>2, <3>2, <3>3, <3>6, <3>7, <3>8 DEF Lined, Value
  <2> QED
    BY <2>3, <2>4
<1>10. CASE DemuxLoopEnds \/ DemuxQueue \/ DemuxQueued \/ DemuxRefused \/ DemuxEnd
  <2>1. UNCHANGED <<queue, packet, got, ppc, sent>> /\ dpc \in Playing
    BY <1>10 DEF DemuxLoopEnds, DemuxQueue, DemuxQueued, DemuxRefused, DemuxEnd, Playing
  <2>2. Lined(q) /\ InHandNext(q)' /\ Passed(q)' = Passed(q)
    BY <1>4, <1>6, <2>1 DEF Lined, InHandNext, Passed, Got, Value
  <2>3. Open(q)' => Open(q) /\ OnItsWay(q)' = OnItsWay(q)
    <3>1. CASE DemuxLoopEnds
      BY <1>2, <3>1 DEF DemuxLoopEnds, Open, OnItsWay, Pin
    <3>2. CASE DemuxQueue
      BY <1>2, <3>2 DEF DemuxQueue, Open, OnItsWay
    <3>3. CASE DemuxQueued
      BY <1>2, <3>3 DEF DemuxQueued, AfterQueue, Open, OnItsWay
    <3>4. CASE DemuxRefused
      BY <1>2, <3>4 DEF DemuxRefused, AfterQueue, Open, OnItsWay
    <3>5. CASE DemuxEnd
      BY <1>2, <3>5 DEF DemuxEnd, Open, OnItsWay
    <3> QED
      BY <1>10, <3>1, <3>2, <3>3, <3>4, <3>5
  <2> QED
    BY <1>4, <2>1, <2>2, <2>3, LineKept
<1>11. CASE DemuxStart \/ DemuxBegin \/ DemuxWait \/ DemuxAnnounce \/ DemuxSegment \/ DemuxRequest
  BY <1>11 DEF Playing, DemuxStart, DemuxBegin, NewRun, DemuxWait, DemuxAnnounce, DemuxSegment,
     DemuxRequest
<1> QED
  BY <1>7, <1>8, <1>9, <1>10, <1>11 DEF DemuxStep

\* The pin's thread delivers the first of the line; once it failed to, it delivers no other.
LEMMA PinOrder ==
    ASSUME IInv, IInv', SegmentInv, OrderInv, NEW p \in Pin, PinStep(p) \/ PinDelivery(p),
           NEW q \in Pin
    PROVE  Ordered(q)'
<1> SUFFICES ASSUME ~raced'[q], ~flushing'[q], dpc' \in Playing, ~Broken(q)'
             PROVE  Lined(q)'
  BY DEF Ordered
<1> USE DEF PinGoTo
<1>1. UNCHANGED <<app, filter, demux>> /\ ~raced[q] /\ ~flushing[q] /\ dpc \in Playing
  BY PinFrame, PinKeeps DEF IInv, TypeOK
<1>2. /\ run \in Nat /\ run >= 1 /\ queue[q] \in Seq(Packet) /\ packet[q] \in Packet
      /\ got[q] \in Packet /\ NoPacket.run # run
  BY <1>1, NoPacketType, BoundAssumption
  DEF IInv, TypeOK, DemuxType, PinType, DownstreamType, Run, SegmentInv, Begun, Playing
<1>3. PinType /\ DownstreamType /\ Failed
  BY DEF IInv, TypeOK, Place
<1>4. Open(q)' => Open(q) /\ OnItsWay(q)' = OnItsWay(q)
  BY <1>1 DEF Open, OnItsWay
<1>5. CASE p # q
  <2>1. queue'[q] = queue[q] /\ packet'[q] = packet[q] /\ ppc'[q] = ppc[q] /\ got'[q] = got[q]
        /\ hr'[q] = hr[q] /\ res'[q] = res[q]
    BY <1>3, <1>5 DEF PinStep, PinDelivery, PinStart, PinRestart, PinExit, PinTake, PinFindsNone,
       PinTest, PinPlace, PinWait, PinCheck, PinReport, PinGrows, PinDelivers, PinFails, Onward,
       Forget, Remember, PinType, DownstreamType
  <2>2. Lined(q)
    BY <1>1, <2>1 DEF OrderInv, Ordered, Broken
  <2>3. InHandNext(q)' /\ Passed(q)' = Passed(q)
    BY <1>1, <2>1, <2>2 DEF Lined, InHandNext, Passed, Got, Value
  <2> QED
    BY <1>1, <1>4, <2>1, <2>2, <2>3, LineKept
<1>6. CASE p = q
  <2>1. Ordered(q) /\ (Broken(q) \/ Lined(q))
    BY <1>1 DEF OrderInv, Ordered
  <2>2. packet[q].run = run => /\ ppc[q] \notin {"off", "start", "restart", "idle", "take"}
                               /\ ppc[q] \in {"deliver", "wait", "check"} => ~flushed[q]
    BY <1>1 DEF OrderInv, HandInv
  \* Steps that keep the packet, or had none of the run
  <2>3. ASSUME queue' = queue, got' = got, Lined(q), Passed(q)' = Passed(q), InHandNext(q)'
        PROVE  Lined(q)'
    BY <1>1, <1>4, <2>3, LineKept
  <2>4. CASE PinStart(q)
    <3>1. ~Broken(q) /\ queue' = queue /\ got' = got /\ packet' = packet /\ packet[q].run # run
      BY <2>2, <2>4 DEF PinStart, Broken
    <3> QED
      BY <1>1, <2>1, <2>3, <3>1 DEF Passed, Got, Value, InHandNext
  <2>5. CASE PinRestart(q) \/ PinExit(q) \/ PinFindsNone(q)
    <3>1. hr' = hr /\ queue' = queue /\ got' = got /\ packet' = packet /\ packet[q].run # run
          /\ ppc[q] \in {"restart", "idle", "take"} /\ ppc'[q] \in {"off", "idle"}
      BY <1>3, <2>2, <2>5 DEF PinRestart, PinExit, PinFindsNone, PinType
    <3>2. Lined(q)
      BY <2>1, <3>1 DEF Broken
    <3> QED
      BY <1>1, <2>3, <3>1, <3>2 DEF Passed, Got, Value, InHandNext
  <2>6. CASE PinTake(q)
    <3> DEFINE n == Len(queue[q])
    <3>1. /\ hr' = hr /\ got' = got /\ ppc'[q] = "test" /\ ppc[q] \in {"idle", "take"}
          /\ queue[q] # << >> /\ packet'[q] = Head(queue[q]) /\ queue'[q] = Tail(queue[q])
      BY <1>3, <2>6 DEF PinTake, PinType
    <3>2. packet[q].run # run /\ Lined(q)
      BY <2>1, <2>2, <3>1 DEF Broken
    <3>3. /\ n \in Nat \ {0} /\ Len(queue'[q]) = n - 1 /\ packet'[q] = queue[q][1]
          /\ \A i \in 1 .. n - 1 : queue'[q][i] = queue[q][i + 1]
      BY <1>2, <3>1
    <3>4. \A i \in 1 .. n : i > 1 => queue[q][i].run = run
      <4>1. Old(q) \subseteq {1}
        BY <1>1 DEF IInv, StaleInv, StaleAtMostOne
      <4>2. \A i \in 1 .. n : queue[q][i] \in Packet /\ queue[q][i].run <= run
        BY <1>2 DEF SegmentInv, Past, Has
      <4>3. \A i \in 1 .. n : queue[q][i].run \in Nat
        BY <4>2, BoundAssumption DEF Packet, Run
      <4> QED
        BY <1>2, <4>1, <4>2, <4>3 DEF Old
    <3>5. OldHead(q)' = 0 /\ OldHead(q) = (IF queue[q][1].run = run THEN 0 ELSE 1)
      <4>1. queue'[q] # << >> => n > 1 /\ queue'[q][1] = queue[q][2]
        BY <3>1, <3>3, <1>2
      <4> QED
        BY <1>1, <3>1, <3>3, <3>4, <4>1 DEF OldHead
    <3>6. \A i \in 1 .. n : queue[q][i].run = run => Value(q, queue[q][i]) = Passed(q) + i - OldHead(q)
      BY <3>2 DEF Lined
    <3>7. Passed(q) = Got(q) /\ Got(q)' = Got(q) /\ Got(q) \in Int
      BY <1>1, <1>2, <3>1, <3>2 DEF Passed, Got, Value, IInv, TypeOK, DemuxType, Packet
    <3>8. Passed(q)' = Got(q) + 1 - OldHead(q) /\ InHandNext(q)'
      <4>1. CASE queue[q][1].run = run
        <5>1. Value(q, queue[q][1]) = Got(q) + 1
          BY <3>3, <3>5, <3>6, <3>7, <4>1
        <5> QED
          BY <1>1, <3>1, <3>3, <3>5, <3>7, <4>1, <5>1 DEF Passed, InHandNext, Value
      <4>2. CASE queue[q][1].run # run
        BY <1>1, <3>1, <3>3, <3>5, <3>7, <4>2 DEF Passed, InHandNext
      <4> QED
        BY <4>1, <4>2
    <3>9. \A i \in 1 .. n - 1 : Value(q, queue[q][i + 1]) = Passed(q)' + i - OldHead(q)'
      <4>1. \A i \in 1 .. n - 1 : i + 1 \in 1 .. n /\ i + 1 > 1 /\ i \in Int
        BY <3>3
      <4>2. \A i \in 1 .. n - 1 : Value(q, queue[q][i + 1]) = Passed(q) + (i + 1) - OldHead(q)
        BY <3>4, <3>6, <4>1
      <4>3. OldHead(q) \in Int /\ OldHead(q)' = 0
        BY <3>5
      <4> QED
        BY <3>7, <3>8, <4>1, <4>2, <4>3
    <3>10. Open(q)' => sent[q] - OnItsWay(q)' = Passed(q)' + (n - 1) - OldHead(q)'
      <4>1. Open(q)' => sent[q] - OnItsWay(q)' = Passed(q) + n - OldHead(q)
        BY <1>4, <3>2 DEF Lined
      <4>2. OldHead(q) \in Int /\ OldHead(q)' = 0
        BY <3>5
      <4> QED
        BY <3>3, <3>7, <3>8, <4>1, <4>2
    <3> HIDE DEF n
    <3> QED
      BY <1>1, <3>3, <3>8, <3>9, <3>10 DEF Lined, Value
  <2>7. CASE PinTest(q)
    <3>1. hr' = hr /\ queue' = queue /\ got' = got /\ ppc[q] = "test"
          /\ (hr[q] = "ok" \/ ppc'[q] \in {"take", "idle"})
      BY <1>3, <2>7 DEF PinTest, Accepting, Onward, PinType
    <3>2. hr[q] = "ok" /\ Lined(q)
      BY <2>1, <3>1 DEF Broken
    <3>3. packet' = packet /\ ppc'[q] = "place"
      BY <1>3, <2>7, <3>2 DEF PinTest, Accepting, Remember, PinType
    <3> QED
      BY <1>1, <2>3, <3>1, <3>2, <3>3 DEF Passed, Got, Value, InHandNext, Before, Lined
  <2>8. CASE PinPlace(q) \/ PinGrows(q)
    <3>1. hr' = hr /\ queue' = queue /\ got' = got /\ packet' = packet
          /\ ppc[q] \in {"place", "deliver"} /\ ppc'[q] = "deliver"
      BY <1>3, <2>8 DEF PinPlace, PinGrows, PinType
    <3>2. Lined(q)
      BY <2>1, <3>1 DEF Broken
    <3> QED
      BY <1>1, <2>3, <3>1, <3>2 DEF Passed, Got, Value, InHandNext, Before, Lined
  <2>9. CASE PinDelivers(q)
    <3>1. /\ hr' = hr /\ queue' = queue /\ packet' = packet /\ ppc[q] = "deliver" /\ ppc'[q] = "wait"
          /\ got'[q] = IF packet[q].run = run THEN packet[q] ELSE got[q]
      BY <1>3, <2>9 DEF PinDelivers, PinType, DownstreamType
    <3>2. Lined(q)
      BY <2>1, <3>1 DEF Broken
    <3>3. Passed(q)' = Passed(q) /\ InHandNext(q)'
      BY <1>1, <3>1 DEF Passed, Got, Value, InHandNext, Before
    <3> QED
      BY <1>1, <1>4, <3>1, <3>2, <3>3, LineKept
  <2>10. CASE PinFails(q)
    <3>1. hr' = hr /\ queue' = queue /\ got' = got /\ packet' = packet /\ ppc[q] = "deliver"
          /\ ppc'[q] = "wait" /\ res'[q] # "ok"
      BY <1>3, <2>10 DEF PinFails, PinType
    <3>2. Lined(q) /\ packet[q].run # run
      BY <1>1, <2>1, <3>1 DEF Broken
    <3> QED
      BY <1>1, <2>3, <3>1, <3>2 DEF Passed, Got, Value, InHandNext
  <2>11. CASE PinWait(q)
    <3>1. hr' = hr /\ queue' = queue /\ got' = got /\ ppc[q] = "wait" /\ ppc'[q] # "start"
      BY <1>3, <2>11 DEF PinWait, Onward, PinType
    <3>2. CASE res[q] = "ok"
      <4>1. packet'[q] = NoPacket /\ Lined(q)
        BY <1>3, <2>1, <2>11, <3>1, <3>2 DEF PinWait, Onward, Forget, PinType, Broken
      <4> QED
        BY <1>1, <1>2, <2>3, <3>1, <4>1 DEF Passed, Got, Value, InHandNext, Lined
    <3>3. CASE res[q] # "ok"
      <4>1. packet' = packet /\ res' = res /\ ppc'[q] = "check"
        BY <1>3, <2>11, <3>3 DEF PinWait, Remember, PinType
      <4>2. packet[q].run # run /\ Lined(q)
        BY <1>1, <2>1, <3>1, <3>3, <4>1 DEF Broken
      <4> QED
        BY <1>1, <2>3, <3>1, <4>1, <4>2 DEF Passed, Got, Value, InHandNext
    <3> QED
      BY <3>2, <3>3
  <2>12. CASE PinCheck(q)
    <3>1. hr' = hr /\ queue' = queue /\ got' = got /\ ppc[q] = "check" /\ ppc'[q] # "start"
          /\ res[q] # "ok"
      BY <1>3, <2>12 DEF PinCheck, Onward, PinType, Failed
    <3>2. packet[q].run # run
      <4>1. packet[q].run = run => packet' = packet /\ res' = res /\ ppc'[q] = "report"
        BY <1>3, <2>2, <2>12, <3>1 DEF PinCheck, Excused, Remember, PinType
      <4> QED
        BY <1>1, <3>1, <4>1 DEF Broken
    <3>3. Lined(q) /\ packet'[q] \in {packet[q], NoPacket}
      BY <1>3, <2>1, <2>12, <3>1, <3>2 DEF Broken, PinCheck, Onward, Forget, Remember, PinType
    <3> QED
      BY <1>1, <1>2, <2>3, <3>1, <3>2, <3>3 DEF Passed, Got, Value, InHandNext
  <2>13. CASE PinReport(q)
    BY <1>3, <2>13 DEF PinReport, Failed, Broken, PinType
  <2> QED
    BY <1>6, <2>4, <2>5, <2>6, <2>7, <2>8, <2>9, <2>10, <2>11, <2>12, <2>13 DEF PinStep, PinDelivery
<1> QED
  BY <1>5, <1>6

\* Every step keeps the order.
LEMMA NextOrder ==
    ASSUME IInv, IInv', SegmentInv, SegmentInv', OrderInv, [Next]_vars PROVE OrderInv'
<1>1. HandInv' /\ GotInv' /\ NumberInv' /\ EndInv'
  BY NextHand, NextGot, NextNumber, NextEnd DEF IInv, TypeOK, Place, SegmentInv, OrderInv
<1>2. ASSUME NEW q \in Pin PROVE Ordered(q)'
  <2>1. CASE Pause
    BY <2>1 DEF Pause, Ordered, Playing
  <2>2. CASE Seek \/ Stop \/ AppStep
    BY <2>2, AppOrder DEF IInv, TypeOK, StaleInv, SegmentInv, OrderInv
  <2>3. CASE DemuxStep
    BY <2>3, DemuxOrder
  <2>4. ASSUME NEW p \in Pin, PinStep(p) \/ PinDelivery(p) PROVE Ordered(q)'
    BY <2>4, PinOrder
  <2>5. CASE UNCHANGED vars
    BY <2>5 DEF OrderInv, Ordered, Broken, Lined, InHandNext, Value, Got, Passed, OldHead, OnItsWay,
       Open
  <2> QED
    BY <2>1, <2>2, <2>3, <2>4, <2>5 DEF Next
<1> QED
  BY <1>1, <1>2 DEF OrderInv

\* What arrives is the next packet, or the end of the stream after the last.
LEMMA ArrivesNext ==
    ASSUME IInv, SegmentInv, OrderInv, [Next]_vars, NEW q \in Pin, Arrives(q)
    PROVE  Complete(q)
<1>1. run >= 1 /\ ~raced[q] /\ ~flushing[q] /\ got'[q] # got[q] /\ got'[q].run = run /\ run \in Nat
  BY BoundAssumption DEF Arrives, SegmentInv, Begun, IInv, TypeOK, DemuxType, Run
<1>2. PinDelivers(q) /\ got'[q] = packet[q] /\ packet[q].run = run
  <2>1. got' # Nothing
    BY <1>1, NoPacketType DEF Nothing
  <2>2. PICK p \in Pin : PinDelivers(p) /\ got' = [got EXCEPT ![p] = packet[p]]
    BY <1>1, <2>1, GotStep DEF IInv, TypeOK
  <2>3. p = q
    BY <1>1, <2>2 DEF IInv, TypeOK, DownstreamType
  <2> QED
    BY <1>1, <2>2, <2>3 DEF IInv, TypeOK, DownstreamType
<1>3. packet[q] \in Has(q)
  BY DEF Has
<1>4. dpc \in Playing
  <2>1. dpc \in {"wait"} \cup Announcing \cup Playing
    BY DEF Arrives, IInv, TypeOK, DemuxType, DemuxPlace, Announcing, Playing
  <2> QED
    BY <1>1, <1>2, <1>3, <2>1 DEF SegmentInv, Past
<1>5. ppc[q] = "deliver"
  BY <1>2 DEF PinDelivers
<1>6. Lined(q)
  BY <1>1, <1>4, <1>5 DEF OrderInv, Ordered, Broken
<1>7. Value(q, packet[q]) = Got(q) + 1
  BY <1>2, <1>5, <1>6 DEF Lined, InHandNext, Before
<1>8. packet[q].number <= sent[q] /\ packet[q].number \in Int /\ got[q].number \in Int /\ sent[q] \in Nat
  BY <1>2, <1>3, BoundAssumption
  DEF OrderInv, NumberInv, IInv, TypeOK, PinType, DownstreamType, DemuxType, Packet
<1>9. CASE got[q].run = run
  BY <1>2, <1>7, <1>8, <1>9 DEF Complete, Value, Got, EndOfStream
<1>10. CASE got[q].run # run
  <2>1. got[q].number = 0
    BY <1>10 DEF OrderInv, GotInv, NoPacket
  <2> QED
    BY <1>2, <1>7, <1>8, <1>10, <2>1 DEF Complete, Value, Got, EndOfStream
<1> QED
  BY <1>9, <1>10

\* What a pin downstream gets of a run it gets in the order of the file and without a gap, and
\* the end of the stream after the last packet, however failures and flushes meet deliveries.
THEOREM DeliveredInOrder == Spec => InOrder
<1>1. Init => IInv /\ SegmentInv /\ OrderInv
  BY InitInv, InitSegment, InitOrder
<1>2. IInv /\ SegmentInv /\ OrderInv /\ [Next]_vars => (IInv /\ SegmentInv /\ OrderInv)'
  BY NextInv, NextSegment, NextOrder
<1>3. IInv /\ SegmentInv /\ OrderInv /\ [Next]_vars
        => [\A p \in Pin : Arrives(p) => Complete(p)]_vars
  BY ArrivesNext
<1> QED
  BY <1>1, <1>2, <1>3, PTL DEF Spec, InOrder

-----------------------------------------------------------------------------
(* Waiting.  CallsReturn needs fairness; that no thread waits for one that  *)
(* cannot go on does not.                                                   *)

\* Where the application's call waits for another thread
AppWaits == (apc = "called" /\ cmd # "none") \/ (apc = "exited" /\ quit[turn])

\* Where the demultiplexer cannot go on by itself: without a thread, before the flush is over,
\* with a full queue, and without a request
DemuxWaits ==
    \/ dpc = "off"
    \/ dpc = "wait" /\ ~fEnd
    \/ dpc = "queue" /\ hr[dpin] = "ok" /\ Full(dpin)
    \/ dpc = "eos" /\ ~PinsLeft /\ cmd = "none"

\* ... and a pin's thread, deliveries apart, which return when the graph stops
PinWaits(p) ==
    \/ ppc[p] = "off"
    \/ ppc[p] = "idle" /\ ~quit[p] /\ queue[p] = << >>
    \/ ppc[p] = "wait" /\ ~ended[p]

\* Whoever is waited for goes on: the demultiplexer while a call awaits its answer, though
\* the queue it was filling is full; a pin's thread that is to exit; the application while a
\* flush is to end; and the thread of a pin whose queue is to have room, or the flush it
\* waits for ends.
WaitersServed ==
    /\ apc = "called" /\ cmd # "none" => ~DemuxWaits \/ (dpc = "queue" /\ raced[dpin])
    /\ apc = "exited" /\ quit[turn] => ~PinWaits(turn) /\ call = "stop"
    /\ dpc = "wait" /\ ~fEnd => apc # "idle" /\ ~AppWaits
    /\ dpc = "queue" /\ hr[dpin] = "ok" /\ Full(dpin) =>
           ~PinWaits(dpin) \/ (ppc[dpin] = "wait" /\ ~ended[dpin])
    /\ \A p \in Pin : ppc[p] = "wait" /\ ~ended[p] => apc \notin {"idle", "exit", "exited"}

Exiting == {"exit", "exited"}

\* While the demultiplexer has a thread every pin has one
Living == dpc # "off" => \A p \in Pin : ppc[p] # "off"

\* A request is made to a thread, and the event it waits for without a request is set
Asked == (cmd # "none" => dpc # "off") /\ (dpc = "begin" => fEnd)

\* The demultiplexer waits only for the end of a flush it has answered
Awaited == dpc = "wait" /\ ~fEnd => Answered

\* Threads exit one by one, after the demultiplexer
ExitInv ==
    /\ \A p \in Pin : quit[p] => apc = "exited" /\ turn = p /\ ppc[p] # "off"
    /\ apc \in Exiting => call = "stop"
    /\ call = "stop" /\ (Answered \/ apc \in Exiting) => dpc = "off"

\* Where a call has yet to set the pin's m_eEndFlush
Flushes(p) ==
    \/ apc = "reset" /\ p < turn
    \/ apc \in {"flush", "refuse", "clear", "down"} /\ p <= turn
    \/ apc \in {"call", "called", "up", "accept", "ended"} /\ turn <= p

FlushEnds == \A p \in Pin : ended[p] \/ ppc[p] \in {"off", "start"} \/ Flushes(p)

WaitInv == Living /\ Asked /\ Awaited /\ ExitInv /\ FlushEnds

\* Nothing waits at first.
LEMMA InitWait == Init => WaitInv
BY DEF Init, WaitInv, Living, Asked, Awaited, ExitInv, FlushEnds, None, Exiting, Answered

\* What a pin's thread does to what others wait for: it exits, or lives on.
LEMMA PinLives ==
    ASSUME PinType, NEW p \in Pin, PinStep(p) \/ PinDelivery(p)
    PROVE  \/ PinExit(p)
           \/ /\ quit' = quit
              /\ \A q \in Pin : ppc'[q] = "off" <=> ppc[q] = "off"
              /\ \A q \in Pin : ended[q] \/ ppc[q] = "start" =>
                                    ended'[q] \/ ppc'[q] = "start"
<1> USE DEF PinType, PinPlaceName, Flag, PinGoTo
<1>1. CASE PinStart(p)
  BY <1>1 DEF PinStart
<1>2. CASE PinRestart(p) \/ PinTake(p) \/ PinFindsNone(p) \/ PinPlace(p)
  BY <1>2 DEF PinRestart, PinTake, PinFindsNone, PinPlace
<1>3. CASE PinTest(p) \/ PinWait(p) \/ PinCheck(p) \/ PinReport(p)
  BY <1>3 DEF PinTest, PinWait, PinCheck, PinReport, Onward
<1>4. CASE PinDelivery(p)
  BY <1>4 DEF PinDelivery, PinGrows, PinDelivers, PinFails
<1> QED
  BY <1>1, <1>2, <1>3, <1>4 DEF PinStep

\* The threads' lives: none ends that another still counts on.
LEMMA NextLiving ==
    ASSUME Living, ExitInv, TypeOK, [Next]_vars PROVE Living'
<1> USE DEF Living, TypeOK
<1>1. CASE Pause
  BY <1>1 DEF Pause
<1>2. CASE Seek \/ Stop
  BY <1>2, AppFrame
<1>3. CASE AppStep
  BY <1>3, AppFrame
<1>4. CASE DemuxStep
  <2>1. dpc # "off"
    BY <1>4 DEF DemuxStep, DemuxStart, DemuxBegin, DemuxWait, DemuxAnnounce, DemuxSegment,
       DemuxAnnounced, DemuxRead, DemuxLoopEnds, DemuxQueue, DemuxAdd, DemuxQueued, DemuxRefused,
       DemuxEnd, DemuxRequest
  <2> QED
    BY <1>4, <2>1, DemuxFrame
<1>5. ASSUME NEW p \in Pin, PinStep(p) \/ PinDelivery(p) PROVE Living'
  <2>1. CASE PinExit(p)
    BY <1>5, <2>1, PinFrame DEF PinExit, ExitInv, Exiting
  <2> QED
    BY <1>5, <2>1, PinLives, PinFrame
<1>6. CASE UNCHANGED vars
  BY <1>6
<1> QED
  BY <1>1, <1>2, <1>3, <1>4, <1>5, <1>6 DEF Next

\* What is asked for is asked of a thread, and what is waited for is on its way.
LEMMA NextAsked ==
    ASSUME Asked, Awaited, TypeOK, Requested, [Next]_vars PROVE Asked' /\ Awaited'
<1> USE DEF Asked, Awaited, Answered, Requested
<1>1. CASE Pause
  BY <1>1 DEF Pause, ThreadExists
<1>2. CASE Seek \/ Stop
  BY <1>2 DEF Seek, Stop, BeginFlush
<1>3. CASE ResetPin \/ FlushPin \/ RefusePackets \/ ClearQueue \/ FlushDownstream
  BY <1>3 DEF ResetPin, FlushPin, RefusePackets, ClearQueue, FlushDownstream
<1>4. CASE CallDemux \/ Called
  BY <1>4 DEF CallDemux, Called, ThreadExists
<1>5. CASE SkipPin \/ EndFlushDownstream \/ AcceptPackets \/ EndFlushPin
  BY <1>5 DEF SkipPin, EndFlushDownstream, AcceptPackets, EndFlushPin, Turn
<1>6. CASE EndFlush \/ ExitPin \/ Exited
  BY <1>6 DEF EndFlush, ExitPin, Exited
<1>7. CASE DemuxStep
  <2>1. CASE DemuxStart \/ DemuxBegin \/ DemuxWait \/ DemuxAnnounce \/ DemuxSegment \/ DemuxAnnounced
    BY <2>1 DEF DemuxStart, DemuxBegin, NewRun, DemuxWait, DemuxAnnounce, DemuxSegment,
        DemuxAnnounced
  <2>2. CASE (\E p \in Pin : DemuxRead(p)) \/ DemuxLoopEnds \/ DemuxQueue \/ DemuxAdd
    BY <2>2 DEF DemuxRead, DemuxLoopEnds, DemuxQueue, DemuxAdd
  <2>3. CASE DemuxQueued \/ DemuxRefused \/ DemuxEnd
    BY <2>3 DEF DemuxQueued, DemuxRefused, AfterQueue, DemuxEnd
  <2>4. CASE DemuxRequest
    BY <2>4 DEF DemuxRequest, NewRun
  <2> QED
    BY <1>7, <2>1, <2>2, <2>3, <2>4 DEF DemuxStep
<1>8. ASSUME NEW p \in Pin, PinStep(p) \/ PinDelivery(p) PROVE Asked' /\ Awaited'
  BY <1>8, PinFrame
<1>9. CASE UNCHANGED vars
  BY <1>9
<1> QED
  BY <1>1, <1>2, <1>3, <1>4, <1>5, <1>6, <1>7, <1>8, <1>9 DEF Next, AppStep

\* The demultiplexer goes, then the pins' threads, one at a time.
LEMMA NextExit ==
    ASSUME ExitInv, Living, Requested, TypeOK, [Next]_vars PROVE ExitInv'
<1> USE DEF ExitInv, Exiting, Answered
<1>1. CASE Pause
  BY <1>1 DEF Pause, TypeOK, PinType
<1>2. CASE Seek \/ Stop
  BY <1>2 DEF Seek, Stop, BeginFlush
<1>3. CASE ResetPin \/ FlushPin \/ RefusePackets \/ ClearQueue
  BY <1>3 DEF ResetPin, FlushPin, RefusePackets, ClearQueue
<1>4. CASE FlushDownstream \/ CallDemux \/ Called
  BY <1>4 DEF FlushDownstream, Turn, CallDemux, Called, ThreadExists
<1>5. CASE SkipPin \/ EndFlushDownstream \/ AcceptPackets \/ EndFlushPin
  BY <1>5 DEF SkipPin, EndFlushDownstream, AcceptPackets, EndFlushPin, Turn
<1>6. CASE EndFlush
  BY <1>6 DEF EndFlush
<1>7. CASE ExitPin
  BY <1>7 DEF ExitPin, PinThreadExists, TypeOK, PinType, Flag
<1>8. CASE Exited
  <2>1. \A p \in Pin : ~quit[p]
    BY <1>8 DEF Exited
  <2> QED
    BY <1>8, <2>1, OutputsAssumption DEF Exited, Turn, TypeOK, AppType, Pin
<1>9. CASE DemuxStep
  <2>1. UNCHANGED <<app, thread>> /\ dpc # "off"
    BY <1>9, DemuxFrame
    DEF DemuxStep, DemuxStart, DemuxBegin, DemuxWait, DemuxAnnounce, DemuxSegment, DemuxAnnounced,
        DemuxRead, DemuxLoopEnds, DemuxQueue, DemuxAdd, DemuxQueued, DemuxRefused, DemuxEnd,
        DemuxRequest
  <2>2. CASE DemuxRequest
    BY <2>1, <2>2 DEF DemuxRequest, NewRun, Requested
  <2>3. CASE ~DemuxRequest
    <3>1. cmd' = cmd
      BY <1>9, <2>3
      DEF DemuxStep, DemuxStart, DemuxBegin, DemuxWait, DemuxAnnounce, DemuxSegment,
          DemuxAnnounced, DemuxRead, DemuxLoopEnds, DemuxQueue, DemuxAdd, DemuxQueued,
          DemuxRefused, DemuxEnd
    <3> QED
      BY <2>1, <3>1
  <2> QED
    BY <2>2, <2>3
<1>10. ASSUME NEW p \in Pin, PinStep(p) \/ PinDelivery(p) PROVE ExitInv'
  <2>1. CASE PinExit(p)
    BY <1>10, <2>1, PinFrame DEF PinExit, PinGoTo, TypeOK, PinType, Flag
  <2> QED
    BY <1>10, <2>1, PinLives, PinFrame DEF TypeOK
<1>11. CASE UNCHANGED vars
  BY <1>11
<1> QED
  BY <1>1, <1>2, <1>3, <1>4, <1>5, <1>6, <1>7, <1>8, <1>9, <1>10, <1>11 DEF Next, AppStep

\* A call sets each pin's event before it is over.
LEMMA NextFlushEnds ==
    ASSUME FlushEnds, TypeOK, [Next]_vars PROVE FlushEnds'
<1> SUFFICES ASSUME NEW q \in Pin, ended[q] \/ ppc[q] \in {"off", "start"} \/ Flushes(q)
             PROVE  (ended[q] \/ ppc[q] \in {"off", "start"} \/ Flushes(q))'
  BY DEF FlushEnds
<1>0. turn \in Int /\ q \in Int /\ 1 <= q /\ q <= Outputs /\ Outputs \in Int /\ ended \in [Pin -> BOOLEAN]
  BY OutputsAssumption DEF TypeOK, AppType, PinType, Flag, Pin
<1> USE <1>0 DEF Flushes
<1>1. CASE Pause
  BY <1>1 DEF Pause
<1>2. CASE Seek \/ Stop
  BY <1>2 DEF Seek, Stop, BeginFlush
<1>3. CASE ResetPin
  BY <1>3 DEF ResetPin
<1>4. CASE FlushPin \/ RefusePackets \/ ClearQueue
  BY <1>4 DEF FlushPin, RefusePackets, ClearQueue
<1>5. CASE FlushDownstream
  BY <1>5 DEF FlushDownstream, Turn
<1>6. CASE CallDemux \/ EndFlushDownstream \/ AcceptPackets
  BY <1>6 DEF CallDemux, EndFlushDownstream, AcceptPackets
<1>7. CASE Called
  BY <1>7 DEF Called
<1>8. CASE SkipPin
  BY <1>8 DEF SkipPin, PinThreadExists, Turn
<1>9. CASE EndFlushPin
  BY <1>9 DEF EndFlushPin, FlushOver, Turn
<1>10. CASE EndFlush \/ ExitPin \/ Exited
  BY <1>10 DEF EndFlush, ExitPin, Exited
<1>11. CASE DemuxStep
  BY <1>11, DemuxFrame
<1>12. ASSUME NEW p \in Pin, PinStep(p) \/ PinDelivery(p)
       PROVE  (ended[q] \/ ppc[q] \in {"off", "start"} \/ Flushes(q))'
  <2>1. CASE PinExit(p)
    BY <1>12, <2>1, PinFrame DEF PinExit, PinGoTo, TypeOK, PinType
  <2> QED
    BY <1>12, <2>1, PinLives, PinFrame DEF TypeOK
<1>13. CASE UNCHANGED vars
  BY <1>13
<1> QED
  BY <1>1, <1>2, <1>3, <1>4, <1>5, <1>6, <1>7, <1>8, <1>9, <1>10, <1>11, <1>12, <1>13
  DEF Next, AppStep

\* The parts together.
LEMMA NextWait == IInv /\ WaitInv /\ [Next]_vars => WaitInv'
<1> SUFFICES ASSUME IInv, WaitInv, [Next]_vars PROVE WaitInv'
  OBVIOUS
<1>1. TypeOK /\ Requested
  BY DEF IInv, Place
<1>2. Living /\ Asked /\ Awaited /\ ExitInv /\ FlushEnds
  BY DEF WaitInv
<1>3. Living' /\ ExitInv'
  BY <1>1, <1>2, NextLiving, NextExit
<1>4. Asked' /\ Awaited' /\ FlushEnds'
  BY <1>1, <1>2, NextAsked, NextFlushEnds
<1> QED
  BY <1>3, <1>4 DEF WaitInv

\* With the invariant, whoever is waited for goes on.
LEMMA WaitServes == IInv /\ WaitInv => WaitersServed
<1> SUFFICES ASSUME IInv, WaitInv PROVE WaitersServed
  OBVIOUS
<1> USE DEF WaitInv
<1>1. apc = "called" /\ cmd # "none" => ~DemuxWaits \/ (dpc = "queue" /\ raced[dpin])
  <2> SUFFICES ASSUME apc = "called", cmd # "none"
               PROVE  ~DemuxWaits \/ (dpc = "queue" /\ raced[dpin])
    OBVIOUS
  <2>1. dpc # "off" /\ ~(dpc = "wait" /\ ~fEnd)
    BY DEF Asked, Awaited, Answered
  <2>2. dpc = "queue" => raced[dpin] \/ hr[dpin] # "ok"
    BY DEF IInv, Place, Queueing, StaleInv, FlushInv, Refusing, Emptied
  <2> QED
    BY <2>1, <2>2 DEF DemuxWaits
<1>2. apc = "exited" /\ quit[turn] => ~PinWaits(turn) /\ call = "stop"
  <2> SUFFICES ASSUME apc = "exited", quit[turn] PROVE ~PinWaits(turn) /\ call = "stop"
    OBVIOUS
  <2>1. turn \in Pin /\ ppc[turn] # "off" /\ call = "stop"
    BY DEF IInv, TypeOK, AppType, ExitInv, Exiting
  <2>2. ppc[turn] = "wait" => ended[turn]
    BY <2>1 DEF FlushEnds, Flushes
  <2> QED
    BY <2>1, <2>2 DEF PinWaits
<1>3. dpc = "wait" /\ ~fEnd => apc # "idle" /\ ~AppWaits
  BY DEF Awaited, Answered, AppWaits
<1>4. ASSUME dpc = "queue", hr[dpin] = "ok", Full(dpin)
      PROVE  ~PinWaits(dpin) \/ (ppc[dpin] = "wait" /\ ~ended[dpin])
  <2>1. dpin \in Pin /\ ppc[dpin] # "off"
    BY <1>4 DEF Living, IInv, Place, Queueing
  <2>2. queue[dpin] # << >>
    <3>1. Len(queue[dpin]) > MaxPackets \/ Len(queue[dpin]) > 2 * MaxPackets
      BY <1>4 DEF Full
    <3> QED
      BY <3>1, QueueAssumption
  <2> QED
    BY <2>1, <2>2 DEF PinWaits
<1>5. ASSUME NEW p \in Pin, ppc[p] = "wait", ~ended[p] PROVE apc \notin {"idle", "exit", "exited"}
  BY <1>5 DEF FlushEnds, Flushes
<1> QED
  BY <1>1, <1>2, <1>3, <1>4, <1>5 DEF WaitersServed

\* The core of CallsReturn that needs no fairness: a call waits for the demultiplexer, or for
\* a pin's thread to exit, only while that can go on, though queues are full; and a thread
\* that waits for the end of a flush, or for room, waits for one that can bring it about, so
\* that these waits never come to lie in a circle.
THEOREM WaitsEnd == Spec => []WaitersServed
<1>1. Init => IInv /\ WaitInv
  BY InitInv, InitWait
<1>2. IInv /\ WaitInv /\ [Next]_vars => (IInv /\ WaitInv)'
  BY NextInv, NextWait
<1> QED
  BY <1>1, <1>2, WaitServes, PTL DEF Spec

=============================================================================

--------------------------- MODULE SplitterProofs ---------------------------
(* Proofs about the splitter for every number of pins, size of the queues   *)
(* and length of the file.                                                  *)
EXTENDS SplitterProperties, TLAPS

\* The application has cleared the pin's queue and not yet been answered
Emptied(p) ==
    \/ apc \in {"reset", "flush", "refuse", "clear"} /\ turn > p
    \/ apc = "down" /\ turn >= p
    \/ apc = "call"
    \/ apc = "called" /\ cmd # "none"

\* A packet on its way into the pin's queue
Coming(p) == IF dpc = "add" /\ dpin = p THEN 1 ELSE 0

\* A seek that the demultiplexer has yet to answer
Unanswered ==
    \/ apc \in {"reset", "flush", "refuse", "clear", "down", "call"}
    \/ apc = "called" /\ cmd # "none"

\* Runs that are sure to begin: a start or a seek under way
Starting == IF dpc \in {"start", "begin"} THEN 1 ELSE 0
Seeking == IF call = "seek" /\ Unanswered THEN 1 ELSE 0

\* Where the threads' locals and requests are meaningful
Requested == cmd # "none" => apc = "called" /\ cmd = call

Queueing ==
    /\ dpc \in {"segment", "queue", "add", "added"} => dpin \in Pin
    /\ dpc \in {"queue", "add", "added"} => dpacket.run = run

LeftToSend == \A p \in Pin : sent[p] + left <= Length

RoomToAdd == dpc = "add" => Len(queue[dpin]) <= 2 * MaxPackets

Failed == \A p \in Pin : ppc[p] \in {"check", "report"} => res[p] # "ok"

RunsCounted == run + Starting + Seeking <= calls

Place == Requested /\ Queueing /\ LeftToSend /\ RoomToAdd /\ Failed /\ RunsCounted

\* Between the clearing of a pin's queue and the demultiplexer's answer the pin refuses
\* packets; what comes into the queue was on its way before
Refusing(q) ==
    \/ raced[q]
    \/ /\ apc \in {"refuse", "clear"} /\ turn = q => flushing[q]
       /\ apc = "clear" /\ turn = q => hr[q] # "ok"
       /\ Emptied(q) => flushing[q] /\ hr[q] # "ok" /\ Len(queue[q]) + Coming(q) <= 1

FlushInv == \A q \in Pin : Refusing(q)

\* What is left when the demultiplexer begins anew
Resting(q) == raced[q] \/ (dpc \in {"off", "start", "begin"} => Len(queue[q]) <= 1)

RestInv == \A q \in Pin : Resting(q)

\* StaleAtMostOne, of one pin
HeadOnly(q) == raced[q] \/ Old(q) \subseteq {1}

StaleInv == FlushInv /\ RestInv /\ StaleAtMostOne

\* The old packets a pin's thread may yet deliver: in its hands, and at its queue's head
InHand(q) == IF ppc[q] \in {"test", "place", "deliver"} /\ packet[q].run < seg[q] THEN 1 ELSE 0
AtHead(q) == IF queue[q] # << >> /\ queue[q][1].run < seg[q] THEN 1 ELSE 0

SegmentsBehind == \A q \in Pin : seg[q] <= run

FewLate(q) == raced[q] \/ late[q] + InHand(q) + AtHead(q) <= 2

LateInv == \A q \in Pin : FewLate(q)

IInv == TypeOK /\ Place /\ StaleInv /\ SegmentsBehind /\ LateInv

----------------------------------------------------------------------------
USE DEF app, filter, demux, flags, thread, downstream, history, vars

\* The end of the stream of no run is a packet.
LEMMA NoPacketType == NoPacket \in Packet /\ NoPacket.run = 0
BY BoundAssumption DEF NoPacket, Packet, Run

\* What the application leaves alone.
LEMMA AppFrame ==
    Seek \/ Stop \/ AppStep =>
        UNCHANGED <<demux, ppc, packet, more, res, seg, got, late, raced>>
BY SMTT(30)
DEF AppStep, Seek, Stop, BeginFlush, ResetPin, FlushPin, RefusePackets, ClearQueue, FlushDownstream,
    CallDemux, Called, SkipPin, EndFlushDownstream, AcceptPackets, EndFlushPin, EndFlush, ExitPin,
    Exited

\* What the demultiplexer leaves alone.
LEMMA DemuxFrame == DemuxStep => UNCHANGED <<app, flags, thread, down, history>>
<1>1. DemuxStart \/ DemuxBegin \/ DemuxWait \/ DemuxAnnounce \/ DemuxSegment \/ DemuxAnnounced
          => UNCHANGED <<app, flags, thread, down, history>>
  BY DEF DemuxStart, DemuxBegin, DemuxWait, DemuxAnnounce, DemuxSegment, DemuxAnnounced
<1>2. (\E p \in Pin : DemuxRead(p)) \/ DemuxLoopEnds \/ DemuxQueue \/ DemuxAdd
          => UNCHANGED <<app, flags, thread, down, history>>
  BY DEF DemuxRead, DemuxLoopEnds, DemuxQueue, DemuxAdd
<1>3. DemuxQueued \/ DemuxRefused \/ DemuxEnd \/ DemuxRequest
          => UNCHANGED <<app, flags, thread, down, history>>
  BY DEF DemuxQueued, DemuxRefused, DemuxEnd, DemuxRequest
<1> QED
  BY <1>1, <1>2, <1>3 DEF DemuxStep

\* What a pin's thread leaves alone.
LEMMA PinFrame == \A p \in Pin : PinStep(p) \/ PinDelivery(p) => UNCHANGED <<app, filter, demux>>
BY SMTT(30)
DEF PinStep, PinDelivery, PinStart, PinRestart, PinExit, PinTake, PinFindsNone, PinTest, PinPlace,
    PinWait, PinCheck, PinReport, PinGrows, PinDelivers, PinFails

\* The filter begins with variables of their types.
LEMMA InitType == Init => TypeOK /\ Place
<1> SUFFICES ASSUME Init PROVE TypeOK /\ Place
  OBVIOUS
<1> USE OutputsAssumption, BoundAssumption, NoPacketType DEF Init
<1>1. AppType
  <2>1. turn \in Pin /\ calls \in Run
    BY DEF Pin, Run
  <2> QED
    BY <2>1 DEF AppType, AppPlace
<1>2. DemuxType
  BY DEF DemuxType, DemuxPlace, Run
<1>3. PinType
  BY DEF PinType, PinPlaceName, Flag, Nothing, None, Result
<1>4. DownstreamType
  BY DEF DownstreamType, Flag, None, Nothing, Run
<1>5. QueueLimited
  BY QueueAssumption DEF QueueLimited
<1>6. Place
  BY DEF Place, Requested, Queueing, LeftToSend, RoomToAdd, Failed, RunsCounted, Starting, Seeking
<1> QED
  BY <1>1, <1>2, <1>3, <1>4, <1>5, <1>6 DEF TypeOK

\* What the application and the filter hold keeps its type.
LEMMA NextAppType == AppType /\ DemuxType /\ Queueing /\ [Next]_vars => AppType'
<1> SUFFICES ASSUME AppType, DemuxType, Queueing, [Next]_vars PROVE AppType'
  OBVIOUS
<1> USE OutputsAssumption, BoundAssumption DEF AppType, AppPlace, Pin, Run
<1>1. CASE Pause
  BY <1>1 DEF Pause, ThreadExists
<1>2. CASE Seek
  BY <1>2 DEF Seek, BeginFlush, ThreadExists
<1>3. CASE Stop
  BY <1>3 DEF Stop, BeginFlush
<1>4. CASE ResetPin
  BY <1>4 DEF ResetPin
<1>5. CASE FlushPin
  BY <1>5 DEF FlushPin
<1>6. CASE RefusePackets
  BY <1>6 DEF RefusePackets
<1>7. CASE ClearQueue
  BY <1>7 DEF ClearQueue, Cleared
<1>8. CASE FlushDownstream
  BY <1>8 DEF FlushDownstream, Turn
<1>9. CASE CallDemux
  BY <1>9 DEF CallDemux, ThreadExists
<1>10. CASE Called
  BY <1>10 DEF Called
<1>11. CASE SkipPin
  BY <1>11 DEF SkipPin, Turn
<1>12. CASE EndFlushDownstream
  BY <1>12 DEF EndFlushDownstream
<1>13. CASE AcceptPackets
  BY <1>13 DEF AcceptPackets
<1>14. CASE EndFlushPin
  BY <1>14 DEF EndFlushPin, FlushOver, Turn, Delivering
<1>15. CASE EndFlush
  BY <1>15 DEF EndFlush
<1>16. CASE ExitPin
  BY <1>16 DEF ExitPin, PinThreadExists
<1>17. CASE Exited
  BY <1>17 DEF Exited, Turn
<1>18. CASE DemuxStart
  BY <1>18 DEF DemuxStart
<1>19. CASE DemuxWait
  BY <1>19 DEF DemuxWait
<1>20. CASE DemuxAnnounce
  <2>1. dpin \in Pin
    BY <1>20, OutputsAssumption DEF DemuxAnnounce, DemuxType
  <2> QED
    BY <1>20, <2>1 DEF DemuxAnnounce
<1>21. CASE DemuxRefused
  BY <1>21 DEF DemuxRefused, AfterQueue, NoPacket
<1>22. CASE DemuxRequest
  BY <1>22 DEF DemuxRequest, NewRun, Nothing, NoPacket
<1>23. CASE DemuxBegin \/ DemuxSegment \/ DemuxAnnounced \/ (\E p \in Pin : DemuxRead(p)) \/
      DemuxLoopEnds \/ DemuxQueue \/ DemuxAdd \/ DemuxQueued \/ DemuxEnd
  BY SMTT(20), <1>23 DEF DemuxBegin, NewRun, Nothing, NoPacket, DemuxSegment, DemuxAnnounced,
      DemuxRead, DemuxLoopEnds, DemuxQueue, Full, DemuxAdd, DemuxQueued, AfterQueue, DemuxEnd
<1>24. ASSUME NEW p \in Pin, PinStep(p) \/ PinDelivery(p) PROVE AppType'
  BY <1>24, PinFrame
<1>25. CASE UNCHANGED vars
  BY <1>25
<1> QED
  BY <1>1, <1>2, <1>3, <1>4, <1>5, <1>6, <1>7, <1>8, <1>9, <1>10, <1>11, <1>12, <1>13,
      <1>14, <1>15, <1>16, <1>17, <1>18, <1>19, <1>20, <1>21, <1>22, <1>23, <1>24, <1>25
  DEF Next, AppStep, DemuxStep, PinStep, PinDelivery

\* What the demultiplexer holds keeps its type.
LEMMA NextDemuxType ==
    DemuxType /\ Requested /\ AppType /\ Queueing /\ LeftToSend /\ RunsCounted /\ [Next]_vars
        => DemuxType'
<1> SUFFICES ASSUME DemuxType, Requested, AppType, Queueing, LeftToSend, RunsCounted,
                    [Next]_vars
             PROVE  DemuxType'
  OBVIOUS
<1> USE OutputsAssumption, BoundAssumption, NoPacketType DEF DemuxType, DemuxPlace
<1>1. CASE Pause
  BY <1>1 DEF Pause, ThreadExists
<1>2. CASE DemuxStart
  BY <1>2 DEF DemuxStart
<1>3. CASE DemuxBegin
  <2>1. run' \in Run
    BY <1>3 DEF DemuxBegin, NewRun, Run, RunsCounted, Starting, Seeking, AppType
  <2>2. sent' \in [Pin -> 0 .. Length] /\ left' \in 0 .. Length
    BY <1>3 DEF DemuxBegin, NewRun
  <2> QED
    BY <1>3, <2>1, <2>2 DEF DemuxBegin, NewRun
<1>4. CASE DemuxWait
  BY <1>4 DEF DemuxWait
<1>5. CASE DemuxAnnounce
  BY <1>5 DEF DemuxAnnounce
<1>6. CASE DemuxSegment
  BY <1>6 DEF DemuxSegment, Queueing, Pin
<1>7. CASE DemuxAnnounced
  BY <1>7 DEF DemuxAnnounced
<1>8. ASSUME NEW p \in Pin, DemuxRead(p) PROVE DemuxType'
  <2>1. CASE p \in active
    <3>1. sent[p] + 1 \in 0 .. Length /\ left - 1 \in 0 .. Length
      BY <1>8 DEF DemuxRead, LeftToSend
    <3>2. dpacket' \in Packet
      BY <1>8, <2>1, <3>1 DEF DemuxRead, Packet
    <3>3. p \in 1 .. Outputs + 1
      BY DEF Pin
    <3> QED
      BY <1>8, <2>1, <3>1, <3>2, <3>3 DEF DemuxRead
  <2>2. CASE p \notin active
    BY <1>8, <2>2 DEF DemuxRead
  <2> QED
    BY <2>1, <2>2
<1>9. CASE DemuxLoopEnds
  BY <1>9 DEF DemuxLoopEnds
<1>10. CASE DemuxQueue
  BY <1>10 DEF DemuxQueue, Full
<1>11. CASE DemuxAdd
  BY <1>11 DEF DemuxAdd
<1>12. CASE DemuxQueued
  BY <1>12 DEF DemuxQueued, AfterQueue, Queueing, Pin
<1>13. CASE DemuxRefused
  BY <1>13 DEF DemuxRefused, AfterQueue, Queueing, Pin
<1>14. CASE DemuxEnd
  <2>1. CASE dpin \in active
    <3>1. dpacket' \in Packet
      BY <1>14, <2>1 DEF DemuxEnd, Packet, EndOfStream
    <3> QED
      BY <1>14, <2>1, <3>1 DEF DemuxEnd
  <2>2. CASE dpin \notin active
    BY <1>14, <2>2 DEF DemuxEnd, PinsLeft
  <2> QED
    BY <2>1, <2>2
<1>15. CASE DemuxRequest
  <2>1. run' \in Run
    BY <1>15 DEF
        DemuxRequest, NewRun, Run, RunsCounted, Starting, Seeking, Unanswered, AppType, Place,
        Requested
  <2>2. sent' \in [Pin -> 0 .. Length] /\ left' \in 0 .. Length
    BY <1>15 DEF DemuxRequest, NewRun
  <2> QED
    BY <1>15, <2>1, <2>2 DEF DemuxRequest, NewRun
<1>16. CASE Seek \/ Stop \/ AppStep
  BY <1>16, AppFrame
<1>17. ASSUME NEW p \in Pin, PinStep(p) \/ PinDelivery(p) PROVE DemuxType'
  BY <1>17, PinFrame
<1>18. CASE UNCHANGED vars
  BY <1>18
<1> QED
  BY <1>1, <1>2, <1>3, <1>4, <1>5, <1>6, <1>7, <1>8, <1>9, <1>10, <1>11, <1>12, <1>13,
      <1>14, <1>15, <1>16, <1>17, <1>18
  DEF Next, AppStep, DemuxStep, PinStep, PinDelivery

\* What the pins hold keeps its type.
LEMMA NextPinType == PinType /\ DemuxType /\ AppType /\ [Next]_vars => PinType'
<1> SUFFICES ASSUME PinType, DemuxType, AppType, [Next]_vars PROVE PinType'
  OBVIOUS
<1> USE NoPacketType DEF PinType, Flag, Result, PinPlaceName
<1>1. CASE Pause
  BY <1>1 DEF Pause, ThreadExists
<1>2. CASE ResetPin
  BY <1>2 DEF ResetPin
<1>3. CASE FlushPin
  BY <1>3 DEF FlushPin
<1>4. CASE RefusePackets
  BY <1>4 DEF RefusePackets
<1>5. CASE ClearQueue
  <2>1. << >> \in Seq(Packet)
    OBVIOUS
  <2>2. queue' \in [Pin -> Seq(Packet)]
    BY <1>5, <2>1 DEF ClearQueue, Cleared
  <2> QED
    BY <1>5, <2>2 DEF ClearQueue
<1>6. CASE FlushDownstream
  BY <1>6 DEF FlushDownstream
<1>7. CASE AcceptPackets
  BY <1>7 DEF AcceptPackets
<1>8. CASE EndFlushPin
  BY <1>8 DEF EndFlushPin, FlushOver
<1>9. CASE ExitPin
  BY <1>9 DEF ExitPin, PinThreadExists
<1>10. CASE DemuxAdd
  <2>1. dpin \in Pin => Append(queue[dpin], dpacket) \in Seq(Packet)
    BY DEF DemuxType
  <2>2. queue' \in [Pin -> Seq(Packet)]
    BY <1>10, <2>1 DEF DemuxAdd
  <2> QED
    BY <1>10, <2>2 DEF DemuxAdd
<1>11. ASSUME NEW p \in Pin, PinStart(p) PROVE PinType'
  BY <1>11 DEF PinStart, PinGoTo
<1>12. ASSUME NEW p \in Pin, PinRestart(p) PROVE PinType'
  BY <1>12 DEF PinRestart, PinGoTo
<1>13. ASSUME NEW p \in Pin, PinExit(p) PROVE PinType'
  BY <1>13 DEF PinExit, PinGoTo
<1>14. ASSUME NEW p \in Pin, PinTake(p) PROVE PinType'
  <2>1. queue[p] \in Seq(Packet) /\ queue[p] # << >>
    BY <1>14 DEF PinTake
  <2>2. Head(queue[p]) \in Packet /\ Tail(queue[p]) \in Seq(Packet)
    BY <2>1
  <2>3. queue' \in [Pin -> Seq(Packet)] /\ packet' \in [Pin -> Packet]
    BY <1>14, <2>2 DEF PinTake
  <2>4. more' \in [Pin -> BOOLEAN] /\ ppc' \in [Pin -> PinPlaceName]
    BY <1>14 DEF PinTake, PinGoTo
  <2> QED
    BY <1>14, <2>3, <2>4 DEF PinTake
<1>15. ASSUME NEW p \in Pin, PinFindsNone(p) PROVE PinType'
  BY <1>15 DEF PinFindsNone, PinGoTo
<1>16. ASSUME NEW p \in Pin, PinTest(p) PROVE PinType'
  <2>1. packet' \in [Pin -> Packet]
    BY <1>16 DEF PinTest, Onward, Forget, Remember
  <2>2. res' \in [Pin -> Result]
    BY <1>16 DEF PinTest, Onward, Forget, Remember
  <2>3. ppc' \in [Pin -> PinPlaceName]
    BY <1>16 DEF PinTest, Onward, PinGoTo
  <2> QED
    BY <1>16, <2>1, <2>2, <2>3 DEF PinTest
<1>17. ASSUME NEW p \in Pin, PinPlace(p) PROVE PinType'
  BY <1>17 DEF PinPlace, PinGoTo
<1>18. ASSUME NEW p \in Pin, PinWait(p) PROVE PinType'
  <2>1. packet' \in [Pin -> Packet]
    BY <1>18 DEF PinWait, Onward, Forget, Remember
  <2>2. res' \in [Pin -> Result]
    BY <1>18 DEF PinWait, Onward, Forget, Remember
  <2>3. ppc' \in [Pin -> PinPlaceName]
    BY <1>18 DEF PinWait, Onward, PinGoTo
  <2> QED
    BY <1>18, <2>1, <2>2, <2>3 DEF PinWait
<1>19. ASSUME NEW p \in Pin, PinCheck(p) PROVE PinType'
  <2>1. packet' \in [Pin -> Packet]
    BY <1>19 DEF PinCheck, Onward, Forget, Remember
  <2>2. res' \in [Pin -> Result]
    BY <1>19 DEF PinCheck, Onward, Forget, Remember
  <2>3. ppc' \in [Pin -> PinPlaceName]
    BY <1>19 DEF PinCheck, Onward, PinGoTo
  <2> QED
    BY <1>19, <2>1, <2>2, <2>3 DEF PinCheck
<1>20. ASSUME NEW p \in Pin, PinReport(p) PROVE PinType'
  BY <1>20 DEF PinReport, PinGoTo, Forget
<1>21. ASSUME NEW p \in Pin, PinDelivers(p) PROVE PinType'
  BY <1>21 DEF PinDelivers, PinGoTo
<1>22. ASSUME NEW p \in Pin, PinFails(p) PROVE PinType'
  BY <1>22 DEF PinFails, PinGoTo
<1>23. CASE Seek \/ Stop \/ CallDemux \/ Called \/ SkipPin \/ EndFlushDownstream \/ EndFlush \/
      Exited
  BY SMTT(20), <1>23 DEF Seek, BeginFlush, ThreadExists, Stop, CallDemux, Called, SkipPin,
      EndFlushDownstream, EndFlush, Exited
<1>24. CASE DemuxStart \/ DemuxBegin \/ DemuxWait \/ DemuxAnnounce \/ DemuxSegment \/
      DemuxAnnounced \/ (\E p \in Pin : DemuxRead(p)) \/ DemuxLoopEnds \/ DemuxQueue \/
      DemuxQueued \/ DemuxRefused \/ DemuxEnd \/ DemuxRequest
  BY SMTT(20), <1>24 DEF DemuxStart, DemuxBegin, NewRun, Nothing, DemuxWait, DemuxAnnounce,
      DemuxSegment, DemuxAnnounced, DemuxRead, DemuxLoopEnds, DemuxQueue, Full, DemuxQueued,
      AfterQueue, DemuxRefused, DemuxEnd, DemuxRequest
<1>25. ASSUME NEW p \in Pin, PinGrows(p) PROVE PinType'
  BY SMTT(20), <1>25 DEF PinGrows
<1>26. CASE UNCHANGED vars
  BY <1>26
<1> QED
  BY <1>1, <1>2, <1>3, <1>4, <1>5, <1>6, <1>7, <1>8, <1>9, <1>10, <1>11, <1>12, <1>13,
      <1>14, <1>15, <1>16, <1>17, <1>18, <1>19, <1>20, <1>21, <1>22, <1>23, <1>24, <1>25, <1>26
  DEF Next, AppStep, DemuxStep, PinStep, PinDelivery

\* What the pins downstream hold keeps its type.
LEMMA NextDownstreamType ==
    DownstreamType /\ PinType /\ DemuxType /\ [Next]_vars
        => DownstreamType'
<1> SUFFICES ASSUME DownstreamType, PinType, DemuxType, [Next]_vars PROVE DownstreamType'
  OBVIOUS
<1> USE NoPacketType DEF DownstreamType, Flag
<1>1. CASE FlushDownstream
  BY <1>1 DEF FlushDownstream
<1>2. CASE EndFlushDownstream
  BY <1>2 DEF EndFlushDownstream
<1>3. CASE EndFlushPin
  <2>1. interrupted' \in [Pin -> BOOLEAN]
    <3>1. (ppc[turn] \in Delivering) \in BOOLEAN
      OBVIOUS
    <3> QED
      BY <1>3, <3>1 DEF EndFlushPin
  <2> QED
    BY <1>3, <2>1 DEF EndFlushPin
<1>4. CASE DemuxBegin
  BY <1>4 DEF DemuxBegin, NewRun, Nothing
<1>5. CASE DemuxSegment
  <2>1. seg' \in [Pin -> Run] /\ late' \in [Pin -> Nat]
    BY <1>5 DEF DemuxSegment, DemuxType
  <2> QED
    BY <1>5, <2>1 DEF DemuxSegment
<1>6. CASE DemuxRequest
  BY <1>6 DEF DemuxRequest, NewRun, Nothing
<1>7. ASSUME NEW p \in Pin, PinStart(p) PROVE DownstreamType'
  BY <1>7 DEF PinStart, PinGoTo
<1>8. ASSUME NEW p \in Pin, PinRestart(p) PROVE DownstreamType'
  BY <1>8 DEF PinRestart, PinGoTo
<1>9. ASSUME NEW p \in Pin, PinTest(p) PROVE DownstreamType'
  BY <1>9 DEF PinTest, PinGoTo, Onward, Forget, Remember, Accepting
<1>10. ASSUME NEW p \in Pin, PinWait(p) PROVE DownstreamType'
  BY <1>10 DEF PinWait, PinGoTo, Onward, Forget, Remember
<1>11. ASSUME NEW p \in Pin, PinCheck(p) PROVE DownstreamType'
  BY <1>11 DEF PinCheck, PinGoTo, Onward, Forget, Remember
<1>12. ASSUME NEW p \in Pin, PinReport(p) PROVE DownstreamType'
  BY <1>12 DEF PinReport, PinGoTo, Forget
<1>13. ASSUME NEW p \in Pin, PinGrows(p) PROVE DownstreamType'
  BY <1>13 DEF PinGrows
<1>14. ASSUME NEW p \in Pin, PinDelivers(p) PROVE DownstreamType'
  <2>1. got' \in [Pin -> Packet] /\ late' \in [Pin -> Nat]
    BY <1>14 DEF PinDelivers, PinType
  <2> QED
    BY <1>14, <2>1 DEF PinDelivers
<1>15. CASE Pause \/ Seek \/ Stop \/ ResetPin \/ FlushPin \/ RefusePackets \/ ClearQueue \/
      CallDemux \/ Called \/ SkipPin \/ AcceptPackets \/ EndFlush \/ ExitPin \/ Exited
  BY SMTT(20), <1>15 DEF Pause, ThreadExists, Seek, BeginFlush, Stop, ResetPin, FlushPin,
      RefusePackets, ClearQueue, Cleared, CallDemux, Called, SkipPin, AcceptPackets, EndFlush,
      ExitPin, PinThreadExists, Exited
<1>16. CASE DemuxStart \/ DemuxWait \/ DemuxAnnounce \/ DemuxAnnounced \/ (\E p \in Pin :
      DemuxRead(p)) \/ DemuxLoopEnds \/ DemuxQueue \/ DemuxAdd \/ DemuxQueued \/ DemuxRefused
      \/ DemuxEnd
  BY SMTT(20), <1>16 DEF DemuxStart, DemuxWait, DemuxAnnounce, DemuxAnnounced, DemuxRead,
      DemuxLoopEnds, DemuxQueue, Full, DemuxAdd, DemuxQueued, AfterQueue, DemuxRefused,
      DemuxEnd
<1>17. ASSUME NEW p \in Pin, PinExit(p) \/ PinTake(p) \/ PinFindsNone(p) \/ PinPlace(p) \/
      PinFails(p) PROVE DownstreamType'
  BY SMTT(20), <1>17 DEF PinExit, PinGoTo, PinTake, PinFindsNone, PinPlace, PinFails
<1>18. CASE UNCHANGED vars
  BY <1>18
<1> QED
  BY <1>1, <1>2, <1>3, <1>4, <1>5, <1>6, <1>7, <1>8, <1>9, <1>10, <1>11, <1>12, <1>13,
      <1>14, <1>15, <1>16, <1>17, <1>18
  DEF Next, AppStep, DemuxStep, PinStep, PinDelivery

\* No queue grows beyond the limit, as the demultiplexer alone adds to it.
LEMMA NextRoom ==
    QueueLimited /\ RoomToAdd /\ Queueing /\ PinType /\ DemuxType /\ [Next]_vars
        => (QueueLimited /\ RoomToAdd)'
<1> SUFFICES ASSUME QueueLimited, RoomToAdd, Queueing, PinType, DemuxType, [Next]_vars
             PROVE  (QueueLimited /\ RoomToAdd)'
  OBVIOUS
<1> USE QueueAssumption DEF QueueLimited, RoomToAdd
<1>1. CASE Pause
  BY <1>1 DEF Pause, ThreadExists
<1>2. CASE ClearQueue
  BY <1>2 DEF ClearQueue, Cleared
<1>3. CASE DemuxStart
  BY <1>3 DEF DemuxStart
<1>4. CASE DemuxBegin
  BY <1>4 DEF DemuxBegin, NewRun, Nothing
<1>5. CASE DemuxWait
  BY <1>5 DEF DemuxWait
<1>6. CASE DemuxAnnounce
  BY <1>6 DEF DemuxAnnounce
<1>7. CASE DemuxSegment
  BY <1>7 DEF DemuxSegment
<1>8. CASE DemuxAnnounced
  BY <1>8 DEF DemuxAnnounced
<1>9. ASSUME NEW p \in Pin, DemuxRead(p) PROVE (QueueLimited /\ RoomToAdd)'
  BY <1>9 DEF DemuxRead
<1>10. CASE DemuxLoopEnds
  BY <1>10 DEF DemuxLoopEnds
<1>11. CASE DemuxQueue
  BY <1>11 DEF DemuxQueue, Full
<1>12. CASE DemuxAdd
  BY <1>12 DEF DemuxAdd
<1>13. CASE DemuxQueued
  BY <1>13 DEF DemuxQueued, AfterQueue
<1>14. CASE DemuxRefused
  BY <1>14 DEF DemuxRefused, AfterQueue
<1>15. CASE DemuxEnd
  BY <1>15 DEF DemuxEnd
<1>16. CASE DemuxRequest
  BY <1>16 DEF DemuxRequest, NewRun, Nothing
<1>17. ASSUME NEW p \in Pin, PinTake(p) PROVE (QueueLimited /\ RoomToAdd)'
  BY <1>17 DEF PinTake, PinGoTo
<1>18. CASE Seek \/ Stop \/ ResetPin \/ FlushPin \/ RefusePackets \/ FlushDownstream \/
      CallDemux \/ Called \/ SkipPin \/ EndFlushDownstream \/ AcceptPackets \/ EndFlushPin \/
      EndFlush \/ ExitPin \/ Exited
  BY SMTT(20), <1>18 DEF Seek, BeginFlush, ThreadExists, Stop, ResetPin, FlushPin,
      RefusePackets, FlushDownstream, Turn, CallDemux, Called, SkipPin, EndFlushDownstream,
      AcceptPackets, EndFlushPin, FlushOver, Delivering, EndFlush, ExitPin, PinThreadExists,
      Exited
<1>19. ASSUME NEW p \in Pin, PinStart(p) \/ PinRestart(p) \/ PinExit(p) \/ PinFindsNone(p) \/
      PinTest(p) \/ PinPlace(p) \/ PinWait(p) \/ PinCheck(p) \/ PinReport(p) \/ PinGrows(p) \/
      PinDelivers(p) \/ PinFails(p) PROVE (QueueLimited /\ RoomToAdd)'
  BY SMTT(20), <1>19 DEF PinStart, PinGoTo, PinRestart, PinExit, PinFindsNone, PinTest, Onward,
      Forget, Remember, Accepting, PinPlace, PinWait, PinCheck, PinReport, PinGrows,
      PinDelivers, PinFails
<1>20. CASE UNCHANGED vars
  BY <1>20
<1> QED
  BY <1>1, <1>2, <1>3, <1>4, <1>5, <1>6, <1>7, <1>8, <1>9, <1>10, <1>11, <1>12, <1>13,
      <1>14, <1>15, <1>16, <1>17, <1>18, <1>19, <1>20
  DEF Next, AppStep, DemuxStep, PinStep, PinDelivery

\* A request is there only while the application waits for the reply.
LEMMA NextRequested == Requested /\ AppType /\ [Next]_vars => Requested'
<1> SUFFICES ASSUME Requested, AppType, [Next]_vars PROVE Requested'
  OBVIOUS
<1> USE DEF Requested
<1>1. CASE Seek
  BY <1>1 DEF Seek, BeginFlush, ThreadExists
<1>2. CASE Stop
  BY <1>2 DEF Stop, BeginFlush
<1>3. CASE ResetPin
  BY <1>3 DEF ResetPin
<1>4. CASE FlushPin
  BY <1>4 DEF FlushPin
<1>5. CASE RefusePackets
  BY <1>5 DEF RefusePackets
<1>6. CASE ClearQueue
  BY <1>6 DEF ClearQueue, Cleared
<1>7. CASE FlushDownstream
  BY <1>7 DEF FlushDownstream, Turn
<1>8. CASE CallDemux
  BY <1>8 DEF CallDemux, ThreadExists
<1>9. CASE Called
  BY <1>9 DEF Called
<1>10. CASE SkipPin
  BY <1>10 DEF SkipPin, Turn
<1>11. CASE EndFlushDownstream
  BY <1>11 DEF EndFlushDownstream
<1>12. CASE AcceptPackets
  BY <1>12 DEF AcceptPackets
<1>13. CASE EndFlushPin
  BY <1>13 DEF EndFlushPin, FlushOver, Turn, Delivering
<1>14. CASE EndFlush
  BY <1>14 DEF EndFlush
<1>15. CASE ExitPin
  BY <1>15 DEF ExitPin, PinThreadExists
<1>16. CASE Exited
  BY <1>16 DEF Exited, Turn
<1>17. CASE DemuxRequest
  BY <1>17 DEF DemuxRequest, NewRun, Nothing
<1>18. CASE Pause
  BY SMTT(20), <1>18 DEF Pause, ThreadExists
<1>19. CASE DemuxStart \/ DemuxBegin \/ DemuxWait \/ DemuxAnnounce \/ DemuxSegment \/
      DemuxAnnounced \/ (\E p \in Pin : DemuxRead(p)) \/ DemuxLoopEnds \/ DemuxQueue \/
      DemuxAdd \/ DemuxQueued \/ DemuxRefused \/ DemuxEnd
  BY SMTT(20), <1>19 DEF DemuxStart, DemuxBegin, NewRun, Nothing, DemuxWait, DemuxAnnounce,
      DemuxSegment, DemuxAnnounced, DemuxRead, DemuxLoopEnds, DemuxQueue, Full, DemuxAdd,
      DemuxQueued, AfterQueue, DemuxRefused, DemuxEnd
<1>20. ASSUME NEW p \in Pin, PinStep(p) \/ PinDelivery(p) PROVE Requested'
  BY <1>20, PinFrame
<1>21. CASE UNCHANGED vars
  BY <1>21
<1> QED
  BY <1>1, <1>2, <1>3, <1>4, <1>5, <1>6, <1>7, <1>8, <1>9, <1>10, <1>11, <1>12, <1>13,
      <1>14, <1>15, <1>16, <1>17, <1>18, <1>19, <1>20, <1>21
  DEF Next, AppStep, DemuxStep, PinStep, PinDelivery

\* The packet under way is of the present run.
LEMMA NextQueueing == Queueing /\ DemuxType /\ AppType /\ [Next]_vars => Queueing'
<1> SUFFICES ASSUME Queueing, DemuxType, AppType, [Next]_vars PROVE Queueing'
  OBVIOUS
<1> USE OutputsAssumption, NoPacketType DEF Queueing
<1>1. CASE Pause
  BY <1>1 DEF Pause, ThreadExists
<1>2. CASE DemuxStart
  BY <1>2 DEF DemuxStart
<1>3. CASE DemuxBegin
  BY <1>3 DEF DemuxBegin, NewRun, Nothing
<1>4. CASE DemuxWait
  BY <1>4 DEF DemuxWait
<1>5. CASE DemuxAnnounce
  BY <1>5 DEF DemuxAnnounce, DemuxType, Pin
<1>6. CASE DemuxSegment
  BY <1>6 DEF DemuxSegment
<1>7. CASE DemuxAnnounced
  BY <1>7 DEF DemuxAnnounced
<1>8. ASSUME NEW p \in Pin, DemuxRead(p) PROVE Queueing'
  BY <1>8 DEF DemuxRead
<1>9. CASE DemuxLoopEnds
  BY <1>9 DEF DemuxLoopEnds
<1>10. CASE DemuxQueue
  BY <1>10 DEF DemuxQueue, Full
<1>11. CASE DemuxAdd
  BY <1>11 DEF DemuxAdd
<1>12. CASE DemuxQueued
  BY <1>12 DEF DemuxQueued, AfterQueue
<1>13. CASE DemuxRefused
  BY <1>13 DEF DemuxRefused, AfterQueue
<1>14. CASE DemuxEnd
  BY <1>14 DEF DemuxEnd, AppType
<1>15. CASE DemuxRequest
  BY <1>15 DEF DemuxRequest, NewRun, Nothing
<1>16. CASE Seek \/ Stop \/ AppStep
  BY <1>16, AppFrame
<1>17. ASSUME NEW p \in Pin, PinStep(p) \/ PinDelivery(p) PROVE Queueing'
  BY <1>17, PinFrame
<1>18. CASE UNCHANGED vars
  BY <1>18
<1> QED
  BY <1>1, <1>2, <1>3, <1>4, <1>5, <1>6, <1>7, <1>8, <1>9, <1>10, <1>11, <1>12, <1>13,
      <1>14, <1>15, <1>16, <1>17, <1>18
  DEF Next, AppStep, DemuxStep, PinStep, PinDelivery

\* What was made for a pin and what is left are no more than the file.
LEMMA NextLeft == LeftToSend /\ DemuxType /\ [Next]_vars => LeftToSend'
<1> SUFFICES ASSUME LeftToSend, DemuxType, [Next]_vars PROVE LeftToSend'
  OBVIOUS
<1> USE BoundAssumption DEF LeftToSend, DemuxType
<1>1. CASE DemuxBegin
  BY <1>1 DEF DemuxBegin, NewRun, Nothing
<1>2. ASSUME NEW p \in Pin, DemuxRead(p) PROVE LeftToSend'
  BY <1>2 DEF DemuxRead
<1>3. CASE DemuxRequest
  BY <1>3 DEF DemuxRequest, NewRun, Nothing
<1>4. CASE Seek \/ Stop \/ AppStep
  BY <1>4, AppFrame
<1>5. CASE Pause
  BY <1>5 DEF Pause
<1>6. CASE DemuxStart \/ DemuxWait \/ DemuxAnnounce \/ DemuxSegment \/ DemuxAnnounced \/
      DemuxLoopEnds \/ DemuxQueue \/ DemuxAdd \/ DemuxQueued \/ DemuxRefused \/ DemuxEnd
  BY SMTT(20), <1>6 DEF DemuxStart, DemuxWait, DemuxAnnounce, DemuxSegment, DemuxAnnounced,
      DemuxLoopEnds, DemuxQueue, Full, DemuxAdd, DemuxQueued, AfterQueue, DemuxRefused,
      DemuxEnd
<1>7. ASSUME NEW p \in Pin, PinStep(p) \/ PinDelivery(p) PROVE LeftToSend'
  BY <1>7, PinFrame
<1>8. CASE UNCHANGED vars
  BY <1>8
<1> QED
  BY <1>1, <1>2, <1>3, <1>4, <1>5, <1>6, <1>7, <1>8
  DEF Next, AppStep, DemuxStep, PinStep, PinDelivery

\* Past the test a pin's thread has a failure in hand.
LEMMA NextFailed == Failed /\ PinType /\ [Next]_vars => Failed'
<1> SUFFICES ASSUME Failed, PinType, [Next]_vars PROVE Failed'
  OBVIOUS
<1> USE DEF Failed, PinType
<1>1. CASE Pause
  BY <1>1 DEF Pause, ThreadExists
<1>2. ASSUME NEW p \in Pin, PinStart(p) PROVE Failed'
  BY <1>2 DEF PinStart, PinGoTo
<1>3. ASSUME NEW p \in Pin, PinRestart(p) PROVE Failed'
  BY <1>3 DEF PinRestart, PinGoTo
<1>4. ASSUME NEW p \in Pin, PinExit(p) PROVE Failed'
  BY <1>4 DEF PinExit, PinGoTo
<1>5. ASSUME NEW p \in Pin, PinTake(p) PROVE Failed'
  BY <1>5 DEF PinTake, PinGoTo
<1>6. ASSUME NEW p \in Pin, PinFindsNone(p) PROVE Failed'
  BY <1>6 DEF PinFindsNone, PinGoTo
<1>7. ASSUME NEW p \in Pin, PinTest(p) PROVE Failed'
  BY <1>7 DEF PinTest, PinGoTo, Onward, Forget, Remember, Accepting
<1>8. ASSUME NEW p \in Pin, PinPlace(p) PROVE Failed'
  BY <1>8 DEF PinPlace, PinGoTo
<1>9. ASSUME NEW p \in Pin, PinWait(p) PROVE Failed'
  BY <1>9 DEF PinWait, PinGoTo, Onward, Forget, Remember
<1>10. ASSUME NEW p \in Pin, PinCheck(p) PROVE Failed'
  BY <1>10 DEF PinCheck, PinGoTo, Onward, Forget, Remember
<1>11. ASSUME NEW p \in Pin, PinReport(p) PROVE Failed'
  BY <1>11 DEF PinReport, PinGoTo, Forget
<1>12. ASSUME NEW p \in Pin, PinDelivers(p) PROVE Failed'
  BY <1>12 DEF PinDelivers, PinGoTo
<1>13. ASSUME NEW p \in Pin, PinFails(p) PROVE Failed'
  BY <1>13 DEF PinFails, PinGoTo
<1>14. CASE Seek \/ Stop \/ AppStep
  BY <1>14, AppFrame
<1>15. CASE DemuxStep
  BY <1>15, DemuxFrame
<1>16. ASSUME NEW p \in Pin, PinGrows(p) PROVE Failed'
  BY SMTT(20), <1>16 DEF PinGrows
<1>17. CASE UNCHANGED vars
  BY <1>17
<1> QED
  BY <1>1, <1>2, <1>3, <1>4, <1>5, <1>6, <1>7, <1>8, <1>9, <1>10, <1>11, <1>12, <1>13,
      <1>14, <1>15, <1>16, <1>17
  DEF Next, AppStep, DemuxStep, PinStep, PinDelivery

\* The runs begun and those sure to begin are no more than the starts and seeks.
LEMMA NextRuns == RunsCounted /\ Requested /\ AppType /\ DemuxType /\ [Next]_vars => RunsCounted'
<1> SUFFICES ASSUME RunsCounted, Requested, AppType, DemuxType, [Next]_vars PROVE RunsCounted'
  OBVIOUS
<1> USE BoundAssumption DEF RunsCounted, Starting, Seeking, Unanswered
<1>1. CASE Pause
  BY <1>1 DEF Pause, ThreadExists, AppType, DemuxType, Run
<1>2. CASE Seek
  BY <1>2 DEF Seek, BeginFlush, AppType, DemuxType, Run
<1>3. CASE Stop
  BY <1>3 DEF Stop, BeginFlush
<1>4. CASE ResetPin
  BY <1>4 DEF ResetPin
<1>5. CASE FlushPin
  BY <1>5 DEF FlushPin
<1>6. CASE RefusePackets
  BY <1>6 DEF RefusePackets
<1>7. CASE ClearQueue
  BY <1>7 DEF ClearQueue, Cleared
<1>8. CASE FlushDownstream
  BY <1>8 DEF FlushDownstream, Turn
<1>9. CASE CallDemux
  BY <1>9 DEF CallDemux, AppType, DemuxType, Run
<1>10. CASE Called
  BY <1>10 DEF Called
<1>11. CASE SkipPin
  BY <1>11 DEF SkipPin, Turn
<1>12. CASE EndFlushDownstream
  BY <1>12 DEF EndFlushDownstream
<1>13. CASE AcceptPackets
  BY <1>13 DEF AcceptPackets
<1>14. CASE EndFlushPin
  BY <1>14 DEF EndFlushPin, FlushOver, Turn, Delivering
<1>15. CASE EndFlush
  BY <1>15 DEF EndFlush
<1>16. CASE ExitPin
  BY <1>16 DEF ExitPin, PinThreadExists
<1>17. CASE Exited
  BY <1>17 DEF Exited, Turn
<1>18. CASE DemuxStart
  BY <1>18 DEF DemuxStart
<1>19. CASE DemuxBegin
  BY <1>19 DEF DemuxBegin, NewRun, Nothing
<1>20. CASE DemuxWait
  BY <1>20 DEF DemuxWait
<1>21. CASE DemuxAnnounce
  BY <1>21 DEF DemuxAnnounce
<1>22. CASE DemuxSegment
  BY <1>22 DEF DemuxSegment
<1>23. CASE DemuxAnnounced
  BY <1>23 DEF DemuxAnnounced
<1>24. ASSUME NEW p \in Pin, DemuxRead(p) PROVE RunsCounted'
  BY <1>24 DEF DemuxRead
<1>25. CASE DemuxLoopEnds
  BY <1>25 DEF DemuxLoopEnds
<1>26. CASE DemuxQueue
  BY <1>26 DEF DemuxQueue, Full
<1>27. CASE DemuxAdd
  BY <1>27 DEF DemuxAdd
<1>28. CASE DemuxQueued
  BY <1>28 DEF DemuxQueued, AfterQueue
<1>29. CASE DemuxRefused
  BY <1>29 DEF DemuxRefused, AfterQueue
<1>30. CASE DemuxEnd
  BY <1>30 DEF DemuxEnd
<1>31. CASE DemuxRequest
  BY <1>31 DEF DemuxRequest, NewRun, Requested, AppType, DemuxType, Run
<1>32. ASSUME NEW p \in Pin, PinStep(p) \/ PinDelivery(p) PROVE RunsCounted'
  BY <1>32, PinFrame
<1>33. CASE UNCHANGED vars
  BY <1>33
<1> QED
  BY <1>1, <1>2, <1>3, <1>4, <1>5, <1>6, <1>7, <1>8, <1>9, <1>10, <1>11, <1>12, <1>13,
      <1>14, <1>15, <1>16, <1>17, <1>18, <1>19, <1>20, <1>21, <1>22, <1>23, <1>24, <1>25,
      <1>26, <1>27, <1>28, <1>29, <1>30, <1>31, <1>32, <1>33
  DEF Next, AppStep, DemuxStep, PinStep, PinDelivery

\* While the application flushes, nothing new gets into a queue it has cleared.
LEMMA NextFlush ==
    FlushInv /\ AppType /\ PinType /\ DownstreamType /\ Queueing /\ Failed /\ [Next]_vars
        => FlushInv'
<1> SUFFICES ASSUME FlushInv, AppType, PinType, DownstreamType, Queueing, Failed, [Next]_vars,
                    NEW q \in Pin, Refusing(q)
             PROVE  Refusing(q)'
  BY DEF FlushInv
<1> USE OutputsAssumption DEF Refusing, Emptied, Coming, Pin
<1>1. CASE Pause
  BY <1>1 DEF Pause, ThreadExists
<1>2. CASE Seek
  <2>1. ~Emptied(q)' /\ apc' = "reset"
    BY <1>2 DEF Seek, BeginFlush
  <2> QED
    BY <2>1
<1>3. CASE Stop
  <2>1. ~Emptied(q)' /\ apc' = "reset"
    BY <1>3 DEF Stop, BeginFlush
  <2> QED
    BY <2>1
<1>4. CASE ResetPin
  BY <1>4 DEF ResetPin
<1>5. CASE FlushPin
  BY <1>5 DEF FlushPin, PinType, Flag, AppType
<1>6. CASE RefusePackets
  BY <1>6 DEF RefusePackets, PinType, Result
<1>7. CASE ClearQueue
  <2>1. CASE turn = q
    <3>1. queue'[q] = << >>
      BY <1>7, <2>1 DEF ClearQueue, Cleared, PinType
    <3>2. Len(queue'[q]) + Coming(q)' <= 1
      BY <3>1
    <3> QED
      BY <1>7, <2>1, <3>2 DEF ClearQueue
  <2>2. CASE turn # q
    <3>1. queue'[q] = queue[q]
      BY <1>7, <2>2 DEF ClearQueue, Cleared, PinType
    <3>2. Emptied(q)' => Emptied(q)
      BY <1>7, <2>2 DEF ClearQueue, AppType
    <3> QED
      BY <1>7, <3>1, <3>2 DEF ClearQueue
  <2> QED
    BY <2>1, <2>2
<1>8. CASE FlushDownstream
  <2>1. Emptied(q)' => Emptied(q)
    BY <1>8 DEF FlushDownstream, Turn, AppType
  <2>2. UNCHANGED <<cmd, queue, dpc, dpin, hr, flushing, raced>> /\ apc' \in {"reset", "call"}
    BY <1>8 DEF FlushDownstream, Turn
  <2> QED
    BY <2>1, <2>2
<1>9. CASE CallDemux
  BY <1>9 DEF CallDemux, ThreadExists
<1>10. CASE Called
  BY <1>10 DEF Called
<1>11. CASE SkipPin
  BY <1>11 DEF SkipPin, Turn
<1>12. CASE EndFlushDownstream
  BY <1>12 DEF EndFlushDownstream
<1>13. CASE AcceptPackets
  BY <1>13 DEF AcceptPackets
<1>14. CASE EndFlushPin
  BY <1>14 DEF EndFlushPin, FlushOver, Turn
<1>15. CASE EndFlush
  BY <1>15 DEF EndFlush
<1>16. CASE ExitPin
  BY <1>16 DEF ExitPin, PinThreadExists
<1>17. CASE Exited
  BY <1>17 DEF Exited, Turn
<1>18. CASE DemuxStart
  BY <1>18 DEF DemuxStart
<1>19. CASE DemuxBegin
  BY <1>19 DEF DemuxBegin, NewRun, Nothing
<1>20. CASE DemuxWait
  BY <1>20 DEF DemuxWait
<1>21. CASE DemuxAnnounce
  BY <1>21 DEF DemuxAnnounce
<1>22. CASE DemuxSegment
  BY <1>22 DEF DemuxSegment
<1>23. CASE DemuxAnnounced
  BY <1>23 DEF DemuxAnnounced
<1>24. ASSUME NEW p \in Pin, DemuxRead(p) PROVE Refusing(q)'
  BY <1>24 DEF DemuxRead
<1>25. CASE DemuxLoopEnds
  BY <1>25 DEF DemuxLoopEnds
<1>26. CASE DemuxQueue
  BY <1>26 DEF DemuxQueue, Full
<1>27. CASE DemuxAdd
  <2>1. CASE dpin = q
    <3>1. Len(queue'[q]) = Len(queue[q]) + 1
      BY <1>27, <2>1 DEF DemuxAdd, PinType, DemuxType
    <3> QED
      BY <1>27, <2>1, <3>1 DEF DemuxAdd, PinType
  <2>2. CASE dpin # q
    <3>1. queue'[q] = queue[q]
      BY <1>27, <2>2 DEF DemuxAdd, PinType
    <3> QED
      BY <1>27, <2>2, <3>1 DEF DemuxAdd
  <2> QED
    BY <2>1, <2>2
<1>28. CASE DemuxQueued
  BY <1>28 DEF DemuxQueued, AfterQueue
<1>29. CASE DemuxRefused
  BY <1>29 DEF DemuxRefused, AfterQueue
<1>30. CASE DemuxEnd
  BY <1>30 DEF DemuxEnd
<1>31. CASE DemuxRequest
  BY <1>31 DEF DemuxRequest, NewRun, Nothing
<1>32. ASSUME NEW p \in Pin, PinStart(p) PROVE Refusing(q)'
  BY <1>32 DEF PinStart, PinType, PinGoTo, DownstreamType, Flag
<1>33. ASSUME NEW p \in Pin, PinTake(p) PROVE Refusing(q)'
  <2>1. Len(queue'[q]) <= Len(queue[q])
    <3>1. queue[p] \in Seq(Packet) /\ queue[p] # << >>
      BY <1>33 DEF PinTake, PinType
    <3>2. Len(Tail(queue[p])) = Len(queue[p]) - 1
      BY <3>1
    <3>3. queue'[q] = IF p = q THEN Tail(queue[p]) ELSE queue[q]
      BY <1>33 DEF PinTake, PinType
    <3> QED
      BY <3>2, <3>3 DEF PinType
  <2>2. UNCHANGED <<apc, turn, cmd, flushing, hr, dpc, dpin, raced>>
    BY <1>33 DEF PinTake
  <2>3. Len(queue'[q]) \in Nat /\ Len(queue[q]) \in Nat
    BY <1>33 DEF PinTake, PinType
  <2>4. Len(queue'[q]) + Coming(q)' <= Len(queue[q]) + Coming(q)
    BY <2>1, <2>2, <2>3
  <2>5. (Emptied(q)' => Emptied(q)) /\ Coming(q)' \in Nat
    BY <2>2
  <2> HIDE DEF Emptied, Coming
  <2>6. Emptied(q) /\ Len(queue[q]) + Coming(q) <= 1 => Len(queue'[q]) + Coming(q)' <= 1
    <3>1. Coming(q) \in Nat
      BY DEF Coming
    <3> QED
      BY <2>3, <2>4, <2>5, <3>1
  <2> QED
    BY <2>2, <2>5, <2>6
<1>34. ASSUME NEW p \in Pin, PinReport(p) PROVE Refusing(q)'
  BY <1>34 DEF PinReport, PinType, PinGoTo, Failed
<1>35. ASSUME NEW p \in Pin, PinRestart(p) \/ PinExit(p) \/ PinFindsNone(p) \/ PinTest(p) \/
      PinPlace(p) \/ PinWait(p) \/ PinCheck(p) \/ PinGrows(p) \/ PinDelivers(p) \/ PinFails(p)
      PROVE Refusing(q)'
  <2>1. UNCHANGED <<apc, cmd, dpc, dpin, flushing, hr, queue, raced, turn>>
    BY <1>35 DEF PinRestart, PinGoTo, PinExit, PinFindsNone, PinTest, Onward, Forget, Remember,
      Accepting, PinPlace, PinWait, PinCheck, PinGrows, PinDelivers, PinFails
  <2> QED
    BY <2>1
<1>36. CASE UNCHANGED vars
  BY <1>36
<1> QED
  BY <1>1, <1>2, <1>3, <1>4, <1>5, <1>6, <1>7, <1>8, <1>9, <1>10, <1>11, <1>12, <1>13,
      <1>14, <1>15, <1>16, <1>17, <1>18, <1>19, <1>20, <1>21, <1>22, <1>23, <1>24, <1>25,
      <1>26, <1>27, <1>28, <1>29, <1>30, <1>31, <1>32, <1>33, <1>34, <1>35, <1>36
  DEF Next, AppStep, DemuxStep, PinStep, PinDelivery

\* The demultiplexer leaves at most one packet in each queue when it ends a run.
LEMMA NextRest ==
    RestInv /\ FlushInv /\ PinType /\ DownstreamType /\ Requested /\ [Next]_vars
        => RestInv'
<1> SUFFICES ASSUME RestInv, FlushInv, PinType, DownstreamType, Requested, [Next]_vars,
                    NEW q \in Pin, Resting(q)
             PROVE  Resting(q)'
  BY DEF RestInv
<1> USE DEF Resting
<1>1. CASE Pause
  BY <1>1 DEF Pause, ThreadExists
<1>2. CASE ClearQueue
  BY <1>2 DEF ClearQueue, Cleared
<1>3. CASE DemuxStart
  BY <1>3 DEF DemuxStart
<1>4. CASE DemuxBegin
  BY <1>4 DEF DemuxBegin, NewRun, Nothing
<1>5. CASE DemuxWait
  BY <1>5 DEF DemuxWait
<1>6. CASE DemuxAnnounce
  BY <1>6 DEF DemuxAnnounce
<1>7. CASE DemuxSegment
  BY <1>7 DEF DemuxSegment
<1>8. CASE DemuxAnnounced
  BY <1>8 DEF DemuxAnnounced
<1>9. ASSUME NEW p \in Pin, DemuxRead(p) PROVE Resting(q)'
  BY <1>9 DEF DemuxRead
<1>10. CASE DemuxLoopEnds
  BY <1>10 DEF DemuxLoopEnds
<1>11. CASE DemuxQueue
  BY <1>11 DEF DemuxQueue, Full
<1>12. CASE DemuxAdd
  BY <1>12 DEF DemuxAdd
<1>13. CASE DemuxQueued
  BY <1>13 DEF DemuxQueued, AfterQueue
<1>14. CASE DemuxRefused
  BY <1>14 DEF DemuxRefused, AfterQueue
<1>15. CASE DemuxEnd
  BY <1>15 DEF DemuxEnd
<1>16. CASE DemuxRequest
  BY <1>16 DEF DemuxRequest, NewRun, FlushInv, Refusing, Emptied, Coming, Requested
<1>17. ASSUME NEW p \in Pin, PinStart(p) PROVE Resting(q)'
  BY <1>17 DEF PinStart, PinGoTo, DownstreamType, Flag
<1>18. ASSUME NEW p \in Pin, PinTake(p) PROVE Resting(q)'
  BY <1>18 DEF PinTake, PinGoTo
<1>19. CASE Seek \/ Stop \/ ResetPin \/ FlushPin \/ RefusePackets \/ FlushDownstream \/
      CallDemux \/ Called \/ SkipPin \/ EndFlushDownstream \/ AcceptPackets \/ EndFlushPin \/
      EndFlush \/ ExitPin \/ Exited
  BY SMTT(20), <1>19 DEF Seek, BeginFlush, ThreadExists, Stop, ResetPin, FlushPin,
      RefusePackets, FlushDownstream, Turn, CallDemux, Called, SkipPin, EndFlushDownstream,
      AcceptPackets, EndFlushPin, FlushOver, Delivering, EndFlush, ExitPin, PinThreadExists,
      Exited
<1>20. ASSUME NEW p \in Pin, PinRestart(p) \/ PinExit(p) \/ PinFindsNone(p) \/ PinTest(p) \/
      PinPlace(p) \/ PinWait(p) \/ PinCheck(p) \/ PinReport(p) \/ PinGrows(p) \/ PinDelivers(p)
      \/ PinFails(p) PROVE Resting(q)'
  <2>1. UNCHANGED <<dpc, queue, raced>>
    BY <1>20 DEF PinRestart, PinGoTo, PinExit, PinFindsNone, PinTest, Onward, Forget, Remember,
      Accepting, PinPlace, PinWait, PinCheck, PinReport, PinGrows, PinDelivers, PinFails
  <2> QED
    BY <2>1
<1>21. CASE UNCHANGED vars
  BY <1>21
<1> QED
  BY <1>1, <1>2, <1>3, <1>4, <1>5, <1>6, <1>7, <1>8, <1>9, <1>10, <1>11, <1>12, <1>13,
      <1>14, <1>15, <1>16, <1>17, <1>18, <1>19, <1>20, <1>21
  DEF Next, AppStep, DemuxStep, PinStep, PinDelivery

\* A queue of one packet is a head.
LEMMA ShortHead == \A s \in Seq(Packet) : Len(s) <= 1 => DOMAIN s \subseteq {1}
OBVIOUS

\* Only the head of a queue is of an older run.
LEMMA NextStale ==
    StaleAtMostOne /\ FlushInv /\ RestInv /\ PinType /\ DownstreamType /\ DemuxType
    /\ Requested /\ Queueing /\ [Next]_vars
        => StaleAtMostOne'
<1> SUFFICES ASSUME StaleAtMostOne, FlushInv, RestInv, PinType, DownstreamType, DemuxType,
                    Requested, Queueing, [Next]_vars,
                    NEW q \in Pin, HeadOnly(q)
             PROVE  HeadOnly(q)'
  BY DEF StaleAtMostOne, HeadOnly
<1> USE DEF HeadOnly, Old
<1>1. CASE ClearQueue
  BY <1>1 DEF ClearQueue, Cleared
<1>2. CASE DemuxBegin
  <2>1. UNCHANGED <<queue, raced>>
    BY <1>2 DEF DemuxBegin
  <2>2. raced[q] \/ Len(queue[q]) <= 1
    BY <1>2 DEF DemuxBegin, RestInv, Resting
  <2> QED
    BY <2>1, <2>2, ShortHead DEF PinType
<1>3. CASE DemuxAdd
  <2>1. run' = run /\ raced' = raced /\ dpacket.run = run
    BY <1>3 DEF DemuxAdd, Queueing
  <2>2. queue'[q] = queue[q] \/ queue'[q] = Append(queue[q], dpacket)
    BY <1>3 DEF DemuxAdd, PinType
  <2>3. queue[q] \in Seq(Packet) /\ dpacket \in Packet /\ run \in Int
    BY DEF PinType, DemuxType, Run
  <2>4. \A i \in DOMAIN Append(queue[q], dpacket) :
            \/ i \in DOMAIN queue[q] /\ Append(queue[q], dpacket)[i] = queue[q][i]
            \/ Append(queue[q], dpacket)[i] = dpacket
    BY <2>3
  <2>5. Old(q)' \subseteq Old(q)
    BY <2>1, <2>2, <2>3, <2>4
  <2> QED
    BY <2>1, <2>5
<1>4. CASE DemuxRequest
  <2>1. UNCHANGED <<queue, raced>>
    BY <1>4 DEF DemuxRequest
  <2>2. raced[q] \/ Len(queue[q]) <= 1
    BY <1>4 DEF DemuxRequest, Requested, FlushInv, Refusing, Emptied, Coming
  <2> QED
    BY <2>1, <2>2, ShortHead DEF PinType
<1>5. ASSUME NEW p \in Pin, PinStart(p) PROVE HeadOnly(q)'
  BY <1>5 DEF PinStart, PinGoTo, DownstreamType, Flag
<1>6. ASSUME NEW p \in Pin, PinTake(p) PROVE HeadOnly(q)'
  <2>1. run' = run /\ raced' = raced
    BY <1>6 DEF PinTake
  <2>2. CASE p = q
    <3>1. queue[q] \in Seq(Packet) /\ queue[q] # << >> /\ queue'[q] = Tail(queue[q])
      BY <1>6, <2>2 DEF PinTake, PinType
    <3>2. \A i \in DOMAIN Tail(queue[q]) :
              i + 1 \in DOMAIN queue[q] /\ i + 1 # 1 /\ Tail(queue[q])[i] = queue[q][i + 1]
      BY <3>1
    <3>3. raced[q] \/ Old(q)' = {}
      BY <2>1, <3>1, <3>2
    <3> QED
      BY <2>1, <3>3
  <2>3. CASE p # q
    <3>1. queue'[q] = queue[q]
      BY <1>6, <2>3 DEF PinTake, PinType
    <3> QED
      BY <2>1, <3>1
  <2> QED
    BY <2>2, <2>3
<1>7. CASE Pause \/ Seek \/ Stop \/ ResetPin \/ FlushPin \/ RefusePackets \/ FlushDownstream \/
      CallDemux \/ Called \/ SkipPin \/ EndFlushDownstream \/ AcceptPackets \/ EndFlushPin \/
      EndFlush \/ ExitPin \/ Exited
  BY SMTT(20), <1>7 DEF Pause, ThreadExists, Seek, BeginFlush, Stop, ResetPin, FlushPin,
      RefusePackets, FlushDownstream, Turn, CallDemux, Called, SkipPin, EndFlushDownstream,
      AcceptPackets, EndFlushPin, FlushOver, Delivering, EndFlush, ExitPin, PinThreadExists,
      Exited
<1>8. CASE DemuxStart \/ DemuxWait \/ DemuxAnnounce \/ DemuxSegment \/ DemuxAnnounced \/ (\E p
      \in Pin : DemuxRead(p)) \/ DemuxLoopEnds \/ DemuxQueue \/ DemuxQueued \/ DemuxRefused \/
      DemuxEnd
  BY SMTT(20), <1>8 DEF DemuxStart, DemuxWait, DemuxAnnounce, DemuxSegment, DemuxAnnounced,
      DemuxRead, DemuxLoopEnds, DemuxQueue, Full, DemuxQueued, AfterQueue, DemuxRefused,
      DemuxEnd
<1>9. ASSUME NEW p \in Pin, PinRestart(p) \/ PinExit(p) \/ PinFindsNone(p) \/ PinTest(p) \/
      PinPlace(p) \/ PinWait(p) \/ PinCheck(p) \/ PinReport(p) \/ PinGrows(p) \/ PinDelivers(p)
      \/ PinFails(p) PROVE HeadOnly(q)'
  <2>1. UNCHANGED <<queue, raced, run>>
    BY <1>9 DEF PinRestart, PinGoTo, PinExit, PinFindsNone, PinTest, Onward, Forget, Remember,
      Accepting, PinPlace, PinWait, PinCheck, PinReport, PinGrows, PinDelivers, PinFails
  <2> QED
    BY <2>1
<1>10. CASE UNCHANGED vars
  BY <1>10
<1> QED
  BY <1>1, <1>2, <1>3, <1>4, <1>5, <1>6, <1>7, <1>8, <1>9, <1>10
  DEF Next, AppStep, DemuxStep, PinStep, PinDelivery

\* No pin is told of a segment before its run begins.
LEMMA NextSegments ==
    SegmentsBehind /\ DownstreamType /\ DemuxType /\ Queueing /\ [Next]_vars
        => SegmentsBehind'
<1> SUFFICES ASSUME SegmentsBehind, DownstreamType, DemuxType, Queueing, [Next]_vars
             PROVE  SegmentsBehind'
  OBVIOUS
<1> USE DEF SegmentsBehind, DownstreamType, DemuxType, Run
<1>1. CASE DemuxBegin
  BY <1>1 DEF DemuxBegin, NewRun, Nothing
<1>2. CASE DemuxSegment
  BY <1>2 DEF DemuxSegment
<1>3. CASE DemuxRequest
  BY <1>3 DEF DemuxRequest, NewRun, Nothing
<1>4. CASE Seek \/ Stop \/ AppStep
  BY <1>4, AppFrame
<1>5. CASE Pause
  BY <1>5 DEF Pause
<1>6. CASE DemuxStart \/ DemuxWait \/ DemuxAnnounce \/ DemuxAnnounced \/ (\E p \in Pin :
      DemuxRead(p)) \/ DemuxLoopEnds \/ DemuxQueue \/ DemuxAdd \/ DemuxQueued \/ DemuxRefused
      \/ DemuxEnd
  BY SMTT(20), <1>6 DEF DemuxStart, DemuxWait, DemuxAnnounce, DemuxAnnounced, DemuxRead,
      DemuxLoopEnds, DemuxQueue, Full, DemuxAdd, DemuxQueued, AfterQueue, DemuxRefused,
      DemuxEnd
<1>7. ASSUME NEW p \in Pin, PinStart(p) \/ PinRestart(p) \/ PinExit(p) \/ PinTake(p) \/
      PinFindsNone(p) \/ PinTest(p) \/ PinPlace(p) \/ PinWait(p) \/ PinCheck(p) \/ PinReport(p)
      \/ PinGrows(p) \/ PinDelivers(p) \/ PinFails(p) PROVE SegmentsBehind'
  BY SMTT(20), <1>7 DEF PinStart, PinGoTo, PinRestart, PinExit, PinTake, PinFindsNone, PinTest,
      Onward, Forget, Remember, Accepting, PinPlace, PinWait, PinCheck, PinReport, PinGrows,
      PinDelivers, PinFails
<1>8. CASE UNCHANGED vars
  BY <1>8
<1> QED
  BY <1>1, <1>2, <1>3, <1>4, <1>5, <1>6, <1>7, <1>8
  DEF Next, AppStep, DemuxStep, PinStep, PinDelivery

\* At most two old packets are delivered after a segment.
LEMMA NextLate ==
    LateInv /\ StaleAtMostOne /\ SegmentsBehind /\ PinType /\ DownstreamType /\ DemuxType
    /\ Queueing /\ [Next]_vars
        => LateInv'
<1> SUFFICES ASSUME LateInv, StaleAtMostOne, SegmentsBehind, PinType, DownstreamType,
                    DemuxType, Queueing, [Next]_vars,
                    NEW q \in Pin, FewLate(q)
             PROVE  FewLate(q)'
  BY DEF LateInv
<1> USE DEF FewLate, InHand, AtHead
<1>1. CASE Pause
  BY <1>1 DEF Pause, DownstreamType
<1>2. CASE ClearQueue
  BY <1>2 DEF ClearQueue, Cleared, DownstreamType, PinType, Packet, Run
<1>3. CASE DemuxSegment
  <2>1. CASE seg'[q] = seg[q] /\ late'[q] = late[q]
    BY <1>3, <2>1 DEF DemuxSegment
  <2>2. CASE late'[q] = 0
    <3>1. InHand(q)' <= 1 /\ AtHead(q)' <= 1 /\ InHand(q)' \in Nat /\ AtHead(q)' \in Nat
      OBVIOUS
    <3> QED
      BY <2>2, <3>1
  <2> QED
    BY <1>3, <2>1, <2>2 DEF DemuxSegment, DownstreamType
<1>4. CASE DemuxAdd
  <2>1. UNCHANGED <<late, ppc, packet, seg, raced>> /\ dpacket.run = run
    BY <1>4 DEF DemuxAdd, Queueing
  <2>2. CASE queue'[q] = queue[q]
    BY <2>1, <2>2
  <2>3. CASE queue'[q] = Append(queue[q], dpacket)
    <3>1. queue[q] \in Seq(Packet) /\ dpacket \in Packet
      BY DEF PinType, DemuxType
    <3>2. queue'[q][1] = IF queue[q] = << >> THEN dpacket ELSE queue[q][1]
      BY <2>3, <3>1
    <3>3. queue[q] = << >> => AtHead(q)' = 0
      BY <2>1, <3>2 DEF SegmentsBehind, DownstreamType, DemuxType, Run
    <3>4. queue[q] # << >> => AtHead(q)' <= AtHead(q)
      BY <2>1, <3>2
    <3>5. InHand(q)' = InHand(q) /\ AtHead(q) \in Nat /\ InHand(q) \in Nat /\ AtHead(q)' \in Nat
      BY <2>1
    <3>6. AtHead(q)' <= AtHead(q)
      BY <3>3, <3>4, <3>5
    <3> QED
      BY <2>1, <3>5, <3>6 DEF DownstreamType
  <2> QED
    BY <1>4, <2>2, <2>3 DEF DemuxAdd, PinType
<1>5. ASSUME NEW p \in Pin, PinStart(p) PROVE FewLate(q)'
  BY <1>5 DEF PinStart, PinGoTo, DownstreamType, PinType, Flag
<1>6. ASSUME NEW p \in Pin, PinRestart(p) PROVE FewLate(q)'
  BY <1>6 DEF PinRestart, PinGoTo
<1>7. ASSUME NEW p \in Pin, PinExit(p) PROVE FewLate(q)'
  BY <1>7 DEF PinExit, PinGoTo
<1>8. ASSUME NEW p \in Pin, PinTake(p) PROVE FewLate(q)'
  <2>1. UNCHANGED <<late, seg, raced, run>>
    BY <1>8 DEF PinTake
  <2>2. CASE p = q
    <3>1. queue[q] \in Seq(Packet) /\ queue[q] # << >> /\ queue'[q] = Tail(queue[q])
      BY <1>8, <2>2 DEF PinTake, PinType
    <3>2. InHand(q) = 0
      BY <1>8, <2>2 DEF PinTake
    <3>3. packet'[q] = queue[q][1]
      BY <1>8, <2>2, <3>1 DEF PinTake, PinType
    <3>4. InHand(q)' <= AtHead(q)
      BY <2>1, <3>1, <3>3
    <3>5. raced[q] \/ AtHead(q)' = 0
      <4>1. CASE Len(queue[q]) > 1
        <5>1. 2 \in DOMAIN queue[q] /\ Tail(queue[q])[1] = queue[q][2] /\ queue[q][2] \in Packet
          BY <3>1, <4>1
        <5>2. raced[q] \/ ~(queue[q][2].run < run)
          BY <5>1 DEF StaleAtMostOne, Old
        <5>3. seg[q] <= run /\ seg[q] \in Int /\ run \in Int /\ queue[q][2].run \in Int
          BY <5>1 DEF SegmentsBehind, DownstreamType, DemuxType, Run, Packet
        <5> QED
          BY <2>1, <3>1, <5>1, <5>2, <5>3
      <4>2. CASE ~(Len(queue[q]) > 1)
        <5>1. Tail(queue[q]) = << >>
          BY <3>1, <4>2
        <5> QED
          BY <3>1, <5>1
      <4> QED
        BY <4>1, <4>2
    <3>6. InHand(q)' \in Nat /\ AtHead(q) \in Nat /\ late[q] \in Nat
      BY DEF DownstreamType
    <3> QED
      BY <2>1, <3>2, <3>4, <3>5, <3>6
  <2>3. CASE p # q
    <3>1. queue'[q] = queue[q] /\ packet'[q] = packet[q] /\ ppc'[q] = ppc[q]
      BY <1>8, <2>3 DEF PinTake, PinType, PinGoTo
    <3> QED
      BY <2>1, <3>1
  <2> QED
    BY <2>2, <2>3
<1>9. ASSUME NEW p \in Pin, PinFindsNone(p) PROVE FewLate(q)'
  BY <1>9 DEF PinFindsNone, PinGoTo
<1>10. ASSUME NEW p \in Pin, PinTest(p) PROVE FewLate(q)'
  <2>1. UNCHANGED <<late, seg, raced, queue>>
    BY <1>10 DEF PinTest
  <2>2. InHand(q)' <= InHand(q)
    BY <1>10, <2>1 DEF PinTest, Onward, Forget, Remember, PinGoTo, PinType
  <2>3. AtHead(q)' = AtHead(q)
    BY <2>1
  <2>4. InHand(q)' \in Nat /\ InHand(q) \in Nat /\ AtHead(q) \in Nat /\ late[q] \in Nat
    BY DEF DownstreamType
  <2> QED
    BY <2>1, <2>2, <2>3, <2>4
<1>11. ASSUME NEW p \in Pin, PinPlace(p) PROVE FewLate(q)'
  BY <1>11 DEF PinPlace, PinGoTo
<1>12. ASSUME NEW p \in Pin, PinWait(p) PROVE FewLate(q)'
  BY <1>12 DEF PinWait, Onward, Forget, Remember, PinGoTo, DownstreamType, PinType, Packet, Run
<1>13. ASSUME NEW p \in Pin, PinCheck(p) PROVE FewLate(q)'
  BY <1>13 DEF PinCheck, Onward, Forget, Remember, PinGoTo, DownstreamType, PinType, Packet, Run
<1>14. ASSUME NEW p \in Pin, PinReport(p) PROVE FewLate(q)'
  BY <1>14 DEF PinReport, PinGoTo, Forget
<1>15. ASSUME NEW p \in Pin, PinDelivers(p) PROVE FewLate(q)'
  BY <1>15 DEF PinDelivers, PinGoTo, DownstreamType, PinType, Packet, Run
<1>16. ASSUME NEW p \in Pin, PinFails(p) PROVE FewLate(q)'
  BY <1>16 DEF PinFails, PinGoTo, DownstreamType, PinType, Packet, Run
<1>17. CASE Seek \/ Stop \/ ResetPin \/ FlushPin \/ RefusePackets \/ FlushDownstream \/
      CallDemux \/ Called \/ SkipPin \/ EndFlushDownstream \/ AcceptPackets \/ EndFlushPin \/
      EndFlush \/ ExitPin \/ Exited
  BY SMTT(20), <1>17 DEF Seek, BeginFlush, ThreadExists, Stop, ResetPin, FlushPin,
      RefusePackets, FlushDownstream, Turn, CallDemux, Called, SkipPin, EndFlushDownstream,
      AcceptPackets, EndFlushPin, FlushOver, Delivering, EndFlush, ExitPin, PinThreadExists,
      Exited
<1>18. CASE DemuxStart \/ DemuxBegin \/ DemuxWait \/ DemuxAnnounce \/ DemuxAnnounced \/ (\E p
      \in Pin : DemuxRead(p)) \/ DemuxLoopEnds \/ DemuxQueue \/ DemuxQueued \/ DemuxRefused \/
      DemuxEnd \/ DemuxRequest
  BY SMTT(20), <1>18 DEF DemuxStart, DemuxBegin, NewRun, Nothing, DemuxWait, DemuxAnnounce,
      DemuxAnnounced, DemuxRead, DemuxLoopEnds, DemuxQueue, Full, DemuxQueued, AfterQueue,
      DemuxRefused, DemuxEnd, DemuxRequest
<1>19. ASSUME NEW p \in Pin, PinGrows(p) PROVE FewLate(q)'
  <2>1. UNCHANGED <<late, packet, ppc, queue, raced, seg>>
    BY <1>19 DEF PinGrows
  <2> QED
    BY <2>1
<1>20. CASE UNCHANGED vars
  BY <1>20
<1> QED
  BY <1>1, <1>2, <1>3, <1>4, <1>5, <1>6, <1>7, <1>8, <1>9, <1>10, <1>11, <1>12, <1>13,
      <1>14, <1>15, <1>16, <1>17, <1>18, <1>19, <1>20
  DEF Next, AppStep, DemuxStep, PinStep, PinDelivery

----------------------------------------------------------------------------
\* Every variable always has its type, whatever the pins, the queues' limits and the file.
THEOREM TypeCorrect == Spec => []TypeOK
<1>1. Init => TypeOK /\ Place
  BY InitType
<1>2. TypeOK /\ Place /\ [Next]_vars => TypeOK' /\ Place'
  BY NextAppType, NextDemuxType, NextPinType, NextDownstreamType, NextRoom, NextRequested,
      NextQueueing, NextLeft, NextFailed, NextRuns DEF TypeOK, Place
<1> QED
  BY <1>1, <1>2, PTL DEF Spec

\* The inductive invariant holds at first ...
LEMMA InitInv == Init => IInv
<1> SUFFICES ASSUME Init PROVE IInv
  OBVIOUS
<1>1. TypeOK /\ Place
  BY InitType
<1>2. FlushInv
  BY DEF Init, FlushInv, Refusing, Emptied
<1>3. RestInv
  BY DEF Init, RestInv, Resting
<1>4. StaleAtMostOne
  BY DEF Init, StaleAtMostOne, Old
<1>5. SegmentsBehind
  BY DEF Init, SegmentsBehind
<1>6. LateInv
  BY DEF Init, LateInv, FewLate, InHand, AtHead
<1> QED
  BY <1>1, <1>2, <1>3, <1>4, <1>5, <1>6 DEF IInv, StaleInv

\* ... and every step keeps it.
LEMMA NextInv == IInv /\ [Next]_vars => IInv'
<1> SUFFICES ASSUME IInv, [Next]_vars PROVE IInv'
  OBVIOUS
<1>1. TypeOK /\ Place /\ FlushInv /\ RestInv /\ StaleAtMostOne /\ SegmentsBehind /\ LateInv
  BY DEF IInv, StaleInv
<1>2. TypeOK' /\ Place'
  BY <1>1, NextAppType, NextDemuxType, NextPinType, NextDownstreamType, NextRoom, NextRequested,
      NextQueueing, NextLeft, NextFailed, NextRuns DEF TypeOK, Place
<1>3. FlushInv' /\ RestInv' /\ StaleAtMostOne'
  BY <1>1, NextFlush, NextRest, NextStale DEF TypeOK, Place
<1>4. SegmentsBehind' /\ LateInv'
  BY <1>1, NextSegments, NextLate DEF TypeOK, Place
<1> QED
  BY <1>2, <1>3, <1>4 DEF IInv, StaleInv

\* Of an older run a queue holds its head at most, once a new run has begun, however
\* the seek's flush meets the demultiplexer and the pins' threads.
THEOREM StaleBounded == Spec => []StaleAtMostOne
<1>1. IInv => StaleAtMostOne
  BY DEF IInv, StaleInv
<1> QED
  BY <1>1, InitInv, NextInv, PTL DEF Spec

\* After a new segment a pin downstream gets at most two packets of older runs.
THEOREM LateBounded == Spec => []LateAtMostTwo
<1>1. IInv => LateAtMostTwo
  <2> SUFFICES ASSUME IInv, NEW p \in Pin PROVE raced[p] \/ late[p] <= 2
    BY DEF LateAtMostTwo
  <2>1. FewLate(p) /\ late[p] \in Nat
    BY DEF IInv, LateInv, TypeOK, DownstreamType
  <2>2. InHand(p) \in Nat /\ AtHead(p) \in Nat
    BY DEF InHand, AtHead
  <2> QED
    BY <2>1, <2>2 DEF FewLate
<1> QED
  BY <1>1, InitInv, NextInv, PTL DEF Spec
=============================================================================

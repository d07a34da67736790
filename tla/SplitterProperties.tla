------------------------- MODULE SplitterProperties -------------------------
(* What the splitter promises: little of the old survives a flush, packets  *)
(* reach a pin in order and under their own segment, calls return.          *)
EXTENDS Splitter

AppPlace == {"idle", "reset", "flush", "refuse", "clear", "down", "call", "called", "up",
             "accept", "ended", "end", "exit", "exited"}
DemuxPlace == {"off", "start", "begin", "wait", "announce", "segment", "loop", "queue", "add",
               "added", "eos"}
PinPlaceName == {"off", "start", "restart", "idle", "take", "test", "place", "deliver", "wait",
                 "check", "report"}

Flag == [Pin -> BOOLEAN]

AppType ==
    /\ apc \in AppPlace /\ call \in {"none", "seek", "stop"} /\ turn \in Pin /\ calls \in Run
    /\ fFlushing \in BOOLEAN /\ fEnd \in BOOLEAN /\ active \subseteq Pin
    /\ cmd \in {"none", "seek", "stop"}

DemuxType ==
    /\ dpc \in DemuxPlace /\ dpin \in 1 .. Outputs + 1 /\ dpacket \in Packet
    /\ left \in 0 .. Length /\ run \in Run /\ sent \in [Pin -> 0 .. Length]

PinType ==
    /\ queue \in [Pin -> Seq(Packet)] /\ hr \in [Pin -> Result]
    /\ flushing \in Flag /\ flushed \in Flag /\ ended \in Flag /\ quit \in Flag /\ more \in Flag
    /\ ppc \in [Pin -> PinPlaceName] /\ packet \in [Pin -> Packet] /\ res \in [Pin -> Result]

DownstreamType ==
    /\ down \in Flag /\ interrupted \in Flag /\ raced \in Flag
    /\ seg \in [Pin -> Run] /\ got \in [Pin -> Packet] /\ late \in [Pin -> Nat]

QueueLimited == \A p \in Pin : Len(queue[p]) <= 2 * MaxPackets + 1

\* Every variable has its type; in particular no queue grows beyond the limit that
\* QueuePacket (400-404) sets even while another pin is drying.
TypeOK == AppType /\ DemuxType /\ PinType /\ DownstreamType /\ QueueLimited

Old(p) == {i \in DOMAIN queue[p] : queue[p][i].run < run}

\* Once the demultiplexer is in a new run, at most one packet of an older one is in a
\* pin's queue, and at its head: the one it was adding when the queue was cleared;
\* unless the pin's thread began, and reset its flags, in the middle of a flush.
StaleAtMostOne == \A p \in Pin : raced[p] \/ Old(p) \subseteq {1}

\* A pin downstream gets at most two packets of an older run after a new segment:
\* the one the thread had in hand when the pin was flushed, and the one in its queue.
LateAtMostTwo == \A p \in Pin : raced[p] \/ late[p] <= 2

\* The pin downstream accepts a packet of the run the demultiplexer is in, and the
\* pin is not being flushed
Arrives(p) ==
    /\ got'[p] # got[p] /\ got'[p].run = run
    /\ dpc \notin {"off", "start", "begin"}
    /\ ~flushing[p] /\ ~raced[p]

\* A packet of the present run is delivered under the present run's segment, unless
\* the pin is being flushed, and the flush discards it.
UnderItsSegment == [][\A p \in Pin : Arrives(p) => seg[p] = run]_vars

\* What a pin downstream gets of the present run it gets in the order of the file and
\* without a gap, and the end of the stream after the last: errors and flushes cut
\* a run short but lose nothing from its midst.
Complete(p) ==
    IF got'[p].number = EndOfStream
      THEN got[p].number = sent[p]
      ELSE got'[p].number = got[p].number + 1

InOrder == [][\A p \in Pin : Arrives(p) => Complete(p)]_vars

\* Seek and Stop return: the demultiplexer answers though queues are full and
\* deliveries blocked, and each pin's thread exits; unless a pin's thread began in the
\* middle of a flush, for then it delivers although it should not.
CallsReturn == apc # "idle" ~> apc = "idle" \/ \E p \in Pin : raced[p]

\* While the graph plays on, each active pin is told of the end of the stream, for no
\* pin keeps the demultiplexer waiting for ever; unless its thread reported an error.
EndReached ==
    \A p \in Pin :
        dpc \in {"loop", "eos"} /\ apc = "idle" /\ p \in active
            ~> \/ got[p] = [run |-> run, number |-> EndOfStream]
               \/ apc # "idle" \/ hr[p] # "ok"

----------------------------------------------------------------------------
(* What the code says of itself.                                            *)

\* ASSERT(!m_fFlushing) (488), right after the test of m_hrDeliver.
NotFlushing == [][\A p \in Pin : PinPlace(p) => ~flushing[p]]_vars

\* "and only report the error in m_hrDeliver if we didn't flush the stream" (500):
\* no more after the flush is over.
OnlyUnflushedErrors == [][\A p \in Pin : PinReport(p) => ~interrupted[p] \/ raced[p]]_vars

\* "flushing can still start here, to release a blocked deliver call" (492): while the
\* application waits for the demultiplexer no delivery can be blocked.
FlushReleases == apc = "called" => \A p \in Pin : ppc[p] = "deliver" => down[p]

\* "just in case it were asked before the worker thread could be created and reset
\* it" (195): but for a flush, a packet that comes before the pin's thread has begun
\* is not refused.
AskedBeforeBegin ==
    apc = "idle" => \A p \in Pin : dpc = "queue" /\ dpin = p /\ ppc[p] = "start" => hr[p] = "ok"
=============================================================================

------------------------------ MODULE Splitter ------------------------------
(***************************************************************************)
(* CBaseSplitterFilter and its output pins (src/src/filters/parser/        *)
(* BaseSplitter/BaseSplitter.cpp).  One thread demultiplexes the file into *)
(* a queue per pin; a thread per pin delivers its queue downstream; the    *)
(* application starts, seeks and stops the filter from a third.  A seek    *)
(* flushes every pin while their threads run on: nothing excludes them but *)
(* the flags m_fFlushing, m_fFlushed and m_hrDeliver, and an event.        *)
(* Packets carry, as history, the demultiplexer's run and their number in  *)
(* it; a run begins with a start or a seek.                                *)
(***************************************************************************)
EXTENDS Integers, Sequences

CONSTANTS
    Outputs,        \* the number of output pins, all of them connected
    Continuous,     \* the pins that are not IsDiscontinuous (subtitles are)
    Switched,       \* the pins behind a stream switcher, which may turn them off
    MinPackets,     \* MINPACKETS
    MaxPackets,     \* m_QueueMaxPackets
    Failures,       \* what fails downstream: "deliver", "begin" (its BeginFlush)
    Grows,          \* whether a packet may be too large for the buffers
    Stops,          \* the states of the filter in which Stop is called
    Length,         \* bound: packets in the file
    MaxRuns         \* bound: starts and seeks

Pin == 1 .. Outputs
Run == 0 .. MaxRuns

ASSUME OutputsAssumption == Outputs \in Nat \ {0}
ASSUME PinsAssumption == Continuous \subseteq Pin /\ Switched \subseteq Pin
ASSUME QueueAssumption == MinPackets \in Nat /\ MaxPackets \in Nat
ASSUME FailuresAssumption == Failures \subseteq {"deliver", "begin"} /\ Grows \in BOOLEAN
ASSUME StopsAssumption == Stops \subseteq {"active", "stopped"}
ASSUME BoundAssumption == Length \in Nat /\ MaxRuns \in Nat

EndOfStream == 0    \* the number of the packet that is a null pointer
Packet == [run : Run, number : 0 .. Length]
Result == {"ok", "false", "error"}      \* S_OK, S_FALSE, a failure

VARIABLES
    apc,            \* where the application's call is
    call,           \* the call: "none", "seek", "stop"
    turn,           \* the pin it works on
    calls,          \* history: starts and seeks so far
    fFlushing,      \* the filter's m_fFlushing
    fEnd,           \* the filter's m_eEndFlush, which Wait resets
    active,         \* m_pActivePins
    cmd,            \* the request the demultiplexer has not replied to
    dpc,            \* where the demultiplexer is
    dpin,           \* the pin it works on
    dpacket,        \* the packet it queues
    left,           \* what is left of the file
    run,            \* history: its run
    sent,           \* history: packets it made for each pin in this run
    queue,          \* m_queue of each pin
    hr,             \* its m_hrDeliver
    flushing,       \* its m_fFlushing
    flushed,        \* its m_fFlushed
    ended,          \* its m_eEndFlush, which stays set
    quit,           \* its CMD_EXIT, not yet replied to
    ppc,            \* where its thread is
    packet,         \* the packet the thread has
    more,           \* whether --cnt > 0
    res,            \* what the delivery returned
    down,           \* whether the pin downstream is flushing
    seg,            \* the run of the last segment it was told of
    got,            \* history: the last packet it accepted of the present run
    late,           \* history: packets of older runs it accepted since
    interrupted,    \* history: the pin was flushed since the delivery under way began
    raced           \* history: the pin's thread once began in the middle of a flush

app == <<apc, call, turn, calls>>
filter == <<fFlushing, fEnd, active, cmd>>
demux == <<dpc, dpin, dpacket, left, run, sent>>
flags == <<hr, flushing, flushed, ended>>
thread == <<quit, ppc, packet, more, res>>
downstream == <<down, seg, got, late>>
history == <<interrupted, raced>>
vars == <<app, filter, demux, queue, flags, thread, downstream, history>>

----------------------------------------------------------------------------
NoPacket == [run |-> 0, number |-> 0]
Nothing == [p \in Pin |-> NoPacket]
None == [p \in Pin |-> FALSE]

Init ==
    /\ apc = "idle" /\ call = "none" /\ turn = 1 /\ calls = 0
    /\ fFlushing = FALSE /\ fEnd = FALSE /\ active = {} /\ cmd = "none"
    /\ dpc = "off" /\ dpin = 1 /\ dpacket = NoPacket /\ left = 0
    /\ run = 0 /\ sent = [p \in Pin |-> 0]
    /\ queue = [p \in Pin |-> << >>]
    /\ hr = [p \in Pin |-> "ok"]
    /\ flushing = None /\ flushed = None /\ ended = [p \in Pin |-> TRUE]
    /\ quit = None /\ ppc = [p \in Pin |-> "off"]
    /\ packet = Nothing /\ more = None /\ res = [p \in Pin |-> "ok"]
    /\ down = None /\ seg = [p \in Pin |-> 0] /\ got = Nothing /\ late = [p \in Pin |-> 0]
    /\ interrupted = None /\ raced = None

\* Where a pin's thread has a packet that it delivers or has delivered
Delivering == {"deliver", "wait", "check", "report"}

ThreadExists == dpc # "off"
PinThreadExists(p) == ppc[p] # "off"

----------------------------------------------------------------------------
(* The application: Pause, SetPositionsInternal, Stop.                      *)

\* Pause of a stopped filter: a thread for each pin, then the demultiplexer's
Pause ==
    /\ apc = "idle" /\ ~ThreadExists /\ calls < MaxRuns
    /\ calls' = calls + 1
    /\ ppc' = [p \in Pin |-> "start"]
    /\ dpc' = "start"
    /\ UNCHANGED <<apc, call, turn, filter, dpin, dpacket, left, run, sent, queue, flags,
                   quit, packet, more, res, downstream, history>>

BeginFlush(c) ==
    /\ apc' = "reset" /\ call' = c /\ turn' = 1
    /\ fFlushing' = TRUE
    /\ UNCHANGED <<fEnd, active, cmd, demux, queue, flags, thread, downstream, history>>

\* SetPositionsInternal, past its tests for a seek that changes nothing
Seek ==
    /\ apc = "idle" /\ ThreadExists /\ calls < MaxRuns
    /\ calls' = calls + 1
    /\ BeginFlush("seek")

Stop ==
    /\ apc = "idle" /\ (IF ThreadExists THEN "active" ELSE "stopped") \in Stops
    /\ BeginFlush("stop")
    /\ UNCHANGED calls

\* The next pin's turn, or what comes after the last
Turn(again, after) ==
    IF turn < Outputs
      THEN turn' = turn + 1 /\ apc' = again
      ELSE turn' = 1 /\ apc' = after

\* DeliverBeginFlush of a pin
ResetPin ==
    /\ apc = "reset"
    /\ ended' = [ended EXCEPT ![turn] = FALSE]
    /\ flushed' = [flushed EXCEPT ![turn] = FALSE]
    /\ apc' = "flush"
    /\ UNCHANGED <<call, turn, calls, filter, demux, queue, hr, flushing, thread, downstream, history>>

FlushPin ==
    /\ apc = "flush"
    /\ flushing' = [flushing EXCEPT ![turn] = TRUE]
    /\ apc' = "refuse"
    /\ UNCHANGED <<call, turn, calls, filter, demux, queue, hr, flushed, ended, thread, downstream, history>>

RefusePackets ==
    /\ apc = "refuse"
    /\ hr' = [hr EXCEPT ![turn] = "false"]
    /\ apc' = "clear"
    /\ UNCHANGED <<call, turn, calls, filter, demux, queue, flushing, flushed, ended, thread, downstream, history>>

Cleared_Not == queue
Cleared == [queue EXCEPT ![turn] = << >>]

ClearQueue ==
    /\ apc = "clear"
    /\ queue' = Cleared
    /\ apc' = "down"
    /\ UNCHANGED <<call, turn, calls, filter, demux, flags, thread, downstream, history>>

\* BeginFlush of the pin downstream; when it fails, the event is set at once
FlushDownstream ==
    /\ apc = "down"
    /\ \/ down' = [down EXCEPT ![turn] = TRUE] /\ UNCHANGED ended
       \/ "begin" \in Failures /\ ended' = [ended EXCEPT ![turn] = TRUE] /\ UNCHANGED down
    /\ Turn("reset", "call")
    /\ UNCHANGED <<call, calls, filter, demux, queue, hr, flushing, flushed, thread, seg, got, late, history>>

\* CallWorker, which does nothing without a thread
CallDemux ==
    /\ apc = "call"
    /\ cmd' = IF ThreadExists THEN call ELSE "none"
    /\ apc' = "called"
    /\ UNCHANGED <<call, turn, calls, fFlushing, fEnd, active, demux, queue, flags, thread, downstream, history>>

\* ... its return, and DeliverEndFlush of each pin that has a thread
Called ==
    /\ apc = "called" /\ cmd = "none"
    /\ apc' = "up"
    /\ UNCHANGED <<call, turn, calls, filter, demux, queue, flags, thread, downstream, history>>

SkipPin ==
    /\ apc = "up" /\ ~PinThreadExists(turn)
    /\ Turn("up", "end")
    /\ UNCHANGED <<call, calls, filter, demux, queue, flags, thread, downstream, history>>

EndFlushDownstream ==
    /\ apc = "up" /\ PinThreadExists(turn)
    /\ down' = [down EXCEPT ![turn] = FALSE]
    /\ apc' = "accept"
    /\ UNCHANGED <<call, turn, calls, filter, demux, queue, flags, thread, seg, got, late, history>>

AcceptPackets ==
    /\ apc = "accept"
    /\ hr' = [hr EXCEPT ![turn] = "ok"]
    /\ apc' = "ended"
    /\ UNCHANGED <<call, turn, calls, filter, demux, queue, flushing, flushed, ended, thread, downstream, history>>

FlushOver_NotSet(p) == ended
FlushOver(p) == [ended EXCEPT ![p] = TRUE]

EndFlushPin ==
    /\ apc = "ended"
    /\ flushing' = [flushing EXCEPT ![turn] = FALSE]
    /\ flushed' = [flushed EXCEPT ![turn] = TRUE]
    /\ ended' = FlushOver(turn)
    /\ interrupted' = [interrupted EXCEPT ![turn] = ppc[turn] \in Delivering]
    /\ Turn("up", "end")
    /\ UNCHANGED <<call, calls, filter, demux, queue, hr, thread, downstream, raced>>

EndFlush ==
    /\ apc = "end"
    /\ fFlushing' = FALSE /\ fEnd' = TRUE
    /\ IF call = "stop"
         THEN apc' = "exit" /\ UNCHANGED call
         ELSE apc' = "idle" /\ call' = "none"
    /\ UNCHANGED <<turn, calls, active, cmd, demux, queue, flags, thread, downstream, history>>

\* CBaseFilter::Stop: Inactive of each pin
ExitPin ==
    /\ apc = "exit"
    /\ quit' = [quit EXCEPT ![turn] = PinThreadExists(turn)]
    /\ apc' = "exited"
    /\ UNCHANGED <<call, turn, calls, filter, demux, queue, flags, ppc, packet, more, res, downstream, history>>

Exited ==
    /\ apc = "exited" /\ ~quit[turn]
    /\ Turn("exit", "idle")
    /\ call' = IF turn = Outputs THEN "none" ELSE call
    /\ UNCHANGED <<calls, filter, demux, queue, flags, thread, downstream, history>>

----------------------------------------------------------------------------
(* The demultiplexer: ThreadProc, with the DemuxLoop of CDSMSplitterFilter. *)

DemuxStart ==
    /\ dpc = "start"
    /\ fEnd' = TRUE /\ fFlushing' = FALSE
    /\ dpc' = "begin"
    /\ UNCHANGED <<app, active, cmd, dpin, dpacket, left, run, sent, queue, flags, thread, downstream, history>>

\* DemuxSeek
NewRun ==
    /\ left' = Length /\ run' = run + 1 /\ sent' = [p \in Pin |-> 0]
    /\ got' = Nothing
    /\ dpc' = "wait"

DemuxBegin ==
    /\ dpc = "begin"
    /\ NewRun
    /\ UNCHANGED <<app, filter, dpin, dpacket, queue, flags, thread, down, seg, late, history>>

FlushAwaited_Not == TRUE
FlushAwaited == fEnd

\* m_eEndFlush.Wait(), and m_pActivePins.RemoveAll()
DemuxWait ==
    /\ dpc = "wait" /\ FlushAwaited
    /\ fEnd' = FALSE /\ active' = {}
    /\ dpc' = "announce" /\ dpin' = 1
    /\ UNCHANGED <<app, fFlushing, cmd, dpacket, left, run, sent, queue, flags, thread, downstream, history>>

\* while (pos && !m_fFlushing): a pin that is on becomes active
DemuxAnnounce ==
    /\ dpc = "announce" /\ dpin <= Outputs /\ ~fFlushing
    /\ \/ active' = active \cup {dpin} /\ dpc' = "segment" /\ UNCHANGED dpin
       \/ dpin \in Switched /\ dpin' = dpin + 1 /\ UNCHANGED <<active, dpc>>
    /\ UNCHANGED <<app, fFlushing, fEnd, cmd, dpacket, left, run, sent, queue, flags, thread, downstream, history>>

\* DeliverNewSegment, which a flushing pin ignores
DemuxSegment ==
    /\ dpc = "segment"
    /\ IF flushing[dpin]
         THEN UNCHANGED <<seg, late>>
         ELSE seg' = [seg EXCEPT ![dpin] = run] /\ late' = [late EXCEPT ![dpin] = 0]
    /\ dpc' = "announce" /\ dpin' = dpin + 1
    /\ UNCHANGED <<app, filter, dpacket, left, run, sent, queue, flags, thread, down, got, history>>

DemuxAnnounced ==
    /\ dpc = "announce" /\ (dpin > Outputs \/ fFlushing)
    /\ dpc' = "loop" /\ dpin' = 1
    /\ UNCHANGED <<app, filter, dpacket, left, run, sent, queue, flags, thread, downstream, history>>

\* One packet of the file, of a track whose pin is active or not
DemuxRead(p) ==
    /\ dpc = "loop" /\ cmd = "none" /\ left > 0
    /\ left' = left - 1
    /\ IF p \in active
         THEN /\ dpc' = "queue" /\ dpin' = p
              /\ dpacket' = [run |-> run, number |-> sent[p] + 1]
              /\ sent' = [sent EXCEPT ![p] = @ + 1]
         ELSE UNCHANGED <<dpc, dpin, dpacket, sent>>
    /\ UNCHANGED <<app, filter, run, queue, flags, thread, downstream, history>>

DemuxLoopEnds ==
    /\ dpc = "loop" /\ (cmd # "none" \/ left = 0)
    /\ dpc' = "eos" /\ dpin' = 1
    /\ UNCHANGED <<app, filter, dpacket, left, run, sent, queue, flags, thread, downstream, history>>

\* IsAnyPinDrying; packets are of one size, and the pin in question is full,
\* so that the counts of all pins together are not what decides
IsAnyPinDrying == \E p \in active \cap Continuous : Len(queue[p]) < MinPackets

Full_NoLimit(p) == Len(queue[p]) > MaxPackets /\ ~IsAnyPinDrying
Full(p) ==
    \/ Len(queue[p]) > 2 * MaxPackets
    \/ Len(queue[p]) > MaxPackets /\ ~IsAnyPinDrying

\* QueuePacket waits for room, and asks m_hrDeliver once more
DemuxQueue ==
    /\ dpc = "queue" /\ hr[dpin] = "ok" /\ ~Full(dpin)
    /\ dpc' = "add"
    /\ UNCHANGED <<app, filter, dpin, dpacket, left, run, sent, queue, flags, thread, downstream, history>>

DemuxAdd ==
    /\ dpc = "add"
    /\ queue' = [queue EXCEPT ![dpin] = Append(@, dpacket)]
    /\ dpc' = "added"
    /\ UNCHANGED <<app, filter, dpin, dpacket, left, run, sent, flags, thread, downstream, history>>

\* What follows QueuePacket: the next packet, or the next pin's end of stream
AfterQueue(remaining, failure) ==
    /\ dpacket' = NoPacket
    /\ IF dpacket.number = EndOfStream \/ (failure /\ remaining = {})
         THEN /\ dpc' = "eos"
              /\ dpin' = IF dpacket.number = EndOfStream THEN dpin + 1 ELSE 1
         ELSE dpc' = "loop" /\ dpin' = 1

DemuxQueued ==
    /\ dpc = "added" /\ hr[dpin] = "ok"
    /\ AfterQueue(active, FALSE)
    /\ UNCHANGED <<app, filter, left, run, sent, queue, flags, thread, downstream, history>>

\* DeliverPacket forgets a pin that refuses a packet; "only die when all pins are down"
DemuxRefused ==
    /\ dpc \in {"queue", "added"} /\ hr[dpin] # "ok"
    /\ active' = IF dpacket.number = EndOfStream THEN active ELSE active \ {dpin}
    /\ AfterQueue(active', hr[dpin] = "error")
    /\ UNCHANGED <<app, fFlushing, fEnd, cmd, left, run, sent, queue, flags, thread, downstream, history>>

PinsLeft_ButLast == dpin < Outputs
PinsLeft == dpin <= Outputs

\* QueueEndOfStream for each active pin, until there is a request
DemuxEnd ==
    /\ dpc = "eos" /\ PinsLeft /\ cmd = "none"
    /\ IF dpin \in active
         THEN dpc' = "queue" /\ dpacket' = [run |-> run, number |-> EndOfStream] /\ UNCHANGED dpin
         ELSE dpin' = dpin + 1 /\ UNCHANGED <<dpc, dpacket>>
    /\ UNCHANGED <<app, filter, left, run, sent, queue, flags, thread, downstream, history>>

\* GetRequest.  A seek is replied to after DemuxSeek, with nothing shared between
DemuxRequest ==
    /\ dpc = "eos" /\ cmd # "none"
    /\ cmd' = "none"
    /\ IF cmd = "stop"
         THEN dpc' = "off" /\ UNCHANGED <<left, run, sent, got>>
         ELSE NewRun
    /\ dpin' = 1
    /\ UNCHANGED <<app, fFlushing, fEnd, active, dpacket, queue, flags, thread, down, seg, late, history>>

----------------------------------------------------------------------------
(* An output pin's ThreadProc.                                              *)

PinGoTo(p, place) == ppc' = [ppc EXCEPT ![p] = place]

PinStart(p) ==
    /\ ppc[p] = "start"
    /\ hr' = [hr EXCEPT ![p] = "ok"]
    /\ flushing' = [flushing EXCEPT ![p] = FALSE]
    /\ flushed' = [flushed EXCEPT ![p] = FALSE]
    /\ ended' = [ended EXCEPT ![p] = TRUE]
    /\ raced' = [raced EXCEPT ![p] = @ \/ ~ended[p] \/ flushing[p]]
    /\ PinGoTo(p, "restart")
    /\ UNCHANGED <<app, filter, demux, queue, quit, packet, more, res, downstream, interrupted>>

\* BeginFlush and EndFlush of the pin downstream
PinRestart(p) ==
    /\ ppc[p] = "restart"
    /\ down' = [down EXCEPT ![p] = FALSE]
    /\ PinGoTo(p, "idle")
    /\ UNCHANGED <<app, filter, demux, queue, flags, quit, packet, more, res, seg, got, late, history>>

PinExit(p) ==
    /\ ppc[p] = "idle" /\ quit[p]
    /\ quit' = [quit EXCEPT ![p] = FALSE]
    /\ PinGoTo(p, "off")
    /\ UNCHANGED <<app, filter, demux, queue, flags, packet, more, res, downstream, history>>

\* The end of the inner loop's body, and its test --cnt > 0
Forget(p) ==
    /\ packet' = [packet EXCEPT ![p] = NoPacket] /\ res' = [res EXCEPT ![p] = "ok"]
    /\ interrupted' = [interrupted EXCEPT ![p] = FALSE]

Onward(p) == PinGoTo(p, IF more[p] THEN "take" ELSE "idle") /\ Forget(p)

Remember == UNCHANGED <<packet, res, interrupted>>

PinTake(p) ==
    /\ ppc[p] = "take" \/ (ppc[p] = "idle" /\ ~quit[p])
    /\ queue[p] # << >>
    /\ packet' = [packet EXCEPT ![p] = Head(queue[p])]
    /\ more' = [more EXCEPT ![p] = Len(queue[p]) > 1]
    /\ queue' = [queue EXCEPT ![p] = Tail(@)]
    /\ PinGoTo(p, "test")
    /\ UNCHANGED <<app, filter, demux, flags, quit, res, downstream, history>>

PinFindsNone(p) ==
    /\ ppc[p] = "take" /\ queue[p] = << >>
    /\ PinGoTo(p, "idle") /\ more' = [more EXCEPT ![p] = FALSE]
    /\ UNCHANGED <<app, filter, demux, queue, flags, quit, packet, res, downstream, history>>

Accepting_Always(p) == TRUE
Accepting(p) == hr[p] = "ok"

PinTest(p) ==
    /\ ppc[p] = "test"
    /\ IF Accepting(p) THEN PinGoTo(p, "place") /\ Remember ELSE Onward(p)
    /\ UNCHANGED <<app, filter, demux, queue, flags, quit, more, downstream, raced>>

\* ASSERT(!m_fFlushing); m_fFlushed = false
PinPlace(p) ==
    /\ ppc[p] = "place"
    /\ flushed' = [flushed EXCEPT ![p] = FALSE]
    /\ PinGoTo(p, "deliver")
    /\ UNCHANGED <<app, filter, demux, queue, hr, flushing, ended, quit, packet, more, res, downstream, history>>

\* For larger buffers the thread flushes the pin downstream, whoever else does
PinGrows(p) ==
    /\ ppc[p] = "deliver" /\ Grows /\ down[p]
    /\ down' = [down EXCEPT ![p] = FALSE]
    /\ UNCHANGED <<app, filter, demux, queue, flags, thread, seg, got, late, history>>

\* The pin downstream takes the packet
PinDelivers(p) ==
    /\ ppc[p] = "deliver" /\ ~down[p]
    /\ res' = [res EXCEPT ![p] = "ok"]
    /\ got' = [got EXCEPT ![p] = IF packet[p].run = run THEN packet[p] ELSE @]
    /\ late' = [late EXCEPT ![p] = IF packet[p].run < seg[p] THEN @ + 1 ELSE @]
    /\ PinGoTo(p, "wait")
    /\ UNCHANGED <<app, filter, demux, queue, flags, quit, packet, more, down, seg, history>>

\* ... or is flushing, or fails
PinFails(p) ==
    /\ ppc[p] = "deliver"
    /\ \/ down[p] /\ res' = [res EXCEPT ![p] = "false"]
       \/ "deliver" \in Failures /\ res' = [res EXCEPT ![p] = "error"]
    /\ PinGoTo(p, "wait")
    /\ UNCHANGED <<app, filter, demux, queue, flags, quit, packet, more, downstream, history>>

\* "so we have to wait until it is done"
PinWait(p) ==
    /\ ppc[p] = "wait" /\ ended[p]
    /\ IF res[p] # "ok" THEN PinGoTo(p, "check") /\ Remember ELSE Onward(p)
    /\ UNCHANGED <<app, filter, demux, queue, flags, quit, more, downstream, raced>>

Excused(p) == flushed[p]

PinCheck(p) ==
    /\ ppc[p] = "check"
    /\ IF ~Excused(p) THEN PinGoTo(p, "report") /\ Remember ELSE Onward(p)
    /\ UNCHANGED <<app, filter, demux, queue, flags, quit, more, downstream, raced>>

PinReport(p) ==
    /\ ppc[p] = "report"
    /\ hr' = [hr EXCEPT ![p] = res[p]]
    /\ PinGoTo(p, "idle") /\ Forget(p) /\ more' = [more EXCEPT ![p] = FALSE]
    /\ UNCHANGED <<app, filter, demux, queue, flushing, flushed, ended, quit, downstream, raced>>

----------------------------------------------------------------------------
AppStep ==
    \/ ResetPin \/ FlushPin \/ RefusePackets \/ ClearQueue \/ FlushDownstream
    \/ CallDemux \/ Called \/ SkipPin \/ EndFlushDownstream \/ AcceptPackets
    \/ EndFlushPin \/ EndFlush \/ ExitPin \/ Exited

DemuxStep ==
    \/ DemuxStart \/ DemuxBegin \/ DemuxWait \/ DemuxAnnounce \/ DemuxSegment \/ DemuxAnnounced
    \/ \E p \in Pin : DemuxRead(p)
    \/ DemuxLoopEnds \/ DemuxQueue \/ DemuxAdd \/ DemuxQueued \/ DemuxRefused
    \/ DemuxEnd \/ DemuxRequest

\* What the pin's thread does without waiting for the one downstream
PinStep(p) ==
    \/ PinStart(p) \/ PinRestart(p) \/ PinExit(p) \/ PinTake(p) \/ PinFindsNone(p)
    \/ PinTest(p) \/ PinPlace(p) \/ PinWait(p) \/ PinCheck(p) \/ PinReport(p)

PinDelivery(p) == PinGrows(p) \/ PinDelivers(p) \/ PinFails(p)

Next ==
    \/ Pause \/ Seek \/ Stop
    \/ AppStep
    \/ DemuxStep
    \/ \E p \in Pin : PinStep(p) \/ PinDelivery(p)

Spec == Init /\ [][Next]_vars

\* A delivery may wait for long, but returns when the pin downstream is flushed
\* or the graph is stopped
Fairness ==
    /\ WF_vars(AppStep) /\ WF_vars(DemuxStep)
    /\ \A p \in Pin : /\ WF_vars(PinStep(p))
                      /\ WF_vars((down[p] \/ call = "stop") /\ PinDelivery(p))

FairSpec == Spec /\ Fairness

\* ... and while the graph plays, every delivery returns
PlaySpec == FairSpec /\ \A p \in Pin : WF_vars(PinDelivery(p))
=============================================================================

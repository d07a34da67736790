-------------------------- MODULE SubtitleInputPin --------------------------
(***************************************************************************)
(* CSubtitleInputPin (src/src/Subtitles/SubtitleInputPin.cpp): the pin that *)
(* receives embedded subtitles.  Streaming threads put samples in a queue; *)
(* the pin's decoding thread adds them to the subtitle stream under the    *)
(* stream's lock and has them drawn with InvalidateSubtitle.  A seek       *)
(* (NewSegment), a connection or a disconnection discards what is queued.  *)
(* The filter that shows the subtitles holds its own lock while it reads   *)
(* the stream, and InvalidateSubtitle takes that lock too.                 *)
(***************************************************************************)
EXTENDS Integers, Sequences

CONSTANTS
    Caller,         \* upstream threads, and the threads that connect and destroy the pin
    Decoder,        \* the pin's m_decodeThread
    Viewer,         \* the thread that draws the subtitles of a frame
    Free,           \* the owner of a lock nobody holds
    Formats,        \* the kinds of media type the pin is connected with
    MaxTime,        \* bound: the latest start of a sample
    MaxSamples,     \* bound: samples received
    MaxSegments     \* bound: segments

Thread == Caller \cup {Decoder, Viewer}

\* m_csReceive, m_mutexQueue, m_pSubLock, and the lock the viewer's filter takes
\* in InvalidateSubtitle (m_csQueueLock of CDirectVobSubFilter)
Lock == {"receive", "queue", "sub", "view"}

Time == 0 .. MaxTime
NoTime == -1    \* INVALID_TIME of a sample, no rtInvalidate yet

\* "end" is the nullptr that EndOfStream queues; segment is history
Sample == [kind : {"data", "end"}, start : Time \cup {NoTime}, segment : 0 .. MaxSegments]

ASSUME CallerAssumption ==
    /\ Decoder \notin Caller /\ Viewer \notin Caller /\ Decoder # Viewer
    /\ Free \notin Thread
ASSUME FormatsAssumption == Formats \subseteq {"text", "webvtt", "rle"}
ASSUME BoundAssumption == MaxTime \in Nat /\ MaxSamples \in Nat /\ MaxSegments \in Nat

VARIABLES
    format,         \* the kind of m_mt; "none" when m_pSubStream is null
    samples,        \* m_sampleQueue
    content,        \* the samples whose subtitles are in m_pSubStream
    stop,           \* m_bStopDecoding
    exit,           \* m_bExitDecodingThread
    owner,          \* who holds each lock
    dpc,            \* where the decoder is in DecodeSamples
    dInval,         \* its rtInvalidate
    vpc,            \* where the viewer is in its frame
    pc,             \* where each caller is in its call
    op,             \* the call it is in
    arg,            \* the sample it delivers
    segment,        \* history: calls of NewSegment
    received,       \* history: calls of Receive and EndOfStream
    announced,      \* history: the content InvalidateSubtitle was called for
    missed          \* history: the destructor notified a decoder not yet asleep

pin == <<format, samples, content, stop, exit>>
decoder == <<dpc, dInval>>
calls == <<pc, op, arg>>
history == <<segment, received, announced, missed>>
vars == <<pin, owner, decoder, vpc, calls, history>>

----------------------------------------------------------------------------
IsFree(l) == owner[l] = Free
Take(l, t) == owner' = [owner EXCEPT ![l] = t]
Release(ls) == owner' = [l \in Lock |-> IF l \in ls THEN Free ELSE owner[l]]

GoTo(t, place) == pc' = [pc EXCEPT ![t] = place]
Return(t) == GoTo(t, "idle") /\ op' = [op EXCEPT ![t] = "none"]

\* DecodeSample returns a time for text only
Announces == format \in {"text", "webvtt"}

\* m_condQueueReady.notify_one
Notify_Forgotten == dpc' = dpc
Notify == dpc' = IF dpc = "asleep" THEN "check" ELSE dpc

\* InvalidateSubtitle(rt): everything from rt on is drawn again
Announce(rt) == announced' = announced \cup {s \in content : s.start >= rt}

Init ==
    /\ format = "none" /\ samples = << >> /\ content = {}
    /\ stop = FALSE /\ exit = FALSE
    /\ owner = [l \in Lock |-> Free]
    /\ dpc = "top" /\ dInval = NoTime /\ vpc = "idle"
    /\ pc = [t \in Caller |-> "idle"] /\ op = [t \in Caller |-> "none"]
    /\ arg = [t \in Caller |-> [kind |-> "end", start |-> NoTime, segment |-> 0]]
    /\ segment = 0 /\ received = 0 /\ announced = {} /\ missed = FALSE

----------------------------------------------------------------------------
(* InvalidateSamples, called by NewSegment, by (dis)connections.            *)

\* m_bStopDecoding is set before m_mutexQueue is asked for
StopDecoding(t) ==
    /\ pc[t] = "stop"
    /\ stop' = TRUE
    /\ GoTo(t, "clear")
    /\ UNCHANGED <<format, samples, content, exit, owner, decoder, vpc, op, arg, history>>

Kept_All == samples
Kept == << >>

ClearSamples(t) ==
    /\ pc[t] = "clear" /\ IsFree("queue")
    /\ samples' = Kept /\ stop' = FALSE
    /\ \/ op[t] = "segment" /\ GoTo(t, "remove")
       \/ op[t] = "connect" /\ GoTo(t, "open")
       \/ op[t] \in {"break", "reconnect"} /\ GoTo(t, "drop")
    /\ UNCHANGED <<format, content, exit, owner, decoder, vpc, op, arg, history>>

\* A (dis)connection excludes the streaming calls: the upstream thread is in it
Connecting == \E t \in Caller : op[t] \in {"connect", "break", "reconnect"}

----------------------------------------------------------------------------
(* NewSegment(tStart), all of it under m_csReceive.                         *)

NewSegment(t, rt) ==
    /\ pc[t] = "idle" /\ format # "none" /\ segment < MaxSegments /\ IsFree("receive")
    /\ ~Connecting
    /\ Take("receive", t)
    /\ GoTo(t, "stop") /\ op' = [op EXCEPT ![t] = "segment"]
    /\ arg' = [arg EXCEPT ![t] = [kind |-> "end", start |-> rt, segment |-> segment + 1]]
    /\ segment' = segment + 1
    /\ UNCHANGED <<pin, decoder, vpc, received, announced, missed>>

\* "Don't remove existing data in case of WebVTT"; the others under m_pSubLock
RemoveSubtitles(t) ==
    /\ pc[t] = "remove"
    /\ format # "webvtt" => IsFree("sub")
    /\ content' = IF format = "webvtt" THEN content ELSE {}
    /\ GoTo(t, "announce")
    /\ UNCHANGED <<format, samples, stop, exit, owner, decoder, vpc, op, arg, history>>

AnnounceSegment(t) ==
    /\ pc[t] = "announce" /\ IsFree("view")
    /\ Announce(arg[t].start)
    /\ Release({"receive"})
    /\ Return(t)
    /\ UNCHANGED <<pin, decoder, vpc, arg, segment, received, missed>>

----------------------------------------------------------------------------
(* Receive and EndOfStream.                                                 *)

\* A sample without times is of no use, but for RLE subtitles
Accepted_Always(rt) == TRUE
Accepted(rt) == rt # NoTime \/ format = "rle"

\* Receive holds m_csReceive to its end
Receive(t, rt) ==
    /\ pc[t] = "idle" /\ format # "none" /\ received < MaxSamples /\ IsFree("receive")
    /\ ~Connecting
    /\ Accepted(rt)
    /\ Take("receive", t)
    /\ arg' = [arg EXCEPT ![t] = [kind |-> "data", start |-> rt, segment |-> segment]]
    /\ GoTo(t, "enqueue") /\ op' = [op EXCEPT ![t] = "receive"]
    /\ received' = received + 1
    /\ UNCHANGED <<pin, decoder, vpc, segment, announced, missed>>

\* EndOfStream does not
EndOfStream(t) ==
    /\ pc[t] = "idle" /\ format # "none" /\ received < MaxSamples
    /\ ~Connecting
    /\ arg' = [arg EXCEPT ![t] = [kind |-> "end", start |-> NoTime, segment |-> segment]]
    /\ GoTo(t, "enqueue") /\ op' = [op EXCEPT ![t] = "end"]
    /\ received' = received + 1
    /\ UNCHANGED <<pin, owner, decoder, vpc, segment, announced, missed>>

Enqueue(t) ==
    /\ pc[t] = "enqueue" /\ IsFree("queue")
    /\ samples' = Append(samples, arg[t])
    /\ GoTo(t, "notify")
    /\ UNCHANGED <<format, content, stop, exit, owner, decoder, vpc, op, arg, history>>

NotifyDecoder(t) ==
    /\ pc[t] = "notify"
    /\ Notify
    /\ Release(IF op[t] = "receive" THEN {"receive"} ELSE {})
    /\ Return(t)
    /\ UNCHANGED <<pin, dInval, vpc, arg, history>>

----------------------------------------------------------------------------
(* Connections, and the destructor, while no other call is under way.       *)

Quiet == \A t \in Caller : pc[t] = "idle"

\* CompleteConnect
Connect(t) ==
    /\ Quiet /\ ~exit /\ format = "none"
    /\ GoTo(t, "stop") /\ op' = [op EXCEPT ![t] = "connect"]
    /\ UNCHANGED <<pin, owner, decoder, vpc, arg, history>>

\* ... a new m_pSubStream, and AddSubStream
OpenStream(t, f) ==
    /\ pc[t] = "open" /\ IsFree("view")
    /\ format' = f /\ content' = {}
    /\ Return(t)
    /\ UNCHANGED <<samples, stop, exit, owner, decoder, vpc, arg, history>>

\* BreakConnect, and ReceiveConnection, which reconnects a pin in use
Disconnect(t, how) ==
    /\ Quiet /\ format # "none"
    /\ GoTo(t, "stop") /\ op' = [op EXCEPT ![t] = how]
    /\ UNCHANGED <<pin, owner, decoder, vpc, arg, history>>

\* ... RemoveSubStream; m_pSubStream is null
DropStream(t) ==
    /\ pc[t] = "drop" /\ IsFree("view")
    /\ format' = "none" /\ content' = {}
    /\ IF op[t] = "break"
         THEN Return(t)
         ELSE GoTo(t, "stop") /\ op' = [op EXCEPT ![t] = "connect"]
    /\ UNCHANGED <<samples, stop, exit, owner, decoder, vpc, arg, history>>

\* ~CSubtitleInputPin sets the flags and notifies without m_mutexQueue, and joins
Destroy(t) ==
    /\ Quiet /\ ~exit /\ format = "none"
    /\ exit' = TRUE /\ stop' = TRUE
    /\ GoTo(t, "wake") /\ op' = [op EXCEPT ![t] = "destroy"]
    /\ UNCHANGED <<format, samples, content, owner, decoder, vpc, arg, history>>

DestroyWake(t) ==
    /\ pc[t] = "wake"
    /\ Notify
    /\ missed' = (dpc = "drowsy")
    /\ GoTo(t, "join")
    /\ UNCHANGED <<pin, owner, dInval, vpc, op, arg, segment, received, announced>>

DestroyJoin(t) ==
    /\ pc[t] = "join" /\ dpc = "done"
    /\ GoTo(t, "gone")
    /\ UNCHANGED <<pin, owner, decoder, vpc, op, arg, history>>

----------------------------------------------------------------------------
(* The decoding thread.                                                     *)

NeedStop == stop \/ exit

DecodeTop ==
    /\ dpc = "top"
    /\ dpc' = IF exit THEN "done" ELSE "check"
    /\ UNCHANGED <<pin, owner, dInval, vpc, calls, history>>

\* m_condQueueReady.wait: the predicate, then sleep, with m_mutexQueue held in between
DecodeCheck ==
    /\ dpc = "check" /\ IsFree("queue")
    /\ IF samples # << >> \/ NeedStop
         THEN dpc' = "ready" /\ UNCHANGED owner
         ELSE dpc' = "drowsy" /\ Take("queue", Decoder)
    /\ UNCHANGED <<pin, dInval, vpc, calls, history>>

DecodeSleep ==
    /\ dpc = "drowsy"
    /\ Release({"queue"})
    /\ dpc' = "asleep"
    /\ UNCHANGED <<pin, dInval, vpc, calls, history>>

\* "Release this lock until we can acquire the other one"
DecodeReady ==
    /\ dpc = "ready"
    /\ dpc' = IF NeedStop THEN "top" ELSE "lock"
    /\ UNCHANGED <<pin, owner, dInval, vpc, calls, history>>

DecodeLock ==
    /\ dpc = "lock" /\ IsFree("sub")
    /\ Take("sub", Decoder)
    /\ dpc' = "relock"
    /\ UNCHANGED <<pin, dInval, vpc, calls, history>>

DecodeRelock ==
    /\ dpc = "relock" /\ IsFree("queue")
    /\ Take("queue", Decoder)
    /\ dpc' = "loop"
    /\ UNCHANGED <<pin, dInval, vpc, calls, history>>

Earliest_Latest(rt) == IF rt > dInval THEN rt ELSE dInval
Earliest(rt) == IF rt >= 0 /\ (rt < dInval \/ dInval < 0) THEN rt ELSE dInval

DecodeSample ==
    /\ dpc = "loop" /\ samples # << >> /\ ~NeedStop
    /\ LET sample == Head(samples)
       IN  /\ content' = IF sample.kind = "data" THEN content \cup {sample} ELSE content
           /\ dInval' = IF sample.kind = "data" /\ Announces THEN Earliest(sample.start) ELSE dInval
    /\ samples' = Tail(samples)
    /\ UNCHANGED <<format, stop, exit, owner, dpc, vpc, calls, history>>

\* m_pSubLock is released before InvalidateSubtitle ("IMPORTANT").  The lock of m_mutexQueue
\* is a local of the loop's body and is held to its end, through InvalidateSubtitle.
Unlocked_NotSub == IF dInval >= 0 THEN {} ELSE {"queue", "sub"}
Unlocked == IF dInval >= 0 THEN {"sub"} ELSE {"queue", "sub"}

DecodeUnlock ==
    /\ dpc = "loop" /\ (samples = << >> \/ NeedStop)
    /\ Release(Unlocked)
    /\ dpc' = IF dInval >= 0 THEN "announce" ELSE "top"
    /\ UNCHANGED <<pin, dInval, vpc, calls, history>>

DecodeAnnounce ==
    /\ dpc = "announce" /\ IsFree("view")
    /\ Announce(dInval)
    /\ Release({l \in Lock : owner[l] = Decoder})
    /\ dpc' = "top" /\ dInval' = NoTime
    /\ UNCHANGED <<pin, vpc, calls, segment, received, missed>>

----------------------------------------------------------------------------
(* The viewer: CDirectVobSubFilter::Transform looks the subtitles up with    *)
(* m_csQueueLock held, and the lookup locks the stream.                     *)

ViewFrame ==
    /\ vpc = "idle" /\ IsFree("view")
    /\ Take("view", Viewer)
    /\ vpc' = "lookup"
    /\ UNCHANGED <<pin, decoder, calls, history>>

ViewLookup ==
    /\ vpc = "lookup" /\ IsFree("sub")
    /\ Take("sub", Viewer)
    /\ vpc' = "draw"
    /\ UNCHANGED <<pin, decoder, calls, history>>

ViewDraw ==
    /\ vpc = "draw"
    /\ Release({"sub", "view"})
    /\ vpc' = "idle"
    /\ UNCHANGED <<pin, decoder, calls, history>>

----------------------------------------------------------------------------
Call(t) ==
    \/ \E rt \in Time : NewSegment(t, rt)
    \/ \E rt \in Time \cup {NoTime} : Receive(t, rt)
    \/ EndOfStream(t)
    \/ Connect(t)
    \/ \E how \in {"break", "reconnect"} : Disconnect(t, how)
    \/ Destroy(t)

CallerStep(t) ==
    \/ StopDecoding(t) \/ ClearSamples(t) \/ RemoveSubtitles(t) \/ AnnounceSegment(t)
    \/ Enqueue(t) \/ NotifyDecoder(t)
    \/ \E f \in Formats : OpenStream(t, f)
    \/ DropStream(t) \/ DestroyWake(t) \/ DestroyJoin(t)

DecoderStep ==
    \/ DecodeTop \/ DecodeCheck \/ DecodeSleep \/ DecodeReady \/ DecodeLock \/ DecodeRelock
    \/ DecodeSample \/ DecodeUnlock \/ DecodeAnnounce

ViewerStep == ViewLookup \/ ViewDraw

Next ==
    \/ \E t \in Caller : Call(t) \/ CallerStep(t)
    \/ DecoderStep
    \/ ViewFrame \/ ViewerStep

Spec == Init /\ [][Next]_vars

\* A thread gets a lock that is free again and again; frames and calls need not come
Fairness ==
    /\ SF_vars(DecoderStep)
    /\ \A t \in Caller : SF_vars(CallerStep(t))
    /\ WF_vars(ViewerStep)

FairSpec == Spec /\ Fairness

----------------------------------------------------------------------------
CallPlace == {"idle", "stop", "clear", "remove", "announce", "enqueue", "notify", "open",
              "drop", "wake", "join", "gone"}
CallOp == {"none", "segment", "connect", "break", "reconnect", "receive", "end", "destroy"}

\* Every variable has its type; in particular a sample of a text format has a
\* start, for DecodeSample returns it as the time to invalidate from.
TypeOK ==
    /\ format \in Formats \cup {"none"}
    /\ samples \in Seq(Sample) /\ content \subseteq Sample
    /\ format # "rle" => \A s \in content : s.start # NoTime
    /\ stop \in BOOLEAN /\ exit \in BOOLEAN
    /\ owner \in [Lock -> Thread \cup {Free}]
    /\ dpc \in {"top", "check", "drowsy", "asleep", "ready", "lock", "relock", "loop", "announce", "done"}
    /\ dInval \in Time \cup {NoTime}
    /\ vpc \in {"idle", "lookup", "draw"}
    /\ pc \in [Caller -> CallPlace] /\ op \in [Caller -> CallOp] /\ arg \in [Caller -> Sample]
    /\ segment \in 0 .. MaxSegments /\ received \in 0 .. MaxSamples
    /\ announced \subseteq Sample /\ missed \in BOOLEAN

\* A thread that has yet to remove the old segment's samples from the stream
Seeking == \E t \in Caller : op[t] = "segment" /\ pc[t] \in {"stop", "clear", "remove"}

\* After a seek no subtitle received before it is in the stream, though the decoder
\* may hold one segment's samples while NewSegment is called (WebVTT is kept).
FreshAfterSeek ==
    ~Seeking /\ format # "webvtt" => \A s \in content : s.segment = segment

\* A text in the stream that nobody has been told of is one the decoder is about
\* to announce: interrupted or not, no added text stays undrawn.
TextAnnounced ==
    Announces => \A s \in content :
        \/ s \in announced
        \/ dpc \in {"loop", "announce"} /\ dInval \in 0 .. s.start

\* The decoder decodes for a stream that exists.
StreamWhileDecoding == dpc = "loop" /\ samples # << >> /\ ~NeedStop => format # "none"

\* What is received is decoded, or discarded by a seek or a disconnection.
SamplesLeave == samples # << >> ~> samples = << >>

\* Every call but the destructor returns: whoever waits for m_mutexQueue, m_pSubLock or the
\* viewer's lock gets it, though the decoder waits for the viewer's lock with m_mutexQueue held
\* ("m_pSubLock must not be locked when calling this").
CallsEnd == \A t \in Caller : op[t] # "none" ~> op[t] \in {"none", "destroy"}

\* The destructor returns, unless its notification came between the decoder's look
\* at the flags and its sleep.
DestroyEnds == exit ~> missed \/ \E t \in Caller : pc[t] = "gone"
=============================================================================

---------------------------- MODULE SubPicQueue ----------------------------
(***************************************************************************)
(* CSubPicQueue (src/src/SubPic/SubPicQueueImpl.cpp): the queue of         *)
(* pre-rendered subtitle pictures.  Its own thread (the worker) renders    *)
(* ahead of playback and appends; the video renderer's thread calls        *)
(* SetTime and LookupSubPic for each frame; other threads (user interface, *)
(* subtitle decoder) change the provider or its subtitles and call         *)
(* Invalidate; one of them finally runs the destructor.                    *)
(*                                                                         *)
(* A step is a critical section of m_mutexQueue, m_mutexSubpic or          *)
(* m_csSubPicProvider, or one unlocked access to a shared variable.        *)
(***************************************************************************)
EXTENDS Integers, Sequences

CONSTANTS
    Client,         \* threads that edit subtitles, invalidate and destroy
    Renderer,       \* the video renderer's thread
    Free,           \* the owner of a lock nobody holds
    Provider,       \* the subtitle providers (ISubPicProvider)
    NoProvider,     \* the null provider
    NoPic,          \* the null subpicture
    Tracks,         \* the subtitle lists a provider can hold, in time order
    Unknown,        \* ISubPicProvider::UNKNOWN_TIME, a stop not known yet
    Size,           \* m_settings.nSize
    AnimationRate,  \* m_settings.nAnimationRate, in percent
    FrameTimes,     \* the values of m_rtTimePerFrame that SetFPS sets
    Ahead,          \* how far ahead the worker renders (60 s in the code)
    Blocking,       \* the values bTryBlocking starts with
    Failures,       \* what may go wrong when a picture is rendered
    MaxTime,        \* bound: the latest playback time
    MaxSetTime,     \* bound: calls of SetTime
    MaxEdits        \* bound: calls that change subtitles or provider

Thread == Client \cup {Renderer}

\* ISubPicProvider sees its subtitles by position: start, stop, animated or not
Sub == [start : Nat, stop : Nat, animated : BOOLEAN]

SubFrame(f) == (f * 100) \div AnimationRate

\* The part of a sub-frame an animated picture is valid for ("3/4 is a magic number")
Span(f) == (SubFrame(f) * 3) \div 4

ASSUME ThreadAssumption ==
    /\ Renderer \notin Client
    /\ Free \notin Client \cup {Renderer}
    /\ NoProvider \notin Provider
ASSUME SizeAssumption == Size \in Nat \ {0}
ASSUME TimeAssumption ==
    /\ MaxTime \in Nat /\ Unknown \in Nat /\ Ahead \in Nat
    /\ MaxSetTime \in Nat /\ MaxEdits \in Nat
    /\ AnimationRate \in Nat \ {0}
    /\ FrameTimes \subseteq Nat \ {0}
    /\ \A f \in FrameTimes : SubFrame(f) \in Nat /\ Span(f) \in 1 .. SubFrame(f)
ASSUME OptionAssumption ==
    /\ Blocking \subseteq BOOLEAN
    /\ Failures \subseteq {"static", "render", "alloc", "copy"}
\* What ISubPicProvider's implementations promise: positions in time order, disjoint
ASSUME TrackAssumption ==
    \A tr \in Tracks :
        /\ tr \in Seq(Sub)
        /\ \A i \in 1 .. Len(tr) : tr[i].start < tr[i].stop /\ tr[i].start < Unknown
        /\ \A i, j \in 1 .. Len(tr) : i < j => tr[i].stop <= tr[j].start

Time == Nat \cup {-1}

\* ISubPic: validity, segment, and (history) the edits it was rendered after,
\* whether its pixels were copied, and whose positions and content it shows
SubPic == [start : Nat, stop : Nat, segStart : Nat, segStop : Nat,
           seen : Nat, drawn : BOOLEAN, timing : Provider, content : Provider]
ASSUME NoPicAssumption == NoPic \notin SubPic

VARIABLES
    now,        \* m_rtNow
    nowLast,    \* m_rtNowLast; -1 is LONGLONG_ERROR
    frame,      \* m_rtTimePerFrame
    inval,      \* m_bInvalidate
    rtInval,    \* m_rtInvalidate
    queue,      \* m_queue
    subPic,     \* m_pSubPic, the picture shown last
    provider,   \* m_pSubPicProviderWithSharedLock->pSubPicProvider
    track,      \* the subtitles each provider holds
    event,      \* m_runQueueEvent, an auto-reset event
    exit,       \* m_bExitThread
    lockQ,      \* the owner of m_mutexQueue between two steps
    lockP,      \* the owner of m_csSubPicProvider between two steps
    wpc,        \* where the worker is in ThreadProc
    wprov,      \* its pSubPicProviderWithSharedLock
    wframe,     \* its rtTimePerFrame
    waits,      \* its bWaitForEvent
    startRt,    \* its rtStartRendering
    pos,        \* its pos
    cur,        \* its rtCurrent
    pic,        \* its pSubPic
    pc,         \* where each other thread is in its call
    arg,        \* rtInvalidate of the Invalidate it is in
    clock,      \* rtNow of the renderer's lookup
    res,        \* its ppSubPic
    mayBlock,   \* its bTryBlocking
    edits,      \* history: the time from which each edit changed the subtitles
    setTimes    \* counts the calls of SetTime

shared == <<now, nowLast, frame, inval, rtInval, queue, subPic, provider, track,
            event, exit, lockQ, lockP>>
worker == <<wpc, wprov, wframe, waits, startRt, pos, cur, pic>>
lookup == <<clock, res, mayBlock>>
history == <<edits, setTimes>>
vars == <<shared, worker, pc, arg, lookup, history>>

----------------------------------------------------------------------------
Larger(a, b) == IF a >= b THEN a ELSE b
Smaller(a, b) == IF a <= b THEN a ELSE b

TailStop_Ignored == -1
TailStop == IF queue = << >> THEN -1 ELSE queue[Len(queue)].stop

Room_OneMore == Len(queue) <= Size
Room == Len(queue) < Size

\* GetStartPosition(rt) of a provider: its first subtitle not over at rt, 0 for none
IsStartPosition(tr, rt, i) ==
    \/ /\ i \in 1 .. Len(tr) /\ tr[i].stop > rt
       /\ \A j \in 1 .. i - 1 : tr[j].stop <= rt
    \/ i = 0 /\ \A j \in 1 .. Len(tr) : tr[j].stop <= rt

\* The worker holds the shared lock of wprov from Lock to Unlock
Rendering == wpc \in {"tail", "start", "pos", "render", "enqueue", "late", "unlock"}

\* m_condQueueFull.notify_one and m_condQueueReady.notify_one: each condition
\* has one thread that ever waits for it
NotifyFull_Forgotten == wpc' = wpc
NotifyReady_Forgotten == pc' = pc
NotifyFull == wpc' = IF wpc = "full" THEN "block" ELSE wpc
NotifyReady == pc' = IF pc[Renderer] = "ready" THEN [pc EXCEPT ![Renderer] = "await"] ELSE pc

\* m_runQueueEvent.Set
SetEvent_Forgotten == event' = event
SetEvent == event' = TRUE

Init ==
    /\ now = 0 /\ nowLast = -1 /\ frame \in FrameTimes
    /\ inval = FALSE /\ rtInval = 0
    /\ queue = << >> /\ subPic = NoPic
    /\ provider = NoProvider /\ track \in [Provider -> Tracks]
    /\ event = FALSE /\ exit = FALSE /\ lockQ = Free /\ lockP = Free
    /\ wpc = "top" /\ wprov = NoProvider /\ wframe = frame /\ waits = FALSE
    /\ startRt = 0 /\ pos = 0 /\ cur = 0 /\ pic = NoPic
    /\ pc = [t \in Thread |-> "idle"] /\ arg = [t \in Thread |-> -1]
    /\ clock = 0 /\ res = NoPic /\ mayBlock = FALSE
    /\ edits = << >> /\ setTimes = 0

----------------------------------------------------------------------------
(* Invalidate(arg[t]), called by thread t.                                  *)

\* Lock, set the flags, release the picture shown last, pop what is too late
InvalidatePurge(t) ==
    /\ pc[t] = "purge" /\ lockQ = Free
    /\ lockQ' = t
    /\ inval' = TRUE /\ rtInval' = arg[t] /\ nowLast' = -1
    /\ subPic' = IF subPic # NoPic /\ subPic.stop > arg[t] THEN NoPic ELSE subPic
    /\ \E k \in 0 .. Len(queue) :
        /\ k > 0 => queue[k].stop <= arg[t]
        /\ \A i \in k + 1 .. Len(queue) : queue[i].stop > arg[t]
        /\ queue' = SubSeq(queue, 1, k)
    /\ pc' = [pc EXCEPT ![t] = "lower"]
    /\ UNCHANGED <<now, frame, provider, track, event, exit, lockP, worker, arg, lookup, history>>

LowersNow_FromStart(rt) == rt < now
LowersNow(rt) == rt >= 0 /\ rt < now

\* "always give the queue a chance to re-render the modified subtitles"
InvalidateLower(t) ==
    /\ pc[t] = "lower"
    /\ now' = IF LowersNow(arg[t]) THEN arg[t] ELSE now
    /\ lockQ' = Free
    /\ pc' = [pc EXCEPT ![t] = "signal"]
    /\ UNCHANGED <<nowLast, frame, inval, rtInval, queue, subPic, provider, track,
                   event, exit, lockP, worker, arg, lookup, history>>

\* Notify, set the event, return (from SetSubPicProvider too if t is in it)
InvalidateSignal(t) ==
    /\ pc[t] = "signal"
    /\ NotifyFull
    /\ SetEvent
    /\ lockP' = IF lockP = t THEN Free ELSE lockP
    /\ arg' = [arg EXCEPT ![t] = -1]
    /\ pc' = [pc EXCEPT ![t] = IF t = Renderer THEN "stamp" ELSE IF exit THEN "join" ELSE "idle"]
    /\ UNCHANGED <<now, nowLast, frame, inval, rtInval, queue, subPic, provider, track, exit, lockQ,
                   wprov, wframe, waits, startRt, pos, cur, pic, lookup, history>>

----------------------------------------------------------------------------
(* Calls of the other threads.                                              *)

\* SetSubPicProvider(p): Invalidate(-1) runs with m_csSubPicProvider held
SetSubPicProvider(c, p) ==
    /\ pc[c] = "idle" /\ ~exit /\ lockP = Free /\ Len(edits) < MaxEdits
    /\ lockP' = c /\ provider' = p
    /\ arg' = [arg EXCEPT ![c] = -1]
    /\ pc' = [pc EXCEPT ![c] = "purge"]
    /\ edits' = Append(edits, -1)
    /\ UNCHANGED <<now, nowLast, frame, inval, rtInval, queue, subPic, track, event, exit, lockQ,
                   worker, lookup, setTimes>>

\* A decoder or editor changes the current provider's subtitles from rt on,
\* under the provider's lock, and calls Invalidate(rt) after releasing it
EditSubtitles(c, tr, rt) ==
    /\ pc[c] = "idle" /\ ~exit /\ provider # NoProvider /\ Len(edits) < MaxEdits
    /\ ~(Rendering /\ wprov = provider)
    /\ \A i \in 1 .. Len(track[provider]) :
        track[provider][i].stop <= rt => \E j \in 1 .. Len(tr) : tr[j] = track[provider][i]
    /\ track' = [track EXCEPT ![provider] = tr]
    /\ arg' = [arg EXCEPT ![c] = rt]
    /\ pc' = [pc EXCEPT ![c] = "purge"]
    /\ edits' = Append(edits, rt)
    /\ UNCHANGED <<now, nowLast, frame, inval, rtInval, queue, subPic, provider, event, exit, lockQ, lockP,
                   worker, lookup, setTimes>>

SetFPS(c, f) ==
    /\ pc[c] = "idle" /\ ~exit /\ f # frame
    /\ frame' = f /\ SetEvent
    /\ UNCHANGED <<now, nowLast, inval, rtInval, queue, subPic, provider, track, exit, lockQ, lockP,
                   worker, pc, arg, lookup, history>>

\* ~CSubPicQueue: the last reference is gone, so no call is under way
Destroy(c) ==
    /\ \A t \in Thread : pc[t] = "idle"
    /\ ~exit
    /\ exit' = TRUE
    /\ pc' = [pc EXCEPT ![c] = "destroy"]
    /\ UNCHANGED <<now, nowLast, frame, inval, rtInval, queue, subPic, provider, track, event, lockQ, lockP,
                   worker, arg, lookup, history>>

\* ... its SetSubPicProvider(nullptr)
DestroyProvider(c) ==
    /\ pc[c] = "destroy" /\ lockP = Free
    /\ lockP' = c /\ provider' = NoProvider
    /\ arg' = [arg EXCEPT ![c] = -1]
    /\ pc' = [pc EXCEPT ![c] = "purge"]
    /\ UNCHANGED <<now, nowLast, frame, inval, rtInval, queue, subPic, track, event, exit, lockQ,
                   worker, lookup, history>>

\* ... its CAMThread::Close
DestroyJoin(c) ==
    /\ pc[c] = "join" /\ wpc = "done"
    /\ pc' = [pc EXCEPT ![c] = "gone"]
    /\ UNCHANGED <<shared, worker, arg, lookup, history>>

----------------------------------------------------------------------------
(* The renderer's thread: SetTime(rt), then LookupSubPic.                   *)

SetTime(rt) ==
    /\ pc[Renderer] = "idle" /\ ~exit /\ setTimes < MaxSetTime
    /\ now' = rt /\ clock' = rt /\ setTimes' = setTimes + 1
    /\ pc' = [pc EXCEPT ![Renderer] = "check"]
    /\ UNCHANGED <<nowLast, frame, inval, rtInval, queue, subPic, provider, track, event, exit, lockQ, lockP,
                   worker, arg, res, mayBlock, edits>>

\* "if we seek in the past, we invalidate"
SetTimeCheck ==
    /\ pc[Renderer] = "check"
    /\ IF nowLast >= 0 /\ nowLast - now >= frame
         THEN /\ pc' = [pc EXCEPT ![Renderer] = "purge"]
              /\ arg' = [arg EXCEPT ![Renderer] = now]
         ELSE /\ pc' = [pc EXCEPT ![Renderer] = "stamp"]
              /\ UNCHANGED arg
    /\ UNCHANGED <<shared, worker, lookup, history>>

SetTimeStamp ==
    /\ pc[Renderer] = "stamp"
    /\ nowLast' = now /\ SetEvent
    /\ pc' = [pc EXCEPT ![Renderer] = "idle"]
    /\ UNCHANGED <<now, frame, inval, rtInval, queue, subPic, provider, track, exit, lockQ, lockP,
                   worker, arg, lookup, history>>

InSegment(p, rt) == p.segStart <= rt /\ rt < p.segStop
Exact(p, rt) == p.start <= rt /\ rt < p.stop

\* See whether the picture shown last can be used again; an exact match ends the search
LookupReuse ==
    /\ pc[Renderer] = "idle" /\ ~exit
    /\ mayBlock' \in Blocking
    /\ res' = IF subPic # NoPic /\ InSegment(subPic, clock) THEN subPic ELSE NoPic
    /\ subPic' = IF subPic # NoPic /\ subPic.segStop <= clock THEN NoPic ELSE subPic
    /\ pc' = [pc EXCEPT ![Renderer] =
                IF res' # NoPic /\ Exact(res', clock) THEN "save" ELSE "search"]
    /\ UNCHANGED <<now, nowLast, frame, inval, rtInval, queue, provider, track, event, exit, lockQ, lockP,
                   worker, arg, clock, history>>

\* The search passes over p: it is removed, as over or as a fallback candidate
Passed(p) == p.segStart <= clock /\ p.stop <= clock

\* What the pictures before the k-th leave as candidate
CandidateBefore(k, c) ==
    \/ /\ \A i \in 1 .. k - 1 : queue[i].segStop <= clock
       /\ c = res
    \/ \E i \in 1 .. k - 1 :
        /\ queue[i].segStop > clock /\ c = queue[i]
        /\ \A j \in i + 1 .. k - 1 : queue[j].segStop <= clock

\* The k-th picture, where the search stops, becomes the result
Taken_TooEarly(k, c) == k <= Len(queue) /\ (c = NoPic \/ c.stop <= clock)
Taken_OnlyIfNone(k, c) == k <= Len(queue) /\ InSegment(queue[k], clock) /\ c = NoPic
Taken(k, c) ==
    /\ k <= Len(queue) /\ InSegment(queue[k], clock)
    /\ clock >= queue[k].start \/ c = NoPic \/ c.stop <= clock

LookupSearch ==
    /\ pc[Renderer] = "search" /\ lockQ = Free
    /\ \E k \in 1 .. Len(queue) + 1 : \E c \in {res} \cup {queue[i] : i \in 1 .. Len(queue)} :
        /\ \A i \in 1 .. k - 1 : Passed(queue[i])
        /\ k <= Len(queue) => ~Passed(queue[k])
        /\ CandidateBefore(k, c)
        /\ IF Taken(k, c)
             THEN res' = queue[k] /\ queue' = SubSeq(queue, k + 1, Len(queue))
             ELSE res' = c /\ queue' = SubSeq(queue, k, Len(queue))
    /\ pc' = [pc EXCEPT ![Renderer] = "found"]
    /\ UNCHANGED <<now, nowLast, frame, inval, rtInval, subPic, provider, track, event, exit, lockQ, lockP,
                   worker, arg, clock, mayBlock, history>>

\* Notify, then give up or try harder, once
TryAgain_Always == mayBlock
TryAgain == mayBlock /\ res # NoPic

LookupFound ==
    /\ pc[Renderer] = "found"
    /\ NotifyFull
    /\ mayBlock' = TryAgain
    /\ pc' = [pc EXCEPT ![Renderer] = IF res = NoPic /\ mayBlock THEN "ask" ELSE "save"]
    /\ UNCHANGED <<shared, wprov, wframe, waits, startRt, pos, cur, pic, arg, clock, res, history>>

\* Waiting is worth it if the provider has a subtitle to show at this time
LookupAsk ==
    /\ pc[Renderer] = "ask" /\ lockP = Free
    /\ pc' = [pc EXCEPT ![Renderer] =
                IF /\ provider # NoProvider
                   /\ \E i \in 1 .. Len(track[provider]) : Exact(track[provider][i], clock)
                THEN "await" ELSE "save"]
    /\ UNCHANGED <<shared, worker, arg, lookup, history>>

\* m_condQueueReady.wait_for, up to 250 ms
LookupAwait ==
    /\ pc[Renderer] = "await" /\ lockQ = Free
    /\ pc' = [pc EXCEPT ![Renderer] =
                IF Len(queue) = Size \/ TailStop > clock THEN "search" ELSE "ready"]
    /\ UNCHANGED <<shared, worker, arg, lookup, history>>

LookupTimeout ==
    /\ pc[Renderer] = "ready" /\ lockQ = Free
    /\ pc' = [pc EXCEPT ![Renderer] = "search"]
    /\ UNCHANGED <<shared, worker, arg, lookup, history>>

\* "Save the subpic for later reuse", and return
LookupSave ==
    /\ pc[Renderer] = "save"
    /\ subPic' = IF res # NoPic THEN res ELSE subPic
    /\ res' = NoPic /\ mayBlock' = FALSE
    /\ pc' = [pc EXCEPT ![Renderer] = "idle"]
    /\ UNCHANGED <<now, nowLast, frame, inval, rtInval, queue, provider, track, event, exit, lockQ, lockP,
                   worker, arg, clock, history>>

----------------------------------------------------------------------------
(* The worker: ThreadProc, RenderTo and EnqueueSubPic.                      *)

RenderTop ==
    /\ wpc = "top"
    /\ wpc' = IF exit THEN "done" ELSE IF waits THEN "wait" ELSE "fetch"
    /\ waits' = FALSE
    /\ UNCHANGED <<shared, wprov, wframe, startRt, pos, cur, pic, pc, arg, lookup, history>>

RenderWait ==
    /\ wpc = "wait" /\ event
    /\ event' = FALSE
    /\ wpc' = "fetch"
    /\ UNCHANGED <<now, nowLast, frame, inval, rtInval, queue, subPic, provider, track, exit, lockQ, lockP,
                   wprov, wframe, waits, startRt, pos, cur, pic, pc, arg, lookup, history>>

RenderFetch ==
    /\ wpc = "fetch" /\ lockP = Free
    /\ wprov' = provider
    /\ wpc' = "lock"
    /\ UNCHANGED <<shared, wframe, waits, startRt, pos, cur, pic, pc, arg, lookup, history>>

\* Lock the provider and start a pass; m_bInvalidate is cleared without m_mutexQueue
RenderLock ==
    /\ wpc = "lock"
    /\ IF wprov = NoProvider
         THEN wpc' = "top" /\ waits' = TRUE /\ UNCHANGED <<inval, wframe>>
         ELSE wpc' = "tail" /\ inval' = FALSE /\ wframe' = frame /\ UNCHANGED waits
    /\ UNCHANGED <<now, nowLast, frame, rtInval, queue, subPic, provider, track, event, exit, lockQ, lockP,
                   wprov, startRt, pos, cur, pic, pc, arg, lookup, history>>

\* GetCurrentRenderingTime: the stop of the tail, under the lock ...
RenderTail ==
    /\ wpc = "tail" /\ lockQ = Free
    /\ startRt' = TailStop
    /\ wpc' = "start"
    /\ UNCHANGED <<shared, wprov, wframe, waits, pos, cur, pic, pc, arg, lookup, history>>

\* ... or the current time if that is later; then the first subtitle to render
RenderStart ==
    /\ wpc = "start"
    /\ startRt' = Larger(startRt, now)
    /\ \E i \in 0 .. Len(track[wprov]) :
        /\ IsStartPosition(track[wprov], startRt', i)
        /\ pos' = i
        /\ waits' = (i = 0)
        /\ wpc' = IF i = 0 THEN "unlock" ELSE "pos"
    /\ UNCHANGED <<shared, wprov, wframe, cur, pic, pc, arg, lookup, history>>

\* GetNext
NextPos == pos' = pos + 1 /\ wpc' = "pos"

RenderPos ==
    /\ wpc = "pos"
    /\ IF pos > Len(track[wprov])
         THEN wpc' = "unlock" /\ UNCHANGED <<waits, pos, cur>>
         ELSE LET sub == track[wprov][pos]
              IN  IF sub.start >= now + Ahead
                    THEN wpc' = "unlock" /\ waits' = TRUE /\ UNCHANGED <<pos, cur>>
                    ELSE /\ cur' = Larger(Larger(sub.start, startRt), now)
                         /\ IF cur' < sub.stop THEN wpc' = "render" /\ UNCHANGED pos ELSE NextPos
                         /\ UNCHANGED waits
    /\ UNCHANGED <<shared, wprov, wframe, startRt, pic, pc, arg, lookup, history>>

\* The picture of sub at rtCurrent; a subtitle with no known stop gets one frame
StopReal(sub) == IF sub.stop = Unknown THEN cur + wframe ELSE sub.stop

Rendered(sub, drawn) ==
    LET stop == StopReal(sub)
    IN  [start    |-> IF sub.animated THEN cur ELSE sub.start,
         stop     |-> IF sub.animated THEN Smaller(cur + Span(wframe), stop) ELSE stop,
         segStart |-> sub.start,
         segStop  |-> IF sub.animated THEN Larger(cur + wframe, stop) ELSE stop,
         seen |-> Len(edits), drawn |-> drawn, timing |-> wprov, content |-> provider]

\* RenderTo draws with the provider of this moment, not with the locked one;
\* the copy goes to a new picture, to be enqueued
RenderPicture ==
    /\ wpc = "render" /\ lockP = Free
    /\ provider # NoProvider
    /\ LET sub == track[wprov][pos]
       IN  /\ pic' = Rendered(sub, TRUE)
           /\ cur' = IF sub.animated
                       THEN Smaller(cur + SubFrame(wframe), StopReal(sub)) ELSE StopReal(sub)
    /\ wpc' = "enqueue"
    /\ UNCHANGED <<shared, wprov, wframe, waits, startRt, pos, pc, arg, lookup, history>>

\* GetStatic, RenderTo, AllocDynamic or CopyTo fails: on to the next subtitle.
\* AllocDynamic leaves no picture, CopyTo one with its times but not its pixels
RenderFails(why) ==
    /\ wpc = "render" /\ (why = "static" \/ lockP = Free)
    /\ provider = NoProvider => why \in {"static", "render"}
    /\ pic' = CASE why = "alloc" -> NoPic
                [] why = "copy"  -> Rendered(track[wprov][pos], FALSE)
                [] OTHER         -> pic
    /\ NextPos
    /\ UNCHANGED <<shared, wprov, wframe, waits, startRt, cur, pc, arg, lookup, history>>

\* EnqueueSubPic, once there is room: the picture is dropped or added, and released
Dropped_Never == FALSE
Dropped_Always == pic.stop > rtInval
Dropped == inval /\ pic.stop > rtInval

Add ==
    /\ queue' = IF Dropped THEN queue ELSE Append(queue, pic)
    /\ pic' = NoPic

\* EnqueueSubPic(pSubPic, false): what does not fit stays with the worker
GiveUp_Never == wpc' = "enqueue"
GiveUp == wpc' = "unlock"

RenderEnqueue ==
    /\ wpc = "enqueue" /\ lockQ = Free
    /\ IF Room
         THEN Add /\ wpc' = IF Dropped THEN "unlock" ELSE "late"
         ELSE GiveUp /\ UNCHANGED <<queue, pic>>
    /\ UNCHANGED <<now, nowLast, frame, inval, rtInval, subPic, provider, track, event, exit, lockQ, lockP,
                   wprov, wframe, waits, startRt, pos, cur, pc, arg, lookup, history>>

\* Notify; "the queue is late" if playback has overtaken rtCurrent
RenderLate ==
    /\ wpc = "late"
    /\ NotifyReady
    /\ cur' = Larger(cur, now)
    /\ IF cur' < track[wprov][pos].stop THEN wpc' = "render" /\ UNCHANGED pos ELSE NextPos
    /\ UNCHANGED <<shared, wprov, wframe, waits, startRt, pic, arg, lookup, history>>

\* "ensure to unlock the subpicture provider first to avoid deadlocks"; the
\* pass is over and its locals are gone
RenderUnlock ==
    /\ wpc = "unlock"
    /\ wpc' = IF pic # NoPic THEN "block" ELSE "top"
    /\ wprov' = NoProvider /\ startRt' = 0 /\ pos' = 0 /\ cur' = 0
    /\ UNCHANGED <<shared, wframe, waits, pic, pc, arg, lookup, history>>

\* EnqueueSubPic(pSubPic, true): wait on m_condQueueFull until there is room
RenderBlock ==
    /\ wpc = "block" /\ lockQ = Free
    /\ IF Room
         THEN Add /\ wpc' = IF Dropped THEN "top" ELSE "notify"
         ELSE wpc' = "full" /\ UNCHANGED <<queue, pic>>
    /\ UNCHANGED <<now, nowLast, frame, inval, rtInval, subPic, provider, track, event, exit, lockQ, lockP,
                   wprov, wframe, waits, startRt, pos, cur, pc, arg, lookup, history>>

RenderNotify ==
    /\ wpc = "notify"
    /\ NotifyReady
    /\ wpc' = "top"
    /\ UNCHANGED <<shared, wprov, wframe, waits, startRt, pos, cur, pic, arg, lookup, history>>

----------------------------------------------------------------------------
Invalidate(t) == InvalidatePurge(t) \/ InvalidateLower(t) \/ InvalidateSignal(t)

ClientCall(c) ==
    \/ \E p \in Provider \cup {NoProvider} : SetSubPicProvider(c, p)
    \/ \E tr \in Tracks, rt \in 0 .. MaxTime : EditSubtitles(c, tr, rt)
    \/ \E f \in FrameTimes : SetFPS(c, f)
    \/ Destroy(c)

ClientStep(c) == Invalidate(c) \/ DestroyProvider(c) \/ DestroyJoin(c)

LookupStep ==
    \/ LookupSearch \/ LookupFound \/ LookupAsk \/ LookupAwait \/ LookupTimeout \/ LookupSave

RendererStep == Invalidate(Renderer) \/ SetTimeCheck \/ SetTimeStamp \/ LookupStep

WorkerStep ==
    \/ RenderTop \/ RenderWait \/ RenderFetch \/ RenderLock \/ RenderTail \/ RenderStart
    \/ RenderPos \/ RenderPicture \/ RenderEnqueue \/ RenderLate
    \/ RenderUnlock \/ RenderBlock \/ RenderNotify
    \/ provider = NoProvider /\ RenderFails("render")

Next ==
    \/ \E c \in Client : ClientCall(c) \/ ClientStep(c)
    \/ \E rt \in 0 .. MaxTime : SetTime(rt)
    \/ LookupReuse
    \/ RendererStep
    \/ WorkerStep
    \/ \E why \in Failures : RenderFails(why)

Spec == Init /\ [][Next]_vars

\* Every thread that can take a step of the call it is in takes it; calls,
\* failures and lookups are up to the environment
Fairness ==
    /\ WF_vars(WorkerStep)
    /\ WF_vars(RendererStep)
    /\ \A c \in Client : WF_vars(ClientStep(c))

FairSpec == Spec /\ Fairness
============================================================================

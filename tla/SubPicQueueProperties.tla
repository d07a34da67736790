----------------------- MODULE SubPicQueueProperties -----------------------
(* What CSubPicQueue must do, whatever order its threads run in.            *)
EXTENDS SubPicQueue

WorkerPlace == {"top", "wait", "fetch", "lock", "tail", "start", "pos", "render", "enqueue",
                "late", "unlock", "block", "full", "notify", "done"}
CallPlace == {"idle", "purge", "lower", "signal", "destroy", "join", "gone", "check",
              "stamp", "search", "found", "ask", "await", "ready", "save"}

\* Every variable holds a value its C++ type and the code allow: m_rtNow is
\* never negative, the worker and the callers are always at a known place.
TypeOK ==
    /\ now \in Nat /\ nowLast \in Time /\ frame \in FrameTimes
    /\ inval \in BOOLEAN /\ rtInval \in Time
    /\ queue \in Seq(SubPic) /\ subPic \in SubPic \cup {NoPic}
    /\ provider \in Provider \cup {NoProvider} /\ track \in [Provider -> Tracks]
    /\ event \in BOOLEAN /\ exit \in BOOLEAN
    /\ lockQ \in Thread \cup {Free} /\ lockP \in Thread \cup {Free}
    /\ wpc \in WorkerPlace
    /\ wprov \in Provider \cup {NoProvider} /\ wframe \in FrameTimes /\ waits \in BOOLEAN
    /\ startRt \in Time /\ pos \in Nat /\ cur \in Nat /\ pic \in SubPic \cup {NoPic}
    /\ pc \in [Thread -> CallPlace]
    /\ arg \in [Thread -> Time]
    /\ clock \in Nat /\ res \in SubPic \cup {NoPic} /\ mayBlock \in BOOLEAN
    /\ edits \in Seq(Time) /\ setTimes \in Nat

----------------------------------------------------------------------------
(* The queue.                                                               *)

\* m_queue never holds more than nSize pictures: the worker tests for room and
\* adds in one critical section, with EnqueueSubPic called in two ways.
QueueBounded == Len(queue) <= Size

\* "We want the queue to stay sorted": the pictures' stop times strictly
\* increase, whatever seeks and invalidations happen while the worker renders.
\* Invalidate depends on it: it pops from the tail until a picture ends in time.
StopsAscend == \A i, j \in 1 .. Len(queue) : i < j => queue[i].stop < queue[j].stop

\* Seen by its stop times alone, the queue behaves as the buffer of TimedBuffer:
\* additions at the end, playback from the front, and Invalidate removing the
\* pictures that end too late, all of them and no other.
Buffer == INSTANCE TimedBuffer
            WITH Capacity <- Size, buf <- [i \in 1 .. Len(queue) |-> queue[i].stop]
ImplementsBuffer == Buffer!Spec

----------------------------------------------------------------------------
(* Lookups.                                                                 *)

\* LookupSubPic returns a picture whose segment contains the time asked for.
ResultShowsClock ==
    pc[Renderer] = "save" /\ res # NoPic => InSegment(res, clock)

\* If the queue holds a picture valid at the time asked for, the search returns
\* one: neither a candidate from an earlier animation frame nor the order of the
\* queue hides it.
LookupFindsExact ==
    [][LookupSearch /\ (\E i \in 1 .. Len(queue) : Exact(queue[i], clock))
        => res' # NoPic /\ Exact(res', clock)]_vars

----------------------------------------------------------------------------
(* Condition variables.                                                     *)

\* When the worker sleeps on m_condQueueFull although there is room, the thread
\* that made the room has yet to notify: no wake-up is lost.
FullNotified ==
    wpc = "full" /\ Room =>
        \/ \E t \in Thread : pc[t] \in {"lower", "signal"}
        \/ pc[Renderer] = "found"

\* When the renderer sleeps on m_condQueueReady although its picture may be there,
\* the worker has yet to notify.
ReadyNotified ==
    pc[Renderer] = "ready" /\ (Len(queue) = Size \/ TailStop > clock) =>
        wpc \in {"late", "notify"}

----------------------------------------------------------------------------
(* Stale pictures: rendered before an edit that changed what they show.     *)

Stale(p) == \E i \in p.seen + 1 .. Len(edits) : edits[i] < p.stop

\* An edit is done, its Invalidate has not yet purged the queue
Pending == \E t \in Thread : pc[t] = "purge"

\* EnqueueSubPic lets a stale picture in only if a later Invalidate, with a
\* greater time than the edit's, has overwritten m_rtInvalidate.
StaleOnlyIfOverwritten ==
    [][Len(queue') > Len(queue) /\ Stale(pic) /\ ~Pending
        => inval /\ \E i \in pic.seen + 1 .. Len(edits) : edits[i] < rtInval]_vars

\* "If we invalidate in the past, always give the queue a chance to re-render the
\* modified subtitles": once Invalidate has purged the queue no stale picture is in it.
NoStaleQueued == ~Pending => \A i \in 1 .. Len(queue) : ~Stale(queue[i])

\* The same for m_pSubPic, which Invalidate releases and lookups use again.
NoStaleShown == ~Pending /\ subPic # NoPic => ~Stale(subPic)

\* "if we seek in the past, we invalidate": a SetTime a frame or more before the
\* previous one, with later pictures in the queue, finds that m_rtNowLast is later.
SeekBackSeen ==
    [][\A rt \in 0 .. MaxTime :
        SetTime(rt) /\ clock - rt >= frame /\ (\E i \in 1 .. Len(queue) : queue[i].start > rt)
            => nowLast - rt >= frame]_vars

\* "If we couldn't enqueue the subpic before, wait for some room in the queue": what
\* the worker adds after its pass is a finished picture that did not fit, so every
\* queued picture has its pixels.
AllDrawn == \A i \in 1 .. Len(queue) : queue[i].drawn

----------------------------------------------------------------------------
(* Progress.                                                                *)

\* ~CSubPicQueue returns: the worker, wherever it waits, is woken and ends.
DestroyEnds == exit ~> \E c \in Client : pc[c] = "gone"

\* Every call of the renderer's thread returns, a blocking lookup included.
CallsEnd == pc[Renderer] # "idle" ~> pc[Renderer] = "idle"

\* The worker does not keep the provider locked, not even when the queue stays
\* full: the decoder and the user interface get the lock.
ProviderUnlocked == Rendering ~> ~Rendering

\* Playback without seeks back: the renderer goes on drawing at the last time set
PlayNext ==
    \/ \E c \in Client : ClientCall(c) \/ ClientStep(c)
    \/ \E rt \in clock .. MaxTime : SetTime(rt)
    \/ LookupReuse
    \/ RendererStep
    \/ WorkerStep
    \/ \E why \in Failures : RenderFails(why)

PlaySpec == Init /\ [][PlayNext]_vars /\ Fairness /\ WF_vars(LookupReuse)

Showable ==
    /\ provider # NoProvider /\ ~exit
    /\ \E i \in 1 .. Len(track[provider]) : Exact(track[provider][i], clock)

Shown == subPic # NoPic /\ InSegment(subPic, clock)

\* A subtitle of the provider that covers the current time is displayed in the end.
EventuallyShown == <>[]Showable => []<>Shown
=============================================================================

--------------------------- MODULE SubPicNoThread ---------------------------
(***************************************************************************)
(* CSubPicQueueNoThread (src/src/SubPic/SubPicQueueImpl.cpp) in its        *)
(* presenter (SubPicAllocatorPresenterImpl.cpp): the subtitle picture is   *)
(* rendered when a frame is painted, by the thread that paints.            *)
(*                                                                         *)
(* Three threads meet.  The renderer's sets the time of each frame and     *)
(* paints; the main thread selects subtitles, switches them off, changes   *)
(* the delay and the style, and paints as well; the decoder's adds texts.  *)
(* Four locks order them: the renderer's m_RenderLock, the main frame's    *)
(* m_csSubLock, which every provider's Lock takes, the queue's             *)
(* m_csSubPicProvider, and the queue's m_csLock, held for one step only.   *)
(*                                                                         *)
(* m_pSubPic is shared: the painting thread renders into the picture       *)
(* others may release meanwhile.  Pictures are therefore numbered objects. *)
(***************************************************************************)
EXTENDS Integers, Sequences

CONSTANTS
    None,        \* no provider, no text, no owner
    Provider,    \* the subtitle streams (ISubPicProvider)
    Tracks,      \* the lists of texts a provider can hold, in time order
    Unknown,     \* ISubPicProvider::UNKNOWN_TIME, a stop not known yet
    SubFrame,    \* m_rtTimePerSubFrame
    WriteOnly,   \* IsDynamicWriteOnly: drawn on the static surface, then copied
    Grows,       \* may a text need a larger texture than the last one?
    Failures,    \* what may go wrong when a picture is rendered
    MaxTime,     \* bound: the latest time lookups ask for
    MaxEdits,    \* bound: changes of a provider's texts
    MaxSwitches  \* bound: changes of the provider

Thread == {"renderer", "main", "decoder"}
Text == [start : Nat, stop : Nat, animated : BOOLEAN, look : Nat]
Sight == [look : Nat, animated : BOOLEAN]

ASSUME NoneAssumption ==
    None \notin Provider /\ None \notin Text /\ None \notin Sight /\ None \notin Thread
ASSUME OptionAssumption ==
    /\ WriteOnly \in BOOLEAN /\ Grows \in BOOLEAN
    /\ Failures \subseteq {"alloc", "static", "clear", "render", "copy"}
    /\ SubFrame \in Nat \ {0} /\ Unknown \in Nat
ASSUME BoundAssumption == MaxTime \in Nat /\ MaxEdits \in Nat /\ MaxSwitches \in Nat
\* What a provider promises: texts in time order and disjoint
ASSUME TrackAssumption ==
    \A tr \in Tracks :
        /\ tr \in Seq(Text)
        /\ \A i \in 1 .. Len(tr) : tr[i].start < tr[i].stop /\ tr[i].start < Unknown
        /\ \A i, j \in 1 .. Len(tr) : i < j => tr[i].stop <= tr[j].start

VARIABLES
    subPic,    \* m_pSubPic: the number of a picture, or 0
    pics,      \* the pictures: times, the look drawn, whose times and whose look they have
    provider,  \* m_pSubPicProviderWithSharedLock->pSubPicProvider
    current,   \* CMainFrame's m_pCurrentSubInput
    track,     \* the texts each provider holds
    now,       \* the presenter's m_rtNow: the frame's time less m_rtSubtitleDelay
    lockR,     \* the owner of m_RenderLock
    lockS,     \* the owner of m_csSubLock
    lockP,     \* the owner of the queue's m_csSubPicProvider between two steps
    pc,        \* where each thread is in its call
    rtNow,     \* the lookup's argument
    local,     \* its pSubPic
    res,       \* its ppSubPic
    from,      \* its pSubPicProvider
    seg,       \* the times it gives the picture
    surface,   \* its pStatic: "none", "raw" before AddRef, "held", or "freed" too early
    canvas,    \* the picture on the static surface
    wanted,    \* the argument of the main thread's SetSubPicProvider
    edit,      \* whose texts each thread changed, and from when
    edits,     \* counts changes of texts
    switches   \* counts changes of the provider

queue == <<subPic, pics, provider>>
texts == <<current, track>>
locks == <<lockR, lockS, lockP>>
lookup == <<rtNow, local, res, from, seg, surface, canvas>>
counts == <<edits, switches>>
vars == <<queue, texts, now, locks, pc, lookup, wanted, edit, counts>>

\* AllocDynamic's picture, no change of texts, a lookup that has not asked for times
Blank == [start |-> 0, stop |-> 0, look |-> 0, drawn |-> FALSE, timing |-> None, content |-> None]
NoEdit == [of |-> None, rt |-> -1]
NoTimes == [start |-> 0, stop |-> 0, animated |-> FALSE]

\* The player has loaded subtitles and selected some
Init ==
    /\ subPic = 0 /\ pics = [i \in {1, 2} |-> Blank] /\ provider \in Provider
    /\ current = provider /\ track \in [Provider -> Tracks]
    /\ now = 0
    /\ lockR = None /\ lockS = None /\ lockP = None
    /\ pc = [t \in Thread |-> "idle"]
    /\ rtNow = 0 /\ local = 0 /\ res = 0 /\ from = None /\ seg = NoTimes
    /\ surface = "none" /\ canvas = Blank
    /\ wanted = None /\ edit = [t \in Thread |-> NoEdit]
    /\ edits = 0 /\ switches = 0

Goto(t, place) == pc' = [pc EXCEPT ![t] = place]

\* A picture nobody refers to is deleted
Referred(by) == pics' = [i \in {1, 2} |-> IF i \in by THEN pics[i] ELSE Blank]

-----------------------------------------------------------------------------
(* Texts and pictures.                                                       *)

\* m_rtStart <= rtNow && rtNow < m_rtStop
InSegment_NotOver(pic, rt) == pic.start <= rt
InSegment(pic, rt) == pic.start <= rt /\ rt < pic.stop

\* GetStartPosition(rt): the first text not over at rt
FirstAt(tr, rt) ==
    LET later == {i \in 1 .. Len(tr) : tr[i].stop > rt}
    IN  IF later = {} THEN None ELSE tr[CHOOSE i \in later : \A j \in later : i <= j]

\* What there is to see at that time: a text's look and whether it moves, or nothing
Seen(tr, rt) ==
    LET text == FirstAt(tr, rt)
    IN  IF text # None /\ text.start <= rt THEN [look |-> text.look, animated |-> text.animated]
                                          ELSE None

\* What Render draws: the look of that time's text, 0 for nothing
LookAt(tr, rt) == LET seen == Seen(tr, rt) IN IF seen = None THEN 0 ELSE seen.look

Smaller(a, b) == IF a <= b THEN a ELSE b

\* The times of a picture of a text: one frame if the end is unknown, a sub-frame of an
\* animation, else the text's
Stop(text, rt) == IF text.stop = Unknown THEN rt + 1 ELSE text.stop
Times(text, rt) ==
    IF text.animated
    THEN [start |-> rt, stop |-> Smaller(rt + SubFrame, Stop(text, rt)), animated |-> TRUE]
    ELSE [start |-> text.start, stop |-> Stop(text, rt), animated |-> FALSE]

\* if (rtStart <= rtNow && rtNow < rtStop)
Covers(text, rt) == InSegment(Times(text, rt), rt)

\* rtRender of RenderTo: in the middle of an animation's sub-frame, else at a time of the text,
\* which all look alike
RenderTime(s) == IF s.animated THEN (s.start + s.stop) \div 2 ELSE s.start

-----------------------------------------------------------------------------
(* CSubPicQueueNoThread::Invalidate, in every thread but the renderer's.     *)

Outdated_ByStart(rt) == pics[subPic].start > rt
Outdated(rt) == pics[subPic].stop > rt

\* Within SetSubPicProvider the queue's m_csSubPicProvider is released next
Invalidate(t) ==
    /\ pc[t] = "invalidate"
    /\ subPic' = IF subPic # 0 /\ Outdated(edit[t].rt) THEN 0 ELSE subPic
    /\ Referred({subPic', local})
    /\ IF lockP = t THEN lockP' = None /\ Goto(t, "paint")
                    ELSE UNCHANGED lockP /\ Goto(t, "idle")
    /\ edit' = [edit EXCEPT ![t] = NoEdit]
    /\ UNCHANGED <<provider, texts, now, lockR, lockS, lookup, wanted, counts>>

-----------------------------------------------------------------------------
(* Changes of texts, under m_csSubLock.                                      *)

\* What texts show before rt stays
SameUntil(tr, old, rt) == \A s \in 0 .. rt - 1 : Seen(tr, s) = Seen(old, s)

\* The decoder adds a text that begins at rt; the main thread changes the style (rt = -1)
EditTexts(t, p, tr, rt) ==
    /\ pc[t] = "idle" /\ lockS = None /\ edits < MaxEdits
    /\ t = "main" => p = current /\ rt = -1
    /\ tr # track[p] /\ SameUntil(tr, track[p], rt)
    /\ track' = [track EXCEPT ![p] = tr]
    /\ edit' = [edit EXCEPT ![t] = [of |-> p, rt |-> rt]]
    /\ edits' = edits + 1
    /\ Goto(t, "announce")
    /\ UNCHANGED <<queue, current, now, locks, lookup, wanted, switches>>

\* CMainFrame::InvalidateSubtitle looks, without a lock, whether the stream is the current one
Announce(t) ==
    /\ pc[t] = "announce"
    /\ IF edit[t].of = current
       THEN Goto(t, "invalidate") /\ UNCHANGED edit
       ELSE Goto(t, "idle") /\ edit' = [edit EXCEPT ![t] = NoEdit]
    /\ UNCHANGED <<queue, texts, now, locks, lookup, wanted, counts>>

-----------------------------------------------------------------------------
(* The main thread.                                                          *)

\* CMainFrame::SetSubtitle: styles the stream and makes it current under m_csSubLock ...
SetSubtitle(p, tr) ==
    /\ pc["main"] = "idle" /\ lockS = None /\ switches < MaxSwitches
    /\ track' = [track EXCEPT ![p] = tr]
    /\ current' = p /\ wanted' = p
    /\ switches' = switches + 1
    /\ Goto("main", "switch")
    /\ UNCHANGED <<queue, now, locks, lookup, edit, edits>>

\* ToggleSubtitleOnOff
SwitchOff ==
    /\ pc["main"] = "idle" /\ switches < MaxSwitches
    /\ wanted' = None
    /\ switches' = switches + 1
    /\ Goto("main", "switch")
    /\ UNCHANGED <<queue, texts, now, locks, lookup, edit, edits>>

\* ... then CSubPicAllocatorPresenterImpl::SetSubPicProvider: FreeStatic releases the static
\* surface, which is gone if nobody holds a reference yet
SwitchFrees ==
    /\ pc["main"] = "switch"
    /\ surface' = IF surface = "raw" THEN "freed" ELSE surface
    /\ Goto("main", "provide")
    /\ UNCHANGED <<queue, texts, now, locks, rtNow, local, res, from, seg, canvas, wanted, edit, counts>>

\* CSubPicQueueImpl::SetSubPicProvider calls Invalidate(-1) with its lock held, and the
\* presenter paints
SwitchProvides ==
    /\ pc["main"] = "provide" /\ lockP = None
    /\ lockP' = "main" /\ provider' = wanted
    /\ edit' = [edit EXCEPT !["main"] = [of |-> wanted, rt |-> -1]]
    /\ wanted' = None
    /\ Goto("main", "invalidate")
    /\ UNCHANGED <<subPic, pics, texts, now, lockR, lockS, lookup, counts>>

-----------------------------------------------------------------------------
(* SetTime, for each frame of the renderer's thread; in the main thread for  *)
(* SetSubtitleDelay, which shifts m_rtNow.  Both paint.                      *)

SetTime(t, rt) ==
    /\ pc[t] = "idle"
    /\ now' = rt
    /\ Goto(t, "paint")
    /\ UNCHANGED <<queue, texts, locks, lookup, wanted, edit, counts>>

-----------------------------------------------------------------------------
(* Paint and LookupSubPic(m_rtNow), in either thread that paints.            *)

Paint(t) ==
    /\ pc[t] = "paint" /\ lockR = None
    /\ lockR' = t /\ rtNow' = now
    /\ Goto(t, "copy")
    /\ UNCHANGED <<queue, texts, now, lockS, lockP, local, res, from, seg, surface, canvas,
                   wanted, edit, counts>>

\* Copies m_pSubPic under m_csLock, and takes it if it fits
LookupCopies(t) ==
    /\ pc[t] = "copy"
    /\ local' = subPic
    /\ IF subPic # 0 /\ InSegment(pics[subPic], rtNow)
       THEN res' = subPic /\ Goto(t, "draw")
       ELSE res' = 0 /\ Goto(t, "fetch")
    /\ UNCHANGED <<queue, texts, now, locks, rtNow, from, seg, surface, canvas, wanted, edit, counts>>

LookupFetches(t) ==
    /\ pc[t] = "fetch" /\ lockP = None
    /\ from' = provider
    /\ Goto(t, IF provider = None THEN "draw" ELSE "lock")
    /\ UNCHANGED <<queue, texts, now, locks, rtNow, local, res, seg, surface, canvas, wanted, edit, counts>>

Drawing == IF WriteOnly THEN "static" ELSE "render"

\* Locks the provider and asks it for the text of the time
LookupLocks(t) ==
    /\ pc[t] = "lock" /\ lockS = None
    /\ lockS' = t
    /\ LET text == FirstAt(track[from], rtNow) IN
       IF text # None /\ Covers(text, rtNow)
       THEN /\ seg' = Times(text, rtNow)
            /\ \/ (local = 0 \/ Grows) /\ Goto(t, "alloc")
               \/ local # 0 /\ Goto(t, Drawing)
       ELSE UNCHANGED seg /\ Goto(t, "unlock")
    /\ UNCHANGED <<queue, texts, now, lockR, lockP, rtNow, local, res, from, surface, canvas,
                   wanted, edit, counts>>

\* AllocDynamic under m_csLock
LookupAllocs(t) ==
    /\ pc[t] = "alloc"
    /\ LET new == CHOOSE i \in {1, 2} : i # local IN
       /\ subPic' = new /\ local' = new
       /\ Referred({})
    /\ Goto(t, Drawing)
    /\ UNCHANGED <<provider, texts, now, locks, rtNow, res, from, seg, surface, canvas, wanted, edit, counts>>

\* ... fails: the provider is unlocked and nothing shown
AllocFailed_Locked(t) == UNCHANGED lockS
AllocFailed(t) == lockS' = None
LookupAllocFails(t) ==
    /\ pc[t] = "alloc" /\ "alloc" \in Failures
    /\ subPic' = 0
    /\ Referred({local})
    /\ AllocFailed(t)
    /\ Goto(t, "draw")
    /\ UNCHANGED <<provider, texts, now, lockR, lockP, lookup, wanted, edit, counts>>

\* CSubPicAllocatorImpl::GetStatic copies the pointer under m_staticLock and calls AddRef after
LookupGetsStatic(t) ==
    /\ pc[t] = "static"
    /\ \/ surface' = "raw" /\ Goto(t, "addref")
       \/ "static" \in Failures /\ UNCHANGED surface /\ Goto(t, "unlock")
    /\ UNCHANGED <<queue, texts, now, locks, rtNow, local, res, from, seg, canvas, wanted, edit, counts>>

LookupAddsRef(t) ==
    /\ pc[t] = "addref"
    /\ surface' = IF surface = "raw" THEN "held" ELSE surface
    /\ Goto(t, "render")
    /\ UNCHANGED <<queue, texts, now, locks, rtNow, local, res, from, seg, canvas, wanted, edit, counts>>

Target(pic) ==
    IF WriteOnly THEN canvas' = pic /\ UNCHANGED pics
                 ELSE pics' = [pics EXCEPT ![local] = pic] /\ UNCHANGED canvas

Rendered ==
    [start |-> seg.start, stop |-> seg.stop, drawn |-> TRUE, timing |-> from, content |-> provider,
     look |-> LookAt(track[provider], RenderTime(seg))]

\* RenderTo asks for the provider once more, clears the picture, renders, and sets the times
\* even if rendering failed
LookupRenders(t) ==
    /\ pc[t] = "render" /\ lockP = None
    /\ \/ /\ provider # None
          /\ Target(Rendered)
          /\ IF WriteOnly THEN UNCHANGED res /\ Goto(t, "copypixels")
                          ELSE res' = local /\ Goto(t, "unlock")
       \/ /\ provider # None /\ "render" \in Failures
          /\ Target([Rendered EXCEPT !.look = 0, !.drawn = FALSE])
          /\ UNCHANGED res /\ Goto(t, "unlock")
       \/ /\ provider # None /\ "clear" \in Failures
          /\ Target([(IF WriteOnly THEN canvas ELSE pics[local]) EXCEPT !.drawn = FALSE])
          /\ UNCHANGED res /\ Goto(t, "unlock")
       \/ /\ provider = None
          /\ UNCHANGED <<pics, canvas, res>> /\ Goto(t, "unlock")
    /\ UNCHANGED <<subPic, provider, texts, now, locks, rtNow, local, from, seg, surface, wanted, edit, counts>>

\* CopyTo copies the times before the pixels
LookupCopiesPixels(t) ==
    /\ pc[t] = "copypixels"
    /\ \/ pics' = [pics EXCEPT ![local] = canvas] /\ res' = local
       \/ /\ "copy" \in Failures
          /\ pics' = [pics EXCEPT ![local] = [canvas EXCEPT !.look = 0, !.drawn = FALSE]]
          /\ UNCHANGED res
    /\ Goto(t, "unlock")
    /\ UNCHANGED <<subPic, provider, texts, now, locks, rtNow, local, from, seg, surface, canvas,
                   wanted, edit, counts>>

LookupUnlocks(t) ==
    /\ pc[t] = "unlock"
    /\ lockS' = None
    /\ Goto(t, "draw")
    /\ UNCHANGED <<queue, texts, now, lockR, lockP, lookup, wanted, edit, counts>>

\* AlphaBltSubPic draws the picture found, and Paint returns
Draw(t) ==
    /\ pc[t] = "draw"
    /\ lockR' = None
    /\ Referred({subPic})
    /\ rtNow' = 0 /\ local' = 0 /\ res' = 0 /\ from' = None /\ seg' = NoTimes
    /\ surface' = "none" /\ canvas' = Blank
    /\ Goto(t, "idle")
    /\ UNCHANGED <<subPic, provider, texts, now, lockS, lockP, wanted, edit, counts>>

-----------------------------------------------------------------------------

LookupStep(t) ==
    \/ Paint(t) \/ LookupCopies(t) \/ LookupFetches(t) \/ LookupLocks(t) \/ LookupAllocs(t)
    \/ LookupAllocFails(t) \/ LookupGetsStatic(t) \/ LookupAddsRef(t) \/ LookupRenders(t)
    \/ LookupCopiesPixels(t) \/ LookupUnlocks(t) \/ Draw(t)

\* What a thread does once it is in a call
CallStep(t) ==
    \/ LookupStep(t) \/ Announce(t) \/ Invalidate(t)
    \/ t = "main" /\ (SwitchFrees \/ SwitchProvides)

Call ==
    \/ \E t \in {"renderer", "main"}, rt \in 0 .. MaxTime : SetTime(t, rt)
    \/ \E t \in {"main", "decoder"}, p \in Provider, tr \in Tracks, rt \in -1 .. MaxTime :
           EditTexts(t, p, tr, rt)
    \/ \E p \in Provider, tr \in Tracks : SetSubtitle(p, tr)
    \/ SwitchOff

Next == Call \/ \E t \in Thread : CallStep(t)

Spec == Init /\ [][Next]_vars
=============================================================================

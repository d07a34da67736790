---------------------- MODULE SubPicNoThreadProperties ----------------------
(* What the queue without a thread must do: show the right text, whatever is *)
(* switched, edited or released while a frame is painted, and let everybody  *)
(* go on.                                                                    *)
EXTENDS SubPicNoThread

LookupPlace == {"copy", "fetch", "lock", "alloc", "static", "addref", "render", "copypixels",
                "unlock", "draw"}
LockedPlace == {"alloc", "static", "addref", "render", "copypixels", "unlock"}
Place == LookupPlace \cup {"idle", "paint", "announce", "invalidate", "switch", "provide"}

Picture == [start : Nat, stop : Nat, look : Nat, drawn : BOOLEAN,
            timing : Provider \cup {None}, content : Provider \cup {None}]

\* Every variable has its type, and each lock is held exactly by the thread whose place in
\* the code says so.
TypeOK ==
    /\ subPic \in 0 .. 2 /\ pics \in [{1, 2} -> Picture] /\ provider \in Provider \cup {None}
    /\ current \in Provider \cup {None} /\ track \in [Provider -> Tracks]
    /\ now \in 0 .. MaxTime
    /\ pc \in [Thread -> Place]
    /\ rtNow \in 0 .. MaxTime /\ local \in 0 .. 2 /\ res \in 0 .. 2 /\ from \in Provider \cup {None}
    /\ seg \in [start : Nat, stop : Nat, animated : BOOLEAN]
    /\ surface \in {"none", "raw", "held", "freed"} /\ canvas \in Picture
    /\ wanted \in Provider \cup {None} /\ edits \in 0 .. MaxEdits /\ switches \in 0 .. MaxSwitches
    /\ edit \in [Thread -> [of : Provider \cup {None}, rt : -1 .. MaxTime]]
    /\ \A t \in Thread :
        /\ lockR = t <=> pc[t] \in LookupPlace
        /\ lockS = t <=> pc[t] \in LockedPlace
        /\ lockP = t => t = "main" /\ pc[t] = "invalidate"

-----------------------------------------------------------------------------
(* The right text.                                                           *)

\* A change is done whose Invalidate has not come, or a switch has begun
Pending ==
    \/ \E t \in {"main", "decoder"} : pc[t] \in {"announce", "invalidate"}
    \/ pc["main"] \in {"switch", "provide"}

\* A picture shows a time's text; where an animation begins it may be up to a sub-frame early
\* or late
Shows(pic, tr, rt) ==
    \/ pic.look = LookAt(tr, rt)
    \/ \E s \in rt - SubFrame + 1 .. rt + SubFrame - 1 :
        /\ FirstAt(tr, rt) # None /\ FirstAt(tr, rt).animated
        /\ pic.look = LookAt(tr, s)

\* A picture whose rendering succeeded with the provider it was begun with
Whole(pic) == pic.drawn /\ pic.timing = pic.content

\* Unless a change is on its way, m_pSubPic shows the texts as they are now for every time
\* at which a lookup would take it: Invalidate released it if it had to, though the picture
\* may have been rendered, or put there, at any moment of the change.
StoredRight ==
    subPic # 0 /\ Whole(pics[subPic]) /\ ~Pending =>
        LET pic == pics[subPic] IN
        /\ pic.content = provider
        /\ \A rt \in pic.start .. pic.stop - 1 : Shows(pic, track[provider], rt)

\* A lookup draws a picture of the time it was asked for, and one that is drawn whole unless
\* it found it ready: a picture others released meanwhile is still valid for this frame.
DrawnInTime ==
    \A t \in Thread : pc[t] = "draw" /\ res # 0 =>
        /\ pics[res].start <= rtNow /\ rtNow < pics[res].stop
        /\ from # None => pics[res].drawn

-----------------------------------------------------------------------------
(* Progress.                                                                 *)

\* Paint, SetSubPicProvider, Invalidate and the changes of texts return: while a thread is in
\* a call, some thread can take the next step of its call (no call repeats a step), whatever
\* locks they nest and however a lookup fails.
NoDeadlock ==
    (\E t \in Thread : pc[t] # "idle") => \E t \in Thread : ENABLED CallStep(t)

-----------------------------------------------------------------------------
(* What the code does not keep.                                              *)

\* Every picture in m_pSubPic that a lookup would take was drawn: AllocDynamic's picture has
\* no times, and a failed lookup returns false.
StoredDrawn == subPic # 0 /\ pics[subPic].start < pics[subPic].stop /\ lockS = None => pics[subPic].drawn

\* The times and the text of a picture come from the same provider.
OneProvider == subPic # 0 /\ pics[subPic].drawn => pics[subPic].timing = pics[subPic].content

\* The static surface a lookup draws on is not released before it has a reference.
SurfaceAlive == surface # "freed"
=============================================================================

------------------------ MODULE SubPicNoThreadProofs ------------------------
(* Proofs about CSubPicQueueNoThread for every value of the constants.      *)
EXTENDS SubPicNoThreadProperties, WellFoundedInduction, TLAPS

-----------------------------------------------------------------------------
(* The texts of a provider.  FirstAt chooses the least of the later texts:  *)
(* that there is one follows from the well-foundedness of <.                *)

LEMMA LeastOf ==
    ASSUME NEW T \in SUBSET Nat, NEW below, NEW x \in T,
           \A n, m \in Nat : <<m, n>> \in below <=> m < n,
           \A y \in T : ~ (<<y, x>> \in below)
    PROVE  \A y \in T : x <= y
  <1> TAKE y \in T
  <1>1. x \in Nat /\ y \in Nat
    OBVIOUS
  <1>2. ~ (y < x)
    BY <1>1, Zenon
  <1> QED
    BY <1>1, <1>2, Z3

\* Every set of numbers that is not empty has a least element
LEMMA LeastNat == ASSUME NEW T \in SUBSET Nat, T # {} PROVE \E x \in T : \A y \in T : x <= y
  <1>1. IsWellFoundedOn(OpToRel(<, Nat), Nat)
    BY NatLessThanWellFounded
  <1>2. PICK x \in T : \A y \in T : ~ (<<y, x>> \in OpToRel(<, Nat))
    BY <1>1, WFMin
  <1>3. \A n, m \in Nat : <<m, n>> \in OpToRel(<, Nat) <=> m < n
    BY DEF OpToRel
  <1>4. \A y \in T : x <= y
    BY <1>2, <1>3, LeastOf, Zenon
  <1> QED
    BY <1>4

\* The i-th text is the first that is not over at rt
IsFirst(tr, rt, i) ==
    /\ i \in 1 .. Len(tr) /\ tr[i].stop > rt
    /\ \A j \in 1 .. Len(tr) : j < i => tr[j].stop <= rt

\* The texts of a track and their times are numbers
LEMMA TrackTexts ==
    ASSUME NEW tr \in Tracks
    PROVE  /\ Len(tr) \in Nat
           /\ \A i \in 1 .. Len(tr) :
                /\ tr[i] \in Text /\ tr[i] # None
                /\ tr[i].start \in Nat /\ tr[i].stop \in Nat /\ tr[i].look \in Nat
                /\ tr[i].animated \in BOOLEAN /\ tr[i].start < tr[i].stop
           /\ \A i, j \in 1 .. Len(tr) : i < j => tr[i].stop <= tr[j].start
  <1>1. tr \in Seq(Text) /\ Len(tr) \in Nat
    BY TrackAssumption
  <1>2. \A i \in 1 .. Len(tr) : tr[i] \in Text
    BY <1>1
  <1> QED
    BY <1>1, <1>2, TrackAssumption, NoneAssumption DEF Text

\* FirstAt returns the first text that is not over ...
LEMMA FirstIs ==
    ASSUME NEW tr \in Tracks, NEW rt \in Int, NEW i \in Nat, IsFirst(tr, rt, i)
    PROVE  FirstAt(tr, rt) = tr[i]
  <1> DEFINE later == {k \in 1 .. Len(tr) : tr[k].stop > rt}
  <1>1. i \in later /\ \A j \in later : i <= j
    BY TrackTexts DEF IsFirst
  <1>2. \A k \in later : (\A j \in later : k <= j) => k = i
    BY <1>1, TrackTexts
  <1>3. (CHOOSE k \in later : \A j \in later : k <= j) = i
    BY <1>1, <1>2
  <1> QED
    BY <1>1, <1>3 DEF FirstAt

\* ... and None only if all are over
LEMMA FirstExists ==
    ASSUME NEW tr \in Tracks, NEW rt \in Int
    PROVE  FirstAt(tr, rt) # None => \E i \in 1 .. Len(tr) : IsFirst(tr, rt, i) /\ FirstAt(tr, rt) = tr[i]
  <1> SUFFICES ASSUME FirstAt(tr, rt) # None
               PROVE  \E i \in 1 .. Len(tr) : IsFirst(tr, rt, i) /\ FirstAt(tr, rt) = tr[i]
    OBVIOUS
  <1> DEFINE later == {k \in 1 .. Len(tr) : tr[k].stop > rt}
  <1>1. later \in SUBSET Nat /\ later # {}
    BY TrackTexts DEF FirstAt
  <1>2. PICK i \in later : \A j \in later : i <= j
    BY <1>1, LeastNat
  <1>3. \A j \in 1 .. Len(tr) : j < i => tr[j].stop <= rt
    BY <1>2, TrackTexts
  <1>4. IsFirst(tr, rt, i)
    BY <1>2, <1>3 DEF IsFirst
  <1> QED
    BY <1>2, <1>4, FirstIs

\* A text that is shown at a time is the first then
LEMMA FirstShown ==
    ASSUME NEW tr \in Tracks, NEW rt \in Int, NEW i \in 1 .. Len(tr),
           tr[i].start <= rt, rt < tr[i].stop
    PROVE  FirstAt(tr, rt) = tr[i]
  <1>1. IsFirst(tr, rt, i)
    BY TrackTexts DEF IsFirst
  <1> QED
    BY <1>1, FirstIs

\* What FirstAt and LookAt return
LEMMA FirstType ==
    ASSUME NEW tr \in Tracks, NEW rt \in Int
    PROVE  /\ FirstAt(tr, rt) # None => FirstAt(tr, rt) \in Text
           /\ LookAt(tr, rt) \in Nat
  <1>1. FirstAt(tr, rt) # None => FirstAt(tr, rt) \in Text
    BY FirstExists, TrackTexts
  <1>2. Seen(tr, rt) # None => Seen(tr, rt).look \in Nat
    BY <1>1 DEF Seen, Text
  <1> QED
    BY <1>1, <1>2 DEF LookAt

LEMMA TimesType ==
    ASSUME NEW text \in Text, NEW rt \in Nat
    PROVE  Times(text, rt) \in [start : Nat, stop : Nat, animated : BOOLEAN]
  BY OptionAssumption DEF Times, Stop, Smaller, Text

-----------------------------------------------------------------------------
(* What a lookup knows: its provider once it waits for the provider's lock, *)
(* no picture found until one is drawn, the times of the text it found as   *)
(* long as the provider is locked, and that its picture is of its time.     *)

Searching == {"copy", "fetch", "lock", "alloc", "static", "addref", "render", "copypixels"}

Timed(pic) == InSegment(pic, rtNow)

Found ==
    LET text == FirstAt(track[from], rtNow) IN
    text # None /\ Covers(text, rtNow) /\ seg = Times(text, rtNow)

LookupInv ==
    /\ lockR = None => res = 0 /\ from = None
    /\ \A t \in Thread :
        /\ pc[t] \in Searching => res = 0
        /\ pc[t] = "copy" => from = None
        /\ pc[t] \in {"lock"} \cup LockedPlace => from \in Provider
        /\ pc[t] \in {"alloc", "static", "addref", "render"} => Found
        /\ pc[t] = "copypixels" => Timed(canvas) /\ canvas.drawn
    /\ res # 0 => res = local /\ Timed(pics[res]) /\ (from # None => pics[res].drawn)

-----------------------------------------------------------------------------
(* Types, and who holds which lock.                                         *)

LEMMA InitType == Init => TypeOK
  <1> SUFFICES ASSUME Init PROVE TypeOK
    OBVIOUS
  <1>1. Blank \in Picture
    BY DEF Blank, Picture
  <1>2. NoEdit \in [of : Provider \cup {None}, rt : -1 .. MaxTime]
    BY BoundAssumption DEF NoEdit
  <1>3. \A t \in Thread : t # None
    BY NoneAssumption
  <1> QED
    BY <1>1, <1>2, <1>3, BoundAssumption
       DEF Init, TypeOK, NoTimes, Place, LookupPlace, LockedPlace

\* What RenderTo draws is a picture
LEMMA RenderedType == ASSUME TypeOK, provider # None PROVE Rendered \in Picture
  <1>1. RenderTime(seg) \in Int
    BY DEF TypeOK, RenderTime
  <1>2. LookAt(track[provider], RenderTime(seg)) \in Nat
    BY <1>1, FirstType DEF TypeOK
  <1> QED
    BY <1>2 DEF TypeOK, Rendered, Picture

\* The pictures and what a lookup knows keep their types
LEMMA NextLookupType ==
    ASSUME TypeOK, LookupInv, NEW t \in Thread, LookupStep(t)
    PROVE  TypeOK'
  <1> USE BoundAssumption, NoneAssumption DEF TypeOK, Goto, Place, LookupPlace, LockedPlace, queue, texts, locks,
          lookup, counts
  <1>1. Blank \in Picture
    BY DEF Blank, Picture
  <1>2. ASSUME NEW by, Referred(by) PROVE pics' \in [{1, 2} -> Picture]
    BY <1>1, <1>2 DEF Referred
  <1>3. CASE Paint(t)
    BY <1>3 DEF Paint
  <1>4. CASE LookupCopies(t)
    BY <1>4 DEF LookupCopies
  <1>5. CASE LookupFetches(t)
    BY <1>5 DEF LookupFetches
  <1>6. CASE LookupLocks(t)
    <2>1. /\ pc[t] = "lock" /\ lockS = None /\ lockS' = t
          /\ \E place \in {"alloc", "static", "render", "unlock"} : pc' = [pc EXCEPT ![t] = place]
      BY <1>6 DEF LookupLocks, Drawing
    <2>2. seg' \in [start : Nat, stop : Nat, animated : BOOLEAN]
      <3>1. SUFFICES ASSUME FirstAt(track[from], rtNow) # None
                     PROVE  Times(FirstAt(track[from], rtNow), rtNow)
                                \in [start : Nat, stop : Nat, animated : BOOLEAN]
        BY <1>6 DEF LookupLocks
      <3>2. track[from] \in Tracks
        BY <2>1 DEF LookupInv
      <3>3. FirstAt(track[from], rtNow) \in Text
        BY <3>1, <3>2, FirstType
      <3> QED
        BY <3>3, TimesType
    <2> QED
      BY <1>6, <2>1, <2>2 DEF LookupLocks
  <1>7. CASE LookupAllocs(t)
    <2> DEFINE new == CHOOSE i \in {1, 2} : i # local
    <2>1. new \in {1, 2}
      OBVIOUS
    <2>2. subPic' \in 0 .. 2 /\ local' \in 0 .. 2
      BY <1>7, <2>1 DEF LookupAllocs
    <2>3. pics' \in [{1, 2} -> Picture]
      BY <1>2, <1>7 DEF LookupAllocs
    <2>4. pc[t] = "alloc" /\ pc' = [pc EXCEPT ![t] = Drawing] /\ Drawing \in {"static", "render"}
      BY <1>7 DEF LookupAllocs, Drawing
    <2> HIDE DEF Drawing
    <2> QED
      BY <1>7, <2>2, <2>3, <2>4 DEF LookupAllocs
  <1>8. CASE LookupAllocFails(t)
    <2>1. pics' \in [{1, 2} -> Picture]
      BY <1>2, <1>8 DEF LookupAllocFails
    <2> QED
      BY <1>8, <2>1 DEF LookupAllocFails, AllocFailed
  <1>9. CASE LookupGetsStatic(t)
    <2>1. /\ pc[t] = "static" /\ surface' \in {"none", "raw", "held", "freed"}
          /\ pc' = [pc EXCEPT ![t] = "addref"] \/ pc' = [pc EXCEPT ![t] = "unlock"]
      BY <1>9 DEF LookupGetsStatic
    <2> QED
      BY <1>9, <2>1 DEF LookupGetsStatic
  <1>10. CASE LookupAddsRef(t)
    BY <1>10 DEF LookupAddsRef
  <1>11. CASE LookupRenders(t)
    <2>2. ASSUME NEW pic \in Picture, Target(pic) PROVE pics' \in [{1, 2} -> Picture] /\ canvas' \in Picture
      BY <2>2 DEF Target
    <2>3. pics' \in [{1, 2} -> Picture] /\ canvas' \in Picture
      <3>1. CASE provider = None
        BY <1>11, <3>1 DEF LookupRenders
      <3>2. CASE provider # None
        <4>1. Rendered \in Picture
          BY <3>2, RenderedType
        <4>2. [Rendered EXCEPT !.look = 0, !.drawn = FALSE] \in Picture
          BY <4>1 DEF Picture
        <4>3. ASSUME NEW pic \in Picture PROVE [pic EXCEPT !.drawn = FALSE] \in Picture
          BY DEF Picture
        <4>4. CASE Target(Rendered) \/ Target([Rendered EXCEPT !.look = 0, !.drawn = FALSE])
          BY <2>2, <4>1, <4>2, <4>4
        <4>5. CASE Target([(IF WriteOnly THEN canvas ELSE pics[local]) EXCEPT !.drawn = FALSE])
          <5>1. CASE WriteOnly
            BY <2>2, <4>3, <4>5, <5>1
          <5>2. CASE ~ WriteOnly /\ local # 0
            BY <2>2, <4>3, <4>5, <5>2
          <5>3. CASE ~ WriteOnly /\ local = 0
            BY <4>5, <5>3 DEF Target
          <5> QED
            BY <5>1, <5>2, <5>3
        <4> QED
          BY <1>11, <3>2, <4>4, <4>5 DEF LookupRenders
      <3> QED
        BY <3>1, <3>2
    <2>4. /\ pc[t] = "render" /\ res' \in 0 .. 2
          /\ pc' = [pc EXCEPT ![t] = "unlock"] \/ pc' = [pc EXCEPT ![t] = "copypixels"]
      BY <1>11 DEF LookupRenders
    <2> QED
      BY <1>11, <2>3, <2>4 DEF LookupRenders
  <1>12. CASE LookupCopiesPixels(t)
    <2>1. [canvas EXCEPT !.look = 0, !.drawn = FALSE] \in Picture
      BY DEF Picture
    <2>2. pics' \in [{1, 2} -> Picture]
      BY <1>12, <2>1 DEF LookupCopiesPixels
    <2>3. pc[t] = "copypixels" /\ res' \in 0 .. 2 /\ pc' = [pc EXCEPT ![t] = "unlock"]
      BY <1>12 DEF LookupCopiesPixels
    <2> QED
      BY <1>12, <2>2, <2>3 DEF LookupCopiesPixels
  <1>13. CASE LookupUnlocks(t)
    BY <1>13 DEF LookupUnlocks
  <1>14. CASE Draw(t)
    <2>1. pics' \in [{1, 2} -> Picture]
      BY <1>2, <1>14 DEF Draw
    <2> QED
      BY <1>1, <1>14, <2>1 DEF Draw, NoTimes
  <1> QED
    BY <1>3, <1>4, <1>5, <1>6, <1>7, <1>8, <1>9, <1>10, <1>11, <1>12, <1>13, <1>14 DEF LookupStep

LEMMA NextType == ASSUME TypeOK, LookupInv, [Next]_vars PROVE TypeOK'
  <1> USE BoundAssumption, NoneAssumption DEF TypeOK, Goto, Place, LookupPlace, LockedPlace, queue, texts, locks,
          lookup, counts
  <1>1. NoEdit \in [of : Provider \cup {None}, rt : -1 .. MaxTime]
    BY DEF NoEdit
  <1>2. ASSUME NEW t \in {"renderer", "main"}, NEW rt \in 0 .. MaxTime, SetTime(t, rt) PROVE TypeOK'
    BY <1>2 DEF SetTime, Thread
  <1>3. ASSUME NEW t \in {"main", "decoder"}, NEW p \in Provider, NEW tr \in Tracks,
               NEW rt \in -1 .. MaxTime, EditTexts(t, p, tr, rt)
        PROVE  TypeOK'
    <2>1. t \in Thread /\ [of |-> p, rt |-> rt] \in [of : Provider \cup {None}, rt : -1 .. MaxTime]
      BY DEF Thread
    <2>2. edits' \in 0 .. MaxEdits
      BY <1>3 DEF EditTexts
    <2> QED
      BY <1>3, <2>1, <2>2 DEF EditTexts
  <1>4. ASSUME NEW p \in Provider, NEW tr \in Tracks, SetSubtitle(p, tr) PROVE TypeOK'
    BY <1>4 DEF SetSubtitle, Thread
  <1>5. CASE SwitchOff
    BY <1>5 DEF SwitchOff, Thread
  <1>6. ASSUME NEW t \in Thread, LookupStep(t) PROVE TypeOK'
    BY <1>6, NextLookupType
  <1>7. ASSUME NEW t \in Thread, Announce(t) PROVE TypeOK'
    BY <1>1, <1>7 DEF Announce
  <1>8. ASSUME NEW t \in Thread, Invalidate(t) PROVE TypeOK'
    <2>1. pics' \in [{1, 2} -> Picture] /\ subPic' \in 0 .. 2
      BY <1>8 DEF Invalidate, Referred, Blank, Picture
    <2>2. CASE lockP = t
      BY <1>1, <1>8, <2>1, <2>2 DEF Invalidate
    <2>3. CASE lockP # t
      BY <1>1, <1>8, <2>1, <2>3 DEF Invalidate
    <2> QED
      BY <2>2, <2>3
  <1>9. CASE SwitchFrees
    BY <1>9 DEF SwitchFrees, Thread
  <1>10. CASE SwitchProvides
    <2>1. [of |-> wanted, rt |-> -1] \in [of : Provider \cup {None}, rt : -1 .. MaxTime]
      OBVIOUS
    <2> QED
      BY <1>10, <2>1 DEF SwitchProvides, Thread
  <1>11. CASE UNCHANGED vars
    BY <1>11 DEF vars
  <1> QED
    BY <1>2, <1>3, <1>4, <1>5, <1>6, <1>7, <1>8, <1>9, <1>10, <1>11 DEF Next, Call, CallStep

-----------------------------------------------------------------------------
(* A picture that is drawn is of the lookup's time.                         *)

LEMMA InitLookup == Init => LookupInv
  BY NoneAssumption DEF Init, LookupInv, Searching, LockedPlace

\* The painting thread is alone in the lookup
LEMMA OneLookup ==
    ASSUME TypeOK, NEW t \in Thread, NEW u \in Thread, pc[t] \in LookupPlace, pc[u] \in LookupPlace
    PROVE  t = u
  BY DEF TypeOK

\* Who is not in the lookup disturbs only pictures that nobody looks at
LEMMA OthersLookup ==
    ASSUME TypeOK, LookupInv,
           UNCHANGED <<lockR, rtNow, local, res, from, seg, canvas>>,
           \A t \in Thread : pc[t] \in LookupPlace \/ pc'[t] \in LookupPlace => pc'[t] = pc[t],
           local # 0 => pics'[local] = pics[local],
           lockS # None => track' = track
    PROVE  LookupInv'
  <1>1. Found => (lockS # None => Found')
    BY DEF Found, Times, Covers, Stop, InSegment
  <1>2. ASSUME NEW t \in Thread, pc[t] \in {"alloc", "static", "addref", "render"} PROVE lockS # None
    BY <1>2, NoneAssumption DEF TypeOK, LockedPlace
  <1> QED
    BY <1>1, <1>2 DEF LookupInv, Searching, LookupPlace, LockedPlace, Timed, InSegment

LEMMA NextLookup == ASSUME TypeOK, LookupInv, [Next]_vars PROVE LookupInv'
  <1> USE DEF Goto, queue, texts, locks, lookup, counts
  <1>1. ASSUME NEW t \in {"renderer", "main"}, NEW rt \in 0 .. MaxTime, SetTime(t, rt) PROVE LookupInv'
    BY <1>1, OthersLookup DEF SetTime, TypeOK, LookupPlace
  <1>2. ASSUME NEW t \in {"main", "decoder"}, NEW p \in Provider, NEW tr \in Tracks,
               NEW rt \in -1 .. MaxTime, EditTexts(t, p, tr, rt)
        PROVE  LookupInv'
    BY <1>2, OthersLookup DEF EditTexts, TypeOK, LookupPlace
  <1>3. ASSUME NEW p \in Provider, NEW tr \in Tracks, SetSubtitle(p, tr) PROVE LookupInv'
    BY <1>3, OthersLookup DEF SetSubtitle, TypeOK, LookupPlace
  <1>4. CASE SwitchOff
    BY <1>4, OthersLookup DEF SwitchOff, TypeOK, LookupPlace
  <1>5. CASE SwitchFrees
    BY <1>5, OthersLookup DEF SwitchFrees, TypeOK, LookupPlace
  <1>6. CASE SwitchProvides
    BY <1>6, OthersLookup DEF SwitchProvides, TypeOK, LookupPlace
  <1>7. ASSUME NEW t \in Thread, Announce(t) PROVE LookupInv'
    BY <1>7, OthersLookup DEF Announce, TypeOK, LookupPlace
  <1>8. ASSUME NEW t \in Thread, Invalidate(t) PROVE LookupInv'
    <2>1. local # 0 => pics'[local] = pics[local]
      BY <1>8 DEF Invalidate, Referred, TypeOK
    <2>2. \A u \in Thread : pc[u] \in LookupPlace \/ pc'[u] \in LookupPlace => pc'[u] = pc[u]
      BY <1>8 DEF Invalidate, TypeOK, LookupPlace
    <2> QED
      BY <1>8, <2>1, <2>2, OthersLookup DEF Invalidate
  <1>9. ASSUME NEW t \in Thread, LookupStep(t) PROVE LookupInv'
    <2> USE <1>9, OneLookup, NoneAssumption DEF TypeOK, LookupInv, LookupPlace, LockedPlace, Searching
    <2>1. CASE Paint(t)
      BY <2>1 DEF Paint
    <2>2. CASE LookupCopies(t)
      BY <2>2 DEF LookupCopies, Timed, InSegment
    <2>3. CASE LookupFetches(t)
      BY <2>3 DEF LookupFetches
    <2>4. CASE LookupLocks(t)
      BY <2>4 DEF LookupLocks, Found, Covers, Times, Stop, InSegment, Drawing
    <2>5. CASE LookupAllocs(t)
      BY <2>5 DEF LookupAllocs, Found, Covers, Times, Stop, InSegment, Drawing
    <2>6. CASE LookupAllocFails(t)
      BY <2>6 DEF LookupAllocFails
    <2>7. CASE LookupGetsStatic(t)
      BY <2>7 DEF LookupGetsStatic, Found, Covers, Times, Stop, InSegment
    <2>8. CASE LookupAddsRef(t)
      BY <2>8 DEF LookupAddsRef, Found, Covers, Times, Stop, InSegment
    <2>9. CASE LookupRenders(t)
      BY <2>9 DEF LookupRenders, Found, Covers, Timed, InSegment, Rendered, Target
    <2>10. CASE LookupCopiesPixels(t)
      BY <2>10 DEF LookupCopiesPixels, Timed, InSegment
    <2>11. CASE LookupUnlocks(t)
      BY <2>11 DEF LookupUnlocks, Timed, InSegment
    <2>12. CASE Draw(t)
      BY <2>12 DEF Draw
    <2> QED
      BY <2>1, <2>2, <2>3, <2>4, <2>5, <2>6, <2>7, <2>8, <2>9, <2>10, <2>11, <2>12 DEF LookupStep
  <1>10. CASE UNCHANGED vars
    BY <1>10, OthersLookup DEF vars
  <1> QED
    BY <1>1, <1>2, <1>3, <1>4, <1>5, <1>6, <1>7, <1>8, <1>9, <1>10 DEF Next, Call, CallStep

\* CSubPicQueueNoThread keeps its types, and each of the renderer's, the main frame's and the
\* queue's lock belongs to the thread whose place in the code says so.
THEOREM LocksMatchPlaces == Spec => []TypeOK
  <1>1. Init => TypeOK /\ LookupInv
    BY InitType, InitLookup
  <1>2. TypeOK /\ LookupInv /\ [Next]_vars => (TypeOK /\ LookupInv)'
    BY NextType, NextLookup
  <1> QED
    BY <1>1, <1>2, PTL DEF Spec

\* Paint draws a picture of the time it looked up, and one drawn whole unless it found it
\* ready, whoever releases pictures, edits or switches subtitles meanwhile.
THEOREM LookupInTime == Spec => []DrawnInTime
  <1>1. Init => TypeOK /\ LookupInv
    BY InitType, InitLookup
  <1>2. TypeOK /\ LookupInv /\ [Next]_vars => (TypeOK /\ LookupInv)'
    BY NextType, NextLookup
  <1>3. LookupInv => DrawnInTime
    BY DEF LookupInv, DrawnInTime, Timed, InSegment
  <1> QED
    BY <1>1, <1>2, <1>3, PTL DEF Spec

-----------------------------------------------------------------------------
(* The stored picture is right.  A picture fits a track if it looks like    *)
(* every time it is used for; or it is of a sub-frame in which an animation *)
(* begins, and looks like some time of it.  This asks only what is seen at  *)
(* the picture's own times, so an edit from its end on keeps it.            *)

Fits(pic, tr) ==
    LET times == pic.start .. pic.stop - 1 IN
    \/ \A rt \in times : LookAt(tr, rt) = pic.look
    \/ /\ pic.stop <= pic.start + SubFrame
       /\ \E rt \in times : LookAt(tr, rt) = pic.look
       /\ \E b \in times : \A rt \in times :
             IF rt < b THEN Seen(tr, rt) = None ELSE Seen(tr, rt) # None /\ Seen(tr, rt).animated

\* What is seen while a text is the first one
LEMMA SeenText ==
    ASSUME NEW tr \in Tracks, NEW rt \in Int, NEW i \in 1 .. Len(tr), FirstAt(tr, rt) = tr[i]
    PROVE  /\ rt < tr[i].start => Seen(tr, rt) = None /\ LookAt(tr, rt) = 0
           /\ tr[i].start <= rt =>
                /\ Seen(tr, rt) # None /\ Seen(tr, rt).animated = tr[i].animated
                /\ LookAt(tr, rt) = tr[i].look
  <1>1. tr[i] # None /\ tr[i].start \in Nat
    BY TrackTexts
  <1>2. [look |-> tr[i].look, animated |-> tr[i].animated] \in Sight
    BY TrackTexts DEF Sight
  <1>3. [look |-> tr[i].look, animated |-> tr[i].animated] # None
    BY <1>2, NoneAssumption
  <1> QED
    BY <1>1, <1>3 DEF Seen, LookAt

\* What RenderTo draws for the times of a text fits
LEMMA RenderedFits ==
    ASSUME NEW tr \in Tracks, NEW rt \in Nat, FirstAt(tr, rt) # None, Covers(FirstAt(tr, rt), rt),
           NEW pic, pic.start = Times(FirstAt(tr, rt), rt).start, pic.stop = Times(FirstAt(tr, rt), rt).stop,
           pic.look = LookAt(tr, RenderTime(Times(FirstAt(tr, rt), rt)))
    PROVE  Fits(pic, tr)
  <1>1. PICK i \in 1 .. Len(tr) : IsFirst(tr, rt, i) /\ FirstAt(tr, rt) = tr[i]
    BY FirstExists
  <1> DEFINE text == tr[i]
  <1>2. /\ text.start \in Nat /\ text.stop \in Nat /\ text.animated \in BOOLEAN /\ Unknown \in Nat
        /\ rt < text.stop /\ SubFrame \in Nat /\ SubFrame > 0
    BY <1>1, TrackTexts, OptionAssumption DEF IsFirst
  <1>3. Stop(text, rt) \in Nat /\ rt < Stop(text, rt) /\ Stop(text, rt) <= text.stop
    BY <1>2 DEF Stop
  <1>4. CASE ~ text.animated
    <2>1. pic.start = text.start /\ pic.stop = Stop(text, rt) /\ text.start <= rt
      BY <1>1, <1>2, <1>4 DEF Times, Covers, InSegment
    <2>2. ASSUME NEW x \in pic.start .. pic.stop - 1 PROVE LookAt(tr, x) = text.look
      <3>1. x \in Int /\ text.start <= x /\ x < text.stop
        BY <1>2, <1>3, <2>1
      <3> QED
        BY <3>1, FirstShown, SeenText
    <2>3. pic.look = LookAt(tr, text.start) /\ text.start \in pic.start .. pic.stop - 1
      BY <1>1, <1>2, <1>3, <1>4, <2>1 DEF Times, RenderTime
    <2> QED
      BY <2>2, <2>3 DEF Fits
  <1>5. CASE text.animated
    <2> DEFINE mid == (rt + pic.stop) \div 2
    <2>1. /\ pic.start = rt /\ pic.stop \in Nat /\ rt < pic.stop
          /\ pic.stop <= rt + SubFrame /\ pic.stop <= text.stop
      BY <1>1, <1>2, <1>3, <1>5 DEF Times, Smaller
    <2>2. pic.look = LookAt(tr, mid) /\ mid \in pic.start .. pic.stop - 1
      BY <1>1, <1>5, <2>1 DEF Times, RenderTime
    <2>3. ASSUME NEW x \in pic.start .. pic.stop - 1 PROVE x \in Int /\ FirstAt(tr, x) = text
      <3>1. x \in Int /\ rt <= x /\ x < text.stop
        BY <1>2, <2>1
      <3>2. IsFirst(tr, x, i)
        BY <1>1, <3>1, TrackTexts DEF IsFirst
      <3> QED
        BY <3>1, <3>2, FirstIs
    <2>4. CASE text.start < pic.stop
      <3> DEFINE b == IF rt < text.start THEN text.start ELSE rt
      <3>1. b \in pic.start .. pic.stop - 1
        BY <1>2, <2>1, <2>4
      <3>2. ASSUME NEW x \in pic.start .. pic.stop - 1
            PROVE  IF x < b THEN Seen(tr, x) = None ELSE Seen(tr, x) # None /\ Seen(tr, x).animated
        <4>1. x < b => x < text.start
          BY <1>2, <2>1
        <4>2. ~ (x < b) => text.start <= x
          BY <1>2, <2>1
        <4> QED
          BY <1>5, <2>3, <4>1, <4>2, SeenText
      <3> HIDE DEF b, mid
      <3> QED
        BY <2>1, <2>2, <3>1, <3>2 DEF Fits
    <2>5. CASE pic.stop <= text.start
      <3>1. ASSUME NEW x \in pic.start .. pic.stop - 1 PROVE LookAt(tr, x) = 0
        BY <1>2, <2>1, <2>3, <2>5, SeenText
      <3> HIDE DEF mid
      <3> QED
        BY <2>2, <3>1 DEF Fits
    <2> QED
      BY <1>2, <2>1, <2>4, <2>5
  <1> QED
    BY <1>2, <1>4, <1>5

\* An edit from a picture's end on keeps it
LEMMA EditKeeps ==
    ASSUME NEW tr \in Tracks, NEW old \in Tracks, NEW rt \in Int, SameUntil(tr, old, rt),
           NEW pic \in Picture, pic.stop <= rt, Fits(pic, old)
    PROVE  Fits(pic, tr)
  <1>1. \A x \in pic.start .. pic.stop - 1 : Seen(tr, x) = Seen(old, x)
    BY DEF SameUntil, Picture
  <1>2. \A x \in pic.start .. pic.stop - 1 : LookAt(tr, x) = LookAt(old, x)
    BY <1>1 DEF LookAt
  <1> QED
    BY <1>1, <1>2 DEF Fits

\* Before an animation begins its text is already the first one
LEMMA FirstBefore ==
    ASSUME NEW tr \in Tracks, NEW rt \in Nat, NEW b \in Nat, rt <= b, Seen(tr, b) # None,
           \A x \in rt .. b - 1 : Seen(tr, x) = None
    PROVE  FirstAt(tr, rt) = FirstAt(tr, b)
  <1>1. FirstAt(tr, b) # None /\ FirstAt(tr, b).start <= b
    BY DEF Seen
  <1>2. PICK i \in 1 .. Len(tr) : IsFirst(tr, b, i) /\ FirstAt(tr, b) = tr[i]
    BY <1>1, FirstExists
  <1>3. ASSUME NEW j \in 1 .. Len(tr), j < i, rt < tr[j].stop PROVE FALSE
    <2>1. tr[j].stop <= b /\ tr[j].start < tr[j].stop /\ tr[j].start \in Nat /\ tr[j].stop \in Nat
      BY <1>2, <1>3, TrackTexts DEF IsFirst
    <2> DEFINE x == tr[j].stop - 1
    <2>2. x \in rt .. b - 1 /\ x \in Int /\ tr[j].start <= x /\ x < tr[j].stop
      BY <1>3, <2>1
    <2>3. Seen(tr, x) # None
      BY <2>2, FirstShown, SeenText
    <2> QED
      BY <2>2, <2>3
  <1>4. \A j \in 1 .. Len(tr) : j < i => tr[j].stop <= rt
    BY <1>3, TrackTexts
  <1>5. rt < tr[i].stop
    BY <1>2, TrackTexts DEF IsFirst
  <1>6. IsFirst(tr, rt, i)
    BY <1>4, <1>5 DEF IsFirst
  <1> QED
    BY <1>2, <1>6, FirstIs

\* A picture that fits shows each of its times
LEMMA FitsShows ==
    ASSUME NEW tr \in Tracks, NEW pic \in Picture, Fits(pic, tr), NEW rt \in pic.start .. pic.stop - 1
    PROVE  Shows(pic, tr, rt)
  <1>1. CASE \A x \in pic.start .. pic.stop - 1 : LookAt(tr, x) = pic.look
    BY <1>1 DEF Shows
  <1>2. CASE ~ \A x \in pic.start .. pic.stop - 1 : LookAt(tr, x) = pic.look
    <2> DEFINE times == pic.start .. pic.stop - 1
    <2>1. pic.start \in Nat /\ pic.stop \in Nat /\ rt \in Nat
      BY DEF Picture
    <2>2. PICK b \in times : \A x \in times :
              IF x < b THEN Seen(tr, x) = None ELSE Seen(tr, x) # None /\ Seen(tr, x).animated
      BY <1>2 DEF Fits
    <2>3. PICK s \in times : LookAt(tr, s) = pic.look
      BY <1>2 DEF Fits
    <2>4. s \in rt - SubFrame + 1 .. rt + SubFrame - 1
      BY <1>2, <2>1, OptionAssumption DEF Fits
    <2>5. FirstAt(tr, rt) # None /\ FirstAt(tr, rt).animated
      <3>1. CASE b <= rt
        BY <2>1, <2>2, <3>1 DEF Seen
      <3>2. CASE rt < b
        <4>1. Seen(tr, b) # None /\ Seen(tr, b).animated
          BY <2>1, <2>2
        <4>2. FirstAt(tr, b) # None /\ FirstAt(tr, b).animated
          BY <4>1 DEF Seen
        <4>3. \A x \in rt .. b - 1 : Seen(tr, x) = None
          BY <2>1, <2>2, <3>2
        <4>4. FirstAt(tr, rt) = FirstAt(tr, b)
          BY <2>1, <3>2, <4>1, <4>3, FirstBefore
        <4> QED
          BY <4>2, <4>4
      <3> QED
        BY <2>1, <3>1, <3>2
    <2> QED
      BY <2>3, <2>4, <2>5 DEF Shows
  <1> QED
    BY <1>1, <1>2

-----------------------------------------------------------------------------
(* The provider is the current stream's or none, and the stored picture is  *)
(* of it, unless a switch is under way: its Invalidate(-1) releases every   *)
(* picture.  An edit leaves a picture that fits no longer only until its    *)
(* Invalidate, which releases it.                                           *)

Choosing == pc["main"] \in {"switch", "provide"}
Switching == Choosing \/ lockP = "main"

\* An edit has outdated the picture and will release it
Doomed(pic) ==
    \E t \in {"main", "decoder"} :
        pc[t] \in {"announce", "invalidate"} /\ edit[t].of = pic.content /\ pic.stop > edit[t].rt

OfProvider(pic) == pic.content = provider /\ pic.content \in Provider

StoreInv ==
    /\ Choosing => wanted \in {current, None}
    /\ ~ Choosing => provider \in {current, None}
    /\ lockP = "main" => edit["main"].rt = -1
    /\ subPic # 0 /\ Whole(pics[subPic]) /\ ~ Switching =>
         /\ OfProvider(pics[subPic])
         /\ Fits(pics[subPic], track[pics[subPic].content]) \/ Doomed(pics[subPic])
    /\ \A t \in Thread :
         pc[t] = "copypixels" /\ subPic # 0 /\ subPic = local /\ Whole(canvas) /\ ~ Switching =>
             OfProvider(canvas) /\ Fits(canvas, track[canvas.content])

LEMMA InitStore == Init => StoreInv
  BY NoneAssumption DEF Init, StoreInv, Choosing, Thread

\* A step of a lookup changes nothing but the pictures
LEMMA LookupStore ==
    ASSUME TypeOK, LookupInv, StoreInv, NEW t \in Thread, LookupStep(t)
    PROVE  StoreInv'
  <1> USE DEF Goto, queue, texts, locks, lookup, counts
  <1>1. /\ UNCHANGED <<provider, current, track, lockP, wanted, edit>>
        /\ pc[t] \in LookupPlace \cup {"paint"} /\ \A u \in Thread : u # t => pc'[u] = pc[u]
        /\ pc'[t] \in LookupPlace \cup {"idle"}
    BY DEF LookupStep, Paint, LookupCopies, LookupFetches, LookupLocks, LookupAllocs, LookupAllocFails,
           LookupGetsStatic, LookupAddsRef, LookupRenders, LookupCopiesPixels, LookupUnlocks, Draw,
           TypeOK, LookupPlace, Drawing
  <1>2. /\ Choosing' <=> Choosing
        /\ Switching' <=> Switching
        /\ \A pic : Doomed(pic)' <=> Doomed(pic)
        /\ \A pic : OfProvider(pic)' <=> OfProvider(pic)
    BY <1>1 DEF Choosing, Switching, Doomed, OfProvider, LookupPlace, Thread
  <1>3. StoreInv' <=>
          /\ subPic' # 0 /\ Whole(pics'[subPic']) /\ ~ Switching =>
               /\ OfProvider(pics'[subPic'])
               /\ Fits(pics'[subPic'], track[pics'[subPic'].content]) \/ Doomed(pics'[subPic'])
          /\ \A u \in Thread :
               pc'[u] = "copypixels" /\ subPic' # 0 /\ subPic' = local' /\ Whole(canvas') /\ ~ Switching =>
                   OfProvider(canvas') /\ Fits(canvas', track[canvas'.content])
    BY <1>1, <1>2 DEF StoreInv, Whole, Fits, Doomed, OfProvider, Choosing, Switching
  <1>4. \A u \in Thread : u # t => pc'[u] # "copypixels"
    <2>1. CASE pc[t] \in LookupPlace
      BY <1>1, <2>1, OneLookup DEF LookupPlace
    <2>2. CASE pc[t] = "paint"
      <3>1. lockR = None
        BY <2>2 DEF LookupStep, Paint, LookupCopies, LookupFetches, LookupLocks, LookupAllocs, LookupAllocFails,
               LookupGetsStatic, LookupAddsRef, LookupRenders, LookupCopiesPixels, LookupUnlocks, Draw
      <3> QED
        BY <1>1, <3>1, NoneAssumption DEF TypeOK, LookupPlace
    <2> QED
      BY <1>1, <2>1, <2>2
  <1>5. ASSUME UNCHANGED <<subPic, pics>>, pc'[t] # "copypixels" PROVE StoreInv'
    BY <1>3, <1>4, <1>5 DEF StoreInv
  <1>6. CASE Paint(t) \/ LookupCopies(t) \/ LookupFetches(t) \/ LookupLocks(t) \/ LookupGetsStatic(t)
             \/ LookupAddsRef(t) \/ LookupUnlocks(t)
    BY <1>5, <1>6 DEF TypeOK, Paint, LookupCopies, LookupFetches, LookupLocks, LookupGetsStatic, LookupAddsRef,
                      LookupUnlocks, Drawing
  <1>7. CASE LookupAllocs(t)
    <2>1. subPic' \in {1, 2} /\ pics'[subPic'] = Blank /\ pc'[t] # "copypixels"
      BY <1>7 DEF TypeOK, LookupAllocs, Referred, Drawing
    <2> QED
      BY <1>3, <1>4, <2>1 DEF Whole, Blank
  <1>8. CASE LookupAllocFails(t)
    BY <1>3, <1>8 DEF LookupAllocFails
  <1>9. CASE LookupRenders(t)
    <2>1. /\ UNCHANGED <<subPic, local, from, seg, rtNow>> /\ pc[t] = "render"
          /\ pc'[t] = "copypixels" => WriteOnly /\ provider # None /\ Target(Rendered)
      BY <1>9 DEF TypeOK, LookupRenders
    <2>2. ASSUME Whole(Rendered), provider # None
          PROVE  OfProvider(Rendered) /\ Fits(Rendered, track[Rendered.content])
      <3>1. from = provider /\ provider \in Provider /\ track[provider] \in Tracks /\ rtNow \in Nat
        BY <2>2 DEF Whole, Rendered, TypeOK
      <3>2. Found
        BY <2>1 DEF LookupInv
      <3>3. Fits(Rendered, track[provider])
        BY <3>1, <3>2, RenderedFits DEF Found, Rendered
      <3> QED
        BY <3>1, <3>3 DEF OfProvider, Rendered
    <2>3. CASE pc'[t] = "copypixels"
      <3>1. UNCHANGED pics /\ canvas' = Rendered
        BY <2>1, <2>3 DEF Target
      <3> QED
        BY <1>3, <1>4, <2>1, <2>2, <2>3, <3>1 DEF StoreInv
    <2>4. CASE pc'[t] # "copypixels" /\ provider # None /\ Target(Rendered)
      BY <1>3, <1>4, <2>1, <2>2, <2>4 DEF StoreInv, Target, TypeOK
    <2>5. ASSUME pc'[t] # "copypixels", NEW pic, ~ pic.drawn, Target(pic) PROVE StoreInv'
      BY <1>3, <1>4, <2>1, <2>5 DEF StoreInv, Target, TypeOK, Whole
    <2>6. CASE pc'[t] # "copypixels" /\ provider # None /\ Target([Rendered EXCEPT !.look = 0, !.drawn = FALSE])
      BY <2>5, <2>6 DEF Rendered
    <2>7. CASE /\ pc'[t] # "copypixels" /\ provider # None
               /\ Target([(IF WriteOnly THEN canvas ELSE pics[local]) EXCEPT !.drawn = FALSE])
      <3>1. CASE WriteOnly
        <4>1. UNCHANGED <<subPic, pics>>
          BY <2>1, <2>7, <3>1 DEF Target
        <4> QED
          BY <1>5, <2>7, <4>1
      <3>2. CASE ~ WriteOnly /\ local = 0
        <4>1. UNCHANGED <<subPic, pics>>
          BY <2>1, <2>7, <3>2 DEF Target, TypeOK
        <4> QED
          BY <1>5, <2>7, <4>1
      <3>3. CASE ~ WriteOnly /\ local # 0
        <4>1. pics[local] \in Picture
          BY <3>3 DEF TypeOK
        <4>2. ~ [pics[local] EXCEPT !.drawn = FALSE].drawn
          BY <4>1 DEF Picture
        <4> QED
          BY <2>5, <2>7, <3>3, <4>2
      <3> QED
        BY <3>1, <3>2, <3>3
    <2>8. CASE UNCHANGED pics /\ pc'[t] # "copypixels"
      BY <1>5, <2>1, <2>8
    <2> QED
      BY <1>9, <2>3, <2>4, <2>6, <2>7, <2>8 DEF LookupRenders
  <1>10. CASE LookupCopiesPixels(t)
    <2>1. UNCHANGED <<subPic, local, canvas>> /\ pc[t] = "copypixels" /\ pc'[t] # "copypixels"
      BY <1>10 DEF TypeOK, LookupCopiesPixels
    <2>2. CASE pics' = [pics EXCEPT ![local] = canvas]
      BY <1>3, <1>4, <2>1, <2>2 DEF StoreInv, TypeOK
    <2>3. CASE pics' = [pics EXCEPT ![local] = [canvas EXCEPT !.look = 0, !.drawn = FALSE]]
      <3>1. ~ [canvas EXCEPT !.look = 0, !.drawn = FALSE].drawn
        BY DEF TypeOK, Picture
      <3> HIDE DEF Picture
      <3> QED
        BY <1>3, <1>4, <2>1, <2>3, <3>1 DEF StoreInv, TypeOK, Whole
    <2> QED
      BY <1>10, <2>2, <2>3 DEF LookupCopiesPixels
  <1>11. CASE Draw(t)
    <2>1. subPic' = subPic /\ pc'[t] # "copypixels" /\ (subPic # 0 => pics'[subPic] = pics[subPic])
      BY <1>11 DEF TypeOK, Draw, Referred
    <2> QED
      BY <1>3, <1>4, <2>1 DEF StoreInv
  <1> QED
    BY <1>6, <1>7, <1>8, <1>9, <1>10, <1>11 DEF LookupStep

LEMMA NextStore == ASSUME TypeOK, LookupInv, StoreInv, [Next]_vars PROVE StoreInv'
  <1> USE NoneAssumption DEF Goto, queue, texts, locks, lookup, counts
  <1>1. ASSUME NEW t \in {"renderer", "main"}, NEW rt \in 0 .. MaxTime, SetTime(t, rt) PROVE StoreInv'
    BY <1>1 DEF SetTime, TypeOK, StoreInv, Choosing, Switching, Doomed, OfProvider, Thread
  <1>2. ASSUME NEW t \in {"main", "decoder"}, NEW p \in Provider, NEW tr \in Tracks,
               NEW rt \in -1 .. MaxTime, EditTexts(t, p, tr, rt)
        PROVE  StoreInv'
    <2>1. /\ UNCHANGED <<subPic, pics, provider, current, lockP, local, canvas, wanted>>
          /\ track' = [track EXCEPT ![p] = tr] /\ SameUntil(tr, track[p], rt) /\ lockS = None
          /\ edit' = [edit EXCEPT ![t] = [of |-> p, rt |-> rt]]
          /\ pc[t] = "idle" /\ pc' = [pc EXCEPT ![t] = "announce"] /\ t \in Thread
      BY <1>2 DEF EditTexts, Thread
    <2>2. ~ \E u \in Thread : pc'[u] = "copypixels"
      BY <2>1 DEF TypeOK, LockedPlace
    <2>3. (Choosing' <=> Choosing) /\ (Switching' <=> Switching) /\ lockP # t
      BY <2>1 DEF Choosing, Switching, TypeOK, Thread
    <2>4. ASSUME subPic # 0, Whole(pics[subPic]), ~ Switching
          PROVE  /\ OfProvider(pics[subPic])
                 /\ Fits(pics[subPic], track'[pics[subPic].content]) \/ Doomed(pics[subPic])'
      <3> DEFINE pic == pics[subPic]
      <3>1. pic \in Picture /\ OfProvider(pic) /\ pic.content \in Provider
        BY <2>4 DEF TypeOK, StoreInv, OfProvider
      <3>2. CASE Doomed(pic)
        <4>1. Doomed(pic)'
          BY <2>1, <3>2 DEF Doomed, TypeOK, Thread
        <4> QED
          BY <3>1, <4>1
      <3>3. CASE Fits(pic, track[pic.content]) /\ pic.content # p
        BY <2>1, <3>1, <3>3 DEF TypeOK
      <3>4. CASE Fits(pic, track[pic.content]) /\ pic.content = p /\ pic.stop <= rt
        <4>1. Fits(pic, tr)
          BY <2>1, <3>1, <3>4, EditKeeps DEF TypeOK
        <4> QED
          BY <2>1, <3>1, <3>4, <4>1 DEF TypeOK
      <3>5. CASE pic.content = p /\ pic.stop > rt
        <4>1. Doomed(pic)'
          BY <2>1, <3>5 DEF Doomed, TypeOK
        <4> QED
          BY <3>1, <4>1
      <3>6. pic.stop <= rt \/ pic.stop > rt
        BY <3>1 DEF Picture
      <3> QED
        BY <2>4, <3>1, <3>2, <3>3, <3>4, <3>5, <3>6 DEF StoreInv
    <2> QED
      BY <2>1, <2>2, <2>3, <2>4 DEF StoreInv, OfProvider, Whole, Fits
  <1>3. ASSUME NEW p \in Provider, NEW tr \in Tracks, SetSubtitle(p, tr) PROVE StoreInv'
    BY <1>3 DEF SetSubtitle, TypeOK, StoreInv, Choosing, Switching, Thread
  <1>4. CASE SwitchOff
    BY <1>4 DEF SwitchOff, TypeOK, StoreInv, Choosing, Switching, Thread
  <1>5. CASE SwitchFrees
    BY <1>5 DEF SwitchFrees, TypeOK, StoreInv, Choosing, Switching, Thread
  <1>6. CASE SwitchProvides
    BY <1>6 DEF SwitchProvides, TypeOK, StoreInv, Choosing, Switching, Thread
  <1>7. ASSUME NEW t \in Thread, Announce(t) PROVE StoreInv'
    <2>1. UNCHANGED <<subPic, pics, provider, current, track, lockP, local, canvas, wanted>>
          /\ pc[t] = "announce" /\ lockP # t
          /\ pc'[t] # "copypixels" /\ \A u \in Thread : u # t => pc'[u] = pc[u] /\ edit'[u] = edit[u]
          /\ pc'[t] \notin {"switch", "provide"}
      BY <1>7 DEF Announce, TypeOK
    <2>2. (Choosing' <=> Choosing) /\ (Switching' <=> Switching)
      BY <2>1 DEF Choosing, Switching, Thread
    <2>3. ASSUME NEW pic, OfProvider(pic), Doomed(pic), ~ Switching PROVE Doomed(pic)'
      <3>1. PICK u \in {"main", "decoder"} :
               pc[u] \in {"announce", "invalidate"} /\ edit[u].of = pic.content /\ pic.stop > edit[u].rt
        BY <2>3 DEF Doomed
      <3>2. CASE u # t
        BY <2>1, <3>1, <3>2 DEF Doomed, Thread
      <3>3. CASE u = t
        <4>1. provider = current
          BY <2>3 DEF StoreInv, OfProvider, Switching
        <4>2. edit[t].of = current
          BY <2>3, <3>1, <3>3, <4>1 DEF OfProvider
        <4>3. pc'[t] = "invalidate" /\ edit' = edit
          BY <1>7, <4>2 DEF Announce, TypeOK
        <4> QED
          BY <3>1, <3>3, <4>3 DEF Doomed
      <3> QED
        BY <3>2, <3>3
    <2>4. lockP = "main" => edit'["main"] = edit["main"]
      BY <2>1 DEF Thread
    <2> QED
      BY <2>1, <2>2, <2>3, <2>4 DEF StoreInv, OfProvider, Whole, Fits
  <1>8. ASSUME NEW t \in Thread, Invalidate(t) PROVE StoreInv'
    <2>1. /\ UNCHANGED <<provider, current, track, local, canvas, wanted>> /\ pc[t] = "invalidate"
          /\ pc'[t] \in {"idle", "paint"} /\ \A u \in Thread : u # t => pc'[u] = pc[u] /\ edit'[u] = edit[u]
          /\ subPic' # 0 => subPic' = subPic /\ pics'[subPic] = pics[subPic] /\ ~ (pics[subPic].stop > edit[t].rt)
          /\ lockP' = IF lockP = t THEN None ELSE lockP
      BY <1>8 DEF Invalidate, TypeOK, Referred, Outdated
    <2>2. Choosing' <=> Choosing
      BY <2>1 DEF Choosing, Thread
    <2>3. CASE lockP = "main" /\ t = "main"
      <3>1. subPic' = 0
        BY <2>1, <2>3 DEF StoreInv, TypeOK, Picture
      <3> QED
        BY <2>1, <2>2, <2>3, <3>1 DEF StoreInv
    <2>4. CASE lockP # t
      <3>1. Switching' <=> Switching
        BY <2>1, <2>2, <2>4 DEF Switching
      <3>2. ASSUME subPic' # 0, Doomed(pics[subPic]) PROVE Doomed(pics[subPic])'
        BY <2>1, <3>2 DEF Doomed, Thread
      <3>3. lockP' = "main" => edit'["main"].rt = -1
        BY <2>1, <2>4 DEF StoreInv, Thread
      <3>4. CASE subPic' = 0
        BY <2>1, <2>2, <3>3, <3>4 DEF StoreInv
      <3>5. CASE subPic' # 0
        <4> DEFINE pic == pics[subPic]
        <4>1. subPic' = subPic /\ pics'[subPic'] = pic
          BY <2>1, <3>5
        <4>2. ASSUME Whole(pic), ~ Switching
              PROVE  OfProvider(pic)' /\ (Fits(pic, track[pic.content])' \/ Doomed(pic)')
          <5>1. OfProvider(pic) /\ (Fits(pic, track[pic.content]) \/ Doomed(pic))
            BY <3>5, <4>1, <4>2 DEF StoreInv
          <5>2. OfProvider(pic)'
            BY <2>1, <4>1, <5>1 DEF OfProvider
          <5>3. CASE Doomed(pic)
            BY <3>2, <3>5, <5>2, <5>3
          <5>4. CASE Fits(pic, track[pic.content])
            BY <2>1, <4>1, <5>2, <5>4 DEF Fits
          <5> QED
            BY <5>1, <5>2, <5>3, <5>4
        <4>3. Whole(pic)' <=> Whole(pic)
          BY <4>1 DEF Whole
        <4>4. \A u \in Thread :
                pc'[u] = "copypixels" /\ subPic = local /\ Whole(canvas) /\ ~ Switching =>
                    OfProvider(canvas) /\ Fits(canvas, track[canvas.content])
          BY <2>1, <3>5, <4>1 DEF StoreInv
        <4>5. (Whole(canvas)' <=> Whole(canvas)) /\ (OfProvider(canvas)' <=> OfProvider(canvas))
              /\ (Fits(canvas, track[canvas.content])' <=> Fits(canvas, track[canvas.content]))
          BY <2>1 DEF Whole, OfProvider, Fits
        <4>6. subPic' = local' <=> subPic = local
          BY <2>1, <4>1
        <4> QED
          BY <2>1, <2>2, <3>1, <3>3, <4>2, <4>3, <4>4, <4>5, <4>6 DEF StoreInv
      <3> QED
        BY <3>4, <3>5
    <2> QED
      BY <2>3, <2>4 DEF TypeOK
  <1>9. ASSUME NEW t \in Thread, LookupStep(t) PROVE StoreInv'
    BY <1>9, LookupStore
  <1>10. CASE UNCHANGED vars
    BY <1>10 DEF vars, StoreInv, Choosing, Switching, Doomed, OfProvider, Whole, Fits
  <1> QED
    BY <1>1, <1>2, <1>3, <1>4, <1>5, <1>6, <1>7, <1>8, <1>9, <1>10 DEF Next, Call, CallStep

\* Unless a change is on its way, the stored picture shows the current provider's texts at
\* every time a lookup would take it for, whatever was edited, switched, released or failed.
THEOREM StoredIsRight == Spec => []StoredRight
  <1>1. Init => TypeOK /\ LookupInv /\ StoreInv
    BY InitType, InitLookup, InitStore
  <1>2. TypeOK /\ LookupInv /\ StoreInv /\ [Next]_vars => (TypeOK /\ LookupInv /\ StoreInv)'
    BY NextType, NextLookup, NextStore
  <1>3. TypeOK /\ StoreInv => StoredRight
    <2> SUFFICES ASSUME TypeOK, StoreInv, subPic # 0, Whole(pics[subPic]), ~ Pending
                 PROVE  /\ pics[subPic].content = provider
                        /\ \A rt \in pics[subPic].start .. pics[subPic].stop - 1 :
                               Shows(pics[subPic], track[provider], rt)
      BY DEF StoredRight
    <2>1. ~ Switching /\ ~ Doomed(pics[subPic])
      BY DEF Pending, Switching, Choosing, Doomed, TypeOK, Thread
    <2>2. OfProvider(pics[subPic]) /\ Fits(pics[subPic], track[provider])
      BY <2>1 DEF StoreInv, OfProvider
    <2>3. pics[subPic] \in Picture /\ track[provider] \in Tracks
      BY <2>2 DEF TypeOK, OfProvider
    <2> QED
      BY <2>2, <2>3, FitsShows DEF OfProvider
  <1> QED
    BY <1>1, <1>2, <1>3, PTL DEF Spec

-----------------------------------------------------------------------------
(* Who waits for whom.                                                       *)

\* The steps of a call that wait: Paint for m_RenderLock, the lookup for the provider's
\* m_csSubLock, and the accesses to the provider for the queue's m_csSubPicProvider
Waits(t) ==
    \/ pc[t] = "paint" /\ lockR # None
    \/ pc[t] = "lock" /\ lockS # None
    \/ pc[t] \in {"fetch", "render", "provide"} /\ lockP # None

SomeoneGoesOn == (\E t \in Thread : pc[t] # "idle") => \E t \in Thread : pc[t] # "idle" /\ ~Waits(t)

Owned == {lockR, lockS, lockP} \subseteq Thread \cup {None}

LEMMA NextOwned == ASSUME Owned, [Next]_vars PROVE Owned'
  <1>1. ASSUME NEW t \in Thread,
               \/ Paint(t) \/ LookupLocks(t) \/ LookupAllocFails(t) \/ LookupUnlocks(t) \/ Draw(t)
               \/ Invalidate(t)
        PROVE  Owned'
    BY <1>1 DEF Owned, Paint, LookupLocks, LookupAllocFails, AllocFailed, LookupUnlocks, Draw,
                Invalidate, locks
  <1>2. ASSUME NEW t \in Thread,
               \/ LookupCopies(t) \/ LookupFetches(t) \/ LookupAllocs(t) \/ LookupGetsStatic(t)
               \/ LookupAddsRef(t) \/ LookupRenders(t) \/ LookupCopiesPixels(t) \/ Announce(t)
        PROVE  Owned'
    BY <1>2 DEF Owned, LookupCopies, LookupFetches, LookupAllocs, LookupGetsStatic, LookupAddsRef,
                LookupRenders, LookupCopiesPixels, Announce, locks
  <1>3. ASSUME Call \/ SwitchFrees \/ SwitchProvides PROVE Owned'
    BY <1>3 DEF Owned, Call, SetTime, EditTexts, SetSubtitle, SwitchOff, SwitchFrees, SwitchProvides,
                locks, Thread
  <1>4. CASE UNCHANGED vars
    BY <1>4 DEF Owned, vars, locks
  <1> QED
    BY <1>1, <1>2, <1>3, <1>4 DEF Next, CallStep, LookupStep

\* The locks are taken in one order, m_RenderLock, m_csSubLock, m_csSubPicProvider, and
\* Invalidate, which runs with the last, waits for none of the modelled ones: of the threads in
\* a call one at least is not waiting, so no circle of waiting threads closes.
THEOREM NoCircularWait == Spec => []SomeoneGoesOn
  <1>1. Init => TypeOK /\ LookupInv /\ Owned
    BY InitType, InitLookup DEF Init, Owned
  <1>2. TypeOK /\ LookupInv /\ Owned /\ [Next]_vars => (TypeOK /\ LookupInv /\ Owned)'
    BY NextType, NextLookup, NextOwned
  <1>3. TypeOK /\ Owned => SomeoneGoesOn
    <2> SUFFICES ASSUME TypeOK, Owned, NEW busy \in Thread, pc[busy] # "idle"
                 PROVE  \E t \in Thread : pc[t] # "idle" /\ ~Waits(t)
      BY DEF SomeoneGoesOn
    <2>1. CASE lockP # None
      <3>1. lockP \in Thread /\ pc[lockP] = "invalidate"
        BY <2>1 DEF Owned, TypeOK
      <3> QED
        BY <3>1 DEF Waits
    <2>2. CASE lockP = None /\ lockS # None
      <3>1. lockS \in Thread /\ pc[lockS] \in LockedPlace
        BY <2>2 DEF Owned, TypeOK
      <3> QED
        BY <2>2, <3>1 DEF Waits, LockedPlace
    <2>3. CASE lockP = None /\ lockS = None /\ lockR # None
      <3>1. lockR \in Thread /\ pc[lockR] \in LookupPlace
        BY <2>3 DEF Owned, TypeOK
      <3> QED
        BY <2>3, <3>1 DEF Waits, LookupPlace
    <2>4. CASE lockP = None /\ lockS = None /\ lockR = None
      BY <2>4 DEF Waits
    <2> QED
      BY <2>1, <2>2, <2>3, <2>4
  <1> QED
    BY <1>1, <1>2, <1>3, PTL DEF Spec

=============================================================================

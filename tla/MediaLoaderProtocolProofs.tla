---------------------- MODULE MediaLoaderProtocolProofs ----------------------
(***************************************************************************)
(* The protocol of load states, events and messages that keeps the main    *)
(* thread and the graph thread apart, proved for every value of the        *)
(* constants, as long as no other program's command has entered a wait.    *)
(***************************************************************************)
EXTENDS MediaLoaderProofs

-----------------------------------------------------------------------------
(* What the protocol sees of a thread's stack and of the queues. *)

PcOf(s) == IF s = << >> THEN "idle" ELSE s[1].pc
OMDOf(s) == IF s = << >> THEN None ELSE s[1].omd
KilledOf(s) == s # << >> /\ s[1].killed
Unflags(s) == \E i \in 1..Len(s) : s[i].pc = "open_unflag"

MainPc == PcOf(stack["main"])
MainOMD == OMDOf(stack["main"])
MainKilled == KilledOf(stack["main"])
GraphPc == PcOf(stack["graph"])
GraphOMD == OMDOf(stack["graph"])

\* OpenMedia builds on this thread: it clears the flag when OpenMediaPrivate returns.
Unflagging == Unflags(stack["main"])

\* What a procedure of the main thread may return to: a close to its callers, the destruction
\* of a graph to the close that called it, the others to OpenMedia that built here or to nothing.
Below(pc) ==
    IF pc \in ClosePcs THEN {"idle", "open_active", "failed_next", "quit_destroy"}
    ELSE IF pc = "close_private" THEN {"close_done"}
    ELSE {"idle", "open_unflag"}

Shaped(s) ==
    \A i \in 1..Len(s) : (IF i = Len(s) THEN "idle" ELSE s[i + 1].pc) \in Below(s[i].pc)

\* The graph thread handles one message at a time and calls nothing that waits.
GraphShaped(s) ==
    \/ s = << >>
    \/ s \in {<< Frame(pc, None) >> : pc \in {"on_open", "on_close", "exited"}}
    \/ \E f \in OwnFrames : f.pc \in OpenPrivatePcs /\ s = << f, Frame("on_open", None) >>
    \/ s = << Frame("close_private", None), Frame("on_close", None) >>

\* Requests to open or to close, of which one at most is queued.
Asks(kind) == \E i \in 1..Len(messages) : messages[i].msg = kind
OneRequest ==
    \A i, j \in 1..Len(messages) :
        messages[i].msg \in {"TM_OPEN", "TM_CLOSE"} /\ messages[j].msg \in {"TM_OPEN", "TM_CLOSE"}
            => i = j

OpenAsked == Asks("TM_OPEN")
CloseAsked == Asks("TM_CLOSE")
CallAsked == Asks("TM_CALL")
ExitAsked == Asks("TM_EXIT")

-----------------------------------------------------------------------------
(* The protocol. *)

LoadPcs == OpenPrivatePcs \union {"post_open", "open_failed"}
AbortPcs == {"close_dialog", "close_lock", "close_abort", "close_kill", "close_purge",
             "close_purge_failed"}
OnOpenPcs == OpenPrivatePcs \union {"on_open"}
OnClosePcs == {"close_private", "on_close"}

GraphIdle == ~OpenAsked /\ ~CloseAsked /\ GraphPc \in {"idle", "exited"}

Shapes == Shaped(stack["main"]) /\ GraphShaped(stack["graph"]) /\ OneRequest

\* Media is loading while the graph thread is asked to open, or builds, and nothing of another
\* open is left.
OpenAlone ==
    OpenAsked \/ GraphPc \in OpenPrivatePcs =>
        /\ loadState = "LOADING" /\ window = << >>
        /\ MainPc \notin LoadPcs \union {"close_purge", "close_purge_failed", "close_closing"}
OpenFresh == OpenAsked => GraphPc \notin OnOpenPcs \union OnClosePcs /\ graph = None
OpenEnds == evOpen => ~OpenAsked /\ GraphPc \notin OnOpenPcs

\* The main thread waits while the graph thread destroys the graph.
CloseAlone == CloseAsked \/ GraphPc \in OnClosePcs => MainPc = "close_wait" /\ ~evClose
CloseEnds ==
    MainPc = "close_wait" =>
        \/ CloseAsked /\ GraphPc \notin OnClosePcs
        \/ ~CloseAsked /\ GraphPc \in OnClosePcs
        \/ GraphIdle /\ graph = None /\ lastOMD = None /\ evClose
Destroys == GraphPc = "on_close" => graph = None /\ lastOMD = None

\* The flag tells the thread that builds from the one that does not.
Flagged == OpenAsked \/ GraphPc \in OnOpenPcs => openedThroughThread \/ MainPc = "open_flag"
Unflagged == Unflagging => ~OpenAsked /\ GraphPc \notin OnOpenPcs
KilledIdle == MainPc \in ClosePcs /\ MainKilled => GraphIdle

\* One result at most is on its way, that of the graph that stands, if one was created.
OneResult ==
    window # << >> =>
        /\ \E msg \in {"WM_POSTOPEN", "WM_OPENFAILED"}, omd \in Media :
               /\ window = << [msg |-> msg, omd |-> omd] >> /\ ResultOf(msg, omd)
               /\ MainPc = "close_purge_failed" => msg # "WM_POSTOPEN"
        /\ loadState = "LOADING"
        /\ MainPc \notin LoadPcs \union {"close_closing"}

\* The graph of a thread that opens: none at first, and none where it could not be created.
BuiltAt(pc, omd) ==
    \/ graph = None /\ pc \in {"private_start", "private_err", "open_failed"}
    \/ graph = omd /\ pc # "private_start"
GraphBuilds == GraphPc \in OpenPrivatePcs => BuiltAt(GraphPc, GraphOMD)
MainBuilds == MainPc \in LoadPcs => loadState = "LOADING" /\ BuiltAt(MainPc, MainOMD)

\* The load state follows the main thread.
Aborting == (openingAborted => MainPc \in AbortPcs) /\ (MainPc \in AbortPcs => loadState = "LOADING")
Closes ==
    /\ loadState = "CLOSING" <=> MainPc \in {"close_wait", "close_done", "close_private"}
    /\ MainPc \in {"close_private", "close_done"} => GraphIdle /\ window = << >>
    /\ MainPc = "close_done" => graph = None /\ lastOMD = None
    /\ MainPc = "close_closing" => loadState # "CLOSED"
Closed ==
    /\ MainPc \in {"open_active", "open_prompt", "open_load", "failed_next", "quit_destroy",
                   "quit_wait", "exited"} => loadState = "CLOSED"
    /\ loadState = "CLOSED" => GraphIdle /\ graph = None /\ lastOMD = None /\ window = << >>

\* The main thread waits for a call it made, and the graph thread exits last.
CallEnds == MainPc = "call_wait" => CallAsked
ExitAlone == ExitAsked \/ GraphPc = "exited" => MainPc \in {"quit_wait", "exited"}

\* Whoever is to end the loading has the media, and the main thread closes what has failed.
Carried ==
    /\ loadState = "LOADING" =>
           \/ OpenAsked \/ GraphPc \in OpenPrivatePcs
           \/ window # << >>
           \/ MainPc \in LoadPcs \union AbortPcs \union {"close_closing"}
    /\ loadState = "FAILING" => MainPc \in {"open_wait", "close_enter", "close_closing"}

Proto ==
    /\ OpenAlone /\ OpenFresh /\ OpenEnds
    /\ CloseAlone /\ CloseEnds /\ Destroys
    /\ Flagged /\ Unflagged /\ KilledIdle
    /\ OneResult /\ GraphBuilds /\ MainBuilds
    /\ Aborting /\ Closes /\ Closed /\ CallEnds /\ ExitAlone /\ Carried

\* What the protocol rests on: a result is handled on the main thread, and media is not handed
\* to the graph thread inside the open of media that is built on the main thread.
NotHandedInside == ~(MainPc = "open_flag" /\ Unflagging)
Hyp == Undisturbed => ResultsOnMain /\ NotHandedInside

-----------------------------------------------------------------------------
(* Steps on a stack, as the protocol sees them. *)

LEMMA Tops ==
    \A f \in OwnFrames : \A s \in Seq(OwnFrames) :
        /\ PcOf(Push(f, s)) = f.pc
        /\ OMDOf(Push(f, s)) = f.omd
        /\ KilledOf(Push(f, s)) <=> f.killed
        /\ Unflags(Push(f, s)) <=> f.pc = "open_unflag" \/ Unflags(s)
        /\ Shaped(s) /\ PcOf(s) \in Below(f.pc) => Shaped(Push(f, s))
<1> SUFFICES ASSUME NEW f \in OwnFrames, NEW s \in Seq(OwnFrames)
             PROVE  /\ PcOf(Push(f, s)) = f.pc
                    /\ OMDOf(Push(f, s)) = f.omd
                    /\ KilledOf(Push(f, s)) <=> f.killed
                    /\ Unflags(Push(f, s)) <=> f.pc = "open_unflag" \/ Unflags(s)
                    /\ Shaped(s) /\ PcOf(s) \in Below(f.pc) => Shaped(Push(f, s))
  OBVIOUS
<1> DEFINE r == Push(f, s)
<1>1. /\ r \in Seq(OwnFrames) /\ r # << >> /\ Len(r) = Len(s) + 1 /\ r[1] = f
      /\ \A i \in 1..Len(s) : r[i + 1] = s[i]
  BY PushProperties
<1>2. Len(s) \in Nat /\ (s = << >> <=> Len(s) = 0)
  BY LenProperties, EmptySeq
<1> HIDE DEF r
<1>3. PcOf(r) = f.pc /\ OMDOf(r) = f.omd /\ (KilledOf(r) <=> f.killed)
  BY <1>1 DEF PcOf, OMDOf, KilledOf
<1>4. \A i \in 1..Len(r) : i = 1 \/ (i - 1 \in 1..Len(s) /\ r[i] = s[i - 1])
  <2> SUFFICES ASSUME NEW i \in 1..Len(r), i # 1 PROVE i - 1 \in 1..Len(s) /\ r[i] = s[i - 1]
    OBVIOUS
  <2>1. i - 1 \in 1..Len(s) /\ (i - 1) + 1 = i
    BY <1>1, <1>2
  <2> QED
    BY <1>1, <2>1
<1>5. Unflags(r) <=> f.pc = "open_unflag" \/ Unflags(s)
  <2>1. ASSUME NEW i \in 1..Len(r), r[i].pc = "open_unflag" PROVE f.pc = "open_unflag" \/ Unflags(s)
    BY <1>1, <1>4, <2>1 DEF Unflags
  <2>2. ASSUME NEW i \in 1..Len(s), s[i].pc = "open_unflag" PROVE Unflags(r)
    <3>1. i + 1 \in 1..Len(r) /\ r[i + 1].pc = "open_unflag"
      BY <1>1, <1>2, <2>2
    <3> QED
      BY <3>1 DEF Unflags
  <2>3. f.pc = "open_unflag" => Unflags(r)
    BY <1>1, <1>2 DEF Unflags
  <2> QED
    BY <2>1, <2>2, <2>3 DEF Unflags
<1>6. ASSUME Shaped(s), PcOf(s) \in Below(f.pc) PROVE Shaped(r)
  <2> SUFFICES ASSUME NEW i \in 1..Len(r)
               PROVE  (IF i = Len(r) THEN "idle" ELSE r[i + 1].pc) \in Below(r[i].pc)
    BY DEF Shaped
  <2>1. CASE i = 1
    <3>1. Len(r) = 1 => PcOf(s) = "idle"
      BY <1>1, <1>2 DEF PcOf
    <3>2. Len(r) # 1 => r[2] = s[1] /\ PcOf(s) = s[1].pc
      BY <1>1, <1>2 DEF PcOf
    <3> QED
      BY <1>1, <1>2, <1>6, <2>1, <3>1, <3>2
  <2>2. CASE i # 1
    <3>1. i - 1 \in 1..Len(s) /\ r[i] = s[i - 1] /\ (i = Len(r) <=> i - 1 = Len(s))
      BY <1>1, <1>2, <1>4, <2>2
    <3>2. i # Len(r) => r[i + 1] = s[(i - 1) + 1]
      BY <1>1, <1>2, <2>2
    <3>3. (IF i - 1 = Len(s) THEN "idle" ELSE s[(i - 1) + 1].pc) \in Below(s[i - 1].pc)
      BY <1>6, <3>1 DEF Shaped
    <3> QED
      BY <3>1, <3>2, <3>3
  <2> QED
    BY <2>1, <2>2
<1> QED
  BY <1>3, <1>5, <1>6 DEF r

LEMMA Rests ==
    \A s \in Seq(OwnFrames) : s # << >> =>
        /\ Head(s) \in OwnFrames /\ Tail(s) \in Seq(OwnFrames)
        /\ PcOf(s) = Head(s).pc /\ OMDOf(s) = Head(s).omd /\ (KilledOf(s) <=> Head(s).killed)
        /\ Unflags(s) <=> PcOf(s) = "open_unflag" \/ Unflags(Tail(s))
        /\ Shaped(s) => Shaped(Tail(s)) /\ PcOf(Tail(s)) \in Below(PcOf(s))
<1> SUFFICES ASSUME NEW s \in Seq(OwnFrames), s # << >>
             PROVE  /\ Head(s) \in OwnFrames /\ Tail(s) \in Seq(OwnFrames)
                    /\ PcOf(s) = Head(s).pc /\ OMDOf(s) = Head(s).omd
                    /\ KilledOf(s) <=> Head(s).killed
                    /\ Unflags(s) <=> PcOf(s) = "open_unflag" \/ Unflags(Tail(s))
                    /\ Shaped(s) => Shaped(Tail(s)) /\ PcOf(Tail(s)) \in Below(PcOf(s))
  OBVIOUS
<1> DEFINE r == Tail(s)
<1>1. /\ Len(s) \in Nat \ {0} /\ s[1] \in OwnFrames /\ Head(s) = s[1]
      /\ r \in Seq(OwnFrames) /\ Len(r) = Len(s) - 1
      /\ \A i \in 1..(Len(s) - 1) : r[i] = s[i + 1]
  BY TailProperties
<1> HIDE DEF r
<1>2. Len(r) \in Nat /\ (r = << >> <=> Len(r) = 0)
  BY <1>1, LenProperties, EmptySeq
<1>3. PcOf(s) = Head(s).pc /\ OMDOf(s) = Head(s).omd /\ (KilledOf(s) <=> Head(s).killed)
  BY <1>1 DEF PcOf, OMDOf, KilledOf
<1>4. Unflags(s) <=> PcOf(s) = "open_unflag" \/ Unflags(r)
  <2>1. ASSUME NEW i \in 1..Len(r), r[i].pc = "open_unflag" PROVE Unflags(s)
    <3>1. i + 1 \in 1..Len(s) /\ s[i + 1].pc = "open_unflag"
      BY <1>1, <1>2, <2>1
    <3> QED
      BY <3>1 DEF Unflags
  <2>2. ASSUME NEW i \in 1..Len(s), i # 1, s[i].pc = "open_unflag" PROVE Unflags(r)
    <3>1. i - 1 \in 1..Len(r) /\ (i - 1) + 1 = i
      BY <1>1, <1>2, <2>2
    <3>2. r[i - 1].pc = "open_unflag"
      BY <1>1, <2>2, <3>1
    <3> QED
      BY <3>1, <3>2 DEF Unflags
  <2>3. s[1].pc = "open_unflag" => Unflags(s)
    BY <1>1 DEF Unflags
  <2> QED
    BY <1>1, <1>3, <2>1, <2>2, <2>3 DEF Unflags
<1>5. ASSUME Shaped(s) PROVE Shaped(r) /\ PcOf(r) \in Below(PcOf(s))
  <2>1. ASSUME NEW i \in 1..Len(r)
        PROVE  (IF i = Len(r) THEN "idle" ELSE r[i + 1].pc) \in Below(r[i].pc)
    <3>1. i + 1 \in 1..Len(s) /\ r[i] = s[i + 1] /\ (i = Len(r) <=> i + 1 = Len(s))
      BY <1>1, <1>2
    <3>2. i # Len(r) => r[i + 1] = s[(i + 1) + 1]
      BY <1>1, <1>2
    <3>3. (IF i + 1 = Len(s) THEN "idle" ELSE s[(i + 1) + 1].pc) \in Below(s[i + 1].pc)
      BY <1>5, <3>1 DEF Shaped
    <3> QED
      BY <3>1, <3>2, <3>3
  <2>2. (IF 1 = Len(s) THEN "idle" ELSE s[1 + 1].pc) \in Below(s[1].pc)
    BY <1>1, <1>5 DEF Shaped
  <2>3. PcOf(r) = IF 1 = Len(s) THEN "idle" ELSE s[1 + 1].pc
    <3>1. 1 = Len(s) <=> r = << >>
      BY <1>1, <1>2
    <3>2. 1 # Len(s) => r[1] = s[1 + 1]
      BY <1>1
    <3> QED
      BY <3>1, <3>2 DEF PcOf
  <2> QED
    BY <1>1, <1>3, <2>1, <2>2, <2>3 DEF Shaped
<1> QED
  BY <1>1, <1>3, <1>4, <1>5 DEF r

MainIs(pc, omd, killed) ==
    /\ MainPc' = pc /\ MainOMD' = omd /\ (MainKilled' <=> killed)
    /\ Shaped(stack'["main"])
MainStays == MainIs(MainPc, MainOMD, MainKilled) /\ (Unflagging' <=> Unflagging)

GraphIs(pc, omd) == GraphPc' = pc /\ GraphOMD' = omd /\ GraphShaped(stack'["graph"])
GraphStays == GraphIs(GraphPc, GraphOMD)

LEMMA StacksTyped ==
    ASSUME StackInv
    PROVE  /\ stack["main"] \in Seq(OwnFrames) /\ stack["graph"] \in Seq(OwnFrames)
           /\ "main" \in Threads /\ "graph" \in Threads
  BY DEF StackInv, Threads

LEMMA OtherStays ==
    ASSUME Shapes
    PROVE  /\ stack'["graph"] = stack["graph"] => GraphStays
           /\ stack'["main"] = stack["main"] => MainStays
  BY DEF Shapes, GraphStays, GraphIs, GraphPc, GraphOMD, MainStays, MainIs, MainPc, MainOMD,
         MainKilled, Unflagging

\* A frame of the main thread is replaced.
LEMMA MainBecomes ==
    ASSUME StackInv, Shapes, stack["main"] # << >>,
           NEW f \in OwnFrames, Below(f.pc) = Below(MainPc), MainPc # "open_unflag",
           Becomes("main", << f >>)
    PROVE  /\ MainIs(f.pc, f.omd, f.killed)
           /\ Unflagging' <=> f.pc = "open_unflag" \/ Unflagging
           /\ GraphStays
<1> DEFINE s == Tail(stack["main"])
<1>1. stack' = [stack EXCEPT !["main"] = Push(f, s)]
  BY DEF Becomes, Push
<1>2. stack'["main"] = Push(f, s) /\ stack'["graph"] = stack["graph"]
  BY <1>1 DEF StackInv, Threads
<1>3. /\ s \in Seq(OwnFrames) /\ Shaped(s) /\ PcOf(s) \in Below(f.pc)
      /\ Unflagging <=> Unflags(s)
  BY StacksTyped, Rests DEF Shapes, MainPc, Unflagging
<1> HIDE DEF s
<1>4. /\ PcOf(Push(f, s)) = f.pc
      /\ OMDOf(Push(f, s)) = f.omd
      /\ KilledOf(Push(f, s)) <=> f.killed
      /\ Unflags(Push(f, s)) <=> f.pc = "open_unflag" \/ Unflags(s)
      /\ Shaped(Push(f, s))
  BY <1>3, Tops
<1> QED
  BY <1>2, <1>3, <1>4, OtherStays DEF MainIs, MainPc, MainOMD, MainKilled, Unflagging

LEMMA MainBecomesTwo ==
    ASSUME StackInv, Shapes, stack["main"] # << >>,
           NEW f \in OwnFrames, NEW g \in OwnFrames, g.pc \in Below(f.pc),
           Below(g.pc) = Below(MainPc), MainPc # "open_unflag",
           Becomes("main", << f, g >>)
    PROVE  /\ MainIs(f.pc, f.omd, f.killed)
           /\ Unflagging' <=> f.pc = "open_unflag" \/ g.pc = "open_unflag" \/ Unflagging
           /\ GraphStays
<1> DEFINE s == Tail(stack["main"])
<1>1. stack' = [stack EXCEPT !["main"] = << f, g >> \o s]
  BY DEF Becomes
<1>2. /\ s \in Seq(OwnFrames) /\ Shaped(s) /\ PcOf(s) \in Below(g.pc)
      /\ Unflagging <=> Unflags(s)
  BY StacksTyped, Rests DEF Shapes, MainPc, Unflagging
<1> HIDE DEF s
<1>3. << f, g >> \o s = Push(f, Push(g, s))
  BY <1>2, PushTwo
<1>4. stack'["main"] = Push(f, Push(g, s)) /\ stack'["graph"] = stack["graph"]
  BY <1>1, <1>3 DEF StackInv, Threads
<1>5. /\ Push(g, s) \in Seq(OwnFrames)
      /\ PcOf(Push(g, s)) = g.pc
      /\ Unflags(Push(g, s)) <=> g.pc = "open_unflag" \/ Unflags(s)
      /\ Shaped(Push(g, s))
  BY <1>2, Tops, HeldPushFrame
<1> DEFINE r == Push(g, s)
<1> HIDE DEF r
<1>6. /\ PcOf(Push(f, r)) = f.pc
      /\ OMDOf(Push(f, r)) = f.omd
      /\ KilledOf(Push(f, r)) <=> f.killed
      /\ Unflags(Push(f, r)) <=> f.pc = "open_unflag" \/ Unflags(r)
      /\ Shaped(Push(f, r))
  <2>1. r \in Seq(OwnFrames) /\ PcOf(r) \in Below(f.pc) /\ Shaped(r)
    BY <1>5 DEF r
  <2> QED
    BY <2>1, Tops
<1> QED
  BY <1>2, <1>4, <1>5, <1>6, OtherStays DEF r, MainIs, MainPc, MainOMD, MainKilled, Unflagging

LEMMA MainGoes ==
    ASSUME StackInv, Shapes, stack["main"] # << >>,
           NEW pc \in Pcs, pc \in CarryingPcs <=> MainPc \in CarryingPcs,
           Below(pc) = Below(MainPc), pc # "open_unflag", MainPc # "open_unflag",
           Goto("main", pc)
    PROVE  MainIs(pc, MainOMD, MainKilled) /\ (Unflagging' <=> Unflagging) /\ GraphStays
<1> DEFINE f == [Top("main") EXCEPT !.pc = pc]
<1>1. Top("main") \in OwnFrames /\ MainPc = Top("main").pc /\ MainOMD = Top("main").omd
      /\ (MainKilled <=> Top("main").killed)
  BY StacksTyped, Rests DEF Top, MainPc, MainOMD, MainKilled
<1>2. f \in OwnFrames
  BY <1>1, NextStepTyped, StacksTyped
<1>3. f.pc = pc /\ f.omd = MainOMD /\ (f.killed <=> MainKilled)
  BY <1>1 DEF OwnFrames, Frames
<1>4. Becomes("main", << f >>)
  BY DEF Goto
<1> HIDE DEF f
<1> QED
  BY <1>2, <1>3, <1>4, MainBecomes DEF MainIs

LEMMA MainCallsOn ==
    ASSUME StackInv, Shapes, stack["main"] # << >>,
           NEW pc \in Pcs, pc \in CarryingPcs <=> MainPc \in CarryingPcs,
           Below(pc) = Below(MainPc), pc # "open_unflag", MainPc # "open_unflag",
           NEW f \in OwnFrames, f.pc # "open_unflag", pc \in Below(f.pc), Call("main", f, pc)
    PROVE  MainIs(f.pc, f.omd, f.killed) /\ (Unflagging' <=> Unflagging) /\ GraphStays
<1> DEFINE g == [Top("main") EXCEPT !.pc = pc]
<1>1. Top("main") \in OwnFrames /\ MainPc = Top("main").pc
  BY StacksTyped, Rests DEF Top, MainPc
<1>2. g \in OwnFrames
  BY <1>1, NextStepTyped, StacksTyped
<1>3. g.pc = pc
  BY <1>1 DEF OwnFrames, Frames
<1>4. Becomes("main", << f, g >>)
  BY DEF Call
<1> HIDE DEF g
<1> QED
  BY <1>2, <1>3, <1>4, MainBecomesTwo

LEMMA MainReturns ==
    ASSUME StackInv, Shapes, stack["main"] # << >>, Return("main")
    PROVE  /\ MainPc' \in Below(MainPc) /\ Shaped(stack'["main"])
           /\ Unflagging' => Unflagging
           /\ MainPc # "open_unflag" => (Unflagging' <=> Unflagging)
           /\ GraphStays
<1>1. stack' = [stack EXCEPT !["main"] = Tail(stack["main"])]
  BY StacksTyped, Returned
<1>2. stack'["main"] = Tail(stack["main"]) /\ stack'["graph"] = stack["graph"]
  BY <1>1 DEF StackInv, Threads
<1> QED
  BY <1>2, StacksTyped, Rests, OtherStays DEF Shapes, MainPc, Unflagging

LEMMA NothingUnflags == ~Unflags(<< >>) /\ Shaped(<< >>) /\ PcOf(<< >>) = "idle"
  BY DEF Unflags, Shaped, PcOf

LEMMA MainEnters ==
    ASSUME StackInv, Shapes, stack["main"] = << >>,
           NEW f \in OwnFrames, "idle" \in Below(f.pc), f.pc # "open_unflag",
           Enter("main", << f >>)
    PROVE  /\ MainIs(f.pc, f.omd, f.killed)
           /\ ~Unflagging'
           /\ GraphStays
<1>1. stack' = [stack EXCEPT !["main"] = Push(f, stack["main"])]
  BY DEF Enter, Push
<1>2. stack'["main"] = Push(f, << >>) /\ stack'["graph"] = stack["graph"]
  BY <1>1 DEF StackInv, Threads
<1>3. /\ PcOf(Push(f, << >>)) = f.pc
      /\ OMDOf(Push(f, << >>)) = f.omd
      /\ KilledOf(Push(f, << >>)) <=> f.killed
      /\ Unflags(Push(f, << >>)) <=> f.pc = "open_unflag" \/ Unflags(<< >>)
      /\ Shaped(Push(f, << >>))
  BY Tops, NothingUnflags, StacksTyped
<1> QED
  BY <1>2, <1>3, NothingUnflags, OtherStays DEF MainIs, MainPc, MainOMD, MainKilled, Unflagging

LEMMA MainEntersTwo ==
    ASSUME StackInv, Shapes, stack["main"] = << >>,
           NEW f \in OwnFrames, NEW g \in OwnFrames, g.pc \in Below(f.pc), "idle" \in Below(g.pc),
           f.pc # "open_unflag", g.pc # "open_unflag", Enter("main", << f, g >>)
    PROVE  /\ MainIs(f.pc, f.omd, f.killed)
           /\ ~Unflagging'
           /\ GraphStays
<1>1. << >> \in Seq(OwnFrames)
  OBVIOUS
<1>2. << f, g >> \o << >> = Push(f, Push(g, << >>))
  <2> DEFINE s == << >>
  <2>1. s \in Seq(OwnFrames)
    OBVIOUS
  <2> HIDE DEF s
  <2>2. << f, g >> \o s = Push(f, Push(g, s))
    BY <2>1, PushTwo
  <2> QED
    BY <2>2 DEF s
<1>3. stack' = [stack EXCEPT !["main"] = << f, g >> \o << >>]
  BY DEF Enter
<1> DEFINE r == Push(g, << >>)
<1>4. stack'["main"] = Push(f, r) /\ stack'["graph"] = stack["graph"]
  BY <1>2, <1>3 DEF StackInv, Threads
<1>5. /\ r \in Seq(OwnFrames) /\ PcOf(r) = g.pc /\ ~Unflags(r) /\ Shaped(r)
  <2> DEFINE s == << >>
  <2>1. s \in Seq(OwnFrames) /\ ~Unflags(s) /\ Shaped(s) /\ PcOf(s) = "idle"
    BY <1>1, NothingUnflags
  <2> HIDE DEF s
  <2>2. Push(g, s) \in Seq(OwnFrames)
    BY <2>1, HeldPushFrame
  <2>3. /\ PcOf(Push(g, s)) = g.pc
        /\ Unflags(Push(g, s)) <=> g.pc = "open_unflag" \/ Unflags(s)
        /\ Shaped(s) /\ PcOf(s) \in Below(g.pc) => Shaped(Push(g, s))
    BY <2>1, Tops
  <2> QED
    BY <2>1, <2>2, <2>3 DEF s
<1> HIDE DEF r
<1>6. /\ PcOf(Push(f, r)) = f.pc
      /\ OMDOf(Push(f, r)) = f.omd
      /\ KilledOf(Push(f, r)) <=> f.killed
      /\ Unflags(Push(f, r)) <=> f.pc = "open_unflag" \/ Unflags(r)
      /\ Shaped(Push(f, r))
  BY <1>5, Tops
<1> QED
  BY <1>4, <1>5, <1>6, OtherStays DEF MainIs, MainPc, MainOMD, MainKilled, Unflagging

\* Stacks of one and two frames.
LEMMA Pairs ==
    ASSUME NEW f \in OwnFrames, NEW g \in OwnFrames
    PROVE  /\ << f, g >> \in Seq(OwnFrames) /\ << f >> \in Seq(OwnFrames)
           /\ << f, g >> # << >> /\ << f >> # << >>
           /\ Head(<< f, g >>) = f /\ Head(<< f >>) = f
           /\ Tail(<< f, g >>) = << g >> /\ Tail(<< f >>) = << >>
           /\ << f >> \o << g >> = << f, g >>
           /\ << f >> \o << >> = << f >> /\ << f, g >> \o << >> = << f, g >>
<1>1. /\ << f, g >> \in Seq(OwnFrames) /\ << f >> \in Seq(OwnFrames) /\ << g >> \in Seq(OwnFrames)
      /\ << f, g >> # << >> /\ << f >> # << >>
      /\ Head(<< f, g >>) = f /\ Head(<< f >>) = f
  OBVIOUS
<1>2. << f >> \o << >> = << f >> /\ << f, g >> \o << >> = << f, g >>
  BY <1>1, ConcatEmptySeq
<1>3. << f, g >> \o << >> = Push(f, Push(g, << >>))
  <2> DEFINE s == << >>
  <2>1. s \in Seq(OwnFrames)
    OBVIOUS
  <2> HIDE DEF s
  <2>2. << f, g >> \o s = Push(f, Push(g, s))
    BY <2>1, PushTwo
  <2> QED
    BY <2>2 DEF s
<1>4. Push(g, << >>) = << g >>
  BY <1>1, ConcatEmptySeq DEF Push
<1>5. << f >> \o << g >> = << f, g >>
  BY <1>2, <1>3, <1>4 DEF Push
<1>6. Tail(<< f, g >>) = << g >> /\ Tail(<< f >>) = << >>
  OBVIOUS
<1> QED
  BY <1>1, <1>2, <1>5, <1>6

LEMMA PairTops ==
    \A f, g \in OwnFrames :
        /\ PcOf(<< f, g >>) = f.pc /\ OMDOf(<< f, g >>) = f.omd
        /\ PcOf(<< f >>) = f.pc /\ OMDOf(<< f >>) = f.omd
  BY DEF PcOf, OMDOf

GraphPcs == OpenPrivatePcs \union {"idle", "on_open", "on_close", "close_private", "exited"}

LEMMA GraphKinds ==
    ASSUME StackInv, Shapes
    PROVE  /\ GraphPc \in GraphPcs
           /\ stack["graph"] = << >> <=> GraphPc = "idle"
           /\ GraphPc # "idle" => Top("graph").pc = GraphPc /\ Top("graph").omd = GraphOMD
<1> DEFINE s == stack["graph"]
<1>1. s \in Seq(OwnFrames) /\ GraphShaped(s) /\ GraphPc = PcOf(s) /\ GraphOMD = OMDOf(s)
  BY StacksTyped DEF Shapes, GraphPc, GraphOMD
<1>2. \A pc \in {"on_open", "on_close", "exited", "close_private"} :
          Frame(pc, None) \in OwnFrames /\ Frame(pc, None).pc = pc
  BY FramesTyped DEF Pcs, CarryingPcs, OpenPcs, OpenPrivatePcs, ClosePcs, OtherPcs
<1>3. s # << >> => PcOf(s) = Head(s).pc /\ OMDOf(s) = Head(s).omd
  BY <1>1, Rests
<1> HIDE DEF s
<1>4. CASE s = << >>
  BY <1>1, <1>4 DEF PcOf, GraphPcs, s
<1>5. CASE s # << >>
  <2>1. \E f \in OwnFrames : /\ f.pc \in OpenPrivatePcs \union {"on_open", "on_close", "exited", "close_private"}
                             /\ \/ s = << f >>
                                \/ \E g \in OwnFrames : s = << f, g >>
    BY <1>1, <1>2, <1>5 DEF GraphShaped
  <2>2. PICK f \in OwnFrames : /\ f.pc \in OpenPrivatePcs \union {"on_open", "on_close", "exited", "close_private"}
                               /\ \/ s = << f >>
                                  \/ \E g \in OwnFrames : s = << f, g >>
    BY <2>1
  <2>3. Head(s) = f
    BY <2>2, Pairs
  <2>4. f.pc # "idle"
    BY <2>2 DEF OpenPrivatePcs
  <2> QED
    BY <1>1, <1>3, <1>5, <2>2, <2>3, <2>4 DEF GraphPcs, Top, s
<1> QED
  BY <1>4, <1>5

\* The graph thread goes on within OpenMediaPrivate.
LEMMA GraphGoes ==
    ASSUME StackInv, Shapes, GraphPc \in OpenPrivatePcs, NEW pc \in OpenPrivatePcs,
           Goto("graph", pc)
    PROVE  GraphIs(pc, GraphOMD) /\ MainStays
<1> DEFINE g == Frame("on_open", None)
<1>1. g \in OwnFrames /\ g.pc = "on_open"
  BY FramesTyped DEF Pcs, CarryingPcs, OpenPcs, OpenPrivatePcs, ClosePcs, OtherPcs
<1>2. PICK f \in OwnFrames : f.pc \in OpenPrivatePcs /\ stack["graph"] = << f, g >>
  <2>1. CASE stack["graph"] = << >>
    BY <2>1, GraphKinds DEF OpenPrivatePcs
  <2>2. CASE \E pc1 \in {"on_open", "on_close", "exited"} : stack["graph"] = << Frame(pc1, None) >>
    <3>1. PICK pc1 \in {"on_open", "on_close", "exited"} : stack["graph"] = << Frame(pc1, None) >>
      BY <2>2
    <3>2. Frame(pc1, None) \in OwnFrames /\ Frame(pc1, None).pc = pc1
      BY FramesTyped DEF Pcs, CarryingPcs, OpenPcs, OpenPrivatePcs, ClosePcs, OtherPcs
    <3>3. Top("graph") = Frame(pc1, None) /\ stack["graph"] # << >>
      BY <3>1, <3>2, Pairs DEF Top
    <3> QED
      BY <3>2, <3>3, GraphKinds DEF OpenPrivatePcs
  <2>3. CASE stack["graph"] = << Frame("close_private", None), Frame("on_close", None) >>
    <3>1. /\ Frame("close_private", None) \in OwnFrames /\ Frame("on_close", None) \in OwnFrames
          /\ Frame("close_private", None).pc = "close_private"
      BY FramesTyped DEF Pcs, CarryingPcs, OpenPcs, OpenPrivatePcs, ClosePcs, OtherPcs
    <3>2. Top("graph") = Frame("close_private", None) /\ stack["graph"] # << >>
      BY <2>3, <3>1, Pairs DEF Top
    <3> QED
      BY <3>1, <3>2, GraphKinds DEF OpenPrivatePcs
  <2> QED
    BY <2>1, <2>2, <2>3 DEF Shapes, GraphShaped
<1> HIDE DEF g
<1> DEFINE h == [f EXCEPT !.pc = pc]
<1>3. Top("graph") = f /\ Tail(stack["graph"]) = << g >>
  BY <1>1, <1>2, Pairs DEF Top
<1>4. h \in OwnFrames /\ h.pc = pc /\ h.omd = f.omd
  BY <1>2, Zenon DEF OwnFrames, Frames, CarryingPcs
<1>5. stack' = [stack EXCEPT !["graph"] = << h >> \o << g >>]
  BY <1>2, <1>3 DEF Goto, Becomes
<1> HIDE DEF h
<1>6. stack'["graph"] = << h, g >> /\ stack'["main"] = stack["main"]
  BY <1>1, <1>4, <1>5, Pairs DEF StackInv, Threads
<1>7. PcOf(stack'["graph"]) = h.pc /\ OMDOf(stack'["graph"]) = h.omd
  BY <1>1, <1>4, <1>6, PairTops
<1>8. GraphShaped(stack'["graph"])
  BY <1>4, <1>6 DEF GraphShaped, g
<1>9. GraphOMD = f.omd
  BY <1>1, <1>2, <1>3, GraphKinds DEF OpenPrivatePcs
<1> QED
  BY <1>4, <1>6, <1>7, <1>8, <1>9, OtherStays DEF GraphIs, GraphPc, GraphOMD

LEMMA GraphFrames ==
    /\ \A pc \in {"on_open", "on_close", "exited", "close_private"} :
           Frame(pc, None) \in OwnFrames /\ Frame(pc, None).pc = pc
    /\ \A omd \in Media : /\ Frame("private_start", omd) \in OwnFrames
                          /\ Frame("private_start", omd).pc = "private_start"
                          /\ Frame("private_start", omd).omd = omd
  BY FramesTyped DEF Pcs, CarryingPcs, OpenPcs, OpenPrivatePcs, ClosePcs, OtherPcs

\* The graph thread returns from what it was doing.
LEMMA GraphReturns ==
    ASSUME StackInv, Shapes, stack["graph"] # << >>, Return("graph")
    PROVE  /\ GraphPc' = IF GraphPc \in OpenPrivatePcs THEN "on_open"
                         ELSE IF GraphPc = "close_private" THEN "on_close" ELSE "idle"
           /\ GraphShaped(stack'["graph"])
           /\ MainStays
<1>1. stack' = [stack EXCEPT !["graph"] = Tail(stack["graph"])]
  BY StacksTyped, Returned
<1>2. stack'["graph"] = Tail(stack["graph"]) /\ stack'["main"] = stack["main"]
  BY <1>1 DEF StackInv, Threads
<1>3. /\ Frame("on_open", None) \in OwnFrames /\ Frame("on_open", None).pc = "on_open"
      /\ Frame("on_close", None) \in OwnFrames /\ Frame("on_close", None).pc = "on_close"
      /\ Frame("close_private", None) \in OwnFrames
      /\ Frame("close_private", None).pc = "close_private"
  BY GraphFrames
<1>4. CASE \E pc \in {"on_open", "on_close", "exited"} : stack["graph"] = << Frame(pc, None) >>
  <2>1. PICK pc \in {"on_open", "on_close", "exited"} : stack["graph"] = << Frame(pc, None) >>
    BY <1>4
  <2>2. Frame(pc, None) \in OwnFrames /\ Frame(pc, None).pc = pc
    BY GraphFrames
  <2>3. GraphPc = pc /\ stack'["graph"] = << >>
    BY <1>2, <2>1, <2>2, Pairs, PairTops DEF GraphPc
  <2> QED
    BY <1>2, <2>3, OtherStays DEF GraphPc, PcOf, GraphShaped, OpenPrivatePcs
<1>5. CASE \E f \in OwnFrames : f.pc \in OpenPrivatePcs /\ stack["graph"] = << f, Frame("on_open", None) >>
  <2>1. PICK f \in OwnFrames :
            f.pc \in OpenPrivatePcs /\ stack["graph"] = << f, Frame("on_open", None) >>
    BY <1>5
  <2>2. GraphPc = f.pc /\ stack'["graph"] = << Frame("on_open", None) >>
    BY <1>2, <1>3, <2>1, Pairs, PairTops DEF GraphPc
  <2>3. GraphPc' = "on_open"
    BY <1>3, <2>2, PairTops DEF GraphPc
  <2> QED
    BY <1>2, <2>1, <2>2, <2>3, OtherStays DEF GraphShaped
<1>6. CASE stack["graph"] = << Frame("close_private", None), Frame("on_close", None) >>
  <2>1. GraphPc = "close_private" /\ stack'["graph"] = << Frame("on_close", None) >>
    BY <1>2, <1>3, <1>6, Pairs, PairTops DEF GraphPc
  <2>2. GraphPc' = "on_close"
    BY <1>3, <2>1, PairTops DEF GraphPc
  <2> QED
    BY <1>2, <2>1, <2>2, OtherStays DEF GraphShaped, OpenPrivatePcs
<1> QED
  BY <1>4, <1>5, <1>6 DEF Shapes, GraphShaped

\* The graph thread starts on a message.
LEMMA GraphEnters ==
    ASSUME StackInv, Shapes, stack["graph"] = << >>,
           \/ \E pc \in {"on_open", "on_close", "exited"} : Enter("graph", << Frame(pc, None) >>)
           \/ \E omd \in Media :
                  Enter("graph", << Frame("private_start", omd), Frame("on_open", None) >>)
           \/ Enter("graph", << Frame("close_private", None), Frame("on_close", None) >>)
    PROVE  /\ GraphShaped(stack'["graph"])
           /\ MainStays
           /\ \A pc \in {"on_open", "on_close", "exited"} :
                  Enter("graph", << Frame(pc, None) >>) => GraphPc' = pc
           /\ \A omd \in Media :
                  Enter("graph", << Frame("private_start", omd), Frame("on_open", None) >>)
                      => GraphPc' = "private_start" /\ GraphOMD' = omd
           /\ Enter("graph", << Frame("close_private", None), Frame("on_close", None) >>)
                  => GraphPc' = "close_private"
<1>1. /\ Frame("on_open", None) \in OwnFrames /\ Frame("on_open", None).pc = "on_open"
      /\ Frame("on_close", None) \in OwnFrames /\ Frame("on_close", None).pc = "on_close"
      /\ Frame("close_private", None) \in OwnFrames
      /\ Frame("close_private", None).pc = "close_private"
  BY GraphFrames
<1>2. stack'["main"] = stack["main"]
  BY StacksTyped DEF StackInv, Threads, Enter
<1>3. ASSUME NEW pc \in {"on_open", "on_close", "exited"}, Enter("graph", << Frame(pc, None) >>)
      PROVE  GraphPc' = pc /\ GraphShaped(stack'["graph"])
  <2> DEFINE f == Frame(pc, None)
  <2>1. f \in OwnFrames /\ f.pc = pc
    BY GraphFrames
  <2>2. stack'["graph"] = << f >> \o << >>
    BY <1>3 DEF Enter, StackInv, Threads
  <2> HIDE DEF f
  <2>3. stack'["graph"] = << f >>
    BY <2>1, <2>2, Pairs
  <2>4. GraphPc' = pc
    BY <2>1, <2>3, PairTops DEF GraphPc
  <2> QED
    BY <2>3, <2>4 DEF GraphShaped, f
<1>4. ASSUME NEW omd \in Media,
             Enter("graph", << Frame("private_start", omd), Frame("on_open", None) >>)
      PROVE  GraphPc' = "private_start" /\ GraphOMD' = omd /\ GraphShaped(stack'["graph"])
  <2> DEFINE f == Frame("private_start", omd)
             g == Frame("on_open", None)
  <2>1. f \in OwnFrames /\ f.pc = "private_start" /\ f.omd = omd /\ g \in OwnFrames
    BY GraphFrames
  <2>2. stack'["graph"] = << f, g >> \o << >>
    BY <1>4 DEF Enter, StackInv, Threads
  <2> HIDE DEF f, g
  <2>3. stack'["graph"] = << f, g >>
    BY <2>1, <2>2, Pairs
  <2>4. GraphPc' = "private_start" /\ GraphOMD' = omd
    BY <2>1, <2>3, PairTops DEF GraphPc, GraphOMD
  <2> QED
    BY <2>1, <2>3, <2>4 DEF GraphShaped, OpenPrivatePcs, g
<1>5. ASSUME Enter("graph", << Frame("close_private", None), Frame("on_close", None) >>)
      PROVE  GraphPc' = "close_private" /\ GraphShaped(stack'["graph"])
  <2> DEFINE f == Frame("close_private", None)
             g == Frame("on_close", None)
  <2>1. f \in OwnFrames /\ f.pc = "close_private" /\ g \in OwnFrames
    BY GraphFrames
  <2>2. stack'["graph"] = << f, g >> \o << >>
    BY <1>5 DEF Enter, StackInv, Threads
  <2> HIDE DEF f, g
  <2>3. stack'["graph"] = << f, g >>
    BY <2>1, <2>2, Pairs
  <2>4. GraphPc' = "close_private"
    BY <2>1, <2>3, PairTops DEF GraphPc
  <2> QED
    BY <2>3, <2>4 DEF GraphShaped, f, g
<1> QED
  BY <1>2, <1>3, <1>4, <1>5, OtherStays

\* A message for which the main thread waits is handled: only that frame goes on.
LEMMA MainAnswered ==
    ASSUME StackInv, Shapes,
           stack' = [stack EXCEPT !["main"] =
               [i \in DOMAIN @ |-> IF @[i].pc = "call_wait"
                                   THEN [@[i] EXCEPT !.pc = "call_done"] ELSE @[i]]]
    PROVE  /\ MainIs(IF MainPc = "call_wait" THEN "call_done" ELSE MainPc, MainOMD, MainKilled)
           /\ Unflagging' <=> Unflagging
           /\ GraphStays
<1> DEFINE s == stack["main"]
           r == stack'["main"]
<1>1. /\ r \in Seq(OwnFrames)
      /\ stack'["graph"] = stack["graph"]
      /\ Len(r) = Len(s)
      /\ \A i \in 1..Len(s) : r[i] = IF s[i].pc = "call_wait"
                                     THEN [s[i] EXCEPT !.pc = "call_done"] ELSE s[i]
  BY AnsweredTyped DEF StackInv, Threads
<1>2. s \in Seq(OwnFrames) /\ Shaped(s) /\ Len(s) \in Nat
  BY StacksTyped, LenProperties DEF Shapes
<1>3. \A i \in 1..Len(s) : s[i] \in OwnFrames
  BY <1>2, ElementOfSeq
<1>4. /\ MainPc = PcOf(s) /\ MainOMD = OMDOf(s) /\ (MainKilled <=> KilledOf(s))
      /\ Unflagging <=> Unflags(s)
      /\ MainPc' = PcOf(r) /\ MainOMD' = OMDOf(r) /\ (MainKilled' <=> KilledOf(r))
      /\ Unflagging' <=> Unflags(r)
  BY DEF MainPc, MainOMD, MainKilled, Unflagging
<1> HIDE DEF s, r
<1>5. \A i \in 1..Len(s) :
          /\ r[i].pc = IF s[i].pc = "call_wait" THEN "call_done" ELSE s[i].pc
          /\ r[i].omd = s[i].omd /\ (r[i].killed <=> s[i].killed)
  BY <1>1, <1>3 DEF OwnFrames, Frames
<1>6. r = << >> <=> s = << >>
  BY <1>1, <1>2, EmptySeq
<1>7. s # << >> => 1 \in 1..Len(s)
  BY <1>2, EmptySeq
<1>8. /\ PcOf(r) = IF PcOf(s) = "call_wait" THEN "call_done" ELSE PcOf(s)
      /\ OMDOf(r) = OMDOf(s) /\ (KilledOf(r) <=> KilledOf(s))
  BY <1>5, <1>6, <1>7 DEF PcOf, OMDOf, KilledOf
<1>9. Unflags(r) <=> Unflags(s)
  BY <1>1, <1>5 DEF Unflags
<1>10. Shaped(r)
  <2> SUFFICES ASSUME NEW i \in 1..Len(r)
               PROVE  (IF i = Len(r) THEN "idle" ELSE r[i + 1].pc) \in Below(r[i].pc)
    BY DEF Shaped
  <2>1. (IF i = Len(s) THEN "idle" ELSE s[i + 1].pc) \in Below(s[i].pc)
    BY <1>1, <1>2 DEF Shaped
  <2>2. Below(r[i].pc) = Below(s[i].pc)
    BY <1>1, <1>5 DEF Below, ClosePcs
  <2>3. \A pc \in Below(s[i].pc) : pc # "call_wait"
    BY DEF Below
  <2>4. i # Len(s) => r[i + 1].pc = s[i + 1].pc
    <3>1. i # Len(s) => i + 1 \in 1..Len(s)
      BY <1>1, <1>2
    <3> QED
      BY <1>5, <2>1, <2>3, <3>1
  <2> QED
    BY <1>1, <2>1, <2>2, <2>4
<1> QED
  BY <1>1, <1>4, <1>8, <1>9, <1>10, OtherStays DEF MainIs, r

-----------------------------------------------------------------------------
(* Steps on the queues. *)

OrdersStay == (OpenAsked' <=> OpenAsked) /\ (CloseAsked' <=> CloseAsked) /\ OneRequest'
OthersStay == (CallAsked' <=> CallAsked) /\ (ExitAsked' <=> ExitAsked)
AsksStay == OrdersStay /\ OthersStay
NoAsks == ~OpenAsked' /\ ~CloseAsked' /\ OneRequest'

LEMMA SameAsks == ASSUME Shapes, UNCHANGED messages PROVE AsksStay
  BY DEF Shapes, AsksStay, OrdersStay, OthersStay, OpenAsked, CloseAsked, CallAsked, ExitAsked,
         Asks, OneRequest

LEMMA EmptyAsks == ASSUME messages' = << >> PROVE NoAsks /\ ~ExitAsked'
  BY DEF NoAsks, OpenAsked, CloseAsked, ExitAsked, Asks, OneRequest

LEMMA AppendAsks ==
    ASSUME messages \in Seq(Requests), OneRequest, NEW m \in Requests,
           messages' = Append(messages, m)
    PROVE  /\ OpenAsked' <=> OpenAsked \/ m.msg = "TM_OPEN"
           /\ CloseAsked' <=> CloseAsked \/ m.msg = "TM_CLOSE"
           /\ CallAsked' <=> CallAsked \/ m.msg = "TM_CALL"
           /\ ExitAsked' <=> ExitAsked \/ m.msg = "TM_EXIT"
           /\ \/ m.msg \notin {"TM_OPEN", "TM_CLOSE"}
              \/ ~OpenAsked /\ ~CloseAsked
              => OneRequest'
<1>1. /\ Len(messages') = Len(messages) + 1 /\ messages'[Len(messages) + 1] = m
      /\ \A i \in 1..Len(messages) : messages'[i] = messages[i]
      /\ Len(messages) \in Nat
  BY AppendProperties, LenProperties
<1>2. 1..Len(messages') = 1..Len(messages) \union {Len(messages) + 1}
  BY <1>1
<1>3. \A kind : Asks(kind)' <=> Asks(kind) \/ m.msg = kind
  BY <1>1, <1>2 DEF Asks
<1>4. ASSUME \/ m.msg \notin {"TM_OPEN", "TM_CLOSE"}
             \/ ~OpenAsked /\ ~CloseAsked
      PROVE  OneRequest'
  <2> SUFFICES ASSUME NEW i \in 1..Len(messages'), NEW j \in 1..Len(messages'),
                      messages'[i].msg \in {"TM_OPEN", "TM_CLOSE"},
                      messages'[j].msg \in {"TM_OPEN", "TM_CLOSE"}
               PROVE  i = j
    BY DEF OneRequest
  <2>1. CASE m.msg \notin {"TM_OPEN", "TM_CLOSE"}
    BY <1>1, <1>2, <2>1 DEF OneRequest
  <2>2. CASE ~OpenAsked /\ ~CloseAsked
    BY <1>1, <1>2, <2>2 DEF OpenAsked, CloseAsked, Asks
  <2> QED
    BY <1>4, <2>1, <2>2
<1> QED
  BY <1>3, <1>4 DEF OpenAsked, CloseAsked, CallAsked, ExitAsked

LEMMA TailAsks ==
    ASSUME messages \in Seq(Requests), OneRequest, messages # << >>, messages' = Tail(messages)
    PROVE  /\ Head(messages).msg \in {"TM_OPEN", "TM_CLOSE"} => NoAsks
           /\ Head(messages).msg \notin {"TM_OPEN", "TM_CLOSE"} => OrdersStay
           /\ Head(messages).msg # "TM_CALL" => (CallAsked' <=> CallAsked)
           /\ ExitAsked <=> ExitAsked' \/ Head(messages).msg = "TM_EXIT"
           /\ Head(messages).msg = "TM_OPEN" => OpenAsked
           /\ Head(messages).msg = "TM_CLOSE" => CloseAsked
<1>1. /\ Len(messages) \in Nat \ {0} /\ Head(messages) = messages[1]
      /\ Len(messages') = Len(messages) - 1
      /\ \A i \in 1..(Len(messages) - 1) : messages'[i] = messages[i + 1]
  BY TailProperties
<1>2. \A kind : Asks(kind) <=> Asks(kind)' \/ Head(messages).msg = kind
  <2> SUFFICES ASSUME NEW kind PROVE Asks(kind) <=> Asks(kind)' \/ Head(messages).msg = kind
    OBVIOUS
  <2>1. ASSUME NEW i \in 1..Len(messages), messages[i].msg = kind, i # 1 PROVE Asks(kind)'
    <3>1. i - 1 \in 1..Len(messages') /\ (i - 1) + 1 = i
      BY <1>1, <2>1
    <3>2. messages'[i - 1].msg = kind
      BY <1>1, <2>1, <3>1
    <3> QED
      BY <3>1, <3>2 DEF Asks
  <2>2. ASSUME NEW i \in 1..Len(messages'), messages'[i].msg = kind PROVE Asks(kind)
    <3>1. i + 1 \in 1..Len(messages) /\ messages[i + 1].msg = kind
      BY <1>1, <2>2
    <3> QED
      BY <3>1 DEF Asks
  <2>3. Head(messages).msg = kind => Asks(kind)
    BY <1>1 DEF Asks
  <2> QED
    BY <1>1, <2>1, <2>2, <2>3 DEF Asks
<1>3. OneRequest'
  <2> SUFFICES ASSUME NEW i \in 1..Len(messages'), NEW j \in 1..Len(messages'),
                      messages'[i].msg \in {"TM_OPEN", "TM_CLOSE"},
                      messages'[j].msg \in {"TM_OPEN", "TM_CLOSE"}
               PROVE  i = j
    BY DEF OneRequest
  <2>1. i + 1 \in 1..Len(messages) /\ j + 1 \in 1..Len(messages)
    BY <1>1
  <2>2. i + 1 = j + 1
    BY <1>1, <2>1 DEF OneRequest
  <2> QED
    BY <1>1, <2>2
<1>4. ASSUME Head(messages).msg \in {"TM_OPEN", "TM_CLOSE"} PROVE ~OpenAsked' /\ ~CloseAsked'
  <2> SUFFICES ASSUME NEW i \in 1..Len(messages'), messages'[i].msg \in {"TM_OPEN", "TM_CLOSE"}
               PROVE  FALSE
    BY DEF OpenAsked, CloseAsked, Asks
  <2>1. i + 1 \in 1..Len(messages) /\ messages[i + 1].msg \in {"TM_OPEN", "TM_CLOSE"} /\ i + 1 # 1
    BY <1>1
  <2> QED
    BY <1>1, <1>4, <2>1 DEF OneRequest
<1> QED
  BY <1>2, <1>3, <1>4 DEF OpenAsked, CloseAsked, CallAsked, ExitAsked, NoAsks, OrdersStay

\* A purge of the only result takes it if it is of the kind.
LEMMA PurgeTakes ==
    ASSUME NEW kind, NEW r, window = << >> \/ window = << r >>, Purge(kind)
    PROVE  /\ window = << >> => window' = << >>
           /\ window = << r >> => window' = IF r.msg = kind THEN << >> ELSE window
<1>1. CASE window = << >>
  <2>1. Peeked(kind) = {}
    BY <1>1 DEF Peeked
  <2> QED
    BY <1>1, <2>1 DEF Purge
<1>2. CASE window = << r >>
  <2>1. DOMAIN window = {1} /\ window[1] = r /\ Len(window) = 1 /\ window \in Seq({r})
    BY <1>2
  <2>2. r.msg = kind => Peeked(kind) = {1}
    BY <2>1 DEF Peeked
  <2>3. r.msg # kind => Peeked(kind) = {}
    BY <2>1 DEF Peeked
  <2>4. RemoveAt(window, 1) = << >>
    <3> DEFINE S == {r}
               k == 1
    <3>1. window \in Seq(S) /\ k \in 1..Len(window)
      BY <2>1
    <3> HIDE DEF S, k
    <3>2. RemoveAt(window, k) \in Seq(S) /\ Len(RemoveAt(window, k)) = Len(window) - 1
      BY <3>1, RemoveAtProperties
    <3> QED
      BY <2>1, <3>2, EmptySeq DEF k
  <2>5. << >> # << r >>
    OBVIOUS
  <2> QED
    BY <1>2, <2>2, <2>3, <2>4, <2>5 DEF Purge
<1> QED
  BY <1>1, <1>2

-----------------------------------------------------------------------------
(* The protocol is kept by every step. *)

LEMMA AtPc ==
    ASSUME StackInv, NEW t \in Threads, NEW pc, At(t, pc)
    PROVE  /\ stack[t] # << >> /\ Top(t).pc = pc
           /\ t = "main" => MainPc = pc /\ MainOMD = Top(t).omd /\ (MainKilled <=> Top(t).killed)
           /\ t = "graph" => GraphPc = pc /\ GraphOMD = Top(t).omd
  BY StacksTyped, Rests DEF At, Top, MainPc, MainOMD, MainKilled, GraphPc, GraphOMD

LEMMA OpenKeeps ==
    ASSUME TypeInv, Shapes, Proto, NEW t \in Threads, Open(t), NotHandedInside'
    PROVE  Shapes' /\ Proto'
<1> USE DEF Pcs, CarryingPcs, OpenPcs, OpenPrivatePcs, ClosePcs, OtherPcs, GraphPcs, Below,
            LoadPcs, AbortPcs, OnOpenPcs, OnClosePcs, GraphIs, GraphStays, MainIs, AsksStay,
            OrdersStay, OthersStay
<1>0. StackInv /\ GraphPc \in GraphPcs /\ (UNCHANGED messages => AsksStay)
  BY GraphKinds, SameAsks DEF TypeInv
<1>1. t = "main"
  BY <1>0, AtPc DEF Open, OpenCloses, OpenActivates, OpenPromptAnswered, OpenLoads, OpenFlags,
        Threads
<1>2. ASSUME OpenCloses(t) PROVE Shapes' /\ Proto'
  <2>1. stack["main"] # << >> /\ MainPc = "open_wait"
    BY <1>0, <1>1, <1>2, AtPc DEF OpenCloses
  <2>2. /\ UNCHANGED <<loadState, openedThroughThread, openingAborted, evOpen, evClose, window,
                       graph, lastOMD>>
        /\ AsksStay
    BY <1>0, <1>2 DEF OpenCloses, flags, events
  <2>3. /\ MainPc' \in {"close_enter", "open_active"} /\ GraphStays /\ Shaped(stack'["main"])
        /\ MainPc' = "close_enter" => ~MainKilled'
        /\ MainPc' = "open_active" => loadState = "CLOSED"
        /\ Unflagging' <=> Unflagging
    <3>1. CASE loadState # "CLOSED"
      <4>1. Call("main", Frame("close_enter", None), "open_active")
        BY <1>1, <1>2, <3>1 DEF OpenCloses
      <4>2. /\ Frame("close_enter", None) \in OwnFrames
            /\ Frame("close_enter", None).pc = "close_enter" /\ ~Frame("close_enter", None).killed
        BY FramesTyped DEF Frame
      <4> QED
        BY <1>0, <2>1, <4>1, <4>2, MainCallsOn
    <3>2. CASE loadState = "CLOSED"
      <4>1. Goto("main", "open_active")
        BY <1>1, <1>2, <3>2 DEF OpenCloses
      <4> QED
        BY <1>0, <2>1, <3>2, <4>1, MainGoes
    <3> QED
      BY <3>1, <3>2
  <2>4. Shapes'
    BY <2>2, <2>3 DEF Shapes
  <2>5. Proto'
    BY <1>0, <2>1, <2>2, <2>3
    DEF Proto, OpenAlone, OpenFresh, OpenEnds, CloseAlone, CloseEnds, Destroys, Flagged, Unflagged,
        KilledIdle, OneResult, ResultOf, GraphBuilds, BuiltAt, MainBuilds, Aborting, Closes,
        Closed, CallEnds, ExitAlone,
        Carried, GraphIdle
  <2> QED
    BY <2>4, <2>5
<1>3. ASSUME OpenActivates(t) \/ OpenPromptAnswered(t) PROVE Shapes' /\ Proto'
  <2>1. stack["main"] # << >> /\ MainPc \in {"open_active", "open_prompt"}
    BY <1>0, <1>1, <1>3, AtPc DEF OpenActivates, OpenPromptAnswered
  <2>2. /\ UNCHANGED <<loadState, openedThroughThread, openingAborted, evOpen, evClose, window,
                       graph, lastOMD>>
        /\ AsksStay
    BY <1>0, <1>3 DEF OpenActivates, OpenPromptAnswered, flags, events
  <2>3. /\ MainPc' \in {"open_load", "open_prompt", "idle", "open_unflag"} /\ GraphStays
        /\ Shaped(stack'["main"])
        /\ Unflagging' <=> Unflagging
    <3>1. \/ \E pc \in {"open_load", "open_prompt"} : Goto("main", pc)
          \/ Return("main")
      BY <1>1, <1>3 DEF OpenActivates, OpenPromptAnswered
    <3> QED
      BY <1>0, <2>1, <3>1, MainGoes, MainReturns
  <2>4. Shapes'
    BY <2>2, <2>3 DEF Shapes
  <2>5. Proto'
    BY <1>0, <2>1, <2>2, <2>3
    DEF Proto, OpenAlone, OpenFresh, OpenEnds, CloseAlone, CloseEnds, Destroys, Flagged, Unflagged,
        KilledIdle, OneResult, ResultOf, GraphBuilds, BuiltAt, MainBuilds, Aborting, Closes,
        Closed, CallEnds, ExitAlone,
        Carried, GraphIdle
  <2> QED
    BY <2>4, <2>5
<1>4. ASSUME OpenLoads(t) PROVE Shapes' /\ Proto'
  <2>1. stack["main"] # << >> /\ MainPc = "open_load" /\ MainOMD = Top(t).omd
    BY <1>0, <1>1, <1>4, AtPc DEF OpenLoads
  <2>2. /\ loadState' = "LOADING"
        /\ UNCHANGED <<openedThroughThread, openingAborted, evClose, window, graph, lastOMD>>
    BY <1>0, <1>4 DEF OpenLoads, flags
  <2>3. loadState = "CLOSED" /\ GraphIdle /\ graph = None /\ window = << >>
    BY <2>1 DEF Proto, Closed
  <2>4. MainOMD \in Media
    BY <1>0, <1>1, <2>1, TopTyped DEF OwnFrames, MainPc, PcOf
  <2>5. CASE MainOMD \notin MainMedia
    <3> DEFINE m == [msg |-> "TM_OPEN", omd |-> MainOMD]
    <3>1. /\ evOpen' = FALSE /\ messages' = Append(messages, m)
          /\ Becomes("main", << Frame("open_flag", None) >>)
      BY <1>1, <1>4, <2>1, <2>5 DEF OpenLoads, Reset
    <3>2. m \in Requests /\ m.msg = "TM_OPEN"
      BY <2>4 DEF Requests
    <3> HIDE DEF m
    <3>3. OpenAsked' /\ ~CloseAsked' /\ OneRequest' /\ OthersStay
      BY <1>0, <2>3, <3>1, <3>2, AppendAsks DEF TypeInv, Shapes, GraphIdle
    <3>4. Frame("open_flag", None) \in OwnFrames /\ Frame("open_flag", None).pc = "open_flag"
      BY FramesTyped
    <3>5. MainPc' = "open_flag" /\ GraphStays /\ Shaped(stack'["main"])
      BY <1>0, <2>1, <3>1, <3>4, MainBecomes
    <3>6. ~Unflagging'
      BY <3>5 DEF NotHandedInside
    <3>7. Shapes'
      BY <3>3, <3>5 DEF Shapes
    <3>8. Proto'
      BY <1>0, <2>1, <2>2, <2>3, <3>1, <3>3, <3>5, <3>6
      DEF Proto, OpenAlone, OpenFresh, OpenEnds, CloseAlone, CloseEnds, Destroys, Flagged,
        Unflagged,
        KilledIdle, OneResult, ResultOf, GraphBuilds, BuiltAt, MainBuilds, Aborting, Closes,
        Closed, CallEnds, ExitAlone,
        Carried, GraphIdle
    <3> QED
      BY <3>7, <3>8
  <2>6. CASE MainOMD \in MainMedia
    <3> DEFINE f == Frame("private_start", MainOMD)
               g == Frame("open_unflag", None)
    <3>1. UNCHANGED <<evOpen, messages>> /\ Becomes("main", << f, g >>)
      BY <1>1, <1>4, <2>1, <2>6 DEF OpenLoads
    <3>2. /\ f \in OwnFrames /\ f.pc = "private_start" /\ f.omd = MainOMD
          /\ g \in OwnFrames /\ g.pc = "open_unflag"
      BY <2>4, FramesTyped
    <3> HIDE DEF f, g
    <3>3. MainPc' = "private_start" /\ GraphStays /\ Shaped(stack'["main"])
      BY <1>0, <2>1, <3>1, <3>2, MainBecomesTwo
    <3>4. AsksStay
      BY <1>0, <3>1
    <3>5. Shapes'
      BY <3>3, <3>4 DEF Shapes
    <3>6. Proto'
      BY <1>0, <2>1, <2>2, <2>3, <3>1, <3>3, <3>4
      DEF Proto, OpenAlone, OpenFresh, OpenEnds, CloseAlone, CloseEnds, Destroys, Flagged,
        Unflagged,
        KilledIdle, OneResult, ResultOf, GraphBuilds, BuiltAt, MainBuilds, Aborting, Closes,
        Closed, CallEnds, ExitAlone,
        Carried, GraphIdle
    <3> QED
      BY <3>5, <3>6
  <2> QED
    BY <2>5, <2>6
<1>5. ASSUME OpenFlags(t) PROVE Shapes' /\ Proto'
  <2>1. stack["main"] # << >> /\ MainPc \in {"open_flag", "open_unflag"}
    BY <1>0, <1>1, <1>5, AtPc DEF OpenFlags
  <2>2. /\ UNCHANGED <<loadState, openingAborted, evOpen, evClose, window, graph, lastOMD>>
        /\ AsksStay
        /\ openedThroughThread' \in BOOLEAN
        /\ MainPc = "open_flag" => openedThroughThread' = TRUE
    <3>1. At("main", "open_unflag") => MainPc = "open_unflag"
      BY <1>0, StacksTyped, AtPc
    <3> QED
      BY <1>0, <1>1, <1>5, <3>1 DEF OpenFlags, events
  <2>3. MainPc = "open_unflag" => Unflagging
    BY <1>0, <2>1, StacksTyped, Rests DEF MainPc, Unflagging
  <2>4. /\ MainPc' \in {"idle", "open_unflag"} /\ GraphStays /\ Shaped(stack'["main"])
        /\ Unflagging' => Unflagging
    BY <1>0, <1>1, <1>5, <2>1, MainReturns DEF OpenFlags
  <2>5. Shapes'
    BY <2>2, <2>4 DEF Shapes
  <2>6. Proto'
    BY <1>0, <2>1, <2>2, <2>3, <2>4
    DEF Proto, OpenAlone, OpenFresh, OpenEnds, CloseAlone, CloseEnds, Destroys, Flagged, Unflagged,
        KilledIdle, OneResult, ResultOf, GraphBuilds, BuiltAt, MainBuilds, Aborting, Closes,
        Closed, CallEnds, ExitAlone,
        Carried, GraphIdle
  <2> QED
    BY <2>5, <2>6
<1> QED
  BY <1>2, <1>3, <1>4, <1>5 DEF Open

\* A step within a procedure ends at it.
LEMMA AtNext ==
    ASSUME StackInv, NEW t \in Threads, stack[t] # << >>, NEW pc \in Pcs, Goto(t, pc),
           pc \in CarryingPcs <=> Top(t).pc \in CarryingPcs
    PROVE  At(t, pc)'
<1> DEFINE f == [Top(t) EXCEPT !.pc = pc]
<1>1. f \in OwnFrames /\ Top(t) \in OwnFrames /\ Tail(stack[t]) \in Seq(OwnFrames)
  BY NextStepTyped, TopTyped
<1>2. f.pc = pc
  BY <1>1 DEF OwnFrames, Frames
<1>3. stack' = [stack EXCEPT ![t] = Push(f, Tail(stack[t]))]
  BY DEF Goto, Becomes, Push
<1> HIDE DEF f
<1>4. stack'[t] = Push(f, Tail(stack[t]))
  BY <1>3 DEF StackInv
<1>5. Push(f, Tail(stack[t])) # << >> /\ Head(Push(f, Tail(stack[t]))) = f
  <2> DEFINE s == Tail(stack[t])
  <2>1. s \in Seq(OwnFrames)
    BY <1>1
  <2> HIDE DEF s
  <2>2. Push(f, s) # << >> /\ Head(Push(f, s)) = f
    BY <1>1, <2>1, PushProperties
  <2> QED
    BY <2>2 DEF s
<1> QED
  BY <1>2, <1>4, <1>5 DEF At

LEMMA PrivateKeeps ==
    ASSUME TypeInv, Shapes, Proto, NEW t \in Threads, Private(t) \/ PrivateRenders(t),
           ResultsOnMain'
    PROVE  Shapes' /\ Proto'
<1> USE DEF Pcs, CarryingPcs, OpenPcs, OpenPrivatePcs, ClosePcs, OtherPcs, GraphPcs, Below,
            LoadPcs, AbortPcs, OnOpenPcs, OnClosePcs, GraphIs, GraphStays, MainIs, MainStays,
            AsksStay, OrdersStay, OthersStay
<1>0. /\ StackInv /\ GraphPc \in GraphPcs /\ "main" \in Threads /\ "graph" \in Threads
      /\ UNCHANGED messages => AsksStay
  BY GraphKinds, SameAsks DEF TypeInv, Threads
<1>1. ASSUME \/ PrivateRenders(t) \/ DialogCreated(t) \/ DialogDeleted(t)
             \/ PrivateChecks(t) \/ PrivateCreates(t)
      PROVE  Shapes' /\ Proto'
  <2>1. PICK from \in OpenPrivatePcs : At(t, from) /\ (PrivateCreates(t) <=> from = "private_start")
    <3>1. \A pc : At(t, pc) => \A other : At(t, other) => other = pc
      BY DEF At
    <3> QED
      BY <1>1, <3>1
      DEF PrivateRenders, DialogCreated, DialogDeleted, PrivateChecks, PrivateCreates
  <2>2. /\ stack[t] # << >> /\ Top(t).pc = from
        /\ t = "main" => MainPc = from /\ MainOMD = Top(t).omd
        /\ t = "graph" => GraphPc = from /\ GraphOMD = Top(t).omd
    BY <1>0, <2>1, AtPc
  <2>3. /\ UNCHANGED <<loadState, openedThroughThread, openingAborted, evOpen, evClose, window,
                       lastOMD>>
        /\ AsksStay
    BY <1>0, <1>1
    DEF PrivateRenders, DialogCreated, DialogDeleted, PrivateChecks, PrivateCreates,
        OpenCreateGraphObject, flags, events
  <2>4. PICK pc \in OpenPrivatePcs \ {"private_start"} :
            /\ Goto(t, pc)
            /\ \/ from = "private_start" /\ graph' = Top(t).omd
               \/ from = "private_start" /\ UNCHANGED graph /\ pc = "private_err"
               \/ from \notin {"private_start", "private_err"} /\ UNCHANGED graph
    <3>1. \A pc : At(t, pc) => pc = from
      BY <2>1 DEF At
    <3> QED
      BY <1>1, <2>1, <3>1
      DEF PrivateRenders, DialogCreated, DialogDeleted, PrivateChecks, PrivateCreates,
          OpenCreateGraphObject
  <2>5. CASE t = "main"
    <3>1. MainIs(pc, MainOMD, MainKilled) /\ (Unflagging' <=> Unflagging) /\ GraphStays
      BY <1>0, <2>2, <2>4, <2>5, MainGoes
    <3>2. Shapes'
      BY <2>3, <3>1 DEF Shapes
    <3>3. Proto'
      BY <1>0, <2>2, <2>3, <2>4, <2>5, <3>1
      DEF Proto, OpenAlone, OpenFresh, OpenEnds, CloseAlone, CloseEnds, Destroys, Flagged,
        Unflagged,
        KilledIdle, OneResult, ResultOf, GraphBuilds, BuiltAt, MainBuilds, Aborting, Closes,
        Closed, CallEnds, ExitAlone,
        Carried, GraphIdle
    <3> QED
      BY <3>2, <3>3
  <2>6. CASE t = "graph"
    <3>1. GraphIs(pc, GraphOMD) /\ MainStays
      BY <1>0, <2>2, <2>4, <2>6, GraphGoes
    <3>2. Shapes'
      BY <2>3, <3>1 DEF Shapes
    <3>3. Proto'
      BY <1>0, <2>2, <2>3, <2>4, <2>6, <3>1
      DEF Proto, OpenAlone, OpenFresh, OpenEnds, CloseAlone, CloseEnds, Destroys, Flagged,
        Unflagged,
        KilledIdle, OneResult, ResultOf, GraphBuilds, BuiltAt, MainBuilds, Aborting, Closes,
        Closed, CallEnds, ExitAlone,
        Carried, GraphIdle
    <3> QED
      BY <3>2, <3>3
  <2> QED
    BY <2>5, <2>6 DEF Threads
<1>2. ASSUME DialogShown(t) PROVE Shapes' /\ Proto'
  <2>1. /\ UNCHANGED <<loadState, openedThroughThread, openingAborted, evOpen, evClose, window,
                       graph, lastOMD, stack>>
        /\ AsksStay
    BY <1>0, <1>2 DEF DialogShown, flags, events
  <2>2. MainStays /\ GraphStays
    BY <2>1, OtherStays
  <2>3. Shapes'
    BY <2>1, <2>2 DEF Shapes
  <2>4. Proto'
    BY <2>1, <2>2
    DEF Proto, OpenAlone, OpenFresh, OpenEnds, CloseAlone, CloseEnds, Destroys, Flagged, Unflagged,
        KilledIdle, OneResult, ResultOf, GraphBuilds, BuiltAt, MainBuilds, Aborting, Closes,
        Closed, CallEnds, ExitAlone,
        Carried, GraphIdle
  <2> QED
    BY <2>3, <2>4
<1>3. ASSUME PrivateReports(t) PROVE Shapes' /\ Proto'
  <2>1. PICK from \in {"private_ok", "private_err"} : At(t, from)
    BY <1>3 DEF PrivateReports
  <2>2. /\ stack[t] # << >> /\ Top(t).pc = from
        /\ t = "main" => MainPc = from /\ MainOMD = Top(t).omd
        /\ t = "graph" => GraphPc = from /\ GraphOMD = Top(t).omd
    BY <1>0, <2>1, AtPc
  <2>4. PICK msg \in {"WM_POSTOPEN", "WM_OPENFAILED"}, pc \in {"post_open", "open_failed"} :
            /\ msg = "WM_POSTOPEN" <=> from = "private_ok"
            /\ pc = "post_open" <=> from = "private_ok"
    <3>1. \E msg \in {"WM_POSTOPEN", "WM_OPENFAILED"} : msg = "WM_POSTOPEN" <=> from = "private_ok"
      OBVIOUS
    <3>2. \E pc \in {"post_open", "open_failed"} : pc = "post_open" <=> from = "private_ok"
      OBVIOUS
    <3> QED
      BY <3>1, <3>2
  <2>5. /\ UNCHANGED <<loadState, openedThroughThread, openingAborted, evOpen, evClose, graph,
                       lastOMD>>
        /\ AsksStay
    BY <1>0, <1>3 DEF PrivateReports, flags, events
  <2>6. \/ window' = Append(window, [msg |-> msg, omd |-> Top(t).omd]) /\ Return(t)
        \/ Goto(t, pc) /\ UNCHANGED window
        \/ from = "private_err" /\ openingAborted /\ UNCHANGED window /\ Return(t)
    <3>1. \A place : At(t, place) => place = from
      BY <2>1 DEF At
    <3> QED
      BY <1>3, <2>1, <2>4, <3>1 DEF PrivateReports, Report
  <2>7. Top(t).omd \in Media
    BY <1>0, <2>2, TopTyped DEF OwnFrames
  <2>8. CASE t = "main"
    <3>1. /\ window = << >> /\ ~openingAborted /\ loadState = "LOADING"
          /\ BuiltAt(from, MainOMD)
      BY <2>2, <2>8 DEF Proto, OneResult, MainBuilds, Aborting
    <3>2. BuiltAt(pc, MainOMD) /\ ResultOf(msg, MainOMD)
      BY <2>1, <2>4, <3>1 DEF BuiltAt, ResultOf
    <3>3. CASE Goto(t, pc) /\ UNCHANGED window
      <4>1. MainIs(pc, MainOMD, MainKilled) /\ (Unflagging' <=> Unflagging) /\ GraphStays
        BY <1>0, <2>2, <2>8, <3>3, MainGoes
      <4>2. Shapes'
        BY <2>5, <4>1 DEF Shapes
      <4>3. Proto'
        BY <1>0, <2>2, <2>5, <2>8, <3>1, <3>2, <3>3, <4>1
        DEF Proto, OpenAlone, OpenFresh, OpenEnds, CloseAlone, CloseEnds, Destroys, Flagged,
        Unflagged,
        KilledIdle, OneResult, ResultOf, GraphBuilds, BuiltAt, MainBuilds, Aborting, Closes, Closed,
        CallEnds, ExitAlone, Carried, GraphIdle
      <4> QED
        BY <4>2, <4>3
    <3>4. CASE window' = Append(window, [msg |-> msg, omd |-> Top(t).omd]) /\ Return(t)
      <4>1. window' = << [msg |-> msg, omd |-> MainOMD] >> /\ MainOMD \in Media
        BY <2>2, <2>7, <2>8, <3>1, <3>4
      <4>2. /\ MainPc' \in {"idle", "open_unflag"} /\ Shaped(stack'["main"]) /\ GraphStays
            /\ Unflagging' <=> Unflagging
        BY <1>0, <2>2, <2>8, <3>4, MainReturns
      <4>3. Shapes'
        BY <2>5, <4>2 DEF Shapes
      <4>4. OneResult'
        BY <2>5, <3>1, <3>2, <4>1, <4>2 DEF OneResult, ResultOf
      <4>5. Proto'
        BY <1>0, <2>2, <2>5, <2>8, <3>1, <4>1, <4>2, <4>4
        DEF Proto, OpenAlone, OpenFresh, OpenEnds, CloseAlone, CloseEnds, Destroys, Flagged,
        Unflagged,
        KilledIdle, GraphBuilds, MainBuilds, Aborting, Closes, Closed, CallEnds, ExitAlone, Carried,
        GraphIdle
      <4> QED
        BY <4>3, <4>5
    <3> QED
      BY <2>6, <3>1, <3>3, <3>4
  <2>9. CASE t = "graph"
    <3>1. BuiltAt(from, GraphOMD) /\ window = << >>
      BY <2>2, <2>9 DEF Proto, GraphBuilds, OpenAlone
    <3>2. ResultOf(msg, GraphOMD)
      BY <2>1, <2>4, <3>1 DEF BuiltAt, ResultOf
    <3>3. ~Goto(t, pc)
      <4>1. ASSUME Goto(t, pc) PROVE FALSE
        <5>1. At("graph", pc)'
          BY <1>0, <2>2, <2>9, <4>1, AtNext
        <5> QED
          BY <5>1 DEF ResultsOnMain
      <4> QED
        BY <4>1
    <3>4. /\ Return("graph") /\ GraphOMD \in Media
          /\ \/ window' = << >> /\ openingAborted
             \/ window' = << [msg |-> msg, omd |-> GraphOMD] >>
      BY <2>2, <2>6, <2>7, <2>9, <3>1, <3>3
    <3>5. GraphPc' = "on_open" /\ GraphShaped(stack'["graph"]) /\ MainStays
      BY <1>0, <2>2, <2>9, <3>4, GraphReturns
    <3>6. Shapes'
      BY <2>5, <3>5 DEF Shapes
    <3>7. CallEnds' /\ ExitAlone' /\ Carried'
      BY <2>2, <2>5, <2>9, <3>4, <3>5
      DEF Proto, OpenAlone, Aborting, CallEnds, ExitAlone, Carried
    <3>8. OneResult'
      BY <2>2, <2>5, <2>9, <3>1, <3>2, <3>4, <3>5 DEF OneResult, ResultOf, Proto, OpenAlone
    <3>9. Proto'
      BY <1>0, <2>2, <2>5, <2>9, <3>1, <3>4, <3>5, <3>7, <3>8
      DEF Proto, OpenAlone, OpenFresh, OpenEnds, CloseAlone, CloseEnds, Destroys, Flagged,
        Unflagged,
        KilledIdle, GraphBuilds, MainBuilds, Aborting, Closes, Closed, GraphIdle
    <3> QED
      BY <3>6, <3>9
  <2> QED
    BY <2>8, <2>9 DEF Threads
<1> QED
  BY <1>1, <1>2, <1>3 DEF Private

LEMMA HandlersKeep ==
    ASSUME TypeInv, Shapes, Proto, NEW t \in Threads, Handlers(t)
    PROVE  Shapes' /\ Proto' /\ UNCHANGED lost
<1> USE DEF Pcs, CarryingPcs, OpenPcs, OpenPrivatePcs, ClosePcs, OtherPcs, GraphPcs, Below,
            LoadPcs, AbortPcs, OnOpenPcs, OnClosePcs, GraphIs, GraphStays, MainIs, MainStays,
            AsksStay, OrdersStay, OthersStay
<1>0. /\ StackInv /\ GraphPc \in GraphPcs /\ "main" \in Threads /\ "graph" \in Threads
      /\ UNCHANGED messages => AsksStay
  BY GraphKinds, SameAsks DEF TypeInv, Threads
<1>1. t = "main"
  BY <1>0, AtPc DEF Handlers, PostOpen, OpenFailed, FailedOpensNext, Threads
<1>2. nextOMD <= MaxOpens => /\ Frame("open_wait", nextOMD) \in OwnFrames
                             /\ Frame("open_wait", nextOMD).pc = "open_wait"
  <2>1. nextOMD <= MaxOpens => nextOMD \in Media
    BY MediaLoaderAssumption DEF TypeInv, Values, Media
  <2> QED
    BY <2>1, FramesTyped
<1>3. ASSUME PostOpen(t) PROVE Shapes' /\ Proto' /\ UNCHANGED lost
  <2>1. stack["main"] # << >> /\ MainPc = "post_open"
    BY <1>0, <1>1, <1>3, AtPc DEF PostOpen
  <2>2. graph # None
    <3>1. MainOMD \in Media
      BY <1>0, <2>1, TopTyped DEF OwnFrames, MainPc, PcOf, MainOMD, OMDOf
    <3>2. graph = MainOMD
      BY <2>1 DEF Proto, MainBuilds, BuiltAt
    <3> QED
      BY <3>1, <3>2, MediaLoaderAssumption DEF Media, None
  <2>3. /\ loadState' = "LOADED"
        /\ UNCHANGED <<openedThroughThread, openingAborted, evOpen, evClose, window, graph, lost>>
        /\ AsksStay /\ Return("main")
    BY <1>0, <1>1, <1>3, <2>2 DEF PostOpen, events
  <2>4. /\ MainPc' \in {"idle", "open_unflag"} /\ Shaped(stack'["main"]) /\ GraphStays
        /\ Unflagging' <=> Unflagging
    BY <1>0, <2>1, <2>3, MainReturns
  <2>5. Shapes'
    BY <2>3, <2>4 DEF Shapes
  <2>6. Proto'
    BY <1>0, <2>1, <2>2, <2>3, <2>4
    DEF Proto, OpenAlone, OpenFresh, OpenEnds, CloseAlone, CloseEnds, Destroys, Flagged, Unflagged,
        KilledIdle, OneResult, ResultOf, GraphBuilds, BuiltAt, MainBuilds, Aborting, Closes,
        Closed, CallEnds, ExitAlone,
        Carried, GraphIdle
  <2> QED
    BY <2>3, <2>5, <2>6
<1>4. ASSUME OpenFailed(t) PROVE Shapes' /\ Proto' /\ UNCHANGED lost
  <2>1. stack["main"] # << >> /\ MainPc = "open_failed"
    BY <1>0, <1>1, <1>4, AtPc DEF OpenFailed
  <2>2. /\ loadState' = "FAILING"
        /\ UNCHANGED <<openedThroughThread, openingAborted, evOpen, evClose, window, graph, lost>>
        /\ AsksStay
    BY <1>0, <1>4 DEF OpenFailed, events
  <2>3. /\ MainPc' \in {"close_enter", "open_wait"} /\ Shaped(stack'["main"]) /\ GraphStays
        /\ MainPc' = "close_enter" => ~MainKilled'
        /\ Unflagging' <=> Unflagging
    <3>1. CASE Becomes(t, << Frame("close_enter", None), Frame("failed_next", None) >>)
      <4> DEFINE f == Frame("close_enter", None)
                 g == Frame("failed_next", None)
      <4>1. /\ f \in OwnFrames /\ f.pc = "close_enter" /\ ~f.killed
            /\ g \in OwnFrames /\ g.pc = "failed_next"
        BY FramesTyped DEF Frame
      <4>2. Becomes("main", << f, g >>)
        BY <1>1, <3>1
      <4> HIDE DEF f, g
      <4> QED
        BY <1>0, <2>1, <4>1, <4>2, MainBecomesTwo
    <3>2. CASE NewOMD /\ Becomes(t, << Frame("open_wait", nextOMD) >>)
      BY <1>0, <1>1, <1>2, <2>1, <3>2, MainBecomes DEF NewOMD
    <3> QED
      BY <1>4, <3>1, <3>2 DEF OpenFailed
  <2>4. Shapes'
    BY <2>2, <2>3 DEF Shapes
  <2>5. Proto'
    BY <1>0, <2>1, <2>2, <2>3
    DEF Proto, OpenAlone, OpenFresh, OpenEnds, CloseAlone, CloseEnds, Destroys, Flagged, Unflagged,
        KilledIdle, OneResult, ResultOf, GraphBuilds, BuiltAt, MainBuilds, Aborting, Closes,
        Closed, CallEnds, ExitAlone,
        Carried, GraphIdle
  <2> QED
    BY <2>2, <2>4, <2>5
<1>5. ASSUME FailedOpensNext(t) PROVE Shapes' /\ Proto' /\ UNCHANGED lost
  <2>1. stack["main"] # << >> /\ MainPc = "failed_next"
    BY <1>0, <1>1, <1>5, AtPc DEF FailedOpensNext
  <2>2. /\ UNCHANGED <<loadState, openedThroughThread, openingAborted, evOpen, evClose, window,
                       graph, lastOMD, lost>>
        /\ AsksStay
    BY <1>0, <1>5 DEF FailedOpensNext, events, flags
  <2>3. /\ MainPc' \in {"idle", "open_unflag", "open_wait"} /\ Shaped(stack'["main"])
        /\ GraphStays
        /\ Unflagging' <=> Unflagging
    <3>1. CASE Return(t)
      BY <1>0, <1>1, <2>1, <3>1, MainReturns
    <3>2. CASE NewOMD /\ Becomes(t, << Frame("open_wait", nextOMD) >>)
      BY <1>0, <1>1, <1>2, <2>1, <3>2, MainBecomes DEF NewOMD
    <3> QED
      BY <1>5, <3>1, <3>2 DEF FailedOpensNext
  <2>4. Shapes'
    BY <2>2, <2>3 DEF Shapes
  <2>5. Proto'
    BY <1>0, <2>1, <2>2, <2>3
    DEF Proto, OpenAlone, OpenFresh, OpenEnds, CloseAlone, CloseEnds, Destroys, Flagged, Unflagged,
        KilledIdle, OneResult, ResultOf, GraphBuilds, BuiltAt, MainBuilds, Aborting, Closes,
        Closed, CallEnds, ExitAlone,
        Carried, GraphIdle
  <2> QED
    BY <2>2, <2>4, <2>5
<1> QED
  BY <1>3, <1>4, <1>5 DEF Handlers

LEMMA KillKeeps ==
    ASSUME TypeInv, Shapes, Proto, NEW t \in Threads, CloseKills(t)
    PROVE  Shapes' /\ Proto' /\ t = "main"
<1> USE DEF Pcs, CarryingPcs, OpenPcs, OpenPrivatePcs, ClosePcs, OtherPcs, GraphPcs, Below,
            LoadPcs, AbortPcs, OnOpenPcs, OnClosePcs, GraphIs, GraphStays, MainIs, MainStays,
            AsksStay, OrdersStay, OthersStay
<1>0. /\ StackInv /\ GraphPc \in GraphPcs /\ "main" \in Threads /\ "graph" \in Threads
      /\ UNCHANGED messages => AsksStay
  BY GraphKinds, SameAsks DEF TypeInv, Threads
<1>1. stack[t] # << >> /\ Top(t).pc = "close_kill"
  BY <1>0, AtPc DEF CloseKills
<1>2. t = "main" /\ MainPc = "close_kill"
  BY <1>0, AtPc DEF CloseKills, Threads
<1>3. /\ UNCHANGED <<loadState, openedThroughThread, openingAborted, evOpen, evClose, window,
                     graph, lastOMD>>
      /\ messages' = << >>
  BY DEF CloseKills, events, flags
<1>4. NoAsks /\ ~ExitAsked'
  BY <1>3, EmptyAsks
<1> DEFINE f == [Top("main") EXCEPT !.pc = "close_purge", !.killed = TRUE]
           s == Tail(stack["main"])
<1>5. /\ s \in Seq(OwnFrames) /\ Shaped(s) /\ PcOf(s) \in Below("close_kill")
      /\ Unflagging <=> Unflags(s)
  BY <1>0, <1>1, <1>2, StacksTyped, Rests DEF Shapes, MainPc, Unflagging
<1>6. Top("main") \in OwnFrames /\ Top("main").omd = None
  BY <1>0, <1>1, <1>2, TopTyped DEF OwnFrames
<1>7. f \in OwnFrames /\ f.pc = "close_purge"
  BY <1>6 DEF OwnFrames, Frames
<1>8. stack' = [stack EXCEPT !["graph"] = << >>, !["main"] = << f >> \o Tail(@)]
  BY <1>2 DEF CloseKills, Top
<1> HIDE DEF f
<1>9. stack'["graph"] = << >> /\ stack'["main"] = Push(f, s)
  BY <1>0, <1>8 DEF StackInv, Threads, Push
<1> HIDE DEF s
<1>10. /\ MainPc' = "close_purge" /\ Shaped(stack'["main"])
       /\ Unflagging' <=> Unflagging
  <2>1. /\ PcOf(Push(f, s)) = f.pc
        /\ Unflags(Push(f, s)) <=> f.pc = "open_unflag" \/ Unflags(s)
        /\ Shaped(s) /\ PcOf(s) \in Below(f.pc) => Shaped(Push(f, s))
    BY <1>5, <1>7, Tops
  <2> QED
    BY <1>5, <1>7, <1>9, <2>1 DEF MainPc, Unflagging
<1>11. GraphPc' = "idle" /\ GraphShaped(stack'["graph"])
  BY <1>9 DEF GraphPc, PcOf, GraphShaped
<1>12. Shapes'
  BY <1>4, <1>10, <1>11 DEF Shapes, NoAsks
<1>13. Proto'
  BY <1>2, <1>3, <1>4, <1>10, <1>11
  DEF NoAsks, Proto, OpenAlone, OpenFresh, OpenEnds, CloseAlone, CloseEnds, Destroys, Flagged,
        Unflagged,
        KilledIdle, OneResult, ResultOf, GraphBuilds, BuiltAt, MainBuilds, Aborting, Closes,
        Closed, CallEnds, ExitAlone,
        Carried, GraphIdle
<1> QED
  BY <1>2, <1>12, <1>13

LEMMA CloseKeeps ==
    ASSUME TypeInv, Shapes, Proto, NEW t \in Threads, Close(t)
    PROVE  Shapes' /\ Proto'
<1> USE DEF Pcs, CarryingPcs, OpenPcs, OpenPrivatePcs, ClosePcs, OtherPcs, GraphPcs, Below,
            LoadPcs, AbortPcs, OnOpenPcs, OnClosePcs, GraphIs, GraphStays, MainIs, MainStays,
            AsksStay, OrdersStay, OthersStay
<1>0. /\ StackInv /\ GraphPc \in GraphPcs /\ "main" \in Threads /\ "graph" \in Threads
      /\ UNCHANGED messages => AsksStay
  BY GraphKinds, SameAsks DEF TypeInv, Threads
<1>1. (At(t, "close_private") /\ ClosePrivate(t)) \/ t = "main"
  BY <1>0, AtPc
  DEF Close, CloseEnters, CloseEndsDialog, CloseLocksDialog, CloseAborts, CloseKills, ClosePurges,
      CloseStarts, CloseWaits, ClosePrivate, CloseDone, Threads
<1>2. ASSUME CloseEnters(t) \/ CloseEndsDialog(t) \/ CloseLocksDialog(t) \/ CloseAborts(t), t = "main"
      PROVE  Shapes' /\ Proto'
  <2>1. PICK from \in {"close_enter", "close_dialog", "close_lock", "close_abort"} :
            /\ At("main", from)
            /\ CloseEnters(t) => from = "close_enter"
            /\ CloseAborts(t) => from = "close_abort"
            /\ CloseEndsDialog(t) \/ CloseLocksDialog(t) => from \in {"close_dialog", "close_lock"}
    <3>1. \A pc : At(t, pc) => \A other : At(t, other) => other = pc
      BY DEF At
    <3> QED
      BY <1>2, <3>1 DEF CloseEnters, CloseEndsDialog, CloseLocksDialog, CloseAborts
  <2>2. stack["main"] # << >> /\ MainPc = from
    BY <1>0, <2>1, AtPc
  <2>3. /\ UNCHANGED <<loadState, openedThroughThread, evClose, window, graph, lastOMD>>
        /\ AsksStay
    BY <1>0, <1>2 DEF CloseEnters, CloseEndsDialog, CloseLocksDialog, CloseAborts, events, flags
  <2>4. CASE Return("main") /\ CloseEnters(t) /\ loadState \in {"CLOSING", "CLOSED"}
    <3>1. UNCHANGED <<evOpen, openingAborted>>
      <4>1. from = "close_enter"
        BY <2>1, <2>4
      <4> QED
        BY <2>4 DEF CloseEnters, events
    <3>2. /\ MainPc' \in {"idle", "open_active", "failed_next", "quit_destroy"}
          /\ Shaped(stack'["main"]) /\ GraphStays
          /\ Unflagging' <=> Unflagging
      BY <1>0, <2>1, <2>2, <2>4, MainReturns
    <3>3. Shapes'
      BY <2>3, <3>2 DEF Shapes
    <3>4. Proto'
      BY <1>0, <2>1, <2>2, <2>3, <2>4, <3>1, <3>2
      DEF Proto, OpenAlone, OpenFresh, OpenEnds, CloseAlone, CloseEnds, Destroys, Flagged,
        Unflagged,
        KilledIdle, OneResult, ResultOf, GraphBuilds, BuiltAt, MainBuilds, Aborting, Closes,
        Closed, CallEnds, ExitAlone,
        Carried, GraphIdle
    <3> QED
      BY <3>3, <3>4
  <2>5. CASE ~(Return("main") /\ CloseEnters(t) /\ loadState \in {"CLOSING", "CLOSED"})
    <3>1. PICK pc \in {"close_dialog", "close_lock", "close_abort", "close_purge", "close_kill",
                       "close_closing"} :
              /\ Goto("main", pc)
              /\ \/ /\ from = "close_enter" /\ loadState = "LOADING" /\ openingAborted' = TRUE
                    /\ pc \in {"close_dialog", "close_abort"} /\ UNCHANGED evOpen
                 \/ /\ from = "close_enter" /\ loadState \in {"LOADED", "FAILING"}
                    /\ pc = "close_closing" /\ UNCHANGED <<evOpen, openingAborted>>
                 \/ /\ from \in {"close_dialog", "close_lock"}
                    /\ pc \in {"close_lock", "close_abort"} /\ UNCHANGED <<evOpen, openingAborted>>
                 \/ /\ from = "close_abort" /\ evOpen' = FALSE /\ UNCHANGED openingAborted
                    /\ pc = IF evOpen THEN "close_purge" ELSE "close_kill"
      BY <1>2, <2>1, <2>5
      DEF CloseEnters, CloseEndsDialog, CloseLocksDialog, CloseAborts, events, flags
    <3>2. MainIs(pc, MainOMD, MainKilled) /\ (Unflagging' <=> Unflagging) /\ GraphStays
      BY <1>0, <2>1, <2>2, <3>1, MainGoes
    <3>3. Shapes'
      BY <2>3, <3>2 DEF Shapes
    <3>4. Proto'
      BY <1>0, <2>1, <2>2, <2>3, <3>1, <3>2
      DEF Proto, OpenAlone, OpenFresh, OpenEnds, CloseAlone, CloseEnds, Destroys, Flagged,
        Unflagged,
        KilledIdle, OneResult, ResultOf, GraphBuilds, BuiltAt, MainBuilds, Aborting, Closes,
        Closed, CallEnds, ExitAlone,
        Carried, GraphIdle
    <3> QED
      BY <3>3, <3>4
  <2> QED
    BY <2>4, <2>5
<1>3. ASSUME CloseKills(t) PROVE Shapes' /\ Proto'
  BY <1>3, KillKeeps
<1>4. ASSUME ClosePurges(t), t = "main" PROVE Shapes' /\ Proto'
  <2>1. \/ /\ At("main", "close_purge") /\ Purge("WM_POSTOPEN")
           /\ Goto("main", "close_purge_failed") /\ UNCHANGED openingAborted
        \/ /\ At("main", "close_purge_failed") /\ Purge("WM_OPENFAILED")
           /\ Goto("main", "close_closing") /\ openingAborted' = FALSE
    BY <1>4 DEF ClosePurges
  <2>2. /\ UNCHANGED <<loadState, openedThroughThread, evOpen, evClose, graph, lastOMD>>
        /\ AsksStay
    BY <1>0, <1>4 DEF ClosePurges, events
  <2>3. CASE At("main", "close_purge")
    <3>1. stack["main"] # << >> /\ MainPc = "close_purge"
      BY <1>0, <2>3, AtPc
    <3>2. ~At("main", "close_purge_failed")
      BY <2>3 DEF At
    <3>3. /\ MainIs("close_purge_failed", MainOMD, MainKilled) /\ (Unflagging' <=> Unflagging)
          /\ GraphStays
      BY <1>0, <2>1, <3>1, <3>2, MainGoes
    <3>4. /\ window = << >> => window' = << >>
          /\ \A msg : \A omd : window = << [msg |-> msg, omd |-> omd] >> =>
                 window' = IF msg = "WM_POSTOPEN" THEN << >> ELSE window
      BY <2>1, <3>2, PurgeTakes
    <3>5. Shapes'
      BY <2>2, <3>3 DEF Shapes
    <3>6. Proto'
      BY <1>0, <2>1, <2>2, <3>1, <3>2, <3>3, <3>4
      DEF Proto, OpenAlone, OpenFresh, OpenEnds, CloseAlone, CloseEnds, Destroys, Flagged,
        Unflagged,
        KilledIdle, OneResult, ResultOf, GraphBuilds, BuiltAt, MainBuilds, Aborting, Closes,
        Closed, CallEnds, ExitAlone,
        Carried, GraphIdle
    <3> QED
      BY <3>5, <3>6
  <2>4. CASE At("main", "close_purge_failed")
    <3>1. stack["main"] # << >> /\ MainPc = "close_purge_failed"
      BY <1>0, <2>4, AtPc
    <3>2. ~At("main", "close_purge")
      BY <2>4 DEF At
    <3>3. /\ MainIs("close_closing", MainOMD, MainKilled) /\ (Unflagging' <=> Unflagging)
          /\ GraphStays
      BY <1>0, <2>1, <3>1, <3>2, MainGoes
    <3>4. window' = << >>
      <4>1. \/ window = << >>
            \/ \E omd : window = << [msg |-> "WM_OPENFAILED", omd |-> omd] >>
        BY <3>1 DEF Proto, OneResult
      <4> QED
        BY <2>1, <3>2, <4>1, PurgeTakes
    <3>5. Shapes'
      BY <2>2, <3>3 DEF Shapes
    <3>6. Proto'
      BY <1>0, <2>1, <2>2, <3>1, <3>2, <3>3, <3>4
      DEF Proto, OpenAlone, OpenFresh, OpenEnds, CloseAlone, CloseEnds, Destroys, Flagged,
        Unflagged,
        KilledIdle, OneResult, ResultOf, GraphBuilds, BuiltAt, MainBuilds, Aborting, Closes,
        Closed, CallEnds, ExitAlone,
        Carried, GraphIdle
    <3> QED
      BY <3>5, <3>6
  <2> QED
    BY <2>1, <2>3, <2>4
<1>5. ASSUME CloseStarts(t), t = "main" PROVE Shapes' /\ Proto'
  <2>1. stack["main"] # << >> /\ MainPc = "close_closing" /\ (MainKilled <=> Top(t).killed)
    BY <1>0, <1>5, AtPc DEF CloseStarts
  <2>2. /\ loadState' = "CLOSING"
        /\ UNCHANGED <<openedThroughThread, openingAborted, evOpen, window, graph, lastOMD>>
    BY <1>5 DEF CloseStarts, flags
  <2>3. ~OpenAsked /\ ~CloseAsked /\ window = << >> /\ GraphPc \notin OnClosePcs
    BY <2>1 DEF Proto, OpenAlone, CloseAlone, OneResult
  <2>4. CASE openedThroughThread /\ ~Top(t).killed
    <3> DEFINE m == [msg |-> "TM_CLOSE", omd |-> None]
    <3>1. evClose' = FALSE /\ messages' = Append(messages, m) /\ Goto("main", "close_wait")
      BY <1>5, <2>4 DEF CloseStarts, Reset
    <3>2. m \in Requests /\ m.msg = "TM_CLOSE"
      BY DEF Requests
    <3> HIDE DEF m
    <3>3. ~OpenAsked' /\ CloseAsked' /\ OneRequest' /\ OthersStay
      BY <2>3, <3>1, <3>2, AppendAsks DEF TypeInv, Shapes
    <3>4. MainIs("close_wait", MainOMD, MainKilled) /\ (Unflagging' <=> Unflagging) /\ GraphStays
      BY <1>0, <2>1, <3>1, MainGoes
    <3>5. ~MainKilled'
      BY <2>1, <2>4, <3>4
    <3>6. Shapes'
      BY <3>3, <3>4 DEF Shapes
    <3>7. Proto'
      BY <1>0, <2>1, <2>2, <2>3, <3>1, <3>3, <3>4, <3>5
      DEF Proto, OpenAlone, OpenFresh, OpenEnds, CloseAlone, CloseEnds, Destroys, Flagged,
        Unflagged,
        KilledIdle, OneResult, ResultOf, GraphBuilds, BuiltAt, MainBuilds, Aborting, Closes,
        Closed, CallEnds, ExitAlone,
        Carried, GraphIdle
    <3> QED
      BY <3>6, <3>7
  <2>5. CASE ~(openedThroughThread /\ ~Top(t).killed)
    <3>1. UNCHANGED evClose /\ AsksStay /\ Call("main", Frame("close_private", None), "close_done")
      BY <1>0, <1>5, <2>5 DEF CloseStarts
    <3>2. /\ Frame("close_private", None) \in OwnFrames
          /\ Frame("close_private", None).pc = "close_private"
      BY FramesTyped
    <3>3. /\ MainPc' = "close_private" /\ Shaped(stack'["main"]) /\ GraphStays
          /\ Unflagging' <=> Unflagging
      BY <1>0, <2>1, <3>1, <3>2, MainCallsOn
    <3>4. Shapes'
      BY <3>1, <3>3 DEF Shapes
    <3>5. GraphIdle
      BY <1>0, <2>1, <2>3, <2>5 DEF Proto, Flagged, KilledIdle, GraphIdle
    <3>6. Proto'
      BY <1>0, <2>1, <2>2, <2>3, <3>1, <3>3, <3>5
      DEF Proto, OpenAlone, OpenFresh, OpenEnds, CloseAlone, CloseEnds, Destroys, Flagged,
        Unflagged,
        KilledIdle, OneResult, ResultOf, GraphBuilds, BuiltAt, MainBuilds, Aborting, Closes,
        Closed, CallEnds, ExitAlone,
        Carried, GraphIdle
    <3> QED
      BY <3>4, <3>6
  <2> QED
    BY <2>4, <2>5
<1>6. ASSUME CloseWaits(t), t = "main" PROVE Shapes' /\ Proto'
  <2>1. stack["main"] # << >> /\ MainPc = "close_wait"
    BY <1>0, <1>6, AtPc DEF CloseWaits
  <2>2. /\ evClose = TRUE /\ evClose' = FALSE /\ Goto("main", "close_done")
        /\ UNCHANGED <<loadState, openedThroughThread, openingAborted, evOpen, window, graph,
                       lastOMD>>
        /\ AsksStay
    BY <1>0, <1>6 DEF CloseWaits, Destroyed, flags, TypeInv, Values
  <2>3. MainIs("close_done", MainOMD, MainKilled) /\ (Unflagging' <=> Unflagging) /\ GraphStays
    BY <1>0, <2>1, <2>2, MainGoes
  <2>4. Shapes'
    BY <2>2, <2>3 DEF Shapes
  <2>5. Proto'
    BY <1>0, <2>1, <2>2, <2>3
    DEF Proto, OpenAlone, OpenFresh, OpenEnds, CloseAlone, CloseEnds, Destroys, Flagged, Unflagged,
        KilledIdle, OneResult, ResultOf, GraphBuilds, BuiltAt, MainBuilds, Aborting, Closes,
        Closed, CallEnds, ExitAlone,
        Carried, GraphIdle
  <2> QED
    BY <2>4, <2>5
<1>7. ASSUME ClosePrivate(t) PROVE Shapes' /\ Proto'
  <2>1. /\ stack[t] # << >> /\ Return(t) /\ graph' = None /\ lastOMD' = None
        /\ t = "main" => MainPc = "close_private"
        /\ t = "graph" => GraphPc = "close_private"
    BY <1>0, <1>7, AtPc DEF ClosePrivate, Remember
  <2>2. /\ UNCHANGED <<loadState, openedThroughThread, openingAborted, evOpen, evClose, window>>
        /\ AsksStay
    BY <1>0, <1>7 DEF ClosePrivate, events, flags
  <2>3. CASE t = "main"
    <3>1. /\ MainPc' = "close_done" /\ Shaped(stack'["main"]) /\ GraphStays
          /\ Unflagging' <=> Unflagging
      BY <1>0, <2>1, <2>3, MainReturns
    <3>2. Shapes'
      BY <2>2, <3>1 DEF Shapes
    <3>3. Proto'
      BY <1>0, <2>1, <2>2, <2>3, <3>1
      DEF Proto, OpenAlone, OpenFresh, OpenEnds, CloseAlone, CloseEnds, Destroys, Flagged,
        Unflagged,
        KilledIdle, OneResult, ResultOf, GraphBuilds, BuiltAt, MainBuilds, Aborting, Closes,
        Closed, CallEnds, ExitAlone,
        Carried, GraphIdle
    <3> QED
      BY <3>2, <3>3
  <2>4. CASE t = "graph"
    <3>1. GraphPc' = "on_close" /\ GraphShaped(stack'["graph"]) /\ MainStays
      BY <1>0, <2>1, <2>4, GraphReturns
    <3>2. Shapes'
      BY <2>2, <3>1 DEF Shapes
    <3>3. Proto'
      BY <1>0, <2>1, <2>2, <2>4, <3>1
      DEF Proto, OpenAlone, OpenFresh, OpenEnds, CloseAlone, CloseEnds, Destroys, Flagged,
        Unflagged,
        KilledIdle, OneResult, ResultOf, GraphBuilds, BuiltAt, MainBuilds, Aborting, Closes,
        Closed, CallEnds, ExitAlone,
        Carried, GraphIdle
    <3> QED
      BY <3>2, <3>3
  <2> QED
    BY <2>3, <2>4 DEF Threads
<1>8. ASSUME CloseDone(t), t = "main" PROVE Shapes' /\ Proto'
  <2>1. stack["main"] # << >> /\ MainPc = "close_done"
    BY <1>0, <1>8, AtPc DEF CloseDone
  <2>2. /\ loadState' = "CLOSED" /\ Return("main")
        /\ UNCHANGED <<openedThroughThread, openingAborted, evOpen, evClose, window, graph,
                       lastOMD>>
        /\ AsksStay
    BY <1>0, <1>8 DEF CloseDone, events
  <2>3. /\ MainPc' \in {"idle", "open_active", "failed_next", "quit_destroy"}
        /\ Shaped(stack'["main"]) /\ GraphStays
        /\ Unflagging' <=> Unflagging
    BY <1>0, <2>1, <2>2, MainReturns
  <2>4. Shapes'
    BY <2>2, <2>3 DEF Shapes
  <2>5. Proto'
    BY <1>0, <2>1, <2>2, <2>3
    DEF Proto, OpenAlone, OpenFresh, OpenEnds, CloseAlone, CloseEnds, Destroys, Flagged, Unflagged,
        KilledIdle, OneResult, ResultOf, GraphBuilds, BuiltAt, MainBuilds, Aborting, Closes,
        Closed, CallEnds, ExitAlone,
        Carried, GraphIdle
  <2> QED
    BY <2>4, <2>5
<1> QED
  BY <1>1, <1>2, <1>3, <1>4, <1>5, <1>6, <1>7, <1>8 DEF Close

LEMMA TakesKeep ==
    ASSUME TypeInv, Shapes, Proto, GraphTakes
    PROVE  Shapes' /\ Proto' /\ UNCHANGED lost
<1> USE DEF Pcs, CarryingPcs, OpenPcs, OpenPrivatePcs, ClosePcs, OtherPcs, GraphPcs, Below,
            LoadPcs, AbortPcs, OnOpenPcs, OnClosePcs, GraphIs, GraphStays, MainIs, MainStays,
            AsksStay, OrdersStay, OthersStay
<1>0. /\ StackInv /\ GraphPc \in GraphPcs /\ "main" \in Threads /\ "graph" \in Threads
      /\ UNCHANGED messages => AsksStay
  BY GraphKinds, SameAsks DEF TypeInv, Threads
<1> DEFINE m == Head(messages)
<1>1. /\ stack["graph"] = << >> /\ GraphPc = "idle" /\ m \in Requests
      /\ UNCHANGED <<loadState, openedThroughThread, openingAborted, evOpen, evClose, window,
                     graph, lastOMD>>
  BY <1>0, GraphKinds, HeadTailProperties DEF GraphTakes, TypeInv, flags, events
<1>2. /\ m.msg \in {"TM_OPEN", "TM_CLOSE"} => NoAsks
      /\ m.msg \notin {"TM_OPEN", "TM_CLOSE"} => OrdersStay
      /\ m.msg # "TM_CALL" => (CallAsked' <=> CallAsked)
      /\ ExitAsked <=> ExitAsked' \/ m.msg = "TM_EXIT"
      /\ m.msg = "TM_OPEN" => OpenAsked
      /\ m.msg = "TM_CLOSE" => CloseAsked
  BY TailAsks DEF GraphTakes, TypeInv, Shapes
<1>3. CASE m.msg = "TM_OPEN"
  <2>1. loadState = "LOADING" /\ graph = None
    BY <1>2, <1>3 DEF Proto, OpenAlone, OpenFresh
  <2>2. /\ Enter("graph", << Frame("private_start", m.omd), Frame("on_open", None) >>)
        /\ UNCHANGED lost
    BY <1>3, <2>1 DEF GraphTakes
  <2>3. m.omd \in Media
    BY <1>1, <1>3 DEF Requests
  <2> HIDE DEF m
  <2>4. GraphPc' = "private_start" /\ GraphShaped(stack'["graph"]) /\ MainStays
    BY <1>0, <1>1, <2>2, <2>3, GraphEnters
  <2>5. Shapes'
    BY <1>2, <1>3, <2>4 DEF Shapes, NoAsks
  <2>6. Proto'
    BY <1>0, <1>1, <1>2, <1>3, <2>1, <2>4
    DEF NoAsks, Proto, OpenAlone, OpenFresh, OpenEnds, CloseAlone, CloseEnds, Destroys, Flagged,
        Unflagged,
        KilledIdle, OneResult, ResultOf, GraphBuilds, BuiltAt, MainBuilds, Aborting, Closes,
        Closed, CallEnds, ExitAlone,
        Carried, GraphIdle
  <2> QED
    BY <2>2, <2>5, <2>6
<1>4. CASE m.msg = "TM_CLOSE"
  <2>1. loadState = "CLOSING" /\ MainPc = "close_wait" /\ ~evClose
    BY <1>2, <1>4 DEF Proto, CloseAlone, Closes
  <2>2. /\ Enter("graph", << Frame("close_private", None), Frame("on_close", None) >>)
        /\ UNCHANGED lost
    BY <1>4, <2>1 DEF GraphTakes
  <2> HIDE DEF m
  <2>3. GraphPc' = "close_private" /\ GraphShaped(stack'["graph"]) /\ MainStays
    BY <1>0, <1>1, <2>2, GraphEnters
  <2>4. Shapes'
    BY <1>2, <1>4, <2>3 DEF Shapes, NoAsks
  <2>5. Proto'
    BY <1>0, <1>1, <1>2, <1>4, <2>1, <2>3
    DEF NoAsks, Proto, OpenAlone, OpenFresh, OpenEnds, CloseAlone, CloseEnds, Destroys, Flagged,
        Unflagged,
        KilledIdle, OneResult, ResultOf, GraphBuilds, BuiltAt, MainBuilds, Aborting, Closes,
        Closed, CallEnds, ExitAlone,
        Carried, GraphIdle
  <2> QED
    BY <2>2, <2>4, <2>5
<1>5. CASE m.msg = "TM_CALL"
  <2>1. /\ stack' = [stack EXCEPT !["main"] =
               [i \in DOMAIN @ |-> IF @[i].pc = "call_wait"
                                   THEN [@[i] EXCEPT !.pc = "call_done"] ELSE @[i]]]
        /\ UNCHANGED lost
    BY <1>5 DEF GraphTakes
  <2> HIDE DEF m
  <2>2. /\ MainIs(IF MainPc = "call_wait" THEN "call_done" ELSE MainPc, MainOMD, MainKilled)
        /\ Unflagging' <=> Unflagging
        /\ GraphStays
    BY <1>0, <2>1, MainAnswered
  <2>3. Shapes'
    BY <1>2, <1>5, <2>2 DEF Shapes
  <2>4. Proto'
    BY <1>0, <1>1, <1>2, <1>5, <2>2
    DEF Proto, OpenAlone, OpenFresh, OpenEnds, CloseAlone, CloseEnds, Destroys, Flagged, Unflagged,
        KilledIdle, OneResult, ResultOf, GraphBuilds, BuiltAt, MainBuilds, Aborting, Closes,
        Closed, CallEnds, ExitAlone,
        Carried, GraphIdle
  <2> QED
    BY <2>1, <2>3, <2>4
<1>6. CASE m.msg = "TM_EXIT"
  <2>1. Enter("graph", << Frame("exited", None) >>) /\ UNCHANGED lost
    BY <1>6 DEF GraphTakes
  <2> HIDE DEF m
  <2>2. GraphPc' = "exited" /\ GraphShaped(stack'["graph"]) /\ MainStays
    BY <1>0, <1>1, <2>1, GraphEnters
  <2>3. Shapes'
    BY <1>2, <1>6, <2>2 DEF Shapes
  <2>4. Proto'
    BY <1>0, <1>1, <1>2, <1>6, <2>2
    DEF Proto, OpenAlone, OpenFresh, OpenEnds, CloseAlone, CloseEnds, Destroys, Flagged, Unflagged,
        KilledIdle, OneResult, ResultOf, GraphBuilds, BuiltAt, MainBuilds, Aborting, Closes,
        Closed, CallEnds, ExitAlone,
        Carried, GraphIdle
  <2> QED
    BY <2>1, <2>3, <2>4
<1> QED
  BY <1>1, <1>3, <1>4, <1>5, <1>6 DEF Requests

LEMMA SignalsKeep ==
    ASSUME TypeInv, Shapes, Proto, GraphSignals
    PROVE  Shapes' /\ Proto' /\ UNCHANGED lost
<1> USE DEF Pcs, CarryingPcs, OpenPcs, OpenPrivatePcs, ClosePcs, OtherPcs, GraphPcs, Below,
            LoadPcs, AbortPcs, OnOpenPcs, OnClosePcs, GraphIs, GraphStays, MainIs, MainStays,
            AsksStay, OrdersStay, OthersStay
<1>0. /\ StackInv /\ GraphPc \in GraphPcs /\ "main" \in Threads /\ "graph" \in Threads
      /\ UNCHANGED messages => AsksStay
  BY GraphKinds, SameAsks DEF TypeInv, Threads
<1>1. \E from \in {"on_open", "on_close"} :
          /\ stack["graph"] # << >> /\ GraphPc = from
          /\ from = "on_open" => evOpen' = TRUE /\ UNCHANGED evClose
          /\ from = "on_close" => evClose' = TRUE /\ UNCHANGED evOpen
  BY <1>0, AtPc DEF GraphSignals
<1>2. /\ UNCHANGED <<loadState, openedThroughThread, openingAborted, window, graph, lastOMD, lost>>
      /\ AsksStay /\ Return("graph")
  BY <1>0 DEF GraphSignals, flags, data
<1>3. GraphPc' = "idle" /\ GraphShaped(stack'["graph"]) /\ MainStays
  BY <1>0, <1>1, <1>2, GraphReturns
<1>4. Shapes'
  BY <1>2, <1>3 DEF Shapes
<1>5. Proto'
  BY <1>0, <1>1, <1>2, <1>3
  DEF Proto, OpenAlone, OpenFresh, OpenEnds, CloseAlone, CloseEnds, Destroys, Flagged, Unflagged,
        KilledIdle, OneResult, ResultOf, GraphBuilds, BuiltAt, MainBuilds, Aborting, Closes,
        Closed, CallEnds, ExitAlone,
        Carried, GraphIdle
<1> QED
  BY <1>2, <1>4, <1>5

\* The message loop of the main thread.
LEMMA MainKeeps ==
    ASSUME TypeInv, Shapes, Proto,
           \/ MainHandlesResult \/ MainCallReturns \/ MainCommand \/ MainCalls \/ MainQuits
           \/ MainDestroys
    PROVE  /\ Shapes' /\ Proto' /\ UNCHANGED lost
           /\ stack["main"] = << >> => ~Unflagging'
<1> USE DEF Pcs, CarryingPcs, OpenPcs, OpenPrivatePcs, ClosePcs, OtherPcs, GraphPcs, Below,
            LoadPcs, AbortPcs, OnOpenPcs, OnClosePcs, GraphIs, GraphStays, MainIs, MainStays,
            AsksStay, OrdersStay, OthersStay
<1>0. /\ StackInv /\ GraphPc \in GraphPcs /\ "main" \in Threads /\ "graph" \in Threads
      /\ UNCHANGED messages => AsksStay
  BY GraphKinds, SameAsks DEF TypeInv, Threads
<1>1. UNCHANGED <<loadState, openedThroughThread, openingAborted, evOpen, evClose, graph, lastOMD,
                  lost>>
  BY DEF MainHandlesResult, MainCallReturns, MainCommand, MainCalls, MainQuits, MainDestroys,
         flags, events, data
<1>2. stack["main"] = << >> => MainPc = "idle"
  BY DEF MainPc, PcOf
<1>3. /\ \A pc \in {"close_enter", "quit_destroy", "call_wait"} :
             /\ Frame(pc, None) \in OwnFrames /\ Frame(pc, None).pc = pc
             /\ ~Frame(pc, None).killed
      /\ \A omd \in Media : \A pc \in {"open_wait", "post_open", "open_failed"} :
             /\ Frame(pc, omd) \in OwnFrames /\ Frame(pc, omd).pc = pc /\ Frame(pc, omd).omd = omd
  BY FramesTyped DEF Frame
<1>4. ASSUME MainHandlesResult PROVE Shapes' /\ Proto' /\ ~Unflagging'
  <2>1. /\ stack["main"] = << >> /\ window # << >> /\ AsksStay
        /\ window' = Tail(window)
    BY <1>0, <1>4 DEF MainHandlesResult, Idle
  <2>2. PICK msg \in {"WM_POSTOPEN", "WM_OPENFAILED"}, omd \in Media :
            window = << [msg |-> msg, omd |-> omd] >> /\ ResultOf(msg, omd)
    BY <2>1 DEF Proto, OneResult
  <2>3. window' = << >> /\ Head(window) = [msg |-> msg, omd |-> omd]
    BY <2>1, <2>2
  <2>4. PICK pc \in {"post_open", "open_failed"} :
            /\ Enter("main", << Frame(pc, omd) >>)
            /\ pc = "post_open" => msg = "WM_POSTOPEN"
    BY <1>4, <2>3 DEF MainHandlesResult
  <2>5. BuiltAt(pc, omd)
    BY <2>2, <2>4 DEF BuiltAt, ResultOf
  <2> DEFINE f == Frame(pc, omd)
  <2>6. f \in OwnFrames /\ f.pc = pc /\ f.omd = omd
    BY <1>3
  <2>7. Enter("main", << f >>)
    BY <2>4
  <2> HIDE DEF f
  <2>8. MainPc' = pc /\ MainOMD' = omd /\ Shaped(stack'["main"]) /\ ~Unflagging' /\ GraphStays
    BY <1>0, <2>1, <2>6, <2>7, MainEnters
  <2>9. Shapes'
    BY <2>1, <2>8 DEF Shapes
  <2>10. Proto'
    BY <1>0, <1>1, <1>2, <2>1, <2>3, <2>5, <2>8
    DEF Proto, OpenAlone, OpenFresh, OpenEnds, CloseAlone, CloseEnds, Destroys, Flagged, Unflagged,
        KilledIdle, OneResult, ResultOf, GraphBuilds, BuiltAt, MainBuilds, Aborting, Closes, Closed,
        CallEnds, ExitAlone, Carried, GraphIdle
  <2> QED
    BY <2>8, <2>9, <2>10
<1>5. ASSUME MainCallReturns PROVE Shapes' /\ Proto' /\ stack["main"] # << >>
  <2>1. stack["main"] # << >> /\ MainPc = "call_done"
    BY <1>0, <1>5, AtPc DEF MainCallReturns
  <2>2. UNCHANGED window /\ AsksStay /\ Return("main")
    BY <1>0, <1>5 DEF MainCallReturns
  <2>3. /\ MainPc' \in {"idle", "open_unflag"} /\ Shaped(stack'["main"]) /\ GraphStays
        /\ Unflagging' <=> Unflagging
    BY <1>0, <2>1, <2>2, MainReturns
  <2>4. Shapes'
    BY <2>2, <2>3 DEF Shapes
  <2>5. Proto'
    BY <1>0, <1>1, <2>1, <2>2, <2>3
    DEF Proto, OpenAlone, OpenFresh, OpenEnds, CloseAlone, CloseEnds, Destroys, Flagged, Unflagged,
        KilledIdle, OneResult, ResultOf, GraphBuilds, BuiltAt, MainBuilds, Aborting, Closes,
        Closed, CallEnds, ExitAlone,
        Carried, GraphIdle
  <2> QED
    BY <2>1, <2>4, <2>5
<1>6. ASSUME MainCommand \/ MainQuits PROVE Shapes' /\ Proto' /\ ~Unflagging'
  <2>1. stack["main"] = << >> /\ UNCHANGED window /\ AsksStay
    BY <1>0, <1>6 DEF MainCommand, MainQuits, Idle
  <2>2. /\ MainPc' \in {"open_wait", "close_enter", "quit_destroy"} /\ ~Unflagging'
        /\ MainPc' = "close_enter" => ~MainKilled'
        /\ MainPc' = "quit_destroy" => loadState \notin {"LOADED", "LOADING"}
        /\ Shaped(stack'["main"]) /\ GraphStays
    <3>1. CASE StartOpen
      <4>1. nextOMD \in Media
        BY <3>1, MediaLoaderAssumption DEF TypeInv, Values, StartOpen, NewOMD, Media
      <4>2. /\ Frame("open_wait", nextOMD) \in OwnFrames
            /\ Frame("open_wait", nextOMD).pc = "open_wait"
        BY <1>3, <4>1
      <4>3. Enter("main", << Frame("open_wait", nextOMD) >>)
        BY <3>1 DEF StartOpen
      <4> QED
        BY <1>0, <2>1, <4>2, <4>3, MainEnters
    <3>2. CASE \E pc \in {"close_enter", "quit_destroy"} :
                   /\ Enter("main", << Frame(pc, None) >>)
                   /\ pc = "quit_destroy" => loadState \notin {"LOADED", "LOADING"}
      <4>1. PICK pc \in {"close_enter", "quit_destroy"} :
                /\ Enter("main", << Frame(pc, None) >>)
                /\ pc = "quit_destroy" => loadState \notin {"LOADED", "LOADING"}
        BY <3>2
      <4>2. Frame(pc, None) \in OwnFrames /\ Frame(pc, None).pc = pc /\ ~Frame(pc, None).killed
        BY <1>3
      <4> QED
        BY <1>0, <2>1, <4>1, <4>2, MainEnters
    <3>3. CASE Enter("main", << Frame("close_enter", None), Frame("quit_destroy", None) >>)
      <4> DEFINE f == Frame("close_enter", None)
                 g == Frame("quit_destroy", None)
      <4>1. /\ f \in OwnFrames /\ f.pc = "close_enter" /\ ~f.killed
            /\ g \in OwnFrames /\ g.pc = "quit_destroy"
        BY <1>3
      <4>2. Enter("main", << f, g >>)
        BY <3>3
      <4> HIDE DEF f, g
      <4> QED
        BY <1>0, <2>1, <4>1, <4>2, MainEntersTwo
    <3> QED
      BY <1>6, <3>1, <3>2, <3>3 DEF MainCommand, MainQuits, StartClose
  <2>3. Shapes'
    BY <2>1, <2>2 DEF Shapes
  <2>4. MainPc' = "quit_destroy" => loadState = "CLOSED"
    BY <1>1, <2>1, <2>2 DEF Proto, Closes, Carried, TypeInv, Values, LoadStates, MainPc, PcOf
  <2>5. Proto'
    BY <1>0, <1>1, <1>2, <2>1, <2>2, <2>4
    DEF Proto, OpenAlone, OpenFresh, OpenEnds, CloseAlone, CloseEnds, Destroys, Flagged, Unflagged,
        KilledIdle, OneResult, ResultOf, GraphBuilds, BuiltAt, MainBuilds, Aborting, Closes,
        Closed, CallEnds, ExitAlone,
        Carried, GraphIdle
  <2> QED
    BY <2>2, <2>3, <2>5
<1>7. ASSUME MainCalls PROVE Shapes' /\ Proto' /\ ~Unflagging'
  <2> DEFINE m == [msg |-> "TM_CALL", omd |-> None]
  <2>1. /\ stack["main"] = << >> /\ UNCHANGED window /\ messages' = Append(messages, m)
        /\ Enter("main", << Frame("call_wait", None) >>)
    BY <1>7 DEF MainCalls, Idle
  <2>2. m \in Requests /\ m.msg = "TM_CALL"
    BY DEF Requests
  <2> HIDE DEF m
  <2>3. OrdersStay /\ CallAsked' /\ (ExitAsked' <=> ExitAsked)
    BY <2>1, <2>2, AppendAsks DEF TypeInv, Shapes
  <2>4. Frame("call_wait", None) \in OwnFrames /\ Frame("call_wait", None).pc = "call_wait"
    BY <1>3
  <2>5. MainPc' = "call_wait" /\ ~Unflagging' /\ Shaped(stack'["main"]) /\ GraphStays
    BY <1>0, <2>1, <2>4, MainEnters
  <2>6. Shapes'
    BY <2>3, <2>5 DEF Shapes
  <2>7. Proto'
    BY <1>0, <1>1, <1>2, <2>1, <2>3, <2>5
    DEF Proto, OpenAlone, OpenFresh, OpenEnds, CloseAlone, CloseEnds, Destroys, Flagged, Unflagged,
        KilledIdle, OneResult, ResultOf, GraphBuilds, BuiltAt, MainBuilds, Aborting, Closes,
        Closed, CallEnds, ExitAlone,
        Carried, GraphIdle
  <2> QED
    BY <2>5, <2>6, <2>7
<1>8. ASSUME MainDestroys PROVE Shapes' /\ Proto' /\ stack["main"] # << >>
  <2> DEFINE m == [msg |-> "TM_EXIT", omd |-> None]
  <2>1. /\ UNCHANGED window /\ messages' = Append(messages, m) /\ Goto("main", "quit_wait")
        /\ stack["main"] # << >> /\ MainPc = "quit_destroy"
    BY <1>0, <1>8, AtPc DEF MainDestroys
  <2>2. m \in Requests /\ m.msg = "TM_EXIT"
    BY DEF Requests
  <2> HIDE DEF m
  <2>3. OrdersStay /\ ExitAsked'
    BY <2>1, <2>2, AppendAsks DEF TypeInv, Shapes
  <2>4. MainIs("quit_wait", MainOMD, MainKilled) /\ (Unflagging' <=> Unflagging) /\ GraphStays
    BY <1>0, <2>1, MainGoes
  <2>5. Shapes'
    BY <2>3, <2>4 DEF Shapes
  <2>6. Proto'
    BY <1>0, <1>1, <2>1, <2>3, <2>4
    DEF Proto, OpenAlone, OpenFresh, OpenEnds, CloseAlone, CloseEnds, Destroys, Flagged, Unflagged,
        KilledIdle, OneResult, ResultOf, GraphBuilds, BuiltAt, MainBuilds, Aborting, Closes,
        Closed, CallEnds, ExitAlone,
        Carried, GraphIdle
  <2> QED
    BY <2>1, <2>5, <2>6
<1> QED
  BY <1>1, <1>4, <1>5, <1>6, <1>7, <1>8

LEMMA ExitsKeep ==
    ASSUME TypeInv, Shapes, Proto, MainExits
    PROVE  Shapes' /\ Proto' /\ (At("graph", "exited") \/ ~Unflagging')
<1> USE DEF Pcs, CarryingPcs, OpenPcs, OpenPrivatePcs, ClosePcs, OtherPcs, GraphPcs, Below,
            LoadPcs, AbortPcs, OnOpenPcs, OnClosePcs, GraphIs, GraphStays, MainIs, MainStays,
            AsksStay, OrdersStay, OthersStay
<1>0. /\ StackInv /\ GraphPc \in GraphPcs /\ "main" \in Threads /\ "graph" \in Threads
      /\ UNCHANGED messages => AsksStay
  BY GraphKinds, SameAsks DEF TypeInv, Threads
<1>1. stack["main"] # << >> /\ MainPc = "quit_wait"
  BY <1>0, AtPc DEF MainExits
<1>2. UNCHANGED <<loadState, openedThroughThread, openingAborted, evOpen, evClose, window, graph,
                  lastOMD>>
  BY DEF MainExits, flags, events
<1>3. CASE At("graph", "exited")
  <2>1. Goto("main", "exited") /\ AsksStay
    BY <1>0, <1>3 DEF MainExits
  <2>2. MainIs("exited", MainOMD, MainKilled) /\ (Unflagging' <=> Unflagging) /\ GraphStays
    BY <1>0, <1>1, <2>1, MainGoes
  <2>3. Shapes'
    BY <2>1, <2>2 DEF Shapes
  <2>4. Proto'
    BY <1>0, <1>1, <1>2, <2>1, <2>2
    DEF Proto, OpenAlone, OpenFresh, OpenEnds, CloseAlone, CloseEnds, Destroys, Flagged, Unflagged,
        KilledIdle, OneResult, ResultOf, GraphBuilds, BuiltAt, MainBuilds, Aborting, Closes,
        Closed, CallEnds, ExitAlone,
        Carried, GraphIdle
  <2> QED
    BY <1>3, <2>3, <2>4
<1>4. CASE ~At("graph", "exited")
  <2> DEFINE f == Frame("exited", None)
  <2>1. messages' = << >> /\ stack' = [stack EXCEPT !["graph"] = << f >>, !["main"] = << f >>]
    BY <1>4 DEF MainExits
  <2>2. stack'["main"] = << f >> /\ stack'["graph"] = << f >>
    BY <1>0, <2>1 DEF StackInv
  <2>3. f \in OwnFrames /\ f.pc = "exited"
    BY GraphFrames
  <2>4. GraphShaped(<< f >>)
    BY DEF GraphShaped
  <2> HIDE DEF f
  <2>5. PcOf(<< f >>) = "exited"
    BY <2>3, PairTops
  <2>6. Shaped(<< f >>) /\ ~Unflags(<< f >>)
    BY <2>3 DEF Shaped, Unflags
  <2>7. MainPc' = "exited" /\ ~Unflagging' /\ GraphPc' = "exited"
    BY <2>2, <2>5, <2>6 DEF MainPc, GraphPc, Unflagging
  <2>8. NoAsks
    BY <2>1, EmptyAsks
  <2>9. Shapes'
    BY <2>2, <2>4, <2>6, <2>8 DEF Shapes, NoAsks
  <2>10. Proto'
    BY <1>0, <1>1, <1>2, <2>7, <2>8
    DEF NoAsks, Proto, OpenAlone, OpenFresh, OpenEnds, CloseAlone, CloseEnds, Destroys, Flagged,
        Unflagged,
        KilledIdle, OneResult, ResultOf, GraphBuilds, BuiltAt, MainBuilds, Aborting, Closes,
        Closed, CallEnds, ExitAlone,
        Carried, GraphIdle
  <2> QED
    BY <2>7, <2>9, <2>10
<1> QED
  BY <1>3, <1>4

-----------------------------------------------------------------------------
(* The protocol holds as long as nothing it rests on is broken. *)

Inv == TypeInv /\ (Undisturbed => Shapes /\ Proto)

LEMMA InitProtocol == Init => Inv
<1> SUFFICES ASSUME Init PROVE Inv
  OBVIOUS
<1>1. TypeInv
  BY InitTyped
<1>2. /\ stack["main"] = << >> /\ stack["graph"] = << >> /\ messages = << >>
      /\ loadState = "CLOSED" /\ openingAborted = FALSE /\ graph = None /\ lastOMD = None
      /\ window = << >>
  BY DEF Init, Threads
<1>3. /\ MainPc = "idle" /\ GraphPc = "idle" /\ ~Unflagging /\ Shapes
      /\ ~OpenAsked /\ ~CloseAsked /\ ~ExitAsked
  BY <1>2, NothingUnflags
  DEF MainPc, GraphPc, PcOf, Unflagging, Shapes, GraphShaped, OneRequest, OpenAsked, CloseAsked,
      ExitAsked, Asks
<1>4. Proto
  BY <1>2, <1>3
  DEF Proto, OpenAlone, OpenFresh, OpenEnds, CloseAlone, CloseEnds, Destroys, Flagged, Unflagged,
      KilledIdle, OneResult, ResultOf, GraphBuilds, BuiltAt, MainBuilds, Aborting, Closes, Closed,
        CallEnds, ExitAlone,
        Carried, GraphIdle,
      ClosePcs, OpenPrivatePcs, LoadPcs, AbortPcs, OnOpenPcs, OnClosePcs
<1> QED
  BY <1>1, <1>3, <1>4 DEF Inv

LEMMA NothingHappens == ASSUME Shapes, Proto, UNCHANGED vars PROVE Shapes' /\ Proto'
  BY DEF vars, Shapes, Shaped, GraphShaped, OneRequest, OpenAsked, CloseAsked, CallAsked, ExitAsked,
         Asks, MainPc, MainOMD, MainKilled, GraphPc, GraphOMD, Unflagging,
         Proto, OpenAlone, OpenFresh, OpenEnds, CloseAlone, CloseEnds, Destroys, Flagged,
         Unflagged, KilledIdle, OneResult, ResultOf, GraphBuilds, BuiltAt, MainBuilds, Aborting,
        Closes, Closed,
         CallEnds, ExitAlone, Carried, GraphIdle

\* A command that enters a wait is counted, and nothing else changes the count.
LEMMA SentCounts ==
    ASSUME TypeInv, [Next]_vars, sent' = 0
    PROVE  sent = 0 /\ ~SentCommand
<1>1. sent \in Nat
  BY DEF TypeInv, Values
<1>2. SentCommand \/ UNCHANGED sent
  BY DEF Next, Main, Graph, Step, vars, Open, OpenCloses, OpenActivates, OpenPromptAnswered,
        OpenLoads,
         OpenFlags, Private, PrivateCreates, OpenCreateGraphObject, PrivateRenders, DialogCreated,
        DialogShown,
         DialogDeleted, PrivateChecks, PrivateReports, Handlers, PostOpen, OpenFailed,
         FailedOpensNext, Close, CloseEnters, CloseEndsDialog, CloseLocksDialog, CloseAborts,
         CloseKills, ClosePurges, CloseStarts, CloseWaits, ClosePrivate, CloseDone, GraphTakes,
         GraphSignals, MainHandlesResult, MainCallReturns, MainDestroys, MainExits, MainCommand,
         MainCalls, MainQuits
<1>3. ~SentCommand
  BY <1>1 DEF SentCommand
<1> QED
  BY <1>2, <1>3

\* What a step does to the protocol, and to the pointers that are lost.
LEMMA StepKeeps ==
    ASSUME TypeInv, Shapes, Proto, [Next]_vars, ~SentCommand, NotHandedInside',
           (\E t \in Threads : Private(t) \/ PrivateRenders(t)) => ResultsOnMain'
    PROVE  /\ Shapes' /\ Proto'
           /\ lost' # lost => At("main", "close_kill") \/ At("main", "quit_wait")
<1>1. ASSUME NEW t \in Threads, Open(t) PROVE Shapes' /\ Proto' /\ UNCHANGED lost
  BY <1>1, OpenKeeps
  DEF Open, OpenCloses, OpenActivates, OpenPromptAnswered, OpenLoads, OpenFlags, data
<1>2. ASSUME NEW t \in Threads, Private(t) \/ PrivateRenders(t)
      PROVE  Shapes' /\ Proto' /\ UNCHANGED lost
  BY <1>2, PrivateKeeps
  DEF Private, PrivateCreates, OpenCreateGraphObject, PrivateRenders, DialogCreated, DialogShown,
        DialogDeleted,
      PrivateChecks, PrivateReports, data
<1>3. ASSUME NEW t \in Threads, Handlers(t) PROVE Shapes' /\ Proto' /\ UNCHANGED lost
  BY <1>3, HandlersKeep
<1>4. ASSUME NEW t \in Threads, Close(t)
      PROVE  Shapes' /\ Proto' /\ (UNCHANGED lost \/ At("main", "close_kill"))
  <2>1. CASE CloseKills(t)
    BY <1>4, <2>1, KillKeeps DEF CloseKills
  <2>2. CASE ~CloseKills(t)
    BY <1>4, <2>2, CloseKeeps
    DEF Close, CloseEnters, CloseEndsDialog, CloseLocksDialog, CloseAborts, ClosePurges,
        CloseStarts, CloseWaits, ClosePrivate, CloseDone, data
  <2> QED
    BY <2>1, <2>2
<1>5. CASE GraphTakes \/ GraphSignals
  BY <1>5, TakesKeep, SignalsKeep
<1>6. CASE \/ MainHandlesResult \/ MainCallReturns \/ MainCommand \/ MainCalls \/ MainQuits
           \/ MainDestroys
  BY <1>6, MainKeeps
<1>7. CASE MainExits
  BY <1>7, ExitsKeep DEF MainExits
<1>8. CASE UNCHANGED vars
  BY <1>8, NothingHappens DEF vars
<1>9. CASE Step("main") \/ Step("graph") \/ \E t \in Threads : PrivateRenders(t)
  BY <1>1, <1>2, <1>3, <1>4, <1>9 DEF Step, Threads
<1> QED
  BY <1>5, <1>6, <1>7, <1>8, <1>9 DEF Next, Main, Graph

LEMMA ProtocolPreserved ==
    ASSUME Inv, Hyp', [Next]_vars
    PROVE  /\ Inv'
           /\ sent' = 0 /\ lost' # lost => At("main", "close_kill") \/ At("main", "quit_wait")
<1>1. TypeInv'
  BY TypePreserved DEF Inv
<1>2. ASSUME sent' = 0
      PROVE  /\ Shapes' /\ Proto'
             /\ lost' # lost => At("main", "close_kill") \/ At("main", "quit_wait")
  <2>1. sent = 0 /\ ~SentCommand
    BY <1>2, SentCounts DEF Inv
  <2>2. ResultsOnMain' /\ NotHandedInside'
    BY <1>2 DEF Hyp, Undisturbed
  <2>3. Shapes /\ Proto /\ TypeInv
    BY <2>1 DEF Inv, Undisturbed
  <2> QED
    BY <2>1, <2>2, <2>3, StepKeeps
<1> QED
  BY <1>1, <1>2 DEF Inv, Undisturbed

-----------------------------------------------------------------------------
(* What the protocol promises. *)

\* A thread uses the graph in its innermost procedure only.
LEMMA UsersOnTop ==
    ASSUME StackInv, Shapes
    PROVE  /\ UsesGraph("main") => MainPc \in OpenPrivatePcs \union {"close_private"}
           /\ UsesGraph("graph") => GraphPc \in OpenPrivatePcs \union {"close_private"}
<1> DEFINE Users == OpenPrivatePcs \union {"close_private"}
<1>1. ASSUME UsesGraph("main") PROVE MainPc \in Users
  <2> DEFINE s == stack["main"]
  <2>1. s \in Seq(OwnFrames) /\ Len(s) \in Nat /\ DOMAIN s = 1..Len(s)
    BY StacksTyped, LenProperties
  <2>2. PICK i \in 1..Len(s) : s[i].pc \in Users
    BY <1>1, <2>1 DEF UsesGraph, InCall
  <2>3. CASE i = 1
    BY <2>1, <2>2, <2>3, EmptySeq DEF MainPc, PcOf
  <2>4. CASE i # 1
    <3>1. i - 1 \in 1..Len(s) /\ i - 1 # Len(s) /\ (i - 1) + 1 = i
      BY <2>1, <2>4
    <3>2. s[i].pc \in Below(s[i - 1].pc)
      BY <3>1 DEF Shapes, Shaped
    <3> QED
      BY <2>2, <3>2 DEF Below, OpenPrivatePcs
  <2> QED
    BY <2>3, <2>4
<1>2. ASSUME UsesGraph("graph") PROVE GraphPc \in Users
  <2> DEFINE s == stack["graph"]
  <2>1. PICK i \in DOMAIN s : s[i].pc \in Users
    BY <1>2 DEF UsesGraph, InCall
  <2>2. CASE s = << >>
    BY <2>1, <2>2
  <2>3. CASE \E pc \in {"on_open", "on_close", "exited"} : s = << Frame(pc, None) >>
    <3>1. PICK pc \in {"on_open", "on_close", "exited"} : s = << Frame(pc, None) >>
      BY <2>3
    <3>2. s[i].pc = pc
      BY <2>1, <3>1 DEF Frame
    <3> QED
      BY <2>1, <3>2 DEF OpenPrivatePcs
  <2>4. CASE \E f \in OwnFrames : f.pc \in OpenPrivatePcs /\ s = << f, Frame("on_open", None) >>
    <3>1. PICK f \in OwnFrames : f.pc \in OpenPrivatePcs /\ s = << f, Frame("on_open", None) >>
      BY <2>4
    <3>2. Frame("on_open", None) \in OwnFrames
      BY GraphFrames
    <3>3. PcOf(stack["graph"]) = f.pc
      BY <3>1, <3>2, PairTops
    <3> QED
      BY <3>1, <3>3 DEF GraphPc
  <2>5. CASE s = << Frame("close_private", None), Frame("on_close", None) >>
    <3> DEFINE f == Frame("close_private", None)
               g == Frame("on_close", None)
    <3>1. f \in OwnFrames /\ f.pc = "close_private" /\ g \in OwnFrames
      BY GraphFrames
    <3>2. stack["graph"] = << f, g >>
      BY <2>5
    <3> HIDE DEF f, g
    <3>3. PcOf(stack["graph"]) = "close_private"
      BY <3>1, <3>2, PairTops
    <3> QED
      BY <3>3 DEF GraphPc
  <2> QED
    BY <2>2, <2>3, <2>4, <2>5 DEF Shapes, GraphShaped
<1> QED
  BY <1>1, <1>2

LEMMA InvExclusive == Inv => GraphExclusive
<1> SUFFICES ASSUME Inv, Undisturbed PROVE GraphExclusive
  BY DEF GraphExclusive
<1>1. StackInv /\ Shapes /\ Proto
  BY DEF Inv, TypeInv
<1>2. ~(UsesGraph("main") /\ UsesGraph("graph"))
  BY <1>1, UsersOnTop
  DEF Proto, OpenAlone, CloseAlone, Closes, GraphIdle, LoadPcs, OnClosePcs, OpenPrivatePcs
<1>3. ASSUME NEW t \in Threads, At(t, "private_start") PROVE graph = None
  <2>1. \/ t = "main" /\ MainPc = "private_start"
        \/ t = "graph" /\ GraphPc = "private_start"
    BY <1>1, <1>3, AtPc DEF Threads
  <2> QED
    BY <1>1, <2>1 DEF Proto, MainBuilds, GraphBuilds, BuiltAt, LoadPcs, OpenPrivatePcs
<1> QED
  BY <1>2, <1>3 DEF GraphExclusive

LEMMA InvFresh == Inv => ResultFresh
<1> SUFFICES ASSUME Inv, Undisturbed PROVE ResultFresh
  BY DEF ResultFresh
<1>1. StackInv /\ Shapes /\ Proto
  BY DEF Inv, TypeInv
<1>2. Opening /\ loadState = "LOADING" =>
          OpenAsked \/ MainPc \in OpenPrivatePcs \/ GraphPc \in OpenPrivatePcs
  <2>1. messages \in Seq(Requests)
    BY DEF Inv, TypeInv
  <2>2. (\E i \in DOMAIN messages : messages[i].msg = "TM_OPEN") => OpenAsked
    BY <2>1 DEF OpenAsked, Asks
  <2>3. ASSUME NEW t \in Threads, InCall(t, OpenPrivatePcs)
        PROVE  {MainPc, GraphPc} \intersect (OpenPrivatePcs \union {"close_private"}) # {}
    <3>1. UsesGraph(t)
      BY <2>3 DEF UsesGraph, InCall
    <3> QED
      BY <1>1, <3>1, UsersOnTop DEF Threads
  <2>4. loadState = "LOADING" => MainPc # "close_private" /\ GraphPc # "close_private"
    BY <1>1 DEF Proto, Closes, CloseAlone, OnClosePcs
  <2> QED
    BY <2>2, <2>3, <2>4 DEF Opening
<1>3. ASSUME window # << >>
      PROVE  /\ Len(window) = 1 /\ loadState = "LOADING" /\ ~Opening
             /\ \A i \in DOMAIN window : ResultOf(window[i].msg, window[i].omd)
  <2>1. PICK msg, omd : window = << [msg |-> msg, omd |-> omd] >> /\ ResultOf(msg, omd)
    BY <1>1, <1>3 DEF Proto, OneResult
  <2>2. loadState = "LOADING" /\ ~Opening
    BY <1>1, <1>2, <1>3 DEF Proto, OneResult, OpenAlone, LoadPcs
  <2> QED
    BY <2>1, <2>2
<1>4. ASSUME NEW t \in Threads, At(t, "post_open") \/ At(t, "open_failed")
      PROVE  /\ loadState = "LOADING" /\ window = << >> /\ ~Opening
             /\ At(t, "post_open") => ResultOf("WM_POSTOPEN", Top(t).omd)
             /\ At(t, "open_failed") => ResultOf("WM_OPENFAILED", Top(t).omd)
  <2>1. PICK pc \in {"post_open", "open_failed"} : At(t, pc)
    BY <1>4
  <2>2. \/ t = "main" /\ MainPc = pc /\ MainOMD = Top(t).omd
        \/ t = "graph" /\ GraphPc = pc
    BY <1>1, <2>1, AtPc DEF Threads
  <2>3. GraphPc \notin {"post_open", "open_failed"}
    BY <1>1, GraphKinds DEF GraphPcs, OpenPrivatePcs
  <2>4. MainPc = pc /\ MainOMD = Top(t).omd
    BY <2>2, <2>3
  <2>5. loadState = "LOADING" /\ BuiltAt(pc, Top(t).omd) /\ window = << >> /\ ~Opening
    BY <1>1, <1>2, <2>4 DEF Proto, MainBuilds, OneResult, OpenAlone, LoadPcs, OpenPrivatePcs
  <2>6. \A other : At(t, other) => other = pc
    BY <2>1 DEF At
  <2> QED
    BY <2>5, <2>6 DEF BuiltAt, ResultOf
<1>5. /\ Len(window) <= 1
      /\ \A i \in DOMAIN window :
             loadState = "LOADING" /\ ~Opening /\ ResultOf(window[i].msg, window[i].omd)
  <2>1. CASE window = << >>
    <3>1. Len(window) = 0 /\ DOMAIN window = {}
      BY <2>1
    <3> QED
      BY <3>1
  <2>2. CASE window # << >>
    <3>1. Len(window) = 1
      BY ONLY <1>3, <2>2
    <3>2. Len(window) <= 1
      BY ONLY <3>1
    <3> QED
      BY <1>3, <2>2, <3>2
  <2> QED
    BY <2>1, <2>2
<1>6. \A t \in Threads :
          /\ At(t, "post_open") => ResultOf("WM_POSTOPEN", Top(t).omd)
          /\ At(t, "open_failed") => ResultOf("WM_OPENFAILED", Top(t).omd)
          /\ At(t, "post_open") \/ At(t, "open_failed") =>
                 loadState = "LOADING" /\ window = << >> /\ ~Opening
  BY <1>4
<1> QED
  BY <1>5, <1>6 DEF ResultFresh

LEMMA InvClean == Inv => ClosedClean
<1> SUFFICES ASSUME Inv, Undisturbed, loadState = "CLOSED" PROVE ClosedClean
  BY DEF ClosedClean
<1>1. StackInv /\ Shapes /\ Proto
  BY DEF Inv, TypeInv
<1>2. graph = None /\ lastOMD = None /\ window = << >> /\ GraphIdle
  BY <1>1 DEF Proto, Closed
<1>3. ~openingAborted
  BY <1>1 DEF Proto, Aborting
<1>4. \A i \in DOMAIN messages : messages[i].msg \notin {"TM_OPEN", "TM_CLOSE"}
  <2>1. messages \in Seq(Requests)
    BY DEF Inv, TypeInv
  <2> QED
    BY <1>2, <2>1 DEF GraphIdle, OpenAsked, CloseAsked, Asks
<1>5. ~UsesGraph("main") /\ ~UsesGraph("graph")
  BY <1>1, <1>2, UsersOnTop
  DEF Proto, MainBuilds, Closes, GraphIdle, LoadPcs, OpenPrivatePcs
<1> QED
  BY <1>2, <1>3, <1>4, <1>5 DEF ClosedClean, Threads

\* In a behaviour in which, before any other program's command enters a wait, every result is
\* handled on the main thread and no media is handed to the graph thread inside the open of
\* media that is built on the main thread: the graph has one user at a time and is created
\* only where the last one was destroyed.
THEOREM ProtocolExcludes == Spec /\ []Hyp => []GraphExclusive
<1>1. Inv /\ Hyp' /\ [Next]_vars => Inv'
  BY ProtocolPreserved
<1> QED
  BY InitProtocol, <1>1, InvExclusive, PTL DEF Spec

\* In the same behaviours a result on its way, or at its handler, is the only one, that of the
\* media being loaded: about the graph that stands, if one could be created.
THEOREM ProtocolDelivers == Spec /\ []Hyp => []ResultFresh
<1>1. Inv /\ Hyp' /\ [Next]_vars => Inv'
  BY ProtocolPreserved
<1> QED
  BY InitProtocol, <1>1, InvFresh, PTL DEF Spec

\* In the same behaviours nothing of the last media is left in the closed state.
THEOREM ProtocolCleans == Spec /\ []Hyp => []ClosedClean
<1>1. Inv /\ Hyp' /\ [Next]_vars => Inv'
  BY ProtocolPreserved
<1> QED
  BY InitProtocol, <1>1, InvClean, PTL DEF Spec

\* In the same behaviours a pointer to an OpenMediaData is lost only by a termination of the
\* graph thread: neither its handler of TM_OPEN nor OnFilePostOpenmedia ever ignores one.
THEOREM ProtocolLosesNothing == Spec /\ []Hyp => LostByTermination
<1>1. Inv /\ Hyp' /\ [Next]_vars => Inv'
  BY ProtocolPreserved
<1>2. Inv /\ Hyp' /\ [Next]_vars =>
          [sent' = 0 /\ lost' # lost => At("main", "close_kill") \/ At("main", "quit_wait")]_vars
  BY ProtocolPreserved
<1> QED
  BY InitProtocol, <1>1, <1>2, PTL DEF Spec, LostByTermination

-----------------------------------------------------------------------------
(* When nothing the protocol rests on is broken. *)

\* Once an OpenMediaData is built on the main thread, all later ones are: so it is when every
\* file is opened by the graph thread, or none.
MainMediaLast == \A m \in MainMedia, n \in Media : n > m => n \in MainMedia

\* A frame that may stand on one of OpenMedia that builds here.
Safe(f) == f.pc # "open_flag" /\ f.omd \in MainMedia \union {None}
AllSafe(s) == \A i \in 1..Len(s) : Safe(s[i])

\* What runs inside the open of media that is built here, or is opened later, is built here.
Handing ==
    Unflagging =>
        /\ AllSafe(stack["main"])
        /\ \A n \in Media : n >= nextOMD => n \in MainMedia

\* No OpenMediaData gets an earlier number.
Later == \A n \in Media : n >= nextOMD' => n >= nextOMD

LEMMA LaterNext == ASSUME TypeInv, NewOMD \/ UNCHANGED nextOMD PROVE Later
<1>1. nextOMD \in Nat /\ \A n \in Media : n \in Nat
  BY MediaLoaderAssumption DEF TypeInv, Values, Media
<1> QED
  BY <1>1 DEF Later, NewOMD

LEMMA SafeTops ==
    \A f \in OwnFrames : \A s \in Seq(OwnFrames) :
        AllSafe(s) /\ Safe(f) => AllSafe(Push(f, s))
<1> SUFFICES ASSUME NEW f \in OwnFrames, NEW s \in Seq(OwnFrames), AllSafe(s), Safe(f)
             PROVE  AllSafe(Push(f, s))
  OBVIOUS
<1> DEFINE r == Push(f, s)
<1>1. /\ r \in Seq(OwnFrames) /\ Len(r) = Len(s) + 1 /\ r[1] = f /\ Len(s) \in Nat
      /\ \A i \in 1..Len(s) : r[i + 1] = s[i]
  BY PushProperties, LenProperties
<1> HIDE DEF r
<1>2. ASSUME NEW i \in 1..Len(r) PROVE Safe(r[i])
  <2>1. CASE i = 1
    BY <1>1, <2>1
  <2>2. CASE i # 1
    <3>1. i - 1 \in 1..Len(s) /\ (i - 1) + 1 = i
      BY <1>1, <2>2
    <3> QED
      BY <1>1, <3>1 DEF AllSafe
  <2> QED
    BY <2>1, <2>2
<1> QED
  BY <1>2 DEF AllSafe, r

LEMMA SafeRests ==
    \A s \in Seq(OwnFrames) : s # << >> /\ AllSafe(s) => Safe(Head(s)) /\ AllSafe(Tail(s))
<1> SUFFICES ASSUME NEW s \in Seq(OwnFrames), s # << >>, AllSafe(s)
             PROVE  Safe(Head(s)) /\ AllSafe(Tail(s))
  OBVIOUS
<1> DEFINE r == Tail(s)
<1>1. /\ Len(s) \in Nat \ {0} /\ Head(s) = s[1] /\ Len(r) = Len(s) - 1
      /\ \A i \in 1..(Len(s) - 1) : r[i] = s[i + 1]
  BY TailProperties
<1> HIDE DEF r
<1>2. ASSUME NEW i \in 1..Len(r) PROVE Safe(r[i])
  <2>1. i + 1 \in 1..Len(s) /\ r[i] = s[i + 1]
    BY <1>1
  <2> QED
    BY <2>1 DEF AllSafe
<1>3. Safe(s[1])
  BY <1>1 DEF AllSafe
<1> QED
  BY <1>1, <1>2, <1>3 DEF AllSafe, r

\* The stack below the frame that runs.
LEMMA SafeBelow ==
    ASSUME StackInv, stack["main"] # << >>
    PROVE  /\ Tail(stack["main"]) \in Seq(OwnFrames)
           /\ Unflags(Tail(stack["main"])) => Unflagging
           /\ Handing /\ Unflagging => Safe(Top("main")) /\ AllSafe(Tail(stack["main"]))
  BY StacksTyped, Rests, SafeRests DEF Handing, Unflagging, Top

LEMMA HandsOn ==
    ASSUME StackInv, Handing, Later, stack["main"] # << >>,
           NEW f \in OwnFrames, f.pc # "open_unflag", Unflagging => Safe(f),
           Becomes("main", << f >>)
    PROVE  Handing'
<1> DEFINE s == Tail(stack["main"])
<1>1. /\ s \in Seq(OwnFrames) /\ (Unflags(s) => Unflagging)
      /\ Unflagging => AllSafe(s)
  BY SafeBelow
<1>2. stack' = [stack EXCEPT !["main"] = Push(f, s)]
  BY DEF Becomes, Push
<1> HIDE DEF s
<1>3. stack'["main"] = Push(f, s)
  BY <1>2 DEF StackInv, Threads
<1>4. /\ Unflags(Push(f, s)) <=> f.pc = "open_unflag" \/ Unflags(s)
      /\ AllSafe(s) /\ Safe(f) => AllSafe(Push(f, s))
  BY <1>1, Tops, SafeTops
<1>5. Unflagging' => Unflagging /\ AllSafe(stack'["main"])
  BY <1>1, <1>3, <1>4 DEF Unflagging
<1> QED
  BY <1>5 DEF Handing, Later

LEMMA HandsOnTwo ==
    ASSUME StackInv, Handing, Later, stack["main"] # << >>,
           NEW f \in OwnFrames, f.pc # "open_unflag", Unflagging => Safe(f),
           NEW g \in OwnFrames, g.pc # "open_unflag", Unflagging => Safe(g),
           Becomes("main", << f, g >>)
    PROVE  Handing'
<1> DEFINE s == Tail(stack["main"])
<1>1. /\ s \in Seq(OwnFrames) /\ (Unflags(s) => Unflagging)
      /\ Unflagging => AllSafe(s)
  BY SafeBelow
<1>2. stack' = [stack EXCEPT !["main"] = << f, g >> \o s]
  BY DEF Becomes
<1> HIDE DEF s
<1>3. << f, g >> \o s = Push(f, Push(g, s))
  BY <1>1, PushTwo
<1> DEFINE r == Push(g, s)
<1>4. stack'["main"] = Push(f, r)
  BY <1>2, <1>3 DEF StackInv, Threads
<1>5. /\ r \in Seq(OwnFrames)
      /\ Unflags(r) <=> g.pc = "open_unflag" \/ Unflags(s)
      /\ AllSafe(s) /\ Safe(g) => AllSafe(r)
  BY <1>1, Tops, SafeTops, HeldPushFrame
<1> HIDE DEF r
<1>6. /\ Unflags(Push(f, r)) <=> f.pc = "open_unflag" \/ Unflags(r)
      /\ AllSafe(r) /\ Safe(f) => AllSafe(Push(f, r))
  BY <1>5, Tops, SafeTops
<1>7. Unflagging' => Unflagging /\ AllSafe(stack'["main"])
  BY <1>1, <1>4, <1>5, <1>6 DEF Unflagging
<1> QED
  BY <1>7 DEF Handing, Later

LEMMA HandsBack ==
    ASSUME StackInv, Handing, Later, stack["main"] # << >>, Return("main")
    PROVE  Handing'
<1>1. stack' = [stack EXCEPT !["main"] = Tail(stack["main"])]
  BY StacksTyped, Returned
<1>2. stack'["main"] = Tail(stack["main"])
  BY <1>1 DEF StackInv, Threads
<1>3. Unflagging' => Unflagging /\ AllSafe(stack'["main"])
  BY <1>2, SafeBelow DEF Unflagging
<1> QED
  BY <1>3 DEF Handing, Later

LEMMA NextIsSafe ==
    ASSUME StackInv, Handing, stack["main"] # << >>,
           NEW pc \in Pcs \ {"open_flag", "open_unflag"},
           pc \in CarryingPcs <=> Top("main").pc \in CarryingPcs
    PROVE  /\ [Top("main") EXCEPT !.pc = pc] \in OwnFrames
           /\ [Top("main") EXCEPT !.pc = pc].pc # "open_unflag"
           /\ Unflagging => Safe([Top("main") EXCEPT !.pc = pc])
<1>1. Top("main") \in OwnFrames
  BY StacksTyped, TopTyped
<1>2. [Top("main") EXCEPT !.pc = pc] \in OwnFrames
  BY StacksTyped, NextStepTyped
<1>3. /\ [Top("main") EXCEPT !.pc = pc].pc = pc
      /\ [Top("main") EXCEPT !.pc = pc].omd = Top("main").omd
  BY <1>1 DEF OwnFrames, Frames
<1> QED
  BY <1>2, <1>3, SafeBelow DEF Safe

LEMMA HandsGoing ==
    ASSUME StackInv, Handing, Later, stack["main"] # << >>,
           NEW pc \in Pcs \ {"open_flag", "open_unflag"},
           pc \in CarryingPcs <=> Top("main").pc \in CarryingPcs, Goto("main", pc)
    PROVE  Handing'
<1> DEFINE f == [Top("main") EXCEPT !.pc = pc]
<1>1. f \in OwnFrames /\ f.pc # "open_unflag" /\ (Unflagging => Safe(f)) /\ Becomes("main", << f >>)
  BY NextIsSafe DEF Goto
<1> HIDE DEF f
<1> QED
  BY <1>1, HandsOn

LEMMA HandsStaying == ASSUME Handing, Later, stack'["main"] = stack["main"] PROVE Handing'
  BY DEF Handing, Later, Unflagging

LEMMA OthersHand ==
    ASSUME StackInv, Handing, Later, NEW frames,
           Becomes("graph", frames) \/ Enter("graph", frames)
    PROVE  Handing'
<1>1. stack'["main"] = stack["main"]
  BY DEF Becomes, Enter, StackInv, Threads
<1> QED
  BY <1>1, HandsStaying

\* A new OpenMediaData inside the open of media that is built here is built here.
LEMMA NewIsSafe ==
    ASSUME TypeInv, Handing, NewOMD
    PROVE  /\ Frame("open_wait", nextOMD) \in OwnFrames
           /\ Frame("open_wait", nextOMD).pc = "open_wait"
           /\ Unflagging => Safe(Frame("open_wait", nextOMD))
<1>1. nextOMD \in Media /\ nextOMD >= nextOMD
  BY MediaLoaderAssumption DEF TypeInv, Values, NewOMD, Media
<1>2. /\ Frame("open_wait", nextOMD) \in OwnFrames
      /\ Frame("open_wait", nextOMD).pc = "open_wait"
      /\ Frame("open_wait", nextOMD).omd = nextOMD
  BY <1>1, FramesTyped DEF CarryingPcs
<1> QED
  BY <1>1, <1>2 DEF Handing, Safe

LEMMA OpenHands ==
    ASSUME Own, Shapes, Handing, MainMediaLast, NEW t \in Threads, Open(t)
    PROVE  Handing'
<1> USE DEF Pcs, CarryingPcs, OpenPcs, OpenPrivatePcs, ClosePcs, OtherPcs, GraphPcs
<1>0. TypeInv /\ StackInv /\ GraphPc \in GraphPcs
  BY GraphKinds DEF TypeInv, Own
<1>1. t = "main"
  BY <1>0, AtPc DEF Open, OpenCloses, OpenActivates, OpenPromptAnswered, OpenLoads, OpenFlags,
        Threads
<1>2. Later
  BY <1>0, LaterNext
  DEF Open, OpenCloses, OpenActivates, OpenPromptAnswered, OpenLoads, OpenFlags, data
<1>3. ASSUME OpenCloses(t) PROVE Handing'
  <2>1. stack["main"] # << >> /\ Top("main").pc = "open_wait"
    BY <1>1, <1>3, <1>0, AtPc DEF OpenCloses
  <2>2. CASE Goto("main", "open_active")
    BY <1>0, <1>2, <2>1, <2>2, HandsGoing
  <2>3. CASE Call("main", Frame("close_enter", None), "open_active")
    <3> DEFINE f == Frame("close_enter", None)
               g == [Top("main") EXCEPT !.pc = "open_active"]
    <3>1. f \in OwnFrames /\ f.pc # "open_unflag" /\ Safe(f)
      BY FramesTyped DEF Safe
    <3>2. g \in OwnFrames /\ g.pc # "open_unflag" /\ (Unflagging => Safe(g))
      BY <1>0, <2>1, NextIsSafe
    <3>3. Becomes("main", << f, g >>)
      BY <2>3 DEF Call
    <3> HIDE DEF f, g
    <3> QED
      BY <1>0, <1>2, <2>1, <3>1, <3>2, <3>3, HandsOnTwo
  <2> QED
    BY <1>1, <1>3, <2>2, <2>3 DEF OpenCloses
<1>4. ASSUME OpenActivates(t) \/ OpenPromptAnswered(t) PROVE Handing'
  <2>1. stack["main"] # << >> /\ Top("main").pc \in {"open_active", "open_prompt"}
    BY <1>0, <1>1, <1>4, AtPc DEF OpenActivates, OpenPromptAnswered
  <2>2. \/ \E pc \in {"open_load", "open_prompt"} : Goto("main", pc)
        \/ Return("main")
    BY <1>1, <1>4 DEF OpenActivates, OpenPromptAnswered
  <2> QED
    BY <1>0, <1>2, <2>1, <2>2, HandsGoing, HandsBack
<1>5. ASSUME OpenLoads(t) PROVE Handing'
  <2>1. /\ stack["main"] # << >> /\ Top("main").pc = "open_load" /\ MainPc = "open_load"
        /\ Top("main") \in OwnFrames
    BY <1>0, <1>1, <1>5, AtPc, TopTyped, StacksTyped DEF OpenLoads
  <2> DEFINE omd == Top("main").omd
             s == Tail(stack["main"])
  <2>2. omd \in Media /\ omd # None /\ UNCHANGED nextOMD
    BY <1>5, <2>1, MediaLoaderAssumption DEF OwnFrames, Media, None, OpenLoads, data
  <2>3. CASE omd \notin MainMedia
    <3>1. Becomes("main", << Frame("open_flag", None) >>)
      BY <1>1, <1>5, <2>3 DEF OpenLoads
    <3>2. Frame("open_flag", None) \in OwnFrames /\ Frame("open_flag", None).pc = "open_flag"
      BY FramesTyped
    <3>3. ~Unflagging
      BY <1>0, <2>1, <2>2, <2>3, SafeBelow DEF Safe
    <3> QED
      BY <1>0, <1>2, <2>1, <3>1, <3>2, <3>3, HandsOn
  <2>4. CASE omd \in MainMedia
    <3> DEFINE f == Frame("private_start", omd)
               g == Frame("open_unflag", None)
    <3>1. Becomes("main", << f, g >>)
      BY <1>1, <1>5, <2>4 DEF OpenLoads
    <3>2. /\ f \in OwnFrames /\ Safe(f)
          /\ g \in OwnFrames /\ Safe(g)
      BY <2>2, <2>4, FramesTyped DEF Safe
    <3>3. s \in Seq(OwnFrames) /\ AllSafe(s)
      <4>1. s \in Seq(OwnFrames) /\ (Unflagging => AllSafe(s)) /\ (Unflags(s) => Unflagging)
        BY <1>0, <2>1, SafeBelow
      <4>2. PcOf(s) \in {"idle", "open_unflag"}
        BY <1>0, <2>1, StacksTyped, Rests DEF Shapes, MainPc, Below
      <4> HIDE DEF s
      <4>3. s # << >> => PcOf(s) # "idle" /\ (PcOf(s) = "open_unflag" => Unflags(s))
        <5>1. s # << >> => PcOf(s) = Head(s).pc /\ Head(s) \in OwnFrames
                           /\ (PcOf(s) = "open_unflag" => Unflags(s))
          BY <4>1, Rests
        <5> QED
          BY <5>1 DEF OwnFrames, Frames
      <4>4. AllSafe(<< >>)
        BY DEF AllSafe
      <4> QED
        BY <4>1, <4>2, <4>3, <4>4
    <3>4. \A n \in Media : n >= nextOMD => n \in MainMedia
      <4>1. omd \in Held(stack["main"])
        <5>1. stack["main"] \in Seq(OwnFrames) /\ Len(stack["main"]) \in Nat \ {0}
              /\ stack["main"][1] = Top("main")
          BY <1>0, <2>1, StacksTyped, EmptySeq, LenProperties, TopTyped
        <5> QED
          BY <2>2, <5>1, HeldByElement
      <4>2. omd \in 1..(nextOMD - 1)
        BY <4>1 DEF Own, Partition, InMain
      <4>3. nextOMD \in Nat /\ \A n \in Media : n \in Nat
        BY <1>0, MediaLoaderAssumption DEF TypeInv, Values, Media
      <4> HIDE DEF omd
      <4>4. \A n \in Media : n >= nextOMD => n > omd
        BY <4>2, <4>3
      <4> QED
        BY <2>4, <4>4 DEF MainMediaLast
    <3>5. stack' = [stack EXCEPT !["main"] = << f, g >> \o s]
      BY <3>1 DEF Becomes
    <3> HIDE DEF f, g, s
    <3>6. << f, g >> \o s = Push(f, Push(g, s))
      BY <3>2, <3>3, PushTwo
    <3> DEFINE r == Push(g, s)
    <3>7. stack'["main"] = Push(f, r)
      BY <1>0, <3>5, <3>6 DEF StackInv, Threads
    <3>8. r \in Seq(OwnFrames) /\ AllSafe(r)
      BY <3>2, <3>3, SafeTops, HeldPushFrame
    <3> HIDE DEF r
    <3>9. AllSafe(stack'["main"])
      BY <3>2, <3>7, <3>8, SafeTops
    <3> QED
      BY <2>2, <3>4, <3>9 DEF Handing
  <2> QED
    BY <2>3, <2>4
<1>6. ASSUME OpenFlags(t) PROVE Handing'
  <2>1. stack["main"] # << >> /\ Return("main")
    BY <1>1, <1>6 DEF OpenFlags, At
  <2> QED
    BY <1>0, <1>2, <2>1, HandsBack
<1> QED
  BY <1>3, <1>4, <1>5, <1>6 DEF Open

LEMMA PrivateHands ==
    ASSUME TypeInv, Handing, NEW t \in Threads, Private(t) \/ PrivateRenders(t)
    PROVE  Handing'
<1> USE DEF Pcs, CarryingPcs, OpenPcs, OpenPrivatePcs, ClosePcs, OtherPcs
<1>0. StackInv
  BY DEF TypeInv
<1>1. Later
  BY LaterNext
  DEF Private, PrivateCreates, OpenCreateGraphObject, PrivateRenders, DialogCreated, DialogShown,
        DialogDeleted,
      PrivateChecks, PrivateReports, data
<1>2. PICK from \in OpenPrivatePcs : At(t, from)
  BY DEF Private, PrivateCreates, OpenCreateGraphObject, PrivateRenders, DialogCreated,
        DialogShown, DialogDeleted,
         PrivateChecks, PrivateReports
<1>3. \/ UNCHANGED stack
      \/ Return(t)
      \/ \E pc \in OpenPrivatePcs \union {"post_open", "open_failed"} : Goto(t, pc)
  BY DEF Private, PrivateCreates, OpenCreateGraphObject, PrivateRenders, DialogCreated,
        DialogShown, DialogDeleted,
         PrivateChecks, PrivateReports, Report
<1>4. stack[t] # << >> /\ Top(t).pc = from
  BY <1>0, <1>2, AtPc
<1>5. CASE t = "main"
  BY <1>0, <1>1, <1>3, <1>4, <1>5, HandsStaying, HandsBack, HandsGoing
<1>6. CASE t = "graph"
  BY <1>0, <1>1, <1>3, <1>6, HandsStaying, OthersHand DEF Return, Goto
<1> QED
  BY <1>5, <1>6 DEF Threads

LEMMA HandlersHand ==
    ASSUME TypeInv, Shapes, Handing, NEW t \in Threads, Handlers(t)
    PROVE  Handing'
<1> USE DEF Pcs, CarryingPcs, OpenPcs, OpenPrivatePcs, ClosePcs, OtherPcs, GraphPcs
<1>0. StackInv /\ GraphPc \in GraphPcs
  BY GraphKinds DEF TypeInv
<1>1. t = "main"
  BY <1>0, AtPc DEF Handlers, PostOpen, OpenFailed, FailedOpensNext, Threads
<1>2. stack["main"] # << >>
  BY <1>1 DEF Handlers, PostOpen, OpenFailed, FailedOpensNext, At
<1>3. Later
  BY LaterNext DEF Handlers, PostOpen, OpenFailed, FailedOpensNext
<1>4. \/ Return("main")
      \/ Becomes("main", << Frame("close_enter", None), Frame("failed_next", None) >>)
      \/ NewOMD /\ Becomes("main", << Frame("open_wait", nextOMD) >>)
  BY <1>1 DEF Handlers, PostOpen, OpenFailed, FailedOpensNext
<1>5. CASE Return("main")
  BY <1>0, <1>2, <1>3, <1>5, HandsBack
<1>6. CASE Becomes("main", << Frame("close_enter", None), Frame("failed_next", None) >>)
  <2> DEFINE f == Frame("close_enter", None)
             g == Frame("failed_next", None)
  <2>1. /\ f \in OwnFrames /\ f.pc # "open_unflag" /\ Safe(f)
        /\ g \in OwnFrames /\ g.pc # "open_unflag" /\ Safe(g)
    BY FramesTyped DEF Safe
  <2>2. Becomes("main", << f, g >>)
    BY <1>6
  <2> HIDE DEF f, g
  <2> QED
    BY <1>0, <1>2, <1>3, <2>1, <2>2, HandsOnTwo
<1>7. CASE NewOMD /\ Becomes("main", << Frame("open_wait", nextOMD) >>)
  BY <1>0, <1>2, <1>3, <1>7, NewIsSafe, HandsOn
<1> QED
  BY <1>4, <1>5, <1>6, <1>7

LEMMA CloseHands ==
    ASSUME TypeInv, Shapes, Handing, NEW t \in Threads, Close(t), CloseKills(t) => t = "main"
    PROVE  Handing'
<1> USE DEF Pcs, CarryingPcs, OpenPcs, OpenPrivatePcs, ClosePcs, OtherPcs, GraphPcs
<1>0. StackInv
  BY DEF TypeInv
<1>1. Later
  BY LaterNext
  DEF Close, CloseEnters, CloseEndsDialog, CloseLocksDialog, CloseAborts, CloseKills, ClosePurges,
      CloseStarts, CloseWaits, ClosePrivate, CloseDone, data
<1>2. PICK from \in ClosePcs \union {"close_private"} : At(t, from)
  BY DEF Close, CloseEnters, CloseEndsDialog, CloseLocksDialog, CloseAborts, CloseKills,
        ClosePurges,
         CloseStarts, CloseWaits, ClosePrivate, CloseDone
<1>3. stack[t] # << >> /\ Top(t).pc = from
  BY <1>0, <1>2, AtPc
<1>4. \/ Return(t)
      \/ \E pc \in ClosePcs : Goto(t, pc)
      \/ Call(t, Frame("close_private", None), "close_done")
      \/ CloseKills(t)
  BY DEF Close, CloseEnters, CloseEndsDialog, CloseLocksDialog, CloseAborts, CloseKills,
        ClosePurges,
         CloseStarts, CloseWaits, ClosePrivate, CloseDone
<1>5. CASE t = "graph"
  BY <1>0, <1>1, <1>4, <1>5, OthersHand DEF Return, Goto, Call
<1>6. CASE t = "main"
  <2>1. CASE Return("main") \/ \E pc \in ClosePcs : Goto("main", pc)
    BY <1>0, <1>1, <1>3, <1>6, <2>1, HandsBack, HandsGoing
  <2>2. CASE Call("main", Frame("close_private", None), "close_done")
    <3> DEFINE f == Frame("close_private", None)
               g == [Top("main") EXCEPT !.pc = "close_done"]
    <3>1. f \in OwnFrames /\ f.pc # "open_unflag" /\ Safe(f)
      BY FramesTyped DEF Safe
    <3>2. g \in OwnFrames /\ g.pc # "open_unflag" /\ (Unflagging => Safe(g))
      BY <1>0, <1>3, <1>6, NextIsSafe
    <3>3. Becomes("main", << f, g >>)
      BY <2>2 DEF Call
    <3> HIDE DEF f, g
    <3> QED
      BY <1>0, <1>1, <1>3, <1>6, <3>1, <3>2, <3>3, HandsOnTwo
  <2>3. CASE CloseKills("main")
    <3> DEFINE f == [Top("main") EXCEPT !.pc = "close_purge", !.killed = TRUE]
               s == Tail(stack["main"])
    <3>1. /\ s \in Seq(OwnFrames) /\ (Unflags(s) => Unflagging)
          /\ Unflagging => AllSafe(s)
      BY <1>0, <1>3, <1>6, SafeBelow
    <3>2. Top("main") \in OwnFrames /\ Top("main").pc = "close_kill"
      BY <1>0, <1>3, <1>6, <2>3, AtPc, TopTyped DEF CloseKills
    <3>3. f \in OwnFrames /\ f.pc = "close_purge" /\ Safe(f)
      BY <3>2 DEF OwnFrames, Frames, Safe
    <3>4. stack' = [stack EXCEPT !["graph"] = << >>, !["main"] = << f >> \o Tail(@)]
      BY <2>3 DEF CloseKills, Top
    <3> HIDE DEF f
    <3>5. stack'["main"] = Push(f, s)
      BY <1>0, <3>4 DEF StackInv, Threads, Push
    <3> HIDE DEF s
    <3>6. /\ Unflags(Push(f, s)) <=> f.pc = "open_unflag" \/ Unflags(s)
          /\ AllSafe(s) /\ Safe(f) => AllSafe(Push(f, s))
      BY <3>1, <3>3, Tops, SafeTops
    <3>7. Unflagging' => Unflagging /\ AllSafe(stack'["main"])
      BY <3>1, <3>3, <3>5, <3>6 DEF Unflagging
    <3> QED
      BY <1>1, <3>7 DEF Handing, Later
  <2> QED
    BY <1>4, <1>6, <2>1, <2>2, <2>3
<1> QED
  BY <1>5, <1>6 DEF Threads

LEMMA GraphHands ==
    ASSUME TypeInv, Shapes, Handing, GraphTakes \/ GraphSignals
    PROVE  Handing'
<1>0. StackInv
  BY DEF TypeInv
<1>1. Later
  BY LaterNext DEF GraphTakes, GraphSignals, data
<1>2. \/ \E frames : Becomes("graph", frames) \/ Enter("graph", frames)
      \/ stack' = [stack EXCEPT !["main"] =
             [i \in DOMAIN @ |-> IF @[i].pc = "call_wait"
                                 THEN [@[i] EXCEPT !.pc = "call_done"] ELSE @[i]]]
  BY DEF GraphTakes, GraphSignals, Return
<1>3. CASE \E frames : Becomes("graph", frames) \/ Enter("graph", frames)
  BY <1>0, <1>1, <1>3, OthersHand
<1>4. CASE stack' = [stack EXCEPT !["main"] =
               [i \in DOMAIN @ |-> IF @[i].pc = "call_wait"
                                   THEN [@[i] EXCEPT !.pc = "call_done"] ELSE @[i]]]
  <2>1. Unflagging' <=> Unflagging
    BY <1>0, <1>4, MainAnswered
  <2> DEFINE s == stack["main"]
             r == stack'["main"]
  <2>2. /\ Len(r) = Len(s)
        /\ \A i \in 1..Len(s) : r[i] = IF s[i].pc = "call_wait"
                                       THEN [s[i] EXCEPT !.pc = "call_done"] ELSE s[i]
    BY <1>0, <1>4, AnsweredTyped DEF StackInv, Threads
  <2>3. \A i \in 1..Len(s) : s[i] \in OwnFrames
    BY <1>0, StacksTyped, ElementOfSeq
  <2> HIDE DEF s, r
  <2>4. \A i \in 1..Len(s) : Safe(s[i]) => Safe(r[i])
    BY <2>2, <2>3 DEF Safe, OwnFrames, Frames
  <2>5. AllSafe(s) => AllSafe(r)
    BY <2>2, <2>4 DEF AllSafe
  <2> QED
    BY <1>1, <2>1, <2>5 DEF Handing, Later, s, r
<1> QED
  BY <1>2, <1>3, <1>4

LEMMA StepHands ==
    ASSUME Own, Shapes, Proto, Handing, MainMediaLast, [Next]_vars, ~SentCommand
    PROVE  Handing'
<1>0. TypeInv /\ StackInv
  BY DEF TypeInv, Own
<1>1. ASSUME NEW t \in Threads, Step(t) \/ PrivateRenders(t) PROVE Handing'
  BY <1>0, <1>1, OpenHands, PrivateHands, HandlersHand, CloseHands, KillKeeps DEF Step
<1>2. CASE GraphTakes \/ GraphSignals
  BY <1>0, <1>2, GraphHands
<1>3. CASE \/ MainHandlesResult \/ MainCallReturns \/ MainCommand \/ MainCalls \/ MainQuits
           \/ MainDestroys
  <2>1. CASE stack["main"] = << >>
    BY <1>0, <1>3, <2>1, MainKeeps DEF Handing
  <2>2. CASE stack["main"] # << >>
    <3>1. MainCallReturns \/ MainDestroys
      BY <1>3, <2>2 DEF MainHandlesResult, MainCommand, MainCalls, MainQuits, Idle
    <3>2. Later
      BY <1>0, <3>1, LaterNext DEF MainCallReturns, MainDestroys, data
    <3>3. \/ Return("main")
          \/ Goto("main", "quit_wait") /\ Top("main").pc = "quit_destroy"
      BY <3>1 DEF MainCallReturns, MainDestroys, At, Top
    <3> QED
      BY <1>0, <2>2, <3>2, <3>3, HandsBack, HandsGoing
      DEF Pcs, CarryingPcs, OpenPcs, OpenPrivatePcs, ClosePcs, OtherPcs
  <2> QED
    BY <2>1, <2>2
<1>4. CASE MainExits
  <2>1. CASE At("graph", "exited")
    <3>1. Goto("main", "exited") /\ stack["main"] # << >> /\ Top("main").pc = "quit_wait"
      BY <1>4, <2>1 DEF MainExits, At, Top
    <3>2. Later
      BY <1>0, <1>4, LaterNext DEF MainExits
    <3> QED
      BY <1>0, <3>1, <3>2, HandsGoing
      DEF Pcs, CarryingPcs, OpenPcs, OpenPrivatePcs, ClosePcs, OtherPcs
  <2>2. CASE ~At("graph", "exited")
    BY <1>0, <1>4, <2>2, ExitsKeep DEF Handing
  <2> QED
    BY <2>1, <2>2
<1>5. CASE UNCHANGED vars
  <2>1. stack' = stack /\ nextOMD' = nextOMD
    BY <1>5 DEF vars
  <2> QED
    BY <1>0, <2>1, LaterNext, HandsStaying
<1> QED
  BY <1>1, <1>2, <1>3, <1>4, <1>5 DEF Next, Main, Graph, Threads

LEMMA HandingIsApart == Handing => NotHandedInside
<1> SUFFICES ASSUME Handing, MainPc = "open_flag", Unflagging PROVE FALSE
  BY DEF NotHandedInside
<1>1. 1 \in 1..Len(stack["main"]) /\ stack["main"][1].pc = "open_flag"
  <2>1. PICK i \in 1..Len(stack["main"]) : stack["main"][i].pc = "open_unflag"
    BY DEF Unflagging, Unflags
  <2>2. stack["main"] # << >> /\ stack["main"][1].pc = "open_flag"
    BY DEF MainPc, PcOf
  <2>3. Safe(stack["main"][i])
    BY <2>1 DEF Handing, AllSafe
  <2> QED
    BY <2>1, <2>2
<1> QED
  BY <1>1 DEF Handing, AllSafe, Safe

\* The graph thread reports after the flag was set: by a message to the main thread.
LEMMA PrivateAnswers ==
    ASSUME TypeInv, TypeInv', Shapes, Proto, PromptFlag, NEW t \in Threads,
           Private(t) \/ PrivateRenders(t)
    PROVE  ResultsOnMain'
<1> USE DEF Pcs, CarryingPcs, OpenPcs, OpenPrivatePcs, ClosePcs, OtherPcs, GraphPcs
<1>0. StackInv /\ StackInv' /\ GraphPc \in GraphPcs /\ "graph" \in Threads /\ "main" \in Threads
  BY GraphKinds DEF TypeInv, Threads
<1>1. PICK from \in OpenPrivatePcs : At(t, from)
  BY DEF Private, PrivateCreates, OpenCreateGraphObject, PrivateRenders, DialogCreated,
        DialogShown, DialogDeleted,
         PrivateChecks, PrivateReports
<1>2. stack[t] # << >> /\ Top(t).pc = from /\ (t = "graph" => GraphPc = from)
  BY <1>0, <1>1, AtPc
<1>3. SUFFICES GraphPc' \notin {"post_open", "open_failed"}
  <2>1. stack'["graph"] \in Seq(OwnFrames)
    BY <1>0 DEF StackInv
  <2>2. stack'["graph"] # << >> => PcOf(stack'["graph"]) = Head(stack'["graph"]).pc
    BY <2>1, Rests
  <2> QED
    BY <2>2 DEF ResultsOnMain, At, GraphPc
<1>4. CASE stack'["graph"] = stack["graph"]
  BY <1>0, <1>4 DEF GraphPc
<1>5. CASE t = "main"
  <2>1. UNCHANGED stack \/ \E frames : Becomes("main", frames)
    BY <1>5 DEF Private, PrivateCreates, OpenCreateGraphObject, PrivateRenders, DialogCreated,
        DialogShown,
           DialogDeleted, PrivateChecks, PrivateReports, Report, Return, Goto
  <2>2. stack'["graph"] = stack["graph"]
    BY <1>0, <2>1 DEF Becomes, StackInv, Threads
  <2> QED
    BY <1>4, <2>2
<1>6. CASE t = "graph"
  <2>1. openedThroughThread \/ At("main", "open_flag")
    <3>1. openedThroughThread \/ MainPc = "open_flag"
      BY <1>2, <1>6 DEF Proto, Flagged, OnOpenPcs
    <3>2. MainPc = "open_flag" => At("main", "open_flag")
      <4>1. stack["main"] # << >> => PcOf(stack["main"]) = Head(stack["main"]).pc
        BY <1>0, StacksTyped, Rests
      <4>2. stack["main"] = << >> => MainPc = "idle"
        BY DEF MainPc, PcOf
      <4> QED
        BY <4>1, <4>2 DEF At, MainPc
    <3> QED
      BY <3>1, <3>2
  <2>2. \/ UNCHANGED stack
        \/ Return("graph")
        \/ \E pc \in OpenPrivatePcs : Goto("graph", pc)
    BY <1>6, <2>1
    DEF Private, PrivateCreates, OpenCreateGraphObject, PrivateRenders, DialogCreated, DialogShown,
        DialogDeleted,
        PrivateChecks, PrivateReports, Report
  <2>3. CASE Return("graph")
    BY <1>0, <1>2, <1>6, <2>3, GraphReturns
  <2>4. ASSUME NEW pc \in OpenPrivatePcs, Goto("graph", pc)
        PROVE  GraphPc' \notin {"post_open", "open_failed"}
    BY <1>0, <1>2, <1>6, <2>4, GraphGoes DEF GraphIs
  <2> QED
    BY <1>4, <2>2, <2>3, <2>4
<1> QED
  BY <1>5, <1>6 DEF Threads

Whole == Own /\ (Undisturbed => Shapes /\ Proto /\ Handing)

LEMMA WholePreserved ==
    ASSUME PromptFlag, MainMediaLast, Whole, [Next]_vars
    PROVE  Whole'
<1>1. Own' /\ TypeInv' /\ TypeInv
  BY OwnPreserved DEF Whole, Own
<1>2. ASSUME sent' = 0 PROVE Shapes' /\ Proto' /\ Handing'
  <2>1. sent = 0 /\ ~SentCommand
    BY <1>1, <1>2, SentCounts
  <2>2. Own /\ Shapes /\ Proto /\ Handing
    BY <2>1 DEF Whole, Undisturbed
  <2>3. Handing' /\ NotHandedInside'
    <3>1. Handing'
      BY <2>1, <2>2, StepHands
    <3>2. (Handing => NotHandedInside)'
      BY HandingIsApart, PTL
    <3> QED
      BY <3>1, <3>2
  <2>4. (\E t \in Threads : Private(t) \/ PrivateRenders(t)) => ResultsOnMain'
    BY <1>1, <2>2, PrivateAnswers
  <2> QED
    BY <1>1, <2>1, <2>2, <2>3, <2>4, StepKeeps
<1> QED
  BY <1>1, <1>2 DEF Whole, Undisturbed

LEMMA WholeHolds == ASSUME Whole PROVE Hyp
<1> SUFFICES ASSUME Undisturbed PROVE ResultsOnMain /\ NotHandedInside
  BY DEF Hyp
<1>1. StackInv /\ Shapes /\ Handing
  BY DEF Whole, Own, TypeInv
<1>2. ResultsOnMain
  BY <1>1, GraphKinds, AtPc DEF ResultsOnMain, GraphPcs, OpenPrivatePcs, Threads
<1> QED
  BY <1>1, <1>2, HandingIsApart

LEMMA InitWhole == Init => Whole
<1>1. Init => Own /\ Inv
  BY InitOwned, InitProtocol
<1>2. Init => Handing
  BY NothingUnflags DEF Init, Handing, Unflagging, Threads
<1> QED
  BY <1>1, <1>2 DEF Whole, Inv

\* If the main thread sets the flag before the graph thread has built the media it asked for,
\* and once media is built on the main thread all later media are, then every result is
\* handled on the main thread and no media is handed over inside the open of other media: the
\* hypothesis of the theorems above always holds.
THEOREM ProtocolStands == MainMediaLast /\ PromptFlag => (Spec => []Hyp)
<1> SUFFICES ASSUME MainMediaLast, PromptFlag PROVE Spec => []Hyp
  OBVIOUS
<1>1. Whole /\ [Next]_vars => Whole'
  BY WholePreserved
<1>2. Whole => Hyp
  BY WholeHolds
<1> QED
  BY InitWhole, <1>1, <1>2, PTL DEF Spec

\* Under these conditions, which the constants of the passing run meet, the graph has one user
\* at a time and is created only where the last one was destroyed.
THEOREM GraphHasOneUser == MainMediaLast /\ PromptFlag => (Spec => []GraphExclusive)
  BY ProtocolStands, ProtocolExcludes, PTL

\* Under these conditions a result on its way, or at its handler, is the only one, that of the
\* media being loaded, about the graph that stands if one could be created, and no other media
\* is being opened: none of an aborted or terminated open is left over.
THEOREM ResultsAreFresh == MainMediaLast /\ PromptFlag => (Spec => []ResultFresh)
  BY ProtocolStands, ProtocolDelivers, PTL

\* Under these conditions nothing of the last media is left in the closed state.
THEOREM ClosesClean == MainMediaLast /\ PromptFlag => (Spec => []ClosedClean)
  BY ProtocolStands, ProtocolCleans, PTL

\* Under these conditions a pointer to an OpenMediaData is lost only by a termination of the
\* graph thread.
THEOREM LosesOnlyByTermination == MainMediaLast /\ PromptFlag => (Spec => LostByTermination)
  BY ProtocolStands, ProtocolLosesNothing, PTL

-----------------------------------------------------------------------------
(* The two threads implement one player (MediaPlayer). *)

\* What a step that the abstract specification sees does while nothing has intruded.
PlayStep ==
    \/ Player!Open \/ Player!Build \/ Player!Load \/ Player!Fail \/ Player!Close
    \/ Player!Destroy \/ Player!Closed \/ UNCHANGED <<loadState, graph, lastOMD>>

LEMMA OpenPlays ==
    ASSUME TypeInv, Shapes, Proto, NEW t \in Threads, Open(t), Undisturbed, Undisturbed'
    PROVE  PlayStep
<1>1. CASE OpenLoads(t)
  <2>1. t = "main" => MainPc = "open_load"
    BY <1>1, AtPc DEF OpenLoads, TypeInv
  <2>2. t = "graph" => GraphPc = "open_load"
    BY <1>1, AtPc DEF OpenLoads, TypeInv
  <2>3. loadState = "CLOSED"
    BY <2>1, <2>2, GraphKinds DEF TypeInv, GraphPcs, OpenPrivatePcs, Threads, Proto, Closed
  <2> QED
    BY <1>1, <2>3 DEF PlayStep, Player!Open, OpenLoads
<1>2. CASE ~OpenLoads(t)
  BY <1>2
  DEF Open, OpenCloses, OpenActivates, OpenPromptAnswered, OpenFlags, PlayStep
<1> QED
  BY <1>1, <1>2

\* The graph is created once while its media is loading, by whichever thread builds.
LEMMA PrivatePlays ==
    ASSUME TypeInv, Shapes, Proto, NEW t \in Threads, Private(t) \/ PrivateRenders(t),
           Undisturbed, Undisturbed'
    PROVE  PlayStep
<1>1. CASE PrivateCreates(t) /\ graph' = Top(t).omd
  <2>1. stack[t] # << >> /\ Top(t).pc = "private_start"
    BY <1>1, AtPc DEF PrivateCreates, TypeInv
  <2>2. \/ t = "main" /\ MainPc = "private_start"
        \/ t = "graph" /\ GraphPc = "private_start"
    BY <1>1, AtPc DEF PrivateCreates, TypeInv, Threads
  <2>3. loadState = "LOADING" /\ graph = None
    BY <2>2 DEF Proto, MainBuilds, GraphBuilds, BuiltAt, OpenAlone, LoadPcs, OpenPrivatePcs
  <2>4. graph' \in Media
    BY <1>1, <2>1, TopTyped DEF TypeInv, OwnFrames, CarryingPcs, OpenPrivatePcs
  <2> QED
    BY <1>1, <2>3, <2>4 DEF PlayStep, Player!Build, PrivateCreates
<1>2. CASE ~(PrivateCreates(t) /\ graph' = Top(t).omd)
  BY <1>2
  DEF Private, PrivateCreates, OpenCreateGraphObject, PrivateRenders, DialogCreated, DialogShown,
        DialogDeleted,
      PrivateChecks, PrivateReports, PlayStep
<1> QED
  BY <1>1, <1>2

\* The media a handler reports is the one whose graph stands, if one could be created.
LEMMA HandlersPlay ==
    ASSUME TypeInv, Shapes, Proto, NEW t \in Threads, Handlers(t), Undisturbed, Undisturbed'
    PROVE  PlayStep
<1>1. ASSUME NEW pc \in {"post_open", "open_failed"}, At(t, pc)
      PROVE  loadState = "LOADING" /\ BuiltAt(pc, Top(t).omd) /\ Top(t).omd \in Media
  <2>1. /\ t = "main" => MainPc = pc /\ MainOMD = Top(t).omd
        /\ t = "graph" => GraphPc = pc
        /\ stack[t] # << >> /\ Top(t).pc = pc
    BY <1>1, AtPc DEF TypeInv
  <2>2. t = "main"
    BY <2>1, GraphKinds DEF TypeInv, GraphPcs, OpenPrivatePcs, Threads
  <2>3. Top(t).omd \in Media
    BY <2>1, TopTyped DEF TypeInv, OwnFrames, CarryingPcs
  <2> QED
    BY <2>1, <2>2, <2>3 DEF Proto, MainBuilds, LoadPcs
<1>2. None \notin Media
  BY MediaLoaderAssumption DEF Media, None
<1>3. CASE PostOpen(t)
  <2>1. graph = Top(t).omd /\ graph # None /\ loadState = "LOADING"
    BY <1>1, <1>2, <1>3 DEF PostOpen, BuiltAt
  <2>2. loadState' = "LOADED" /\ lastOMD' = graph /\ UNCHANGED graph
    BY <1>3, <2>1 DEF PostOpen, Remember
  <2> QED
    BY <2>1, <2>2 DEF PlayStep, Player!Load
<1>4. CASE OpenFailed(t)
  <2>1. /\ loadState = "LOADING" /\ Top(t).omd \in Media
        /\ graph = None \/ graph = Top(t).omd
    BY <1>1, <1>4 DEF OpenFailed, BuiltAt
  <2>2. loadState' = "FAILING" /\ lastOMD' = Top(t).omd /\ UNCHANGED graph
    BY <1>4 DEF OpenFailed, Remember
  <2> QED
    BY <2>1, <2>2 DEF PlayStep, Player!Fail
<1>5. CASE FailedOpensNext(t)
  BY <1>5 DEF FailedOpensNext, PlayStep
<1> QED
  BY <1>3, <1>4, <1>5 DEF Handlers

LEMMA ClosePlays ==
    ASSUME TypeInv, Shapes, Proto, NEW t \in Threads, Close(t), Undisturbed, Undisturbed'
    PROVE  PlayStep
<1>0. StackInv /\ GraphPc \in GraphPcs
  BY GraphKinds DEF TypeInv
<1>1. CASE CloseStarts(t)
  <2>1. MainPc = "close_closing"
    BY <1>0, <1>1, AtPc DEF CloseStarts, GraphPcs, OpenPrivatePcs, Threads
  <2>2. loadState \in {"LOADING", "LOADED", "FAILING"}
    BY <2>1 DEF Proto, Closes, TypeInv, Values, LoadStates
  <2> QED
    BY <1>1, <2>2 DEF PlayStep, Player!Close, CloseStarts
<1>2. CASE ClosePrivate(t)
  <2>1. MainPc = "close_private" \/ GraphPc = "close_private"
    BY <1>0, <1>2, AtPc DEF ClosePrivate, Threads
  <2>2. loadState = "CLOSING"
    BY <2>1 DEF Proto, Closes, CloseAlone, OnClosePcs
  <2> QED
    BY <1>2, <2>2 DEF PlayStep, Player!Destroy, ClosePrivate, Remember
<1>3. CASE CloseDone(t)
  <2>1. MainPc = "close_done"
    BY <1>0, <1>3, AtPc DEF CloseDone, GraphPcs, OpenPrivatePcs, Threads
  <2>2. loadState = "CLOSING" /\ graph = None /\ lastOMD = None
    BY <2>1 DEF Proto, Closes
  <2> QED
    BY <1>3, <2>2 DEF PlayStep, Player!Closed, CloseDone
<1>4. CASE CloseEnters(t) \/ CloseEndsDialog(t) \/ CloseLocksDialog(t) \/ CloseAborts(t)
  BY <1>4 DEF CloseEnters, CloseEndsDialog, CloseLocksDialog, CloseAborts, PlayStep
<1>5. CASE CloseKills(t) \/ ClosePurges(t) \/ CloseWaits(t)
  BY <1>5 DEF CloseKills, ClosePurges, CloseWaits, PlayStep
<1> QED
  BY <1>1, <1>2, <1>3, <1>4, <1>5 DEF Close

LEMMA StepPlays ==
    ASSUME TypeInv, Shapes, Proto, [Next]_vars, Undisturbed, Undisturbed'
    PROVE  PlayStep
<1>1. ASSUME NEW t \in Threads, Step(t) \/ PrivateRenders(t) PROVE PlayStep
  BY <1>1, OpenPlays, PrivatePlays, HandlersPlay, ClosePlays DEF Step
<1>2. CASE GraphTakes \/ GraphSignals
  BY <1>2 DEF GraphTakes, GraphSignals, PlayStep
<1>3. CASE MainHandlesResult \/ MainCallReturns \/ MainDestroys \/ MainExits
  BY <1>3 DEF MainHandlesResult, MainCallReturns, MainDestroys, MainExits, PlayStep
<1>4. CASE MainCommand \/ MainCalls \/ MainQuits \/ SentCommand
  BY <1>4 DEF MainCommand, MainCalls, MainQuits, SentCommand, PlayStep
<1>5. CASE UNCHANGED vars
  BY <1>5 DEF vars, PlayStep
<1> QED
  BY <1>1, <1>2, <1>3, <1>4, <1>5 DEF Next, Main, Graph, Threads

\* Every step is one of the abstract specification, or one that it does not see.
LEMMA StepRefines ==
    ASSUME TypeInv, Undisturbed => Shapes /\ Proto, [Next]_vars
    PROVE  [Player!Next]_(Player!vars)
<1>1. CASE Undisturbed'
  <2>1. Undisturbed
    BY <1>1, SentCounts DEF Undisturbed
  <2>2. PlayStep
    BY <1>1, <2>1, StepPlays
  <2>3. UNCHANGED <<loadState, graph, lastOMD>> => UNCHANGED Player!vars
    BY <1>1, <2>1 DEF Player!vars
  <2> QED
    BY <2>2, <2>3 DEF PlayStep, Player!Next
<1>2. CASE ~Undisturbed'
  BY <1>2 DEF Player!Next, Player!Intrude
<1> QED
  BY <1>1, <1>2

\* Under the same conditions all of it, the threads with their messages, events, flags, aborts
\* and terminations, behaves as the abstract player: one media at a time is opened, built once,
\* loaded with its graph standing or failed with or without, and destroyed and forgotten before
\* the player is closed again.
THEOREM LoaderIsPlayer == MainMediaLast /\ PromptFlag => (Spec => ImplementsPlayer)
<1> SUFFICES ASSUME MainMediaLast, PromptFlag PROVE Spec => ImplementsPlayer
  OBVIOUS
<1>1. Whole /\ [Next]_vars => Whole'
  BY WholePreserved
<1>2. Whole /\ [Next]_vars => [Player!Next]_(Player!vars)
  BY StepRefines DEF Whole, Own
<1>3. Init => Player!Init
  BY DEF Init, Player!Init, Undisturbed
<1> QED
  BY InitWhole, <1>1, <1>2, <1>3, PTL DEF Spec, ImplementsPlayer, Player!Spec

\* What the abstract player remembers: media that is loaded is the last one opened and has its
\* graph standing; media that has failed is the last one opened as well, and no graph but its
\* own stands, if one could be created; none is remembered while nothing is open or the next
\* one loads.
Remembers ==
    Undisturbed =>
        /\ loadState = "LOADED" => graph # None /\ lastOMD = graph
        /\ loadState = "FAILING" => lastOMD # None /\ graph \in {None, lastOMD}
        /\ loadState \in {"CLOSED", "LOADING"} => lastOMD = None

LEMMA PlaysKeeping ==
    ASSUME TypeInv, Undisturbed => Shapes /\ Proto, Remembers, [Next]_vars
    PROVE  Remembers'
<1> SUFFICES ASSUME Undisturbed' PROVE Remembers'
  BY DEF Remembers
<1>1. Undisturbed
  BY SentCounts DEF Undisturbed
<1>2. PlayStep
  BY <1>1, StepPlays
<1>3. None \notin Media
  BY MediaLoaderAssumption DEF Media, None
<1> QED
  BY <1>1, <1>2, <1>3
  DEF PlayStep, Remembers, Player!Open, Player!Build, Player!Load, Player!Fail, Player!Close,
      Player!Destroy, Player!Closed

\* Under the same conditions m_lastOMD is, from the end of the loading to the close, the media
\* that was loaded or failed, whichever handler stored it: the graph that stands is its own (a
\* failure may have left none), and it is forgotten before the next load.
THEOREM LastIsTheOneThatStands == MainMediaLast /\ PromptFlag => (Spec => []Remembers)
<1> SUFFICES ASSUME MainMediaLast, PromptFlag PROVE Spec => []Remembers
  OBVIOUS
<1>1. Init => Remembers
  BY DEF Init, Remembers
<1>2. Whole /\ [Next]_vars => Whole'
  BY WholePreserved
<1>3. Whole /\ Remembers /\ [Next]_vars => Remembers'
  BY PlaysKeeping DEF Whole, Own
<1> QED
  BY InitWhole, <1>1, <1>2, <1>3, PTL DEF Spec

-----------------------------------------------------------------------------
(* The safety part of progress: nobody waits for what nobody is to do. *)

\* The main thread waits for a close, or for a call it made, only while the graph thread has
\* not exited and the answer is given, is being worked at, or is asked for.
WaitsAnswered ==
    Undisturbed =>
        /\ At("main", "close_wait") =>
               /\ evClose \/ CloseAsked \/ InCall("graph", OnClosePcs)
               /\ ~At("graph", "exited")
        /\ At("main", "call_wait") => CallAsked /\ ~At("graph", "exited")

\* Media that is loading is in the hands of one who ends the loading: it is asked for, is
\* being built, has its result on its way or handled, or is being closed.
LoadingCarried ==
    Undisturbed /\ loadState = "LOADING" =>
        \/ OpenAsked \/ InCall("graph", OpenPrivatePcs)
        \/ window # << >>
        \/ \E pc \in LoadPcs \union AbortPcs \union {"close_closing"} : At("main", pc)

LEMMA AtTop ==
    ASSUME StackInv
    PROVE  /\ \A pc \in Pcs : MainPc = pc => At("main", pc)
           /\ \A pc \in Pcs : GraphPc = pc => At("graph", pc) /\ InCall("graph", {pc})
<1>1. ASSUME NEW t \in Threads, NEW pc \in Pcs, PcOf(stack[t]) = pc
      PROVE  At(t, pc) /\ InCall(t, {pc})
  <2>1. stack[t] # << >> /\ stack[t] \in Seq(OwnFrames)
    BY <1>1 DEF PcOf, Pcs, CarryingPcs, OpenPcs, OpenPrivatePcs, ClosePcs, OtherPcs, StackInv
  <2>2. Head(stack[t]).pc = pc /\ stack[t][1].pc = pc
    BY <1>1, <2>1 DEF PcOf
  <2>3. 1 \in DOMAIN stack[t]
    BY <2>1
  <2> QED
    BY <2>1, <2>2, <2>3 DEF At, InCall
<1> QED
  BY <1>1 DEF MainPc, GraphPc, Threads

\* The core of CloseCompletes that needs no fairness: under the same conditions neither of the
\* main thread's unlimited waits for the graph thread is for an answer nobody is to give.
THEOREM WaitsAreAnswered == MainMediaLast /\ PromptFlag => (Spec => []WaitsAnswered)
<1> SUFFICES ASSUME MainMediaLast, PromptFlag PROVE Spec => []WaitsAnswered
  OBVIOUS
<1>1. Whole /\ [Next]_vars => Whole'
  BY WholePreserved
<1>2. ASSUME Whole, Undisturbed PROVE WaitsAnswered
  <2>1. StackInv /\ Shapes /\ Proto /\ GraphPc \in GraphPcs
    BY <1>2, GraphKinds DEF Whole, Own, TypeInv
  <2>2. GraphPc \in OnClosePcs => InCall("graph", OnClosePcs)
    BY <2>1, AtTop
    DEF InCall, OnClosePcs, Pcs, CarryingPcs, OpenPcs, OpenPrivatePcs, ClosePcs, OtherPcs
  <2>3. At("graph", "exited") => MainPc \in {"quit_wait", "exited"}
    BY <2>1, AtPc DEF Threads, Proto, ExitAlone
  <2>4. At("main", "close_wait") => MainPc = "close_wait"
    BY <2>1, AtPc DEF Threads
  <2>5. At("main", "call_wait") => MainPc = "call_wait"
    BY <2>1, AtPc DEF Threads
  <2> QED
    BY <2>1, <2>2, <2>3, <2>4, <2>5 DEF WaitsAnswered, Proto, CloseEnds, CallEnds
<1>3. Whole => WaitsAnswered
  BY <1>2 DEF WaitsAnswered
<1> QED
  BY InitWhole, <1>1, <1>3, PTL DEF Spec

\* The core of OpenResolves that needs no fairness: under the same conditions no loading is
\* left with nobody to end it, through aborts, purges and terminations.
THEOREM LoadingIsCarried == MainMediaLast /\ PromptFlag => (Spec => []LoadingCarried)
<1> SUFFICES ASSUME MainMediaLast, PromptFlag PROVE Spec => []LoadingCarried
  OBVIOUS
<1>1. Whole /\ [Next]_vars => Whole'
  BY WholePreserved
<1>2. ASSUME Whole, Undisturbed, loadState = "LOADING" PROVE LoadingCarried
  <2>1. StackInv /\ Proto
    BY <1>2 DEF Whole, Own, TypeInv
  <2>2. GraphPc \in OpenPrivatePcs => InCall("graph", OpenPrivatePcs)
    BY <2>1, AtTop DEF InCall, Pcs, OpenPrivatePcs
  <2>3. \A pc \in LoadPcs \union AbortPcs \union {"close_closing"} : MainPc = pc => At("main", pc)
    BY <2>1, AtTop
    DEF LoadPcs, AbortPcs, Pcs, CarryingPcs, OpenPcs, OpenPrivatePcs, ClosePcs, OtherPcs
  <2> QED
    BY <1>2, <2>1, <2>2, <2>3 DEF LoadingCarried, Proto, Carried
<1>3. Whole => LoadingCarried
  BY <1>2 DEF LoadingCarried
<1> QED
  BY InitWhole, <1>1, <1>3, PTL DEF Spec

=============================================================================

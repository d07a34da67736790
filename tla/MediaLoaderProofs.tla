-------------------------- MODULE MediaLoaderProofs --------------------------
(***************************************************************************)
(* Proofs about opening and closing media for each value of the constants: *)
(* the kinds of the variables, with what a frame of a stack may point to,  *)
(* and the one owner of every OpenMediaData, by a partition of the numbers *)
(* given out among stacks, messages, results, lastOMD, freed and lost.     *)
(***************************************************************************)
EXTENDS MediaLoaderProperties, SequenceTheorems, FiniteSetTheorems, TLAPS

-----------------------------------------------------------------------------
(* Sequences of frames. *)

\* The frames that carry an OpenMediaData; the others never point to one.
CarryingPcs ==
    {"open_wait", "open_active", "open_prompt", "open_load", "post_open", "open_failed"}
    \union OpenPrivatePcs

OwnFrames == {f \in Frames : IF f.pc \in CarryingPcs THEN f.omd \in Media ELSE f.omd = None}

\* Of the messages to the graph thread only TM_OPEN carries one.
Requests ==
    {m \in [msg : {"TM_OPEN", "TM_CLOSE", "TM_CALL", "TM_EXIT"}, omd : Media \union {None}] :
         IF m.msg = "TM_OPEN" THEN m.omd \in Media ELSE m.omd = None}

Results == [msg : {"WM_POSTOPEN", "WM_OPENFAILED"}, omd : Media]

\* Once the program is quitting nothing is left below.
QuitPcs == {"quit_destroy", "quit_wait"}
QuitsLast(s) == \A i \in 1..Len(s) : i < Len(s) => s[i].pc \notin QuitPcs

Push(f, s) == <<f>> \o s

LEMMA PushProperties ==
    ASSUME NEW S, NEW f \in S, NEW s \in Seq(S)
    PROVE  /\ Push(f, s) \in Seq(S)
           /\ Push(f, s) # << >>
           /\ Len(Push(f, s)) = Len(s) + 1
           /\ Push(f, s)[1] = f
           /\ \A i \in 1..Len(s) : Push(f, s)[i + 1] = s[i]
           /\ Head(Push(f, s)) = f
<1>1. << f >> \in Seq(S) /\ Len(<< f >>) = 1 /\ << f >>[1] = f
  OBVIOUS
<1>2. /\ Push(f, s) \in Seq(S)
      /\ Len(Push(f, s)) = 1 + Len(s)
      /\ \A i \in 1..1 + Len(s) : Push(f, s)[i] = IF i <= 1 THEN << f >>[i] ELSE s[i - 1]
  BY <1>1, ConcatProperties DEF Push
<1>3. Len(s) \in Nat
  BY LenProperties
<1>4. Push(f, s) # << >>
  BY <1>2, <1>3, EmptySeq
<1>5. Push(f, s)[1] = f
  BY <1>1, <1>2, <1>3
<1>6. ASSUME NEW i \in 1..Len(s) PROVE Push(f, s)[i + 1] = s[i]
  BY <1>2, <1>3
<1>7. Head(Push(f, s)) = Push(f, s)[1]
  BY <1>2, <1>4
<1> QED
  BY <1>2, <1>3, <1>4, <1>5, <1>6, <1>7

LEMMA TailProperties ==
    ASSUME NEW S, NEW s \in Seq(S), s # << >>
    PROVE  /\ Len(s) \in Nat \ {0}
           /\ s[1] \in S
           /\ Head(s) = s[1]
           /\ Tail(s) \in Seq(S)
           /\ Len(Tail(s)) = Len(s) - 1
           /\ \A i \in 1..(Len(s) - 1) : Tail(s)[i] = s[i + 1]
<1>1. Len(s) \in Nat \ {0}
  BY EmptySeq
<1> QED
  BY <1>1, HeadTailProperties

\* A stack that becomes two frames on top of the rest gets one after the other.
LEMMA PushTwo ==
    ASSUME NEW S, NEW f \in S, NEW g \in S, NEW s \in Seq(S)
    PROVE  << f, g >> \o s = Push(f, Push(g, s))
<1>1. << f >> \in Seq(S) /\ << g >> \in Seq(S) /\ << f, g >> \in Seq(S)
  OBVIOUS
<1>2. /\ << f >> \o << g >> \in Seq(S)
      /\ Len(<< f >> \o << g >>) = 2
      /\ \A i \in 1..2 : (<< f >> \o << g >>)[i] = IF i <= 1 THEN << f >>[i] ELSE << g >>[i - 1]
  BY <1>1, ConcatProperties, Len(<< f >>) = 1, Len(<< g >>) = 1
<1>3. (<< f >> \o << g >>)[1] = f /\ (<< f >> \o << g >>)[2] = g
  BY <1>2
<1>4. \A i \in 1..2 : (<< f >> \o << g >>)[i] = << f, g >>[i]
  BY <1>3
<1>5. << f >> \o << g >> = << f, g >>
  BY <1>1, <1>2, <1>4, SeqEqual, Len(<< f, g >>) = 2
<1>6. (<< f >> \o << g >>) \o s = << f >> \o (<< g >> \o s)
  BY <1>1, ConcatAssociative
<1> QED
  BY <1>5, <1>6 DEF Push

-----------------------------------------------------------------------------
(* The kinds of values. *)

StackInv ==
    /\ stack \in [Threads -> Seq(OwnFrames)]
    /\ QuitsLast(stack["main"])

Values ==
    /\ loadState \in LoadStates
    /\ openMediaActive \in BOOLEAN
    /\ openedThroughThread \in BOOLEAN
    /\ openingAborted \in BOOLEAN
    /\ evOpen \in BOOLEAN
    /\ evClose \in BOOLEAN
    /\ window \in Seq(Results)
    /\ graph \in Media \union {None}
    /\ lastOMD \in Media \union {None}
    /\ dialog \in {"none", "created", "shown", "ended"}
    /\ nextOMD \in 1..(MaxOpens + 1)
    /\ freed \subseteq Media
    /\ lost \subseteq Media
    /\ sent \in 0..MaxSent

TypeInv == StackInv /\ Values /\ messages \in Seq(Requests)

LEMMA OwnFramesAreFrames == ASSUME NEW s \in Seq(OwnFrames) PROVE s \in Seq(Frames)
  BY SeqMonotonic DEF OwnFrames

LEMMA RequestsTyped ==
    ASSUME NEW s \in Seq(Requests)
    PROVE  s \in Seq([msg : {"TM_OPEN", "TM_CLOSE", "TM_CALL", "TM_EXIT"},
                      omd : Media \union {None}])
<1>1. Requests \subseteq [msg : {"TM_OPEN", "TM_CLOSE", "TM_CALL", "TM_EXIT"},
                          omd : Media \union {None}]
  BY DEF Requests
<1> QED
  BY <1>1, SeqMonotonic

\* The top of a stack.
LEMMA TopTyped ==
    ASSUME StackInv, NEW t \in Threads, stack[t] # << >>
    PROVE  /\ Top(t) = stack[t][1]
           /\ Top(t) \in OwnFrames
           /\ Tail(stack[t]) \in Seq(OwnFrames)
           /\ t = "main" => QuitsLast(Tail(stack[t]))
<1>1. stack[t] \in Seq(OwnFrames)
  BY DEF StackInv
<1>2. /\ Len(stack[t]) \in Nat \ {0}
      /\ Top(t) = stack[t][1] /\ Top(t) \in OwnFrames
      /\ Tail(stack[t]) \in Seq(OwnFrames)
      /\ Len(Tail(stack[t])) = Len(stack[t]) - 1
      /\ \A i \in 1..(Len(stack[t]) - 1) : Tail(stack[t])[i] = stack[t][i + 1]
  BY <1>1, TailProperties DEF Top
<1>3. t = "main" => QuitsLast(Tail(stack[t]))
  BY <1>2 DEF QuitsLast, StackInv
<1> QED
  BY <1>2, <1>3

\* A frame put on a stack keeps it in order, unless it is one of quitting.
LEMMA PushQuits ==
    ASSUME NEW s \in Seq(OwnFrames), QuitsLast(s), NEW f \in OwnFrames,
           f.pc \notin QuitPcs \/ s = << >>
    PROVE  QuitsLast(Push(f, s))
<1>1. /\ Len(Push(f, s)) = Len(s) + 1
      /\ Push(f, s)[1] = f
      /\ \A i \in 1..Len(s) : Push(f, s)[i + 1] = s[i]
  BY PushProperties
<1>2. Len(s) \in Nat
  BY LenProperties
<1>3. s = << >> => Len(s) = 0
  OBVIOUS
<1>4. ASSUME NEW i \in 1..Len(Push(f, s)), i < Len(Push(f, s)) PROVE Push(f, s)[i].pc \notin QuitPcs
  <2>1. CASE i = 1
    BY <2>1, <1>1, <1>2, <1>3, <1>4
  <2>2. CASE i # 1
    <3>1. i - 1 \in 1..Len(s) /\ i - 1 < Len(s) /\ Push(f, s)[(i - 1) + 1] = s[i - 1]
      BY <2>2, <1>1, <1>2, <1>4
    <3>2. (i - 1) + 1 = i
      BY <1>2
    <3> QED
      BY <3>1, <3>2 DEF QuitsLast
  <2> QED
    BY <2>1, <2>2
<1> QED
  BY <1>4 DEF QuitsLast

\* The three things a procedure does to its stack: it goes on, returns, or calls another.
LEMMA Replaced ==
    ASSUME StackInv, NEW t \in Threads, stack[t] # << >>, NEW f \in OwnFrames, f.pc \notin QuitPcs,
           Becomes(t, << f >>)
    PROVE  StackInv'
<1>1. Tail(stack[t]) \in Seq(OwnFrames) /\ (t = "main" => QuitsLast(Tail(stack[t])))
  BY TopTyped
<1>2. /\ Push(f, Tail(stack[t])) \in Seq(OwnFrames)
      /\ t = "main" => QuitsLast(Push(f, Tail(stack[t])))
  BY <1>1, PushProperties, PushQuits
<1>3. stack' = [stack EXCEPT ![t] = Push(f, Tail(stack[t]))]
  BY DEF Push, Becomes
<1> QED
  BY <1>2, <1>3 DEF StackInv, Threads

LEMMA Returned ==
    ASSUME StackInv, NEW t \in Threads, stack[t] # << >>, Return(t)
    PROVE  /\ stack' = [stack EXCEPT ![t] = Tail(stack[t])]
           /\ StackInv'
<1>1. Tail(stack[t]) \in Seq(OwnFrames) /\ (t = "main" => QuitsLast(Tail(stack[t])))
  BY TopTyped
<1>2. << >> \o Tail(stack[t]) = Tail(stack[t])
  BY <1>1, ConcatEmptySeq
<1>3. stack' = [stack EXCEPT ![t] = Tail(stack[t])]
  BY <1>2 DEF Return, Becomes
<1> QED
  BY <1>1, <1>3 DEF StackInv, Threads

LEMMA ReplacedByTwo ==
    ASSUME StackInv, NEW t \in Threads, stack[t] # << >>,
           NEW f \in OwnFrames, f.pc \notin QuitPcs, NEW g \in OwnFrames, g.pc \notin QuitPcs,
           Becomes(t, << f, g >>)
    PROVE  StackInv'
<1>1. Tail(stack[t]) \in Seq(OwnFrames) /\ (t = "main" => QuitsLast(Tail(stack[t])))
  BY TopTyped
<1>2. /\ Push(g, Tail(stack[t])) \in Seq(OwnFrames)
      /\ t = "main" => QuitsLast(Push(g, Tail(stack[t])))
  BY <1>1, PushProperties, PushQuits
<1>3. /\ Push(f, Push(g, Tail(stack[t]))) \in Seq(OwnFrames)
      /\ t = "main" => QuitsLast(Push(f, Push(g, Tail(stack[t]))))
  BY <1>2, PushProperties, PushQuits
<1>4. << f, g >> \o Tail(stack[t]) = Push(f, Push(g, Tail(stack[t])))
  <2> DEFINE s == Tail(stack[t])
  <2>1. s \in Seq(OwnFrames)
    BY <1>1
  <2> HIDE DEF s
  <2>2. << f, g >> \o s = Push(f, Push(g, s))
    BY <2>1, PushTwo
  <2> QED
    BY <2>2 DEF s
<1>5. stack' = [stack EXCEPT ![t] = Push(f, Push(g, Tail(stack[t])))]
  BY <1>4 DEF Becomes
<1> QED
  BY <1>3, <1>5 DEF StackInv, Threads

Pcs == OpenPcs \union OpenPrivatePcs \union ClosePcs \union OtherPcs

\* A frame goes on to a step that points to an OpenMediaData, or not, as its last one did.
LEMMA NextStepTyped ==
    ASSUME StackInv, NEW t \in Threads, stack[t] # << >>, NEW pc \in Pcs,
           pc \in CarryingPcs <=> Top(t).pc \in CarryingPcs
    PROVE  [Top(t) EXCEPT !.pc = pc] \in OwnFrames
<1>1. Top(t) \in OwnFrames
  BY TopTyped
<1> QED
  BY <1>1 DEF OwnFrames, Frames, Pcs

LEMMA GoneTo ==
    ASSUME StackInv, NEW t \in Threads, stack[t] # << >>, NEW pc \in Pcs, pc \notin QuitPcs,
           pc \in CarryingPcs <=> Top(t).pc \in CarryingPcs, Goto(t, pc)
    PROVE  StackInv'
<1> DEFINE f == [Top(t) EXCEPT !.pc = pc]
<1>1. f \in OwnFrames
  BY NextStepTyped
<1>2. Top(t) \in OwnFrames
  BY TopTyped
<1>3. f.pc = pc
  BY <1>2 DEF OwnFrames, Frames
<1>4. Becomes(t, << f >>)
  BY DEF Goto
<1> QED
  BY <1>1, <1>3, <1>4, Replaced

LEMMA Called ==
    ASSUME StackInv, NEW t \in Threads, stack[t] # << >>, NEW pc \in Pcs, pc \notin QuitPcs,
           pc \in CarryingPcs <=> Top(t).pc \in CarryingPcs,
           NEW f \in OwnFrames, f.pc \notin QuitPcs, Call(t, f, pc)
    PROVE  StackInv'
<1> DEFINE g == [Top(t) EXCEPT !.pc = pc]
<1>1. g \in OwnFrames
  BY NextStepTyped
<1>2. Top(t) \in OwnFrames
  BY TopTyped
<1>3. g.pc = pc
  BY <1>2 DEF OwnFrames, Frames
<1>4. Becomes(t, << f, g >>)
  BY DEF Call
<1> QED
  BY <1>1, <1>3, <1>4, ReplacedByTwo

\* What a procedure may put on a stack: a step of one that points to an OpenMediaData, and
\* one that points to none.
LEMMA FramesTyped ==
    /\ \A omd \in Media : \A pc \in CarryingPcs :
           Frame(pc, omd) \in OwnFrames /\ Frame(pc, omd).pc = pc /\ Frame(pc, omd).omd = omd
    /\ \A pc \in Pcs \ CarryingPcs :
           Frame(pc, None) \in OwnFrames /\ Frame(pc, None).pc = pc /\ Frame(pc, None).omd = None
  BY DEF Frame, OwnFrames, Frames, Pcs, CarryingPcs, OpenPcs, OpenPrivatePcs, ClosePcs, OtherPcs

\* The idle main thread handles something: one frame, or one on top of another.
LEMMA Entered ==
    ASSUME StackInv, NEW t \in Threads, NEW f \in OwnFrames,
           f.pc \notin QuitPcs \/ stack[t] = << >>, Enter(t, << f >>)
    PROVE  StackInv'
<1>1. stack[t] \in Seq(OwnFrames) /\ (t = "main" => QuitsLast(stack[t]))
  BY DEF StackInv
<1>2. /\ Push(f, stack[t]) \in Seq(OwnFrames)
      /\ t = "main" => QuitsLast(Push(f, stack[t]))
  BY <1>1, PushProperties, PushQuits
<1>3. stack' = [stack EXCEPT ![t] = Push(f, stack[t])]
  BY DEF Push, Enter
<1> QED
  BY <1>2, <1>3 DEF StackInv, Threads

LEMMA EnteredByTwo ==
    ASSUME StackInv, NEW t \in Threads, NEW f \in OwnFrames, f.pc \notin QuitPcs,
           NEW g \in OwnFrames, g.pc \notin QuitPcs \/ stack[t] = << >>, Enter(t, << f, g >>)
    PROVE  StackInv'
<1> DEFINE s == stack[t]
<1>1. s \in Seq(OwnFrames) /\ (t = "main" => QuitsLast(s))
  BY DEF StackInv
<1>2. stack' = [stack EXCEPT ![t] = << f, g >> \o s]
  BY DEF Enter
<1> HIDE DEF s
<1>3. << f, g >> \o s = Push(f, Push(g, s))
  BY <1>1, PushTwo
<1>4. /\ Push(g, s) \in Seq(OwnFrames)
      /\ t = "main" => QuitsLast(Push(g, s))
  BY <1>1, PushProperties, PushQuits DEF s
<1>5. /\ Push(f, Push(g, s)) \in Seq(OwnFrames)
      /\ t = "main" => QuitsLast(Push(f, Push(g, s)))
  BY <1>4, PushProperties, PushQuits
<1> QED
  BY <1>2, <1>3, <1>5 DEF StackInv, Threads

LEMMA TypeInvImpliesTypeOK == TypeInv => TypeOK
<1> SUFFICES ASSUME TypeInv PROVE TypeOK
  OBVIOUS
<1>1. stack \in [Threads -> Seq(Frames)]
  BY OwnFramesAreFrames DEF TypeInv, StackInv
<1>2. messages \in Seq([msg : {"TM_OPEN", "TM_CLOSE", "TM_CALL", "TM_EXIT"},
                       omd : Media \union {None}])
  BY RequestsTyped DEF TypeInv
<1> QED
  BY <1>1, <1>2 DEF TypeInv, Values, TypeOK, Results

LEMMA OpenTyped == ASSUME TypeInv, NEW t \in Threads, Open(t) PROVE TypeInv'
<1> USE FramesTyped, TopTyped
    DEF Pcs, QuitPcs, CarryingPcs, OpenPcs, OpenPrivatePcs, ClosePcs, OtherPcs
<1>0. StackInv /\ Values /\ messages \in Seq(Requests)
  BY DEF TypeInv
<1>1. ASSUME OpenCloses(t) PROVE TypeInv'
  <2>1. stack[t] # << >> /\ Top(t).pc = "open_wait"
    BY <1>1 DEF OpenCloses, At, Top
  <2>2. StackInv'
    BY <1>0, <1>1, <2>1, GoneTo, Called DEF OpenCloses
  <2> QED
    BY <1>0, <1>1, <2>2 DEF OpenCloses, TypeInv, Values, flags, events, data
<1>2. ASSUME OpenActivates(t) PROVE TypeInv'
  <2>1. stack[t] # << >> /\ Top(t).pc = "open_active"
    BY <1>2 DEF OpenActivates, At, Top
  <2>2. StackInv'
    BY <1>0, <1>2, <2>1, GoneTo DEF OpenActivates
  <2> QED
    BY <1>0, <1>2, <2>2 DEF OpenActivates, TypeInv, Values, flags, events, data
<1>3. ASSUME OpenPromptAnswered(t) PROVE TypeInv'
  <2>1. stack[t] # << >> /\ Top(t).pc = "open_prompt"
    BY <1>3 DEF OpenPromptAnswered, At, Top
  <2>2. StackInv'
    BY <1>0, <1>3, <2>1, GoneTo, Returned DEF OpenPromptAnswered
  <2>3. Top(t).omd \in Media
    BY <1>0, <2>1 DEF OwnFrames
  <2> QED
    BY <1>0, <1>3, <2>2, <2>3
    DEF OpenPromptAnswered, TypeInv, Values, flags, events, data, Deleted
<1>4. ASSUME OpenLoads(t) PROVE TypeInv'
  <2>1. stack[t] # << >> /\ Top(t).pc = "open_load"
    BY <1>4 DEF OpenLoads, At, Top
  <2>2. Top(t).omd \in Media
    BY <1>0, <2>1 DEF OwnFrames
  <2>3. CASE Top(t).omd \notin MainMedia
    <3>1. Becomes(t, << Frame("open_flag", None) >>)
      BY <1>4, <2>3 DEF OpenLoads
    <3>2. StackInv'
      BY <1>0, <2>1, <3>1, Replaced
    <3>3. [msg |-> "TM_OPEN", omd |-> Top(t).omd] \in Requests
      BY <2>2 DEF Requests
    <3>4. messages' \in Seq(Requests)
      BY <1>0, <1>4, <2>3, <3>3 DEF OpenLoads
    <3> QED
      BY <1>0, <1>4, <2>3, <3>2, <3>4
      DEF OpenLoads, TypeInv, Values, flags, events, data, Reset, LoadStates
  <2>4. CASE Top(t).omd \in MainMedia
    <3>1. Becomes(t, << Frame("private_start", Top(t).omd), Frame("open_unflag", None) >>)
      BY <1>4, <2>4 DEF OpenLoads
    <3>2. /\ Frame("private_start", Top(t).omd) \in OwnFrames
          /\ Frame("private_start", Top(t).omd).pc = "private_start"
          /\ Frame("open_unflag", None) \in OwnFrames
          /\ Frame("open_unflag", None).pc = "open_unflag"
      BY <2>2
    <3>3. StackInv'
      BY <1>0, <2>1, <3>1, <3>2, ReplacedByTwo
    <3> QED
      BY <1>0, <1>4, <2>4, <3>3
      DEF OpenLoads, TypeInv, Values, flags, events, data, LoadStates
  <2> QED
    BY <2>3, <2>4
<1>5. ASSUME OpenFlags(t) PROVE TypeInv'
  <2>1. stack[t] # << >>
    BY <1>5 DEF OpenFlags, At
  <2>2. StackInv'
    BY <1>0, <1>5, <2>1, Returned DEF OpenFlags
  <2> QED
    BY <1>0, <1>5, <2>2 DEF OpenFlags, TypeInv, Values, flags, events, data
<1> QED
  BY <1>1, <1>2, <1>3, <1>4, <1>5 DEF Open

LEMMA PrivateTyped ==
    ASSUME TypeInv, NEW t \in Threads, Private(t) \/ PrivateRenders(t) PROVE TypeInv'
<1> USE FramesTyped, TopTyped
    DEF Pcs, QuitPcs, CarryingPcs, OpenPcs, OpenPrivatePcs, ClosePcs, OtherPcs
<1>0. StackInv /\ Values /\ messages \in Seq(Requests)
  BY DEF TypeInv
<1>1. ASSUME PrivateCreates(t) PROVE TypeInv'
  <2>1. stack[t] # << >> /\ Top(t).pc = "private_start"
    BY <1>1 DEF PrivateCreates, At, Top
  <2>2. StackInv'
    BY <1>0, <1>1, <2>1, GoneTo DEF PrivateCreates, OpenCreateGraphObject
  <2>3. Top(t).omd \in Media
    BY <1>0, <2>1 DEF OwnFrames
  <2> QED
    BY <1>0, <1>1, <2>2, <2>3
    DEF PrivateCreates, OpenCreateGraphObject, TypeInv, Values, flags, events, data
<1>2. ASSUME PrivateRenders(t) PROVE TypeInv'
  <2>1. stack[t] # << >> /\ Top(t).pc = "private_render"
    BY <1>2 DEF PrivateRenders, At, Top
  <2>2. StackInv'
    BY <1>0, <1>2, <2>1, GoneTo DEF PrivateRenders
  <2> QED
    BY <1>0, <1>2, <2>2 DEF PrivateRenders, TypeInv, Values, flags, events, data
<1>3. ASSUME DialogCreated(t) PROVE TypeInv'
  <2>1. stack[t] # << >> /\ Top(t).pc = "private_report"
    BY <1>3 DEF DialogCreated, At, Top
  <2>2. StackInv'
    BY <1>0, <1>3, <2>1, GoneTo DEF DialogCreated
  <2> QED
    BY <1>0, <1>3, <2>2 DEF DialogCreated, TypeInv, Values, flags, events, data
<1>4. ASSUME DialogShown(t) PROVE TypeInv'
  BY <1>0, <1>4 DEF DialogShown, TypeInv, StackInv, Values, flags, events, data
<1>5. ASSUME DialogDeleted(t) PROVE TypeInv'
  <2>1. stack[t] # << >> /\ Top(t).pc = "private_modal"
    BY <1>5 DEF DialogDeleted, At, Top
  <2>2. StackInv'
    BY <1>0, <1>5, <2>1, GoneTo DEF DialogDeleted
  <2> QED
    BY <1>0, <1>5, <2>2 DEF DialogDeleted, TypeInv, Values, flags, events, data
<1>6. ASSUME PrivateChecks(t) PROVE TypeInv'
  <2>1. stack[t] # << >> /\ Top(t).pc = "private_check"
    BY <1>6 DEF PrivateChecks, At, Top
  <2>2. StackInv'
    BY <1>0, <1>6, <2>1, GoneTo DEF PrivateChecks
  <2> QED
    BY <1>0, <1>6, <2>2 DEF PrivateChecks, TypeInv, Values, flags, events, data
<1>7. ASSUME PrivateReports(t) PROVE TypeInv'
  <2>1. stack[t] # << >> /\ Top(t).pc \in {"private_ok", "private_err"}
    BY <1>7 DEF PrivateReports, At, Top
  <2>2. Top(t).omd \in Media
    BY <1>0, <2>1 DEF OwnFrames
  <2>3. /\ Return(t) \/ Goto(t, "post_open") \/ Goto(t, "open_failed")
        /\ \/ window' = window
           \/ window' = Append(window, [msg |-> "WM_POSTOPEN", omd |-> Top(t).omd])
           \/ window' = Append(window, [msg |-> "WM_OPENFAILED", omd |-> Top(t).omd])
        /\ freed' = freed \/ freed' = freed \union ({Top(t).omd} \ {None})
    BY <1>7 DEF PrivateReports, Report, Deleted
  <2>4. StackInv'
    BY <1>0, <2>1, <2>3, GoneTo, Returned
  <2>5. window' \in Seq(Results)
    <3>1. /\ [msg |-> "WM_POSTOPEN", omd |-> Top(t).omd] \in Results
          /\ [msg |-> "WM_OPENFAILED", omd |-> Top(t).omd] \in Results
      BY <2>2 DEF Results
    <3>2. window \in Seq(Results)
      BY <1>0 DEF Values
    <3> QED
      BY <2>3, <3>1, <3>2
  <2>6. freed' \subseteq Media
    BY <1>0, <2>2, <2>3 DEF Values
  <2>7. UNCHANGED <<loadState, flags, events, messages, graph, lastOMD, dialog, nextOMD, lost, sent>>
    BY <1>7 DEF PrivateReports
  <2> QED
    BY <1>0, <2>4, <2>5, <2>6, <2>7 DEF TypeInv, Values, flags, events
<1> QED
  BY <1>1, <1>2, <1>3, <1>4, <1>5, <1>6, <1>7 DEF Private

LEMMA HandlersTyped == ASSUME TypeInv, NEW t \in Threads, Handlers(t) PROVE TypeInv'
<1> USE FramesTyped, TopTyped
    DEF Pcs, QuitPcs, CarryingPcs, OpenPcs, OpenPrivatePcs, ClosePcs, OtherPcs
<1>0. StackInv /\ Values /\ messages \in Seq(Requests)
  BY DEF TypeInv
<1>1. ASSUME PostOpen(t) PROVE TypeInv'
  <2>1. stack[t] # << >> /\ Top(t).pc = "post_open"
    BY <1>1 DEF PostOpen, At, Top
  <2>2. StackInv'
    BY <1>0, <1>1, <2>1, Returned DEF PostOpen
  <2>3. Top(t).omd \in Media
    BY <1>0, <2>1 DEF OwnFrames
  <2>4. /\ lost' \in {lost, lost \union {Top(t).omd}}
        /\ \/ lastOMD' = Top(t).omd /\ freed' = freed \union ({lastOMD} \ {None})
           \/ UNCHANGED <<lastOMD, freed>>
        /\ loadState' \in {loadState, "LOADED"}
        /\ openMediaActive' \in {openMediaActive, FALSE}
    BY <1>1 DEF PostOpen, Remember, Deleted
  <2>5. lost' \subseteq Media /\ freed' \subseteq Media /\ lastOMD' \in Media \union {None}
    BY <1>0, <2>3, <2>4 DEF Values
  <2>6. loadState' \in LoadStates /\ openMediaActive' \in BOOLEAN
    BY <1>0, <2>4 DEF Values, LoadStates
  <2> QED
    BY <1>0, <1>1, <2>2, <2>5, <2>6 DEF PostOpen, TypeInv, Values, events
<1>2. ASSUME OpenFailed(t) PROVE TypeInv'
  <2>1. stack[t] # << >> /\ Top(t).pc = "open_failed"
    BY <1>2 DEF OpenFailed, At, Top
  <2>2. Top(t).omd \in Media
    BY <1>0, <2>1 DEF OwnFrames
  <2>3. StackInv' /\ nextOMD' \in 1..(MaxOpens + 1)
    <3>1. CASE Becomes(t, << Frame("close_enter", None), Frame("failed_next", None) >>)
               /\ UNCHANGED nextOMD
      <4>1. /\ Frame("close_enter", None) \in OwnFrames
            /\ Frame("close_enter", None).pc = "close_enter"
            /\ Frame("failed_next", None) \in OwnFrames
            /\ Frame("failed_next", None).pc = "failed_next"
        OBVIOUS
      <4> QED
        BY <1>0, <2>1, <3>1, <4>1, ReplacedByTwo DEF Values
    <3>2. CASE NewOMD /\ Becomes(t, << Frame("open_wait", nextOMD) >>)
      <4>1. nextOMD \in Media /\ nextOMD' \in 1..(MaxOpens + 1)
        BY <1>0, <3>2, MediaLoaderAssumption DEF Values, NewOMD, Media
      <4>2. Frame("open_wait", nextOMD) \in OwnFrames /\ Frame("open_wait", nextOMD).pc = "open_wait"
        BY <4>1
      <4> QED
        BY <1>0, <2>1, <3>2, <4>1, <4>2, Replaced
    <3> QED
      BY <1>2, <3>1, <3>2 DEF OpenFailed
  <2> QED
    BY <1>0, <1>2, <2>2, <2>3
    DEF OpenFailed, TypeInv, Values, events, Remember, Deleted, LoadStates
<1>3. ASSUME FailedOpensNext(t) PROVE TypeInv'
  <2>1. stack[t] # << >> /\ Top(t).pc = "failed_next"
    BY <1>3 DEF FailedOpensNext, At, Top
  <2>2. StackInv' /\ nextOMD' \in 1..(MaxOpens + 1)
    <3>1. CASE Return(t) /\ UNCHANGED nextOMD
      BY <1>0, <2>1, <3>1, Returned DEF Values
    <3>2. CASE NewOMD /\ Becomes(t, << Frame("open_wait", nextOMD) >>)
      <4>1. nextOMD \in Media /\ nextOMD' \in 1..(MaxOpens + 1)
        BY <1>0, <3>2, MediaLoaderAssumption DEF Values, NewOMD, Media
      <4>2. Frame("open_wait", nextOMD) \in OwnFrames /\ Frame("open_wait", nextOMD).pc = "open_wait"
        BY <4>1
      <4> QED
        BY <1>0, <2>1, <3>2, <4>1, <4>2, Replaced
    <3> QED
      BY <1>3, <3>1, <3>2 DEF FailedOpensNext
  <2> QED
    BY <1>0, <1>3, <2>2 DEF FailedOpensNext, TypeInv, Values, flags, events
<1> QED
  BY <1>1, <1>2, <1>3 DEF Handlers

\* Taking a message out of a queue.
LEMMA RemoveAtProperties ==
    ASSUME NEW S, NEW s \in Seq(S), NEW k \in 1..Len(s)
    PROVE  /\ RemoveAt(s, k) \in Seq(S)
           /\ Len(RemoveAt(s, k)) = Len(s) - 1
           /\ \A i \in 1..(Len(s) - 1) :
                  RemoveAt(s, k)[i] = IF i < k THEN s[i] ELSE s[i + 1]
<1> DEFINE front == SubSeq(s, 1, k - 1)
           back == SubSeq(s, k + 1, Len(s))
<1>1. Len(s) \in Nat /\ k \in Nat /\ 1 <= k /\ k <= Len(s)
  BY LenProperties
<1>2. /\ front \in Seq(S) /\ Len(front) = k - 1
      /\ \A i \in 1..(k - 1) : front[i] = s[i]
  <2>1. \A i \in 1..(k - 1) : s[i] \in S
    BY <1>1, ElementOfSeq
  <2>2. /\ front \in Seq(S) /\ Len(front) = IF 1 <= k - 1 THEN (k - 1) - 1 + 1 ELSE 0
        /\ \A i \in 1..((k - 1) - 1 + 1) : front[i] = s[1 + i - 1]
    BY <1>1, <2>1, SubSeqProperties
  <2> QED
    BY <1>1, <2>2
<1>3. /\ back \in Seq(S) /\ Len(back) = Len(s) - k
      /\ \A i \in 1..(Len(s) - k) : back[i] = s[k + i]
  <2>1. \A i \in (k + 1)..Len(s) : s[i] \in S
    BY <1>1, ElementOfSeq
  <2>2. /\ back \in Seq(S) /\ Len(back) = IF k + 1 <= Len(s) THEN Len(s) - (k + 1) + 1 ELSE 0
        /\ \A i \in 1..(Len(s) - (k + 1) + 1) : back[i] = s[(k + 1) + i - 1]
    BY <1>1, <2>1, SubSeqProperties
  <2> QED
    BY <1>1, <2>2
<1>4. RemoveAt(s, k) = front \o back
  BY DEF RemoveAt
<1> HIDE DEF front, back
<1>5. /\ RemoveAt(s, k) \in Seq(S)
      /\ Len(RemoveAt(s, k)) = Len(front) + Len(back)
      /\ \A i \in 1..(Len(front) + Len(back)) :
            RemoveAt(s, k)[i] = IF i <= Len(front) THEN front[i] ELSE back[i - Len(front)]
  <2>1. /\ front \o back \in Seq(S)
        /\ Len(front \o back) = Len(front) + Len(back)
        /\ \A i \in 1..(Len(front) + Len(back)) :
              (front \o back)[i] = IF i <= Len(front) THEN front[i] ELSE back[i - Len(front)]
    BY <1>2, <1>3, ConcatProperties
  <2> QED
    BY <2>1, <1>4
<1>6. Len(RemoveAt(s, k)) = Len(s) - 1
  BY <1>1, <1>2, <1>3, <1>5
<1>7. ASSUME NEW i \in 1..(Len(s) - 1)
      PROVE  RemoveAt(s, k)[i] = IF i < k THEN s[i] ELSE s[i + 1]
  <2>1. CASE i < k
    <3>1. i \in 1..(k - 1) /\ i <= k - 1 /\ i \in 1..(Len(front) + Len(back))
      BY <2>1, <1>1, <1>2, <1>3
    <3>2. RemoveAt(s, k)[i] = front[i] /\ front[i] = s[i]
      BY <3>1, <1>2, <1>5
    <3> QED
      BY <2>1, <3>2
  <2>2. CASE ~(i < k)
    <3>1. i - (k - 1) \in 1..(Len(s) - k) /\ ~(i <= k - 1) /\ i \in 1..(Len(front) + Len(back))
      BY <2>2, <1>1, <1>2, <1>3
    <3>2. RemoveAt(s, k)[i] = back[i - (k - 1)]
      BY <3>1, <1>2, <1>5
    <3>3. back[i - (k - 1)] = s[k + (i - (k - 1))]
      BY <3>1, <1>3
    <3>4. k + (i - (k - 1)) = i + 1
      BY <1>1
    <3> QED
      BY <2>2, <3>2, <3>3, <3>4
  <2> QED
    BY <2>1, <2>2
<1> QED
  BY <1>5, <1>6, <1>7

\* What a sequence holds are OpenMediaData.
LEMMA HeldTyped ==
    /\ \A s \in Seq(OwnFrames) : Held(s) \subseteq Media
    /\ \A s \in Seq(Requests) : Held(s) \subseteq Media
<1>1. ASSUME NEW s \in Seq(OwnFrames) PROVE Held(s) \subseteq Media
  <2>1. \A i \in DOMAIN s : s[i] \in OwnFrames
    BY LenProperties, ElementOfSeq
  <2> QED
    BY <2>1 DEF Held, OwnFrames, Frames
<1>2. ASSUME NEW s \in Seq(Requests) PROVE Held(s) \subseteq Media
  <2>1. \A i \in DOMAIN s : s[i] \in Requests
    BY LenProperties, ElementOfSeq
  <2> QED
    BY <2>1 DEF Held, Requests
<1> QED
  BY <1>1, <1>2

LEMMA PurgeTyped ==
    ASSUME TypeInv, NEW msg, Purge(msg)
    PROVE  window' \in Seq(Results) /\ freed' \subseteq Media
<1>0. window \in Seq(Results) /\ freed \subseteq Media
  BY DEF TypeInv, Values
<1>1. CASE UNCHANGED <<window, freed>>
  BY <1>0, <1>1
<1>2. CASE \E i \in Peeked(msg) : window' = RemoveAt(window, i) /\ Deleted({window[i].omd})
  <2>1. PICK i \in Peeked(msg) : window' = RemoveAt(window, i) /\ Deleted({window[i].omd})
    BY <1>2
  <2>2. i \in 1..Len(window)
    BY <1>0, LenProperties DEF Peeked
  <2>3. window' \in Seq(Results)
    BY <1>0, <2>1, <2>2, RemoveAtProperties
  <2>4. window[i] \in Results
    BY <1>0, <2>2, ElementOfSeq
  <2> QED
    BY <1>0, <2>1, <2>3, <2>4 DEF Deleted, Results
<1> QED
  BY <1>1, <1>2 DEF Purge

LEMMA KillTyped == ASSUME TypeInv, NEW t \in Threads, CloseKills(t) PROVE TypeInv'
<1>0. StackInv /\ Values /\ messages \in Seq(Requests)
  BY DEF TypeInv
<1>1. stack[t] # << >> /\ Top(t).pc = "close_kill"
  BY DEF CloseKills, At, Top
<1>2. lost' \subseteq Media
  BY <1>0, HeldTyped DEF CloseKills, Terminate, StackInv, Values, Threads
<1>3. StackInv'
  <2>1. CASE t = "graph"
    <3>1. Frame("exited", None) \in OwnFrames
      BY FramesTyped DEF Pcs, CarryingPcs, OpenPcs, OpenPrivatePcs, ClosePcs, OtherPcs
    <3>2. << Frame("exited", None) >> \in Seq(OwnFrames)
      BY <3>1
    <3>3. stack' = [stack EXCEPT !["graph"] = << Frame("exited", None) >>]
      BY <2>1 DEF CloseKills
    <3> QED
      BY <1>0, <3>2, <3>3 DEF StackInv, Threads
  <2>2. CASE t = "main"
    <3> DEFINE f == [Top("main") EXCEPT !.pc = "close_purge", !.killed = TRUE]
    <3>1. Top("main") \in OwnFrames /\ Tail(stack["main"]) \in Seq(OwnFrames)
          /\ QuitsLast(Tail(stack["main"]))
      BY <1>0, <1>1, <2>2, TopTyped DEF Threads
    <3>2. f \in OwnFrames /\ f.pc = "close_purge"
      BY <1>1, <2>2, <3>1
      DEF OwnFrames, Frames, CarryingPcs, OpenPcs, OpenPrivatePcs, ClosePcs, OtherPcs
    <3>3. stack' = [stack EXCEPT !["graph"] = << >>, !["main"] = << f >> \o Tail(@)]
      BY <2>2 DEF CloseKills, Top
    <3>4. stack' = [stack EXCEPT !["graph"] = << >>, !["main"] = Push(f, Tail(stack["main"]))]
      BY <3>3 DEF Push
    <3> HIDE DEF f
    <3>5. /\ Push(f, Tail(stack["main"])) \in Seq(OwnFrames)
          /\ QuitsLast(Push(f, Tail(stack["main"])))
      BY <3>1, <3>2, PushProperties, PushQuits DEF QuitPcs
    <3>6. stack'["graph"] = << >> /\ stack'["main"] = Push(f, Tail(stack["main"]))
          /\ stack' \in [Threads -> {stack'["graph"], stack'["main"]}]
      BY <1>0, <3>4 DEF StackInv, Threads
    <3>7. << >> \in Seq(OwnFrames)
      OBVIOUS
    <3> QED
      BY <3>5, <3>6, <3>7 DEF StackInv, Threads
  <2> QED
    BY <2>1, <2>2 DEF Threads
<1> QED
  BY <1>0, <1>2, <1>3 DEF CloseKills, TypeInv, Values, flags, events

LEMMA CloseTyped == ASSUME TypeInv, NEW t \in Threads, Close(t) PROVE TypeInv'
<1> USE FramesTyped, TopTyped
    DEF Pcs, QuitPcs, CarryingPcs, OpenPcs, OpenPrivatePcs, ClosePcs, OtherPcs
<1>0. StackInv /\ Values /\ messages \in Seq(Requests)
  BY DEF TypeInv
<1>1. ASSUME CloseEnters(t) PROVE TypeInv'
  <2>1. stack[t] # << >> /\ Top(t).pc = "close_enter"
    BY <1>1 DEF CloseEnters, At, Top
  <2>2. StackInv'
    BY <1>0, <1>1, <2>1, GoneTo, Returned DEF CloseEnters
  <2> QED
    BY <1>0, <1>1, <2>2 DEF CloseEnters, TypeInv, Values, events, data
<1>2. ASSUME CloseEndsDialog(t) PROVE TypeInv'
  <2>1. stack[t] # << >> /\ Top(t).pc = "close_dialog"
    BY <1>2 DEF CloseEndsDialog, At, Top
  <2>2. StackInv'
    BY <1>0, <1>2, <2>1, GoneTo DEF CloseEndsDialog
  <2> QED
    BY <1>0, <1>2, <2>2 DEF CloseEndsDialog, TypeInv, Values, flags, events, data
<1>3. ASSUME CloseLocksDialog(t) PROVE TypeInv'
  <2>1. stack[t] # << >> /\ Top(t).pc = "close_lock"
    BY <1>3 DEF CloseLocksDialog, At, Top
  <2>2. StackInv'
    BY <1>0, <1>3, <2>1, GoneTo DEF CloseLocksDialog
  <2> QED
    BY <1>0, <1>3, <2>2 DEF CloseLocksDialog, TypeInv, Values, flags, events, data
<1>4. ASSUME CloseAborts(t) PROVE TypeInv'
  <2>1. stack[t] # << >> /\ Top(t).pc = "close_abort"
    BY <1>4 DEF CloseAborts, At, Top
  <2>2. StackInv'
    BY <1>0, <1>4, <2>1, GoneTo DEF CloseAborts
  <2> QED
    BY <1>0, <1>4, <2>2 DEF CloseAborts, TypeInv, Values, flags, data
<1>5. ASSUME CloseKills(t) PROVE TypeInv'
  BY <1>5, KillTyped
<1>6. ASSUME ClosePurges(t) PROVE TypeInv'
  <2>1. stack[t] # << >> /\ Top(t).pc \in {"close_purge", "close_purge_failed"}
    BY <1>6 DEF ClosePurges, At, Top
  <2>2. StackInv'
    BY <1>0, <1>6, <2>1, GoneTo DEF ClosePurges
  <2>3. window' \in Seq(Results) /\ freed' \subseteq Media /\ openingAborted' \in BOOLEAN
    BY <1>0, <1>6, PurgeTyped DEF ClosePurges, Values
  <2> QED
    BY <1>0, <1>6, <2>2, <2>3 DEF ClosePurges, TypeInv, Values, events
<1>7. ASSUME CloseStarts(t) PROVE TypeInv'
  <2>1. stack[t] # << >> /\ Top(t).pc = "close_closing"
    BY <1>7 DEF CloseStarts, At, Top
  <2>2. ASSUME openedThroughThread /\ ~Top(t).killed
        PROVE  StackInv' /\ messages' \in Seq(Requests) /\ evClose' \in BOOLEAN
    <3>1. /\ evClose' = FALSE
          /\ messages' = Append(messages, [msg |-> "TM_CLOSE", omd |-> None])
          /\ Goto(t, "close_wait")
      BY <1>7, <2>2 DEF CloseStarts, Reset
    <3>2. [msg |-> "TM_CLOSE", omd |-> None] \in Requests
      BY DEF Requests
    <3>3. StackInv'
      BY <1>0, <2>1, <3>1, GoneTo
    <3>4. messages' \in Seq(Requests)
      BY <1>0, <3>1, <3>2
    <3> QED
      BY <3>1, <3>3, <3>4
  <2>3. ASSUME ~(openedThroughThread /\ ~Top(t).killed)
        PROVE  StackInv' /\ messages' \in Seq(Requests) /\ evClose' \in BOOLEAN
    <3>1. Call(t, Frame("close_private", None), "close_done") /\ UNCHANGED <<evClose, messages>>
      BY <1>7, <2>3 DEF CloseStarts
    <3>2. /\ Frame("close_private", None) \in OwnFrames
          /\ Frame("close_private", None).pc = "close_private"
      OBVIOUS
    <3>3. StackInv'
      BY <1>0, <2>1, <3>1, <3>2, Called
    <3> QED
      BY <1>0, <3>1, <3>3 DEF Values
  <2>4. StackInv' /\ messages' \in Seq(Requests) /\ evClose' \in BOOLEAN
    BY <2>2, <2>3
  <2> QED
    BY <1>0, <1>7, <2>4 DEF CloseStarts, TypeInv, Values, flags, data, LoadStates
<1>8. ASSUME CloseWaits(t) PROVE TypeInv'
  <2>1. stack[t] # << >> /\ Top(t).pc = "close_wait"
    BY <1>8 DEF CloseWaits, At, Top
  <2>2. StackInv'
    BY <1>0, <1>8, <2>1, GoneTo DEF CloseWaits
  <2> QED
    BY <1>0, <1>8, <2>2 DEF CloseWaits, TypeInv, Values, flags, data
<1>9. ASSUME ClosePrivate(t) PROVE TypeInv'
  <2>1. stack[t] # << >> /\ Top(t).pc = "close_private"
    BY <1>9 DEF ClosePrivate, At, Top
  <2>2. StackInv'
    BY <1>0, <1>9, <2>1, Returned DEF ClosePrivate
  <2> QED
    BY <1>0, <1>9, <2>2
    DEF ClosePrivate, TypeInv, Values, flags, events, Remember, Deleted
<1>10. ASSUME CloseDone(t) PROVE TypeInv'
  <2>1. stack[t] # << >> /\ Top(t).pc = "close_done"
    BY <1>10 DEF CloseDone, At, Top
  <2>2. StackInv'
    BY <1>0, <1>10, <2>1, Returned DEF CloseDone
  <2> QED
    BY <1>0, <1>10, <2>2 DEF CloseDone, TypeInv, Values, events, data, LoadStates
<1> QED
  BY <1>1, <1>2, <1>3, <1>4, <1>5, <1>6, <1>7, <1>8, <1>9, <1>10 DEF Close

\* A waiting main thread is answered: one of its frames goes on, the stack stays as it was.
LEMMA AnsweredTyped ==
    ASSUME StackInv,
           stack' = [stack EXCEPT !["main"] =
               [i \in DOMAIN @ |-> IF @[i].pc = "call_wait"
                                   THEN [@[i] EXCEPT !.pc = "call_done"] ELSE @[i]]]
    PROVE  /\ StackInv'
           /\ stack'["graph"] = stack["graph"]
           /\ Len(stack'["main"]) = Len(stack["main"])
           /\ \A i \in 1..Len(stack["main"]) :
                  stack'["main"][i] = IF stack["main"][i].pc = "call_wait"
                                      THEN [stack["main"][i] EXCEPT !.pc = "call_done"]
                                      ELSE stack["main"][i]
<1> DEFINE s == stack["main"]
           r == [i \in DOMAIN s |-> IF s[i].pc = "call_wait"
                                    THEN [s[i] EXCEPT !.pc = "call_done"] ELSE s[i]]
<1>1. s \in Seq(OwnFrames) /\ QuitsLast(s)
  BY DEF StackInv, Threads
<1>2. stack' = [stack EXCEPT !["main"] = r]
  OBVIOUS
<1>3. Len(s) \in Nat /\ DOMAIN s = 1..Len(s) /\ \A i \in 1..Len(s) : s[i] \in OwnFrames
  BY <1>1, LenProperties, ElementOfSeq
<1>4. \A i \in 1..Len(s) : r[i] \in OwnFrames /\ (s[i].pc \notin QuitPcs => r[i].pc \notin QuitPcs)
  BY <1>3 DEF OwnFrames, Frames, QuitPcs, CarryingPcs, OpenPcs, OpenPrivatePcs, ClosePcs, OtherPcs
<1>5. r \in [1..Len(s) -> OwnFrames]
  BY <1>3, <1>4
<1>6. r \in Seq(OwnFrames) /\ Len(r) = Len(s)
  BY <1>3, <1>5, SeqDef, LenProperties
<1>7. QuitsLast(r)
  BY <1>1, <1>4, <1>6 DEF QuitsLast
<1>8. stack'["main"] = r /\ stack'["graph"] = stack["graph"]
  BY <1>2 DEF StackInv, Threads
<1>9. stack' \in [Threads -> Seq(OwnFrames)]
  BY <1>2, <1>6 DEF StackInv, Threads
<1> QED
  BY <1>3, <1>6, <1>7, <1>8, <1>9 DEF StackInv

LEMMA GraphTyped == ASSUME TypeInv, GraphTakes \/ GraphSignals PROVE TypeInv'
<1> USE FramesTyped
    DEF Pcs, QuitPcs, CarryingPcs, OpenPcs, OpenPrivatePcs, ClosePcs, OtherPcs
<1>0. StackInv /\ Values /\ messages \in Seq(Requests) /\ "graph" \in Threads
  BY DEF TypeInv, Threads
<1>1. ASSUME GraphTakes PROVE TypeInv'
  <2> DEFINE m == Head(messages)
  <2>1. m \in Requests /\ messages' \in Seq(Requests) /\ stack["graph"] = << >>
    BY <1>0, <1>1, HeadTailProperties DEF GraphTakes
  <2>2. /\ Frame("on_open", None) \in OwnFrames /\ Frame("on_open", None).pc = "on_open"
        /\ Frame("on_close", None) \in OwnFrames /\ Frame("on_close", None).pc = "on_close"
        /\ Frame("exited", None) \in OwnFrames /\ Frame("exited", None).pc = "exited"
        /\ Frame("close_private", None) \in OwnFrames
        /\ Frame("close_private", None).pc = "close_private"
    OBVIOUS
  <2>3. CASE m.msg = "TM_OPEN"
    <3>1. m.omd \in Media
      BY <2>1, <2>3 DEF Requests
    <3>2. /\ Frame("private_start", m.omd) \in OwnFrames
          /\ Frame("private_start", m.omd).pc = "private_start"
      BY <3>1
    <3>3. /\ \/ Enter("graph", << Frame("private_start", m.omd), Frame("on_open", None) >>)
             \/ Enter("graph", << Frame("on_open", None) >>)
          /\ lost' \in {lost, lost \union {m.omd}}
      BY <1>1, <2>3 DEF GraphTakes
    <3>4. StackInv'
      BY <1>0, <2>1, <2>2, <3>2, <3>3, Entered, EnteredByTwo
    <3> QED
      BY <1>0, <1>1, <2>1, <3>1, <3>3, <3>4 DEF GraphTakes, TypeInv, Values, flags, events
  <2>4. CASE m.msg = "TM_CLOSE"
    <3>1. /\ \/ Enter("graph", << Frame("close_private", None), Frame("on_close", None) >>)
             \/ Enter("graph", << Frame("on_close", None) >>)
          /\ lost' = lost
      BY <1>1, <2>4 DEF GraphTakes
    <3>2. StackInv'
      BY <1>0, <2>1, <2>2, <3>1, Entered, EnteredByTwo
    <3> QED
      BY <1>0, <1>1, <2>1, <3>1, <3>2 DEF GraphTakes, TypeInv, Values, flags, events
  <2>5. CASE m.msg = "TM_CALL"
    <3>1. /\ stack' = [stack EXCEPT !["main"] =
               [i \in DOMAIN @ |-> IF @[i].pc = "call_wait"
                                   THEN [@[i] EXCEPT !.pc = "call_done"] ELSE @[i]]]
          /\ lost' = lost
      BY <1>1, <2>5 DEF GraphTakes
    <3>2. StackInv'
      BY <1>0, <3>1, AnsweredTyped
    <3> QED
      BY <1>0, <1>1, <2>1, <3>1, <3>2 DEF GraphTakes, TypeInv, Values, flags, events
  <2>6. CASE m.msg = "TM_EXIT"
    <3>1. Enter("graph", << Frame("exited", None) >>) /\ lost' = lost
      BY <1>1, <2>6 DEF GraphTakes
    <3>2. StackInv'
      BY <1>0, <2>1, <2>2, <3>1, Entered
    <3> QED
      BY <1>0, <1>1, <2>1, <3>1, <3>2 DEF GraphTakes, TypeInv, Values, flags, events
  <2> QED
    BY <2>1, <2>3, <2>4, <2>5, <2>6 DEF Requests
<1>2. ASSUME GraphSignals PROVE TypeInv'
  <2>1. stack["graph"] # << >>
    BY <1>2 DEF GraphSignals, At
  <2>2. StackInv'
    BY <1>0, <1>2, <2>1, Returned DEF GraphSignals
  <2> QED
    BY <1>0, <1>2, <2>2 DEF GraphSignals, TypeInv, Values, flags, data
<1> QED
  BY <1>1, <1>2

LEMMA StartTyped ==
    ASSUME TypeInv, StartOpen \/ StartClose
    PROVE  StackInv' /\ nextOMD' \in 1..(MaxOpens + 1)
<1>0. StackInv /\ Values /\ "main" \in Threads
  BY DEF TypeInv, Threads
<1>1. CASE StartOpen
  <2>1. nextOMD \in Media /\ nextOMD' \in 1..(MaxOpens + 1)
    BY <1>0, <1>1, MediaLoaderAssumption DEF Values, StartOpen, NewOMD, Media
  <2>2. Frame("open_wait", nextOMD) \in OwnFrames /\ Frame("open_wait", nextOMD).pc = "open_wait"
    BY <2>1, FramesTyped DEF CarryingPcs
  <2> QED
    BY <1>0, <1>1, <2>1, <2>2, Entered DEF StartOpen, QuitPcs
<1>2. CASE StartClose
  <2>1. Frame("close_enter", None) \in OwnFrames /\ Frame("close_enter", None).pc = "close_enter"
    BY FramesTyped DEF Pcs, CarryingPcs, OpenPcs, OpenPrivatePcs, ClosePcs, OtherPcs
  <2> QED
    BY <1>0, <1>2, <2>1, Entered DEF StartClose, QuitPcs, Values
<1> QED
  BY <1>1, <1>2

LEMMA DestroysTyped == ASSUME TypeInv, MainDestroys PROVE TypeInv'
<1>0. StackInv /\ Values /\ messages \in Seq(Requests) /\ "main" \in Threads
  BY DEF TypeInv, Threads
<1>1. stack["main"] # << >> /\ Top("main").pc = "quit_destroy" /\ Goto("main", "quit_wait")
  BY DEF MainDestroys, At, Top
<1> DEFINE f == [Top("main") EXCEPT !.pc = "quit_wait"]
<1>2. Top("main") \in OwnFrames /\ Top("main") = stack["main"][1]
  BY <1>0, <1>1, TopTyped
<1>3. f \in OwnFrames /\ f.pc = "quit_wait"
  BY <1>0, <1>1, <1>2, NextStepTyped
  DEF Pcs, CarryingPcs, OpenPcs, OpenPrivatePcs, ClosePcs, OtherPcs, OwnFrames, Frames
<1>4. Tail(stack["main"]) = << >>
  <2>1. stack["main"] \in Seq(OwnFrames) /\ Len(stack["main"]) \in Nat \ {0}
    BY <1>0, <1>1, EmptySeq DEF StackInv
  <2>2. ~(1 < Len(stack["main"]))
    BY <1>0, <1>1, <1>2, <2>1 DEF StackInv, QuitsLast, QuitPcs
  <2>3. Len(stack["main"]) = 1
    <3>1. \A n \in Nat \ {0} : ~(1 < n) => n = 1
      OBVIOUS
    <3> QED
      BY <2>1, <2>2, <3>1
  <2>4. /\ Len(Tail(stack["main"])) = Len(stack["main"]) - 1
        /\ Tail(stack["main"]) \in Seq(OwnFrames)
    BY <1>1, <2>1, HeadTailProperties
  <2>5. Len(Tail(stack["main"])) = 0
    BY <2>3, <2>4
  <2> QED
    BY <2>4, <2>5, EmptySeq
<1>5. stack' = [stack EXCEPT !["main"] = Push(f, Tail(stack["main"]))]
  BY <1>1 DEF Goto, Becomes, Push
<1> HIDE DEF f
<1>6. Push(f, << >>) \in Seq(OwnFrames) /\ QuitsLast(Push(f, << >>))
  <2>1. << >> \in Seq(OwnFrames) /\ QuitsLast(<< >>)
    BY DEF QuitsLast
  <2> QED
    BY <1>3, <2>1, PushProperties, PushQuits
<1>7. StackInv'
  BY <1>0, <1>4, <1>5, <1>6 DEF StackInv, Threads
<1>8. [msg |-> "TM_EXIT", omd |-> None] \in Requests
  BY DEF Requests
<1>9. messages' \in Seq(Requests)
  BY <1>0, <1>8 DEF MainDestroys
<1> QED
  BY <1>0, <1>7, <1>9 DEF MainDestroys, TypeInv, Values, flags, events, data

LEMMA ExitsTyped == ASSUME TypeInv, MainExits PROVE TypeInv'
<1>0. StackInv /\ Values /\ messages \in Seq(Requests) /\ "main" \in Threads
  BY DEF TypeInv, Threads
<1>1. stack["main"] # << >> /\ Top("main").pc = "quit_wait"
  BY DEF MainExits, At, Top
<1>2. Frame("exited", None) \in OwnFrames /\ Frame("exited", None).pc = "exited"
  BY FramesTyped DEF Pcs, CarryingPcs, OpenPcs, OpenPrivatePcs, ClosePcs, OtherPcs
<1>3. ASSUME At("graph", "exited") PROVE TypeInv'
  <2>1. Goto("main", "exited") /\ UNCHANGED <<messages, lost>>
    BY <1>3 DEF MainExits
  <2>2. StackInv'
    BY <1>0, <1>1, <2>1, GoneTo
    DEF Pcs, QuitPcs, CarryingPcs, OpenPcs, OpenPrivatePcs, ClosePcs, OtherPcs
  <2> QED
    BY <1>0, <2>1, <2>2 DEF MainExits, TypeInv, Values, flags, events
<1>4. ASSUME ~At("graph", "exited") PROVE TypeInv'
  <2>1. /\ lost' = lost \union Held(stack["graph"]) \union Held(messages)
        /\ messages' = << >>
        /\ stack' = [stack EXCEPT !["graph"] = << Frame("exited", None) >>,
                                  !["main"] = << Frame("exited", None) >>]
    BY <1>4 DEF MainExits, Terminate
  <2>2. lost' \subseteq Media
    BY <1>0, <2>1, HeldTyped DEF StackInv, Values, Threads
  <2>3. /\ << Frame("exited", None) >> \in Seq(OwnFrames)
        /\ QuitsLast(<< Frame("exited", None) >>)
    BY <1>2 DEF QuitsLast, QuitPcs
  <2>4. StackInv'
    BY <1>0, <2>1, <2>3 DEF StackInv, Threads
  <2> QED
    BY <1>0, <2>1, <2>2, <2>4 DEF MainExits, TypeInv, Values, flags, events
<1> QED
  BY <1>3, <1>4

LEMMA MainTyped ==
    ASSUME TypeInv,
           \/ MainHandlesResult \/ MainCallReturns \/ MainCommand \/ SentCommand
           \/ MainCalls \/ MainQuits
    PROVE  TypeInv'
<1> USE FramesTyped
    DEF Pcs, QuitPcs, CarryingPcs, OpenPcs, OpenPrivatePcs, ClosePcs, OtherPcs
<1>0. StackInv /\ Values /\ messages \in Seq(Requests) /\ "main" \in Threads
  BY DEF TypeInv, Threads
<1>1. ASSUME MainHandlesResult PROVE TypeInv'
  <2>1. Head(window) \in Results /\ window' \in Seq(Results)
    BY <1>0, <1>1, HeadTailProperties DEF MainHandlesResult, Values
  <2> DEFINE f == Frame(IF Head(window).msg = "WM_POSTOPEN" THEN "post_open" ELSE "open_failed",
                        Head(window).omd)
  <2>2. f \in OwnFrames /\ f.pc \in {"post_open", "open_failed"}
    BY <2>1 DEF Results
  <2>3. Enter("main", << f >>)
    BY <1>1 DEF MainHandlesResult
  <2> HIDE DEF f
  <2>4. StackInv'
    BY <1>0, <2>2, <2>3, Entered
  <2> QED
    BY <1>0, <1>1, <2>1, <2>4 DEF MainHandlesResult, TypeInv, Values, flags, events, data
<1>2. ASSUME MainCallReturns PROVE TypeInv'
  <2>1. stack["main"] # << >>
    BY <1>2 DEF MainCallReturns, At
  <2>2. StackInv'
    BY <1>0, <1>2, <2>1, Returned DEF MainCallReturns
  <2> QED
    BY <1>0, <1>2, <2>2 DEF MainCallReturns, TypeInv, Values, flags, events, data
<1>3. ASSUME MainCommand PROVE TypeInv'
  <2>1. StackInv' /\ nextOMD' \in 1..(MaxOpens + 1)
    BY <1>3, StartTyped DEF MainCommand
  <2> QED
    BY <1>0, <1>3, <2>1 DEF MainCommand, TypeInv, Values, flags, events
<1>4. ASSUME SentCommand PROVE TypeInv'
  <2>1. StackInv' /\ nextOMD' \in 1..(MaxOpens + 1)
    BY <1>4, StartTyped DEF SentCommand
  <2>2. sent' \in 0..MaxSent
    BY <1>0, <1>4, MediaLoaderAssumption DEF SentCommand, Values
  <2> QED
    BY <1>0, <1>4, <2>1, <2>2 DEF SentCommand, TypeInv, Values, flags, events
<1>5. ASSUME MainCalls PROVE TypeInv'
  <2>1. Frame("call_wait", None) \in OwnFrames /\ Frame("call_wait", None).pc = "call_wait"
    OBVIOUS
  <2>2. StackInv'
    BY <1>0, <1>5, <2>1, Entered DEF MainCalls
  <2>3. [msg |-> "TM_CALL", omd |-> None] \in Requests
    BY DEF Requests
  <2>4. messages' \in Seq(Requests)
    BY <1>0, <1>5, <2>3 DEF MainCalls
  <2> QED
    BY <1>0, <1>5, <2>2, <2>4 DEF MainCalls, TypeInv, Values, flags, events, data
<1>6. ASSUME MainQuits PROVE TypeInv'
  <2>1. /\ stack["main"] = << >>
        /\ \/ Enter("main", << Frame("close_enter", None), Frame("quit_destroy", None) >>)
           \/ Enter("main", << Frame("quit_destroy", None) >>)
    BY <1>6 DEF MainQuits, Idle
  <2>2. /\ Frame("close_enter", None) \in OwnFrames
        /\ Frame("close_enter", None).pc = "close_enter"
        /\ Frame("quit_destroy", None) \in OwnFrames
    OBVIOUS
  <2>3. StackInv'
    BY <1>0, <2>1, <2>2, Entered, EnteredByTwo
  <2> QED
    BY <1>0, <1>6, <2>3 DEF MainQuits, TypeInv, Values, flags, events, data
<1> QED
  BY <1>1, <1>2, <1>3, <1>4, <1>5, <1>6

LEMMA InitTyped == Init => TypeInv
<1> SUFFICES ASSUME Init PROVE TypeInv
  OBVIOUS
<1>1. << >> \in Seq(OwnFrames) /\ << >> \in Seq(Requests) /\ << >> \in Seq(Results)
      /\ QuitsLast(<< >>)
  BY DEF QuitsLast
<1>2. stack = [t \in Threads |-> << >>]
  BY DEF Init
<1>3. StackInv
  BY <1>1, <1>2 DEF StackInv, Threads
<1>4. nextOMD \in 1..(MaxOpens + 1) /\ sent \in 0..MaxSent
  BY MediaLoaderAssumption DEF Init
<1>5. Values
  BY <1>1, <1>4 DEF Init, Values, LoadStates
<1> QED
  BY <1>1, <1>3, <1>5 DEF Init, TypeInv

LEMMA TypePreserved == ASSUME TypeInv, [Next]_vars PROVE TypeInv'
<1>1. CASE Step("main") \/ Step("graph")
  BY <1>1, OpenTyped, PrivateTyped, HandlersTyped, CloseTyped DEF Step, Threads
<1>2. CASE \E t \in Threads : PrivateRenders(t)
  BY <1>2, PrivateTyped
<1>3. CASE GraphTakes \/ GraphSignals
  BY <1>3, GraphTyped
<1>4. CASE \/ MainHandlesResult \/ MainCallReturns \/ MainCommand \/ SentCommand
           \/ MainCalls \/ MainQuits
  BY <1>4, MainTyped
<1>5. CASE MainDestroys
  BY <1>5, DestroysTyped
<1>6. CASE MainExits
  BY <1>6, ExitsTyped
<1>7. CASE UNCHANGED vars
  BY <1>7 DEF vars, TypeInv, StackInv, Values, QuitsLast
<1> QED
  BY <1>1, <1>2, <1>3, <1>4, <1>5, <1>6, <1>7 DEF Next, Main, Graph

\* Every variable holds a value of its kind: the frames of either thread point to an
\* OpenMediaData where OpenMedia, OpenMediaPrivate and the handlers own one, and a posted
\* result always carries one.
THEOREM MediaTyped == Spec => []TypeOK
<1>1. TypeInv /\ [Next]_vars => TypeInv'
  BY TypePreserved
<1> QED
  BY InitTyped, <1>1, TypeInvImpliesTypeOK, PTL DEF Spec

-----------------------------------------------------------------------------
(* Ownership. *)

\* No two places of a sequence point to the same OpenMediaData.
Once(s) == \A i, j \in 1..Len(s) : s[i].omd # None /\ s[i].omd = s[j].omd => i = j

LEMMA HeldByElement ==
    ASSUME NEW S, NEW s \in Seq(S)
    PROVE  \A x : x \in Held(s) <=> x # None /\ \E i \in 1..Len(s) : s[i].omd = x
  BY LenProperties DEF Held

LEMMA HeldPush ==
    ASSUME NEW S, NEW f \in S, NEW s \in Seq(S)
    PROVE  /\ Held(Push(f, s)) = Held(s) \union ({f.omd} \ {None})
           /\ Once(s) /\ f.omd \notin Held(s) => Once(Push(f, s))
<1> DEFINE r == Push(f, s)
<1>1. /\ r \in Seq(S) /\ Len(r) = Len(s) + 1 /\ r[1] = f
      /\ \A i \in 1..Len(s) : r[i + 1] = s[i]
  BY PushProperties
<1>2. Len(s) \in Nat
  BY LenProperties
<1> HIDE DEF r
<1>3. \A i \in 1..Len(r) : i # 1 => i - 1 \in 1..Len(s) /\ r[i] = s[i - 1]
  <2>1. ASSUME NEW i \in 1..Len(r), i # 1 PROVE i - 1 \in 1..Len(s) /\ r[i] = s[i - 1]
    <3>1. i - 1 \in 1..Len(s) /\ (i - 1) + 1 = i
      BY <1>1, <1>2, <2>1
    <3>2. r[(i - 1) + 1] = s[i - 1]
      BY <1>1, <3>1
    <3> QED
      BY <3>1, <3>2
  <2> QED
    BY <2>1
<1>4. 1 \in 1..Len(r) /\ \A i \in 1..Len(s) : i + 1 \in 1..Len(r)
  BY <1>1, <1>2
<1>5. ASSUME NEW x PROVE x \in Held(r) <=> x \in Held(s) \union ({f.omd} \ {None})
  <2>1. x \in Held(r) <=> x # None /\ \E i \in 1..Len(r) : r[i].omd = x
    BY <1>1, HeldByElement
  <2>2. x \in Held(s) <=> x # None /\ \E i \in 1..Len(s) : s[i].omd = x
    BY HeldByElement
  <2>3. ASSUME NEW i \in 1..Len(r), r[i].omd = x PROVE x = f.omd \/ \E j \in 1..Len(s) : s[j].omd = x
    BY <1>1, <1>3, <2>3
  <2>4. ASSUME NEW j \in 1..Len(s), s[j].omd = x PROVE \E i \in 1..Len(r) : r[i].omd = x
    BY <1>1, <1>4, <2>4
  <2>5. x = f.omd => \E i \in 1..Len(r) : r[i].omd = x
    BY <1>1, <1>4
  <2> QED
    BY <2>1, <2>2, <2>3, <2>4, <2>5
<1>6. ASSUME Once(s), f.omd \notin Held(s) PROVE Once(r)
  <2>1. ASSUME NEW i \in 1..Len(r), NEW j \in 1..Len(r), r[i].omd # None, r[i].omd = r[j].omd
        PROVE  i = j
    <3>1. \A k \in 1..Len(s) : s[k].omd # None => s[k].omd # f.omd
      BY <1>6, HeldByElement
    <3>2. CASE i = 1 \/ j = 1
      BY <1>1, <1>3, <2>1, <3>1, <3>2
    <3>3. CASE i # 1 /\ j # 1
      <4>1. i - 1 \in 1..Len(s) /\ j - 1 \in 1..Len(s) /\ r[i] = s[i - 1] /\ r[j] = s[j - 1]
        BY <1>3, <3>3
      <4>2. i - 1 = j - 1
        BY <1>6, <2>1, <4>1 DEF Once
      <4> QED
        BY <4>2
    <3> QED
      BY <3>2, <3>3
  <2> QED
    BY <2>1 DEF Once
<1>7. Held(r) = Held(s) \union ({f.omd} \ {None})
  BY <1>5
<1> QED
  BY <1>6, <1>7 DEF r

LEMMA HeldTail ==
    ASSUME NEW S, NEW s \in Seq(S), s # << >>, Once(s)
    PROVE  /\ Held(s) = Held(Tail(s)) \union ({s[1].omd} \ {None})
           /\ s[1].omd \notin Held(Tail(s))
           /\ Once(Tail(s))
<1>1. /\ Len(s) \in Nat \ {0} /\ Tail(s) \in Seq(S) /\ Len(Tail(s)) = Len(s) - 1
      /\ \A i \in 1..(Len(s) - 1) : Tail(s)[i] = s[i + 1]
  BY TailProperties
<1>2. \A i \in 1..Len(s) : i # 1 => i - 1 \in 1..Len(Tail(s)) /\ s[i] = Tail(s)[i - 1]
  <2>1. ASSUME NEW i \in 1..Len(s), i # 1
        PROVE  i - 1 \in 1..Len(Tail(s)) /\ s[i] = Tail(s)[i - 1]
    <3>1. i - 1 \in 1..(Len(s) - 1) /\ (i - 1) + 1 = i
      BY <1>1, <2>1
    <3>2. Tail(s)[i - 1] = s[(i - 1) + 1]
      BY <1>1, <3>1
    <3> QED
      BY <1>1, <3>1, <3>2
  <2> QED
    BY <2>1
<1>3. /\ 1 \in 1..Len(s)
      /\ \A i \in 1..Len(Tail(s)) : i + 1 \in 1..Len(s) /\ i + 1 # 1 /\ Tail(s)[i] = s[i + 1]
  BY <1>1
<1>4. Held(s) = Held(Tail(s)) \union ({s[1].omd} \ {None})
  <2>1. ASSUME NEW x PROVE x \in Held(s) <=> x \in Held(Tail(s)) \union ({s[1].omd} \ {None})
    <3>1. x \in Held(s) <=> x # None /\ \E i \in 1..Len(s) : s[i].omd = x
      BY HeldByElement
    <3>2. x \in Held(Tail(s)) <=> x # None /\ \E i \in 1..Len(Tail(s)) : Tail(s)[i].omd = x
      BY <1>1, HeldByElement
    <3>3. ASSUME NEW i \in 1..Len(s), s[i].omd = x
          PROVE  x = s[1].omd \/ \E j \in 1..Len(Tail(s)) : Tail(s)[j].omd = x
      BY <1>2, <3>3
    <3>4. ASSUME NEW j \in 1..Len(Tail(s)), Tail(s)[j].omd = x
          PROVE  \E i \in 1..Len(s) : s[i].omd = x
      BY <1>3, <3>4
    <3> QED
      BY <1>3, <3>1, <3>2, <3>3, <3>4
  <2> QED
    BY <2>1
<1>5. s[1].omd \notin Held(Tail(s))
  <2>1. SUFFICES ASSUME s[1].omd \in Held(Tail(s)) PROVE FALSE
    OBVIOUS
  <2>2. PICK i \in 1..Len(Tail(s)) : Tail(s)[i].omd = s[1].omd /\ s[1].omd # None
    BY <1>1, <2>1, HeldByElement
  <2>3. s[i + 1].omd = s[1].omd /\ i + 1 \in 1..Len(s) /\ i + 1 # 1
    BY <1>3, <2>2
  <2> QED
    BY <1>3, <2>2, <2>3 DEF Once
<1>6. Once(Tail(s))
  <2>1. ASSUME NEW i \in 1..Len(Tail(s)), NEW j \in 1..Len(Tail(s)),
               Tail(s)[i].omd # None, Tail(s)[i].omd = Tail(s)[j].omd
        PROVE  i = j
    <3>1. i + 1 \in 1..Len(s) /\ j + 1 \in 1..Len(s) /\ s[i + 1].omd # None /\ s[i + 1].omd = s[j + 1].omd
      BY <1>3, <2>1
    <3>2. i + 1 = j + 1
      BY <3>1 DEF Once
    <3> QED
      BY <1>1, <3>2
  <2> QED
    BY <2>1 DEF Once
<1> QED
  BY <1>4, <1>5, <1>6

LEMMA HeldAppend ==
    ASSUME NEW S, NEW m \in S, NEW s \in Seq(S)
    PROVE  /\ Held(Append(s, m)) = Held(s) \union ({m.omd} \ {None})
           /\ Once(s) /\ m.omd \notin Held(s) => Once(Append(s, m))
<1> DEFINE r == Append(s, m)
<1>1. /\ r \in Seq(S) /\ Len(r) = Len(s) + 1 /\ r[Len(s) + 1] = m
      /\ \A i \in 1..Len(s) : r[i] = s[i]
  BY AppendProperties
<1>2. Len(s) \in Nat
  BY LenProperties
<1> HIDE DEF r
<1>3. \A i \in 1..Len(r) : i # Len(s) + 1 => i \in 1..Len(s) /\ r[i] = s[i]
  BY <1>1, <1>2
<1>4. Len(s) + 1 \in 1..Len(r) /\ \A i \in 1..Len(s) : i \in 1..Len(r)
  BY <1>1, <1>2
<1>5. ASSUME NEW x PROVE x \in Held(r) <=> x \in Held(s) \union ({m.omd} \ {None})
  <2>1. x \in Held(r) <=> x # None /\ \E i \in 1..Len(r) : r[i].omd = x
    BY <1>1, HeldByElement
  <2>2. x \in Held(s) <=> x # None /\ \E i \in 1..Len(s) : s[i].omd = x
    BY HeldByElement
  <2>3. ASSUME NEW i \in 1..Len(r), r[i].omd = x PROVE x = m.omd \/ \E j \in 1..Len(s) : s[j].omd = x
    BY <1>1, <1>3, <2>3
  <2>4. ASSUME NEW j \in 1..Len(s), s[j].omd = x PROVE \E i \in 1..Len(r) : r[i].omd = x
    BY <1>1, <1>4, <2>4
  <2>5. x = m.omd => \E i \in 1..Len(r) : r[i].omd = x
    BY <1>1, <1>4
  <2> QED
    BY <2>1, <2>2, <2>3, <2>4, <2>5
<1>6. ASSUME Once(s), m.omd \notin Held(s) PROVE Once(r)
  <2>1. \A k \in 1..Len(s) : s[k].omd # None => s[k].omd # m.omd
    BY <1>6, HeldByElement
  <2> QED
    BY <1>1, <1>3, <1>6, <2>1 DEF Once
<1>7. Held(r) = Held(s) \union ({m.omd} \ {None})
  BY <1>5
<1> QED
  BY <1>6, <1>7 DEF r

LEMMA HeldRemoveAt ==
    ASSUME NEW S, NEW s \in Seq(S), NEW k \in 1..Len(s), Once(s)
    PROVE  /\ Held(s) = Held(RemoveAt(s, k)) \union ({s[k].omd} \ {None})
           /\ s[k].omd \notin Held(RemoveAt(s, k))
           /\ Once(RemoveAt(s, k))
<1> DEFINE r == RemoveAt(s, k)
           from(i) == IF i < k THEN i ELSE i + 1
           to(i) == IF i < k THEN i ELSE i - 1
<1>1. /\ r \in Seq(S) /\ Len(r) = Len(s) - 1
      /\ \A i \in 1..(Len(s) - 1) : r[i] = IF i < k THEN s[i] ELSE s[i + 1]
  BY RemoveAtProperties
<1>2. Len(s) \in Nat
  BY LenProperties
<1> HIDE DEF r
<1>3. \A i \in 1..Len(r) : from(i) \in 1..Len(s) /\ from(i) # k /\ r[i] = s[from(i)]
  BY <1>1, <1>2
<1>4. \A i \in 1..Len(s) : i # k => to(i) \in 1..Len(r) /\ from(to(i)) = i
  BY <1>1, <1>2
<1>5. \A i, j \in 1..Len(r) : from(i) = from(j) => i = j
  BY <1>1, <1>2
<1> HIDE DEF from, to
<1>6. ASSUME NEW x PROVE x \in Held(s) <=> x \in Held(r) \union ({s[k].omd} \ {None})
  <2>1. x \in Held(s) <=> x # None /\ \E i \in 1..Len(s) : s[i].omd = x
    BY HeldByElement
  <2>2. x \in Held(r) <=> x # None /\ \E i \in 1..Len(r) : r[i].omd = x
    BY <1>1, HeldByElement
  <2>3. ASSUME NEW i \in 1..Len(s), s[i].omd = x PROVE x = s[k].omd \/ \E j \in 1..Len(r) : r[j].omd = x
    BY <1>3, <1>4, <2>3
  <2>4. ASSUME NEW j \in 1..Len(r), r[j].omd = x PROVE \E i \in 1..Len(s) : s[i].omd = x
    BY <1>3, <2>4
  <2> QED
    BY <2>1, <2>2, <2>3, <2>4
<1>7. s[k].omd \notin Held(r)
  <2>1. SUFFICES ASSUME s[k].omd \in Held(r) PROVE FALSE
    OBVIOUS
  <2>2. PICK i \in 1..Len(r) : r[i].omd = s[k].omd /\ s[k].omd # None
    BY <1>1, <2>1, HeldByElement
  <2> QED
    BY <1>3, <2>2 DEF Once
<1>8. Once(r)
  BY <1>3, <1>5 DEF Once
<1>9. Held(s) = Held(r) \union ({s[k].omd} \ {None})
  BY <1>6
<1> QED
  BY <1>7, <1>8, <1>9 DEF r

OnceEach ==
    /\ \A t \in Threads : Once(stack[t])
    /\ Once(messages)
    /\ Once(window)

InMain == Held(stack["main"])
InGraph == Held(stack["graph"])
Queued == Held(messages)
Posted == Held(window)
Remembered == {lastOMD} \ {None}

\* The places where an OpenMediaData can be share nothing and hold all that were created.
Partition ==
    /\ InMain \union InGraph \union Queued \union Posted \union Remembered \union freed \union lost
           = 1..(nextOMD - 1)
    /\ InMain \intersect (InGraph \union Queued \union Posted \union Remembered \union freed \union lost) = {}
    /\ InGraph \intersect (Queued \union Posted \union Remembered \union freed \union lost) = {}
    /\ Queued \intersect (Posted \union Remembered \union freed \union lost) = {}
    /\ Posted \intersect (Remembered \union freed \union lost) = {}
    /\ Remembered \intersect (freed \union lost) = {}
    /\ freed \intersect lost = {}

Own == TypeInv /\ OnceEach /\ Partition

LEMMA HeldPushFrame ==
    \A f \in OwnFrames : \A s \in Seq(OwnFrames) :
        /\ Push(f, s) \in Seq(OwnFrames)
        /\ Held(Push(f, s)) = Held(s) \union ({f.omd} \ {None})
        /\ Once(s) /\ f.omd \notin Held(s) => Once(Push(f, s))
  BY HeldPush, PushProperties

LEMMA NoneNotHeld == \A s : None \notin Held(s)
  BY DEF Held

\* How a step of one thread changes what its stack holds.
LEMMA HeldReturned ==
    ASSUME StackInv, NEW t \in Threads, stack[t] # << >>, Once(stack[t]), Return(t)
    PROVE  /\ Held(stack[t]) = Held(stack'[t]) \union ({Top(t).omd} \ {None})
           /\ Top(t).omd \notin Held(stack'[t])
           /\ Once(stack'[t])
           /\ \A u \in Threads : u # t => stack'[u] = stack[u]
<1>1. stack' = [stack EXCEPT ![t] = Tail(stack[t])]
  BY Returned
<1>2. stack'[t] = Tail(stack[t]) /\ \A u \in Threads : u # t => stack'[u] = stack[u]
  BY <1>1 DEF StackInv
<1>3. Top(t) = stack[t][1] /\ stack[t] \in Seq(OwnFrames)
  BY TopTyped DEF StackInv
<1> QED
  BY <1>2, <1>3, HeldTail

LEMMA HeldReplaced ==
    ASSUME StackInv, NEW t \in Threads, stack[t] # << >>, Once(stack[t]), NEW f \in OwnFrames,
           f.omd \notin Held(stack[t]) \/ f.omd = Top(t).omd, Becomes(t, << f >>)
    PROVE  /\ Held(stack[t]) \union ({f.omd} \ {None}) = Held(stack'[t]) \union ({Top(t).omd} \ {None})
           /\ Top(t).omd \notin Held(stack'[t]) \/ Top(t).omd = f.omd
           /\ Once(stack'[t])
           /\ \A u \in Threads : u # t => stack'[u] = stack[u]
<1>1. /\ stack[t] \in Seq(OwnFrames) /\ Top(t) = stack[t][1]
      /\ Tail(stack[t]) \in Seq(OwnFrames)
  BY TopTyped DEF StackInv
<1>2. stack' = [stack EXCEPT ![t] = Push(f, Tail(stack[t]))]
  BY DEF Push, Becomes
<1>3. /\ stack'[t] = Push(f, Tail(stack[t]))
      /\ \A u \in Threads : u # t => stack'[u] = stack[u]
  BY <1>2 DEF StackInv
<1>4. /\ Held(stack[t]) = Held(Tail(stack[t])) \union ({Top(t).omd} \ {None})
      /\ Top(t).omd \notin Held(Tail(stack[t]))
      /\ Once(Tail(stack[t]))
  BY <1>1, HeldTail
<1>5. f.omd \notin Held(Tail(stack[t]))
  BY <1>4
<1>6. /\ Held(stack'[t]) = Held(Tail(stack[t])) \union ({f.omd} \ {None})
      /\ Once(stack'[t])
  BY <1>1, <1>3, <1>4, <1>5, HeldPushFrame
<1>7. Held(stack[t]) \union ({f.omd} \ {None}) = Held(stack'[t]) \union ({Top(t).omd} \ {None})
  BY <1>4, <1>6
<1>8. Top(t).omd \notin Held(stack'[t]) \/ Top(t).omd = f.omd
  BY <1>4, <1>6
<1> QED
  BY <1>3, <1>6, <1>7, <1>8

LEMMA HeldReplacedByTwo ==
    ASSUME StackInv, NEW t \in Threads, stack[t] # << >>, Once(stack[t]),
           NEW f \in OwnFrames, NEW g \in OwnFrames, g.omd = None \/ f.omd = None,
           g.omd \in {None, Top(t).omd}, f.omd \in {None, Top(t).omd},
           Becomes(t, << f, g >>)
    PROVE  /\ Held(stack[t]) = Held(stack'[t]) \union ({Top(t).omd} \ {None})
           /\ Top(t).omd \notin Held(stack'[t]) \/ Top(t).omd = f.omd \/ Top(t).omd = g.omd
           /\ Top(t).omd # None /\ (Top(t).omd = f.omd \/ Top(t).omd = g.omd)
                  => Held(stack'[t]) = Held(stack[t])
           /\ Once(stack'[t])
           /\ \A u \in Threads : u # t => stack'[u] = stack[u]
<1>1. /\ stack[t] \in Seq(OwnFrames) /\ Top(t) = stack[t][1]
      /\ Tail(stack[t]) \in Seq(OwnFrames)
  BY TopTyped DEF StackInv
<1> DEFINE rest == Tail(stack[t])
<1>2. << f, g >> \o rest = Push(f, Push(g, rest))
  <2> HIDE DEF rest
  <2>1. rest \in Seq(OwnFrames)
    BY <1>1 DEF rest
  <2> QED
    BY <2>1, PushTwo
<1>3. stack' = [stack EXCEPT ![t] = Push(f, Push(g, rest))]
  BY <1>2 DEF Becomes
<1>4. /\ stack'[t] = Push(f, Push(g, rest))
      /\ \A u \in Threads : u # t => stack'[u] = stack[u]
  BY <1>3 DEF StackInv
<1>5. /\ Held(stack[t]) = Held(rest) \union ({Top(t).omd} \ {None})
      /\ Top(t).omd \notin Held(rest)
      /\ Once(rest) /\ rest \in Seq(OwnFrames)
  BY <1>1, HeldTail
<1> HIDE DEF rest
<1>6. None \notin Held(rest)
  BY NoneNotHeld
<1>7. /\ Push(g, rest) \in Seq(OwnFrames)
      /\ Held(Push(g, rest)) = Held(rest) \union ({g.omd} \ {None})
      /\ Once(Push(g, rest))
  BY <1>5, <1>6, HeldPushFrame
<1>8. None \notin Held(Push(g, rest)) /\ f.omd \notin Held(Push(g, rest))
  BY <1>5, <1>6, <1>7
<1>9. /\ Held(stack'[t]) = Held(Push(g, rest)) \union ({f.omd} \ {None})
      /\ Once(stack'[t])
  BY <1>4, <1>7, <1>8, HeldPushFrame
<1>10. /\ Held(stack[t]) = Held(stack'[t]) \union ({Top(t).omd} \ {None})
       /\ Top(t).omd \notin Held(stack'[t]) \/ Top(t).omd = f.omd \/ Top(t).omd = g.omd
       /\ Top(t).omd # None /\ (Top(t).omd = f.omd \/ Top(t).omd = g.omd)
              => Held(stack'[t]) = Held(stack[t])
  BY <1>5, <1>7, <1>9
<1> QED
  BY <1>4, <1>9, <1>10

\* A step within a procedure, or a call of one that points to nothing, changes nothing.
LEMMA HeldGoneTo ==
    ASSUME StackInv, NEW t \in Threads, stack[t] # << >>, Once(stack[t]), NEW pc \in Pcs,
           pc \in CarryingPcs <=> Top(t).pc \in CarryingPcs, Goto(t, pc)
    PROVE  /\ Held(stack'[t]) = Held(stack[t])
           /\ Once(stack'[t])
           /\ \A u \in Threads : u # t => stack'[u] = stack[u]
<1> DEFINE f == [Top(t) EXCEPT !.pc = pc]
<1>1. f \in OwnFrames /\ Top(t) \in OwnFrames
  BY NextStepTyped, TopTyped
<1>2. f.omd = Top(t).omd
  BY <1>1 DEF OwnFrames, Frames
<1>3. Becomes(t, << f >>)
  BY DEF Goto
<1> HIDE DEF f
<1>4. Top(t) = stack[t][1] /\ stack[t] \in Seq(OwnFrames)
  BY TopTyped DEF StackInv
<1>5. Top(t).omd # None => Top(t).omd \in Held(stack[t])
  BY <1>4, HeldTail
<1>6. stack' = [stack EXCEPT ![t] = Push(f, Tail(stack[t]))]
  BY <1>3 DEF Push, Becomes
<1>7. stack'[t] = Push(f, Tail(stack[t]))
  BY <1>6 DEF StackInv
<1>8. f.omd # None => f.omd \in Held(stack'[t])
  <2> DEFINE s == Tail(stack[t])
  <2>1. s \in Seq(OwnFrames)
    BY <1>4, HeadTailProperties
  <2>2. stack'[t] = Push(f, s)
    BY <1>7
  <2> HIDE DEF s
  <2>3. Held(Push(f, s)) = Held(s) \union ({f.omd} \ {None})
    BY <1>1, <2>1, HeldPushFrame
  <2> QED
    BY <2>2, <2>3
<1>9. /\ Held(stack[t]) \union ({f.omd} \ {None}) = Held(stack'[t]) \union ({Top(t).omd} \ {None})
      /\ Once(stack'[t])
      /\ \A u \in Threads : u # t => stack'[u] = stack[u]
  BY <1>1, <1>2, <1>3, HeldReplaced
<1>10. None \notin Held(stack[t]) /\ None \notin Held(stack'[t])
  BY NoneNotHeld
<1>11. Held(stack'[t]) = Held(stack[t])
  <2>1. Held(stack[t]) \union ({f.omd} \ {None}) = Held(stack[t])
    BY <1>2, <1>5
  <2>2. Held(stack'[t]) \union ({Top(t).omd} \ {None}) = Held(stack'[t])
    BY <1>2, <1>8
  <2> QED
    BY <1>9, <2>1, <2>2
<1> QED
  BY <1>9, <1>11

LEMMA HeldCalled ==
    ASSUME StackInv, NEW t \in Threads, stack[t] # << >>, Once(stack[t]), NEW pc \in Pcs,
           pc \in CarryingPcs <=> Top(t).pc \in CarryingPcs,
           NEW f \in OwnFrames, f.omd = None, Call(t, f, pc)
    PROVE  /\ Held(stack'[t]) = Held(stack[t])
           /\ Once(stack'[t])
           /\ \A u \in Threads : u # t => stack'[u] = stack[u]
<1> DEFINE g == [Top(t) EXCEPT !.pc = pc]
<1>1. g \in OwnFrames /\ Top(t) \in OwnFrames
  BY NextStepTyped, TopTyped
<1>2. g.omd = Top(t).omd
  BY <1>1 DEF OwnFrames, Frames
<1>3. Becomes(t, << f, g >>)
  BY DEF Call
<1> HIDE DEF g
<1>4. /\ Held(stack[t]) = Held(stack'[t]) \union ({Top(t).omd} \ {None})
      /\ Top(t).omd # None => Held(stack'[t]) = Held(stack[t])
      /\ Once(stack'[t])
      /\ \A u \in Threads : u # t => stack'[u] = stack[u]
  BY <1>1, <1>2, <1>3, HeldReplacedByTwo
<1> QED
  BY <1>4

LEMMA HeldEntered ==
    ASSUME StackInv, NEW t \in Threads, Once(stack[t]), NEW f \in OwnFrames,
           f.omd \notin Held(stack[t]), Enter(t, << f >>)
    PROVE  /\ Held(stack'[t]) = Held(stack[t]) \union ({f.omd} \ {None})
           /\ Once(stack'[t])
           /\ \A u \in Threads : u # t => stack'[u] = stack[u]
<1>1. stack[t] \in Seq(OwnFrames)
  BY DEF StackInv
<1>2. stack' = [stack EXCEPT ![t] = Push(f, stack[t])]
  BY DEF Push, Enter
<1>3. stack'[t] = Push(f, stack[t]) /\ \A u \in Threads : u # t => stack'[u] = stack[u]
  BY <1>2 DEF StackInv
<1> QED
  BY <1>1, <1>3, HeldPushFrame

LEMMA HeldEnteredByTwo ==
    ASSUME StackInv, NEW t \in Threads, Once(stack[t]), NEW f \in OwnFrames, NEW g \in OwnFrames,
           f.omd \notin Held(stack[t]), g.omd = None, Enter(t, << f, g >>)
    PROVE  /\ Held(stack'[t]) = Held(stack[t]) \union ({f.omd} \ {None})
           /\ Once(stack'[t])
           /\ \A u \in Threads : u # t => stack'[u] = stack[u]
<1> DEFINE s == stack[t]
<1>1. s \in Seq(OwnFrames) /\ s = stack[t]
  BY DEF StackInv
<1>2. stack' = [stack EXCEPT ![t] = << f, g >> \o s]
  BY DEF Enter
<1> HIDE DEF s
<1>3. << f, g >> \o s = Push(f, Push(g, s))
  BY <1>1, PushTwo
<1>4. /\ stack'[t] = Push(f, Push(g, s))
      /\ \A u \in Threads : u # t => stack'[u] = stack[u]
  BY <1>2, <1>3 DEF StackInv
<1>5. None \notin Held(s)
  BY NoneNotHeld
<1>6. Push(g, s) \in Seq(OwnFrames) /\ Held(Push(g, s)) = Held(s) /\ Once(Push(g, s))
  <2>1. g.omd = None /\ {g.omd} \ {None} = {}
    OBVIOUS
  <2>2. Once(s)
    BY <1>1
  <2> QED
    <3>1. Held(s) \union ({g.omd} \ {None}) = Held(s) /\ g.omd \notin Held(s)
      BY <1>5, <2>1
    <3>2. /\ Push(g, s) \in Seq(OwnFrames)
          /\ Held(Push(g, s)) = Held(s) \union ({g.omd} \ {None})
          /\ Once(s) /\ g.omd \notin Held(s) => Once(Push(g, s))
      BY <1>1, HeldPushFrame
    <3> QED
      BY <2>2, <3>1, <3>2
<1> QED
  BY <1>1, <1>4, <1>6, HeldPushFrame

\* A step that moves no OpenMediaData.
LEMMA StillOwned ==
    ASSUME Own,
           \A t \in Threads : Held(stack'[t]) = Held(stack[t]) /\ Once(stack'[t]),
           Held(messages') = Held(messages), Once(messages'),
           UNCHANGED <<window, lastOMD, freed, lost, nextOMD>>
    PROVE  OnceEach' /\ Partition'
<1>1. OnceEach'
  BY DEF Own, OnceEach
<1>2. /\ InMain' = InMain /\ InGraph' = InGraph /\ Queued' = Queued /\ Posted' = Posted
      /\ Remembered' = Remembered /\ freed' = freed /\ lost' = lost /\ nextOMD' = nextOMD
  BY DEF InMain, InGraph, Queued, Posted, Remembered, Threads
<1>3. Partition'
  BY <1>2 DEF Own, Partition
<1> QED
  BY <1>1, <1>3

\* A step in which a thread gives up what its top frame points to.
LEMMA GivenUp ==
    ASSUME Own, NEW t \in Threads, NEW omd \in Media,
           Held(stack[t]) = Held(stack'[t]) \union {omd},
           omd \notin Held(stack'[t]), Once(stack'[t]),
           \A u \in Threads : u # t => stack'[u] = stack[u],
           Once(messages'), Once(window'),
           UNCHANGED nextOMD,
           \/ /\ Held(messages') = Held(messages) \union {omd}
              /\ UNCHANGED <<window, lastOMD, freed, lost>>
           \/ /\ Held(window') = Held(window) \union {omd}
              /\ UNCHANGED <<messages, lastOMD, freed, lost>>
           \/ /\ freed' = freed \union {omd}
              /\ UNCHANGED <<messages, window, lastOMD, lost>>
           \/ /\ lost' = lost \union {omd}
              /\ UNCHANGED <<messages, window, lastOMD, freed>>
           \/ /\ lastOMD' = omd /\ freed' = freed \union ({lastOMD} \ {None})
              /\ UNCHANGED <<messages, window, lost>>
    PROVE  OnceEach' /\ Partition'
<1>1. OnceEach'
  BY DEF Own, OnceEach
<1>2. omd # None
  BY MediaLoaderAssumption DEF Media, None
<1>3. \/ t = "main" /\ InMain = InMain' \union {omd} /\ omd \notin InMain' /\ InGraph' = InGraph
      \/ t = "graph" /\ InGraph = InGraph' \union {omd} /\ omd \notin InGraph' /\ InMain' = InMain
  BY DEF InMain, InGraph, Threads
<1>4. \/ /\ Queued' = Queued \union {omd}
         /\ Posted' = Posted /\ Remembered' = Remembered /\ freed' = freed /\ lost' = lost
      \/ /\ Posted' = Posted \union {omd}
         /\ Queued' = Queued /\ Remembered' = Remembered /\ freed' = freed /\ lost' = lost
      \/ /\ freed' = freed \union {omd}
         /\ Queued' = Queued /\ Posted' = Posted /\ Remembered' = Remembered /\ lost' = lost
      \/ /\ lost' = lost \union {omd}
         /\ Queued' = Queued /\ Posted' = Posted /\ Remembered' = Remembered /\ freed' = freed
      \/ /\ Remembered' = {omd} /\ freed' = freed \union Remembered
         /\ Queued' = Queued /\ Posted' = Posted /\ lost' = lost
  BY <1>2 DEF Queued, Posted, Remembered
<1>5. Partition /\ nextOMD' = nextOMD
  BY DEF Own
<1>6. Partition'
  BY <1>3, <1>4, <1>5 DEF Partition
<1> QED
  BY <1>1, <1>6

\* A new OpenMediaData belongs to the frame that is put on a stack.
LEMMA NewIsUnheld ==
    ASSUME Own, NEW t \in Threads, nextOMD <= MaxOpens
    PROVE  /\ nextOMD \in Media
           /\ nextOMD \notin Held(stack[t])
           /\ nextOMD # None
<1>1. nextOMD \in Media /\ nextOMD \notin 1..(nextOMD - 1)
  BY MediaLoaderAssumption DEF Own, TypeInv, Values, Media
<1>2. Held(stack[t]) \subseteq 1..(nextOMD - 1)
  BY DEF Own, Partition, InMain, InGraph, Threads
<1> QED
  BY <1>1, <1>2, MediaLoaderAssumption DEF Media, None

LEMMA Created ==
    ASSUME Own, NEW t \in Threads, nextOMD <= MaxOpens, nextOMD' = nextOMD + 1,
           Held(stack'[t]) = Held(stack[t]) \union {nextOMD}, Once(stack'[t]),
           \A u \in Threads : u # t => stack'[u] = stack[u],
           UNCHANGED <<messages, window, lastOMD, freed, lost>>
    PROVE  OnceEach' /\ Partition'
<1>1. OnceEach'
  BY DEF Own, OnceEach
<1>2. /\ 1..(nextOMD' - 1) = 1..(nextOMD - 1) \union {nextOMD}
      /\ nextOMD \notin 1..(nextOMD - 1)
  BY MediaLoaderAssumption DEF Own, TypeInv, Values
<1>3. \/ InMain' = InMain \union {nextOMD} /\ InGraph' = InGraph
      \/ InGraph' = InGraph \union {nextOMD} /\ InMain' = InMain
  BY DEF InMain, InGraph, Threads
<1>4. Queued' = Queued /\ Posted' = Posted /\ Remembered' = Remembered /\ freed' = freed /\ lost' = lost
  BY DEF Queued, Posted, Remembered
<1>5. Partition
  BY DEF Own
<1>6. Partition'
  BY <1>2, <1>3, <1>4, <1>5 DEF Partition
<1> QED
  BY <1>1, <1>6

\* A thread that goes on within a procedure, calls one or returns from one that points to
\* nothing, and moves no OpenMediaData elsewhere.
LEMMA MovedOn ==
    ASSUME Own, NEW t \in Threads, stack[t] # << >>,
           \/ \E pc \in Pcs : (pc \in CarryingPcs <=> Top(t).pc \in CarryingPcs) /\ Goto(t, pc)
           \/ \E pc \in Pcs : /\ pc \in CarryingPcs <=> Top(t).pc \in CarryingPcs
                             /\ \E f \in OwnFrames : f.omd = None /\ Call(t, f, pc)
           \/ Return(t) /\ Top(t).pc \notin CarryingPcs,
           Held(messages') = Held(messages), Once(messages'),
           UNCHANGED <<window, lastOMD, freed, lost, nextOMD>>
    PROVE  OnceEach' /\ Partition'
<1>0. StackInv /\ \A u \in Threads : Once(stack[u])
  BY DEF Own, TypeInv, OnceEach
<1>1. /\ Held(stack'[t]) = Held(stack[t])
      /\ Once(stack'[t])
      /\ \A u \in Threads : u # t => stack'[u] = stack[u]
  <2>1. CASE \E pc \in Pcs : (pc \in CarryingPcs <=> Top(t).pc \in CarryingPcs) /\ Goto(t, pc)
    BY <1>0, <2>1, HeldGoneTo
  <2>2. CASE \E pc \in Pcs : /\ pc \in CarryingPcs <=> Top(t).pc \in CarryingPcs
                           /\ \E f \in OwnFrames : f.omd = None /\ Call(t, f, pc)
    BY <1>0, <2>2, HeldCalled
  <2>3. CASE Return(t) /\ Top(t).pc \notin CarryingPcs
    <3>1. Top(t).omd = None
      BY <1>0, <2>3, TopTyped DEF OwnFrames
    <3>2. /\ Held(stack[t]) = Held(stack'[t]) \union ({Top(t).omd} \ {None})
          /\ Once(stack'[t])
          /\ \A u \in Threads : u # t => stack'[u] = stack[u]
      BY <1>0, <2>3, HeldReturned
    <3> QED
      BY <3>1, <3>2
  <2> QED
    BY <2>1, <2>2, <2>3
<1>2. \A u \in Threads : Held(stack'[u]) = Held(stack[u]) /\ Once(stack'[u])
  BY <1>0, <1>1
<1> QED
  BY <1>2, StillOwned

\* A thread that returns from a procedure whose frame points to an OpenMediaData gives it up.
LEMMA ReturnGivesUp ==
    ASSUME Own, NEW t \in Threads, stack[t] # << >>, Top(t).pc \in CarryingPcs, Return(t)
    PROVE  /\ Top(t).omd \in Media /\ Top(t).omd # None
           /\ Held(stack[t]) = Held(stack'[t]) \union {Top(t).omd}
           /\ Top(t).omd \notin Held(stack'[t])
           /\ Once(stack'[t])
           /\ \A u \in Threads : u # t => stack'[u] = stack[u]
<1>0. StackInv /\ \A u \in Threads : Once(stack[u])
  BY DEF Own, TypeInv, OnceEach
<1>1. Top(t).omd \in Media
  BY <1>0, TopTyped DEF OwnFrames
<1>2. Top(t).omd # None
  BY <1>1, MediaLoaderAssumption DEF Media, None
<1> QED
  BY <1>0, <1>1, <1>2, HeldReturned

LEMMA OpenOwned == ASSUME Own, NEW t \in Threads, Open(t) PROVE OnceEach' /\ Partition'
<1> USE FramesTyped DEF Pcs, CarryingPcs, OpenPcs, OpenPrivatePcs, ClosePcs, OtherPcs
<1>0. StackInv /\ Once(messages) /\ Once(window) /\ Once(stack[t]) /\ messages \in Seq(Requests)
  BY DEF Own, TypeInv, OnceEach
<1>1. ASSUME OpenCloses(t) PROVE OnceEach' /\ Partition'
  <2>1. stack[t] # << >> /\ Top(t).pc = "open_wait"
    BY <1>1 DEF OpenCloses, At, Top
  <2>2. \/ Goto(t, "open_active")
        \/ Call(t, Frame("close_enter", None), "open_active")
    BY <1>1 DEF OpenCloses
  <2>3. UNCHANGED <<messages, window, lastOMD, freed, lost, nextOMD>>
    BY <1>1 DEF OpenCloses, data
  <2> QED
    BY <1>0, <2>1, <2>2, <2>3, MovedOn
<1>2. ASSUME OpenActivates(t) PROVE OnceEach' /\ Partition'
  <2>1. stack[t] # << >> /\ Top(t).pc = "open_active"
    BY <1>2 DEF OpenActivates, At, Top
  <2>2. Goto(t, "open_load") \/ Goto(t, "open_prompt")
    BY <1>2 DEF OpenActivates
  <2>3. UNCHANGED <<messages, window, lastOMD, freed, lost, nextOMD>>
    BY <1>2 DEF OpenActivates, data
  <2> QED
    BY <1>0, <2>1, <2>2, <2>3, MovedOn
<1>3. ASSUME OpenPromptAnswered(t) PROVE OnceEach' /\ Partition'
  <2>1. stack[t] # << >> /\ Top(t).pc = "open_prompt"
    BY <1>3 DEF OpenPromptAnswered, At, Top
  <2>2. UNCHANGED <<messages, window, lastOMD, lost, nextOMD>>
    BY <1>3 DEF OpenPromptAnswered
  <2>3. CASE Goto(t, "open_load") /\ UNCHANGED freed
    BY <1>0, <2>1, <2>2, <2>3, MovedOn
  <2>4. CASE Return(t) /\ Deleted({Top(t).omd})
    <3>1. /\ Top(t).omd \in Media /\ Top(t).omd # None
          /\ Held(stack[t]) = Held(stack'[t]) \union {Top(t).omd}
          /\ Top(t).omd \notin Held(stack'[t])
          /\ Once(stack'[t])
          /\ \A u \in Threads : u # t => stack'[u] = stack[u]
      BY <2>1, <2>4, ReturnGivesUp
    <3>2. freed' = freed \union {Top(t).omd}
      BY <2>4, <3>1 DEF Deleted
    <3> QED
      BY <1>0, <2>2, <3>1, <3>2, GivenUp
  <2> QED
    BY <1>3, <2>3, <2>4 DEF OpenPromptAnswered
<1>4. ASSUME OpenLoads(t) PROVE OnceEach' /\ Partition'
  <2>1. stack[t] # << >> /\ Top(t).pc = "open_load"
    BY <1>4 DEF OpenLoads, At, Top
  <2>2. Top(t).omd \in Media /\ Top(t).omd # None /\ Top(t) \in OwnFrames
    <3>1. Top(t) \in OwnFrames /\ Top(t).omd \in Media
      BY <1>0, <2>1, TopTyped DEF OwnFrames
    <3> QED
      BY <3>1, MediaLoaderAssumption DEF Media, None
  <2>3. UNCHANGED <<window, lastOMD, freed, lost, nextOMD>>
    BY <1>4 DEF OpenLoads, data
  <2>4. Top(t).omd \in Held(stack[t])
    <3>1. stack[t] \in Seq(OwnFrames) /\ Top(t) = stack[t][1]
      BY <1>0, <2>1, TopTyped DEF StackInv
    <3> QED
      BY <1>0, <2>1, <2>2, <3>1, HeldTail
  <2>5. CASE Top(t).omd \notin MainMedia
    <3> DEFINE m == [msg |-> "TM_OPEN", omd |-> Top(t).omd]
    <3>1. Becomes(t, << Frame("open_flag", None) >>) /\ messages' = Append(messages, m)
      BY <1>4, <2>5 DEF OpenLoads
    <3>2. Frame("open_flag", None) \in OwnFrames /\ Frame("open_flag", None).omd = None
      OBVIOUS
    <3>3. None \notin Held(stack[t]) /\ None \notin Held(stack'[t])
      BY NoneNotHeld
    <3>4. /\ Held(stack[t]) \union ({None} \ {None}) = Held(stack'[t]) \union ({Top(t).omd} \ {None})
          /\ Top(t).omd \notin Held(stack'[t])
          /\ Once(stack'[t])
          /\ \A u \in Threads : u # t => stack'[u] = stack[u]
      BY <1>0, <2>1, <2>2, <3>1, <3>2, <3>3, HeldReplaced
    <3>5. Held(stack[t]) = Held(stack'[t]) \union {Top(t).omd}
      BY <2>2, <3>4
    <3>6. m \in Requests /\ m.omd = Top(t).omd
      BY <2>2 DEF Requests
    <3>7. m.omd \notin Held(messages)
      BY <2>4, <3>6 DEF Own, Partition, InMain, InGraph, Queued, Threads
    <3> HIDE DEF m
    <3>8. /\ Held(messages') = Held(messages) \union ({m.omd} \ {None})
          /\ Once(messages')
      BY <1>0, <3>1, <3>6, <3>7, HeldAppend
    <3>9. Held(messages') = Held(messages) \union {Top(t).omd}
      BY <2>2, <3>6, <3>8
    <3> QED
      BY <1>0, <2>2, <2>3, <3>4, <3>5, <3>8, <3>9, GivenUp
  <2>6. CASE Top(t).omd \in MainMedia
    <3> DEFINE f == Frame("private_start", Top(t).omd)
               g == Frame("open_unflag", None)
    <3>1. Becomes(t, << f, g >>) /\ UNCHANGED messages
      BY <1>4, <2>6 DEF OpenLoads
    <3>2. f \in OwnFrames /\ f.omd = Top(t).omd /\ g \in OwnFrames /\ g.omd = None
      BY <2>2
    <3> HIDE DEF f, g
    <3>3. /\ Held(stack'[t]) = Held(stack[t])
          /\ Once(stack'[t])
          /\ \A u \in Threads : u # t => stack'[u] = stack[u]
      BY <1>0, <2>1, <2>2, <3>1, <3>2, HeldReplacedByTwo
    <3>4. \A u \in Threads : Held(stack'[u]) = Held(stack[u]) /\ Once(stack'[u])
      BY <3>3 DEF Own, OnceEach
    <3> QED
      BY <1>0, <2>3, <3>1, <3>4, StillOwned
  <2> QED
    BY <2>5, <2>6
<1>5. ASSUME OpenFlags(t) PROVE OnceEach' /\ Partition'
  <2>1. stack[t] # << >> /\ Top(t).pc \in {"open_flag", "open_unflag"} /\ Return(t)
    BY <1>5 DEF OpenFlags, At, Top
  <2>2. UNCHANGED <<messages, window, lastOMD, freed, lost, nextOMD>>
    BY <1>5 DEF OpenFlags, data
  <2> QED
    BY <1>0, <2>1, <2>2, MovedOn
<1> QED
  BY <1>1, <1>2, <1>3, <1>4, <1>5 DEF Open

LEMMA PrivateOwned ==
    ASSUME Own, NEW t \in Threads, Private(t) \/ PrivateRenders(t) PROVE OnceEach' /\ Partition'
<1> USE FramesTyped DEF Pcs, CarryingPcs, OpenPcs, OpenPrivatePcs, ClosePcs, OtherPcs
<1>0. StackInv /\ Once(messages) /\ Once(window) /\ Once(stack[t]) /\ window \in Seq(Results)
  BY DEF Own, TypeInv, OnceEach, Values
<1>1. ASSUME \/ PrivateCreates(t) \/ PrivateRenders(t) \/ DialogCreated(t)
             \/ DialogDeleted(t) \/ PrivateChecks(t)
      PROVE  OnceEach' /\ Partition'
  <2>1. /\ stack[t] # << >> /\ Top(t).pc \in OpenPrivatePcs
        /\ \E pc \in OpenPrivatePcs : Goto(t, pc)
    BY <1>1
    DEF PrivateCreates, OpenCreateGraphObject, PrivateRenders, DialogCreated, DialogDeleted,
        PrivateChecks, At, Top
  <2>2. UNCHANGED <<messages, window, lastOMD, freed, lost, nextOMD>>
    BY <1>1
    DEF PrivateCreates, OpenCreateGraphObject, PrivateRenders, DialogCreated, DialogDeleted,
        PrivateChecks, data
  <2> QED
    BY <1>0, <2>1, <2>2, MovedOn
<1>2. ASSUME DialogShown(t) PROVE OnceEach' /\ Partition'
  <2>1. UNCHANGED <<stack, messages, window, lastOMD, freed, lost, nextOMD>>
    BY <1>2 DEF DialogShown, data
  <2> QED
    BY <1>0, <2>1, StillOwned DEF Own, OnceEach
<1>3. ASSUME PrivateReports(t) PROVE OnceEach' /\ Partition'
  <2>1. stack[t] # << >> /\ Top(t).pc \in {"private_ok", "private_err"}
    BY <1>3 DEF PrivateReports, At, Top
  <2>2. UNCHANGED <<messages, lastOMD, lost, nextOMD>>
    BY <1>3 DEF PrivateReports
  <2>3. \/ /\ Return(t) /\ UNCHANGED freed
           /\ \E msg \in {"WM_POSTOPEN", "WM_OPENFAILED"} :
                 window' = Append(window, [msg |-> msg, omd |-> Top(t).omd])
        \/ /\ Goto(t, "post_open") \/ Goto(t, "open_failed")
           /\ UNCHANGED <<window, freed>>
        \/ Return(t) /\ Deleted({Top(t).omd}) /\ UNCHANGED window
    BY <1>3 DEF PrivateReports, Report
  <2>4. CASE (Goto(t, "post_open") \/ Goto(t, "open_failed")) /\ UNCHANGED <<window, freed>>
    BY <1>0, <2>1, <2>2, <2>4, MovedOn
  <2>5. ASSUME Return(t)
        PROVE  /\ Top(t).omd \in Media /\ Top(t).omd # None
               /\ Held(stack[t]) = Held(stack'[t]) \union {Top(t).omd}
               /\ Top(t).omd \notin Held(stack'[t])
               /\ Once(stack'[t])
               /\ \A u \in Threads : u # t => stack'[u] = stack[u]
    BY <2>1, <2>5, ReturnGivesUp
  <2>6. CASE Return(t) /\ Deleted({Top(t).omd}) /\ UNCHANGED window
    <3>1. freed' = freed \union {Top(t).omd}
      BY <2>5, <2>6 DEF Deleted
    <3> QED
      BY <1>0, <2>2, <2>5, <2>6, <3>1, GivenUp
  <2>7. ASSUME Return(t), UNCHANGED freed,
               NEW msg \in {"WM_POSTOPEN", "WM_OPENFAILED"},
               window' = Append(window, [msg |-> msg, omd |-> Top(t).omd])
        PROVE  OnceEach' /\ Partition'
    <3> DEFINE m == [msg |-> msg, omd |-> Top(t).omd]
    <3>1. m \in Results /\ m.omd = Top(t).omd
      BY <2>5, <2>7 DEF Results
    <3>2. m.omd \notin Held(window)
      <4>1. Top(t).omd \in Held(stack[t])
        BY <2>5, <2>7
      <4> QED
        BY <3>1, <4>1 DEF Own, Partition, InMain, InGraph, Posted, Threads
    <3>3. window' = Append(window, m)
      BY <2>7
    <3> HIDE DEF m
    <3>4. /\ Held(window') = Held(window) \union ({m.omd} \ {None})
          /\ Once(window')
      BY <1>0, <3>1, <3>2, <3>3, HeldAppend
    <3>5. Held(window') = Held(window) \union {Top(t).omd}
      BY <2>5, <2>7, <3>1, <3>4
    <3> QED
      BY <1>0, <2>2, <2>5, <2>7, <3>4, <3>5, GivenUp
  <2> QED
    BY <2>3, <2>4, <2>6, <2>7
<1> QED
  BY <1>1, <1>2, <1>3 DEF Private

\* m_lastOMD.Free(): what was remembered is deleted.
LEMMA Forgotten ==
    ASSUME Own, \A t \in Threads : Held(stack'[t]) = Held(stack[t]) /\ Once(stack'[t]),
           lastOMD' = None, freed' = freed \union ({lastOMD} \ {None}),
           UNCHANGED <<messages, window, lost, nextOMD>>
    PROVE  OnceEach' /\ Partition'
<1>1. OnceEach'
  BY DEF Own, OnceEach
<1>2. /\ InMain' = InMain /\ InGraph' = InGraph /\ Queued' = Queued /\ Posted' = Posted
      /\ Remembered' = {} /\ freed' = freed \union Remembered /\ lost' = lost /\ nextOMD' = nextOMD
  BY DEF InMain, InGraph, Queued, Posted, Remembered, Threads
<1>3. Partition'
  BY <1>2 DEF Own, Partition
<1> QED
  BY <1>1, <1>3

LEMMA HandlersOwned == ASSUME Own, NEW t \in Threads, Handlers(t) PROVE OnceEach' /\ Partition'
<1> USE FramesTyped DEF Pcs, CarryingPcs, OpenPcs, OpenPrivatePcs, ClosePcs, OtherPcs
<1>0. StackInv /\ Once(messages) /\ Once(window) /\ Once(stack[t])
  BY DEF Own, TypeInv, OnceEach
<1>1. ASSUME PostOpen(t) PROVE OnceEach' /\ Partition'
  <2>1. stack[t] # << >> /\ Top(t).pc = "post_open" /\ Return(t)
    BY <1>1 DEF PostOpen, At, Top
  <2>2. /\ Top(t).omd \in Media /\ Top(t).omd # None
        /\ Held(stack[t]) = Held(stack'[t]) \union {Top(t).omd}
        /\ Top(t).omd \notin Held(stack'[t])
        /\ Once(stack'[t])
        /\ \A u \in Threads : u # t => stack'[u] = stack[u]
    BY <2>1, ReturnGivesUp
  <2>3. UNCHANGED <<messages, window, nextOMD>>
    BY <1>1 DEF PostOpen
  <2>4. \/ lost' = lost \union {Top(t).omd} /\ UNCHANGED <<lastOMD, freed>>
        \/ /\ lastOMD' = Top(t).omd /\ freed' = freed \union ({lastOMD} \ {None})
           /\ UNCHANGED lost
    BY <1>1 DEF PostOpen, Remember, Deleted
  <2> QED
    BY <1>0, <2>2, <2>3, <2>4, GivenUp
<1>2. ASSUME OpenFailed(t) PROVE OnceEach' /\ Partition'
  <2>1. stack[t] # << >> /\ Top(t).pc = "open_failed"
    BY <1>2 DEF OpenFailed, At, Top
  <2>2. Top(t) \in OwnFrames /\ Top(t).omd \in Media
    BY <1>0, <2>1, TopTyped DEF OwnFrames
  <2>3. Top(t).omd # None
    BY <2>2, MediaLoaderAssumption DEF Media, None
  <2>4. /\ lastOMD' = Top(t).omd /\ freed' = freed \union ({lastOMD} \ {None})
        /\ UNCHANGED <<messages, window, lost>>
    BY <1>2 DEF OpenFailed, Remember, Deleted
  <2>5. CASE Becomes(t, << Frame("close_enter", None), Frame("failed_next", None) >>)
             /\ UNCHANGED nextOMD
    <3> DEFINE f == Frame("close_enter", None)
               g == Frame("failed_next", None)
    <3>1. f \in OwnFrames /\ f.omd = None /\ g \in OwnFrames /\ g.omd = None
          /\ Becomes(t, << f, g >>)
      BY <2>5
    <3> HIDE DEF f, g
    <3>2. /\ Held(stack[t]) = Held(stack'[t]) \union ({Top(t).omd} \ {None})
          /\ Top(t).omd \notin Held(stack'[t])
          /\ Once(stack'[t])
          /\ \A u \in Threads : u # t => stack'[u] = stack[u]
      BY <1>0, <2>1, <2>3, <3>1, HeldReplacedByTwo
    <3>3. Held(stack[t]) = Held(stack'[t]) \union {Top(t).omd}
      BY <2>3, <3>2
    <3> QED
      BY <1>0, <2>2, <2>4, <2>5, <3>2, <3>3, GivenUp
  <2>6. CASE NewOMD /\ Becomes(t, << Frame("open_wait", nextOMD) >>)
    <3> DEFINE f == Frame("open_wait", nextOMD)
               omd == Top(t).omd
    <3>1. nextOMD \in Media /\ nextOMD \notin Held(stack[t]) /\ nextOMD # None
          /\ nextOMD <= MaxOpens /\ nextOMD' = nextOMD + 1
      BY <2>6, NewIsUnheld DEF NewOMD
    <3>2. f \in OwnFrames /\ f.omd = nextOMD /\ Becomes(t, << f >>)
      BY <2>6, <3>1
    <3> HIDE DEF f
    <3>3. omd \in Held(stack[t])
      <4>1. stack[t] \in Seq(OwnFrames) /\ Top(t) = stack[t][1]
        BY <1>0, <2>1, TopTyped DEF StackInv
      <4> QED
        BY <1>0, <2>1, <2>3, <4>1, HeldTail
    <3>4. /\ Held(stack[t]) \union ({f.omd} \ {None}) = Held(stack'[t]) \union ({omd} \ {None})
          /\ omd \notin Held(stack'[t]) \/ omd = f.omd
          /\ Once(stack'[t])
          /\ \A u \in Threads : u # t => stack'[u] = stack[u]
      BY <1>0, <2>1, <3>1, <3>2, HeldReplaced
    <3>5. omd # nextOMD
      BY <3>1, <3>3
    <3>6. Held(stack'[t]) = (Held(stack[t]) \ {omd}) \union {nextOMD}
      BY <2>3, <3>1, <3>2, <3>3, <3>4, <3>5
    <3>7. OnceEach'
      BY <2>4, <3>4 DEF Own, OnceEach
    <3>8. /\ 1..(nextOMD' - 1) = 1..(nextOMD - 1) \union {nextOMD}
          /\ nextOMD \notin 1..(nextOMD - 1)
      BY <3>1, MediaLoaderAssumption DEF Own, TypeInv, Values
    <3>9. \/ InMain' = (InMain \ {omd}) \union {nextOMD} /\ InGraph' = InGraph /\ omd \in InMain
          \/ InGraph' = (InGraph \ {omd}) \union {nextOMD} /\ InMain' = InMain /\ omd \in InGraph
      BY <3>3, <3>4, <3>6 DEF InMain, InGraph, Threads
    <3>10. /\ Queued' = Queued /\ Posted' = Posted /\ lost' = lost
           /\ Remembered' = {omd} /\ freed' = freed \union Remembered
      BY <2>3, <2>4 DEF Queued, Posted, Remembered
    <3>11. Partition
      BY DEF Own
    <3> HIDE DEF omd
    <3>12. Partition'
      BY <3>8, <3>9, <3>10, <3>11 DEF Partition
    <3> QED
      BY <3>7, <3>12
  <2> QED
    BY <1>2, <2>5, <2>6 DEF OpenFailed
<1>3. ASSUME FailedOpensNext(t) PROVE OnceEach' /\ Partition'
  <2>1. stack[t] # << >> /\ Top(t).pc = "failed_next"
    BY <1>3 DEF FailedOpensNext, At, Top
  <2>2. UNCHANGED <<messages, window, lastOMD, freed, lost>>
    BY <1>3 DEF FailedOpensNext
  <2>3. CASE Return(t) /\ UNCHANGED nextOMD
    BY <1>0, <2>1, <2>2, <2>3, MovedOn
  <2>4. CASE NewOMD /\ Becomes(t, << Frame("open_wait", nextOMD) >>)
    <3> DEFINE f == Frame("open_wait", nextOMD)
    <3>1. nextOMD \in Media /\ nextOMD \notin Held(stack[t]) /\ nextOMD # None
          /\ nextOMD <= MaxOpens /\ nextOMD' = nextOMD + 1
      BY <2>4, NewIsUnheld DEF NewOMD
    <3>2. f \in OwnFrames /\ f.omd = nextOMD /\ Becomes(t, << f >>)
      BY <2>4, <3>1
    <3> HIDE DEF f
    <3>3. Top(t).omd = None
      BY <1>0, <2>1, TopTyped DEF OwnFrames
    <3>4. /\ Held(stack[t]) \union ({f.omd} \ {None}) = Held(stack'[t]) \union ({Top(t).omd} \ {None})
          /\ Once(stack'[t])
          /\ \A u \in Threads : u # t => stack'[u] = stack[u]
      BY <1>0, <2>1, <3>1, <3>2, HeldReplaced
    <3>5. Held(stack'[t]) = Held(stack[t]) \union {nextOMD}
      BY <3>1, <3>2, <3>3, <3>4
    <3> QED
      BY <2>2, <3>1, <3>4, <3>5, Created
  <2> QED
    BY <1>3, <2>3, <2>4 DEF FailedOpensNext
<1> QED
  BY <1>1, <1>2, <1>3 DEF Handlers

\* TerminateThread: what the graph thread's stack and messages pointed to is lost.
LEMMA Terminated ==
    ASSUME Own, Terminate, messages' = << >>,
           Held(stack'["graph"]) = {}, Once(stack'["graph"]),
           Held(stack'["main"]) = Held(stack["main"]), Once(stack'["main"]),
           UNCHANGED <<window, lastOMD, freed, nextOMD>>
    PROVE  OnceEach' /\ Partition'
<1>1. Held(messages') = {} /\ Once(messages')
  BY DEF Held, Once
<1>2. OnceEach'
  BY <1>1 DEF Own, OnceEach, Threads
<1>3. /\ InMain' = InMain /\ InGraph' = {} /\ Queued' = {} /\ Posted' = Posted /\ Remembered' = Remembered
      /\ freed' = freed /\ lost' = lost \union InGraph \union Queued /\ nextOMD' = nextOMD
  BY <1>1 DEF InMain, InGraph, Queued, Posted, Remembered, Terminate
<1>4. Partition'
  BY <1>3 DEF Own, Partition
<1> QED
  BY <1>2, <1>4

LEMMA KillOwned == ASSUME Own, NEW t \in Threads, CloseKills(t) PROVE OnceEach' /\ Partition'
<1>0. StackInv /\ Once(stack["main"]) /\ stack["main"] \in Seq(OwnFrames)
  BY DEF Own, TypeInv, OnceEach, StackInv, Threads
<1>1. stack[t] # << >> /\ Top(t).pc = "close_kill"
  BY DEF CloseKills, At, Top
<1>2. Terminate /\ messages' = << >> /\ UNCHANGED <<window, lastOMD, freed, nextOMD>>
  BY DEF CloseKills
<1>3. CASE t = "graph"
  <2>1. stack' = [stack EXCEPT !["graph"] = << Frame("exited", None) >>]
    BY <1>3 DEF CloseKills
  <2>2. stack'["graph"] = << Frame("exited", None) >> /\ stack'["main"] = stack["main"]
    BY <1>0, <2>1 DEF StackInv, Threads
  <2>3. Held(stack'["graph"]) = {} /\ Once(stack'["graph"])
    BY <2>2 DEF Held, Once, Frame
  <2> QED
    BY <1>0, <1>2, <2>2, <2>3, Terminated
<1>4. CASE t = "main"
  <2> DEFINE f == [Top("main") EXCEPT !.pc = "close_purge", !.killed = TRUE]
  <2>1. Top("main") \in OwnFrames /\ Tail(stack["main"]) \in Seq(OwnFrames)
        /\ Top("main") = stack["main"][1] /\ stack["main"] # << >>
    BY <1>0, <1>1, <1>4, TopTyped DEF Threads
  <2>2. f \in OwnFrames /\ f.omd = None /\ Top("main").omd = None
    BY <1>1, <1>4, <2>1
    DEF OwnFrames, Frames, CarryingPcs, OpenPcs, OpenPrivatePcs, ClosePcs, OtherPcs
  <2>3. stack' = [stack EXCEPT !["graph"] = << >>, !["main"] = << f >> \o Tail(@)]
    BY <1>4 DEF CloseKills, Top
  <2>4. stack' = [stack EXCEPT !["graph"] = << >>, !["main"] = Push(f, Tail(stack["main"]))]
    BY <2>3 DEF Push
  <2> HIDE DEF f
  <2>5. stack'["graph"] = << >> /\ stack'["main"] = Push(f, Tail(stack["main"]))
    BY <1>0, <2>4 DEF StackInv, Threads
  <2>6. Held(stack'["graph"]) = {} /\ Once(stack'["graph"])
    BY <2>5 DEF Held, Once
  <2>7. /\ Held(stack["main"]) = Held(Tail(stack["main"])) \union ({Top("main").omd} \ {None})
        /\ Once(Tail(stack["main"]))
    BY <1>0, <2>1, HeldTail
  <2>8. f.omd \notin Held(Tail(stack["main"]))
    BY <2>2, NoneNotHeld
  <2>9. /\ Held(stack'["main"]) = Held(Tail(stack["main"])) \union ({f.omd} \ {None})
        /\ Once(stack'["main"])
    BY <2>1, <2>2, <2>5, <2>7, <2>8, HeldPushFrame
  <2>10. Held(stack'["main"]) = Held(stack["main"])
    BY <2>2, <2>7, <2>9
  <2> QED
    BY <1>2, <2>6, <2>9, <2>10, Terminated
<1> QED
  BY <1>3, <1>4 DEF Threads

LEMMA PurgeOwned ==
    ASSUME Own, NEW msg, Purge(msg),
           \A t \in Threads : Held(stack'[t]) = Held(stack[t]) /\ Once(stack'[t]),
           UNCHANGED <<messages, lastOMD, lost, nextOMD>>
    PROVE  OnceEach' /\ Partition'
<1>0. window \in Seq(Results) /\ Once(window) /\ Once(messages)
  BY DEF Own, TypeInv, Values, OnceEach
<1>1. CASE UNCHANGED <<window, freed>>
  BY <1>0, <1>1, StillOwned
<1>2. CASE \E i \in Peeked(msg) : window' = RemoveAt(window, i) /\ Deleted({window[i].omd})
  <2>1. PICK i \in Peeked(msg) : window' = RemoveAt(window, i) /\ Deleted({window[i].omd})
    BY <1>2
  <2>2. i \in 1..Len(window)
    BY <1>0, LenProperties DEF Peeked
  <2> DEFINE omd == window[i].omd
  <2>3. /\ Held(window) = Held(window') \union ({omd} \ {None})
        /\ omd \notin Held(window')
        /\ Once(window')
    BY <1>0, <2>1, <2>2, HeldRemoveAt
  <2>4. freed' = freed \union ({omd} \ {None})
    BY <2>1 DEF Deleted
  <2> HIDE DEF omd
  <2>5. OnceEach'
    BY <1>0, <2>3 DEF OnceEach
  <2>6. /\ InMain' = InMain /\ InGraph' = InGraph /\ Queued' = Queued /\ Remembered' = Remembered
        /\ Posted = Posted' \union ({omd} \ {None}) /\ omd \notin Posted'
        /\ freed' = freed \union ({omd} \ {None}) /\ lost' = lost /\ nextOMD' = nextOMD
    BY <2>3, <2>4 DEF InMain, InGraph, Queued, Posted, Remembered, Threads
  <2>7. Partition'
    BY <2>6 DEF Own, Partition
  <2> QED
    BY <2>5, <2>7
<1> QED
  BY <1>1, <1>2 DEF Purge

LEMMA CloseOwned == ASSUME Own, NEW t \in Threads, Close(t) PROVE OnceEach' /\ Partition'
<1> USE FramesTyped DEF Pcs, CarryingPcs, OpenPcs, OpenPrivatePcs, ClosePcs, OtherPcs
<1>0. StackInv /\ Once(messages) /\ Once(window) /\ Once(stack[t]) /\ messages \in Seq(Requests)
  BY DEF Own, TypeInv, OnceEach
<1>1. ASSUME CloseEnters(t) \/ CloseEndsDialog(t) \/ CloseLocksDialog(t) \/ CloseAborts(t)
             \/ CloseWaits(t) \/ CloseDone(t)
      PROVE  OnceEach' /\ Partition'
  <2>1. /\ stack[t] # << >> /\ Top(t).pc \in ClosePcs
        /\ Return(t) \/ \E pc \in ClosePcs : Goto(t, pc)
    BY <1>1
    DEF CloseEnters, CloseEndsDialog, CloseLocksDialog, CloseAborts, CloseWaits, CloseDone, At, Top
  <2>2. UNCHANGED <<messages, window, lastOMD, freed, lost, nextOMD>>
    BY <1>1
    DEF CloseEnters, CloseEndsDialog, CloseLocksDialog, CloseAborts, CloseWaits, CloseDone, data
  <2> QED
    BY <1>0, <2>1, <2>2, MovedOn
<1>2. ASSUME CloseKills(t) PROVE OnceEach' /\ Partition'
  BY <1>2, KillOwned
<1>3. ASSUME ClosePurges(t) PROVE OnceEach' /\ Partition'
  <2>1. /\ stack[t] # << >> /\ Top(t).pc \in ClosePcs
        /\ \E pc \in ClosePcs : Goto(t, pc)
        /\ \E msg \in {"WM_POSTOPEN", "WM_OPENFAILED"} : Purge(msg)
        /\ UNCHANGED <<messages, lastOMD, lost, nextOMD>>
    BY <1>3 DEF ClosePurges, At, Top
  <2>2. \A u \in Threads : Held(stack'[u]) = Held(stack[u]) /\ Once(stack'[u])
    <3>1. /\ Held(stack'[t]) = Held(stack[t]) /\ Once(stack'[t])
          /\ \A u \in Threads : u # t => stack'[u] = stack[u]
      BY <1>0, <2>1, HeldGoneTo
    <3> QED
      BY <3>1 DEF Own, OnceEach
  <2> QED
    BY <2>1, <2>2, PurgeOwned
<1>4. ASSUME CloseStarts(t) PROVE OnceEach' /\ Partition'
  <2>1. stack[t] # << >> /\ Top(t).pc = "close_closing"
    BY <1>4 DEF CloseStarts, At, Top
  <2>2. UNCHANGED <<window, lastOMD, freed, lost, nextOMD>>
    BY <1>4 DEF CloseStarts, data
  <2>3. \/ /\ messages' = Append(messages, [msg |-> "TM_CLOSE", omd |-> None])
           /\ Goto(t, "close_wait")
        \/ Call(t, Frame("close_private", None), "close_done") /\ UNCHANGED messages
    BY <1>4 DEF CloseStarts
  <2>4. Held(messages') = Held(messages) /\ Once(messages')
    <3>1. CASE UNCHANGED messages
      BY <1>0, <3>1
    <3>2. CASE messages' = Append(messages, [msg |-> "TM_CLOSE", omd |-> None])
      <4> DEFINE m == [msg |-> "TM_CLOSE", omd |-> None]
      <4>1. m \in Requests /\ m.omd = None
        BY DEF Requests
      <4> HIDE DEF m
      <4>2. None \notin Held(messages)
        BY NoneNotHeld
      <4>3. /\ Held(Append(messages, m)) = Held(messages) \union ({m.omd} \ {None})
            /\ Once(Append(messages, m))
        BY <1>0, <4>1, <4>2, HeldAppend
      <4> QED
        BY <3>2, <4>1, <4>3 DEF m
    <3> QED
      BY <2>3, <3>1, <3>2
  <2> QED
    BY <1>0, <2>1, <2>2, <2>3, <2>4, MovedOn
<1>5. ASSUME ClosePrivate(t) PROVE OnceEach' /\ Partition'
  <2>1. stack[t] # << >> /\ Top(t).pc = "close_private" /\ Return(t)
    BY <1>5 DEF ClosePrivate, At, Top
  <2>2. /\ lastOMD' = None /\ freed' = freed \union ({lastOMD} \ {None})
        /\ UNCHANGED <<messages, window, lost, nextOMD>>
    BY <1>5 DEF ClosePrivate, Remember, Deleted
  <2>3. Top(t).omd = None
    BY <1>0, <2>1, TopTyped DEF OwnFrames
  <2>4. /\ Held(stack[t]) = Held(stack'[t]) /\ Once(stack'[t])
        /\ \A u \in Threads : u # t => stack'[u] = stack[u]
    BY <1>0, <2>1, <2>3, HeldReturned
  <2>5. \A u \in Threads : Held(stack'[u]) = Held(stack[u]) /\ Once(stack'[u])
    BY <2>4 DEF Own, OnceEach
  <2> QED
    BY <2>2, <2>5, Forgotten
<1> QED
  BY <1>1, <1>2, <1>3, <1>4, <1>5 DEF Close

\* The wait for a message is answered: its frame goes on, and no pointer moves.
LEMMA HeldAnswered ==
    ASSUME StackInv, Once(stack["main"]), Once(stack["graph"]),
           stack' = [stack EXCEPT !["main"] =
               [i \in DOMAIN @ |-> IF @[i].pc = "call_wait"
                                   THEN [@[i] EXCEPT !.pc = "call_done"] ELSE @[i]]]
    PROVE  \A u \in Threads : Held(stack'[u]) = Held(stack[u]) /\ Once(stack'[u])
<1> DEFINE s == stack["main"]
           r == stack'["main"]
<1>1. /\ stack' \in [Threads -> Seq(OwnFrames)]
      /\ stack'["graph"] = stack["graph"]
      /\ Len(r) = Len(s)
      /\ \A i \in 1..Len(s) : r[i] = IF s[i].pc = "call_wait"
                                     THEN [s[i] EXCEPT !.pc = "call_done"] ELSE s[i]
  BY AnsweredTyped DEF StackInv
<1>2. s \in Seq(OwnFrames) /\ r \in Seq(OwnFrames) /\ Once(s)
  BY <1>1 DEF StackInv, Threads
<1>3. \A i \in 1..Len(s) : s[i] \in OwnFrames
  BY <1>2, ElementOfSeq
<1> HIDE DEF s, r
<1>4. \A i \in 1..Len(s) : r[i].omd = s[i].omd
  BY <1>1, <1>3 DEF OwnFrames, Frames
<1>5. ASSUME NEW x PROVE x \in Held(r) <=> x \in Held(s)
  <2>1. x \in Held(s) <=> x # None /\ \E i \in 1..Len(s) : s[i].omd = x
    BY <1>2, HeldByElement
  <2>2. x \in Held(r) <=> x # None /\ \E i \in 1..Len(r) : r[i].omd = x
    BY <1>2, HeldByElement
  <2> QED
    BY <1>1, <1>4, <2>1, <2>2
<1>6. Held(r) = Held(s)
  BY <1>5
<1>7. Once(r)
  BY <1>1, <1>2, <1>4 DEF Once
<1> QED
  BY <1>1, <1>6, <1>7 DEF s, r, Threads

\* A step that only puts frames on one stack which point to nothing.
LEMMA NothingEntered ==
    ASSUME Own, NEW t \in Threads, NEW f \in OwnFrames, f.omd = None,
           \/ Enter(t, << f >>)
           \/ \E g \in OwnFrames : g.omd = None /\ Enter(t, << f, g >>)
    PROVE  \A u \in Threads : Held(stack'[u]) = Held(stack[u]) /\ Once(stack'[u])
<1>0. StackInv /\ (\A u \in Threads : Once(stack[u])) /\ f.omd \notin Held(stack[t])
  BY NoneNotHeld DEF Own, TypeInv, OnceEach
<1>1. /\ Held(stack'[t]) = Held(stack[t]) \union ({f.omd} \ {None})
      /\ Once(stack'[t])
      /\ \A u \in Threads : u # t => stack'[u] = stack[u]
  BY <1>0, HeldEntered, HeldEnteredByTwo
<1>2. Held(stack'[t]) = Held(stack[t])
  BY <1>1
<1> QED
  BY <1>0, <1>1, <1>2

LEMMA TakesOwned == ASSUME Own, GraphTakes PROVE OnceEach' /\ Partition'
<1> USE FramesTyped DEF Pcs, CarryingPcs, OpenPcs, OpenPrivatePcs, ClosePcs, OtherPcs
<1> DEFINE m == Head(messages)
<1>0. /\ StackInv /\ Once(messages) /\ Once(window) /\ messages \in Seq(Requests)
      /\ Once(stack["graph"]) /\ Once(stack["main"]) /\ "graph" \in Threads
  BY DEF Own, TypeInv, OnceEach, Threads
<1>1. /\ stack["graph"] = << >> /\ messages # << >> /\ messages' = Tail(messages)
      /\ UNCHANGED <<window, lastOMD, freed, nextOMD>>
  BY DEF GraphTakes
<1>2. /\ m \in Requests
      /\ Held(messages) = Held(messages') \union ({m.omd} \ {None})
      /\ m.omd \notin Held(messages')
      /\ Once(messages')
  BY <1>0, <1>1, HeldTail, TailProperties
<1>3. m.msg # "TM_OPEN" => m.omd = None /\ Held(messages') = Held(messages)
  BY <1>2 DEF Requests
<1>4. /\ Frame("on_open", None) \in OwnFrames /\ Frame("on_open", None).omd = None
      /\ Frame("on_close", None) \in OwnFrames /\ Frame("on_close", None).omd = None
      /\ Frame("exited", None) \in OwnFrames /\ Frame("exited", None).omd = None
      /\ Frame("close_private", None) \in OwnFrames
      /\ Frame("close_private", None).omd = None
  OBVIOUS
<1>5. CASE m.msg = "TM_OPEN"
  <2>1. m.omd \in Media /\ m.omd # None
    <3>1. m.omd \in Media
      BY <1>2, <1>5 DEF Requests
    <3> QED
      BY <3>1, MediaLoaderAssumption DEF Media, None
  <2>2. Held(messages) = Held(messages') \union {m.omd}
    BY <1>2, <2>1
  <2>3. m.omd \notin Held(stack["graph"])
    BY <2>2 DEF Own, Partition, InGraph, Queued
  <2>4. CASE loadState = "LOADING"
    <3> DEFINE f == Frame("private_start", m.omd)
               g == Frame("on_open", None)
    <3>1. Enter("graph", << f, g >>) /\ UNCHANGED lost
      BY <1>5, <2>4 DEF GraphTakes
    <3>2. f \in OwnFrames /\ f.omd = m.omd /\ g \in OwnFrames /\ g.omd = None
      BY <1>4, <2>1
    <3> HIDE DEF f, g
    <3>3. /\ Held(stack'["graph"]) = Held(stack["graph"]) \union ({f.omd} \ {None})
          /\ Once(stack'["graph"])
          /\ stack'["main"] = stack["main"]
      BY <1>0, <2>3, <3>1, <3>2, HeldEnteredByTwo DEF Threads
    <3>4. Held(stack'["graph"]) = Held(stack["graph"]) \union {m.omd}
      BY <2>1, <3>2, <3>3
    <3> HIDE DEF m
    <3>5. OnceEach'
      BY <1>0, <1>1, <1>2, <3>3 DEF OnceEach, Threads
    <3>6. /\ Queued = Queued' \union {m.omd} /\ m.omd \notin Queued'
          /\ InGraph' = InGraph \union {m.omd} /\ InMain' = InMain /\ Posted' = Posted
          /\ Remembered' = Remembered /\ freed' = freed /\ lost' = lost /\ nextOMD' = nextOMD
      BY <1>1, <1>2, <2>2, <3>1, <3>3, <3>4 DEF Queued, InGraph, InMain, Posted, Remembered
    <3>7. Partition'
      BY <3>6 DEF Own, Partition
    <3> QED
      BY <3>5, <3>7
  <2>5. CASE loadState # "LOADING"
    <3>1. Enter("graph", << Frame("on_open", None) >>) /\ lost' = lost \union {m.omd}
      BY <1>5, <2>5 DEF GraphTakes
    <3>2. \A u \in Threads : Held(stack'[u]) = Held(stack[u]) /\ Once(stack'[u])
      BY <1>0, <1>4, <3>1, NothingEntered
    <3> HIDE DEF m
    <3>3. OnceEach'
      BY <1>0, <1>1, <1>2, <3>2 DEF OnceEach
    <3>4. /\ Queued = Queued' \union {m.omd} /\ m.omd \notin Queued'
          /\ InGraph' = InGraph /\ InMain' = InMain /\ Posted' = Posted
          /\ Remembered' = Remembered /\ freed' = freed /\ lost' = lost \union {m.omd} /\ nextOMD' = nextOMD
      BY <1>1, <1>2, <2>2, <3>1, <3>2 DEF Queued, InGraph, InMain, Posted, Remembered, Threads
    <3>5. Partition'
      BY <3>4 DEF Own, Partition
    <3> QED
      BY <3>3, <3>5
  <2> QED
    BY <2>4, <2>5
<1>6. CASE m.msg # "TM_OPEN"
  <2>1. /\ UNCHANGED lost
        /\ \/ Enter("graph", << Frame("close_private", None), Frame("on_close", None) >>)
           \/ Enter("graph", << Frame("on_close", None) >>)
           \/ Enter("graph", << Frame("exited", None) >>)
           \/ stack' = [stack EXCEPT !["main"] =
                 [i \in DOMAIN @ |-> IF @[i].pc = "call_wait"
                                     THEN [@[i] EXCEPT !.pc = "call_done"] ELSE @[i]]]
    BY <1>6 DEF GraphTakes
  <2>2. \A u \in Threads : Held(stack'[u]) = Held(stack[u]) /\ Once(stack'[u])
    BY <1>0, <1>4, <2>1, NothingEntered, HeldAnswered
  <2> QED
    BY <1>1, <1>2, <1>3, <1>6, <2>1, <2>2, StillOwned
<1> QED
  BY <1>5, <1>6

LEMMA SignalsOwned == ASSUME Own, GraphSignals PROVE OnceEach' /\ Partition'
<1>1. /\ stack["graph"] # << >> /\ Top("graph").pc \in {"on_open", "on_close"}
      /\ Return("graph")
      /\ UNCHANGED <<messages, window, lastOMD, freed, lost, nextOMD>>
  BY DEF GraphSignals, At, Top, data
<1>2. Once(messages) /\ "graph" \in Threads
  BY DEF Own, OnceEach, Threads
<1>3. Top("graph").pc \notin CarryingPcs
  BY <1>1 DEF CarryingPcs, OpenPrivatePcs
<1> QED
  BY <1>1, <1>2, <1>3, MovedOn

\* The main thread takes a result: its pointer goes from the window's queue to the handler.
LEMMA ResultOwned == ASSUME Own, MainHandlesResult PROVE OnceEach' /\ Partition'
<1> USE FramesTyped DEF CarryingPcs
<1>0. /\ StackInv /\ Once(messages) /\ Once(window) /\ window \in Seq(Results)
      /\ Once(stack["graph"]) /\ Once(stack["main"]) /\ "main" \in Threads
  BY DEF Own, TypeInv, Values, OnceEach, Threads
<1> DEFINE m == Head(window)
           f == Frame(IF m.msg = "WM_POSTOPEN" THEN "post_open" ELSE "open_failed", m.omd)
<1>1. /\ window # << >> /\ window' = Tail(window) /\ Enter("main", << f >>)
      /\ UNCHANGED <<messages, lastOMD, freed, lost, nextOMD>>
  BY DEF MainHandlesResult, data
<1>2. m \in Results /\ m = window[1]
  BY <1>0, <1>1, TailProperties
<1>3. m.omd \in Media /\ m.omd # None
  <2>1. m.omd \in Media
    BY <1>2 DEF Results
  <2> QED
    BY <2>1, MediaLoaderAssumption DEF Media, None
<1>4. f \in OwnFrames /\ f.omd = m.omd
  BY <1>3
<1> HIDE DEF f, m
<1>5. /\ Held(window) = Held(window') \union ({m.omd} \ {None})
      /\ m.omd \notin Held(window')
      /\ Once(window')
  BY <1>0, <1>1, <1>2, HeldTail
<1>6. Held(window) = Held(window') \union {m.omd}
  BY <1>3, <1>5
<1>7. f.omd \notin Held(stack["main"])
  BY <1>4, <1>6 DEF Own, Partition, InMain, Posted
<1>8. /\ Held(stack'["main"]) = Held(stack["main"]) \union ({f.omd} \ {None})
      /\ Once(stack'["main"])
      /\ stack'["graph"] = stack["graph"]
  BY <1>0, <1>1, <1>4, <1>7, HeldEntered DEF Threads
<1>9. OnceEach'
  BY <1>0, <1>1, <1>5, <1>8 DEF OnceEach, Threads
<1>10. /\ Posted = Posted' \union {m.omd} /\ m.omd \notin Posted'
       /\ InMain' = InMain \union {m.omd} /\ InGraph' = InGraph /\ Queued' = Queued
       /\ Remembered' = Remembered /\ freed' = freed /\ lost' = lost /\ nextOMD' = nextOMD
  BY <1>1, <1>3, <1>4, <1>5, <1>6, <1>8 DEF Queued, InGraph, InMain, Posted, Remembered
<1>11. Partition'
  BY <1>10 DEF Own, Partition
<1> QED
  BY <1>9, <1>11

LEMMA StartOwned ==
    ASSUME Own, StartOpen \/ StartClose, UNCHANGED <<messages, window, lastOMD, freed, lost>>
    PROVE  OnceEach' /\ Partition'
<1> USE FramesTyped DEF Pcs, CarryingPcs, OpenPcs, OpenPrivatePcs, ClosePcs, OtherPcs
<1>0. StackInv /\ Once(stack["main"]) /\ Once(messages) /\ "main" \in Threads
  BY DEF Own, TypeInv, OnceEach, Threads
<1>1. CASE StartOpen
  <2>1. nextOMD <= MaxOpens /\ nextOMD' = nextOMD + 1
    BY <1>1 DEF StartOpen, NewOMD
  <2>2. nextOMD \in Media /\ nextOMD # None /\ nextOMD \notin Held(stack["main"])
    BY <1>0, <2>1, NewIsUnheld
  <2> DEFINE f == Frame("open_wait", nextOMD)
  <2>3. Enter("main", << f >>)
    BY <1>1 DEF StartOpen
  <2>4. f \in OwnFrames /\ f.omd = nextOMD
    BY <2>2
  <2> HIDE DEF f
  <2>5. /\ Held(stack'["main"]) = Held(stack["main"]) \union ({f.omd} \ {None})
        /\ Once(stack'["main"])
        /\ \A u \in Threads : u # "main" => stack'[u] = stack[u]
    BY <1>0, <2>2, <2>3, <2>4, HeldEntered
  <2>6. Held(stack'["main"]) = Held(stack["main"]) \union {nextOMD}
    BY <2>2, <2>4, <2>5
  <2> QED
    BY <1>0, <2>1, <2>5, <2>6, Created
<1>2. CASE StartClose
  <2>1. Frame("close_enter", None) \in OwnFrames /\ Frame("close_enter", None).omd = None
    OBVIOUS
  <2>2. \A u \in Threads : Held(stack'[u]) = Held(stack[u]) /\ Once(stack'[u])
    BY <1>0, <1>2, <2>1, NothingEntered DEF StartClose
  <2> QED
    BY <1>0, <1>2, <2>2, StillOwned DEF StartClose
<1> QED
  BY <1>1, <1>2

\* Appending a message that points to nothing.
LEMMA NothingAppended ==
    ASSUME Own, NEW msg \in {"TM_CLOSE", "TM_CALL", "TM_EXIT"},
           messages' = Append(messages, [msg |-> msg, omd |-> None])
    PROVE  Held(messages') = Held(messages) /\ Once(messages')
<1> DEFINE m == [msg |-> msg, omd |-> None]
<1>1. m \in Requests /\ m.omd = None /\ messages' = Append(messages, m)
  BY DEF Requests
<1> HIDE DEF m
<1>2. messages \in Seq(Requests) /\ Once(messages) /\ None \notin Held(messages)
  BY NoneNotHeld DEF Own, TypeInv, OnceEach
<1>3. /\ Held(Append(messages, m)) = Held(messages) \union ({m.omd} \ {None})
      /\ Once(Append(messages, m))
  BY <1>1, <1>2, HeldAppend
<1> QED
  BY <1>1, <1>3

LEMMA MainOwned ==
    ASSUME Own,
           MainCallReturns \/ MainCommand \/ SentCommand \/ MainCalls \/ MainQuits \/ MainDestroys
    PROVE  OnceEach' /\ Partition'
<1> USE FramesTyped DEF Pcs, CarryingPcs, OpenPcs, OpenPrivatePcs, ClosePcs, OtherPcs
<1>0. StackInv /\ Once(messages) /\ "main" \in Threads
  BY DEF Own, TypeInv, OnceEach, Threads
<1>1. CASE MainCallReturns
  <2>1. /\ stack["main"] # << >> /\ Top("main").pc = "call_done" /\ Return("main")
        /\ UNCHANGED <<messages, window, lastOMD, freed, lost, nextOMD>>
    BY <1>1 DEF MainCallReturns, At, Top, data
  <2> QED
    BY <1>0, <2>1, MovedOn
<1>2. CASE MainCommand
  <2>1. CASE StartOpen
    BY <1>2, <2>1, StartOwned DEF MainCommand
  <2>2. CASE StartClose
    BY <1>2, <2>2, StartOwned DEF MainCommand
  <2> QED
    BY <1>2, <2>1, <2>2 DEF MainCommand
<1>3. CASE SentCommand
  BY <1>3, StartOwned DEF SentCommand
<1>4. CASE MainCalls
  <2>1. Frame("call_wait", None) \in OwnFrames /\ Frame("call_wait", None).omd = None
    OBVIOUS
  <2>2. \A u \in Threads : Held(stack'[u]) = Held(stack[u]) /\ Once(stack'[u])
    BY <1>0, <1>4, <2>1, NothingEntered DEF MainCalls
  <2>3. Held(messages') = Held(messages) /\ Once(messages')
    BY <1>4, NothingAppended DEF MainCalls
  <2> QED
    BY <1>4, <2>2, <2>3, StillOwned DEF MainCalls, data
<1>5. CASE MainQuits
  <2>1. /\ Frame("close_enter", None) \in OwnFrames /\ Frame("close_enter", None).omd = None
        /\ Frame("quit_destroy", None) \in OwnFrames /\ Frame("quit_destroy", None).omd = None
    OBVIOUS
  <2>2. /\ \/ Enter("main", << Frame("close_enter", None), Frame("quit_destroy", None) >>)
           \/ Enter("main", << Frame("quit_destroy", None) >>)
        /\ UNCHANGED <<messages, window, lastOMD, freed, lost, nextOMD>>
    BY <1>5 DEF MainQuits, data
  <2>3. \A u \in Threads : Held(stack'[u]) = Held(stack[u]) /\ Once(stack'[u])
    BY <1>0, <2>1, <2>2, NothingEntered
  <2> QED
    BY <1>0, <2>2, <2>3, StillOwned
<1>6. CASE MainDestroys
  <2>1. /\ stack["main"] # << >> /\ Top("main").pc = "quit_destroy" /\ Goto("main", "quit_wait")
        /\ UNCHANGED <<window, lastOMD, freed, lost, nextOMD>>
    BY <1>6 DEF MainDestroys, At, Top, data
  <2>2. Held(messages') = Held(messages) /\ Once(messages')
    BY <1>6, NothingAppended DEF MainDestroys
  <2> QED
    BY <1>0, <2>1, <2>2, MovedOn
<1> QED
  BY <1>1, <1>2, <1>3, <1>4, <1>5, <1>6

\* Nothing is below a frame of quitting.
LEMMA QuitsAlone ==
    ASSUME StackInv, stack["main"] # << >>, Top("main").pc \in QuitPcs
    PROVE  Tail(stack["main"]) = << >>
<1>1. stack["main"] \in Seq(OwnFrames) /\ Top("main") = stack["main"][1] /\ QuitsLast(stack["main"])
  BY TopTyped DEF StackInv, Threads
<1>2. /\ Len(stack["main"]) \in Nat \ {0} /\ Tail(stack["main"]) \in Seq(OwnFrames)
      /\ Len(Tail(stack["main"])) = Len(stack["main"]) - 1
  BY <1>1, TailProperties
<1>3. ~(1 < Len(stack["main"]))
  BY <1>1, <1>2 DEF QuitsLast
<1>4. \A n \in Nat \ {0} : ~(1 < n) => n - 1 = 0
  OBVIOUS
<1>5. Len(Tail(stack["main"])) = 0
  BY <1>2, <1>3, <1>4
<1> QED
  BY <1>2, <1>5, EmptySeq

LEMMA ExitsOwned == ASSUME Own, MainExits PROVE OnceEach' /\ Partition'
<1> USE FramesTyped DEF Pcs, CarryingPcs, OpenPcs, OpenPrivatePcs, ClosePcs, OtherPcs
<1>0. StackInv /\ Once(messages) /\ Once(stack["main"]) /\ "main" \in Threads
  BY DEF Own, TypeInv, OnceEach, Threads
<1>1. /\ stack["main"] # << >> /\ Top("main").pc = "quit_wait"
      /\ UNCHANGED <<window, lastOMD, freed, nextOMD>>
  BY DEF MainExits, At, Top
<1>2. CASE At("graph", "exited")
  <2>1. Goto("main", "exited") /\ UNCHANGED <<messages, lost>>
    BY <1>2 DEF MainExits
  <2> QED
    BY <1>0, <1>1, <2>1, MovedOn
<1>3. CASE ~At("graph", "exited")
  <2>1. /\ Terminate /\ messages' = << >>
        /\ stack' = [stack EXCEPT !["graph"] = << Frame("exited", None) >>,
                                  !["main"] = << Frame("exited", None) >>]
    BY <1>3 DEF MainExits
  <2>2. /\ stack'["graph"] = << Frame("exited", None) >>
        /\ stack'["main"] = << Frame("exited", None) >>
    BY <1>0, <2>1 DEF StackInv, Threads
  <2>3. /\ Held(stack'["graph"]) = {} /\ Once(stack'["graph"])
        /\ Held(stack'["main"]) = {} /\ Once(stack'["main"])
    <3> DEFINE f == Frame("exited", None)
    <3>1. f.omd = None
      BY DEF Frame
    <3> HIDE DEF f
    <3>2. Held(<< f >>) = {} /\ Once(<< f >>)
      BY <3>1 DEF Held, Once
    <3> QED
      BY <2>2, <3>2 DEF f
  <2>4. Held(stack["main"]) = {}
    <3>1. Tail(stack["main"]) = << >>
      BY <1>0, <1>1, QuitsAlone DEF QuitPcs
    <3>2. /\ Top("main") \in OwnFrames /\ Top("main") = stack["main"][1]
          /\ stack["main"] \in Seq(OwnFrames)
      BY <1>0, <1>1, TopTyped DEF StackInv
    <3>3. Top("main").omd = None
      BY <1>1, <3>2 DEF OwnFrames
    <3>4. Held(<< >>) = {}
      BY DEF Held
    <3>5. Held(stack["main"]) = Held(Tail(stack["main"])) \union ({stack["main"][1].omd} \ {None})
      BY <1>0, <1>1, <3>2, HeldTail
    <3> QED
      BY <3>1, <3>2, <3>3, <3>4, <3>5
  <2> QED
    BY <1>1, <2>1, <2>2, <2>3, <2>4, Terminated
<1> QED
  BY <1>2, <1>3

LEMMA InitOwned == Init => Own
<1> SUFFICES ASSUME Init PROVE Own
  OBVIOUS
<1>1. TypeInv
  BY InitTyped
<1>2. /\ stack = [t \in Threads |-> << >>] /\ messages = << >> /\ window = << >>
      /\ nextOMD = 1 /\ freed = {} /\ lost = {} /\ lastOMD = None
  BY DEF Init
<1>3. OnceEach
  BY <1>2 DEF OnceEach, Once
<1>4. /\ InMain = {} /\ InGraph = {} /\ Queued = {} /\ Posted = {} /\ Remembered = {}
      /\ 1..(nextOMD - 1) = {}
  BY <1>2 DEF InMain, InGraph, Queued, Posted, Remembered, Held, Threads
<1>5. Partition
  BY <1>2, <1>4 DEF Partition
<1> QED
  BY <1>1, <1>3, <1>5 DEF Own

LEMMA OwnPreserved == ASSUME Own, [Next]_vars PROVE Own'
<1>1. TypeInv'
  BY TypePreserved DEF Own
<1>2. CASE Step("main") \/ Step("graph")
  BY <1>1, <1>2, OpenOwned, PrivateOwned, HandlersOwned, CloseOwned DEF Step, Threads, Own
<1>3. CASE \E t \in Threads : PrivateRenders(t)
  BY <1>1, <1>3, PrivateOwned DEF Own
<1>4. CASE GraphTakes \/ GraphSignals \/ MainHandlesResult \/ MainExits
  BY <1>1, <1>4, TakesOwned, SignalsOwned, ResultOwned, ExitsOwned DEF Own
<1>5. CASE MainCallReturns \/ MainCommand \/ SentCommand \/ MainCalls \/ MainQuits \/ MainDestroys
  BY <1>1, <1>5, MainOwned DEF Own
<1>6. CASE UNCHANGED vars
  <2>1. OnceEach'
    BY <1>6 DEF vars, Own, OnceEach, Once
  <2>2. Partition'
    <3>1. /\ InMain' = InMain /\ InGraph' = InGraph /\ Queued' = Queued /\ Posted' = Posted
          /\ Remembered' = Remembered /\ freed' = freed /\ lost' = lost /\ nextOMD' = nextOMD
      BY <1>6 DEF vars, InMain, InGraph, Queued, Posted, Remembered
    <3> QED
      BY <3>1 DEF Own, Partition
  <2> QED
    BY <1>1, <2>1, <2>2 DEF Own
<1> QED
  BY <1>2, <1>3, <1>4, <1>5, <1>6 DEF Next, Main, Graph

\* In a sequence without repetition an OpenMediaData has one place, or none.
LEMMA OnePlace ==
    ASSUME NEW S, NEW s \in Seq(S), Once(s), NEW omd \in Media
    PROVE  /\ omd \in Held(s) => \E i : PlacesIn(s, omd) = {i}
           /\ omd \notin Held(s) => PlacesIn(s, omd) = {}
<1>1. omd # None
  BY MediaLoaderAssumption DEF Media, None
<1>2. omd \in Held(s) <=> \E i \in 1..Len(s) : s[i].omd = omd
  BY <1>1, HeldByElement
<1>3. DOMAIN s = 1..Len(s)
  BY LenProperties
<1>4. ASSUME NEW i \in 1..Len(s), s[i].omd = omd PROVE PlacesIn(s, omd) = {i}
  BY <1>1, <1>3, <1>4 DEF PlacesIn, Once
<1> QED
  BY <1>2, <1>3, <1>4 DEF PlacesIn

LEMMA OnePair ==
    \A place, i : {place} \X {i} = {<< place, i >>} /\ {place} \X {} = {}
  OBVIOUS

LEMMA OwnImpliesOwnedOnce == Own => OwnedOnce
<1> SUFFICES ASSUME Own, NEW omd \in 1..(nextOMD - 1) PROVE Cardinality(Owners(omd)) = 1
  BY DEF OwnedOnce
<1>0. omd \in Media /\ omd # None
  <2>1. omd \in Media
    BY MediaLoaderAssumption DEF Own, TypeInv, Values, Media
  <2> QED
    BY <2>1, MediaLoaderAssumption DEF Media, None
<1> DEFINE main == {"main"} \X PlacesIn(stack["main"], omd)
           build == {"graph"} \X PlacesIn(stack["graph"], omd)
           queue == {"messages"} \X PlacesIn(messages, omd)
           post == {"window"} \X PlacesIn(window, omd)
           last == {"lastOMD"} \X ({omd} \intersect {lastOMD})
           free == {"freed"} \X ({omd} \intersect freed)
           leak == {"lost"} \X ({omd} \intersect lost)
           placesOf(t) == {t} \X PlacesIn(stack[t], omd)
<1>1. Owners(omd) = main \union build \union queue \union post \union last \union free \union leak
  <2> DEFINE stacks == UNION {placesOf(t) : t \in Threads}
  <2>1. Owners(omd) = stacks \union queue \union post \union last \union free \union leak
    BY Zenon DEF Owners
  <2>2. placesOf("main") = main /\ placesOf("graph") = build
    OBVIOUS
  <2> HIDE DEF placesOf, main, build, queue, post, last, free, leak
  <2>3. stacks = main \union build
    BY <2>2 DEF Threads
  <2> HIDE DEF stacks
  <2> QED
    BY <2>1, <2>3
<1>2. /\ stack["main"] \in Seq(OwnFrames) /\ stack["graph"] \in Seq(OwnFrames)
      /\ messages \in Seq(Requests) /\ window \in Seq(Results)
      /\ Once(stack["main"]) /\ Once(stack["graph"]) /\ Once(messages) /\ Once(window)
  BY DEF Own, TypeInv, StackInv, Values, OnceEach, Threads
<1>3. /\ omd \in InMain => \E i : main = {<< "main", i >>}
      /\ omd \notin InMain => main = {}
  <2>1. /\ omd \in InMain => \E i : PlacesIn(stack["main"], omd) = {i}
        /\ omd \notin InMain => PlacesIn(stack["main"], omd) = {}
    BY <1>0, <1>2, OnePlace DEF InMain
  <2> QED
    BY <2>1, OnePair
<1>4. /\ omd \in InGraph => \E i : build = {<< "graph", i >>}
      /\ omd \notin InGraph => build = {}
  <2>1. /\ omd \in InGraph => \E i : PlacesIn(stack["graph"], omd) = {i}
        /\ omd \notin InGraph => PlacesIn(stack["graph"], omd) = {}
    BY <1>0, <1>2, OnePlace DEF InGraph
  <2> QED
    BY <2>1, OnePair
<1>5. /\ omd \in Queued => \E i : queue = {<< "messages", i >>}
      /\ omd \notin Queued => queue = {}
  <2>1. /\ omd \in Queued => \E i : PlacesIn(messages, omd) = {i}
        /\ omd \notin Queued => PlacesIn(messages, omd) = {}
    BY <1>0, <1>2, OnePlace DEF Queued
  <2> QED
    BY <2>1, OnePair
<1>6. /\ omd \in Posted => \E i : post = {<< "window", i >>}
      /\ omd \notin Posted => post = {}
  <2>1. /\ omd \in Posted => \E i : PlacesIn(window, omd) = {i}
        /\ omd \notin Posted => PlacesIn(window, omd) = {}
    BY <1>0, <1>2, OnePlace DEF Posted
  <2> QED
    BY <2>1, OnePair
<1>7. /\ omd \in Remembered => last = {<< "lastOMD", omd >>}
      /\ omd \notin Remembered => last = {}
  <2>1. /\ omd \in Remembered => {omd} \intersect {lastOMD} = {omd}
        /\ omd \notin Remembered => {omd} \intersect {lastOMD} = {}
    BY <1>0 DEF Remembered
  <2> QED
    BY <2>1, OnePair
<1>8. /\ omd \in freed => free = {<< "freed", omd >>}
      /\ omd \notin freed => free = {}
  OBVIOUS
<1>9. /\ omd \in lost => leak = {<< "lost", omd >>}
      /\ omd \notin lost => leak = {}
  OBVIOUS
<1> HIDE DEF main, build, queue, post, last, free, leak
<1>10. \E x : Owners(omd) = {x}
  <2>1. omd \in InMain \union InGraph \union Queued \union Posted \union Remembered \union freed \union lost
    BY DEF Own, Partition
  <2>2. CASE omd \in InMain
    <3>1. /\ omd \notin InGraph /\ omd \notin Queued /\ omd \notin Posted /\ omd \notin Remembered
          /\ omd \notin freed /\ omd \notin lost
      BY <2>2 DEF Own, Partition
    <3> QED
      BY <1>1, <1>3, <1>4, <1>5, <1>6, <1>7, <1>8, <1>9, <2>2, <3>1
  <2>3. CASE omd \in InGraph
    <3>1. /\ omd \notin InMain /\ omd \notin Queued /\ omd \notin Posted /\ omd \notin Remembered
          /\ omd \notin freed /\ omd \notin lost
      BY <2>3 DEF Own, Partition
    <3> QED
      BY <1>1, <1>3, <1>4, <1>5, <1>6, <1>7, <1>8, <1>9, <2>3, <3>1
  <2>4. CASE omd \in Queued
    <3>1. /\ omd \notin InMain /\ omd \notin InGraph /\ omd \notin Posted /\ omd \notin Remembered
          /\ omd \notin freed /\ omd \notin lost
      BY <2>4 DEF Own, Partition
    <3> QED
      BY <1>1, <1>3, <1>4, <1>5, <1>6, <1>7, <1>8, <1>9, <2>4, <3>1
  <2>5. CASE omd \in Posted
    <3>1. /\ omd \notin InMain /\ omd \notin InGraph /\ omd \notin Queued /\ omd \notin Remembered
          /\ omd \notin freed /\ omd \notin lost
      BY <2>5 DEF Own, Partition
    <3> QED
      BY <1>1, <1>3, <1>4, <1>5, <1>6, <1>7, <1>8, <1>9, <2>5, <3>1
  <2>6. CASE omd \in Remembered
    <3>1. /\ omd \notin InMain /\ omd \notin InGraph /\ omd \notin Queued /\ omd \notin Posted
          /\ omd \notin freed /\ omd \notin lost
      BY <2>6 DEF Own, Partition
    <3> QED
      BY <1>1, <1>3, <1>4, <1>5, <1>6, <1>7, <1>8, <1>9, <2>6, <3>1
  <2>7. CASE omd \in freed
    <3>1. /\ omd \notin InMain /\ omd \notin InGraph /\ omd \notin Queued /\ omd \notin Posted
          /\ omd \notin Remembered /\ omd \notin lost
      BY <2>7 DEF Own, Partition
    <3> QED
      BY <1>1, <1>3, <1>4, <1>5, <1>6, <1>7, <1>8, <1>9, <2>7, <3>1
  <2>8. CASE omd \in lost
    <3>1. /\ omd \notin InMain /\ omd \notin InGraph /\ omd \notin Queued /\ omd \notin Posted
          /\ omd \notin Remembered /\ omd \notin freed
      BY <2>8 DEF Own, Partition
    <3> QED
      BY <1>1, <1>3, <1>4, <1>5, <1>6, <1>7, <1>8, <1>9, <2>8, <3>1
  <2> QED
    BY <2>1, <2>2, <2>3, <2>4, <2>5, <2>6, <2>7, <2>8
<1> QED
  BY <1>10, FS_Singleton

\* Every OpenMediaData has one owner at a time, in whatever order the threads run, results
\* overtake commands, commands enter waits and threads are terminated.
THEOREM OwnedByOne == Spec => []OwnedOnce
<1>1. Own /\ [Next]_vars => Own'
  BY OwnPreserved
<1> QED
  BY InitOwned, <1>1, OwnImpliesOwnedOnce, PTL DEF Spec
=============================================================================

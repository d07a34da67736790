------------------------ MODULE MediaLoaderProperties ------------------------
(***************************************************************************)
(* What opening and closing media promises: one user of the graph at a     *)
(* time, results that belong to the media being loaded, a clean closed     *)
(* state, every OpenMediaData deleted once, and a close that ends although *)
(* the graph thread may hang.  Most of it holds until another program's    *)
(* command enters one of the main thread's waits.                          *)
(***************************************************************************)
EXTENDS MediaLoader, FiniteSets

OpenPcs == {"open_wait", "open_active", "open_prompt", "open_load", "open_flag", "open_unflag"}
OpenPrivatePcs == {"private_start", "private_render", "private_report", "private_modal",
                   "private_check", "private_ok", "private_err"}
ClosePcs == {"close_enter", "close_dialog", "close_lock", "close_abort", "close_kill",
             "close_purge", "close_purge_failed", "close_closing", "close_wait", "close_done"}
OtherPcs == {"post_open", "open_failed", "failed_next", "close_private", "on_open", "on_close",
             "call_wait", "call_done", "quit_destroy", "quit_wait", "exited"}

Frames == [pc : OpenPcs \union OpenPrivatePcs \union ClosePcs \union OtherPcs,
           omd : Media \union {None}, killed : BOOLEAN]

\* Every variable holds a value of its kind; a posted result always carries its OpenMediaData.
TypeOK ==
    /\ loadState \in LoadStates
    /\ openMediaActive \in BOOLEAN
    /\ openedThroughThread \in BOOLEAN
    /\ openingAborted \in BOOLEAN
    /\ evOpen \in BOOLEAN
    /\ evClose \in BOOLEAN
    /\ window \in Seq([msg : {"WM_POSTOPEN", "WM_OPENFAILED"}, omd : Media])
    /\ messages \in Seq([msg : {"TM_OPEN", "TM_CLOSE", "TM_CALL", "TM_EXIT"},
                         omd : Media \union {None}])
    /\ stack \in [Threads -> Seq(Frames)]
    /\ graph \in Media \union {None}
    /\ lastOMD \in Media \union {None}
    /\ dialog \in {"none", "created", "shown", "ended"}
    /\ nextOMD \in 1..(MaxOpens + 1)
    /\ freed \subseteq Media
    /\ lost \subseteq Media
    /\ sent \in 0..MaxSent

\* No other program's command has entered a wait of the main thread.
Undisturbed == sent = 0

-----------------------------------------------------------------------------
(* Safety. *)

UsesGraph(t) == InCall(t, OpenPrivatePcs \union {"close_private"})

\* m_pGB and the dozens of interfaces beside it have no lock.  The protocol of load states,
\* events and messages keeps OpenMediaPrivate and CloseMediaPrivate apart: never are both
\* threads in one of them, and a graph is created only where the last one was destroyed.
GraphExclusive ==
    Undisturbed =>
        /\ ~(UsesGraph("main") /\ UsesGraph("graph"))
        /\ \A t \in Threads : At(t, "private_start") /\ ~openingAborted => graph = None

\* The graph a result is about: the one that stands, or none if it was never created.
ResultOf(msg, omd) == graph = omd \/ (msg = "WM_OPENFAILED" /\ graph = None)

Opening ==
    \/ \E i \in DOMAIN messages : messages[i].msg = "TM_OPEN"
    \/ \E t \in Threads : InCall(t, OpenPrivatePcs)

\* A result on its way to its handler, or there, is the only one and that of the media being
\* loaded: it is about the graph that stands, if one could be created, and no other media is
\* being opened meanwhile.  No result of an open that was aborted or whose thread was terminated
\* is left over (OnFilePostOpenmedia and OnOpenMediaFailed assert the loading state).
ResultFresh ==
    Undisturbed =>
        /\ Len(window) <= 1
        /\ \A i \in DOMAIN window :
               loadState = "LOADING" /\ ~Opening /\ ResultOf(window[i].msg, window[i].omd)
        /\ \A t \in Threads :
               /\ At(t, "post_open") => ResultOf("WM_POSTOPEN", Top(t).omd)
               /\ At(t, "open_failed") => ResultOf("WM_OPENFAILED", Top(t).omd)
               /\ At(t, "post_open") \/ At(t, "open_failed") =>
                      loadState = "LOADING" /\ window = <<>> /\ ~Opening

\* In the closed state nothing of the last media is left: no graph, no m_lastOMD, no result, no
\* abort in progress, no work queued for the graph thread and none being done.
ClosedClean ==
    Undisturbed /\ loadState = "CLOSED" =>
        /\ graph = None /\ lastOMD = None
        /\ window = <<>>
        /\ ~openingAborted
        /\ \A i \in DOMAIN messages : messages[i].msg \notin {"TM_OPEN", "TM_CLOSE"}
        /\ \A t \in Threads : ~UsesGraph(t)

\* The places of a sequence of frames or messages that hold an OpenMediaData.
PlacesIn(seq, omd) == {i \in DOMAIN seq : seq[i].omd = omd}

Owners(omd) ==
    (UNION {{t} \X PlacesIn(stack[t], omd) : t \in Threads})
    \union ({"messages"} \X PlacesIn(messages, omd))
    \union ({"window"} \X PlacesIn(window, omd))
    \union ({"lastOMD"} \X ({omd} \intersect {lastOMD}))
    \union ({"freed"} \X ({omd} \intersect freed))
    \union ({"lost"} \X ({omd} \intersect lost))

\* The OpenMediaData travels as a bare pointer in message parameters between two threads.  It
\* always has one owner, whatever is aborted, purged, terminated or entered again: it is never
\* deleted twice nor used after its deletion.
OwnedOnce == \A omd \in 1..(nextOMD - 1) : Cardinality(Owners(omd)) = 1

\* Its pointer is lost (a leak) only with the graph thread's stack or messages when that
\* thread is terminated: no message arrives in a state in which its handler ignores it.
LostByTermination ==
    [][sent' = 0 /\ lost' # lost => At("main", "close_kill") \/ At("main", "quit_wait")]_vars

-----------------------------------------------------------------------------
(* The implementation of the abstract specification. *)

\* The two threads, their messages, events and flags, aborts and terminations together behave
\* as one player that opens, builds, loads or fails, closes and destroys one media at a time
\* (MediaPlayer), until another program's command enters a wait.
Player == INSTANCE MediaPlayer WITH
    state <- IF Undisturbed THEN loadState ELSE "INTRUDED",
    graph <- IF Undisturbed THEN graph ELSE None,
    last <- IF Undisturbed THEN lastOMD ELSE None

ImplementsPlayer == Player!Spec

-----------------------------------------------------------------------------
(* Progress. *)

\* The thread that held lockModalDialog was terminated, or the dialog it shows is deleted by
\* nobody: whoever waits for the lock waits for ever.
Orphaned == dialog # "none" /\ \A t \in Threads : ~InCall(t, {"private_modal"})

Closing == InCall("main", ClosePcs)

\* CloseMedia returns, even if the media being loaded never answers, unless the dialog's lock
\* was orphaned by a termination.
CloseCompletes == []~Orphaned /\ []Undisturbed => (Closing ~> ~Closing)

\* If the graph thread does not render for ever, loading ends in the loaded or the closed
\* state: no result and no event is lost between the threads.
OpenResolves ==
    []~Orphaned /\ []Undisturbed /\ []<>~InCall("graph", {"private_render"}) =>
        (loadState = "LOADING" ~> loadState \in {"LOADED", "CLOSED"})

\* Once the window is destroyed the program ends, whatever the graph thread does.
Quits == At("main", "quit_destroy") ~> At("main", "exited")

-----------------------------------------------------------------------------
(* What the source says and the code does not keep. *)

\* "ASSERT(GetCurrentThreadId() == AfxGetApp()->m_nThreadID)" before OpenMediaPrivate calls a
\* result's handler itself: the handlers, which touch the windows, run on the main thread.
ResultsOnMain == ~At("graph", "post_open") /\ ~At("graph", "open_failed")

\* "ASSERT(GetLoadState() == MLS::CLOSED)" after OpenMedia has closed what was open.
OpensClosed == \A t \in Threads : At(t, "open_active") => loadState = "CLOSED"

\* "either opening or closing has to be blocked to prevent reentering them, closing is the
\* better choice": OpenMedia does not run inside CloseMedia's wait.
NotReentered ==
    \A i, j \in DOMAIN stack["main"] :
        i < j /\ stack["main"][j].pc = "close_wait" => stack["main"][i].pc \notin OpenPcs

\* "ASSERT(!m_bOpenMediaActive)": an OpenMedia that returns leaves the flag cleared, or its
\* media loading.
ActiveOnce == \A t \in Threads : At(t, "open_active") => ~openMediaActive

\* "should be possible only in graph thread": media that can be aborted while it loads was
\* handed to the graph thread.
AbortsThreadOnly == At("main", "close_abort") => openedThroughThread

\* "wait till error dialog has been closed": no dialog is up when the graph thread is terminated.
DialogClosed == At("main", "close_kill") => dialog = "none"

=============================================================================

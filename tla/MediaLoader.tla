----------------------------- MODULE MediaLoader -----------------------------
(***************************************************************************)
(* Opening and closing media in the player's main frame (CMainFrame in     *)
(* mpc-hc/MainFrm.cpp) with the help of the graph thread (CGraphThread in  *)
(* mpc-hc/GraphThread.cpp).                                                *)
(*                                                                         *)
(* The main thread decides; the graph thread builds and destroys the       *)
(* DirectShow graph on request (TM_OPEN, TM_CLOSE) and sends its results   *)
(* back as window messages (WM_POSTOPEN, WM_OPENFAILED).  Some media are   *)
(* opened on the main thread instead.  Closing media that is still loading *)
(* aborts the open, and terminates the graph thread when it does not       *)
(* answer within five seconds.                                             *)
(*                                                                         *)
(* Each thread has a call stack of frames: the same procedure can run on   *)
(* either thread, and a procedure that waits may be entered again by a     *)
(* message another program sends (WM_COPYDATA) into the wait.              *)
(***************************************************************************)
EXTENDS Naturals, Sequences, SequencesExt

CONSTANTS
    MaxOpens,         \* bound: the media opened in a behaviour are numbered 1..MaxOpens
    MainMedia,        \* the media OpenMedia builds on the main thread (bUseThread is false)
    MaxSent,          \* bound: commands other programs send into a wait of the main thread
    MissingDrives,    \* may a removable drive be missing, so that OpenMedia asks the user?
    ReportFailedPins, \* the setting fReportFailedPins: show a dialog of unsupported types
    PromptFlag        \* timing: the main thread runs from PostThreadMessage to the next
                      \* assignment faster than the graph thread runs OpenMediaPrivate

ASSUME MediaLoaderAssumption ==
    /\ MaxOpens \in Nat \ {0}
    /\ MainMedia \subseteq 1..MaxOpens
    /\ MaxSent \in Nat
    /\ MissingDrives \in BOOLEAN
    /\ ReportFailedPins \in BOOLEAN
    /\ PromptFlag \in BOOLEAN

VARIABLES
    loadState,           \* m_eMediaLoadState
    openMediaActive,     \* m_bOpenMediaActive
    openedThroughThread, \* m_bOpenedThroughThread
    openingAborted,      \* m_fOpeningAborted
    evOpen,              \* m_evOpenPrivateFinished, reset by the wait it ends
    evClose,             \* m_evClosePrivateFinished, the same
    window,              \* results of opens posted to the main window and not yet handled
    messages,            \* the graph thread's message queue
    stack,               \* the call stack of each thread, innermost frame first
    graph,               \* the media whose graph m_pGB holds
    lastOMD,             \* m_lastOMD
    dialog,              \* mediaTypesErrorDlg and its window, with lockModalDialog held
    nextOMD,             \* the number the next OpenMediaData gets
    freed,               \* the OpenMediaData that were deleted
    lost,                \* those whose last pointer vanished without a delete
    sent                 \* commands sent into waits so far

vars == <<loadState, openMediaActive, openedThroughThread, openingAborted, evOpen, evClose,
          window, messages, stack, graph, lastOMD, dialog, nextOMD, freed, lost, sent>>

None == 0
Media == 1..MaxOpens
Threads == {"main", "graph"}
LoadStates == {"CLOSED", "LOADING", "LOADED", "CLOSING", "FAILING"}

-----------------------------------------------------------------------------
(* Frames and queues. *)

Frame(pc, omd) == [pc |-> pc, omd |-> omd, killed |-> FALSE]

At(t, pc) == stack[t] # <<>> /\ Head(stack[t]).pc = pc
Top(t) == Head(stack[t])
InCall(t, pcs) == \E i \in DOMAIN stack[t] : stack[t][i].pc \in pcs

Becomes(t, frames) == stack' = [stack EXCEPT ![t] = frames \o Tail(@)]
Goto(t, pc) == Becomes(t, <<[Top(t) EXCEPT !.pc = pc]>>)
Return(t) == Becomes(t, <<>>)
Call(t, frame, pc) == Becomes(t, <<frame, [Top(t) EXCEPT !.pc = pc]>>)
Enter(t, frames) == stack' = [stack EXCEPT ![t] = frames \o @]

\* The OpenMediaData a sequence of frames or messages points to.
Held(seq) == {seq[i].omd : i \in DOMAIN seq} \ {None}

\* A new OpenMediaData: DEBUG_NEW in a command handler, or GetCurOMD of the playlist.
NewOMD == nextOMD <= MaxOpens /\ nextOMD' = nextOMD + 1

\* The CAutoPtr goes out of scope, or the message that held the pointer is purged.
Deleted_Never(omds) == UNCHANGED freed
Deleted(omds) == freed' = freed \union (omds \ {None})

\* CEvent::Reset and Set.
Reset_Forgotten(event) == UNCHANGED event
Reset(event) == event' = FALSE

\* May a wait with a time limit of five seconds end without an answer?
GivesUp_Never == FALSE
GivesUp == TRUE

Init ==
    /\ loadState = "CLOSED"
    /\ openMediaActive = FALSE
    /\ openedThroughThread = FALSE
    /\ openingAborted = FALSE
    /\ evOpen = TRUE
    /\ evClose = TRUE
    /\ window = <<>>
    /\ messages = <<>>
    /\ stack = [t \in Threads |-> <<>>]
    /\ graph = None
    /\ lastOMD = None
    /\ dialog = "none"
    /\ nextOMD = 1
    /\ freed = {}
    /\ lost = {}
    /\ sent = 0

events == <<evOpen, evClose>>
flags == <<openMediaActive, openedThroughThread, openingAborted>>
data == <<nextOMD, freed, lost>>

-----------------------------------------------------------------------------
(* CMainFrame::OpenMedia. *)

\* Waits up to three seconds while media is loading, then closes what is open.
OpenCloses(t) ==
    /\ At(t, "open_wait")
    /\ IF loadState # "CLOSED"
       THEN Call(t, Frame("close_enter", None), "open_active")
       ELSE Goto(t, "open_active")
    /\ UNCHANGED <<loadState, flags, events, window, messages, graph, lastOMD, dialog, data, sent>>

\* Nothing is open.  A missing removable drive is reported before anything is built.
OpenActivates(t) ==
    /\ At(t, "open_active")
    /\ openMediaActive' = TRUE
    /\ \/ Goto(t, "open_load")
       \/ MissingDrives /\ Goto(t, "open_prompt")
    /\ UNCHANGED <<loadState, openedThroughThread, openingAborted, events, window, messages,
                   graph, lastOMD, dialog, data, sent>>

\* The drive was put in (retry), or the user gives up.
OpenPromptAnswered(t) ==
    /\ At(t, "open_prompt")
    /\ \/ Goto(t, "open_load") /\ UNCHANGED freed
       \/ Return(t) /\ Deleted({Top(t).omd})
    /\ UNCHANGED <<loadState, flags, events, window, messages, graph, lastOMD, dialog,
                   nextOMD, lost, sent>>

\* "We hereby proclaim" the loading state and hand over to the graph thread, or build here.
OpenLoads(t) ==
    /\ At(t, "open_load")
    /\ loadState' = "LOADING"
    /\ \/ /\ Top(t).omd \notin MainMedia
          /\ Reset(evOpen)
          /\ messages' = Append(messages, [msg |-> "TM_OPEN", omd |-> Top(t).omd])
          /\ Becomes(t, <<Frame("open_flag", None)>>)
       \/ /\ Top(t).omd \in MainMedia
          /\ Becomes(t, <<Frame("private_start", Top(t).omd), Frame("open_unflag", None)>>)
          /\ UNCHANGED <<evOpen, messages>>
    /\ UNCHANGED <<flags, evClose, window, graph, lastOMD, dialog, data, sent>>

\* The flag is set after the message is posted, and cleared after the open it is about.
OpenFlags(t) ==
    /\ \/ At(t, "open_flag") /\ openedThroughThread' = TRUE
       \/ At(t, "open_unflag") /\ openedThroughThread' = FALSE
    /\ Return(t)
    /\ UNCHANGED <<loadState, openMediaActive, openingAborted, events, window, messages, graph,
                   lastOMD, dialog, data, sent>>

-----------------------------------------------------------------------------
(* CMainFrame::OpenMediaPrivate, on either thread. *)

\* Throws before there is a graph when it cannot be made: no Flash control, no memory.
OpenCreateGraphObject(t) ==
    \/ graph' = Top(t).omd /\ Goto(t, "private_render")
    \/ UNCHANGED graph /\ Goto(t, "private_err")

\* The first checkAborted, then the graph object.
PrivateCreates(t) ==
    /\ At(t, "private_start")
    /\ \/ openingAborted /\ Goto(t, "private_err") /\ UNCHANGED graph
       \/ ~openingAborted /\ OpenCreateGraphObject(t)
    /\ UNCHANGED <<loadState, flags, events, window, messages, lastOMD, dialog, data, sent>>

\* OpenFile, OpenDVD and so on build the graph.  OpenFile shows the unsupported types, with
\* no checkAborted before it.
PrivateRenders(t) ==
    /\ At(t, "private_render")
    /\ \/ Goto(t, "private_check")
       \/ ReportFailedPins /\ Goto(t, "private_report")
    /\ UNCHANGED <<loadState, flags, events, window, messages, graph, lastOMD, dialog, data, sent>>

\* ShowMediaTypesDialog: takes lockModalDialog and stores the dialog before it has a window.
DialogCreated(t) ==
    /\ At(t, "private_report")
    /\ dialog = "none"
    /\ dialog' = "created"
    /\ Goto(t, "private_modal")
    /\ UNCHANGED <<loadState, flags, events, window, messages, graph, lastOMD, data, sent>>

\* DoModal creates the window.
DialogShown(t) ==
    /\ At(t, "private_modal")
    /\ dialog = "created"
    /\ dialog' = "shown"
    /\ UNCHANGED <<loadState, flags, events, window, messages, stack, graph, lastOMD, data, sent>>

\* The user closes the dialog, or OnExternalClose ended it: deleted, and the lock released.
DialogDeleted(t) ==
    /\ At(t, "private_modal")
    /\ dialog \in {"shown", "ended"}
    /\ dialog' = "none"
    /\ Goto(t, "private_check")
    /\ UNCHANGED <<loadState, flags, events, window, messages, graph, lastOMD, data, sent>>

\* The other calls of checkAborted; without an abort the graph is complete or a step failed.
PrivateChecks(t) ==
    /\ At(t, "private_check")
    /\ \/ ~openingAborted /\ Goto(t, "private_ok")
       \/ Goto(t, "private_err")
    /\ UNCHANGED <<loadState, flags, events, window, messages, graph, lastOMD, dialog, data, sent>>

\* Reports the result: by a posted message if the flag says the open went through the graph
\* thread, else by a call of the handler on this thread.  An aborted open reports nothing.
Report_Lost(t, msg, handler) ==
    IF openedThroughThread THEN Return(t) /\ UNCHANGED window
                           ELSE Goto(t, handler) /\ UNCHANGED window
Report_NoOMD(t, msg, handler) ==
    IF openedThroughThread
    THEN window' = Append(window, [msg |-> msg, omd |-> None]) /\ Return(t)
    ELSE Goto(t, handler) /\ UNCHANGED window
Report(t, msg, handler) ==
    IF openedThroughThread
    THEN /\ window' = Append(window, [msg |-> msg, omd |-> Top(t).omd])
         /\ Return(t)
    ELSE Goto(t, handler) /\ UNCHANGED window

PrivateReports(t) ==
    /\ PromptFlag /\ t = "graph" => ~At("main", "open_flag")
    /\ \/ /\ At(t, "private_ok")
          /\ Report(t, "WM_POSTOPEN", "post_open")
          /\ UNCHANGED freed
       \/ /\ At(t, "private_err") /\ ~openingAborted
          /\ Report(t, "WM_OPENFAILED", "open_failed")
          /\ UNCHANGED freed
       \/ /\ At(t, "private_err") /\ openingAborted
          /\ Deleted({Top(t).omd})
          /\ Return(t) /\ UNCHANGED window
    /\ UNCHANGED <<loadState, flags, events, messages, graph, lastOMD, dialog, nextOMD, lost, sent>>

-----------------------------------------------------------------------------
(* The handlers of the results. *)

\* m_lastOMD.Free() and Attach().
Remember(omd) ==
    /\ lastOMD' = omd
    /\ Deleted({lastOMD})

\* CMainFrame::OnFilePostOpenmedia.
PostOpen(t) ==
    /\ At(t, "post_open")
    /\ IF graph = None
       THEN /\ lost' = lost \union {Top(t).omd}
            /\ UNCHANGED <<loadState, openMediaActive, lastOMD, freed>>
       ELSE /\ loadState' = "LOADED"
            /\ openMediaActive' = FALSE
            /\ Remember(Top(t).omd)
            /\ UNCHANGED lost
    /\ Return(t)
    /\ UNCHANGED <<openedThroughThread, openingAborted, events, window, messages, graph, dialog,
                   nextOMD, sent>>

\* CMainFrame::OnOpenMediaFailed: closes, and may then open the playlist's next entry; an entry
\* from a streaming site is opened once more without closing first.
OpenFailed(t) ==
    /\ At(t, "open_failed")
    /\ loadState' = "FAILING"
    /\ openMediaActive' = FALSE
    /\ Remember(Top(t).omd)
    /\ \/ /\ Becomes(t, <<Frame("close_enter", None), Frame("failed_next", None)>>)
          /\ UNCHANGED nextOMD
       \/ /\ NewOMD
          /\ Becomes(t, <<Frame("open_wait", nextOMD)>>)
    /\ UNCHANGED <<openedThroughThread, openingAborted, events, window, messages, graph, dialog,
                   lost, sent>>

FailedOpensNext(t) ==
    /\ At(t, "failed_next")
    /\ \/ Return(t) /\ UNCHANGED nextOMD
       \/ NewOMD /\ Becomes(t, <<Frame("open_wait", nextOMD)>>)
    /\ UNCHANGED <<loadState, flags, events, window, messages, graph, lastOMD, dialog, freed,
                   lost, sent>>

-----------------------------------------------------------------------------
(* CMainFrame::CloseMedia. *)

\* A double close returns.  Media that is loading is aborted.
CloseEnters(t) ==
    /\ At(t, "close_enter")
    /\ \/ /\ loadState \in {"CLOSING", "CLOSED"}
          /\ Return(t) /\ UNCHANGED openingAborted
       \/ /\ loadState = "LOADING"
          /\ openingAborted' = TRUE
          /\ Goto(t, IF dialog # "none" THEN "close_dialog" ELSE "close_abort")
       \/ /\ loadState \in {"LOADED", "FAILING"}
          /\ Goto(t, "close_closing") /\ UNCHANGED openingAborted
    /\ UNCHANGED <<loadState, openMediaActive, openedThroughThread, events, window, messages,
                   graph, lastOMD, dialog, data, sent>>

\* WM_EXTERNALCLOSE ends the dialog if it has a window; the message is lost otherwise.
CloseEndsDialog(t) ==
    /\ At(t, "close_dialog")
    /\ dialog' = IF dialog = "shown" THEN "ended" ELSE dialog
    /\ Goto(t, "close_lock")
    /\ UNCHANGED <<loadState, flags, events, window, messages, graph, lastOMD, data, sent>>

\* Waits for lockModalDialog.
CloseLocksDialog(t) ==
    /\ At(t, "close_lock")
    /\ dialog = "none"
    /\ Goto(t, "close_abort")
    /\ UNCHANGED <<loadState, flags, events, window, messages, graph, lastOMD, dialog, data, sent>>

\* The graph thread answers within five seconds, or the wait times out.
CloseAborts(t) ==
    /\ At(t, "close_abort")
    /\ evOpen \/ GivesUp
    /\ evOpen' = FALSE
    /\ Goto(t, IF evOpen THEN "close_purge" ELSE "close_kill")
    /\ UNCHANGED <<loadState, flags, evClose, window, messages, graph, lastOMD, dialog, data, sent>>

\* TerminateThread: the thread's frames and messages are gone, and its lock is never released.
Terminate ==
    lost' = lost \union Held(stack["graph"]) \union Held(messages)

\* The graph thread, when a handler it runs itself closes, terminates itself: nothing follows.
CloseKills(t) ==
    /\ At(t, "close_kill")
    /\ Terminate
    /\ stack' =
           IF t = "graph"
           THEN [stack EXCEPT !["graph"] = <<Frame("exited", None)>>]
           ELSE [stack EXCEPT !["graph"] = <<>>,
                    !["main"] = <<[Head(@) EXCEPT !.pc = "close_purge", !.killed = TRUE]>> \o Tail(@)]
    /\ messages' = <<>>
    /\ UNCHANGED <<loadState, flags, events, window, graph, lastOMD, dialog, nextOMD, freed, sent>>

\* PeekMessage finds the first queued result of a kind: its index, if there is one.
Peeked_None(msg) == {}
Peeked(msg) ==
    {i \in DOMAIN window : window[i].msg = msg /\ \A j \in 1..(i - 1) : window[j].msg # msg}

\* Takes it out of the window's queue and deletes its OpenMediaData.
Purge(msg) ==
    \/ /\ Peeked(msg) = {}
       /\ UNCHANGED <<window, freed>>
    \/ \E i \in Peeked(msg) :
          /\ window' = RemoveAt(window, i)
          /\ Deleted({window[i].omd})

\* Purges one result of each kind: the abort is over.
ClosePurges(t) ==
    /\ \/ /\ At(t, "close_purge")
          /\ Purge("WM_POSTOPEN")
          /\ Goto(t, "close_purge_failed") /\ UNCHANGED openingAborted
       \/ /\ At(t, "close_purge_failed")
          /\ Purge("WM_OPENFAILED")
          /\ openingAborted' = FALSE
          /\ Goto(t, "close_closing")
    /\ UNCHANGED <<loadState, openMediaActive, openedThroughThread, events, messages, graph,
                   lastOMD, dialog, nextOMD, lost, sent>>

\* The graph is destroyed by the thread that the flag says built it.
CloseStarts(t) ==
    /\ At(t, "close_closing")
    /\ loadState' = "CLOSING"
    /\ IF openedThroughThread /\ ~Top(t).killed
       THEN /\ Reset(evClose)
            /\ messages' = Append(messages, [msg |-> "TM_CLOSE", omd |-> None])
            /\ Goto(t, "close_wait")
       ELSE /\ Call(t, Frame("close_private", None), "close_done")
            /\ UNCHANGED <<evClose, messages>>
    /\ UNCHANGED <<flags, evOpen, window, graph, lastOMD, dialog, data, sent>>

\* The wait for m_evClosePrivateFinished, without a limit.
Destroyed_NotAwaited == TRUE
Destroyed == evClose
CloseWaits(t) ==
    /\ At(t, "close_wait")
    /\ Destroyed
    /\ evClose' = FALSE
    /\ Goto(t, "close_done")
    /\ UNCHANGED <<loadState, flags, evOpen, window, messages, graph, lastOMD, dialog, data, sent>>

\* CMainFrame::CloseMediaPrivate, on either thread.
ClosePrivate(t) ==
    /\ At(t, "close_private")
    /\ graph' = None
    /\ Remember(None)
    /\ Return(t)
    /\ UNCHANGED <<loadState, flags, events, window, messages, dialog, nextOMD, lost, sent>>

\* CMainFrame::OnFilePostClosemedia.
CloseDone(t) ==
    /\ At(t, "close_done")
    /\ loadState' = "CLOSED"
    /\ openMediaActive' = FALSE
    /\ Return(t)
    /\ UNCHANGED <<openedThroughThread, openingAborted, events, window, messages, graph, lastOMD,
                   dialog, data, sent>>

-----------------------------------------------------------------------------
(* CGraphThread: takes a message when its stack is empty. *)

GraphTakes ==
    /\ stack["graph"] = <<>>
    /\ messages # <<>>
    /\ messages' = Tail(messages)
    /\ LET m == Head(messages) IN
       \/ /\ m.msg = "TM_OPEN"
          /\ IF loadState = "LOADING"
             THEN /\ Enter("graph", <<Frame("private_start", m.omd), Frame("on_open", None)>>)
                  /\ UNCHANGED lost
             ELSE /\ Enter("graph", <<Frame("on_open", None)>>)
                  /\ lost' = lost \union {m.omd}
       \/ /\ m.msg = "TM_CLOSE"
          /\ Enter("graph", IF loadState = "CLOSING"
                            THEN <<Frame("close_private", None), Frame("on_close", None)>>
                            ELSE <<Frame("on_close", None)>>)
          /\ UNCHANGED lost
       \/ /\ m.msg = "TM_CALL"
          /\ stack' = [stack EXCEPT !["main"] =
                 [i \in DOMAIN @ |-> IF @[i].pc = "call_wait"
                                     THEN [@[i] EXCEPT !.pc = "call_done"] ELSE @[i]]]
          /\ UNCHANGED lost
       \/ /\ m.msg = "TM_EXIT"
          /\ Enter("graph", <<Frame("exited", None)>>)
          /\ UNCHANGED lost
    /\ UNCHANGED <<loadState, flags, events, window, graph, lastOMD, dialog, nextOMD, freed, sent>>

\* CGraphThread::OnOpen and OnClose end by setting their event.
GraphSignals ==
    /\ \/ At("graph", "on_open") /\ evOpen' = TRUE /\ UNCHANGED evClose
       \/ At("graph", "on_close") /\ evClose' = TRUE /\ UNCHANGED evOpen
    /\ Return("graph")
    /\ UNCHANGED <<loadState, flags, window, messages, graph, lastOMD, dialog, data, sent>>

-----------------------------------------------------------------------------
(* The main thread's message loop. *)

Idle == stack["main"] = <<>>

\* A result posted by OpenMediaPrivate reaches its handler.
MainHandlesResult ==
    /\ Idle
    /\ window # <<>>
    /\ window' = Tail(window)
    /\ Enter("main", <<Frame(IF Head(window).msg = "WM_POSTOPEN" THEN "post_open" ELSE "open_failed",
                             Head(window).omd)>>)
    /\ UNCHANGED <<loadState, flags, events, messages, graph, lastOMD, dialog, data, sent>>

\* An open command: a menu, the playlist, a second instance's command line.
StartOpen ==
    /\ NewOMD
    /\ Enter("main", <<Frame("open_wait", nextOMD)>>)

StartClose ==
    /\ Enter("main", <<Frame("close_enter", None)>>)
    /\ UNCHANGED nextOMD

\* Commands reach the idle main thread in any order with the posted results: a sent message
\* overtakes posted ones.  OnUpdateFileClose disables closing where nothing is open.
MainCommand ==
    /\ Idle
    /\ \/ StartOpen
       \/ loadState \in {"LOADED", "LOADING"} /\ StartClose
    /\ UNCHANGED <<loadState, flags, events, window, messages, graph, lastOMD, dialog, freed,
                   lost, sent>>

\* A command of another program (OnCopyData, ProcessAPICommand) enters a wait: the loop of
\* CloseMedia and CAMMsgEvent::WaitMsg handle sent messages, a message box any message.
SentCommand ==
    /\ sent < MaxSent
    /\ sent' = sent + 1
    /\ At("main", "close_wait") \/ At("main", "open_prompt") \/ At("main", "call_wait")
    /\ StartOpen \/ StartClose
    /\ UNCHANGED <<loadState, flags, events, window, messages, graph, lastOMD, dialog, freed, lost>>

\* OnDisplayChange and OnResetDevice post a message to the graph thread and wait for it.
MainCalls ==
    /\ Idle
    /\ loadState = "LOADED" \/ openedThroughThread
    /\ Enter("main", <<Frame("call_wait", None)>>)
    /\ messages' = Append(messages, [msg |-> "TM_CALL", omd |-> None])
    /\ UNCHANGED <<loadState, flags, events, window, graph, lastOMD, dialog, data, sent>>

MainCallReturns ==
    /\ At("main", "call_done")
    /\ Return("main")
    /\ UNCHANGED <<loadState, flags, events, window, messages, graph, lastOMD, dialog, data, sent>>

\* OnClose: closes the media, then the window is destroyed.
MainQuits ==
    /\ Idle
    /\ Enter("main", IF loadState \in {"LOADED", "LOADING"}
                     THEN <<Frame("close_enter", None), Frame("quit_destroy", None)>>
                     ELSE <<Frame("quit_destroy", None)>>)
    /\ UNCHANGED <<loadState, flags, events, window, messages, graph, lastOMD, dialog, data, sent>>

\* OnDestroy: asks the graph thread to exit and waits for five seconds.
MainDestroys ==
    /\ At("main", "quit_destroy")
    /\ messages' = Append(messages, [msg |-> "TM_EXIT", omd |-> None])
    /\ Goto("main", "quit_wait")
    /\ UNCHANGED <<loadState, flags, events, window, graph, lastOMD, dialog, data, sent>>

MainExits ==
    /\ At("main", "quit_wait")
    /\ At("graph", "exited") \/ GivesUp
    /\ IF At("graph", "exited")
       THEN Goto("main", "exited") /\ UNCHANGED <<messages, lost>>
       ELSE /\ Terminate
            /\ messages' = <<>>
            /\ stack' = [stack EXCEPT !["graph"] = <<Frame("exited", None)>>,
                                      !["main"] = <<Frame("exited", None)>>]
    /\ UNCHANGED <<loadState, flags, events, window, graph, lastOMD, dialog, nextOMD, freed, sent>>

-----------------------------------------------------------------------------

Open(t) ==
    \/ OpenCloses(t) \/ OpenActivates(t) \/ OpenPromptAnswered(t) \/ OpenLoads(t) \/ OpenFlags(t)

Private(t) ==
    \/ PrivateCreates(t) \/ DialogCreated(t) \/ DialogShown(t) \/ DialogDeleted(t)
    \/ PrivateChecks(t) \/ PrivateReports(t)

Handlers(t) == PostOpen(t) \/ OpenFailed(t) \/ FailedOpensNext(t)

Close(t) ==
    \/ CloseEnters(t) \/ CloseEndsDialog(t) \/ CloseLocksDialog(t) \/ CloseAborts(t)
    \/ CloseKills(t) \/ ClosePurges(t) \/ CloseStarts(t) \/ CloseWaits(t) \/ ClosePrivate(t)
    \/ CloseDone(t)

\* What a thread does without an outside cause, the rendering of media set apart.
Step(t) == Open(t) \/ Private(t) \/ Handlers(t) \/ Close(t)
Graph == Step("graph") \/ GraphTakes \/ GraphSignals
Main == Step("main") \/ MainHandlesResult \/ MainCallReturns \/ MainDestroys \/ MainExits

Next ==
    \/ Main
    \/ Graph
    \/ \E t \in Threads : PrivateRenders(t)
    \/ MainCommand \/ SentCommand \/ MainCalls \/ MainQuits

Spec == Init /\ [][Next]_vars

\* The operating system runs both threads, the user answers the message boxes, and media on the
\* main thread is rendered in the end.  Nothing says that the graph thread's media ever is.
FairSpec ==
    /\ Spec
    /\ WF_vars(Main) /\ WF_vars(Graph)
    /\ SF_vars(MainHandlesResult)
    /\ WF_vars(PrivateRenders("main"))
=============================================================================

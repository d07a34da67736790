# Formal models of MPC-HC

MPC-HC is a Windows media player built on DirectShow.  This directory holds
TLA+ specifications of the parts of it where threads meet, TLC configurations
that check them on small instances, and TLAPS proofs about them.  All source
paths below are relative to `src/src/` of the repository.

- [The system](#the-system): the inventory of components
- [Modules](#modules) and [how they map to the code](#subpicqueue)
- [Runs](#runs), [bounds](#bounds), [fairness](#fairness)
- [Proofs](#proofs)
- [Findings](#findings), [limits](#limits), [plan](#plan)

## The system

| Component | State | Operations | Interacts with | Hard behaviour | What makes it correct |
|---|---|---|---|---|---|
| `CSubPicQueue` (`SubPic/SubPicQueueImpl.cpp`) | `m_queue`, `m_pSubPic`, `m_rtNow`, `m_bInvalidate`/`m_rtInvalidate`, provider, event | SetTime, SetFPS, SetSubPicProvider, Invalidate, LookupSubPic, worker thread, destructor | video renderer (frames), decoder and UI (edits), provider (locks) | two mutexes, two condition variables, an event, unlocked fields; edits while a picture is being rendered | sorted and bounded queue, current picture shown, no stale picture, everyone returns |
| `CSubPicQueueNoThread`, `CXySubPicQueueNoThread` | `m_pSubPic` | LookupSubPic, Invalidate | same, and its presenter | rendering outside the lock while others release the picture; failures half-way | the picture kept is the current text's, a picture of the right time is drawn |
| Presenter base (`SubPicAllocatorPresenterImpl.cpp`) | time, delay, provider, queue | SetTime, SetSubPicProvider, Invalidate, Paint | queue, renderers, main frame | nested locks, callbacks | lock order |
| Allocators (`MemSubPic`, `DX9SubPic`) | surfaces, static picture | AllocDynamic, GetStatic, CopyTo | queue | reuse of surfaces | - |
| `CSubtitleInputPin` (`Subtitles/SubtitleInputPin.cpp`) | sample queue, subtitle stream, flags | Receive, EndOfStream, NewSegment, connections, decoding thread | splitter (samples), subtitle stream (lock), viewer (invalidation) | two locks taken in the other order; seeks while decoding | only the current segment's subtitles, every text announced |
| `CDirectVobSubFilter`, `CTextPassThruFilter` | subtitle streams, queue | Transform, AddSubStream, InvalidateSubtitle | pin, queue | lock held during lookup | no deadlock |
| Text subtitles (`STS`, `RTS`), bitmap subtitles (`PGSSub`, `DVBSub`, `VobSub`) | entries, segments | Add, RemoveAll, CreateSegments, SearchSubs, Render | pin, queue (as provider) | order of entries, tables of segments | search agrees with the entries |
| Splitter base (`filters/parser/BaseSplitter`) | packet queues, flush flags, demux position | QueuePacket, BeginFlush/EndFlush, seek, ThreadProc | upstream reader, downstream pins | flush racing delivery, full and starving queues | no old packet after a flush, no deadlock |
| Muxers (`filters/muxer`) | input queues | Receive, MuxHeader, MuxPacket | upstream | choice of the next packet | monotone output |
| Stream switcher (`filters/switcher`) | active input, formats | SelectInput, flush forwarding | both sides | switch during streaming | one active stream |
| Buffer filter, sources, readers | - | pass-through, I/O | - | - | - |
| Video presenters (`filters/renderer`) | samples, devices, threads | ProcessMessage, scheduler | mixer, D3D | sample reuse, device loss | every sample comes back |
| Playlist (`mpc-hc/Playlist.cpp`) | entries, position | move, shuffle, remove | UI | - | position stays valid |
| Main frame and graph thread (`mpc-hc/MainFrm.cpp`, `GraphThread.cpp`) | load state, flags, two events, graph, messages between the threads | OpenMedia, OpenMediaPrivate, CloseMedia, quitting, UI events | all | open aborted by close, time-outs and termination of a thread, results in transit, re-entered waits | one user of the graph, no stale result, open and close end |
| Event dispatcher, timers | receivers, callbacks | fire | UI | re-entrance | - |
| Subtitle downloads, update checker, web interface | tasks | search, download, serve | network | threads | - |
| Settings, theme, dialogs, DSUtil, DeCSS, CmdUI, MPCTestAPI | - | - | - | - | - |

`thirdparty/`, `include/` and the libraries are vendored and left aside.
`PROJECT.json` lists every component with its status and reason, and the
hazards of the code with the properties that cover them.

The core chosen first is the subtitle pipeline: its threads are written by
hand in this repository, without a framework that orders them, and it is where
the code's own comments speak of deadlocks, of sorted queues and of pictures
that must be rendered again.  The splitter base and the opening and closing of media
follow for the same reason: threads, flags and messages whose order nothing enforces.

    splitter --samples--> CSubtitleInputPin --edits under the lock--> subtitle stream
                                |                                         |  (provider)
                                +--InvalidateSubtitle(rt)--> CSubPicQueue <-+
                                                               ^     |
                                                       SetTime |     | LookupSubPic
                                                            video renderer

    main frame --TM_OPEN, TM_CLOSE--> graph thread      (both build and destroy the graph)
        ^                                  |
        +--WM_POSTOPEN, WM_OPENFAILED------+            two events for the waits

## Modules

| Module | What it is |
|---|---|
| `SubPicQueue` | the queue with its worker, renderer and clients |
| `SubPicQueueProperties` | its invariants, action and liveness properties, and the refinement |
| `TimedBuffer` | the abstract buffer the queue implements |
| `SubPicQueueProofs` | the theorems about its types, size, order, notifications, lookups, their search, outdated pictures, and who waits for whom |
| `SubPicQueueRefinement` | the theorem that the queue implements the buffer |
| `MCSubPicQueue` | the subtitle lists of the small instances |
| `SubPicNoThread` | the queue without a thread in its presenter, three threads and four locks |
| `SubPicNoThreadProperties` | its invariants, and what the code does not keep |
| `SubPicNoThreadProofs` | the theorems about it |
| `MCSubPicNoThread` | the texts and the symmetry of its instance |
| `SubtitleInputPin` | the pin, its decoder and the viewer, with its properties |
| `MCSubtitleInputPin` | the symmetry of its instances |
| `SubtitleInputPinProofs` | the theorems about it, and about what its threads wait for |
| `Splitter` | the splitter: the application, the demultiplexer's thread, a thread per pin |
| `SplitterProperties` | its invariants, action and liveness properties, and what its comments claim |
| `SplitterProofs` | the theorems about its types and about what survives a flush |
| `SplitterOrderProofs` | the theorems about the segments and the order of its packets, and that no thread waits in vain |
| `MediaLoader` | the main frame and the graph thread opening and closing media |
| `MediaLoaderProperties` | its invariants and liveness properties, the refinement, and what its comments and assertions claim |
| `MediaPlayer` | the abstract player the two threads implement |
| `MediaLoaderProofs` | the theorems about its types and about the owner of every `OpenMediaData` |
| `MediaLoaderProtocolProofs` | the theorems about the protocol of load states, events, messages and results, and that the two threads implement the player |

### SubPicQueue

A step is one critical section of `m_mutexQueue`, `m_mutexSubpic` or
`m_csSubPicProvider`, or one access to a shared variable that no lock
protects.  `lockQ` and `lockP` appear only where a lock is held from one step
to the next: `Invalidate` holds `m_mutexQueue` while it compares with the
unprotected `m_rtNow`, and `SetSubPicProvider` holds `m_csSubPicProvider`
during the whole of its `Invalidate`.

| Code | Actions |
|---|---|
| `Invalidate` 226-269 | `InvalidatePurge`, `InvalidateLower`, `InvalidateSignal` |
| `SetSubPicProvider` 73-82 | `SetSubPicProvider`, then the above |
| an edit by a decoder, then `Invalidate` | `EditSubtitles`, then the above |
| `SetFPS` 192-205 | `SetFPS` |
| `SetTime` 207-224 | `SetTime`, `SetTimeCheck`, perhaps `Invalidate`, `SetTimeStamp` |
| `LookupSubPic` 277-433 | `LookupReuse`, `LookupSearch`, `LookupFound`, `LookupAsk`, `LookupAwait`, `LookupTimeout`, `LookupSave` |
| `ThreadProc` 526-700 | `RenderTop`, `RenderWait`, `RenderFetch`, `RenderLock`, `RenderTail`, `RenderStart`, `RenderPos`, `RenderPicture`, `RenderFails`, `RenderEnqueue`, `RenderLate`, `RenderUnlock`, `RenderBlock`, `RenderNotify` |
| `~CSubPicQueue` 180-188 | `Destroy`, `DestroyProvider`, the steps of `Invalidate`, `DestroyJoin` |

The condition variables are the places `"full"` (the worker) and `"ready"`
(the renderer), from which only a notification, or for `"ready"` the timeout,
takes the thread back to its test.

What is abstracted, and why it is harmless:

- A picture is a record of its times, of the number of edits it was rendered
  after, of whether its pixels were copied, and of the providers whose positions and
  content it shows.  Sizes, pixels and surfaces do not influence control.
- A provider is a list of subtitles with times; it answers as the code uses
  it: positions in time order that do not overlap.  The shared lock of the
  provider is held by the worker where `Rendering` says so, and an edit waits
  for it.  The renderer's short Lock-ask-Unlock is one step, `LookupAsk`: it does
  not wait for the worker, since the shared lock counts its users.
- Each test reads `m_rtNow` once; the code reads it again for the assignment.
  Torn 64-bit reads of the 32-bit build are not modelled.
- `SetFPS` writes two durations in one step.  The purge of `m_pSubPic`, nested in the
  lock of `m_mutexQueue`, is part of `InvalidatePurge`.
- A picture that is not animated has the segment `INVALID_TIME`, for which
  `CSubPicImpl` returns its start and stop (`SubPicImpl.cpp` 66-74); the model
  stores those.
- `SetTime` comes from the renderer's thread.  `SetSubtitleDelay` may call it
  from the window's thread as well (`SubPicAllocatorPresenterImpl.cpp` 211-219); this is
  modelled for the queue without a thread only.
- `GetStats` changes nothing, and spurious wake-ups only repeat a test.
- Locals of a pass are reset at its end, which keeps equal states equal.

### SubtitleInputPin

A step is a critical section of `m_mutexQueue` or an unlocked flag access.
`owner` tells who holds `m_csReceive`, `m_mutexQueue`, `m_pSubLock` and
the viewer's lock (`m_csQueueLock` of `CDirectVobSubFilter`) between steps.

| Code | Actions |
|---|---|
| `NewSegment` 228-266 | `NewSegment`, `StopDecoding`, `ClearSamples`, `RemoveSubtitles`, `AnnounceSegment` |
| `Receive` 268-316, `EndOfStream` 318-330 | `Receive` or `EndOfStream`, `Enqueue`, `NotifyDecoder` |
| `CompleteConnect` 83-199 | `Connect`, `StopDecoding`, `ClearSamples`, `OpenStream` |
| `BreakConnect` 201-211, `ReceiveConnection` 213-226 | `Disconnect`, `StopDecoding`, `ClearSamples`, `DropStream` |
| `~CSubtitleInputPin` 65-72 | `Destroy`, `DestroyWake`, `DestroyJoin` |
| `DecodeSamples` 340-389 | the actions named `Decode...` |
| `CDirectVobSubFilter::Transform` 301-317 | `ViewFrame`, `ViewLookup`, `ViewDraw` |

A sample is its kind (data, or the null pointer of `EndOfStream`), its start
and, as history, the segment it was received in.  Formats are three: text,
WebVTT (text that a seek keeps), and `rle`, which stands for every bitmap format: those
return no time to announce from.  Only RLE formats accept samples without
times.  Decoding one sample is one step because the decoder holds
`m_pSubLock` and `m_mutexQueue`.  Before it announces the texts it gives up `m_pSubLock` (381),
which the viewer may want, but not `m_mutexQueue`: the `unique_lock` of 345 lives to the end
of the iteration (388), so `InvalidateSubtitle` (386) waits for the viewer's lock with the
queue locked, and calls that want the queue wait behind both.  The plain `bool` flags are taken to be
sequentially consistent.  DirectShow calls connections and the destructor only
while nothing streams: `Quiet` and `Connecting` say so.

### Splitter

Three kinds of threads meet: the application's call (`Pause`,
`SetPositionsInternal`, `Stop`), the demultiplexer (`ThreadProc` of the filter
with the `DemuxLoop` of `CDSMSplitterFilter`), and a thread per output pin.
Nothing but the flags `m_hrDeliver`, `m_fFlushing`, `m_fFlushed`, the lock inside
the packet queue and an event orders them, so a step is one access to one
of these.

| Code (`BaseSplitter.cpp`) | Actions |
|---|---|
| `Pause` 1205-1221 | `Pause` |
| `SetPositionsInternal` 1432-1498, `Stop` 1189-1203 | `Seek` or `Stop`, the flush below, for `Stop` then `ExitPin`, `Exited` |
| `DeliverBeginFlush` 934-941 and of a pin 333-345 | `ResetPin`, `FlushPin`, `RefusePackets`, `ClearQueue`, `FlushDownstream`, pin by pin |
| `CallWorker` | `CallDemux`, `Called` |
| `DeliverEndFlush` 347-358 of a pin and 943-951 | `SkipPin`, `EndFlushDownstream`, `AcceptPackets`, `EndFlushPin`, `EndFlush` |
| `ThreadProc` 955-1018 | `DemuxStart`, `DemuxBegin`, `DemuxWait`, `DemuxAnnounce`, `DemuxSegment`, `DemuxAnnounced`, `DemuxLoopEnds`, `DemuxEnd`, `DemuxRequest` |
| `DemuxLoop`, `DeliverPacket` 1021-1082, `QueuePacket` 394-413 | `DemuxRead`, `DemuxQueue`, `DemuxAdd`, `DemuxQueued`, `DemuxRefused` |
| `ThreadProc` of a pin 438-508 | `PinStart`, `PinRestart`, `PinExit`, `PinTake`, `PinFindsNone`, `PinTest`, `PinPlace`, `PinWait`, `PinCheck`, `PinReport` |
| `DeliverPacket` of a pin 510-648 | `PinGrows`, `PinDelivers`, `PinFails` |

The pin downstream is external: it flushes, takes a packet, blocks or fails.  A
packet is the number it has in its run and, as history, the run itself: a run
begins with a start or a seek, and `seg` is the run whose segment the pin
downstream was last told of.

`raced` marks a pin whose thread once began in the middle of a flush.  Such a thread
resets the flags of the flush (443-445) and ends the flush downstream
(461), so none of the promises hold for it; finding 7 shows it.  The mark stays until
the end of the behaviour because the packets and results of that time may come late.

What is abstracted, and why it is harmless:

- Packets are of one size, so the limits by bytes in `QueuePacket` and
  `IsAnyPinDrying` coincide with those by number.  `IsAnyPinDrying` also ends the
  waiting when all pins together hold few packets; `QueuePacket` asks it only for a
  full queue, for which this never holds, and it reads the queues in one step.
- Assignments that nobody reads in between, or that commute with all that others do,
  share a step: the four of `PinStart`, the last three of `EndFlushPin`,
  `m_pActivePins.RemoveAll` after the wait, the reply to a seek with the
  `DemuxSeek` after it.
- Left out because nothing in the model reads them: priorities, bit rates,
  `MakeISCRHappy`, discontinuity marks, media types sent with packets, packets that are
  appended to one another, the exception for Haali's renderer.
- `SetPositionsInternal` ignores a seek that was asked before (1454-1492): a `Seek`
  is one that passed these tests.  `DemuxInit` succeeds, all outputs are connected.
- `Pause` creates all threads in one step; each begins when it likes.

### SubPicNoThread

The queue the presenter uses when no pictures are buffered: the thread that paints a
frame renders its subtitle first.  The renderer's thread paints for each frame; the main
thread paints when it changes the provider or the delay; the decoder's thread adds texts
and calls `Invalidate`.  `lockR`, `lockS` and `lockP` are `m_RenderLock`, the main frame's
`m_csSubLock`, which each provider's `Lock` takes, and `m_csSubPicProvider`, where they are
held from one step to the next.  The queue's `m_csLock` and the allocator's `m_staticLock`
are held for one step only.

| Code | Actions |
|---|---|
| `CSubPicQueueNoThread::Invalidate` 740-749 | `Invalidate` |
| texts added by the decoder, styles changed (`MainFrm.cpp` 19358-19366) | `EditTexts`, `Announce`, then `Invalidate` |
| `CMainFrame::SetSubtitle`, `ToggleSubtitleOnOff` | `SetSubtitle` or `SwitchOff`, then the next row |
| `SetSubPicProvider` of presenter (229-243) and queue (73-82) | `SwitchFrees`, `SwitchProvides`, `Invalidate`, then the painting |
| `SetTime`, `SetSubtitleDelay` | `SetTime`, then the painting |
| `AlphaBltSubPic` 95-110 | `Paint`, the lookup, `Draw` |
| `LookupSubPic` 761-856 | `LookupCopies`, `LookupFetches`, `LookupLocks`, `LookupAllocs` or `LookupAllocFails`, `LookupUnlocks` |
| `GetStatic` (`SubPicImpl.cpp` 308-333) | `LookupGetsStatic`, `LookupAddsRef` |
| `RenderTo` 114-151, `CopyTo` | `LookupRenders`, `LookupCopiesPixels` |

Pictures are numbered objects because several owners refer to them: `m_pSubPic`, the local
pointer of a lookup and its result.  Two suffice, as one lookup runs at a time; a picture
without owners becomes `Blank` again.  A picture has its times, the look drawn (a number
that stands for the pixels), whether it was drawn, and as history the provider its times
and its pixels come from.  A text's look stays the same while it lasts; an animation's is
rendered in the middle of a sub-frame.  `SetFPS` is left out: the sub-frame is a constant.

### MediaLoader

Both threads run the same procedures, so each has a stack of frames, and an action takes
the thread as its parameter.  A frame has a place, the `OpenMediaData` it owns and, in
`CloseMedia`, whether it terminated the graph thread.  A step goes from one access to shared state,
or one wait, to the next: `CloseMedia` purges the two kinds of results in two steps, between
which the graph thread may still post one.  `evOpen` and `evClose` are auto-reset events
(`CEvent(FALSE, TRUE)`): a wait that ends resets them, and they are set at first.

| Code (`MainFrm.cpp`) | Actions |
|---|---|
| `OpenMedia` 17087-17197 | `OpenCloses`, `OpenActivates`, `OpenPromptAnswered`, `OpenLoads`, `OpenFlags` |
| `OpenMediaPrivate` 13834-14133 | `PrivateCreates`, `PrivateRenders`, `PrivateChecks`, `PrivateReports` |
| `OpenCreateGraphObject` 12003-12108 | `OpenCreateGraphObject`, part of `PrivateCreates` |
| `ShowMediaTypesDialog` 12131-12140 | `DialogCreated`, `DialogShown`, `DialogDeleted` |
| `OnFilePostOpenmedia` 3711-3908 | `PostOpen` |
| `OnOpenMediaFailed` 3910-3973 | `OpenFailed`, `FailedOpensNext` |
| `CloseMedia` 17216-17344 | the actions named `Close...` but the next two |
| `CloseMediaPrivate` 14135-14250 | `ClosePrivate` |
| `OnFilePostClosemedia` 3975-4040 | `CloseDone` |
| `CGraphThread` (`GraphThread.cpp` 51-103) | `GraphTakes`, `GraphSignals` |
| commands, results, calls to the graph thread | `MainCommand`, `MainHandlesResult`, `MainCalls`, `MainCallReturns` |
| `OnCopyData`, sent into a wait | `SentCommand` |
| `OnClose`, `OnDestroy` 1137-1185 | `MainQuits`, `MainDestroys`, `MainExits` |

An `OpenMediaData` is a number and travels as the code's bare pointer does: in a frame, a
message, a result or `lastOMD`.  `freed` and `lost` are what became of the others.
`TM_CALL` stands for the messages (display change, reset of the device) the main thread sends
and waits for.  Graph building is one step that may last for ever; its failures, and the
`checkAborted` tests in it, are `PrivateChecks`.  `OpenCreateGraphObject` may also throw while `m_pGB`
is still null (12028-12038, 12071), as it does for a Flash file without the Flash control: such an open reports
its failure without a graph.  The windows, menus, histories and
device clean-ups of the handlers do not influence the protocol and are left out, as is the
three-second wait of `OpenMedia` (17087-17092), which ends in `CloseMedia` in any case.  `PromptFlag`
tells whether the main thread gets from `PostThreadMessage` (17192) to the flag it sets
next (17193) before the graph thread has built a whole graph.

`MediaPlayer` says what all of this amounts to for the rest of the program, in three variables and
without threads: one media is opened at a time (`Open`), its graph is built once while it is
loading (`Build`), only then it is loaded (`Load`); it may fail with or without a graph (`Fail`); either
way it is remembered, and what was opened is destroyed and forgotten (`Destroy`) between the beginning and the end
of a close (`Close`, `Closed`).
The mapping is direct: `loadState`, `graph`, `lastOMD`.  That no second graph is built over the first, no late result
makes a media loaded that another open has replaced, and no close ends with a graph standing, is what
the messages, events, flags and purges are for.  A command of another program
that has entered a wait breaks the promise (finding 13): from then on the mapping yields `INTRUDED`.

## Runs

| Run | Question | Result |
|---|---|---|
| `queue_safety` | is the queue sorted and bounded, is every notification sent, does a lookup find the right picture, is no outdated picture let in, does the queue implement `TimedBuffer`? | holds |
| `queue_progress` | do calls, passes and the destructor end, though surfaces fail? | holds |
| `queue_play` | is a subtitle that should be visible shown in the end? | holds |
| `queue_copy_fails` | the code's own comment | violated, see findings |
| `no_thread` | with changes of provider, texts and time and with failures at every point of a lookup: is the picture kept the current text's, is one of the right time drawn, can everybody go on? | holds |
| `pin_safety` | are subtitles of an old segment gone after a seek, is every text announced, is the decoder never decoding for nothing? | holds |
| `pin_progress` | do samples leave, do calls return, does the destructor? | holds |
| `splitter_safety` | with seeks, stops and failing deliveries: is little of the old left after a flush, do packets come under their segment, in order and complete? | holds |
| `splitter_progress` | do seeks and stops return though queues are full and deliveries blocked? | holds |
| `splitter_play` | with two pins, does each active pin get the end of the stream, and do the queues keep their limit? | holds |
| `media_loader` | does the graph have one user, is every result fresh, every `OpenMediaData` owned once, nothing left in the closed state; do the two threads implement `MediaPlayer`; do opening, closing and quitting end? | holds |
| `media_main_thread` | the code's own assertion | violated, see findings |

Every property of a passing run has a mutant in `PROJECT.json`: a change of one
mapped definition, such as a forgotten notification or a test off by one,
under which TLC finds the property violated.

Deadlock checking is off everywhere: after the destructor, or when the bounded
calls are used up and no one is waiting for anything, the system rightly stops.  That
nobody stops earlier is what the liveness properties show.

### Bounds

`MaxTime`, `MaxSetTime`, `MaxEdits` (queue) and `MaxTime`, `MaxSamples`,
`MaxSegments` (pin) bound what the environment does; they stand in guards of
the calls and nowhere else.

- Queue: two pictures fill it (one in the liveness runs), so it is empty, partly filled,
  full, and the worker blocked, with subtitles left to render.  One edit is the provider's
  arrival, the other changes it or its texts while a rendered picture waits for room.  Two
  `SetTime` calls give a seek in either direction.  The list of the safety run is an animation
  and a text without a known end: at a frame of two units the animation takes several pictures
  whose segments overlap, and the last text another picture for each frame.  The lists of the liveness runs
  are short texts, with a gap between them in `queue_play`, where also the frame time changes
  between two and three units.  The case `StaleOnlyIfOverwritten` allows needs
  three edits and a queue of one: finding 5 gives the instance, the theorem covers all.
- Queue without a thread: two providers (interchangeable, so symmetric), a change of texts and two switches,
  times 0 and 1, and three lists: a text without a known end, the same once an
  animation follows it, and that in another style.  One lookup runs at a time, so one change
  of texts and a switch, in any order, already meet it at every step; the second switch
  brings back the first provider.
- Pin: two callers, so a seek meets a `Receive` or `EndOfStream`; two samples
  and two segments, so one of each is old; two times, so the earliest differs
  from the latest.  The callers are interchangeable and the safety run uses
  that symmetry; the liveness run does not.
- Splitter: `Length` and `MaxRuns` bound the file, and starts and seeks; they stand in
  guards of `Pause` and `Seek` and in the file the demultiplexer reads.  The three runs of
  `splitter_safety` give two seeks after a start, or a seek around a stop and a restart: what
  one flush leaves behind meets the next.  Queues of one packet (three while another pin is
  drying) are full with the file of two or three.  One pin is enough for the races of
  a flush, for pins share nothing but the list of active pins and the drying test;
  `splitter_play` has two pins for these, one of which may be switched off.
  `splitter_progress` takes two runs and a file of one packet, which with the end of the
  stream fills the queue while a delivery blocks.
- Media loader: four media, the last of which is opened on the main thread, give chains such as an aborted
  open, a failing one, its successor and one more; each may meet a close, a
  time-out or the end of the program.  `MaxSent` is one command of another program.

### Fairness

Queue: weak fairness for the worker, for the steps of a call under way, and for
nothing else: a thread that can run is scheduled.  Calls, failures
and the passing of time need not happen.  The 250 ms wait ends
because its timeout is a step of the renderer.  `queue_play` adds
that the renderer goes on drawing frames and does not seek back.

Pin: strong fairness for the decoder and for calls, since they compete with
the viewer for locks that are free again and again; a Windows critical section
does not starve a waiter for ever in practice, and no code here relies on less.
The viewer need not draw any frame, but one it began goes on.

Splitter: weak fairness for each thread's own steps.  A delivery may block for as long
as it likes; it is sure to return only while the pin downstream is flushed or the graph
stops, which is what DirectShow asks of that pin.  `PlaySpec` adds, for the runs in which the
graph plays, that each delivery returns.  No call need ever be made.

Media loader: weak fairness for each thread's own steps, for the operating system runs both and the
user answers message boxes.  Strong fairness for `MainHandlesResult`: commands compete with posted results
for the idle main thread, but the window's queue is served again and again.
Rendering ends on the main thread (`WF_vars(PrivateRenders("main"))`), where nobody could abort
it; on the graph thread it may last for ever, and the five seconds of `CloseMedia` are
what helps.

The queue without a thread has no liveness property: every call is a finite sequence of steps, so
`NoDeadlock`, that some thread of those in a call can go on, is what is left to show.

## Proofs

`SubPicQueueProofs` proves, for every set of clients, providers and subtitle
lists and every queue size, frame time and bound:

- `TypeCorrect`: `Spec => []TypeOK`
- `Bounded`: `Spec => []QueueBounded`
- `Ordered`: `Spec => []StopsAscend`

`QueueBounded` is no property of a run by itself: `ImplementsBuffer` says it of the stops.  The
theorems rest on the named assumptions of `SubPicQueue` only, above all that a provider's
subtitles are in time order and do not overlap (`TrackAssumption`).

Neither the types nor the order are inductive alone.  `Place` adds where the
worker's locals are meaningful: during a pass it has a provider, while it renders
`pos` is a position of the provider's list (an edit of that list waits for the
shared lock), and while it enqueues it has a picture.  `OrderInv` strengthens the
order: the picture in the worker's hands ends after everything in the queue, because the worker read
the tail's stop when it started the pass, takes subtitles that end later, and the
others only ever remove pictures in between.  `NextType` and
`NextOrder` have one step per action; `Inductive` combines them and the
theorems follow by PTL.

It also proves, under the same assumptions, what needs several threads to go wrong:

- `FullAlwaysNotified`: `Spec => []FullNotified`, and `ReadyAlwaysNotified`:
  `Spec => []ReadyNotified`.  With the types, the bound and the order these are inductive: whoever
  makes room or adds a picture stands, until it has notified, at a place the invariant names.
- `LookupShowsClock`: `Spec => []ResultShowsClock`.  `ResultInv` says of every place of a
  lookup, not only of its end, that the candidate in hand covers the time asked for.
- `OutdatedRefused`: `Spec => StaleOnlyIfOverwritten`.  `EditInv` says that while the worker has
  a picture that edits came after, `m_bInvalidate` is set or an `Invalidate` is about to set
  it, and at which places the worker has no picture.
- `LookupIsExact`: `Consistent => (Spec => LookupFindsExact)`.  `MadeInv` says that every queued
  picture was rendered for a subtitle of some list, lies in its segment, and that not
  only the stops but also the starts ascend; so the first picture the search does not pass over is the exact
  one.  `Consistent` asks that subtitles which overlap, in one list or two, begin together and are
  both animated or both not.  A list to which a decoder adds subtitles, which loses some, or in which
  a stop becomes known meets it, and so does any single list, as in the run.  Without it the property is false: between an edit and its
  `Invalidate` the worker may queue a new text of 0 to 4 behind an old one of 2 to 3, and a lookup at 1 stops at the latter.
- `WaitsServed`: `Spec => [](LocksHeld /\ JoinServed)`.  Locks are held from step to step by an `Invalidate` only, which
  waits for `m_mutexQueue` at most, so no lock is waited for in a circle.  The destructor's `join` never waits for a
  worker that sleeps.  This is less plain than it looks, for the worker tests `m_bExitThread` only between
  passes and notifies nobody of a full queue: `Drained` says that after the destructor's `Invalidate(-1)` the queue
  holds at most the one picture the worker had in hand, because `RenderTo` fetches the provider again (120) and finds
  none.  A worker that rendered with the provider it has locked could fill the emptied queue and sleep for ever.

`SubPicQueueRefinement` proves `QueueIsBuffer`: `Spec => ImplementsBuffer`.  `QueueSteps` says how
a step changes the queue, in words of its pictures: it stays, a picture is added behind those that
end before it, some in front go, or those that end after a time go.  A cut is a prefix only
because the stops ascend, so `StopsAscend` is a part of the argument.  `StepRefines` carries this
to the stop times by `StopsOfPart`, for the mapping forgets all else.

`SubPicNoThreadProofs` proves, for all providers, tracks, times, edits and switches:

- `LocksMatchPlaces`: `Spec => []TypeOK`, whose last part is mutual exclusion: each lock is held
  exactly at the places of the code that hold it.
- `LookupInTime`: `Spec => []DrawnInTime`.  `LookupInv` carries from place to place that the text
  found covers the time asked for: the provider's lock keeps edits out, `m_RenderLock` every
  other lookup, and `Invalidate`, which waits for neither, leaves the local references alone.
- `StoredIsRight`: `Spec => []StoredRight`.  `StoredRight` is not inductive: an edit may come
  between the rendering and the lookup's end, or before its own `Invalidate`.  `StoreInv`
  says of the stored picture that it is of the present provider and `Fits` the texts, or is
  `Doomed`, that is, the `Invalidate` that will release it is under way.  `Fits` asks only for what is
  seen at the picture's own times, and so survives an edit from its end on (`EditKeeps`).
- `NoCircularWait`: `Spec => []SomeoneGoesOn`.  `NoDeadlock` is stated with `ENABLED`, which the prover
  cannot treat; this says the same by the guards.  `Waits` names the places that wait for a lock, which are all the
  places of a call whose step can be disabled; some thread in a call is at none of
  them, because the locks are taken in one order and `Invalidate`, run with the last of them, waits for none.

That `FirstAt` chooses a least text takes `LeastNat`, which follows from the well-foundedness of
`<` in the library.  The assumptions are those that `SubPicNoThread` names.

`SubtitleInputPinProofs` proves, for any number of calling threads, times, samples and segments:

- `PinTypeCorrect`: `Spec => []TypeOK`
- `SeekDiscards`: `Spec => []FreshAfterSeek`
- `NoTextUnannounced`: `Spec => []TextAnnounced`
- `DecodesForStream`: `Spec => []StreamWhileDecoding`

The invariant is `PinInv`.  Its part `CallInv` says at which places a call may stand, which calls
hold `m_csReceive`, and that connections and the destructor run alone.  `SampleInv` says
that what is queued is of the present segment unless the seek that will discard it is on its
way, and likewise what a call is about to queue.  `FreshAfterSeek`, which speaks of the stream, is not inductive alone.

Two more theorems are about waiting:

- `LocksAreReleased`: `Spec => []HoldersGoOn`.  Every chain of waits ends at a thread that goes on.  The
  decoder announces with `m_mutexQueue` held and may wait there for the viewer's lock, which the viewer has then and
  goes on with; the viewer waits for `m_pSubLock` only, and whoever holds that goes on; `m_csReceive` is held only by
  calls that wait for these three.  `LockInv` says at which places each lock is held; that the decoder has given up
  `m_pSubLock` where it announces ("IMPORTANT", 385) is what breaks the circle, and so it must be `m_pSubLock`, not
  `m_mutexQueue`, that the viewer's lookup takes.
- `DecoderIsWoken`: `Spec => []WokenUp`.  `WakeInv` says what still holds of the queue between the decoder's look
  and its sleep, for `m_mutexQueue` keeps `Enqueue` out there; `exit` is set without it, so the destructor's
  notification may be missed (see `DestroyEnds` at the end of the findings).

`SplitterProofs` proves, for every number of pins, every limit of the queues, every
set of failures and every length of the file and number of runs:

- `TypeCorrect`: `Spec => []TypeOK`, with the queues' limit of `QueuePacket`
- `StaleBounded`: `Spec => []StaleAtMostOne`
- `LateBounded`: `Spec => []LateAtMostTwo`

The types need `Place`: where the locals are meaningful, that only the demultiplexer adds to
a queue and found room before, and that runs begun and runs asked for are no more than the
calls.  `StaleAtMostOne` is not inductive: why one old packet at most survives
depends on the order in which `DeliverBeginFlush` sets its flags.  `FlushInv`
says that from the clearing of a pin's queue until the demultiplexer answers, the pin
refuses packets and its queue holds at most the one packet that was already on its way;
the pin's thread cannot undo the refusal, for what it reports is a failure (`Failed`).
`RestInv` carries that to a stop and the next start.  `LateInv` then counts: what was delivered late,
what the thread has in hand and what is at the head of its queue are two at
most, and all but the last two are reset with the segment.  `NextInv` combines the
lemmas, one per part of the invariant with one step per action that changes it.  They rest on
`OutputsAssumption`, `QueueAssumption` and `BoundAssumption`.

`SplitterOrderProofs` adds, under the same assumptions:

- `SegmentFits`: `Spec => UnderItsSegment`.  A pin that is flushing ignores the new segment, and
  nothing tells it later.  That does no harm because of `FlushOrder`: while a flush is being ended the
  demultiplexer is gone or waits for its end with `m_eEndFlush` reset, so `m_fFlushing` of the pin
  outlives the run.  `Past` says that no packet is of a run whose segments are not announced yet, and
  `Told` that a pin which is active, or has a packet of the run, knows its segment, or is flushed.
- `DeliveredInOrder`: `Spec => InOrder`.  The packets of a pin form a line across three threads:
  what was got, what the pin's thread has in hand, the queue behind its one old packet, what the
  demultiplexer is adding.  `Lined` says that the numbers ascend by one along it up to `sent[p]`.
  A delivery that fails leaves a gap; `Broken` says how the pin then delivers no other packet:
  its thread is about to report the failure, which no flush of this run excuses (`HandInv`), or
  `m_hrDeliver` refuses the rest.  `StaleAtMostOne` is a part of the argument.
- `WaitsEnd`: `Spec => []WaitersServed`, the part of `CallsReturn` that needs no fairness.  A call waits for the
  demultiplexer only while that can go on (a full queue does not hold it, for the pin refuses
  packets), and for a pin's thread to exit only while that can; the demultiplexer waits for the
  end of a flush, or a pin's thread for its event, only while a call that will set it goes on; and a full queue has a
  thread that takes from it or waits for such an event.  So the waits cannot form a circle.  `WaitInv`
  says where each event, request and exit stands with the places of the others: `Awaited` (a flush is waited for only after
  it was answered), `FlushEnds` (an event that is reset is set by the call under way), `ExitInv` and `Living` (threads end
  one by one, after the demultiplexer).  The flushes with a pin whose thread began meanwhile (`raced`) are excepted, as in
  `CallsReturn`.

`MediaLoaderProofs` proves, for any number of media and of commands, any set of media built on the
main thread and both values of every setting:

- `MediaTyped`: `Spec => []TypeOK`.  `TypeInv` says more than the types: which frames own an
  `OpenMediaData` and which never point to one, that of the messages to the graph thread only `TM_OPEN`
  carries one, and that the frame that quits the program stands at the bottom of its stack.
- `OwnedByOne`: `Spec => []OwnedOnce`.  An owner is a place in a stack, a message, a result,
  `lastOMD`, `freed` or `lost`.  The property counts owners; the invariant `Own` says the
  same by sets: no media stands twice in a stack or a queue (`OnceEach`), and the seven sets of media are
  disjoint and make up the numbers given out (`Partition`).  What each operation on a sequence
  (push, pop, append, remove, exchange the head) does to the media it holds is stated once, and a step of
  the model is one such operation on the source and one on the target of the pointer.  `OwnImpliesOwnedOnce`
  at the end turns the partition into the number one.

They rest on `MediaLoaderAssumption` only; terminations, purges and commands sent into a wait are
among the steps.

`MediaLoaderProtocolProofs` proves that the protocol keeps the two threads apart although neither the
graph nor the flags have a lock.  Like the properties it speaks of what happens before another program's
command has entered a wait (`Undisturbed`), for the code breaks them afterwards (finding 13).  The
invariant is `Shapes /\ Proto` with the types.  `Shapes` says which procedure may stand on which in
a stack, that the graph thread handles one message at a time, and that one request at most is
queued; so the frame on top tells what a thread is doing.  `Proto` has eighteen parts, each about what one thread
may rely on while the other is at a certain place: while an open is asked for or under way
nothing of another one is left (`OpenAlone`, `OpenFresh`), the event is set only when it
is over (`OpenEnds`), the main thread waits as long as the graph is destroyed (`CloseAlone`, `CloseEnds`),
the flag tells which thread builds (`Flagged`, `Unflagged`), a terminated thread has nothing to do
(`KilledIdle`), one result at most is queued, about the graph that stands if one was created (`OneResult`), the load
state follows the main thread (`Aborting`, `Closes`, `Closed`), calls and the exit of the graph thread are
waited for (`CallEnds`, `ExitAlone`), and media that is loading is in somebody's hands (`Carried`).  `ProtocolPreserved` has a step for each
action; from the invariant follow

- `ProtocolExcludes`, `ProtocolDelivers`, `ProtocolCleans`: `Spec /\ []Hyp` implies
  `[]GraphExclusive`, `[]ResultFresh` and `[]ClosedClean`;
- `ProtocolLosesNothing`: `Spec /\ []Hyp => LostByTermination`.

`Hyp` is what the protocol rests on: results are handled on the main thread (the assertion
`ResultsOnMain`, which is finding 2), and no media is handed to the graph thread inside an open
that is built on the main thread.  The code does not always keep it, as the run `media_main_thread` shows, so it
has to be derived from a condition on what is opened:

- `ProtocolStands`: `MainMediaLast /\ PromptFlag => (Spec => []Hyp)`
- `GraphHasOneUser`, `ResultsAreFresh`, `ClosesClean`, `LosesOnlyByTermination`: the four properties
  under the same conditions.

`PromptFlag` is the timing of 17192-17193.  `MainMediaLast` says that after media built on the main
thread no other media is handed to the graph thread.  It is met when line 17155 decides alike for all
media (none is built by the graph thread when `fEnableWorkerThreadForOpening` is off), and by the run `media_loader`, which has both kinds; the constants of
`media_main_thread` do not meet it.  Both conditions speak of constants, so no behaviour is left
out silently.  The invariant of `ProtocolStands` is `Whole`: the above with `Handing`, which says that
nothing standing on an open built on the main thread is handing media over, or has media to hand over.  It is inductive together with `Proto`
only, for the graph thread handles a result itself exactly when the flag was
cleared too early.

From `Whole` follow also, under the two conditions:

- `LoaderIsPlayer`: `Spec => ImplementsPlayer`.  `PlayStep` says in the model's own words what a step
  may do to the load state, the graph and `lastOMD`; one lemma for each group of
  actions (`OpenPlays`, `PrivatePlays`, `HandlersPlay`, `ClosePlays`) shows it by the part of `Proto` about the place
  the step is taken from, and `StepRefines` turns it into a step of the player or a stutter.
- `LastIsTheOneThatStands`: `Spec => []Remembers`.  Media that is loaded is `lastOMD`, and its graph stands; of
  media that failed no graph but its own stands, and perhaps none; it is forgotten before the next media loads.
  `Remembers` is inductive under the steps of the player, which `PlayStep` has shown all steps to be.
- `WaitsAreAnswered`: `Spec => []WaitsAnswered`, and `LoadingIsCarried`: `Spec => []LoadingCarried`.  These are the
  parts of `CloseCompletes` and `OpenResolves` that need no fairness: the main thread never waits for an answer
  nobody is going to give, and no loading is left with nobody to end it.

Only model-checked: the absence of a deadlock (`NoDeadlock` of the queue without a thread),
which is stated with `ENABLED` and proved only as `NoCircularWait`, and all liveness properties;
both are out of the prover's reach.  For each liveness property about calls that return, the
proved invariants about notifications, locks and answers are the part that holds without
fairness: `FullAlwaysNotified`, `ReadyAlwaysNotified`, `WaitsServed`, `LocksAreReleased`,
`DecoderIsWoken`, `WaitsEnd`, `WaitsAreAnswered` and `LoadingIsCarried`.
Every other property of a passing run is a theorem.

## Findings

Two have a run of their own.

1. `AllDrawn` (`queue_copy_fails`): when `CopyTo` fails (650) the picture without pixels is
   queued at the end of the pass (691), as if the queue had been full.
2. `ResultsOnMain` (`media_main_thread`): an open on the main thread that fails opens the next
   entry of the playlist on the graph thread (3966).  The outer `OpenMedia` then clears
   `m_bOpenedThroughThread` (17196), and the graph thread calls the handler of its result itself,
   which the assertion at 14117 of `MainFrm.cpp` excludes.  The same happens without a failure when the graph
   thread is done between 17192 and 17193 (`PromptFlag = FALSE`).

The property modules state more that TLC refutes in a moment, when they are put in the place
of the properties of the `.cfg` named with them.

Queue (`SubPicQueueSafety.cfg`):

3. `SeekBackSeen`: `Invalidate` forgets the last time (`SubPicQueueImpl.cpp`
   236), so a backward seek right after it is not seen by `SetTime` (215),
   although the comment at 214 relies on that.  Until playback catches up, the
   pictures queued for later keep the worker from rendering.
4. `NoStaleShown`: a lookup saves the picture it found (414)
   after an `Invalidate` purged both the queue and `m_pSubPic`.
5. `NoStaleQueued` (with `Size = 1` and `MaxEdits = 3`): `Invalidate(2)` after `Invalidate(1)`
   raises `m_rtInvalidate` (235) while the worker still holds a picture that ends at 2 and is of
   before the first; the test at 490 lets it in.  `StaleOnlyIfOverwritten` shows that
   this is the only way.

Splitter (`SplitterSafety.cfg`):

6. `OnlyUnflushedErrors`: of two seeks in a row the second resets `m_fFlushed`
   (`BaseSplitter.cpp` 336) after the thread passed the event of the first (498) and
   before it tests the flag (500).  It then reports the error the flush caused.  The
   pin refuses packets until the next seek when the report comes after the second
   flush.  `EndReached` is stated up to such an error.
7. `NotFlushing`: a pin's thread tests `m_hrDeliver`
   (487) and asserts `!m_fFlushing` (488); a flush that begins in between fails the
   assertion in a debug build.  In a release build the packet is refused or flushed
   downstream, or it is one of the two of `LateAtMostTwo`.
8. `FlushReleases`: a pin's thread that begins while a
   seek flushes ends the flush downstream (460-461) and accepts packets (443): a
   delivery may block with nothing to release it while the application waits for the
   demultiplexer.
9. `AskedBeforeBegin`: `Stop` on a stopped filter leaves
   `m_hrDeliver` refusing, as `DeliverEndFlush` returns early for want of a thread
   (349).  After the next start the demultiplexer may be refused before the pin's thread
   has reset it, and forgets the pin; the constructor (195) guards against just that.

Queue without a thread (`SubPicNoThread.cfg`):

10. `StoredDrawn`: `RenderTo` sets the times of a picture although rendering it failed (146), and `CopyTo`
    copies them before the pixels; the next lookup takes the undrawn picture for a match.
11. `OneProvider`: `RenderTo` fetches the provider again (120).  After a change of provider
    it renders the new one's text, whose lock it does not hold, with the old one's times.
12. `SurfaceAlive`: `GetStatic` copies the pointer under `m_staticLock` and calls `AddRef` after
    releasing it (`SubPicImpl.cpp` 327-330); `SetSubPicProvider` may free the surface in between.

Media loader (`MediaLoaderSafety.cfg`):

13. `OpensClosed` and `NotReentered`: `WM_COPYDATA` is handled in the wait of `CloseMedia`
    (17326-17344), and opens media there, although the comment at 17324 wants that blocked; the
    assertion at 17102 then fails, because the inner `CloseMedia` returns at once.
14. `DialogClosed`: `ShowMediaTypesDialog` takes `lockModalDialog` (12131) after `CloseMedia` looked
    for a dialog; the graph thread is terminated with the dialog up and the lock held, although
    the comment at 17254 waits for that.  `CloseCompletes` is stated up to it.
15. `ActiveOnce`: when the user cancels the prompt for a missing drive, `OpenMedia` returns with
    `m_bOpenMediaActive` set (17131-17133), and the assertion at 17105 fails in the next one.
16. `AbortsThreadOnly`: the flag of an earlier open on the graph thread is still set while media
    is opened on the main thread, which therefore posts its result and clears the flag after
    (17196).  A close that comes before the result finds media loading with the flag cleared,
    against the comment and assertion at 17245-17246, and waits five seconds for a graph thread that has nothing to do.

A packet that survives a seek in a queue may be an end of stream: the demultiplexer that
was adding it when the queue was cleared makes the pin deliver it, before or after the
new segment.  `StaleAtMostOne` and `LateAtMostTwo` count it like any other.

`DestroyEnds` of the pin holds up to `missed`, the lost wake-up of a destructor
that notifies without `m_mutexQueue` (65-72 of `SubtitleInputPin.cpp`): if the
decoder is between its test and its sleep, `join` waits for ever.

## Limits

Not modelled: the components marked so in `PROJECT.json`; memory ordering
below sequential consistency; the provider's own critical section and its ownership
when the shared lock is released by another thread than the one that locked it
(`SubPicQueueImpl.h` 48-82); what other filters do; the commands of other programs that the main
thread's own dialogs let in while it builds a graph, and the messages it handles inside the
`SendMessage` that closes the dialog of the graph thread (`MainFrm.cpp` 17253).  What code outside the repository
does (DirectShow's streaming contract, a provider's answers) is taken from how
the source uses it.

## Plan

Done: `SubPicQueue` with `TimedBuffer` and its proofs; `SubtitleInputPin` and its proofs;
`Splitter` and its proofs; `SubPicNoThread` and its proofs; `MediaLoader` with `MediaPlayer` and its proofs.  Left,
in this order:

1. An abstract specification of a splitter's pin (what is delivered after a flush was queued after
   it, but for two packets) as a refinement, and the tests of `SetPositionsInternal` for
   seeks asked twice.
2. The lock order of presenter, queue, pin and main frame composed (comment of
   `MainFrm.cpp` 16042), with the ownership of the provider's critical section.
3. The stream switcher and the muxers' choice of the next packet.
4. Pure operators: segments of `STS`, playlist order, media positions.

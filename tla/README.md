# Verification of entservices-mediaanddrm

TLA+ models, TLC runs and TLAPS proofs for the services of this repository:
TextToSpeech, SystemAudioPlayer and UnifiedCASManagement, Thunder plugins
written in C++. The models are translated from the code under `src/`; what the
Thunder framework, GStreamer and the C++ library do is modelled from how the
code uses them.

## The system

| Component | State | Operations | Interacts with |
|---|---|---|---|
| `TTSSpeaker` | `m_queue`, the flags `m_isSpeaking`, `m_isPaused`, `m_flushed`, `m_isEOS`, the error flags, `m_pipeline`, `m_currentSpeech`, the failure count | speak, cancel, pause, resume, ensurePipeline, destructor; the GStreamer thread; `handleMessage` on the bus thread | called by TTSManager, calls its clients back, drives a GStreamer pipeline |
| `TTSManager`, `TTSConfiguration` | configuration, `m_ttsEnabled`, ACL | enable, configure, setACL, speak..., shut | owns the speaker and the downloader; a network observer calls it |
| `TextToSpeechImplementation` | notification clients, by callsign, `_adminLock` | the ITextToSpeech interface, `Dispatch` | serialises calls under `_adminLock`; events go through the worker pool |
| `TTSDownloader`, `SatToken`, `NetworkStatusObserver`, `RFCURLObserver` | a needed download, a cached token, cached connectivity, RFC URL | a download thread; fetch and update events of other plugins | asked by the speaker and the manager |
| `TTSURLConstructer` | none | `constructURL`: the request for a text | called by the speaker and the downloader |
| `SystemAudioPlayerImplementation` | `objectMap` of players, clients | Open, Play, PlayBuffer, Pause, Resume, Stop, Close, volume, `Dispatch` | owns the players; one player of a mode has the hardware |
| `AudioPlayer` | `state`, `m_isPaused`, pipeline, `webClient`, volumes | Play..., `handleMessage` on the bus thread, `PushDataAppSrc` on its own | fed by the API or by a WebSocket |
| `BufferQueue` | a list, a mutex, two semaphores | add, remove, clear, preDelete | between the feeders and `PushDataAppSrc` |
| WebSockets library | an event loop thread, `connectionHandler_`, ping timers, promises by id, `lastResponse_` | connect, start, disconnect, send, receive, time out, destroy | used by the player's WebSocket clients |
| `UnifiedCASManagement` | the clients, the media session | register, manage, unmanage, send; `event_data` | a media player library |
| The shells of TextToSpeech and SystemAudioPlayer | the implementation in a process of its own, a sink registered with it | Initialize, Deinitialize, Deactivated | the framework; JSON-RPC |

What is hard in this code: flags shared by three threads and partly read without
a lock; tests and actions in different critical sections; a pointer into
another thread's stack; one condition variable whose predicate is changed with
and without its mutex; semaphores waited for inside and outside a mutex;
messages of a pipeline that is gone; events that each take a worker of a pool.
`PROJECT.json` lists every such place under `hazards`, with the properties that
cover it, and every part of the system under `components`.

What makes each component correct:

- *speaker*: a speech accepted is served once, in order, and told one outcome;
  playback events reach only the speech in service; no wakeup is lost; every
  speech ends; the destructor returns; a pre-emptive speak silences the rest.
- *buffer queue*: capacity is conserved; no buffer is stranded, reordered or
  pushed twice; Stop, Close and the destructor return.
- *players*: one player of a mode plays at a time; a closed player is not used;
  the events of a player tell a story its client can follow.
- *WebSocket source*: no client is leaked, freed twice or called while it is freed,
  whichever of Stop and the fallback comes first, and where the code lets this
  happen, only there; a connection that was given up ends; a refused wss
  client is replaced, and nothing is made after Stop.
- *requests*: no promise is shared, kept or waited for for ever; a late answer is
  harmless.
- *notifications*: an event reaches who is registered, nobody is called after
  leaving, every reference is given back, a dispatch ends, and so does the
  process of the implementation.
- *settings*: what is saved is what was set; settings that were overwritten do not
  come back; the downloaded file is of the text in force; a download asked for is
  tried.
- *caches*: what is remembered of another plugin is true, or there is a named
  reason why not.
- *URL*: what is asked to be said is the text, at the speed asked for.

## Modules

| Module | What it is |
|---|---|
| `SpeechLifecycle` | abstract specification: what a speech's client may observe |
| `TTSSpeaker` | the speaker and its three actors; its properties; the refinement mapping to `SpeechLifecycle` |
| `MCTTSSpeaker` | the sets of calls its runs allow |
| `TTSSpeakerTypes` | proof of type correctness |
| `TTSSpeakerProofs` | proof of the safety invariants, and of the refinement |
| `BufferQueue` | the queue with its feeders, pusher and stopper; its properties |
| `MCBufferQueue` | who feeds the player in its runs |
| `BufferQueueProofs` | proof of its invariants and of the order of the buffers |
| `SAPPlayers` | SystemAudioPlayerImplementation's map of players, the state of each AudioPlayer, the bus thread; their properties |
| `MCSAPPlayers` | the players opened and the calls made in its runs |
| `SAPPlayersProofs` | proof of its types, of the ownership of the hardware and of the order of the locks |
| `SAPStreamProofs` | proof of the order of the events and of what becomes of the primary volume |
| `WSEndpoint` | the endpoints of the WebSockets library: both roles, ping-pong, event loop thread; their properties |
| `WSPlayer` | an AudioPlayer of source WEBSOCKET over `WSEndpoint`, with its fallback from wss to ws |
| `WSMessaging` | JsonRpcInterface and CommandInterface over `WSEndpoint` |
| `MCWebSockets` | the three uses of the library, one per behaviour |
| `WebSocketsProofs` | proof of the types, the pings, the player's clients, the promises and the commands |
| `Notifications` | registration, dispatch, shells and processes of the three plugins |
| `MCNotifications` | its bounds |
| `NotificationsProofs` | proof of its invariants |
| `TTSConfig` | a configuration and a request, as operators |
| `TTSSettings` | the calls that set, the store, the downloader, restarts and crashes, over `TTSConfig` |
| `TTSCaches` | the three caches of other plugins' values |
| `TTSURL` | the request made of a text |
| `MCTTSSettings` | settings, one cache, or one request per behaviour |
| `TTSSettingsProofs` | proof of what the store and the file have, of what can make a cache stale, and of the rates |

`WSPlayer` and `WSMessaging` compose with `WSEndpoint` by EXTENDS: their steps
are steps of an endpoint joined with their own. `MCWebSockets` and
`MCTTSSettings` hold parts that share no variable; a variable `scene`, chosen
initially, says which part runs, so that TLC explores their sum and not their
product.

### TTSSpeaker

Three program counters. `apc` is the API caller: `TextToSpeechImplementation`
holds `_adminLock` through each call, so one call is under way at a time; the
destructor comes after the others. `gpc` is `GStreamerThreadFunc`. `bmsg` and
`btell` are the bus thread in `handleMessage`: the message in hand, or the event
it is telling with `m_stateMutex` held.

Steps end where the code reads or writes what another actor may change. The
unlocked sequences are cut: `cancelSpeech`, `pause` and `resume` test the flags in
one step and act in the next; the main loop reads `m_ensurePipeline` three times
(`LoopUpdate`, `LoopChoose`, `CreatePipeline`); the emptiness of the queue is
tested in `Evaluate` or `CreationFailed` and the item taken in `Take` or
`FailHead`; `setSpeakingState`, `willSpeak`, `speakText`'s test, `play`'s start
and the clearing of `m_currentSpeech` are steps of their own. An operation that
the service offers is an action of its own (`Cancel`, `SetACL`, `Enable`, `Pause`,
`Resume`). Critical sections of `m_queueMutex` are single steps, kept apart from
the step "parking" between the evaluation of the wait's predicate and the sleep;
`m_stateMutex` keeps `setSpeakingState` out while the bus thread tells.

`createPipeline`, `destroyPipeline` and `resetPipeline` are one step each, with
every outcome (`Created`): skipped, built, failed, and built, then destroyed by
the reset that ends it because an error was flagged, and not built again. What
the pipeline does is `StreamAdvances` and `StreamEnds`: it follows the state
asked of it, reaches the end or fails, in its source or elsewhere, and posts
messages; going to NULL flushes the bus, and a message already in hand becomes
stale when its pipeline is destroyed.

Undefined behaviour met on the way, an item taken from an empty list or
`m_currentSpeech` NULL in the bus thread, sets `crashed` and nothing follows.
`m_pipelinetype`, which the constructor does not initialise, starts with either
value when it is used.

Abstracted: the text, the URL, volumes and the duration; time, of which only
"the wait timed out, as nothing is paused and the stream does not advance" is
left (`AudioEnds`); the read of `m_currentSpeech` twice in one condition, taken
as one read; `createPipeline` returning early with a pipeline that lacks its
caps (735-749), which is taken for one that never advances.

### BufferQueue

Two feeders in `push_data`: "api" is `PlayBuffer` and holds `m_apiMutex`, "ws"
is the WebSocket client's thread and holds nothing. The pusher is
`PushDataAppSrc`. The stopper is `Stop`, under `m_apiMutex`, or `CloseMapping`:
a `Stop`, then the destructor. A `PlayBuffer` that has fetched the player before
`CloseMapping` takes it out of `objectMap` feeds the queue while it closes. Steps are cut where a thread can block:
`sem_wait` outside the mutex in `add` and `remove`, inside it in `clear`.
Buffers are numbered as they are added; `pushed` remembers the last one pushed.
Calls on a queue that was deleted are not followed.

### SAPPlayers

Each caller is a thread of the framework in one call: it fetches a player from
`objectMap` under `_adminLock`, releases the lock (only `Close` keeps it) and goes
on with the pointer. `Play` is cut where another thread can come between: fetch,
`Ask` (the lock again), one step of `SameModeNotPlaying` per player of the mode
(`Check`), the grant, `m_playMutex`, `Stop`, the start. `Stop` is two steps, with
`m_apiMutex` held: the pipeline goes to NULL, then `state` is READY. `Close` is a
`Stop` and the destructor, which joins the pusher. Each other call of the API is
an action of its own: `Config`, `Pause`, `Resume`, `SetMixerLevels`,
`SetSmartVolControl`, `IsPlaying`; what it does to the player is a step under
`m_apiMutex`, but for smart volume, which takes no lock.

The bus thread has one message in hand. `handleMessage` writes `state` in one step
and reads `m_isPaused` to tell the client in the next; an error or an end tells
the client and then calls `Stop`. `bstale` says that the pipeline the message came
from was destroyed: the code drops its state changes and handles its errors and
its end. `told` remembers what the last event `onSAPEvent` submitted made the
client believe; the order in which the worker pool delivers is not modelled.

`target` is the state asked of a pipeline, `gst` how far it is ("none" is a
NULL `m_pipeline`, whose creation can fail). A player that is fed takes buffers
through `fed` and `inHand`; how its queue works is `BufferQueue`'s matter. A call
on a deleted player, or a buffer for a player that has no queue (`bufferQueue`
is NULL), or caps set on a source that is gone, sets `crashed`, and nothing
follows.

The primary volume is one for all players (`volume`); a player has the level
asked of it and the one it set last (`primary`, `prev`: the hardware is told of a
change only). `SetMixerLevels`, the first buffer pushed and `handleMessage` set it;
an end or an error that `handleMessage` sees puts it back.
`createPipeline` may fail anywhere, leaving `gst` "none" or a pipeline that never
plays.

Abstracted: the ids (fewer players are opened than `nextId` can count), the url,
formats, the tests of the arguments, NEED_DATA; destroying a pipeline and
building the next is one step. The player's own volume, which goes the way of
the primary one, is left out. The WebSocket source is `WSPlayer`'s.

### WSEndpoint, WSPlayer, WSMessaging

`WSEndpoint` is `WSEndpoint.cpp` with the roles `Client` and
`SingleClientServer` and `PingPongEnabled`. The application constructs,
connects, starts (again after a stop, too, and in vain when the port is taken), stops,
disconnects and destroys; the destructor is `Destroy` and,
when the event loop thread has ended, `Joined`. The event loop thread runs the
handlers one at a time: a handler that tells the application sets `callback`, and
nothing else runs on that thread until `Done`. `session` is what websocketpp
knows of a connection, and outlives `connectionHandler_`, which each `onOpen`
overwrites. `timers` and `pinged` count the ping timers that run and the pings
unanswered. A timer or a timeout may fire at any moment.

`WSPlayer` has the threads that use `webClient`: callers in `Play` and `Stop`, the
bus thread in `handleMessage`, and the event loop thread of each client in
`wsConnectionStatus`. They share no mutex, so that each read and each write of
the pointer is a step: `Stop` tests, disconnects, resets and joins; the bus thread
tests, reads the kind of the client, swaps (`disconnect`, `reset`, join), creates
and connects; the event loop thread tests, reads the kind, sets
`m_fallbackToUnsecuredConnection` and toggles the pipeline.

`webClient` is a `unique_ptr`, and neither a call nor `reset` is atomic. A thread
reads the pointer (`read`, into `held`) in one step, and in a later one is in
the call, or stores null and deletes what it has read. In between another thread
may have read the same pointer. A null that is dereferenced (`Crash`), and a
client that is deleted twice (in `reset`), set `ended`, where nothing follows; a
call that comes to a client already deleted (`Dangles`, `disconnect`) sets it or has
no effect; a null may overwrite a client just made, which is then lost. `raced`
records that the bus thread handled a PLAYING message during a `Stop`, and
`carried` that the flag has stood for a client that is not `webClient` any more.

The getConnectionType of the event loop thread is one step with its read: it asks
its own client, whose destructor waits for it. What `connect` does is one step,
too; the calls are told apart only by when they read the pointer.

`WSMessaging` has `sendRequest` (test and emplace in two critical sections, send,
wait with its time-out, remove), `handleResponse` on the event loop thread, and
`sendCommand`, which waits on a condition variable without a predicate. The other
side answers late, never or twice; what `set_value` throws on a second answer
ends the program (`ended`). The success value of a response and the contents of
the messages are left out.

### Notifications

One of three plugins per behaviour (`plugin`). In TTS and SAP an event is a job of
the worker pool, with a reference on the implementation, and `Dispatch` calls the
sinks under `_adminLock`; in UCAS `event_data` copies the list under the lock, with
a reference on each sink, and calls them without it. `Recipients`, `Call` and
`Called` go through the sinks one callback at a time, and a callback may call
`Unregister`, which waits for the lock. `refs` and `implRefs` are the reference
counts of the sinks and of the implementation. The shell makes the process,
registers its own sink, and lets go or, when others still hold the implementation,
has the process killed; the process may die at any moment. The loop of
`Unregister` over the callsigns goes on from the entry it erased: the model takes
either outcome. `Erased` is `std::find` and the erasure of the one entry it finds.

Abstracted: what an event says. A sink that dies with its client's process is not
followed.

### TTSConfig, TTSSettings

`TTSConfig` says what a request makes of a configuration, when it is refused, what
that leaves behind, what makes the manager save, what the store keeps and what
loading restores. `level`, `duck` and `pitch` each stand for settings that are treated
alike. `TTSSettings` makes of it calls under `_adminLock`, one at a time. A client
of JSON-RPC makes several calls for one of its own, and others come in between.
A call that saves also asks for the download; truncating the store and filling it
are two steps, in the caller and in the downloader, which saves a copy of its own.
The download thread is cut at the predicate of its wait, the request, the answer,
the copy and the closing of the file. The process starts with what the store has,
or not at all, leaves through its destructors, or crashes; a file not closed is
`Torn` then. `current` records which settings the store may hold: those of the last
call that left nothing due, and of the calls that have begun to save since.

What curl delivers is taken for the audio, whatever its status, as the code does;
`file` says for which text it was asked, not that it can be heard. The endpoint set by
RFC is not among the settings, and the downloader's copy does not have it
(`TTSConfiguration::operator=`): with a key, `Build` goes either way.

### TTSCaches

`SatToken`, `NetworkStatusObserver` and `RFCURLObserver` as one cache with what
differs between them: it is asked for (`Ask`, `Answer`, `Store`), then subscribed to,
and events change what is known (net), set a flag (sat) or cause another request
(rfc). Values are numbered as they change. `missed` names why a cache may be stale:
a change while nobody subscribed, a notification cleared with the flag, a failed
request.

### TTSURL

`replaceIfIsolated`, `replaceSuccesivePunctuation`, the tables of rates and
`constructURL` as operators and recursive functions, evaluated by a two-step machine
over all short texts. A text is a sequence of classes of characters;
percent-encoding is left out because the endpoint undoes it.
A speech rate that was never set is 50 of TTS 1, and goes as it is to TTS 2. Each loop of the code is
a function that calls itself last, on a text and the position from which on it is
looked at: a form in which it can be proved about as well as evaluated.

## Runs

| Run | Instance | Shows |
|---|---|---|
| `SpeakerSafety` | 2 speeches, 3 other calls, pre-emptive, no local endpoint | types; `CurrentIsServed`, `NeverAsleepOnWork`, `OneFate`, `ToldWhileServed`; the speaker implements `SpeechLifecycle` |
| `SpeakerLiveness` | 2 speeches, 2 other calls, local endpoint, not pre-emptive | `EverySpeechEnds` |
| `SpeakerPreemption` | 2 speeches, enabling | violated: a speak does not silence a speech between its dequeue and `play` |
| `SpeakerEmptyQueue` | the same | violated: `front()` of an empty queue |
| `SpeakerShutdown` | 1 speech, enabling | violated: the destructor's notification is lost |
| `BufferQueue` | a queue of 2, 4 buffers, 2 Stops and a Close, both feeders | types; `SlotsAccounted`, `NoneStranded`, `InOrder`, `EveryBufferLeaves`, `JoinReturns` |
| `BufferQueueClose` | the same, fed by the API | violated: `clear` waits for a token with the mutex held |
| `SAPPlayers` | 2 SYSTEM players, the second fed with buffers; 2 callers, 3 calls of any kind | types, `SoleOwner`, `SomeoneMoves`, `EventOrder`, `VolumeRestored` |
| `SAPOneOwner` | 2 SYSTEM players that play urls, 2 Plays | violated: both are granted the hardware |
| `WebSockets` | a player with 3 clients, 2 callers, 2 calls; 2 senders, 2 ids, 2 sends; a server with 2 connections | types; `OnePing`, `ConnectionsEnd`; `NoClientLeaks`, `SilentAfterStop`, `FallbackFollows`; `PromiseOwned`, `DiesOnlyOfDuplicates`, `EveryRequestReturns`, `ReplyFresh` |
| `Notifications` | each plugin, 2 clients and the shell, 2 callsigns, 2 workers; 1 event for TTS, 2 for the others | types; `RefsBalanced`, `QuietAfterUnregister`, `EventReaches`, `DispatchReturns`, `NoOrphan` |
| `TTSSettings` | 2 clients, 3 batches of 7 kinds, 2 starts, 3 languages; each cache with 2 changes; texts of up to 4 characters | types; `SettingsHold`, `StoreIsCurrent`, `DownloadsEnd`; `CachesExplained`; `RequestHolds` |

The bounds. Two speeches are one in service and one that waits, pre-empts or is
flushed; a third would only repeat the second's relation to it, and the proofs
hold for any number. Three other calls are enough to enable, disable and enable
again, or to enable, pause and cancel. `MAX_PIPELINE_FAILURE_THRESHOLD` has its
default, 1, so that the threshold is reached by one failure. A queue of two
slots and four buffers fills, empties and refills; two Stops let one run on the
heels of another.

Two players of one mode are all that the sharing of the hardware relates, and
three calls let two Plays, or a Play and a pause, meet a third call. The callers
are alike, and the run is symmetric in them (its properties are invariants and an
action property).

`SoleOwner` says how two players of a mode can come to play together: two Plays
that overlap, a buffer played without asking (`PlayBuffer` starts a pipeline
itself), or a pause taken for real because `state` was written PLAYING by a
message handled after `Stop`. A variable, `bypassed`, records these three.

Three WebSocket clients are a secured one, the unsecured one it is swapped for, and
the one of the next Play; two calls, of one thread or of two, are a Play and what may
come in its way, a Stop or another Play. One connection per client is what `AudioPlayer` makes; the
server gets two, so that the second takes `connectionHandler_` from the first. Two
senders with two ids share an id or not; two sends let one time out and its late
answer meet the next. The counts of `Notifications` are in any order from the
first registration to the death of the process; TTS, which adds the callsigns, is
kept to one event, and the order of events is not among its properties. Three
batches of calls are one that sets, one that fails and one that saves what was left
behind; two starts show what the store gives back. "en" has a voice at both
endpoints, "fr" at the remote one only, "es" at the local one. Texts of four
characters have a symbol with its neighbours, or punctuation that follows
punctuation over a space.

Deadlock is not checked: the models stop when a crash ends them, when the
bounds are used up, or when the destructor has joined. `SomeoneMoves` checks
the locks of the players instead: that whenever a call is under way some thread
waits for nothing (`NoCircle`, with `Waits` saying what each step waits for), and that
a thread that waits for nothing has a step to take.

Fairness. The operating system runs every thread, so each thread's steps are
weakly fair, and a call that entered goes on. Nothing makes a client call, or a
stream advance: the wait for the audio ends by an end of stream, an error, a
cancel or its timeout. `EverySpeechEnds` is stated without pre-emption, as
speeches dropped by it are told nothing, and excuses a speech that stays paused
for ever, which `waitForAudioToFinishTimeout` waits for by design. In the library
event loops run and the timers of websocketpp fire; the other side need not answer
or close. In `Notifications` the workers run and callbacks return unless they
wait; in `TTSSettings` the download thread, the call that holds the lock and the
destructors go on. Locks are assumed fair (SF) to those who wait: a waiter is not
overtaken for ever, which holds as clients make finitely many calls. Nobody has to
call, and the process may die.

What these runs state beside the findings: where the code has a hole, the
property names it, and TLC shows that in the instance there is no other.

- `StoreIsCurrent`: a refused call saves nothing, but what it has set is kept and saved by
  the next call that succeeds. When that is a language the local endpoint cannot
  speak (`TTSManager.cpp:300`), each later `Configure` fails, until the store is
  removed: nothing in the code prevents it, and no property claims that it does.
- `NoClientLeaks`: a PLAYING message handled during `Stop` (`AudioPlayer.cpp:639-664`
  takes no lock) lets two threads read one `webClient`: a client deleted twice, called
  when it is freed, or lost. Until then none of these happens.
- `DispatchReturns`, `EventReaches`: a callback of TTS or SAP that calls
  `Unregister` and waits for it never returns, as `Dispatch` holds the lock; UCAS
  avoids this by its copy.
- `QuietAfterUnregister` is not stated for UCAS: a copied list is called out,
  whoever has left meanwhile. `RefsBalanced` counts the references that
  `RegisterWithCallsign` leaks when a callsign is taken over.
- `SilentAfterStop`: a PLAYING message handled during `Stop` makes a client for a
  stopped player. `FallbackFollows`: `m_fallbackToUnsecuredConnection` survives
  `Stop`, and the next wss client is swapped without having failed (`carried`).
- `ConnectionsEnd`: the destructor of an endpoint closes the connection it knows;
  one that opens later keeps the event loop, and the join, until its peer closes it.
- `DiesOnlyOfDuplicates`: a `Request` sent again while the answer to its first,
  timed-out sending is still to come can meet two answers.
- `DownloadsEnd`: the notification of a download can fall between the predicate
  and the sleep, and wait for the next one.
- `CachesExplained`: the flag of the token is cleared after the fetch, whatever came in
  meanwhile and whether or not it succeeded.
- `VolumeRestored` excepts players that are stopped by a call, of which the
  pipeline tells nothing.
- `RequestHolds`: after a quote a character is passed over, and a text that ends in
  one is read outside its bounds (`TTSURLConstructer.cpp:287-291`).

The five violations are listed under `findings`, each with the line of the
repository it contradicts.

Each property of a passing run has a mutant, an operator next to the definition
it changes, with which TLC finds the property violated.

## Proofs

Each theorem holds for every value of the constants that the modules' `ASSUME`s allow,
which TLC evaluates in the runs. The assumptions say that bounds are naturals, that
"none" and "nobody" are not among the things they stand against, that the sets counted
are finite, and what the code validates before (`SettingsAssumption`: the calls are
those of the interface; `URLAssumption`: the rate of an utterance is from 0.1 to 10,
`TextToSpeechImplementation.cpp:92`).

Two kinds of theorem. `Spec => []P` with P an invariant of a run; and, for action
properties and the refinement, `Spec => P` from what the same invariant makes of one
step. Those about one part of a composition are stated of the part's own
specification (`EndpointSpec`, `PlayerSpec`, `RpcSpec`, `CommandSpec`, `SettingsSpec`, `CachesSpec`,
`URLSpec`), whose next-state relation is the disjunct of `Next` for its scene; and then
again of the whole `Spec`, for the WebSockets (`CompositionHolds`) and the settings
(`AllTogether`), from the invariants of the parts and from what a part that does not
run is left in.

### The speaker

`TTSSpeakerTypes` proves `TypeOK`. It is inductive with two facts: a call about to queue
a speech found room for its id, and the bus thread holds an event exactly while it
tells somebody.

`TTSSpeakerProofs` proves `NeverAsleepOnWork`, `CurrentIsServed`, `ToldWhileServed` and
`OneFate`. None is inductive. `SafetyInv` says, step by step of the GStreamer thread,
which speech is in hand and what its client was told:

- `Parking`: from the predicate to the sleep, nothing is to be done; what would
  change that is kept out by the mutex, or wakes the thread;
- `Served`: a speech is in hand from the dequeue to `setSpeakingState(false)`,
  and `m_currentSpeech` points at nothing else;
- `Announced`: past `willSpeak` a speech was announced or a cancellation stands;
- `TellsServed`: whom the bus thread tells is in hand, and stays so;
- `Ordered`, `Untold`: the queue is above the speech in hand and below the next
  id, and nobody in it was told anything.

`SpeakerRefinesLifecycle` is the refinement: `TTSSpeaker` implements `SpeechLifecycle`
under the mapping at its end (`Stage`, `Told`). Eight actions change what the mapping
reads; each is one action of the lifecycle or a stutter, and every other action is a
stutter. One more invariant is needed, that an outcome is recorded when and only when
one was told (`Outcomes1`).

### The buffer queue

`BufferQueueProofs` proves `TypeOK`, `SlotsAccounted` and `NoneStranded` from the
invariant that counts the tokens of `m_sem_full` in the semaphore and in the hands of
the pusher and of `clear`. `InOrder` follows from `Ordered`: the queue is increasing,
the pusher's item is below it, and what was pushed is below that.

`OnlyClearBlocks` is about waiting: while a call is under way somebody is kept by no
semaphore, mutex or join from going on. `PusherMoves`, `FeederMoves` and `StopperMoves`
say for whom that is so, the way the guards do; they are written out because ENABLED is
out of the prover's reach. The theorem names its exception, `ClearWaitsForItself`,
which is what the run `BufferQueueClose` finds: `clear` waits inside `m_mutex` for a token
whose taker wants `m_mutex`. The theorem says that this circle is the only one. It
needs that a pusher at rest leaves a slot, or a feeder has one (`SleepersLeaveRoom`, from
the accounting of slots), and `Awake`: `preDelete` clears `running` before it posts,
and the token it posts stays until the pusher has it. The join alone is
`TheJoinedIsAwake`.

### The players

`SAPPlayersProofs` proves

- `TypeOK`, with `Holding`: a call past its fetch is on a player that was opened, the
  player of a `Close` is in the map no more, and the bus thread's message is of a
  player;
- `SoleOwner`, which says nothing of a `Play` between its question and its start.
  `Control` says which call is at which step, and that one that asks or closes has
  `_adminLock`; `Gone`, that a player out of the map is being closed or is silent;
  `Exclusive`, that while nothing was bypassed two players of a mode are not both held
  (asked to play, or paused and so resumable), every rival of a granted `Play` is
  silent, and so is every one a question has seen;
- `NoCircle`: the locks are waited for in no circle. `LocksHeld` places the holder of
  each lock. Who has an `m_apiMutex` is between the two halves of a Stop and waits for
  nothing; who has an `m_playMutex` or `_adminLock` waits at most for an
  `m_apiMutex`, or for the pusher of the player it deletes. That the player a
  `SameModeNotPlaying` stops next exists, the least of a set of naturals, is from the
  library's theorem on well-founded relations.

`SAPStreamProofs` goes on from there:

- `EventOrder`: what is on a player's bus is in order (`Piped`), and an end or a pause
  on it, or in the hand of the bus thread, comes after a PLAYING on it that is still to
  be told, or that the client was told (`Heard`);
- `VolumeRestored`: while the primary volume is docked for a player by the bus thread,
  something is under way that will restore it (`Restorers`): a message of its
  pipeline, a Stop, or the message in hand; and the bus thread docks it only for a
  pipeline that goes on, or a Stop that does (`Hand`).

### The WebSockets

`WebSocketsProofs` proves, of any number of endpoints, connections, threads and calls:

- the types of the endpoints (`EndpointTyped`);
- `PingChain`: as long as each client connects once (`ConnectsOnce`), on each of its
  open connections one ping is scheduled or unanswered (`OnePing`). It is stated of any
  use of the library, `AnyUse`, and its invariant `Chains` counts timers, pings and the
  callback that is to begin the chain. Without `ConnectsOnce` the property fails: a
  timer sends its ping on whichever connection is held then;
- that the users keep to the library: `PlayerUsesTheLibrary`, and of the composition
  `TheLibraryIsUsedAsSpecified`, say that a user with its endpoints implements the
  specification of the library, with its fairness. So `PingChain` holds of them. For the
  player, `PlayerPings` needs no hypothesis: `Single` proves that a client is connected
  once, by the bus thread that has just made it (`AudioPlayer.cpp:649-663`). For
  requests and in the composition (`RequestsPing`, `EveryClientPings`) it is assumed of
  the Messenger, which the application makes and connects;
- `NoClientLeaks`, `SilentAfterStop` and `SwapsTheRefused`, the safety part of
  `FallbackFollows`. `Handed` says at which steps a thread has read a pointer; `Mutex`
  places the holder of `m_apiMutex`; `Owned` says what is so in any race: `webClient`
  is alive or null, and who waits for an event loop is the one that destroys its client;
  `Unshared`, what is so until a PLAYING message is handled during a Stop: the steps of
  the bus thread and of the holder of the mutex exclude one another (`Apart`), so that
  no two threads have read one pointer; `Loops`, what the event loop of a client may be
  telling; `Quiet`, that nothing makes a client while a Stop is under way; `Flag`, for
  whom the fallback flag stands;
- `PromiseOwned` and `DiesOnlyOfDuplicates`: the invariant ties a promise to the step of
  its owner, and the answers an id can still have to its sendings;
- `ReplyFresh`: what is kept is the last answer, and a command that no other overlaps is
  the last that was sent;
- all of these of the composition (`CompositionHolds`, `SwapsStayJustified`,
  `AnswersStayFresh`), if the Messenger is not one of the player's clients. `SceneInv`
  says which endpoints are in use in which scene, and that the others have no
  connection and no client.

### The notifications

`NotificationsProofs` proves `NotifTypeOK`, `RefsBalanced` and `QuietAfterUnregister` for
the three plugins at once. None is inductive: a count stays a natural because it is
what is held (`Balanced`, `ImplBalanced`), a sink is released once because it is listed
once (`Lists`), it is not called after leaving because who calls holds `_adminLock` and
has only registered sinks to call (`Locked`), and before the process starts nobody
holds anything in it (`Unborn`). The lemmas on `Erased` and on the cardinality of what
is held are from the library's theorems on finite sets.

### The settings, the caches, the requests

`TTSSettingsProofs` proves `SettingsHold`, which speaks of the manager at rest, and
`StoreIsCurrent`, of a store that is whole, from an invariant of five parts: the types with which call holds `_adminLock`;
`Written`, what the store has while it is written and after; `Copied`, that the
downloader's copy is of the manager's settings but for what is due; `Audible`, that
the path leads to the text's audio also while the process leaves, is off or starts;
`Timely`, that the store, the copy and the settings that a call is going to save are all
among `current`; at the end of a save that leaves nothing due it needs `Copied`, that
the downloader has got these very settings. `CachesExplained` is from an invariant that says, at each step of the asking
thread, that the cache, the reply in hand, the last event on its way or the flag has
the truth, or why it is missed.

`RequestsHold` proves `RequestHolds`, that a request says the text of the client and how
fast, for texts of every length, every configuration and rate. The two loops that clean a
text are functions that call themselves last. `TailRecursion` shows that such a function
exists, by the sets that are closed under the calls, and `TailInvariant` that what each
call keeps holds where the calls end, when a measure gets smaller: were it not so, there
would be a call with the least measure for which it is not. For `replaceIfIsolated` what is
kept is the length, and for each character before the position whether it has been given
its word (`WordedFrom`); for `replaceSuccesivePunctuation` it is `Keeps`: what is read out,
how often the symbols and their words are there, how many quotes are left, the last
character, and that before the position no silent punctuation follows another. That what is
read out stays the same, in its order, is counted: `Number` is how many characters of a kind
there are between two positions, the splices (`Spliced`, `Dropped`) keep it, and so the n-th
character that is read out is the n-th after the splice (`SameLoud`).

`AllTogether` joins the types and the properties of the parts: each goes its own way in the
whole (`Together`).

### What stays with TLC

- Liveness under fairness: `EverySpeechEnds`, `EveryBufferLeaves`, `JoinReturns`,
  `ConnectionsEnd`, `EveryRequestReturns`, `EventReaches`, `DispatchReturns`, `NoOrphan`,
  `DownloadsEnd`, and the second conjunct of `FallbackFollows`.
- `SomeoneMoves`, but for `NoCircle`: who waits for nothing has a step to take is a
  statement with ENABLED.

## Plan

All modules planned are written, and each safety property of a passing run is proved but
for the one above. What is left:

1. The order in which a speech's events arrive, each a job of its own in a pool of
   workers, and the wrap of `nextSpeechId`, composed with `SpeechLifecycle`.
2. A player's own volume; players of both modes in one run.
3. `SAPPlayers` over `BufferQueue`, the queue being shared by more than one Play.

## Not modelled

- The JSON-RPC methods that parse their parameters and forward, and the validator:
  they keep no state. Those that make several calls of the service are in
  `TTSSettings`.
- The session of `UnifiedCASManagement`: it is the media player's, a library the
  repository does not have.
- TLS, certificates and framing: websocketpp and OpenSSL do them below the handlers.
- The links and the life of single GStreamer elements; the pipeline is built or not.
- Main loops that start or stop late (`TTSSpeaker.cpp:454`): the bus thread of the
  models runs from the beginning.
- Loggers, the front panel and the other helpers under `src/helpers`, which are shared
  with other repositories and mostly unused by these services.

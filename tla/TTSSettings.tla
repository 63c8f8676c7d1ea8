------------------------------ MODULE TTSSettings ------------------------------
(***************************************************************************)
(* The settings of TextToSpeech: the calls that change them                *)
(* (TextToSpeechImplementation, TTSManager), the configuration store, the  *)
(* thread that downloads the audio of the fallback text (TTSDownloader),   *)
(* and the life of the process, which may die at any moment and be started *)
(* again.                                                                  *)
(*                                                                         *)
(* Calls of clients run under _adminLock, one at a time; the downloader    *)
(* and RFC take no notice of it.  A client of the JSON-RPC interface makes *)
(* several calls for one of its own (TextToSpeechJsonRpc.cpp 221-280).     *)
(***************************************************************************)
EXTENDS TTSConfig, Sequences, FiniteSets

CONSTANTS Clients, NoClient,
          Batches,      \* the sequences of calls a client makes
          MaxBatches,   \* bound: batches
          MaxStarts     \* bound: starts of the process

Calls == [op : {"SetAPIKey", "SetFallbackText", "SetPrimaryVolDuck", "SetConfiguration", "Enable"},
          text : Texts \cup {NoText}, duck : Levels \cup {NoLevel}, on : BOOLEAN, request : Requests]

ASSUME SettingsAssumption ==
    /\ NoClient \notin Clients /\ Batches \subseteq Seq(Calls)
    /\ MaxBatches \in Nat /\ MaxStarts \in Nat

VARIABLES
    process,   \* "off", "starts": Configure, "runs", "leaving": the destructors
    config,    \* m_defaultConfiguration
    due,       \* m_needsConfigStoreUpdate
    disk, whole, \* the configuration store; FALSE: missing, or truncated
    todo,      \* of a client: the calls it has still to make
    caller,    \* the client that holds _adminLock
    step,      \* where its call is
    dl,        \* where the download thread is
    need, active, \* m_needDownload, m_active
    snapshot,  \* m_config
    fetched,   \* the text whose audio it downloads
    file,      \* the audio file: the text whose request it holds the answer to
    batches, starts, \* counters, up to MaxBatches and MaxStarts
    current,   \* ghost: the settings that the store may hold
    excused    \* ghost: the path may point at the audio of something else
store == <<disk, whole>>
callVars == <<todo, caller, step, batches>>
dlVars == <<dl, need, active, snapshot, fetched, file>>
settingsVars == <<process, config, due, store, callVars, dlVars, starts, current, excused>>

Torn == "torn"

\* Of settings and of the store: what only a call of a client changes
Core(c) == <<c.language, c.voice, c.level, c.duck, c.text>>
Cores == Languages \X Voices \X Levels \X Levels \X (Texts \cup {NoText})

\* The settings keep their ranges in memory, in the store and in the downloader's copy:
\* a volume out of range and an unknown voice go nowhere (TTSSpeaker.cpp:114-298).
SettingsTypeOK ==
    /\ process \in {"off", "starts", "runs", "leaving"} /\ config \in Configs /\ due \in BOOLEAN
    /\ disk \in Stored /\ whole \in BOOLEAN /\ todo \in [Clients -> Seq(Calls)]
    /\ caller \in Clients \cup {NoClient}
    /\ step \in {"idle", "initiate", "download", "notify", "save", "write"}
    /\ dl \in {"none", "top", "blocking", "asleep", "build", "fetch", "store", "save", "saved",
              "close", "sleep", "exited"}
    /\ need \in BOOLEAN /\ active \in BOOLEAN /\ snapshot \in Configs
    /\ fetched \in Texts \cup {NoText} /\ file \in Texts \cup {NoText, Torn}
    /\ batches \in 0 .. MaxBatches /\ starts \in 0 .. MaxStarts
    /\ current \subseteq Cores /\ excused \in BOOLEAN

Runs == process = "runs"
\* What a client of the JSON-RPC interface asks for at once: the app does not choose the
\* voice.  A COM-RPC client makes one call at a time.
Call(op) == [op |-> op, text |-> NoText, duck |-> NoLevel, on |-> FALSE,
             request |-> [endpoint |-> NoEndpoint, language |-> NoLanguage, voice |-> NoVoice,
                          level |-> NoLevel, device |-> FALSE]]
JsonSetConfiguration(key, text, hasDuck, duck, r) ==
    (IF key THEN <<Call("SetAPIKey")>> ELSE <<>>)
    \o (IF text = NoText THEN <<>> ELSE <<[Call("SetFallbackText") EXCEPT !.text = text]>>)
    \o (IF hasDuck THEN <<[Call("SetPrimaryVolDuck") EXCEPT !.duck = duck]>> ELSE <<>>)
    \o <<[Call("SetConfiguration") EXCEPT !.request = [r EXCEPT !.voice = NoVoice]]>>

SettingsInit ==
    /\ process = "off" /\ config = Default /\ due = FALSE /\ disk = Persisted(config) /\ whole = FALSE
    /\ todo = [c \in Clients |-> <<>>] /\ caller = NoClient /\ step = "idle"
    /\ dl = "none" /\ need = FALSE /\ active = FALSE /\ snapshot = Default
    /\ fetched = NoText /\ file = NoText /\ batches = 0 /\ starts = 0
    /\ current = {Core(Default)} /\ excused = FALSE

-------------------------------------------------------------------------------
(* The store is written by the caller or by the downloader, one at a time  *)
(* (fileMutex): Create truncates it, and then it is filled.                *)

StoreFree == step # "write" /\ dl # "save"
\* The downloader keeps m_objectMutex while it saves.
CopyFree == dl \notin {"save", "saved"}

-------------------------------------------------------------------------------
(* Calls.                                                                  *)

\* Clients that ask for nothing are alike: any one of them is next.
Idle == CHOOSE c \in Clients : todo[c] = <<>>

Request(c) ==
    /\ Runs /\ todo[c] = <<>> /\ c = Idle /\ batches < MaxBatches /\ batches' = batches + 1
    /\ \E b \in Batches : todo' = [todo EXCEPT ![c] = b]
    /\ UNCHANGED <<process, config, due, store, caller, step, dlVars, starts, current, excused>>

\* The next call of c gets _adminLock.
Begins(c) == Runs /\ caller = NoClient /\ todo[c] # <<>>
Returns(c) == todo' = [todo EXCEPT ![c] = Tail(@)] /\ UNCHANGED <<caller, step>>
\* A call that is going to save what there is
Saves(c, s) == /\ caller' = c /\ step' = s /\ UNCHANGED todo
               /\ current' = current \cup {Core(config')}

SetAPIKey(c) ==
    /\ Begins(c) /\ Head(todo[c]).op = "SetAPIKey" /\ Returns(c)
    /\ config' = [config EXCEPT !.apiKey = TRUE]
    /\ due' = (due \/ (~config.apiKey /\ config.text # NoText /\ ~config.path))
    /\ UNCHANGED <<process, store, dlVars, batches, starts, current, excused>>

SetFallbackText(c) ==
    /\ Begins(c) /\ Head(todo[c]).op = "SetFallbackText" /\ Returns(c)
    /\ config' = WithText(config, Head(todo[c]).text)
    /\ due' = (due \/ config' # config)
    /\ UNCHANGED <<process, store, dlVars, batches, starts, current, excused>>

\* Mutant: any value is taken.
SetPrimaryVolDuck_Any(c) ==
    /\ Begins(c) /\ Head(todo[c]).op = "SetPrimaryVolDuck" /\ Returns(c)
    /\ config' = [config EXCEPT !.duck = Head(todo[c]).duck] /\ due' = (due \/ config' # config)
    /\ UNCHANGED <<process, store, dlVars, batches, starts, current, excused>>

\* Out of range, it fails, and so does the rest of the JSON-RPC call.
SetPrimaryVolDuck(c) ==
    /\ Begins(c) /\ Head(todo[c]).op = "SetPrimaryVolDuck"
    /\ LET d == Head(todo[c]).duck
       IN  IF d = NoLevel
           THEN todo' = [todo EXCEPT ![c] = <<>>] /\ UNCHANGED <<caller, step, config, due>>
           ELSE Returns(c) /\ config' = [config EXCEPT !.duck = d] /\ due' = (due \/ config' # config)
    /\ UNCHANGED <<process, store, dlVars, batches, starts, current, excused>>

\* Mutant: what a call that fails has changed is not saved by the next one.
SetConfiguration_Forgets(c) ==
    /\ Begins(c) /\ Head(todo[c]).op = "SetConfiguration"
    /\ LET r == Head(todo[c]).request
       IN  /\ config' = Configured(config, r)
           /\ due' = (due \/ (~Refused(config, r) /\ Differs(config, config')))
           /\ IF Refused(config, r) \/ ~due' THEN Returns(c) /\ UNCHANGED current
              ELSE Saves(c, IF config.text = NoText THEN "save" ELSE "initiate")
    /\ UNCHANGED <<process, store, dlVars, batches, starts, excused>>

\* setConfiguration, setDeviceConfiguration.  A change, also of an earlier call, is saved
\* by the next call that succeeds.
SetConfiguration(c) ==
    /\ Begins(c) /\ Head(todo[c]).op = "SetConfiguration"
    /\ LET r == Head(todo[c]).request
       IN  /\ config' = Configured(config, r)
           /\ due' = (due \/ Differs(config, config'))
           /\ IF Refused(config, r) \/ ~due' THEN Returns(c) /\ UNCHANGED current
              ELSE Saves(c, IF config.text = NoText THEN "save" ELSE "initiate")
    /\ UNCHANGED <<process, store, dlVars, batches, starts, excused>>

\* The path is emptied, which the downloader may fill again before the copy is made.
initiateDownload ==
    /\ step = "initiate" /\ step' = "download" /\ config' = [config EXCEPT !.path = FALSE]
    /\ UNCHANGED <<process, due, store, todo, caller, dlVars, batches, starts, current, excused>>

\* Mutant: a thread that runs keeps the copy it was started with.
download_Stale ==
    /\ step = "download" /\ CopyFree /\ step' = "notify"
    /\ \E path \in {FALSE, config.path} :
          snapshot' = IF dl = "none" THEN [config EXCEPT !.path = path] ELSE snapshot
    /\ IF dl = "none" THEN dl' = "top" /\ active' = TRUE ELSE UNCHANGED <<dl, active>>
    /\ UNCHANGED <<process, config, due, store, todo, caller, need, fetched, file, batches, starts,
                   current, excused>>

\* The downloader gets its copy, made before m_objectMutex is had.  operator= leaves out
\* an endpoint of RFC: with a key, either way of Build may be gone.
download ==
    /\ step = "download" /\ CopyFree /\ step' = "notify"
    /\ \E path \in {FALSE, config.path} : snapshot' = [config EXCEPT !.path = path]
    /\ IF dl = "none" THEN dl' = "top" /\ active' = TRUE ELSE UNCHANGED <<dl, active>>
    /\ UNCHANGED <<process, config, due, store, todo, caller, need, fetched, file, batches, starts,
                   current, excused>>

\* m_needDownload and notify_one, without m_queueMutex
Notify ==
    /\ step = "notify" /\ step' = "save" /\ need' = TRUE
    /\ dl' = IF dl = "asleep" THEN "top" ELSE dl
    /\ UNCHANGED <<process, config, due, store, todo, caller, active, snapshot, fetched, file, batches,
                   starts, current, excused>>

Save ==
    /\ step = "save" /\ StoreFree /\ step' = "write" /\ whole' = FALSE /\ UNCHANGED disk
    /\ UNCHANGED <<process, config, due, todo, caller, dlVars, batches, starts, current, excused>>

\* Enable leaves m_needsConfigStoreUpdate alone.
Write ==
    /\ step = "write" /\ step' = "idle" /\ caller' = NoClient
    /\ todo' = [todo EXCEPT ![caller] = Tail(@)]
    /\ disk' = Persisted(config) /\ whole' = TRUE /\ due' = (due /\ Head(todo[caller]).op = "Enable")
    /\ current' = IF due' THEN current ELSE {Core(config)}
    /\ UNCHANGED <<process, config, dlVars, batches, starts, excused>>

Enable(c) ==
    /\ Begins(c) /\ Head(todo[c]).op = "Enable"
    /\ config' = [config EXCEPT !.enabled = Head(todo[c]).on]
    /\ IF config' = config THEN Returns(c) /\ UNCHANGED current ELSE Saves(c, "save")
    /\ UNCHANGED <<process, due, store, dlVars, batches, starts, excused>>

-------------------------------------------------------------------------------
(* The download thread.  It has m_queueMutex except at "top" and when it   *)
(* is asleep.                                                              *)

\* The loop's test, and the predicate of the wait
Test ==
    /\ dl = "top"
    /\ IF ~active THEN dl' = "exited" /\ UNCHANGED need
       ELSE IF need THEN dl' = "build" /\ need' = FALSE
       ELSE dl' = "blocking" /\ UNCHANGED need
    /\ UNCHANGED <<process, config, due, store, callVars, active, snapshot, fetched, file, starts,
                   current, excused>>

Block ==
    /\ dl = "blocking" /\ dl' = "asleep"
    /\ UNCHANGED <<process, config, due, store, callVars, need, active, snapshot, fetched, file,
                   starts, current, excused>>

\* constructURL.  With a key, and no endpoint of RFC, the server is asked for the URL, and
\* one that does not know the key says null; the file is truncated
\* before anything is had from the other end.
Build ==
    /\ dl = "build"
    /\ \/ dl' = "fetch" /\ fetched' = snapshot.text /\ file' = Torn /\ UNCHANGED excused
       \/ /\ snapshot.apiKey /\ dl' = "top" /\ excused' = (excused \/ config.path)
          /\ UNCHANGED <<fetched, file>>
    /\ UNCHANGED <<process, config, due, store, callVars, need, active, snapshot, starts, current>>

\* Whatever curl delivers is taken for the audio, a page that says "not found" too.
Fetch ==
    /\ dl = "fetch" /\ dl' = "store"
    /\ UNCHANGED <<process, config, due, store, callVars, need, active, snapshot, fetched, file,
                   starts, current, excused>>

\* Mutant: a download that failed is not tried again.
FetchFails_GivesUp ==
    /\ dl = "fetch" /\ dl' = "sleep" /\ UNCHANGED need
    /\ UNCHANGED <<process, config, due, store, callVars, active, snapshot, fetched, file, starts,
                   current, excused>>

FetchFails ==
    /\ dl = "fetch" /\ dl' = "sleep" /\ need' = TRUE
    /\ UNCHANGED <<process, config, due, store, callVars, active, snapshot, fetched, file, starts,
                   current, excused>>

Slept ==
    /\ dl = "sleep" /\ dl' = "top"
    /\ UNCHANGED <<process, config, due, store, callVars, need, active, snapshot, fetched, file,
                   starts, current, excused>>

\* saveConfiguration: the copy, which may be of other settings than those it has
\* downloaded for, goes to the store.
SaveCopy ==
    /\ dl = "store" /\ StoreFree /\ dl' = "save" /\ whole' = FALSE /\ UNCHANGED disk
    /\ snapshot' = [snapshot EXCEPT !.path = TRUE]
    /\ UNCHANGED <<process, config, due, callVars, need, active, fetched, file, starts, current, excused>>

WriteCopy ==
    /\ dl = "save" /\ dl' = "saved" /\ disk' = Persisted(snapshot) /\ whole' = TRUE
    /\ UNCHANGED <<process, config, due, callVars, need, active, snapshot, fetched, file, starts,
                   current, excused>>

PathKnown ==
    /\ dl = "saved" /\ dl' = "close" /\ config' = [config EXCEPT !.path = TRUE]
    /\ UNCHANGED <<process, due, store, callVars, need, active, snapshot, fetched, file, starts,
                   current, excused>>

\* fclose
Close ==
    /\ dl = "close" /\ dl' = "top" /\ file' = fetched /\ excused' = (excused /\ (need \/ ~Runs))
    /\ UNCHANGED <<process, config, due, store, callVars, need, active, snapshot, fetched, starts,
                   current>>

-------------------------------------------------------------------------------
(* The process.                                                            *)

\* Configure, up to enableTTS, which saves what was loaded; when the local endpoint has
\* no voice for the language, it fails.
Start ==
    /\ process = "off" /\ starts < MaxStarts /\ starts' = starts + 1
    /\ LET c == IF whole THEN Loaded(Default, disk) ELSE Default
       IN     IF c.local /\ LocalVoiceFor[c.language] = NoVoice
              THEN UNCHANGED <<process, config, store, current>>
              ELSE process' = "starts" /\ config' = c /\ whole' = FALSE /\ UNCHANGED disk
                   /\ current' = IF whole THEN current ELSE {Core(Default)}
    /\ UNCHANGED <<due, callVars, dlVars, excused>>

Started ==
    /\ process = "starts" /\ process' = "runs" /\ disk' = Persisted(config) /\ whole' = TRUE
    /\ UNCHANGED <<config, due, callVars, dlVars, starts, current, excused>>

\* Nothing is left but the files.
Forgotten ==
    /\ process' = "off" /\ config' = Default /\ due' = FALSE
    /\ todo' = [c \in Clients |-> <<>>] /\ caller' = NoClient /\ step' = "idle"
    /\ dl' = "none" /\ need' = FALSE /\ active' = FALSE /\ snapshot' = Default
    /\ fetched' = NoText /\ UNCHANGED <<store, batches, starts, current>>

\* What is due, and what is to be downloaded, is forgotten with the rest.
Working == dl \in {"build", "fetch", "store", "save", "saved", "close", "sleep"}
Pending == due \/ need \/ Working \/ step # "idle"

Deinitialize ==
    /\ Runs /\ caller = NoClient /\ process' = "leaving" /\ todo' = [c \in Clients |-> <<>>]
    /\ excused' = (excused \/ Pending)
    /\ UNCHANGED <<config, due, store, caller, step, dlVars, batches, starts, current>>

\* The destructor of the downloader waits for m_queueMutex, and then for the thread.
DestroyDownloader ==
    /\ process = "leaving" /\ active /\ dl \in {"top", "asleep"}
    /\ need' = TRUE /\ active' = FALSE /\ dl' = "top"
    /\ UNCHANGED <<process, config, due, store, callVars, snapshot, fetched, file, starts, current, excused>>

Gone == process = "leaving" /\ dl \in {"none", "exited"} /\ Forgotten /\ UNCHANGED <<file, excused>>

\* The file loses what was not written out.
Crash ==
    /\ process # "off" /\ Forgotten
    /\ file' = IF dl \in {"fetch", "store", "save", "saved", "close"} THEN Torn ELSE file
    /\ excused' = (excused \/ Pending)

-------------------------------------------------------------------------------
CallStep(c) == SetAPIKey(c) \/ SetFallbackText(c) \/ SetPrimaryVolDuck(c) \/ SetConfiguration(c)
               \/ Enable(c)
CallGoesOn == initiateDownload \/ download \/ Notify \/ Save \/ Write
DownloadStep == \/ Test \/ Block \/ Build \/ Fetch \/ FetchFails \/ Slept
                \/ SaveCopy \/ WriteCopy \/ PathKnown \/ Close

SettingsNext ==
    \/ \E c \in Clients : Request(c) \/ CallStep(c)
    \/ CallGoesOn \/ DownloadStep
    \/ Start \/ Started \/ Deinitialize \/ DestroyDownloader \/ Gone \/ Crash

SettingsSpec == SettingsInit /\ [][SettingsNext]_settingsVars

\* The thread and the call that holds _adminLock go on, also when it is a lock they wait
\* for, and so do the destructors.
SettingsFairness == /\ SF_settingsVars(DownloadStep) /\ SF_settingsVars(CallGoesOn)
                    /\ SF_settingsVars(DestroyDownloader \/ Gone)

-------------------------------------------------------------------------------
(* Properties.                                                             *)

AtRest == Runs /\ step = "idle" /\ StoreFree /\ dl # "saved"

\* "if any of the configuration attribute changes..config store gets updated"
\* (TTSManager.cpp:328): the store has what the manager has, but for what is still due,
\* and for enabled and path, which the downloader may have saved from its copy.
StoreHolds ==
    AtRest => /\ whole
              /\ disk.enabled \in {config.enabled, snapshot.enabled}
              /\ ~due => /\ disk.path => config.path
                         /\ disk = [Persisted(config) EXCEPT !.enabled = disk.enabled,
                                                            !.path = disk.path]

\* The path that the speaker may play leads to what the endpoint delivered for the
\* fallback text, unless a download is still to come, the server refused it, or the
\* process died before.
PathHolds ==
    (Runs /\ config.path) => \/ file = config.text \/ due \/ need \/ Working
                             \/ step \in {"initiate", "download", "notify"} \/ excused

SettingsHold == StoreHolds /\ PathHolds

\* Settings that were overwritten do not come back, though the downloader writes the
\* store too, from a copy of its own and when it gets there (TTSDownloader.cpp:163-171): a
\* whole store has what the last call saved that left nothing due, or what a call has
\* begun to save since (TTSManager.cpp:328-334), also across restarts.  A refused call
\* saves nothing; what it leaves, the next one that succeeds saves (300).
StoreIsCurrent == whole => Core(disk) \in current

\* A download asked for is tried, unless its notification fell between the predicate of
\* the wait and the sleep (TTSDownloader.cpp:72); one that failed is tried again; and the
\* destructor of the manager returns.
LostWakeup == dl = "asleep" /\ need
DownloadsEnd ==
    /\ (Runs /\ need) ~> (dl = "build" \/ LostWakeup \/ ~Runs)
    /\ (dl = "sleep") ~> (dl = "build" \/ ~Runs)
    /\ (process = "leaving") ~> (process = "off")
===============================================================================

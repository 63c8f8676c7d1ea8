------------------------------ MODULE TTSSpeaker ------------------------------
(***************************************************************************)
(* TTSSpeaker (src/TextToSpeech/impl/TTSSpeaker.cpp): the queue of         *)
(* speeches and the three actors that share its flags.                     *)
(*                                                                         *)
(*   - the API caller: speak, cancel, pause, resume, enable, setACL and    *)
(*     the destructor; TextToSpeechImplementation::_adminLock lets one     *)
(*     call in at a time, so a single program counter, apc, is enough;     *)
(*   - the GStreamer thread, GStreamerThreadFunc, program counter gpc;     *)
(*   - the bus watch thread, handleMessage, which handles bmsg.            *)
(*                                                                         *)
(* Steps end where the code reads or writes what another actor may change: *)
(* cancelSpeech, pause and resume test the flags without a lock and act    *)
(* on them in a later step; speakText tests them before it fetches a token *)
(* and builds the URL, and acts after.  createPipeline, destroyPipeline    *)
(* and resetPipeline are one step each: what the bus watch does inside     *)
(* them is done before or after.                                           *)
(* The two undefined behaviours the actors can run into (an item taken     *)
(* from an empty list, m_currentSpeech NULL in the bus watch) end the      *)
(* behaviour: crashed.                                                     *)
(***************************************************************************)
EXTENDS Integers, Sequences, FiniteSets

CONSTANTS MaxSpeech,     \* bound: speeches accepted; ids are 1..MaxSpeech
          MaxCalls,      \* bound: calls other than the two kinds of speak
          Calls,         \* the kinds of those calls that are made
          Preemptive,    \* TTSConfiguration::isPreemptive()
          HasLocal,      \* TTSConfiguration::hasValidLocalEndpoint()
          LocalType,     \* getUrlPipelineType of the local endpoint
          MaxFailures    \* m_maxPipelineConstructionFailures

None     == 0
Speech   == 1 .. MaxSpeech
CallKinds == {"cancel", "pause", "resume", "enable", "setACL", "destroy"}
PipeType == {"MP3", "PCM"}

ASSUME SpeakerAssumption ==
    /\ MaxSpeech \in Nat \ {0}
    /\ MaxCalls \in Nat
    /\ Calls \subseteq CallKinds
    /\ Preemptive \in BOOLEAN
    /\ HasLocal \in BOOLEAN
    /\ LocalType \in PipeType
    /\ MaxFailures \in 0 .. 255

VARIABLES
    queue,          \* m_queue: speech ids
    nextId,         \* nextSpeechId's next value
    flushed,        \* m_flushed
    speaking,       \* m_isSpeaking, and m_clientSpeaking # NULL
    paused,         \* m_isPaused
    eos,            \* m_isEOS
    pipelineError, networkError, remoteError,
    pipeline,       \* m_pipeline # NULL
    ptype,          \* m_pipelinetype
    ensure,         \* m_ensurePipeline
    failures,       \* m_pipelineConstructionFailures
    runThread,      \* m_runThread
    gstState,       \* state the pipeline is in
    gstTarget,      \* state last asked of it
    bus,            \* messages it has posted on its bus
    bmsg,           \* message the bus watch handles, or event it is about to tell
    bstale,         \* bmsg comes from a pipeline destroyed since
    btell,          \* whom it tells, holding m_stateMutex
    gpc,            \* where the GStreamer thread is
    data,           \* SpeechData local to its loop
    current,        \* m_currentSpeech
    retried,        \* the second speakText has begun
    apc, call, arg, \* where the API caller is, in which call, its argument
    calls,          \* calls made, up to MaxCalls
    preempted,      \* ghost: every speech up to this id was pre-empted by a later one
    heard,          \* ghost: what the client of each speech was told
    crashed         \* undefined behaviour was met

flagVars   == <<flushed, speaking, paused, eos>>
errorVars  == <<pipelineError, networkError, remoteError>>
pipeVars   == <<pipeline, ptype, ensure, failures>>
streamVars == <<gstState, gstTarget, bus>>
watchVars  == <<bmsg, bstale, btell>>
apiVars    == <<apc, call, arg, calls, runThread>>
gstVars    == <<gpc, data, current, retried>>
queueVars  == <<queue, nextId, preempted>>
ghostVars  == <<heard, crashed>>
vars == <<queueVars, flagVars, errorVars, pipeVars, streamVars, watchVars,
          gstVars, apiVars, ghostVars>>

Outcomes == {"spoke", "interrupted", "networkerror", "playbackerror"}
Playback == {"started", "paused", "resumed"}
Silence  == [will |-> FALSE, play |-> "none", end |-> "none", ends |-> 0]
Messages == {"PLAYING", "PAUSED", "EOS", "ERROR", "SOURCE_ERROR"}

GstPcs == {"top", "update", "create", "noPipeline", "failHead", "wait", "parking",
           "parked", "stopCheck", "take", "begin", "announce", "speakText", "play",
           "playing", "played", "retry", "decide", "finish", "reset", "done"}
ApiPcs == {"idle", "cancelCheck", "cancelSet", "flush", "enqueue", "ensure",
           "pauseSet", "resumeSet", "stopNotify", "join", "gone"}

FlagTypes == /\ flushed \in BOOLEAN /\ speaking \in BOOLEAN
             /\ paused \in BOOLEAN /\ eos \in BOOLEAN
             /\ pipelineError \in BOOLEAN /\ networkError \in BOOLEAN
             /\ remoteError \in BOOLEAN
             /\ pipeline \in BOOLEAN /\ ensure \in BOOLEAN
             /\ bstale \in BOOLEAN /\ retried \in BOOLEAN
             /\ runThread \in BOOLEAN /\ crashed \in BOOLEAN
StateTypes == /\ ptype \in PipeType
              /\ gstState \in {"null", "ready", "paused", "playing", "drained"}
              /\ gstTarget \in {"null", "paused", "playing"}
              /\ bmsg \in Messages \cup Playback \cup {"none"}
              /\ gpc \in GstPcs
              /\ apc \in ApiPcs /\ call \in CallKinds \cup {"none", "speak"}
NumberTypes == /\ nextId \in 1 .. (MaxSpeech + 1) /\ preempted \in 0 .. MaxSpeech
               /\ failures \in 0 .. 255 /\ calls \in 0 .. MaxCalls
               /\ arg \in 0 .. MaxSpeech
               /\ btell \in 0 .. MaxSpeech
               /\ data \in 0 .. MaxSpeech /\ current \in 0 .. MaxSpeech
QueueTypes == queue \in Seq(Speech) /\ bus \in Seq(Messages)
GhostTypes == heard \in [Speech -> [will: BOOLEAN, play: Playback \cup {"none"},
                                    end: Outcomes \cup {"none"}, ends: Nat]]

\* The flags, the states of the pipeline and of the threads, the counters and the queue
\* keep their ranges; m_pipelineConstructionFailures stays a byte (TTSSpeaker.h).
TypeOK == FlagTypes /\ StateTypes /\ NumberTypes /\ QueueTypes /\ GhostTypes

Init ==
    /\ queue = <<>> /\ nextId = 1 /\ preempted = 0
    /\ flushed = FALSE /\ speaking = FALSE /\ paused = FALSE /\ eos = FALSE
    /\ pipelineError = FALSE /\ networkError = FALSE /\ remoteError = FALSE
    \* the constructor leaves m_pipelinetype uninitialised; it is only used when
    \* there is a local endpoint
    /\ ptype \in PipeType /\ (ptype = "MP3" \/ HasLocal)
    /\ pipeline = FALSE /\ ensure = FALSE /\ failures = 0
    /\ gstState = "null" /\ gstTarget = "null" /\ bus = <<>>
    /\ bmsg = "none" /\ bstale = FALSE /\ btell = None
    /\ gpc = "top" /\ data = None /\ current = None /\ retried = FALSE
    /\ apc = "idle" /\ call = "none" /\ arg = 0 /\ calls = 0 /\ runThread = TRUE
    /\ heard = [s \in Speech |-> Silence]
    /\ crashed = FALSE

-------------------------------------------------------------------------------
(* The condition variable.  Only the GStreamer thread waits on it.  It     *)
(* evaluates its predicate holding m_queueMutex ("parking" when it was     *)
(* false) and gives the mutex up as it blocks ("parked").                  *)

\* Mutant: the queue is changed without m_queueMutex.
QueueMutexFree_Unlocked == TRUE

QueueMutexFree == gpc # "parking"

\* Mutant: setSpeakingState does not take m_stateMutex.
StateMutexFree_Unlocked == TRUE
StateMutexFree == btell = None

needsPipelineUpdate ==
    /\ failures < MaxFailures \/ queue # <<>>
    /\ pipeline # ensure

WorkToDo == queue # <<>> \/ ~runThread \/ needsPipelineUpdate

\* m_condition.notify_one(): a thread that is not blocked is not told.
Notify == /\ gpc' = IF gpc = "parked" THEN "wait" ELSE gpc
          /\ UNCHANGED <<data, current, retried>>

-------------------------------------------------------------------------------
(* The API caller.                                                         *)

ApiGoto(to) == apc' = to
InCall(step) == apc = step /\ ~crashed
Free == InCall("idle")
Return == apc' = "idle" /\ call' = "none" /\ arg' = 0

\* A call of kind k with argument id enters at the step `to'.
Enter(k, id, to) ==
    /\ Free /\ k \in Calls /\ calls < MaxCalls
    /\ calls' = calls + 1 /\ call' = k /\ arg' = id /\ ApiGoto(to)
    /\ UNCHANGED runThread

Issued == 1 .. (nextId - 1)

\* What the manager refuses (no configuration, no text, no access) changes nothing.
Speak ==
    /\ Free /\ nextId <= MaxSpeech
    /\ call' = "speak" /\ arg' = 0
    /\ ApiGoto(IF Preemptive THEN "cancelCheck" ELSE "enqueue")
    /\ UNCHANGED <<calls, runThread, queueVars, flagVars, errorVars, pipeVars, streamVars,
                   watchVars, gstVars, ghostVars>>

\* speakWithUtterance never resets the speaker.
SpeakWithUtterance ==
    /\ Free /\ nextId <= MaxSpeech /\ Preemptive
    /\ ApiGoto("enqueue")
    /\ UNCHANGED <<call, arg, calls, runThread, queueVars, flagVars, errorVars, pipeVars,
                   streamVars, watchVars, gstVars, ghostVars>>

\* Cancel(id); a new access list cancels whatever is spoken; disabling does too.
Cancel == \E id \in Issued : Enter("cancel", id, "cancelCheck")
SetACL == Enter("setACL", 0, "cancelCheck")
Enable == \/ ensure /\ Enter("enable", 0, "cancelCheck")
          \/ ~ensure /\ Enter("enable", 1, "ensure")
EnterCancel ==
    /\ Cancel \/ SetACL \/ Enable
    /\ UNCHANGED <<queueVars, flagVars, errorVars, pipeVars, streamVars, watchVars, gstVars,
                   ghostVars>>

AfterCancel ==
    CASE call = "speak"  -> ApiGoto("flush")  /\ UNCHANGED <<call, arg>>
      [] call = "enable" -> ApiGoto("ensure") /\ UNCHANGED <<call, arg>>
      [] OTHER           -> Return

\* m_isSpeaking && m_currentSpeech && (its id is the one asked, or any is)
CancelHits == speaking /\ current # None /\ (arg = 0 \/ current = arg)

CancelCheck ==
    /\ InCall("cancelCheck")
    /\ IF CancelHits THEN ApiGoto("cancelSet") /\ UNCHANGED <<call, arg>> ELSE AfterCancel
    /\ UNCHANGED <<calls, runThread, queueVars, flagVars, errorVars, pipeVars, streamVars,
                   watchVars, gstVars, ghostVars>>

CancelSet ==
    /\ InCall("cancelSet")
    /\ paused' = FALSE /\ flushed' = TRUE
    /\ Notify
    /\ AfterCancel
    /\ UNCHANGED <<calls, runThread, speaking, eos, queueVars, errorVars, pipeVars,
                   streamVars, watchVars, ghostVars>>

FlushQueue ==
    /\ InCall("flush") /\ QueueMutexFree
    /\ queue' = <<>>
    /\ ApiGoto("enqueue")
    /\ UNCHANGED <<call, arg, calls, runThread, nextId, preempted, flagVars, errorVars,
                   pipeVars, streamVars, watchVars, gstVars, ghostVars>>

\* Mutant: the waiting thread is not notified.
QueueData_NoNotify ==
    /\ InCall("enqueue") /\ QueueMutexFree
    /\ queue' = Append(queue, nextId)
    /\ nextId' = nextId + 1
    /\ preempted' = IF call = "speak" /\ Preemptive THEN nextId - 1 ELSE preempted
    /\ Return
    /\ UNCHANGED <<calls, runThread, flagVars, errorVars, pipeVars, streamVars, watchVars,
                   gstVars, ghostVars>>

QueueData ==
    /\ InCall("enqueue") /\ QueueMutexFree
    /\ queue' = Append(queue, nextId)
    /\ nextId' = nextId + 1
    /\ preempted' = IF call = "speak" /\ Preemptive THEN nextId - 1 ELSE preempted
    /\ Notify
    /\ Return
    /\ UNCHANGED <<calls, runThread, flagVars, errorVars, pipeVars, streamVars, watchVars,
                   ghostVars>>

EnsurePipeline ==
    /\ InCall("ensure") /\ QueueMutexFree
    /\ ensure' = (arg = 1)
    /\ Notify
    /\ Return
    /\ UNCHANGED <<calls, runThread, pipeline, ptype, failures, queueVars, flagVars,
                   errorVars, streamVars, watchVars, ghostVars>>

\* pause(id) and resume(id): the tests, then gst_element_set_state.
Pause == ~paused /\ Enter("pause", current, "pauseSet")
Resume == paused /\ Enter("resume", current, "resumeSet")
EnterPause ==
    /\ speaking /\ current # None /\ pipeline
    /\ Pause \/ Resume
    /\ UNCHANGED <<queueVars, flagVars, errorVars, pipeVars, streamVars, watchVars,
                   gstVars, ghostVars>>

\* gst_element_set_state(m_pipeline, ...): ignored on NULL; otherwise the
\* pipeline, even one set back to the NULL state, starts towards the target.
SetState(target) ==
    IF pipeline
    THEN /\ gstTarget' = target
         /\ gstState' = IF gstState = "null" THEN "ready" ELSE gstState
         /\ UNCHANGED bus
    ELSE UNCHANGED streamVars

PauseSet ==
    /\ InCall("pauseSet")
    /\ paused' = TRUE
    /\ SetState("paused")
    /\ Return
    /\ UNCHANGED <<calls, runThread, flushed, speaking, eos, queueVars, errorVars, pipeVars,
                   watchVars, gstVars, ghostVars>>

ResumeSet ==
    /\ InCall("resumeSet")
    /\ SetState("playing")
    /\ Return
    /\ UNCHANGED <<calls, runThread, queueVars, flagVars, errorVars, pipeVars, watchVars,
                   gstVars, ghostVars>>

\* ~TTSSpeaker: flags and notification, without m_queueMutex; then join.
Destroy ==
    /\ Free /\ "destroy" \in Calls
    /\ flushed' = (flushed \/ speaking)
    /\ runThread' = FALSE
    /\ ApiGoto("stopNotify")
    /\ UNCHANGED <<call, arg, calls, speaking, paused, eos, queueVars, errorVars, pipeVars,
                   streamVars, watchVars, gstVars, ghostVars>>

DestroyNotify ==
    /\ InCall("stopNotify")
    /\ Notify
    /\ ApiGoto("join")
    /\ UNCHANGED <<call, arg, calls, runThread, queueVars, flagVars, errorVars, pipeVars,
                   streamVars, watchVars, ghostVars>>

Join ==
    /\ InCall("join") /\ gpc = "done"
    /\ ApiGoto("gone")
    /\ UNCHANGED <<call, arg, calls, runThread, queueVars, flagVars, errorVars, pipeVars,
                   streamVars, watchVars, gstVars, ghostVars>>
-------------------------------------------------------------------------------
(* The pipeline, as the GStreamer thread builds and tears it down.         *)

\* ++m_pipelineConstructionFailures, a uint8_t
OneMore(n) == (n + 1) % 256

\* How createPipeline ends, called with the pipeline up or not: on success it
\* ends with resetPipeline, which clears the flags; if an error is still flagged
\* there, that destroys the pipeline just built and creates another, which can
\* fail in its turn ("lost").
Created(up, err) ==
    IF ~ensure \/ up THEN {"skipped"}
    ELSE {"built", "failed"} \cup (IF err THEN {"lost"} ELSE {})

\* What that leaves, called with n failures counted.
Adopt(o, up, n, type) ==
    /\ pipeline' = (o = "built" \/ (o = "skipped" /\ up))
    /\ failures' = CASE o = "built"  -> 0
                     [] o = "failed" -> OneMore(n)
                     [] o = "lost"   -> OneMore(0)
                     [] OTHER        -> n
    \* one that failed may have recorded its type, or not got that far
    /\ ptype' \in IF o = "skipped" \/ ~HasLocal THEN {ptype}
                  ELSE IF o = "failed" THEN {ptype, type} ELSE {type}
    /\ UNCHANGED ensure
Cleared(o) == o \in {"built", "lost"}

ClearFlags(yes) ==
    /\ eos' = FALSE
    /\ paused' = (paused /\ ~yes)
    /\ pipelineError' = (pipelineError /\ ~yes)
    /\ networkError' = (networkError /\ ~yes)
    /\ remoteError' = (remoteError /\ ~yes)

\* The pipeline is in the NULL state, which also flushes its bus; what the bus
\* watch holds of a pipeline that is destroyed is stale.
Silent(destroyed) ==
    /\ gstState' = "null" /\ gstTarget' = "null" /\ bus' = <<>>
    /\ bstale' = (bstale \/ (destroyed /\ bmsg # "none"))
    /\ UNCHANGED <<bmsg, btell>>

destroyPipeline == /\ Silent(pipeline)
                   /\ pipeline' = FALSE /\ failures' = 0
                   /\ UNCHANGED <<ptype, ensure>>

\* resetPipeline: an error costs the pipeline; a missing one is created.
resetPipeline ==
    LET up == pipeline /\ ~pipelineError
        n  == IF pipelineError THEN 0 ELSE failures
    IN /\ \E o \in Created(up, FALSE) : Adopt(o, up, n, ptype)
       /\ ClearFlags(TRUE)
       /\ Silent(pipeline /\ pipelineError)

-------------------------------------------------------------------------------
(* The GStreamer thread.                                                   *)

GstGoto(to) == gpc' = to
At(step) == gpc = step /\ ~crashed
Step(from, to) == At(from) /\ GstGoto(to)
\* willSpeak and the playback events of a client, and its outcome
TellWill(s) == heard' = [heard EXCEPT ![s].will = TRUE]
TellPlay(s, e) == heard' = [heard EXCEPT ![s].play = e]
TellEnd(s, k) == heard' = [heard EXCEPT ![s].end = k, ![s].ends = @ + 1]

\* while(m_runThread) { if(needsPipelineUpdate()) ... }
LoopExit ==
    /\ Step("top", "done") /\ ~runThread
    /\ destroyPipeline
    /\ UNCHANGED <<data, current, retried, queueVars, flagVars, errorVars, apiVars, ghostVars>>

LoopUpdate ==
    /\ Step("top", "update") /\ runThread /\ needsPipelineUpdate
    /\ UNCHANGED <<data, current, retried, queueVars, flagVars, errorVars, pipeVars,
                   streamVars, watchVars, apiVars, ghostVars>>

\* if(m_ensurePipeline): a second read of it, and createPipeline's is a third.
LoopChoose ==
    /\ At("update")
    /\ \/ /\ ensure
          /\ GstGoto("create")
          /\ UNCHANGED <<pipeVars, streamVars, watchVars>>
       \/ /\ ~ensure
          /\ destroyPipeline
          /\ GstGoto("wait")
    /\ UNCHANGED <<data, current, retried, queueVars, flagVars, errorVars, apiVars, ghostVars>>

CreatePipeline ==
    /\ At("create")
    /\ \E o \in Created(pipeline, pipelineError) :
          /\ Adopt(o, pipeline, failures, ptype)
          /\ ClearFlags(Cleared(o))
    /\ GstGoto(IF pipeline' THEN "wait" ELSE "noPipeline")
    /\ Silent(FALSE)
    /\ UNCHANGED <<data, current, retried, flushed, speaking, queueVars, apiVars, ghostVars>>

LoopNoUpdate ==
    /\ Step("top", "wait") /\ runThread /\ ~needsPipelineUpdate
    /\ UNCHANGED <<data, current, retried, queueVars, flagVars, errorVars, pipeVars,
                   streamVars, watchVars, apiVars, ghostVars>>

\* if(!m_pipeline && !m_queue.empty()): read without the mutex.
CreationFailed ==
    /\ At("noPipeline")
    /\ GstGoto(IF queue # <<>> THEN "failHead" ELSE "wait")
    /\ UNCHANGED <<data, current, retried, queueVars, flagVars, errorVars, pipeVars,
                   streamVars, watchVars, apiVars, ghostVars>>

\* Mutant: front() without pop_front().
dequeueData_Peek ==
    /\ flushed' = FALSE
    /\ UNCHANGED <<queueVars, crashed, speaking, paused, eos>>

\* dequeueData: front() and pop_front(), undefined on an empty list.
dequeueData ==
    /\ IF queue = <<>> THEN crashed' = TRUE /\ UNCHANGED queue
                       ELSE queue' = Tail(queue) /\ UNCHANGED crashed
    /\ flushed' = FALSE
    /\ UNCHANGED <<nextId, preempted, speaking, paused, eos>>

\* Mutant: the request is removed and its client told nothing.
FailHead_Untold ==
    /\ Step("failHead", "wait")
    /\ dequeueData
    /\ failures' = 0
    /\ UNCHANGED <<data, current, retried, pipeline, ptype, ensure, errorVars, streamVars,
                   watchVars, apiVars, heard>>

FailHead ==
    /\ Step("failHead", "wait")
    /\ dequeueData
    /\ IF queue = <<>> THEN UNCHANGED heard ELSE TellEnd(Head(queue), "playbackerror")
    /\ failures' = 0
    /\ UNCHANGED <<data, current, retried, pipeline, ptype, ensure, errorVars, streamVars,
                   watchVars, apiVars>>

\* m_condition.wait: the predicate is evaluated, then the thread blocks.
Evaluate ==
    /\ At("wait")
    /\ GstGoto(IF WorkToDo THEN "stopCheck" ELSE "parking")
    /\ UNCHANGED <<data, current, retried, queueVars, flagVars, errorVars, pipeVars,
                   streamVars, watchVars, apiVars, ghostVars>>

Block ==
    /\ Step("parking", "parked")
    /\ UNCHANGED <<data, current, retried, queueVars, flagVars, errorVars, pipeVars,
                   streamVars, watchVars, apiVars, ghostVars>>

\* Stop on the Speaker's cue, or update the pipeline first, or take an item.
StopCheck ==
    /\ At("stopCheck")
    /\ \/ /\ ~runThread /\ GstGoto("done")
          /\ Silent(FALSE)
       \/ /\ runThread /\ GstGoto(IF needsPipelineUpdate THEN "top" ELSE "take")
          /\ UNCHANGED <<streamVars, watchVars>>
    /\ UNCHANGED <<data, current, retried, queueVars, flagVars, errorVars, pipeVars,
                   apiVars, ghostVars>>

Take ==
    /\ Step("take", "begin")
    /\ dequeueData
    /\ data' = IF queue = <<>> THEN None ELSE Head(queue)
    /\ UNCHANGED <<current, retried, errorVars, pipeVars, streamVars, watchVars, apiVars,
                   heard>>

\* setSpeakingState(true, client)
BeginSpeaking ==
    /\ Step("begin", "announce") /\ StateMutexFree
    /\ speaking' = TRUE
    /\ UNCHANGED <<data, current, retried, flushed, paused, eos, queueVars, errorVars, pipeVars,
                   streamVars, watchVars, apiVars, ghostVars>>

WillSpeak ==
    /\ Step("announce", "speakText")
    /\ IF flushed THEN UNCHANGED heard ELSE TellWill(data)
    /\ UNCHANGED <<data, current, retried, queueVars, flagVars, errorVars, pipeVars,
                   streamVars, watchVars, apiVars, crashed>>

\* speakText: the tests; the SAT token and the URL come between them and play.
SpeakText ==
    /\ At("speakText")
    /\ eos' = IF flushed /\ ~retried THEN eos ELSE FALSE
    /\ GstGoto(IF pipeline /\ ~flushed THEN "play" ELSE "retry")
    /\ UNCHANGED <<data, current, retried, flushed, speaking, paused, queueVars, errorVars,
                   pipeVars, streamVars, watchVars, apiVars, ghostVars>>

\* shouldUseLocalEndpoint and getUrlPipelineType of the URL constructed
UrlType(connected) ==
    IF HasLocal /\ (~connected \/ remoteError) THEN LocalType ELSE "MP3"

\* constructURL, which replaces a pipeline of the other type, and play.
Play ==
    /\ Step("play", "playing")
    /\ current' = data
    /\ \E connected \in BOOLEAN :
          LET type == UrlType(connected) IN
          \/ /\ HasLocal /\ type # ptype
             /\ \E o \in Created(FALSE, pipelineError) :
                   /\ Adopt(o, FALSE, 0, type)
                   /\ ClearFlags(Cleared(o))
                   /\ bus' = <<>>
                   /\ gstState'  = IF o = "built" THEN "ready" ELSE "null"
                   /\ gstTarget' = IF o = "built" THEN "playing" ELSE "null"
             /\ bstale' = (bmsg # "none")
             /\ UNCHANGED <<bmsg, btell, flushed, speaking>>
          \/ /\ ~HasLocal \/ type = ptype
             /\ SetState("playing")
             /\ UNCHANGED <<pipeVars, flagVars, errorVars, watchVars>>
    /\ UNCHANGED <<data, retried, queueVars, apiVars, ghostVars>>

\* waitForAudioToFinishTimeout: interrupted, completed, or, unless paused, no
\* progress until the timeout; the pipeline goes to the NULL state.
AudioOver == ~pipeline \/ pipelineError \/ flushed \/ eos
AudioEnds ==
    /\ Step("playing", "played")
    /\ AudioOver \/ ~paused
    /\ Silent(FALSE)
    /\ eos' = FALSE
    /\ UNCHANGED <<data, current, retried, flushed, speaking, paused, queueVars, errorVars,
                   pipeVars, apiVars, ghostVars>>

\* Mutant: m_currentSpeech keeps pointing at the speech played.
PlayReturns_Dangling ==
    /\ Step("played", "retry")
    /\ UNCHANGED <<data, current, retried, queueVars, flagVars, errorVars, pipeVars,
                   streamVars, watchVars, apiVars, ghostVars>>

PlayReturns ==
    /\ Step("played", "retry")
    /\ current' = None
    /\ UNCHANGED <<data, retried, queueVars, flagVars, errorVars, pipeVars, streamVars,
                   watchVars, apiVars, ghostVars>>

\* Use the local endpoint, once, as the remote one is down.
Retry ==
    /\ At("retry")
    /\ LET again == ~retried /\ ~flushed /\ remoteError IN
       /\ GstGoto(IF again THEN "speakText" ELSE "decide")
       /\ retried' = again
    /\ UNCHANGED <<data, current, queueVars, flagVars, errorVars, pipeVars, streamVars,
                   watchVars, apiVars, ghostVars>>

Outcome == IF flushed THEN "interrupted"
           ELSE IF networkError THEN "networkerror"
           ELSE IF ~pipeline \/ pipelineError THEN "playbackerror" ELSE "spoke"

Decide ==
    /\ Step("decide", "finish")
    /\ TellEnd(data, Outcome)
    /\ UNCHANGED <<data, current, retried, queueVars, flagVars, errorVars, pipeVars,
                   streamVars, watchVars, apiVars, crashed>>

\* setSpeakingState(false), which also clears m_flushed
FinishSpeaking ==
    /\ Step("finish", "reset") /\ StateMutexFree
    /\ speaking' = FALSE /\ flushed' = FALSE
    /\ data' = None
    /\ UNCHANGED <<current, retried, paused, eos, queueVars, errorVars, pipeVars,
                   streamVars, watchVars, apiVars, ghostVars>>

Reset ==
    /\ Step("reset", "top")
    /\ resetPipeline
    /\ UNCHANGED <<data, current, retried, flushed, speaking, queueVars, apiVars, ghostVars>>

-------------------------------------------------------------------------------
(* The pipeline's stream and the bus watch.                                *)

Post(m) == bus' = Append(bus, m)

\* The pipeline follows its target; only PAUSED<->PLAYING changes are acted on.
StreamAdvances ==
    /\ ~crashed
    /\ \/ /\ gstState = "ready" /\ gstTarget # "null"
          /\ gstState' = "paused" /\ UNCHANGED bus
       \/ /\ gstState = "paused" /\ gstTarget = "playing"
          /\ gstState' = "playing" /\ Post("PLAYING")
       \/ /\ gstState = "playing" /\ gstTarget = "paused"
          /\ gstState' = "paused" /\ Post("PAUSED")
    /\ UNCHANGED gstTarget
    /\ UNCHANGED <<queueVars, flagVars, errorVars, pipeVars, watchVars, gstVars, apiVars,
                   ghostVars>>

\* The stream comes to its end, or fails, in its source or elsewhere.
StreamEnds ==
    /\ ~crashed
    /\ \/ gstState = "playing" /\ Post("EOS")
       \/ /\ gstState \in {"ready", "paused", "playing"}
          /\ \E m \in {"ERROR", "SOURCE_ERROR"} : Post(m)
    /\ gstState' = "drained"
    /\ UNCHANGED gstTarget
    /\ UNCHANGED <<queueVars, flagVars, errorVars, pipeVars, watchVars, gstVars, apiVars,
                   ghostVars>>

\* What the bus watch has in hand
Holds(kinds) == bmsg \in kinds /\ ~crashed

\* The main loop dispatches the next message; handleMessage drops it when
\* the pipeline is gone.
BusPop ==
    /\ Holds({"none"}) /\ bus # <<>>
    /\ bmsg' = Head(bus) /\ bus' = Tail(bus) /\ bstale' = FALSE
    /\ UNCHANGED <<btell, gstState, gstTarget, queueVars, flagVars, errorVars, pipeVars,
                   gstVars, apiVars, ghostVars>>

Handled == bmsg' = "none" /\ bstale' = FALSE /\ btell' = None

HandleDropped ==
    /\ Holds(Messages)
    /\ ~pipeline \/ (bmsg \in {"PLAYING", "PAUSED"} /\ bstale)
    /\ Handled
    /\ UNCHANGED <<streamVars, queueVars, flagVars, errorVars, pipeVars, gstVars, apiVars,
                   ghostVars>>

HandleEos ==
    /\ Holds({"EOS"}) /\ pipeline
    /\ eos' = TRUE
    /\ Notify /\ Handled
    /\ UNCHANGED <<flushed, speaking, paused, errorVars, streamVars, queueVars, pipeVars,
                   apiVars, ghostVars>>

\* An error of the HTTP source sends the client to the local endpoint when
\* there is one and the pipeline is not already the local one.
HandleError ==
    /\ Holds({"ERROR", "SOURCE_ERROR"}) /\ pipeline
    /\ LET remote == HasLocal /\ ptype = "MP3" IN
       /\ remoteError'  = (remoteError  \/ (bmsg = "SOURCE_ERROR" /\ remote))
       /\ networkError' = (networkError \/ (bmsg = "SOURCE_ERROR" /\ ~remote))
    /\ pipelineError' = TRUE
    /\ Notify /\ Handled
    /\ UNCHANGED <<flagVars, streamVars, queueVars, pipeVars, apiVars, ghostVars>>

\* PLAYING tells started, or resumed after a pause; PAUSED tells paused.
Announces == speaking /\ (bmsg = "PAUSED" => paused)
\* Mutant: the state change itself is forwarded.
PlaybackEvent_Raw == bmsg

PlaybackEvent == IF bmsg = "PAUSED" THEN "paused"
                 ELSE IF paused THEN "resumed" ELSE "started"

\* Under m_stateMutex m_clientSpeaking is tested and m_currentSpeech, which no
\* mutex protects, is dereferenced; bmsg then holds the event to tell.
HandleState ==
    /\ Holds({"PLAYING", "PAUSED"}) /\ pipeline /\ ~bstale
    /\ \/ /\ ~Announces
          /\ Handled /\ UNCHANGED <<paused, crashed>>
       \/ /\ Announces /\ current = None
          /\ crashed' = TRUE /\ UNCHANGED <<paused, watchVars>>
       \/ /\ Announces /\ current # None
          /\ btell' = current /\ bmsg' = PlaybackEvent
          /\ paused' = (paused /\ bmsg # "PLAYING")
          /\ UNCHANGED <<bstale, crashed>>
    /\ UNCHANGED <<flushed, speaking, eos, streamVars, queueVars, errorVars, pipeVars,
                   gstVars, apiVars, heard>>

\* The client is told; the mutex is released.  (The notification that follows
\* finds nobody blocked: a speech is being served.)
HandleTell ==
    /\ btell # None /\ ~crashed
    /\ TellPlay(btell, bmsg)
    /\ Handled
    /\ UNCHANGED <<flagVars, errorVars, streamVars, queueVars, pipeVars, gstVars, apiVars,
                   crashed>>

-------------------------------------------------------------------------------
ApiStep == \/ CancelCheck \/ CancelSet \/ FlushQueue \/ QueueData \/ EnsurePipeline
           \/ PauseSet \/ ResumeSet \/ DestroyNotify \/ Join
ApiCall == Speak \/ SpeakWithUtterance \/ EnterCancel \/ EnterPause \/ Destroy
GstStep == \/ LoopExit \/ LoopUpdate \/ LoopChoose \/ CreatePipeline \/ LoopNoUpdate
           \/ CreationFailed \/ FailHead \/ Evaluate \/ Block \/ StopCheck \/ Take
           \/ BeginSpeaking \/ WillSpeak \/ SpeakText \/ Play \/ AudioEnds
           \/ PlayReturns \/ Retry \/ Decide \/ FinishSpeaking \/ Reset
BusStep == BusPop \/ HandleDropped \/ HandleEos \/ HandleError \/ HandleState \/ HandleTell
Stream  == StreamAdvances \/ StreamEnds

Next == ApiCall \/ ApiStep \/ GstStep \/ BusStep \/ Stream

\* The operating system runs every thread; a call that entered goes on; the
\* wait for the audio ends because a stream either ends or stops advancing,
\* and then times out.  Nothing makes a client call, nor a stream advance.
Fairness == /\ WF_vars(ApiStep)
            /\ WF_vars(GstStep)
            /\ WF_vars(BusStep)

Spec == Init /\ [][Next]_vars
FairSpec == Spec /\ Fairness

-------------------------------------------------------------------------------
(* Properties.                                                             *)

Serving == {"begin", "announce", "speakText", "play", "playing", "played", "retry",
            "decide", "finish"}

\* m_currentSpeech points into the GStreamer thread's stack: it never outlives
\* the speech being served, so whoever finds it set finds that speech.
CurrentIsServed ==
    current # None => gpc \in {"playing", "played"} /\ current = data /\ speaking

\* The thread is never asleep while there is something to do: a speech queued,
\* a pipeline to create or to destroy (lost wakeup; the destructor apart).
NeverAsleepOnWork == gpc = "parked" => queue = <<>> /\ ~needsPipelineUpdate

\* A speech has one fate: it is queued once, served once, told one outcome, and
\* nothing follows a refusal; what is queued or served has no outcome yet.
OneFate ==
    /\ \A i, j \in DOMAIN queue : i < j => queue[i] < queue[j]
    /\ \A i \in DOMAIN queue : queue[i] < nextId /\ data < queue[i]
                              /\ heard[queue[i]] = Silence
    /\ \A s \in Speech : heard[s].ends <= 1 /\ (s >= nextId => heard[s] = Silence)

\* The bus watch tells started, paused and resumed only to the speech being
\* served, after its willSpeak: m_stateMutex keeps setSpeakingState out.
ToldWhileServed ==
    btell # None => /\ gpc \in Serving /\ data = btell
                    /\ heard[btell].will

\* Comment at TTSSpeaker.cpp:478, "clear old queued data & stop speaking": once
\* speak returned, no older speech starts to be played.
PreemptedStaysSilent ==
    [][gpc = "play" /\ gpc' = "playing" => data > preempted]_vars

\* Comment at TTSSpeaker.cpp:1012, "Take an item from the queue".
ItemToTake == gpc \in {"take", "failHead"} => queue # <<>>

\* Comment at TTSSpeaker.cpp:1021, "Stop thread on Speaker's cue".
DestructorReturns == apc = "join" ~> apc = "gone"

\* Every speech accepted is told an outcome in the end, when none is dropped by
\* pre-emption, unless it is paused for ever or the process died: no wakeup is
\* lost, and no wait for a pipeline or for an end of stream lasts for ever.
EverySpeechEnds ==
    \A s \in Speech :
        (nextId > s) ~> (heard[s].end # "none" \/ crashed \/ []paused)
-------------------------------------------------------------------------------
(* The speaker implements SpeechLifecycle.                                 *)

Stage == [s \in Speech |->
            IF s >= nextId THEN "new"
            ELSE IF s = data THEN "serving"
            ELSE IF \E i \in DOMAIN queue : queue[i] = s THEN "pending"
            ELSE IF heard[s].end # "none" THEN "over" ELSE "dropped"]
Told == [s \in Speech |-> [will |-> heard[s].will, play |-> heard[s].play,
                           end |-> heard[s].end]]

Lifecycle == INSTANCE SpeechLifecycle WITH stage <- Stage, heard <- Told

\* Whatever the threads' interleaving, the clients see SpeechLifecycle.
ImplementsLifecycle == Lifecycle!Spec
===============================================================================

-------------------------- MODULE TTSSpeakerProofs --------------------------
(***************************************************************************)
(* The safety of TTSSpeaker, for every value of its constants, and the     *)
(* lifecycle of a speech that it implements.                               *)
(*                                                                         *)
(* None of the properties is inductive.  SafetyInv strengthens them:       *)
(* Parking alone gives NeverAsleepOnWork; Served and Announced say what    *)
(* the GStreamer thread has in hand at each of its steps, and TellsServed, *)
(* which they imply for the step that starts telling, is then kept by the  *)
(* mutex; Ordered and Untold relate the queue, the speech in hand and what *)
(* the clients were told.  crashed weakens Served and Announced: a take    *)
(* from an empty queue leaves nothing in hand, and no step follows it.     *)
(*                                                                         *)
(* From SafetyInv also: TTSSpeaker implements SpeechLifecycle.  The        *)
(* mapping, Stage and Told, is at the end of TTSSpeaker.  Eight of the     *)
(* speaker's actions change what it shows; every other one is a stutter.   *)
(* Each of the eight is one action of the lifecycle, or a stutter: what is *)
(* served is alone and is the oldest that waits, a playback event finds it *)
(* announced, and it is told that it was spoken only if it was announced.  *)
(* Outcomes1 is added: an outcome is recorded when, and only when, one was *)
(* told.                                                                   *)
(***************************************************************************)
EXTENDS TTSSpeakerTypes

USE SpeakerAssumption
USE DEF None, vars, queueVars, flagVars, errorVars, pipeVars, streamVars, watchVars,
        gstVars, apiVars, ghostVars, InCall, Free, ApiGoto, Return, Enter, Step, At,
        GstGoto, Holds, Handled

-------------------------------------------------------------------------------
(* The inductive invariant.                                                *)

\* The thread is between two evaluations of its predicate only with nothing to do.
Parking == gpc \in {"parking", "parked"} => queue = <<>> /\ ~needsPipelineUpdate

\* A speech is in hand from dequeueData to setSpeakingState(false), m_isSpeaking
\* is set once it began, and m_currentSpeech only points at it.
Served ==
    /\ gpc \in Serving => data # None \/ crashed
    /\ gpc \notin Serving => data = None
    /\ speaking <=> gpc \in Serving \ {"begin"}
    /\ current # None => gpc \in {"playing", "played"} /\ current = data

\* Past willSpeak a speech was announced, or a cancellation stands.
Announced ==
    /\ gpc \in {"play", "playing", "played"} => crashed \/ heard[data].will
    /\ gpc \in {"speakText", "retry", "decide"} => flushed \/ crashed \/ heard[data].will

\* The bus watch tells the speech in hand, and holds it in service.
TellsServed ==
    btell # None => /\ gpc \in Serving \ {"begin"} /\ data = btell
                    /\ heard[btell].will

\* Ids are queued in order, each once, below nextId and above the one in hand.
Ordered ==
    /\ \A i, j \in DOMAIN queue : i < j => queue[i] < queue[j]
    /\ \A i \in DOMAIN queue : data < queue[i] /\ queue[i] < nextId
    /\ data < nextId

\* What waits, or is not accepted yet, was told nothing; what is in hand has no
\* outcome before decide and one after.
Untold ==
    /\ \A i \in DOMAIN queue : heard[queue[i]] = Silence
    /\ \A s \in Speech : s >= nextId => heard[s] = Silence
    /\ \A s \in Speech : heard[s].ends <= 1
    /\ data # None => heard[data].ends = IF gpc = "finish" THEN 1 ELSE 0

SafetyInv == Parking /\ Served /\ Announced /\ TellsServed /\ Ordered /\ Untold

-------------------------------------------------------------------------------
(* Operators.                                                              *)

\* What remains of a queue once its head is taken, and what an append adds.
LEMMA QueueFacts ==
  ASSUME NEW q \in Seq(Speech)
  PROVE  /\ q # <<>> => /\ 1 \in DOMAIN q /\ Head(q) = q[1] /\ Head(q) \in Speech
                        /\ Tail(q) \in Seq(Speech)
                        /\ \A i \in DOMAIN Tail(q) : /\ i \in Nat \ {0} /\ i + 1 \in DOMAIN q
                                                     /\ Tail(q)[i] = q[i + 1]
         /\ \A i \in DOMAIN q : q[i] \in Speech /\ i \in 1 .. Len(q)
         /\ \A s : /\ DOMAIN Append(q, s) = DOMAIN q \cup {Len(q) + 1}
                   /\ \A i \in DOMAIN q : Append(q, s)[i] = q[i]
                   /\ Append(q, s)[Len(q) + 1] = s
  OBVIOUS

\* What telling one client changes of what the clients were told.
LEMMA HeardFacts ==
  ASSUME GhostTypes, NEW s \in Speech
  PROVE  /\ TellWill(s) => /\ heard'[s].will = TRUE /\ heard'[s].ends = heard[s].ends
                           /\ \A t \in Speech \ {s} : heard'[t] = heard[t]
         /\ \A e : TellPlay(s, e) =>
              /\ heard'[s].will = heard[s].will /\ heard'[s].ends = heard[s].ends
              /\ \A t \in Speech \ {s} : heard'[t] = heard[t]
         /\ \A k : TellEnd(s, k) =>
              /\ heard'[s].will = heard[s].will /\ heard'[s].ends = heard[s].ends + 1
              /\ \A t \in Speech \ {s} : heard'[t] = heard[t]
<1>1. heard \in [Speech -> Told1]
  BY GhostIsTold
<1>2. heard[s] \in Told1
  BY <1>1
<1>3. ASSUME TellWill(s)
      PROVE  /\ heard'[s].will = TRUE /\ heard'[s].ends = heard[s].ends
             /\ \A t \in Speech \ {s} : heard'[t] = heard[t]
  BY <1>1, <1>2, <1>3 DEF TellWill, Told1
<1>4. ASSUME NEW e, TellPlay(s, e)
      PROVE  /\ heard'[s].will = heard[s].will /\ heard'[s].ends = heard[s].ends
             /\ \A t \in Speech \ {s} : heard'[t] = heard[t]
  BY <1>1, <1>2, <1>4 DEF TellPlay, Told1
<1>5. ASSUME NEW k, TellEnd(s, k)
      PROVE  /\ heard'[s].will = heard[s].will /\ heard'[s].ends = heard[s].ends + 1
             /\ \A t \in Speech \ {s} : heard'[t] = heard[t]
  BY <1>1, <1>2, <1>5 DEF TellEnd, Told1
<1> QED
  BY <1>3, <1>4, <1>5

\* Silence is being told of no outcome.
LEMMA SilenceFacts == Silence.ends = 0 /\ Silence.will = FALSE
  BY DEF Silence

-------------------------------------------------------------------------------
(* The steps, one conjunct of the invariant at a time.                     *)

\* Who changes what the thread waits for wakes it, or is kept out while it decides.
LEMMA ParkingStep == ASSUME Parking, [Next]_vars PROVE Parking'
<1>1. CASE Speak \/ SpeakWithUtterance \/ EnterCancel \/ EnterPause \/ Destroy \/
          CancelCheck \/ PauseSet \/ ResumeSet
  <2>1. UNCHANGED <<gpc, queue, failures, pipeline, ensure>>
    BY <1>1 DEF Speak, SpeakWithUtterance, EnterCancel, Cancel, SetACL, Enable, Issued,
       EnterPause, Pause, Resume, Destroy,
       CancelCheck, CancelHits, AfterCancel, PauseSet, SetState, ResumeSet
  <2> QED
    BY <2>1 DEF Parking, needsPipelineUpdate
<1>2. CASE Join \/ BusPop \/ HandleDropped \/ HandleState \/ HandleTell \/
          StreamAdvances \/ StreamEnds
  <2>1. UNCHANGED <<gpc, queue, failures, pipeline, ensure>>
    BY <1>2 DEF Join, BusPop, HandleDropped, HandleState, Announces, PlaybackEvent,
       HandleTell, TellPlay, StreamAdvances, Post, StreamEnds
  <2> QED
    BY <2>1 DEF Parking, needsPipelineUpdate
<1>3. CASE FlushQueue
  BY <1>3 DEF Parking, needsPipelineUpdate, FlushQueue, QueueMutexFree
<1>4. CASE CancelSet
  BY <1>4 DEF Parking, needsPipelineUpdate, CancelSet, AfterCancel, Notify
<1>5. CASE QueueData
  BY <1>5 DEF Parking, needsPipelineUpdate, QueueData, QueueMutexFree, Notify
<1>6. CASE EnsurePipeline
  BY <1>6 DEF Parking, needsPipelineUpdate, EnsurePipeline, QueueMutexFree, Notify
<1>7. CASE DestroyNotify
  BY <1>7 DEF Parking, needsPipelineUpdate, DestroyNotify, Notify
<1>8. CASE HandleEos
  BY <1>8 DEF Parking, needsPipelineUpdate, HandleEos, Notify
<1>9. CASE HandleError
  BY <1>9 DEF Parking, needsPipelineUpdate, HandleError, Notify
<1>10. CASE LoopExit
  BY <1>10 DEF Parking, LoopExit
<1>11. CASE LoopUpdate
  BY <1>11 DEF Parking, needsPipelineUpdate, LoopUpdate
<1>12. CASE LoopChoose
  BY <1>12 DEF Parking, needsPipelineUpdate, LoopChoose, destroyPipeline, Silent
<1>13. CASE CreatePipeline
  BY <1>13 DEF Parking, needsPipelineUpdate, CreatePipeline, Adopt, ClearFlags, Silent
<1>14. CASE LoopNoUpdate
  BY <1>14 DEF Parking, LoopNoUpdate
<1>15. CASE CreationFailed
  BY <1>15 DEF Parking, needsPipelineUpdate, CreationFailed
<1>16. CASE FailHead
  BY <1>16 DEF Parking, FailHead
<1>17. CASE Evaluate
  BY <1>17 DEF Parking, needsPipelineUpdate, Evaluate, WorkToDo
<1>18. CASE Block
  BY <1>18 DEF Parking, needsPipelineUpdate, Block
<1>19. CASE StopCheck
  BY <1>19 DEF Parking, needsPipelineUpdate, StopCheck, Silent
<1>20. CASE Take
  BY <1>20 DEF Parking, Take
<1>21. CASE BeginSpeaking
  BY <1>21 DEF Parking, BeginSpeaking
<1>22. CASE WillSpeak
  BY <1>22 DEF Parking, WillSpeak
<1>23. CASE SpeakText
  BY <1>23 DEF Parking, needsPipelineUpdate, SpeakText
<1>24. CASE Play
  BY <1>24 DEF Parking, Play
<1>25. CASE AudioEnds
  BY <1>25 DEF Parking, AudioEnds
<1>26. CASE PlayReturns
  BY <1>26 DEF Parking, PlayReturns
<1>27. CASE Retry
  BY <1>27 DEF Parking, needsPipelineUpdate, Retry
<1>28. CASE Decide
  BY <1>28 DEF Parking, Decide
<1>29. CASE FinishSpeaking
  BY <1>29 DEF Parking, FinishSpeaking
<1>30. CASE Reset
  BY <1>30 DEF Parking, Reset
<1>31. CASE UNCHANGED vars
  BY <1>31 DEF Parking, needsPipelineUpdate
<1> QED
  BY <1>1, <1>2, <1>3, <1>4, <1>5, <1>6, <1>7, <1>8, <1>9, <1>10, <1>11, <1>12, <1>13,
     <1>14, <1>15, <1>16, <1>17, <1>18, <1>19, <1>20, <1>21, <1>22, <1>23, <1>24, <1>25,
     <1>26, <1>27, <1>28, <1>29, <1>30, <1>31 DEF Next, ApiCall, ApiStep, GstStep,
     BusStep, Stream

\* The speech in hand.
LEMMA ServedStep == ASSUME TypeInv, Served, [Next]_vars PROVE Served'
<1>1. CASE Speak \/ SpeakWithUtterance \/ EnterCancel \/ EnterPause \/ Destroy \/
          CancelCheck \/ FlushQueue \/ PauseSet
  <2>1. UNCHANGED <<gpc, data, current, speaking, crashed>>
    BY <1>1 DEF Speak, SpeakWithUtterance, EnterCancel, Cancel, SetACL, Enable, Issued,
       EnterPause, Pause, Resume, Destroy,
       CancelCheck, CancelHits, AfterCancel, FlushQueue, QueueMutexFree, PauseSet,
       SetState
  <2> QED
    BY <2>1 DEF Served, Serving
<1>2. CASE ResumeSet \/ Join \/ BusPop \/ HandleDropped \/ HandleTell \/
          StreamAdvances \/ StreamEnds
  <2>1. UNCHANGED <<gpc, data, current, speaking, crashed>>
    BY <1>2 DEF ResumeSet, SetState, Join, BusPop, HandleDropped, HandleTell, TellPlay,
       StreamAdvances, Post, StreamEnds
  <2> QED
    BY <2>1 DEF Served, Serving
<1>3. CASE CancelSet
  BY <1>3 DEF Served, Serving, CancelSet, AfterCancel, Notify
<1>4. CASE QueueData
  BY <1>4 DEF Served, Serving, QueueData, QueueMutexFree, Notify
<1>5. CASE EnsurePipeline
  BY <1>5 DEF Served, Serving, EnsurePipeline, QueueMutexFree, Notify
<1>6. CASE DestroyNotify
  BY <1>6 DEF Served, Serving, DestroyNotify, Notify
<1>7. CASE HandleEos
  BY <1>7 DEF Served, Serving, HandleEos, Notify
<1>8. CASE HandleError
  BY <1>8 DEF Served, Serving, HandleError, Notify
<1>9. CASE LoopExit
  BY <1>9 DEF Served, Serving, LoopExit, destroyPipeline, Silent
<1>10. CASE LoopUpdate
  BY <1>10 DEF Served, Serving, LoopUpdate, needsPipelineUpdate
<1>11. CASE LoopChoose
  BY <1>11 DEF Served, Serving, LoopChoose, destroyPipeline, Silent
<1>12. CASE CreatePipeline
  BY <1>12 DEF Served, Serving, CreatePipeline, Adopt, ClearFlags, Silent
<1>13. CASE LoopNoUpdate
  BY <1>13 DEF Served, Serving, LoopNoUpdate
<1>14. CASE CreationFailed
  BY <1>14 DEF Served, Serving, CreationFailed
<1>15. CASE FailHead
  BY <1>15 DEF Served, Serving, FailHead, dequeueData, TellEnd
<1>16. CASE Evaluate
  BY <1>16 DEF Served, Serving, Evaluate, WorkToDo
<1>17. CASE Block
  BY <1>17 DEF Served, Serving, Block
<1>18. CASE StopCheck
  BY <1>18 DEF Served, Serving, StopCheck, Silent
<1>19. CASE Take
  BY <1>19, QueueFacts DEF TypeInv, TypeOK, QueueTypes, Speech, Served, Serving, Take, dequeueData
<1>20. CASE BeginSpeaking
  BY <1>20 DEF Served, Serving, BeginSpeaking, StateMutexFree
<1>21. CASE WillSpeak
  BY <1>21 DEF Served, Serving, WillSpeak, TellWill
<1>22. CASE SpeakText
  BY <1>22 DEF Served, Serving, SpeakText
<1>23. CASE Play
  <2>1. current' = data /\ gpc = "play" /\ gpc' = "playing" /\ crashed' = crashed /\ data' = data
    BY <1>23 DEF Play
  <2>2. speaking' = speaking
    BY <1>23 DEF Play, ClearFlags
  <2> QED
    BY <2>1, <2>2 DEF Served, Serving
<1>24. CASE AudioEnds
  BY <1>24 DEF Served, Serving, AudioEnds, Silent, AudioOver
<1>25. CASE PlayReturns
  BY <1>25 DEF Served, Serving, PlayReturns
<1>26. CASE Retry
  BY <1>26 DEF Served, Serving, Retry
<1>27. CASE Decide
  BY <1>27 DEF Served, Serving, Decide, TellEnd, Outcome
<1>28. CASE FinishSpeaking
  BY <1>28 DEF Served, Serving, FinishSpeaking, StateMutexFree
<1>29. CASE Reset
  BY <1>29 DEF Served, Serving, Reset, resetPipeline, Adopt, ClearFlags, Silent
<1>30. CASE HandleState
  BY <1>30 DEF Served, Serving, HandleState, Announces, PlaybackEvent
<1>31. CASE UNCHANGED vars
  BY <1>31 DEF Served, Serving
<1> QED
  BY <1>1, <1>2, <1>3, <1>4, <1>5, <1>6, <1>7, <1>8, <1>9, <1>10, <1>11, <1>12, <1>13,
     <1>14, <1>15, <1>16, <1>17, <1>18, <1>19, <1>20, <1>21, <1>22, <1>23, <1>24, <1>25,
     <1>26, <1>27, <1>28, <1>29, <1>30, <1>31 DEF Next, ApiCall, ApiStep, GstStep,
     BusStep, Stream

\* The speech told.
LEMMA TellsServedStep ==
  ASSUME TypeInv, Served, Announced, TellsServed, [Next]_vars
  PROVE  TellsServed'
<1>1. CASE Speak \/ SpeakWithUtterance \/ EnterCancel \/ EnterPause \/ Destroy \/
          CancelCheck \/ FlushQueue \/ PauseSet
  <2>1. UNCHANGED <<btell, gpc, data, heard>>
    BY <1>1 DEF Speak, SpeakWithUtterance, EnterCancel, Cancel, SetACL, Enable, Issued,
       EnterPause, Pause, Resume, Destroy,
       CancelCheck, CancelHits, AfterCancel, FlushQueue, QueueMutexFree, PauseSet,
       SetState
  <2> QED
    BY <2>1 DEF TellsServed, Served, Announced, Serving, TypeInv, TypeOK, NumberTypes,
       Speech, Telling, Messages, Playback
<1>2. CASE ResumeSet \/ Join \/ BusPop \/ StreamAdvances \/ StreamEnds
  <2>1. UNCHANGED <<btell, gpc, data, heard>>
    BY <1>2 DEF ResumeSet, SetState, Join, BusPop, StreamAdvances, Post, StreamEnds
  <2> QED
    BY <2>1 DEF TellsServed, Served, Announced, Serving, TypeInv, TypeOK, NumberTypes,
       Speech, Telling, Messages, Playback
<1>3. CASE CancelSet
  BY <1>3 DEF TellsServed, Served, Announced, Serving, TypeInv, TypeOK, NumberTypes,
     Speech, Telling, Messages, Playback, CancelSet, AfterCancel, Notify
<1>4. CASE QueueData
  BY <1>4 DEF TellsServed, Served, Announced, Serving, TypeInv, TypeOK, NumberTypes,
     Speech, Telling, Messages, Playback, QueueData, QueueMutexFree, Notify
<1>5. CASE EnsurePipeline
  BY <1>5 DEF TellsServed, Served, Announced, Serving, TypeInv, TypeOK, NumberTypes,
     Speech, Telling, Messages, Playback, EnsurePipeline, QueueMutexFree, Notify
<1>6. CASE DestroyNotify
  BY <1>6 DEF TellsServed, Served, Announced, Serving, TypeInv, TypeOK, NumberTypes,
     Speech, Telling, Messages, Playback, DestroyNotify, Notify
<1>7. CASE HandleEos
  BY <1>7 DEF TellsServed, Served, Announced, Serving, TypeInv, TypeOK, NumberTypes,
     Speech, Telling, Messages, Playback, HandleEos, Notify
<1>8. CASE HandleError
  BY <1>8 DEF TellsServed, Served, Announced, Serving, TypeInv, TypeOK, NumberTypes,
     Speech, Telling, Messages, Playback, HandleError, Notify
<1>9. CASE LoopExit
  BY <1>9 DEF TellsServed, Served, Announced, Serving, TypeInv, TypeOK, NumberTypes,
     Speech, Telling, Messages, Playback, LoopExit, destroyPipeline, Silent
<1>10. CASE LoopUpdate
  BY <1>10 DEF TellsServed, Served, Announced, Serving, TypeInv, TypeOK, NumberTypes,
     Speech, Telling, Messages, Playback, LoopUpdate, needsPipelineUpdate
<1>11. CASE LoopChoose
  BY <1>11 DEF TellsServed, Served, Announced, Serving, TypeInv, TypeOK, NumberTypes,
     Speech, Telling, Messages, Playback, LoopChoose, destroyPipeline, Silent
<1>12. CASE CreatePipeline
  BY <1>12 DEF TellsServed, Served, Announced, Serving, TypeInv, TypeOK, NumberTypes,
     Speech, Telling, Messages, Playback, CreatePipeline, Adopt, ClearFlags, Silent
<1>13. CASE LoopNoUpdate
  BY <1>13 DEF TellsServed, Served, Announced, Serving, TypeInv, TypeOK, NumberTypes,
     Speech, Telling, Messages, Playback, LoopNoUpdate
<1>14. CASE CreationFailed
  BY <1>14 DEF TellsServed, Served, Announced, Serving, TypeInv, TypeOK, NumberTypes,
     Speech, Telling, Messages, Playback, CreationFailed
<1>15. CASE FailHead
  BY <1>15 DEF TellsServed, Served, Announced, Serving, TypeInv, TypeOK, NumberTypes,
     Speech, Telling, Messages, Playback, FailHead, dequeueData, TellEnd
<1>16. CASE Evaluate
  BY <1>16 DEF TellsServed, Served, Announced, Serving, TypeInv, TypeOK, NumberTypes,
     Speech, Telling, Messages, Playback, Evaluate, WorkToDo
<1>17. CASE Block
  BY <1>17 DEF TellsServed, Served, Announced, Serving, TypeInv, TypeOK, NumberTypes,
     Speech, Telling, Messages, Playback, Block
<1>18. CASE StopCheck
  BY <1>18 DEF TellsServed, Served, Announced, Serving, TypeInv, TypeOK, NumberTypes,
     Speech, Telling, Messages, Playback, StopCheck, Silent
<1>19. CASE Take
  BY <1>19 DEF TellsServed, Served, Announced, Serving, TypeInv, TypeOK, NumberTypes,
     Speech, Telling, Messages, Playback, Take, dequeueData
<1>20. CASE BeginSpeaking
  BY <1>20 DEF TellsServed, Served, Announced, Serving, TypeInv, TypeOK, NumberTypes,
     Speech, Telling, Messages, Playback, BeginSpeaking, StateMutexFree
<1>21. CASE WillSpeak
  <2>1. data \in Speech
    BY <1>21 DEF Served, Serving, TypeInv, TypeOK, NumberTypes, Speech, WillSpeak
  <2> QED
    BY <1>21, <2>1, HeardFacts DEF TypeInv, TypeOK, TellsServed, Served, Serving, WillSpeak
<1>22. CASE SpeakText
  BY <1>22 DEF TellsServed, Served, Announced, Serving, TypeInv, TypeOK, NumberTypes,
     Speech, Telling, Messages, Playback, SpeakText
<1>23. CASE Play
  BY <1>23 DEF TellsServed, Served, Announced, Serving, TypeInv, TypeOK, NumberTypes,
     Speech, Telling, Messages, Playback, Play, Adopt, ClearFlags, SetState, UrlType
<1>24. CASE AudioEnds
  BY <1>24 DEF TellsServed, Served, Announced, Serving, TypeInv, TypeOK, NumberTypes,
     Speech, Telling, Messages, Playback, AudioEnds, Silent, AudioOver
<1>25. CASE PlayReturns
  BY <1>25 DEF TellsServed, Served, Announced, Serving, TypeInv, TypeOK, NumberTypes,
     Speech, Telling, Messages, Playback, PlayReturns
<1>26. CASE Retry
  BY <1>26 DEF TellsServed, Served, Announced, Serving, TypeInv, TypeOK, NumberTypes,
     Speech, Telling, Messages, Playback, Retry
<1>27. CASE Decide
  <2>1. data \in Speech
    BY <1>27 DEF Served, Serving, TypeInv, TypeOK, NumberTypes, Speech, Decide
  <2> QED
    BY <1>27, <2>1, HeardFacts DEF TypeInv, TypeOK, TellsServed, Served, Serving, Decide
<1>28. CASE FinishSpeaking
  BY <1>28 DEF TellsServed, Served, Announced, Serving, TypeInv, TypeOK, NumberTypes,
     Speech, Telling, Messages, Playback, FinishSpeaking, StateMutexFree
<1>29. CASE Reset
  BY <1>29 DEF TellsServed, Served, Announced, Serving, TypeInv, TypeOK, NumberTypes,
     Speech, Telling, Messages, Playback, Reset, resetPipeline, Adopt, ClearFlags,
     Silent
<1>30. CASE HandleDropped
  BY <1>30 DEF TellsServed, Served, Announced, Serving, TypeInv, TypeOK, NumberTypes,
     Speech, Telling, Messages, Playback, HandleDropped
<1>31. CASE HandleState
  BY <1>31 DEF TellsServed, Served, Announced, Serving, TypeInv, TypeOK, NumberTypes,
     Speech, Telling, Messages, Playback, HandleState, Announces, PlaybackEvent
<1>32. CASE HandleTell
  BY <1>32 DEF TellsServed, Served, Announced, Serving, TypeInv, TypeOK, NumberTypes,
     Speech, Telling, Messages, Playback, HandleTell, TellPlay
<1>33. CASE UNCHANGED vars
  BY <1>33 DEF TellsServed, Served, Announced, Serving, TypeInv, TypeOK, NumberTypes,
     Speech, Telling, Messages, Playback
<1> QED
  BY <1>1, <1>2, <1>3, <1>4, <1>5, <1>6, <1>7, <1>8, <1>9, <1>10, <1>11, <1>12, <1>13,
     <1>14, <1>15, <1>16, <1>17, <1>18, <1>19, <1>20, <1>21, <1>22, <1>23, <1>24, <1>25,
     <1>26, <1>27, <1>28, <1>29, <1>30, <1>31, <1>32, <1>33 DEF Next, ApiCall, ApiStep,
     GstStep, BusStep, Stream

\* Announcements and cancellations.
LEMMA AnnouncedStep == ASSUME TypeInv, Served, Announced, TellsServed, [Next]_vars PROVE Announced'
<1>1. CASE Speak \/ SpeakWithUtterance \/ EnterCancel \/ EnterPause \/ CancelCheck \/
          FlushQueue \/ PauseSet \/ ResumeSet
  <2>1. UNCHANGED <<gpc, data, heard, flushed, crashed>>
    BY <1>1 DEF Speak, SpeakWithUtterance, EnterCancel, Cancel, SetACL, Enable, Issued,
       EnterPause, Pause, Resume, CancelCheck,
       CancelHits, AfterCancel, FlushQueue, QueueMutexFree, PauseSet, SetState,
       ResumeSet
  <2> QED
    BY <2>1 DEF TellsServed, Served, Announced, Serving, TypeInv, TypeOK, NumberTypes,
       Speech
<1>2. CASE Join \/ BusPop \/ HandleDropped \/ StreamAdvances \/ StreamEnds
  <2>1. UNCHANGED <<gpc, data, heard, flushed, crashed>>
    BY <1>2 DEF Join, BusPop, HandleDropped, StreamAdvances, Post, StreamEnds
  <2> QED
    BY <2>1 DEF TellsServed, Served, Announced, Serving, TypeInv, TypeOK, NumberTypes,
       Speech
<1>3. CASE CancelSet
  BY <1>3 DEF TellsServed, Served, Announced, Serving, TypeInv, TypeOK, NumberTypes,
     Speech, CancelSet, AfterCancel, Notify
<1>4. CASE QueueData
  BY <1>4 DEF TellsServed, Served, Announced, Serving, TypeInv, TypeOK, NumberTypes,
     Speech, QueueData, QueueMutexFree, Notify
<1>5. CASE EnsurePipeline
  BY <1>5 DEF TellsServed, Served, Announced, Serving, TypeInv, TypeOK, NumberTypes,
     Speech, EnsurePipeline, QueueMutexFree, Notify
<1>6. CASE DestroyNotify
  BY <1>6 DEF TellsServed, Served, Announced, Serving, TypeInv, TypeOK, NumberTypes,
     Speech, DestroyNotify, Notify
<1>7. CASE HandleEos
  BY <1>7 DEF TellsServed, Served, Announced, Serving, TypeInv, TypeOK, NumberTypes,
     Speech, HandleEos, Notify
<1>8. CASE HandleError
  BY <1>8 DEF TellsServed, Served, Announced, Serving, TypeInv, TypeOK, NumberTypes,
     Speech, HandleError, Notify
<1>9. CASE Destroy
  BY <1>9 DEF TellsServed, Served, Announced, Serving, TypeInv, TypeOK, NumberTypes,
     Speech, Destroy
<1>10. CASE LoopExit
  BY <1>10 DEF TellsServed, Served, Announced, Serving, TypeInv, TypeOK, NumberTypes,
     Speech, LoopExit, destroyPipeline, Silent
<1>11. CASE LoopUpdate
  BY <1>11 DEF TellsServed, Served, Announced, Serving, TypeInv, TypeOK, NumberTypes,
     Speech, LoopUpdate, needsPipelineUpdate
<1>12. CASE LoopChoose
  BY <1>12 DEF TellsServed, Served, Announced, Serving, TypeInv, TypeOK, NumberTypes,
     Speech, LoopChoose, destroyPipeline, Silent
<1>13. CASE CreatePipeline
  BY <1>13 DEF TellsServed, Served, Announced, Serving, TypeInv, TypeOK, NumberTypes,
     Speech, CreatePipeline, Adopt, ClearFlags, Silent
<1>14. CASE LoopNoUpdate
  BY <1>14 DEF TellsServed, Served, Announced, Serving, TypeInv, TypeOK, NumberTypes,
     Speech, LoopNoUpdate
<1>15. CASE CreationFailed
  BY <1>15 DEF TellsServed, Served, Announced, Serving, TypeInv, TypeOK, NumberTypes,
     Speech, CreationFailed
<1>16. CASE FailHead
  BY <1>16 DEF TellsServed, Served, Announced, Serving, TypeInv, TypeOK, NumberTypes,
     Speech, FailHead, dequeueData, TellEnd
<1>17. CASE Evaluate
  BY <1>17 DEF TellsServed, Served, Announced, Serving, TypeInv, TypeOK, NumberTypes,
     Speech, Evaluate, WorkToDo
<1>18. CASE Block
  BY <1>18 DEF TellsServed, Served, Announced, Serving, TypeInv, TypeOK, NumberTypes,
     Speech, Block
<1>19. CASE StopCheck
  BY <1>19 DEF TellsServed, Served, Announced, Serving, TypeInv, TypeOK, NumberTypes,
     Speech, StopCheck, Silent
<1>20. CASE Take
  BY <1>20 DEF TellsServed, Served, Announced, Serving, TypeInv, TypeOK, NumberTypes,
     Speech, Take, dequeueData
<1>21. CASE BeginSpeaking
  BY <1>21 DEF TellsServed, Served, Announced, Serving, TypeInv, TypeOK, NumberTypes,
     Speech, BeginSpeaking, StateMutexFree
<1>22. CASE WillSpeak
  <2>1. data \in Speech
    BY <1>22 DEF Served, Serving, TypeInv, TypeOK, NumberTypes, Speech, WillSpeak
  <2> QED
    BY <1>22, <2>1, HeardFacts DEF TypeInv, TypeOK, Announced, WillSpeak
<1>23. CASE SpeakText
  BY <1>23 DEF TellsServed, Served, Announced, Serving, TypeInv, TypeOK, NumberTypes,
     Speech, SpeakText
<1>24. CASE Play
  BY <1>24 DEF TellsServed, Served, Announced, Serving, TypeInv, TypeOK, NumberTypes,
     Speech, Play, Adopt, ClearFlags, SetState, UrlType
<1>25. CASE AudioEnds
  BY <1>25 DEF TellsServed, Served, Announced, Serving, TypeInv, TypeOK, NumberTypes,
     Speech, AudioEnds, Silent, AudioOver
<1>26. CASE PlayReturns
  BY <1>26 DEF TellsServed, Served, Announced, Serving, TypeInv, TypeOK, NumberTypes,
     Speech, PlayReturns
<1>27. CASE Retry
  BY <1>27 DEF TellsServed, Served, Announced, Serving, TypeInv, TypeOK, NumberTypes,
     Speech, Retry
<1>28. CASE Decide
  BY <1>28 DEF TellsServed, Served, Announced, Serving, TypeInv, TypeOK, NumberTypes,
     Speech, Decide, TellEnd, Outcome
<1>29. CASE FinishSpeaking
  BY <1>29 DEF TellsServed, Served, Announced, Serving, TypeInv, TypeOK, NumberTypes,
     Speech, FinishSpeaking, StateMutexFree
<1>30. CASE Reset
  BY <1>30 DEF TellsServed, Served, Announced, Serving, TypeInv, TypeOK, NumberTypes,
     Speech, Reset, resetPipeline, Adopt, ClearFlags, Silent
<1>31. CASE HandleState
  BY <1>31 DEF TellsServed, Served, Announced, Serving, TypeInv, TypeOK, NumberTypes,
     Speech, HandleState, Announces, PlaybackEvent
<1>32. CASE HandleTell
  BY <1>32 DEF TellsServed, Served, Announced, Serving, TypeInv, TypeOK, NumberTypes,
     Speech, HandleTell, TellPlay
<1>33. CASE UNCHANGED vars
  BY <1>33 DEF TellsServed, Served, Announced, Serving, TypeInv, TypeOK, NumberTypes,
     Speech
<1> QED
  BY <1>1, <1>2, <1>3, <1>4, <1>5, <1>6, <1>7, <1>8, <1>9, <1>10, <1>11, <1>12, <1>13,
     <1>14, <1>15, <1>16, <1>17, <1>18, <1>19, <1>20, <1>21, <1>22, <1>23, <1>24, <1>25,
     <1>26, <1>27, <1>28, <1>29, <1>30, <1>31, <1>32, <1>33 DEF Next, ApiCall, ApiStep,
     GstStep, BusStep, Stream

\* The order of the queue.
LEMMA OrderedStep == ASSUME TypeInv, Served, Ordered, [Next]_vars PROVE Ordered'
<1>1. CASE Speak \/ SpeakWithUtterance \/ EnterCancel \/ EnterPause \/ Destroy \/
          CancelCheck \/ CancelSet \/ EnsurePipeline
  <2>1. UNCHANGED <<queue, data, nextId>>
    BY <1>1 DEF Speak, SpeakWithUtterance, EnterCancel, Cancel, SetACL, Enable, Issued,
       EnterPause, Pause, Resume, Destroy,
       CancelCheck, CancelHits, AfterCancel, CancelSet, Notify, EnsurePipeline,
       QueueMutexFree
  <2> QED
    BY <2>1 DEF Ordered, Served, Serving, TypeInv, TypeOK, NumberTypes, QueueTypes,
       Speech
<1>2. CASE PauseSet \/ ResumeSet \/ DestroyNotify \/ Join \/ LoopExit \/ LoopUpdate \/
          LoopChoose \/ CreatePipeline
  <2>1. UNCHANGED <<queue, data, nextId>>
    BY <1>2 DEF PauseSet, SetState, ResumeSet, DestroyNotify, Notify, Join, LoopExit,
       destroyPipeline, Silent, LoopUpdate, needsPipelineUpdate, LoopChoose,
       CreatePipeline, Adopt, ClearFlags
  <2> QED
    BY <2>1 DEF Ordered, Served, Serving, TypeInv, TypeOK, NumberTypes, QueueTypes,
       Speech
<1>3. CASE LoopNoUpdate \/ CreationFailed \/ Evaluate \/ Block \/ StopCheck \/
          BeginSpeaking \/ WillSpeak \/ SpeakText
  <2>1. UNCHANGED <<queue, data, nextId>>
    BY <1>3 DEF LoopNoUpdate, CreationFailed, Evaluate, WorkToDo, Block, StopCheck,
       Silent, BeginSpeaking, StateMutexFree, WillSpeak, TellWill, SpeakText
  <2> QED
    BY <2>1 DEF Ordered, Served, Serving, TypeInv, TypeOK, NumberTypes, QueueTypes,
       Speech
<1>4. CASE Play \/ AudioEnds \/ PlayReturns \/ Retry \/ Decide \/ Reset \/ BusPop \/
          HandleDropped
  <2>1. UNCHANGED <<queue, data, nextId>>
    BY <1>4 DEF Play, Adopt, ClearFlags, SetState, UrlType, AudioEnds, Silent,
       AudioOver, PlayReturns, Retry, Decide, TellEnd, Outcome, Reset, resetPipeline,
       BusPop, HandleDropped
  <2> QED
    BY <2>1 DEF Ordered, Served, Serving, TypeInv, TypeOK, NumberTypes, QueueTypes,
       Speech
<1>5. CASE HandleEos \/ HandleError \/ HandleState \/ HandleTell \/ StreamAdvances \/
          StreamEnds
  <2>1. UNCHANGED <<queue, data, nextId>>
    BY <1>5 DEF HandleEos, Notify, HandleError, HandleState, Announces, PlaybackEvent,
       HandleTell, TellPlay, StreamAdvances, Post, StreamEnds
  <2> QED
    BY <2>1 DEF Ordered, Served, Serving, TypeInv, TypeOK, NumberTypes, QueueTypes,
       Speech
<1>6. CASE FlushQueue
  BY <1>6 DEF Ordered, Served, Serving, TypeInv, TypeOK, NumberTypes, QueueTypes,
     Speech, FlushQueue, QueueMutexFree
<1>7. CASE QueueData
  BY <1>7 DEF Ordered, Served, Serving, TypeInv, TypeOK, NumberTypes, QueueTypes,
     Speech, QueueData, QueueMutexFree, Notify
<1>8. CASE FailHead
  <2>1. CASE queue = <<>>
    BY <1>8, <2>1 DEF Ordered, Served, Serving, TypeInv, TypeOK, NumberTypes, QueueTypes,
       FailHead, dequeueData
  <2>2. CASE queue # <<>>
    <3>1. queue' = Tail(queue) /\ nextId' = nextId
      BY <1>8, <2>2 DEF FailHead, dequeueData
    <3>2. \A i \in DOMAIN queue' : /\ i \in Nat \ {0} /\ i + 1 \in DOMAIN queue /\ queue'[i] = queue[i + 1]
      BY <2>2, <3>1, QueueFacts DEF TypeInv, TypeOK, QueueTypes
    <3>3. \A i, j \in DOMAIN queue' : i < j => queue'[i] < queue'[j]
      BY <3>2 DEF Ordered
    <3>4. data' < nextId' /\ \A i \in DOMAIN queue' : data' < queue'[i] /\ queue'[i] < nextId'
      BY <1>8, <3>1, <3>2 DEF Ordered, FailHead
    <3> QED
      BY <3>3, <3>4 DEF Ordered
  <2> QED
    BY <2>1, <2>2
<1>9. CASE Take
  <2>1. CASE queue = <<>>
    BY <1>9, <2>1 DEF Ordered, Served, Serving, TypeInv, TypeOK, NumberTypes, QueueTypes, Take,
       dequeueData
  <2>2. CASE queue # <<>>
    <3>1. queue' = Tail(queue) /\ nextId' = nextId
      BY <1>9, <2>2 DEF Take, dequeueData
    <3>2. \A i \in DOMAIN queue' : /\ i \in Nat \ {0} /\ i + 1 \in DOMAIN queue /\ queue'[i] = queue[i + 1]
      BY <2>2, <3>1, QueueFacts DEF TypeInv, TypeOK, QueueTypes
    <3>3. \A i, j \in DOMAIN queue' : i < j => queue'[i] < queue'[j]
      BY <3>2 DEF Ordered
    <3>4. data' < nextId' /\ \A i \in DOMAIN queue' : data' < queue'[i] /\ queue'[i] < nextId'
      <4>1. data' = queue[1] /\ 1 \in DOMAIN queue
        BY <1>9, <2>2, QueueFacts DEF Take, TypeInv, TypeOK, QueueTypes
      <4>2. \A i \in DOMAIN queue' : 1 < i + 1
        BY <3>2
      <4> QED
        BY <3>1, <3>2, <4>1, <4>2 DEF Ordered
    <3> QED
      BY <3>3, <3>4 DEF Ordered
  <2> QED
    BY <2>1, <2>2
<1>10. CASE FinishSpeaking
  BY <1>10 DEF Ordered, Served, Serving, TypeInv, TypeOK, NumberTypes, QueueTypes,
     Speech, FinishSpeaking, StateMutexFree
<1>11. CASE UNCHANGED vars
  BY <1>11 DEF Ordered, Served, Serving, TypeInv, TypeOK, NumberTypes, QueueTypes,
     Speech
<1> QED
  BY <1>1, <1>2, <1>3, <1>4, <1>5, <1>6, <1>7, <1>8, <1>9, <1>10, <1>11 DEF Next,
     ApiCall, ApiStep, GstStep, BusStep, Stream

\* What the clients were not told yet.
LEMMA UntoldStep == ASSUME TypeInv, Served, Ordered, TellsServed, Untold, [Next]_vars PROVE Untold'
<1>1. CASE Speak \/ SpeakWithUtterance \/ EnterCancel \/ EnterPause \/ Destroy \/
          CancelCheck \/ PauseSet \/ ResumeSet
  <2>1. UNCHANGED <<queue, nextId, heard, data, gpc>>
    BY <1>1 DEF Speak, SpeakWithUtterance, EnterCancel, Cancel, SetACL, Enable, Issued,
       EnterPause, Pause, Resume, Destroy,
       CancelCheck, CancelHits, AfterCancel, PauseSet, SetState, ResumeSet
  <2> QED
    BY <2>1 DEF Untold, Ordered, Served, Serving, TypeInv, TypeOK, NumberTypes,
       QueueTypes, GhostTypes, Speech, TellsServed, Silence
<1>2. CASE Join \/ BusPop \/ HandleDropped \/ HandleState \/ StreamAdvances \/
          StreamEnds
  <2>1. UNCHANGED <<queue, nextId, heard, data, gpc>>
    BY <1>2 DEF Join, BusPop, HandleDropped, HandleState, Announces, PlaybackEvent,
       StreamAdvances, Post, StreamEnds
  <2> QED
    BY <2>1 DEF Untold, Ordered, Served, Serving, TypeInv, TypeOK, NumberTypes,
       QueueTypes, GhostTypes, Speech, TellsServed, Silence
<1>3. CASE FlushQueue
  BY <1>3 DEF Untold, Ordered, Served, Serving, TypeInv, TypeOK, NumberTypes,
     QueueTypes, GhostTypes, Speech, TellsServed, Silence, FlushQueue, QueueMutexFree
<1>4. CASE QueueData
  <2>1. queue' = Append(queue, nextId) /\ nextId' = nextId + 1 /\ UNCHANGED <<heard, data>>
    BY <1>4 DEF QueueData, Notify
  <2>2. nextId \in Speech
    BY <1>4 DEF TypeInv, TypeOK, NumberTypes, Room, Speech, QueueData
  <2>3. heard[nextId] = Silence
    BY <2>2 DEF Untold, TypeInv, TypeOK, NumberTypes, Speech
  <2>4. \A i \in DOMAIN queue' : heard'[queue'[i]] = Silence
    BY <2>1, <2>3, QueueFacts DEF Untold, TypeInv, TypeOK, QueueTypes
  <2>5. \A s \in Speech : s >= nextId' => heard'[s] = Silence
    BY <2>1 DEF Untold, TypeInv, TypeOK, NumberTypes, Speech
  <2>6. gpc' = "finish" <=> gpc = "finish"
    BY <1>4 DEF QueueData, Notify
  <2> QED
    BY <2>1, <2>4, <2>5, <2>6 DEF Untold
<1>5. CASE CancelSet
  BY <1>5 DEF Untold, Ordered, Served, Serving, TypeInv, TypeOK, NumberTypes,
     QueueTypes, GhostTypes, Speech, TellsServed, Silence, CancelSet, AfterCancel,
     Notify
<1>6. CASE EnsurePipeline
  BY <1>6 DEF Untold, Ordered, Served, Serving, TypeInv, TypeOK, NumberTypes,
     QueueTypes, GhostTypes, Speech, TellsServed, Silence, EnsurePipeline,
     QueueMutexFree, Notify
<1>7. CASE DestroyNotify
  BY <1>7 DEF Untold, Ordered, Served, Serving, TypeInv, TypeOK, NumberTypes,
     QueueTypes, GhostTypes, Speech, TellsServed, Silence, DestroyNotify, Notify
<1>8. CASE HandleEos
  BY <1>8 DEF Untold, Ordered, Served, Serving, TypeInv, TypeOK, NumberTypes,
     QueueTypes, GhostTypes, Speech, TellsServed, Silence, HandleEos, Notify
<1>9. CASE HandleError
  BY <1>9 DEF Untold, Ordered, Served, Serving, TypeInv, TypeOK, NumberTypes,
     QueueTypes, GhostTypes, Speech, TellsServed, Silence, HandleError, Notify
<1>10. CASE LoopExit
  BY <1>10 DEF Untold, Ordered, Served, Serving, TypeInv, TypeOK, NumberTypes,
     QueueTypes, GhostTypes, Speech, TellsServed, Silence, LoopExit, destroyPipeline,
     Silent
<1>11. CASE LoopUpdate
  BY <1>11 DEF Untold, Ordered, Served, Serving, TypeInv, TypeOK, NumberTypes,
     QueueTypes, GhostTypes, Speech, TellsServed, Silence, LoopUpdate,
     needsPipelineUpdate
<1>12. CASE LoopChoose
  BY <1>12 DEF Untold, Ordered, Served, Serving, TypeInv, TypeOK, NumberTypes,
     QueueTypes, GhostTypes, Speech, TellsServed, Silence, LoopChoose, destroyPipeline,
     Silent
<1>13. CASE CreatePipeline
  BY <1>13 DEF Untold, Ordered, Served, Serving, TypeInv, TypeOK, NumberTypes,
     QueueTypes, GhostTypes, Speech, TellsServed, Silence, CreatePipeline, Adopt,
     ClearFlags, Silent
<1>14. CASE LoopNoUpdate
  BY <1>14 DEF Untold, Ordered, Served, Serving, TypeInv, TypeOK, NumberTypes,
     QueueTypes, GhostTypes, Speech, TellsServed, Silence, LoopNoUpdate
<1>15. CASE CreationFailed
  BY <1>15 DEF Untold, Ordered, Served, Serving, TypeInv, TypeOK, NumberTypes,
     QueueTypes, GhostTypes, Speech, TellsServed, Silence, CreationFailed
<1>16. CASE FailHead
  <2>1. CASE queue = <<>>
    BY <1>16, <2>1, SilenceFacts DEF Untold, Served, Serving, FailHead, dequeueData
  <2>2. CASE queue # <<>>
    <3>1. queue' = Tail(queue) /\ nextId' = nextId
      BY <1>16, <2>2 DEF FailHead, dequeueData
    <3>2. \A i \in DOMAIN queue' : /\ i \in Nat \ {0} /\ i + 1 \in DOMAIN queue /\ queue'[i] = queue[i + 1]
      BY <2>2, <3>1, QueueFacts DEF TypeInv, TypeOK, QueueTypes
    <3>3. queue[1] \in Speech /\ 1 \in DOMAIN queue /\ Head(queue) = queue[1]
      BY <2>2, QueueFacts DEF TypeInv, TypeOK, QueueTypes
    <3>4. /\ heard'[queue[1]].ends = heard[queue[1]].ends + 1
          /\ \A t \in Speech \ {queue[1]} : heard'[t] = heard[t]
      BY <1>16, <2>2, <3>3, HeardFacts DEF FailHead, TypeInv, TypeOK
    <3>5. heard[queue[1]].ends = 0 /\ queue[1] < nextId
      BY <3>3, SilenceFacts DEF Untold, Ordered
    <3>6. \A i \in DOMAIN queue' : queue'[i] \in Speech \ {queue[1]}
      <4>1. \A i \in DOMAIN queue' : queue'[i] \in Speech
        BY <3>2, QueueFacts DEF TypeInv, TypeOK, QueueTypes
      <4>2. \A i \in DOMAIN queue' : queue[1] < queue'[i]
        BY <3>2, <3>3 DEF Ordered
      <4> QED
        BY <3>3, <4>1, <4>2 DEF Speech
    <3>7. data' = None
      BY <1>16 DEF Served, Serving, FailHead
    <3>8. \A i \in DOMAIN queue' : heard'[queue'[i]] = Silence
      BY <3>2, <3>4, <3>6 DEF Untold
    <3>9. \A s \in Speech : s >= nextId' => heard'[s] = Silence
      BY <3>1, <3>4, <3>5, <3>3 DEF Untold, Speech, TypeInv, TypeOK, NumberTypes
    <3>10. \A s \in Speech : heard'[s].ends <= 1
      <4>1. heard'[queue[1]].ends <= 1
        BY <3>4, <3>5
      <4> QED
        BY <3>4, <4>1 DEF Untold
    <3> QED
      BY <3>7, <3>8, <3>9, <3>10 DEF Untold
  <2> QED
    BY <2>1, <2>2
<1>17. CASE Evaluate
  BY <1>17 DEF Untold, Ordered, Served, Serving, TypeInv, TypeOK, NumberTypes,
     QueueTypes, GhostTypes, Speech, TellsServed, Silence, Evaluate, WorkToDo
<1>18. CASE Block
  BY <1>18 DEF Untold, Ordered, Served, Serving, TypeInv, TypeOK, NumberTypes,
     QueueTypes, GhostTypes, Speech, TellsServed, Silence, Block
<1>19. CASE StopCheck
  BY <1>19 DEF Untold, Ordered, Served, Serving, TypeInv, TypeOK, NumberTypes,
     QueueTypes, GhostTypes, Speech, TellsServed, Silence, StopCheck, Silent
<1>20. CASE Take
  <2>1. CASE queue = <<>>
    BY <1>20, <2>1, SilenceFacts DEF Untold, Served, Serving, Take, dequeueData
  <2>2. CASE queue # <<>>
    <3>1. queue' = Tail(queue) /\ nextId' = nextId
      BY <1>20, <2>2 DEF Take, dequeueData
    <3>2. \A i \in DOMAIN queue' : /\ i \in Nat \ {0} /\ i + 1 \in DOMAIN queue /\ queue'[i] = queue[i + 1]
      BY <2>2, <3>1, QueueFacts DEF TypeInv, TypeOK, QueueTypes
    <3>3. data' = queue[1] /\ 1 \in DOMAIN queue /\ heard' = heard /\ gpc' = "begin"
      BY <1>20, <2>2, QueueFacts DEF Take, TypeInv, TypeOK, QueueTypes
    <3> QED
      BY <3>1, <3>2, <3>3, SilenceFacts DEF Untold
  <2> QED
    BY <2>1, <2>2
<1>21. CASE BeginSpeaking
  BY <1>21 DEF Untold, Ordered, Served, Serving, TypeInv, TypeOK, NumberTypes,
     QueueTypes, GhostTypes, Speech, TellsServed, Silence, BeginSpeaking, StateMutexFree
<1>22. CASE WillSpeak
  <2>1. CASE flushed
    BY <1>22, <2>1 DEF Untold, WillSpeak
  <2>2. CASE ~flushed
    <3>1. data \in Speech
      BY <1>22 DEF Served, Serving, TypeInv, TypeOK, NumberTypes, Speech, WillSpeak
    <3>2. /\ heard'[data].ends = heard[data].ends
          /\ \A t \in Speech \ {data} : heard'[t] = heard[t]
      BY <1>22, <2>2, <3>1, HeardFacts DEF WillSpeak, TypeInv, TypeOK
    <3>3. \A i \in DOMAIN queue : queue[i] \in Speech \ {data}
      BY <3>1, QueueFacts DEF Ordered, TypeInv, TypeOK, QueueTypes, NumberTypes, Speech
    <3>4. data < nextId /\ UNCHANGED <<queue, nextId, data>>
      BY <1>22, <2>2, <3>1 DEF Ordered, WillSpeak, Handled
    <3>5. \A i \in DOMAIN queue' : heard'[queue'[i]] = Silence
      BY <3>2, <3>3, <3>4 DEF Untold
    <3>6. \A s \in Speech : s >= nextId' => heard'[s] = Silence
      BY <3>1, <3>2, <3>4 DEF Untold, Speech, TypeInv, TypeOK, NumberTypes
    <3>7. heard'[data].ends = (IF gpc' = "finish" THEN 1 ELSE 0)
      BY <1>22, <2>2, <3>1, <3>2 DEF Untold, WillSpeak, Speech
    <3>8. \A s \in Speech : heard'[s].ends <= 1
      <4>1. heard'[data].ends <= 1
        BY <3>7
      <4> QED
        BY <3>1, <3>2, <4>1 DEF Untold
    <3> QED
      BY <3>1, <3>4, <3>5, <3>6, <3>7, <3>8 DEF Untold
  <2> QED
    BY <2>1, <2>2
<1>23. CASE SpeakText
  BY <1>23 DEF Untold, Ordered, Served, Serving, TypeInv, TypeOK, NumberTypes,
     QueueTypes, GhostTypes, Speech, TellsServed, Silence, SpeakText
<1>24. CASE Play
  BY <1>24 DEF Untold, Ordered, Served, Serving, TypeInv, TypeOK, NumberTypes,
     QueueTypes, GhostTypes, Speech, TellsServed, Silence, Play, Adopt, ClearFlags,
     SetState, UrlType
<1>25. CASE AudioEnds
  BY <1>25 DEF Untold, Ordered, Served, Serving, TypeInv, TypeOK, NumberTypes,
     QueueTypes, GhostTypes, Speech, TellsServed, Silence, AudioEnds, Silent, AudioOver
<1>26. CASE PlayReturns
  BY <1>26 DEF Untold, Ordered, Served, Serving, TypeInv, TypeOK, NumberTypes,
     QueueTypes, GhostTypes, Speech, TellsServed, Silence, PlayReturns
<1>27. CASE Retry
  BY <1>27 DEF Untold, Ordered, Served, Serving, TypeInv, TypeOK, NumberTypes,
     QueueTypes, GhostTypes, Speech, TellsServed, Silence, Retry
<1>28. CASE Decide
  <2>1. data \in Speech
    BY <1>28 DEF Served, Serving, TypeInv, TypeOK, NumberTypes, Speech, Decide
  <2>2. /\ heard'[data].ends = heard[data].ends + 1
        /\ \A t \in Speech \ {data} : heard'[t] = heard[t]
    BY <1>28, <2>1, HeardFacts DEF Decide, TypeInv, TypeOK
  <2>3. \A i \in DOMAIN queue : queue[i] \in Speech \ {data}
    BY <2>1, QueueFacts DEF Ordered, TypeInv, TypeOK, QueueTypes, NumberTypes, Speech
  <2>4. data < nextId /\ UNCHANGED <<queue, nextId, data>>
    BY <1>28, <2>1 DEF Ordered, Decide, Handled
  <2>5. \A i \in DOMAIN queue' : heard'[queue'[i]] = Silence
    BY <2>2, <2>3, <2>4 DEF Untold
  <2>6. \A s \in Speech : s >= nextId' => heard'[s] = Silence
    BY <2>1, <2>2, <2>4 DEF Untold, Speech, TypeInv, TypeOK, NumberTypes
  <2>7. heard'[data].ends = (IF gpc' = "finish" THEN 1 ELSE 0)
    BY <1>28, <2>1, <2>2 DEF Untold, Decide, Speech
  <2>8. \A s \in Speech : heard'[s].ends <= 1
    <3>1. heard'[data].ends <= 1
      BY <2>7
    <3> QED
      BY <2>1, <2>2, <3>1 DEF Untold
  <2> QED
    BY <2>1, <2>4, <2>5, <2>6, <2>7, <2>8 DEF Untold
<1>29. CASE FinishSpeaking
  BY <1>29 DEF Untold, Ordered, Served, Serving, TypeInv, TypeOK, NumberTypes,
     QueueTypes, GhostTypes, Speech, TellsServed, Silence, FinishSpeaking,
     StateMutexFree
<1>30. CASE Reset
  BY <1>30 DEF Untold, Ordered, Served, Serving, TypeInv, TypeOK, NumberTypes,
     QueueTypes, GhostTypes, Speech, TellsServed, Silence, Reset, resetPipeline, Adopt,
     ClearFlags, Silent
<1>31. CASE HandleTell
  <2>1. data \in Speech /\ btell = data
    BY <1>31 DEF TellsServed, TypeInv, TypeOK, NumberTypes, Speech, HandleTell
  <2>2. /\ heard'[data].ends = heard[data].ends
        /\ \A t \in Speech \ {data} : heard'[t] = heard[t]
    BY <1>31, <2>1, HeardFacts DEF HandleTell, TypeInv, TypeOK
  <2>3. \A i \in DOMAIN queue : queue[i] \in Speech \ {data}
    BY <2>1, QueueFacts DEF Ordered, TypeInv, TypeOK, QueueTypes, NumberTypes, Speech
  <2>4. data < nextId /\ UNCHANGED <<queue, nextId, data>>
    BY <1>31, <2>1 DEF Ordered, HandleTell, Handled
  <2>5. \A i \in DOMAIN queue' : heard'[queue'[i]] = Silence
    BY <2>2, <2>3, <2>4 DEF Untold
  <2>6. \A s \in Speech : s >= nextId' => heard'[s] = Silence
    BY <2>1, <2>2, <2>4 DEF Untold, Speech, TypeInv, TypeOK, NumberTypes
  <2>7. heard'[data].ends = (IF gpc' = "finish" THEN 1 ELSE 0)
    BY <1>31, <2>1, <2>2 DEF Untold, HandleTell, Speech
  <2>8. \A s \in Speech : heard'[s].ends <= 1
    <3>1. heard'[data].ends <= 1
      BY <2>7
    <3> QED
      BY <2>1, <2>2, <3>1 DEF Untold
  <2> QED
    BY <2>1, <2>4, <2>5, <2>6, <2>7, <2>8 DEF Untold
<1>32. CASE UNCHANGED vars
  BY <1>32 DEF Untold, Ordered, Served, Serving, TypeInv, TypeOK, NumberTypes,
     QueueTypes, GhostTypes, Speech, TellsServed, Silence
<1> QED
  BY <1>1, <1>2, <1>3, <1>4, <1>5, <1>6, <1>7, <1>8, <1>9, <1>10, <1>11, <1>12, <1>13,
     <1>14, <1>15, <1>16, <1>17, <1>18, <1>19, <1>20, <1>21, <1>22, <1>23, <1>24, <1>25,
     <1>26, <1>27, <1>28, <1>29, <1>30, <1>31, <1>32 DEF Next, ApiCall, ApiStep,
     GstStep, BusStep, Stream

-------------------------------------------------------------------------------
(* The theorems.                                                           *)

\* The invariant holds at first.
LEMMA SafetyInit == Init => SafetyInv
<1> SUFFICES ASSUME Init PROVE SafetyInv
  OBVIOUS
<1>1. Parking /\ Served /\ Announced /\ TellsServed
  BY DEF Init, Parking, Served, Announced, TellsServed, Serving
<1>2. Ordered
  BY DEF Init, Ordered
<1>3. Untold
  <2>1. \A s \in Speech : heard[s] = Silence
    BY DEF Init
  <2> QED
    BY <2>1, SilenceFacts DEF Init, Untold
<1> QED
  BY <1>1, <1>2, <1>3 DEF SafetyInv

\* Every step keeps it.
LEMMA SafetyStep == ASSUME TypeInv, SafetyInv, [Next]_vars PROVE SafetyInv'
<1>1. Parking' /\ Served' /\ Announced'
  BY ParkingStep, ServedStep, AnnouncedStep DEF SafetyInv
<1>2. TellsServed' /\ Ordered' /\ Untold'
  BY TellsServedStep, OrderedStep, UntoldStep DEF SafetyInv
<1> QED
  BY <1>1, <1>2 DEF SafetyInv

\* The invariant holds throughout.
THEOREM SafetyHolds == Spec => [](TypeInv /\ SafetyInv)
<1>1. Init => TypeInv /\ SafetyInv
  BY TypeInit, SafetyInit
<1>2. TypeInv /\ SafetyInv /\ [Next]_vars => TypeInv' /\ SafetyInv'
  BY TypeStep, SafetyStep
<1> QED
  BY <1>1, <1>2, PTL DEF Spec

\* No wakeup is lost to queueData or ensurePipeline: the GStreamer thread never
\* sleeps while a speech waits or the pipeline is to be created or destroyed.
THEOREM NoLostWakeup == Spec => []NeverAsleepOnWork
<1>1. SafetyInv => NeverAsleepOnWork
  BY DEF SafetyInv, Parking, NeverAsleepOnWork
<1> QED
  BY <1>1, SafetyHolds, PTL

\* m_currentSpeech, a pointer into the GStreamer thread's stack, never outlives
\* the speech that play() is playing.
THEOREM CurrentNeverDangles == Spec => []CurrentIsServed
<1>1. SafetyInv => CurrentIsServed
  BY DEF SafetyInv, Served, CurrentIsServed, Serving
<1> QED
  BY <1>1, SafetyHolds, PTL

\* However the threads interleave, handleMessage tells the playback events to
\* the speech in service only, after its willSpeak.
THEOREM EventsGoToTheServed == Spec => []ToldWhileServed
<1>1. SafetyInv => ToldWhileServed
  BY DEF SafetyInv, TellsServed, ToldWhileServed
<1> QED
  BY <1>1, SafetyHolds, PTL

\* For any number of speeches: each is queued once and in order, is told at most
\* one outcome, and none before it is served.
THEOREM OneFateEach == Spec => []OneFate
<1>1. SafetyInv => OneFate
  BY DEF SafetyInv, Ordered, Untold, OneFate
<1> QED
  BY <1>1, SafetyHolds, PTL

-------------------------------------------------------------------------------
(* The lifecycle of a speech.                                              *)

\* The client of a speech remembers an outcome exactly when it was told one.
Outcomes1 == \A s \in Speech : heard[s].end = "none" <=> heard[s].ends = 0

\* s waits in the queue.
Waits(s) == \E i \in DOMAIN queue : queue[i] = s

\* All that the mapping reads.
shown == <<queue, nextId, data, heard>>

-------------------------------------------------------------------------------
(* The mapping.                                                            *)

\* Both modules number the speeches alike.
LEMMA SameSpeech == Lifecycle!Speech = Speech
  BY DEF Lifecycle!Speech, Speech

\* Where a speech is, and what its client was told.
StageOf(s) == IF s >= nextId THEN "new" ELSE IF s = data THEN "serving"
              ELSE IF Waits(s) THEN "pending"
              ELSE IF heard[s].end # "none" THEN "over" ELSE "dropped"
ToldOf(s) == [will |-> heard[s].will, play |-> heard[s].play, end |-> heard[s].end]

\* The mapping, speech by speech, before and after a step.
LEMMA Mapped ==
  /\ Stage = [s \in Speech |-> StageOf(s)] /\ Stage' = [s \in Speech |-> StageOf(s)']
  /\ Told = [s \in Speech |-> ToldOf(s)] /\ Told' = [s \in Speech |-> ToldOf(s)']
  BY DEF Stage, Told, StageOf, ToldOf, Waits

\* A step that changes nothing shown is a stutter of the lifecycle.
LEMMA Hidden == UNCHANGED shown => UNCHANGED <<Stage, Told>>
  BY DEF shown, Stage, Told

\* One speech moves and the others stay: Move.
LEMMA OneMoves ==
  ASSUME NEW s \in Speech, NEW to, StageOf(s)' = to,
         \A t \in Speech \ {s} : StageOf(t)' = StageOf(t)
  PROVE  Lifecycle!Move(s, to)
<1>1. Stage' = [t \in Speech |-> IF t = s THEN to ELSE Stage[t]]
  BY Mapped
<1> QED
  BY <1>1, Mapped DEF Lifecycle!Move

\* None moves.
LEMMA NoneMoves ==
  ASSUME \A t \in Speech : StageOf(t)' = StageOf(t)
  PROVE  UNCHANGED Stage
  BY Mapped

\* One client is told something, and what the lifecycle makes of it.
LEMMA OneTold ==
  ASSUME GhostTypes, NEW s \in Speech
  PROVE  /\ TellWill(s) => Told' = [Told EXCEPT ![s].will = TRUE]
         /\ \A e : TellPlay(s, e) => Told' = [Told EXCEPT ![s].play = e]
         /\ \A k : TellEnd(s, k) => Told' = [Told EXCEPT ![s].end = k]
<1>1. heard \in [Speech -> Told1] /\ heard[s] \in Told1
  BY GhostIsTold
<1>2. ASSUME NEW r, heard' = [heard EXCEPT ![s] = r]
      PROVE  Told' = [Told EXCEPT ![s] = [will |-> r.will, play |-> r.play, end |-> r.end]]
  BY <1>1, <1>2 DEF Told
<1>3. /\ Told[s] = [will |-> heard[s].will, play |-> heard[s].play, end |-> heard[s].end]
      /\ DOMAIN Told = Speech
  BY DEF Told
<1>4. ASSUME TellWill(s) PROVE Told' = [Told EXCEPT ![s].will = TRUE]
  <2> DEFINE r == [heard[s] EXCEPT !.will = TRUE]
  <2>1. heard' = [heard EXCEPT ![s] = r]
    BY <1>4 DEF TellWill
  <2>2. r.will = TRUE /\ r.play = heard[s].play /\ r.end = heard[s].end
    BY <1>1 DEF Told1
  <2>3. Told' = [Told EXCEPT ![s] = [will |-> TRUE, play |-> heard[s].play, end |-> heard[s].end]]
    <3> HIDE DEF r
    <3> QED
      BY <1>2, <2>1, <2>2
  <2>4. [Told EXCEPT ![s].will = TRUE] = [Told EXCEPT ![s] = [will |-> TRUE, play |-> heard[s].play, end |-> heard[s].end]]
    <3>1. \A v : [Told[s] EXCEPT !.will = v] = [will |-> v, play |-> heard[s].play, end |-> heard[s].end]
      BY <1>3
    <3> QED
      BY <1>3, <3>1
  <2> QED
    BY <2>3, <2>4
<1>5. ASSUME NEW e, TellPlay(s, e) PROVE Told' = [Told EXCEPT ![s].play = e]
  <2> DEFINE r == [heard[s] EXCEPT !.play = e]
  <2>1. heard' = [heard EXCEPT ![s] = r]
    BY <1>5 DEF TellPlay
  <2>2. r.will = heard[s].will /\ r.play = e /\ r.end = heard[s].end
    BY <1>1 DEF Told1
  <2>3. Told' = [Told EXCEPT ![s] = [will |-> heard[s].will, play |-> e, end |-> heard[s].end]]
    <3> HIDE DEF r
    <3> QED
      BY <1>2, <2>1, <2>2
  <2>4. [Told EXCEPT ![s].play = e] = [Told EXCEPT ![s] = [will |-> heard[s].will, play |-> e, end |-> heard[s].end]]
    <3>1. [Told[s] EXCEPT !.play = e] = [will |-> heard[s].will, play |-> e, end |-> heard[s].end]
      BY <1>3
    <3> QED
      BY <1>3, <3>1
  <2> QED
    BY <2>3, <2>4
<1>6. ASSUME NEW k, TellEnd(s, k) PROVE Told' = [Told EXCEPT ![s].end = k]
  <2> DEFINE r == [heard[s] EXCEPT !.end = k, !.ends = @ + 1]
  <2>1. heard' = [heard EXCEPT ![s] = r]
    BY <1>6 DEF TellEnd
  <2>2. r.will = heard[s].will /\ r.play = heard[s].play /\ r.end = k
    BY <1>1 DEF Told1
  <2>3. Told' = [Told EXCEPT ![s] = [will |-> heard[s].will, play |-> heard[s].play, end |-> k]]
    <3> HIDE DEF r
    <3> QED
      BY <1>2, <2>1, <2>2
  <2>4. [Told EXCEPT ![s].end = k] = [Told EXCEPT ![s] = [will |-> heard[s].will, play |-> heard[s].play, end |-> k]]
    <3>1. [Told[s] EXCEPT !.end = k] = [will |-> heard[s].will, play |-> heard[s].play, end |-> k]
      BY <1>3
    <3> QED
      BY <1>3, <3>1
  <2> QED
    BY <2>3, <2>4
<1> QED
  BY <1>4, <1>5, <1>6

-------------------------------------------------------------------------------
(* The steps.                                                              *)

\* The eight actions that change what the speaker shows.
Visible == \/ FlushQueue \/ QueueData \/ FailHead \/ Take
           \/ WillSpeak \/ Decide \/ FinishSpeaking \/ HandleTell

\* Any other step of any actor is hidden.
LEMMA HiddenSteps == [Next]_vars => Visible \/ UNCHANGED shown
<1> SUFFICES ASSUME [Next]_vars, ~Visible PROVE UNCHANGED shown
  OBVIOUS
<1> USE DEF shown
<1>1. CASE Speak \/ SpeakWithUtterance \/ EnterCancel \/ EnterPause \/ Destroy \/
          CancelCheck \/ CancelSet \/ PauseSet \/ ResumeSet
  BY <1>1 DEF Speak, SpeakWithUtterance, EnterCancel, Cancel, SetACL, Enable, EnterPause,
     Pause, Resume, Destroy, CancelCheck, CancelSet, AfterCancel, PauseSet, SetState,
     ResumeSet, Notify
<1>2. CASE EnsurePipeline \/ DestroyNotify \/ Join
  BY <1>2 DEF EnsurePipeline, DestroyNotify, Join, Notify
<1>3. CASE LoopExit \/ LoopUpdate \/ LoopChoose \/ CreatePipeline \/ LoopNoUpdate \/
          CreationFailed \/ Evaluate \/ Block \/ StopCheck
  BY <1>3 DEF LoopExit, LoopUpdate, LoopChoose, CreatePipeline, LoopNoUpdate,
     CreationFailed, Evaluate, Block, StopCheck
<1>4. CASE BeginSpeaking \/ SpeakText \/ Play \/ AudioEnds \/ PlayReturns \/ Retry \/ Reset
  BY <1>4 DEF BeginSpeaking, SpeakText, Play, AudioEnds, PlayReturns, Retry, Reset
<1>5. CASE BusPop \/ HandleDropped \/ HandleEos \/ HandleError \/ HandleState
  BY <1>5 DEF BusPop, HandleDropped, HandleEos, HandleError, HandleState, Notify
<1>6. CASE StreamAdvances \/ StreamEnds
  BY <1>6 DEF StreamAdvances, StreamEnds
<1>7. CASE UNCHANGED vars
  BY <1>7
<1> QED
  BY <1>1, <1>2, <1>3, <1>4, <1>5, <1>6, <1>7 DEF Next, ApiCall, ApiStep, GstStep,
     BusStep, Stream, Visible

\* A telling of an outcome, and only that, records one.
LEMMA OutcomesStep ==
  ASSUME TypeInv, TypeInv', SafetyInv, Outcomes1, [Next]_vars
  PROVE  Outcomes1'
<1> USE DEF TypeInv, TypeOK
<1>1. heard \in [Speech -> Told1] /\ heard' \in [Speech -> Told1]
  BY GhostIsTold DEF GhostTypes, Told1
<1>2. ASSUME NEW s \in Speech, NEW k \in Outcomes, TellEnd(s, k) PROVE Outcomes1'
  <2>1. heard'[s].end = k /\ heard'[s].ends = heard[s].ends + 1 /\ heard[s].ends \in Nat
    BY <1>1, <1>2 DEF TellEnd, Told1
  <2>2. \A t \in Speech \ {s} : heard'[t] = heard[t]
    BY <1>1, <1>2 DEF TellEnd
  <2>3. k # "none" /\ heard'[s].ends # 0
    BY <2>1 DEF Outcomes
  <2> QED
    BY <2>1, <2>2, <2>3 DEF Outcomes1
<1>3. CASE UNCHANGED heard
  BY <1>3 DEF Outcomes1
<1>4. CASE FailHead
  <2>1. queue # <<>> => Head(queue) \in Speech /\ TellEnd(Head(queue), "playbackerror")
    BY <1>4, QueueFacts DEF FailHead, QueueTypes
  <2> QED
    BY <1>2, <1>3, <1>4, <2>1 DEF FailHead, Outcomes
<1>5. CASE Decide
  <2>1. data \in Speech /\ TellEnd(data, Outcome)
    BY <1>5 DEF Decide, SafetyInv, Served, Serving, NumberTypes, Speech
  <2>2. Outcome \in Outcomes
    BY DEF Outcome, Outcomes
  <2> QED
    BY <1>2, <2>1, <2>2
<1>6. CASE WillSpeak \/ HandleTell
  <2>1. \A s \in Speech : heard'[s].end = heard[s].end /\ heard'[s].ends = heard[s].ends
    <3>1. CASE UNCHANGED heard
      BY <3>1
    <3>2. CASE \E s \in Speech : TellWill(s) \/ \E e : TellPlay(s, e)
      BY <1>1, <3>2 DEF TellWill, TellPlay, Told1
    <3>3. WillSpeak => UNCHANGED heard \/ \E s \in Speech : TellWill(s)
      BY DEF WillSpeak, SafetyInv, Served, Serving, NumberTypes, Speech
    <3>4. HandleTell => \E s \in Speech : \E e : TellPlay(s, e)
      BY DEF HandleTell, NumberTypes, Speech
    <3> QED
      BY <1>6, <3>1, <3>2, <3>3, <3>4
  <2> QED
    BY <2>1 DEF Outcomes1
<1>7. CASE FlushQueue \/ QueueData \/ Take \/ FinishSpeaking
  BY <1>3, <1>7 DEF FlushQueue, QueueData, Take, FinishSpeaking
<1> QED
  BY <1>3, <1>4, <1>5, <1>6, <1>7, HiddenSteps DEF Visible, shown

-------------------------------------------------------------------------------
(* The simulation: one lemma per visible action.                           *)

RefInv == TypeInv /\ SafetyInv /\ Outcomes1

\* The types of what the mapping reads.
LEMMA ShownTypes ==
  ASSUME RefInv
  PROVE  /\ queue \in Seq(Speech) /\ nextId \in Nat /\ data \in Nat /\ data <= MaxSpeech
         /\ GhostTypes /\ heard \in [Speech -> Told1]
         /\ \A s \in Speech : s \in Nat \ {0}
         /\ \A i \in DOMAIN queue : queue[i] \in Speech /\ queue[i] < nextId /\ data < queue[i]
  BY GhostIsTold, QueueFacts DEF RefInv, TypeInv, TypeOK, QueueTypes, NumberTypes, Speech,
     SafetyInv, Ordered

\* The speech in hand is being served, in the lifecycle's sense.
LEMMA InHand ==
  ASSUME RefInv, data # None
  PROVE  data \in Speech /\ StageOf(data) = "serving" /\ ~Waits(data)
  BY ShownTypes DEF StageOf, Waits, Speech, RefInv, SafetyInv, Ordered

\* dequeueData takes the oldest of the speeches that wait, and leaves the others.
LEMMA HeadIsOldest ==
  ASSUME RefInv, data = None, NEW h, queue # <<>>, h = Head(queue), queue' = Tail(queue)
  PROVE  /\ h \in Speech /\ StageOf(h) = "pending" /\ Lifecycle!NextToServe(h)
         /\ \A t \in Speech : Waits(t)' <=> Waits(t) /\ t # h
<1>1. /\ h \in Speech /\ 1 \in DOMAIN queue /\ h = queue[1]
      /\ \A i \in DOMAIN queue' : i \in Nat \ {0} /\ i + 1 \in DOMAIN queue /\ queue'[i] = queue[i + 1]
  BY ShownTypes, QueueFacts
<1>2. \A i \in DOMAIN queue : /\ i \in Nat \ {0}
                              /\ i = 1 \/ (i - 1 \in DOMAIN queue' /\ queue'[i - 1] = queue[i])
  BY ShownTypes
<1>3. \A i, j \in DOMAIN queue : i < j => queue[i] < queue[j]
  BY DEF RefInv, SafetyInv, Ordered
<1>4. \A i \in DOMAIN queue : i = 1 \/ h < queue[i]
  BY <1>1, <1>2, <1>3
<1>5. StageOf(h) = "pending"
  BY <1>1, ShownTypes DEF StageOf, Waits
<1>6. ~Waits(h)'
  <2>1. \A i \in DOMAIN queue' : h < queue'[i]
    BY <1>1, <1>4
  <2> QED
    BY <1>1, <2>1 DEF Waits, Speech
<1>7. \A t \in Speech \ {h} : Waits(t)' <=> Waits(t)
  <2>1. \A t \in Speech : Waits(t)' => Waits(t)
    BY <1>1 DEF Waits
  <2>2. \A t \in Speech \ {h} : Waits(t) => Waits(t)'
    BY <1>1, <1>2 DEF Waits
  <2> QED
    BY <2>1, <2>2
<1>8. \A t \in Speech : StageOf(t) # "serving" /\ (StageOf(t) = "pending" => h <= t)
  <2>1. \A t \in Speech : StageOf(t) # "serving"
    BY ShownTypes DEF StageOf
  <2>2. \A t \in Speech : StageOf(t) = "pending" => Waits(t)
    BY DEF StageOf
  <2>3. ASSUME NEW t \in Speech, Waits(t) PROVE h <= t
    <3>1. PICK i \in DOMAIN queue : queue[i] = t
      BY <2>3 DEF Waits
    <3> QED
      BY <1>1, <1>4, <3>1 DEF Speech
  <2> QED
    BY <2>1, <2>2, <2>3
<1>9. Lifecycle!NextToServe(h)
  BY <1>1, <1>5, <1>8, Mapped, SameSpeech DEF Lifecycle!NextToServe
<1> QED
  BY <1>1, <1>5, <1>6, <1>7, <1>9

\* reset before a pre-emptive speak drops everything that waits.
LEMMA FlushDrops == ASSUME RefInv, FlushQueue PROVE Lifecycle!DropPending
<1>1. queue' = <<>> /\ UNCHANGED <<nextId, data, heard>>
  BY DEF FlushQueue
<1>2. \A s \in Speech : Waits(s) => heard[s].end = "none"
  BY DEF Waits, RefInv, SafetyInv, Untold, Silence
<1>3. \A s \in Speech : ~Waits(s)'
  BY <1>1 DEF Waits
<1>4. \A s \in Speech : StageOf(s)' = IF StageOf(s) = "pending" THEN "dropped" ELSE StageOf(s)
  BY <1>1, <1>2, <1>3 DEF StageOf
<1>5. UNCHANGED Told
  BY <1>1 DEF Told
<1> QED
  BY <1>4, <1>5, Mapped, SameSpeech DEF Lifecycle!DropPending

\* queueData accepts the speech that has the next id.
LEMMA QueueAccepts == ASSUME RefInv, QueueData PROVE \E s \in Speech : Lifecycle!Accept(s)
<1>1. /\ queue' = Append(queue, nextId) /\ nextId' = nextId + 1 /\ UNCHANGED <<data, heard>>
      /\ nextId \in Speech
  BY ShownTypes DEF QueueData, Notify, RefInv, TypeInv, TypeOK, NumberTypes, Room, Speech
<1>2. PICK s \in Speech : s = nextId
  BY <1>1
<1>3. \A t \in Speech : Waits(t)' <=> Waits(t) \/ t = s
  <2>1. /\ DOMAIN queue' = DOMAIN queue \cup {Len(queue) + 1} /\ queue'[Len(queue) + 1] = s
        /\ \A i \in DOMAIN queue : queue'[i] = queue[i]
    BY <1>1, <1>2, ShownTypes, QueueFacts
  <2> QED
    BY <2>1 DEF Waits
<1>4. StageOf(s) = "new"
  BY <1>2, ShownTypes DEF StageOf
<1>5. StageOf(s)' = "pending"
  BY <1>1, <1>2, <1>3, ShownTypes DEF StageOf, RefInv, SafetyInv, Ordered
<1>6. \A t \in Speech \ {s} : StageOf(t)' = StageOf(t)
  BY <1>1, <1>2, <1>3, ShownTypes DEF StageOf
<1>7. UNCHANGED Told
  BY <1>1 DEF Told
<1>8. Lifecycle!Move(s, "pending")
  BY <1>5, <1>6, OneMoves
<1> QED
  BY <1>2, <1>4, <1>7, <1>8, Mapped DEF Lifecycle!Accept

\* The worker takes the oldest speech and serves it alone.
LEMMA TakeServes ==
  ASSUME RefInv, Take
  PROVE  UNCHANGED shown \/ \E s \in Speech : Lifecycle!Serve(s)
<1>1. data = None /\ UNCHANGED <<nextId, heard>>
  BY DEF Take, dequeueData, RefInv, SafetyInv, Served, Serving
<1>2. CASE queue = <<>>
  BY <1>1, <1>2 DEF Take, dequeueData, shown
<1>3. CASE queue # <<>>
  <2>1. PICK h : h = Head(queue)
    OBVIOUS
  <2>2. queue' = Tail(queue) /\ data' = h
    BY <1>3, <2>1 DEF Take, dequeueData
  <2>3. /\ h \in Speech /\ StageOf(h) = "pending" /\ Lifecycle!NextToServe(h)
        /\ \A t \in Speech : Waits(t)' <=> Waits(t) /\ t # h
    BY <1>1, <1>3, <2>1, <2>2, HeadIsOldest
  <2>4. StageOf(h)' = "serving"
    BY <1>1, <2>2, <2>3, ShownTypes DEF StageOf
  <2>5. \A t \in Speech \ {h} : StageOf(t)' = StageOf(t)
    BY <1>1, <2>2, <2>3, ShownTypes DEF StageOf
  <2>6. Lifecycle!Move(h, "serving")
    BY <2>3, <2>4, <2>5, OneMoves
  <2>7. UNCHANGED Told
    BY <1>1 DEF Told
  <2> QED
    BY <2>3, <2>6, <2>7 DEF Lifecycle!Serve
<1> QED
  BY <1>2, <1>3

\* Without a pipeline the oldest speech fails at once.
LEMMA FailHeadFails ==
  ASSUME RefInv, FailHead
  PROVE  UNCHANGED shown \/ \E s \in Speech : Lifecycle!Fail(s)
<1>1. data = None /\ UNCHANGED <<nextId, data>>
  BY DEF FailHead, dequeueData, RefInv, SafetyInv, Served, Serving
<1>2. CASE queue = <<>>
  BY <1>1, <1>2 DEF FailHead, dequeueData, shown
<1>3. CASE queue # <<>>
  <2>1. PICK h : h = Head(queue)
    OBVIOUS
  <2>2. queue' = Tail(queue) /\ TellEnd(h, "playbackerror")
    BY <1>3, <2>1 DEF FailHead, dequeueData
  <2>3. /\ h \in Speech /\ StageOf(h) = "pending" /\ Lifecycle!NextToServe(h)
        /\ \A t \in Speech : Waits(t)' <=> Waits(t) /\ t # h
    BY <1>1, <1>3, <2>1, <2>2, HeadIsOldest
  <2>4. heard'[h].end = "playbackerror" /\ \A t \in Speech \ {h} : heard'[t] = heard[t]
    BY <2>2, <2>3, ShownTypes DEF TellEnd, Told1
  <2>5. StageOf(h)' = "over"
    BY <1>1, <2>3, <2>4, ShownTypes DEF StageOf
  <2>6. \A t \in Speech \ {h} : StageOf(t)' = StageOf(t)
    BY <1>1, <2>3, <2>4, ShownTypes DEF StageOf
  <2>7. Lifecycle!Move(h, "over")
    BY <2>3, <2>5, <2>6, OneMoves
  <2>8. Told' = [Told EXCEPT ![h].end = "playbackerror"]
    BY <2>2, <2>3, ShownTypes, OneTold
  <2> QED
    BY <2>3, <2>7, <2>8 DEF Lifecycle!Fail
<1> QED
  BY <1>2, <1>3


\* Telling the speech in hand moves no speech.
LEMMA TellingStays ==
  ASSUME RefInv, NEW s \in Speech, s = data, UNCHANGED <<queue, nextId, data>>,
         \A t \in Speech \ {s} : heard'[t] = heard[t]
  PROVE  Stage[s] = "serving" /\ UNCHANGED Stage
<1>1. StageOf(s) = "serving"
  BY InHand DEF Speech
<1>2. StageOf(s)' = "serving"
  BY <1>1 DEF StageOf
<1>3. \A t \in Speech \ {s} : StageOf(t)' = StageOf(t)
  BY DEF StageOf, Waits
<1> QED
  BY <1>1, <1>2, <1>3, NoneMoves, Mapped

\* willSpeak announces the speech in hand; told twice it would be a stutter.
LEMMA WillSpeakAnnounces ==
  ASSUME RefInv, WillSpeak
  PROVE  UNCHANGED <<Stage, Told>> \/ \E s \in Speech : Lifecycle!Announce(s)
<1>1. UNCHANGED <<queue, nextId, data>> /\ data \in Speech
  BY ShownTypes DEF WillSpeak, RefInv, SafetyInv, Served, Serving, Speech
<1>2. CASE flushed
  BY <1>1, <1>2, Hidden DEF WillSpeak, shown
<1>3. CASE ~flushed
  <2>1. PICK s \in Speech : s = data
    BY <1>1
  <2>2. TellWill(s)
    BY <1>3, <2>1 DEF WillSpeak
  <2>3. \A t \in Speech \ {s} : heard'[t] = heard[t]
    BY <2>2, ShownTypes DEF TellWill
  <2>4. Stage[s] = "serving" /\ UNCHANGED Stage
    BY <1>1, <2>1, <2>3, TellingStays
  <2>5. Told' = [Told EXCEPT ![s].will = TRUE]
    BY <2>2, ShownTypes, OneTold
  <2>6. heard[s].end = "none"
    <3>1. heard[s].ends = 0
      BY <2>1 DEF WillSpeak, RefInv, SafetyInv, Untold, Speech
    <3> QED
      BY <3>1 DEF RefInv, Outcomes1
  <2>7. Told[s].end = "none" /\ Told[s].will = heard[s].will
    BY <2>6, Mapped DEF ToldOf
  <2>8. CASE heard[s].will
    <3>1. heard[s].will = TRUE
      BY <2>8, ShownTypes DEF Told1
    <3>2. heard'[s].will = TRUE /\ heard'[s].play = heard[s].play /\ heard'[s].end = heard[s].end
      BY <2>2, ShownTypes DEF TellWill, Told1
    <3>3. \A t \in Speech : ToldOf(t)' = ToldOf(t)
      BY <2>3, <3>1, <3>2 DEF ToldOf
    <3> QED
      BY <2>4, <3>3, Mapped
  <2> QED
    BY <2>4, <2>5, <2>7, <2>8 DEF Lifecycle!Announce
<1> QED
  BY <1>2, <1>3

\* decide tells the speech in hand its one outcome.
LEMMA DecideTells ==
  ASSUME RefInv, Decide
  PROVE  \E s \in Speech : \E k \in Outcomes : Lifecycle!TellOutcome(s, k)
<1>1. UNCHANGED <<queue, nextId, data>> /\ data \in Speech
  BY ShownTypes DEF Decide, RefInv, SafetyInv, Served, Serving, Speech
<1>2. PICK s \in Speech : s = data
  BY <1>1
<1>3. PICK k \in Outcomes : k = Outcome
  BY DEF Outcome, Outcomes
<1>4. TellEnd(s, k)
  BY <1>2, <1>3 DEF Decide
<1>5. \A t \in Speech \ {s} : heard'[t] = heard[t]
  BY <1>4, ShownTypes DEF TellEnd
<1>6. Stage[s] = "serving" /\ UNCHANGED Stage
  BY <1>1, <1>2, <1>5, TellingStays
<1>7. Told' = [Told EXCEPT ![s].end = k]
  BY <1>4, ShownTypes, OneTold
<1>8. Told[s].end = "none"
  <2>1. heard[s].ends = 0
    BY <1>2, <1>1 DEF Decide, RefInv, SafetyInv, Untold, Speech
  <2> QED
    BY <2>1, Mapped DEF ToldOf, RefInv, Outcomes1
<1>9. k = "spoke" => Told[s].will
  <2>1. k = "spoke" => heard[s].will
    BY <1>2, <1>3 DEF Decide, Outcome, RefInv, SafetyInv, Announced
  <2> QED
    BY <2>1, Mapped DEF ToldOf
<1> QED
  BY <1>6, <1>7, <1>8, <1>9 DEF Lifecycle!TellOutcome

\* setSpeakingState(false) closes a speech that was told its outcome.
LEMMA FinishCloses ==
  ASSUME RefInv, FinishSpeaking
  PROVE  \E s \in Speech : Lifecycle!Close(s)
<1>1. UNCHANGED <<queue, nextId, heard>> /\ data' = None /\ data \in Speech
  BY ShownTypes DEF FinishSpeaking, RefInv, SafetyInv, Served, Serving, Speech
<1>2. PICK s \in Speech : s = data
  BY <1>1
<1>3. StageOf(s) = "serving" /\ ~Waits(s)
  BY <1>2, InHand DEF Speech
<1>4. heard[s].end # "none"
  <2>1. heard[s].ends = 1
    BY <1>1, <1>2 DEF FinishSpeaking, RefInv, SafetyInv, Untold, Speech
  <2> QED
    BY <2>1 DEF RefInv, Outcomes1
<1>5. StageOf(s)' = "over"
  BY <1>1, <1>2, <1>3, <1>4, ShownTypes DEF StageOf, Waits, Speech
<1>6. \A t \in Speech \ {s} : StageOf(t)' = StageOf(t)
  BY <1>1, <1>2, ShownTypes DEF StageOf, Waits, Speech
<1>7. Lifecycle!Move(s, "over")
  BY <1>5, <1>6, OneMoves
<1>8. UNCHANGED Told /\ Told[s].end # "none"
  BY <1>1, <1>4, Mapped DEF Told, ToldOf
<1> QED
  BY <1>3, <1>7, <1>8, Mapped DEF Lifecycle!Close

\* The bus watch tells a playback event to the speech in hand, once announced.
LEMMA HandleTellTells ==
  ASSUME RefInv, HandleTell
  PROVE  \E s \in Speech : \E e \in Playback : Lifecycle!TellPlayback(s, e)
<1>1. UNCHANGED <<queue, nextId, data>> /\ btell = data /\ data \in Speech /\ heard[data].will
  BY ShownTypes DEF HandleTell, RefInv, SafetyInv, TellsServed, Speech
<1>2. PICK s \in Speech : s = data
  BY <1>1
<1>3. PICK e \in Playback : e = bmsg
  BY DEF HandleTell, RefInv, TypeInv, Telling
<1>4. TellPlay(s, e)
  BY <1>1, <1>2, <1>3 DEF HandleTell
<1>5. \A t \in Speech \ {s} : heard'[t] = heard[t]
  BY <1>4, ShownTypes DEF TellPlay
<1>6. Stage[s] = "serving" /\ UNCHANGED Stage
  BY <1>1, <1>2, <1>5, TellingStays
<1>7. Told' = [Told EXCEPT ![s].play = e]
  BY <1>4, ShownTypes, OneTold
<1>8. Told[s].will
  BY <1>1, <1>2, Mapped DEF ToldOf
<1> QED
  BY <1>6, <1>7, <1>8 DEF Lifecycle!TellPlayback

-------------------------------------------------------------------------------
(* The refinement.                                                         *)

\* At first no speech was accepted and no client was told anything.
LEMMA InitMaps == Init => Lifecycle!Init
<1> SUFFICES ASSUME Init PROVE Lifecycle!Init
  OBVIOUS
<1>1. \A s \in Speech : heard[s] = Silence /\ s >= nextId
  BY DEF Init, Speech
<1>2. \A s \in Speech : StageOf(s) = "new"
  BY <1>1 DEF StageOf
<1>3. \A s \in Speech : ToldOf(s) = [will |-> FALSE, play |-> "none", end |-> "none"]
  <2>1. Silence.will = FALSE /\ Silence.play = "none" /\ Silence.end = "none"
    BY DEF Silence
  <2> QED
    BY <1>1, <2>1 DEF ToldOf
<1> QED
  BY <1>2, <1>3, Mapped, SameSpeech DEF Lifecycle!Init

\* Every step of the speaker is one of the lifecycle, or shows nothing.
LEMMA StepMaps ==
  ASSUME RefInv, [Next]_vars
  PROVE  [Lifecycle!Next]_(Lifecycle!lifeVars)
<1> SUFFICES Lifecycle!Next \/ UNCHANGED <<Stage, Told>>
  BY DEF Lifecycle!lifeVars
<1>1. CASE FlushQueue
  BY <1>1, FlushDrops DEF Lifecycle!Next
<1>2. CASE QueueData
  BY <1>2, QueueAccepts, SameSpeech DEF Lifecycle!Next
<1>3. CASE FailHead
  BY <1>3, FailHeadFails, Hidden, SameSpeech DEF Lifecycle!Next
<1>4. CASE Take
  BY <1>4, TakeServes, Hidden, SameSpeech DEF Lifecycle!Next
<1>5. CASE WillSpeak
  BY <1>5, WillSpeakAnnounces, SameSpeech DEF Lifecycle!Next
<1>6. CASE Decide
  BY <1>6, DecideTells, SameSpeech DEF Lifecycle!Next, Lifecycle!Outcomes, Outcomes
<1>7. CASE FinishSpeaking
  BY <1>7, FinishCloses, SameSpeech DEF Lifecycle!Next
<1>8. CASE HandleTell
  BY <1>8, HandleTellTells, SameSpeech DEF Lifecycle!Next, Lifecycle!Playback, Playback
<1>9. CASE UNCHANGED shown
  BY <1>9, Hidden
<1> QED
  BY <1>1, <1>2, <1>3, <1>4, <1>5, <1>6, <1>7, <1>8, <1>9, HiddenSteps DEF Visible

\* What the refinement rests on holds throughout.
LEMMA RefInvHolds == Spec => []RefInv
<1>1. Init => Outcomes1
  BY DEF Init, Outcomes1, Silence
<1>2. RefInv /\ [Next]_vars => Outcomes1'
  BY TypeStep, OutcomesStep DEF RefInv
<1>3. RefInv /\ [Next]_vars => RefInv'
  BY <1>2, TypeStep, SafetyStep DEF RefInv
<1>4. Init => RefInv
  BY <1>1, TypeInit, SafetyInit DEF RefInv
<1> QED
  BY <1>3, <1>4, PTL DEF Spec

\* Whatever the interleaving of the API caller, the GStreamer thread and the bus
\* watch, the clients of any number of speeches see SpeechLifecycle: each speech is
\* served alone and in the order of its id, is told of its playback only in service
\* and after willSpeak, has one outcome, "spoke" only if it was announced, and is
\* left without one only if it was dropped from the queue.
THEOREM SpeakerRefinesLifecycle == Spec => ImplementsLifecycle
<1>1. Init => Lifecycle!Init
  BY InitMaps
<1>2. RefInv /\ [Next]_vars => [Lifecycle!Next]_(Lifecycle!lifeVars)
  BY StepMaps
<1> QED
  BY <1>1, <1>2, RefInvHolds, PTL DEF Spec, ImplementsLifecycle, Lifecycle!Spec
===============================================================================

-------------------------- MODULE TTSSpeakerTypes --------------------------
(***************************************************************************)
(* Type correctness of TTSSpeaker, for every value of its constants.       *)
(*                                                                         *)
(* TypeOK is inductive once two facts are added: a call about to queue a   *)
(* speech found room for its id (Room), and what the bus watch holds is an *)
(* event exactly while it is telling somebody (Telling).  Each group of    *)
(* TypeOK has its own lemma, which goes through the actions: those that    *)
(* leave the group alone together, the others one by one.                  *)
(***************************************************************************)
EXTENDS TTSSpeaker, TLAPS

\* Frames and the notation of program counters are expanded everywhere.
USE SpeakerAssumption
USE DEF None, vars, queueVars, flagVars, errorVars, pipeVars, streamVars, watchVars,
        gstVars, apiVars, ghostVars, InCall, Free, ApiGoto, Return, Enter, Step, At,
        GstGoto, Holds, Handled

\* A call that will queue a speech has found room for it.
Room == (call = "speak" \/ apc \in {"flush", "enqueue"}) => nextId <= MaxSpeech

\* The bus watch holds an event, not a message, while it is telling somebody.
Telling == IF btell = None THEN bmsg \in Messages \cup {"none"} ELSE bmsg \in Playback

TypeInv == TypeOK /\ Room /\ Telling

-------------------------------------------------------------------------------
(* Operators.                                                              *)

\* The count of construction failures is a uint8_t.
LEMMA OneMoreType == \A n \in 0 .. 255 : OneMore(n) \in 0 .. 255
  BY DEF OneMore

\* Queues and buses stay sequences of what they hold.
LEMMA SeqFacts ==
  /\ <<>> \in Seq(Speech) /\ <<>> \in Seq(Messages)
  /\ \A q \in Seq(Speech) : q # <<>> => Tail(q) \in Seq(Speech) /\ Head(q) \in Speech
  /\ \A q \in Seq(Messages) : /\ q # <<>> => Tail(q) \in Seq(Messages) /\ Head(q) \in Messages
                              /\ \A m \in Messages : Append(q, m) \in Seq(Messages)
  OBVIOUS

\* What createPipeline may leave is well typed.
LEMMA AdoptedType ==
  ASSUME NEW up, NEW n \in 0 .. 255, NEW o, NEW type, Adopt(o, up, n, type)
  PROVE  pipeline' \in BOOLEAN /\ failures' \in 0 .. 255
<1>1. pipeline' \in BOOLEAN
  BY DEF Adopt
<1>2. failures' \in 0 .. 255
  <2>1. 0 \in 0 .. 255
    OBVIOUS
  <2>2. CASE o = "built"
    BY <2>1, <2>2 DEF Adopt
  <2>3. CASE o = "failed"
    BY <2>3, OneMoreType DEF Adopt
  <2>4. CASE o = "lost"
    BY <2>1, <2>4, OneMoreType DEF Adopt
  <2>5. CASE o \notin {"built", "failed", "lost"}
    BY <2>5 DEF Adopt
  <2> QED
    BY <2>2, <2>3, <2>4, <2>5
<1> QED
  BY <1>1, <1>2

\* So is what the actions that call it, or resetPipeline, leave.
LEMMA PipelineType ==
  ASSUME TypeInv, CreatePipeline \/ Play \/ Reset
  PROVE  pipeline' \in BOOLEAN /\ failures' \in 0 .. 255
<1> USE DEF TypeInv, TypeOK, FlagTypes, NumberTypes
<1>1. CASE CreatePipeline
  <2>1. \E o : Adopt(o, pipeline, failures, ptype)
    BY <1>1 DEF CreatePipeline
  <2> QED
    BY <2>1, AdoptedType
<1>2. CASE Play
  <2>1. CASE UNCHANGED pipeVars
    BY <2>1 DEF pipeVars
  <2>2. CASE \E type : \E o : Adopt(o, FALSE, 0, type)
    <3>1. PICK type, o : Adopt(o, FALSE, 0, type)
      BY <2>2
    <3>2. 0 \in 0 .. 255
      OBVIOUS
    <3> QED
      BY <3>1, <3>2, AdoptedType
  <2> QED
    BY <1>2, <2>1, <2>2 DEF Play
<1>3. CASE Reset
  <2>1. \E up, o : \E n \in 0 .. 255 : Adopt(o, up, n, ptype)
    <3>1. \E up, o : Adopt(o, up, IF pipelineError THEN 0 ELSE failures, ptype)
      BY <1>3 DEF Reset, resetPipeline
    <3>2. (IF pipelineError THEN 0 ELSE failures) \in 0 .. 255
      OBVIOUS
    <3> QED
      BY <3>1, <3>2
  <2> QED
    BY <2>1, AdoptedType
<1> QED
  BY <1>1, <1>2, <1>3

\* The flags stay Boolean when they are cleared.
LEMMA ClearedType ==
  ASSUME NEW yes, ClearFlags(yes)
  PROVE  /\ eos' \in BOOLEAN /\ paused' \in BOOLEAN /\ pipelineError' \in BOOLEAN
         /\ networkError' \in BOOLEAN /\ remoteError' \in BOOLEAN
  BY DEF ClearFlags

\* What one client was told.
Told1 == [will: BOOLEAN, play: Playback \cup {"none"}, end: Outcomes \cup {"none"}, ends: Nat]

\* GhostTypes with the record type named.
LEMMA GhostIsTold == GhostTypes <=> heard \in [Speech -> Told1]
  BY DEF GhostTypes, Told1

\* A record of what a client was told stays one when a field is set to a value
\* of its type; setting it for nobody changes nothing.
LEMMA ToldType ==
  ASSUME GhostTypes, NEW s \in 0 .. MaxSpeech
  PROVE  /\ [heard EXCEPT ![s].will = TRUE] \in [Speech -> Told1]
         /\ \A e \in Playback : [heard EXCEPT ![s].play = e] \in [Speech -> Told1]
         /\ \A k \in Outcomes :
              [heard EXCEPT ![s].end = k, ![s].ends = @ + 1] \in [Speech -> Told1]
<1>1. heard \in [Speech -> Told1]
  BY DEF GhostTypes, Told1
<1>2. CASE s \notin Speech
  BY <1>1, <1>2
<1>3. CASE s \in Speech
  <2>1. ASSUME NEW r \in Told1 PROVE [heard EXCEPT ![s] = r] \in [Speech -> Told1]
    BY <1>1, <2>1
  <2>2. heard[s] \in Told1
    BY <1>1, <1>3
  <2>3. [heard[s] EXCEPT !.will = TRUE] \in Told1
    BY <2>2 DEF Told1
  <2>4. \A e \in Playback : [heard[s] EXCEPT !.play = e] \in Told1
    BY <2>2 DEF Told1
  <2>5. \A k \in Outcomes : [heard[s] EXCEPT !.end = k, !.ends = @ + 1] \in Told1
    <3>1. heard[s].ends + 1 \in Nat
      BY <2>2 DEF Told1
    <3>2. \A n \in Nat : [heard[s] EXCEPT !.ends = n] \in Told1
      BY <2>2 DEF Told1
    <3> QED
      BY <2>2, <3>1, <3>2 DEF Told1
  <2> QED
    BY <1>3, <2>1, <2>3, <2>4, <2>5
<1> QED
  BY <1>2, <1>3

-------------------------------------------------------------------------------
(* The initial states.                                                     *)

\* Every initial state is well typed.
LEMMA TypeInit == Init => TypeInv
<1> SUFFICES ASSUME Init PROVE TypeInv
  OBVIOUS
<1>1. FlagTypes
  BY DEF Init, FlagTypes
<1>2. StateTypes
  BY DEF Init, StateTypes, GstPcs, ApiPcs
<1>3. NumberTypes
  BY DEF Init, NumberTypes
<1>4. QueueTypes
  BY SeqFacts DEF Init, QueueTypes
<1>5. GhostTypes
  BY DEF Init, GhostTypes, Silence
<1>6. Room /\ Telling
  BY DEF Init, Room, Telling
<1> QED
  BY <1>1, <1>2, <1>3, <1>4, <1>5, <1>6 DEF TypeInv, TypeOK

-------------------------------------------------------------------------------
(* The steps, one group of variables at a time.                            *)

\* The queue and the bus.
LEMMA QueueStep == ASSUME TypeInv, [Next]_vars PROVE QueueTypes'
<1>1. CASE Speak \/ SpeakWithUtterance \/ EnterCancel \/ EnterPause \/ Destroy \/
          CancelCheck \/ CancelSet \/ EnsurePipeline
  <2>1. UNCHANGED <<queue, bus>>
    BY <1>1 DEF Speak, SpeakWithUtterance, EnterCancel, Cancel, SetACL, Enable, Issued,
       EnterPause, Pause, Resume, Destroy,
       CancelCheck, CancelHits, AfterCancel, CancelSet, Notify, EnsurePipeline,
       QueueMutexFree
  <2> QED
    BY <2>1 DEF TypeInv, TypeOK, NumberTypes, QueueTypes, Room, Speech, Messages
<1>2. CASE PauseSet \/ ResumeSet \/ DestroyNotify \/ Join \/ LoopUpdate \/
          LoopNoUpdate \/ CreationFailed \/ Evaluate
  <2>1. UNCHANGED <<queue, bus>>
    BY <1>2 DEF PauseSet, SetState, ResumeSet, DestroyNotify, Notify, Join, LoopUpdate,
       needsPipelineUpdate, LoopNoUpdate, CreationFailed, Evaluate, WorkToDo
  <2> QED
    BY <2>1 DEF TypeInv, TypeOK, NumberTypes, QueueTypes, Room, Speech, Messages
<1>3. CASE Block \/ BeginSpeaking \/ WillSpeak \/ SpeakText \/ PlayReturns \/ Retry \/
          Decide \/ FinishSpeaking
  <2>1. UNCHANGED <<queue, bus>>
    BY <1>3 DEF Block, BeginSpeaking, StateMutexFree, WillSpeak, TellWill, SpeakText,
       PlayReturns, Retry, Decide, TellEnd, Outcome, FinishSpeaking
  <2> QED
    BY <2>1 DEF TypeInv, TypeOK, NumberTypes, QueueTypes, Room, Speech, Messages
<1>4. CASE HandleDropped \/ HandleEos \/ HandleError \/ HandleState \/ HandleTell
  <2>1. UNCHANGED <<queue, bus>>
    BY <1>4 DEF HandleDropped, HandleEos, Notify, HandleError, HandleState, Announces,
       PlaybackEvent, HandleTell, TellPlay
  <2> QED
    BY <2>1 DEF TypeInv, TypeOK, NumberTypes, QueueTypes, Room, Speech, Messages
<1>5. CASE FlushQueue
  BY <1>5 DEF TypeInv, TypeOK, NumberTypes, QueueTypes, Room, Speech, Messages,
     FlushQueue, QueueMutexFree
<1>6. CASE QueueData
  BY <1>6 DEF TypeInv, TypeOK, NumberTypes, QueueTypes, Room, Speech, Messages,
     QueueData, QueueMutexFree, Notify
<1>7. CASE LoopExit
  BY <1>7 DEF TypeInv, TypeOK, NumberTypes, QueueTypes, Room, Speech, Messages,
     LoopExit, destroyPipeline, Silent
<1>8. CASE LoopChoose
  <2>1. queue' \in Seq(Speech)
    BY <1>8, SeqFacts DEF TypeInv, TypeOK, QueueTypes, destroyPipeline, Silent, LoopChoose
  <2>2. bus' \in Seq(Messages)
    BY <1>8, SeqFacts DEF TypeInv, TypeOK, QueueTypes, Messages, destroyPipeline, Silent,
       LoopChoose
  <2> QED
    BY <2>1, <2>2 DEF QueueTypes
<1>9. CASE CreatePipeline
  <2>1. queue' \in Seq(Speech)
    BY <1>9, SeqFacts DEF TypeInv, TypeOK, QueueTypes, Adopt, ClearFlags, Silent,
       CreatePipeline
  <2>2. bus' \in Seq(Messages)
    BY <1>9, SeqFacts DEF TypeInv, TypeOK, QueueTypes, Messages, Adopt, ClearFlags, Silent,
       CreatePipeline
  <2> QED
    BY <2>1, <2>2 DEF QueueTypes
<1>10. CASE FailHead
  <2>1. queue' \in Seq(Speech)
    BY <1>10, SeqFacts DEF TypeInv, TypeOK, QueueTypes, dequeueData, TellEnd, FailHead
  <2>2. bus' \in Seq(Messages)
    BY <1>10, SeqFacts DEF TypeInv, TypeOK, QueueTypes, Messages, dequeueData, TellEnd,
       FailHead
  <2> QED
    BY <2>1, <2>2 DEF QueueTypes
<1>11. CASE StopCheck
  <2>1. queue' \in Seq(Speech)
    BY <1>11, SeqFacts DEF TypeInv, TypeOK, QueueTypes, Silent, StopCheck
  <2>2. bus' \in Seq(Messages)
    BY <1>11, SeqFacts DEF TypeInv, TypeOK, QueueTypes, Messages, Silent, StopCheck
  <2> QED
    BY <2>1, <2>2 DEF QueueTypes
<1>12. CASE Take
  <2>1. queue' \in Seq(Speech)
    BY <1>12, SeqFacts DEF TypeInv, TypeOK, QueueTypes, dequeueData, Take
  <2>2. bus' \in Seq(Messages)
    BY <1>12, SeqFacts DEF TypeInv, TypeOK, QueueTypes, Messages, dequeueData, Take
  <2> QED
    BY <2>1, <2>2 DEF QueueTypes
<1>13. CASE Play
  <2>1. queue' \in Seq(Speech)
    BY <1>13, SeqFacts DEF TypeInv, TypeOK, QueueTypes, Adopt, ClearFlags, SetState,
       UrlType, Play
  <2>2. bus' \in Seq(Messages)
    BY <1>13, SeqFacts DEF TypeInv, TypeOK, QueueTypes, Messages, Adopt, ClearFlags,
       SetState, UrlType, Play
  <2> QED
    BY <2>1, <2>2 DEF QueueTypes
<1>14. CASE AudioEnds
  <2>1. queue' \in Seq(Speech)
    BY <1>14 DEF TypeInv, TypeOK, QueueTypes, AudioEnds
  <2>2. bus' \in Seq(Messages)
    BY <1>14 DEF TypeInv, TypeOK, QueueTypes, Messages, AudioEnds, Silent, AudioOver
  <2> QED
    BY <2>1, <2>2 DEF QueueTypes
<1>15. CASE Reset
  <2>1. queue' \in Seq(Speech)
    BY <1>15 DEF TypeInv, TypeOK, QueueTypes, Reset
  <2>2. bus' \in Seq(Messages)
    <3>1. bus' = <<>>
      BY <1>15 DEF Reset, resetPipeline, Silent
    <3> QED
      BY <3>1
  <2> QED
    BY <2>1, <2>2 DEF QueueTypes
<1>16. CASE BusPop
  <2>1. queue' \in Seq(Speech)
    BY <1>16 DEF TypeInv, TypeOK, QueueTypes, BusPop
  <2>2. bus' \in Seq(Messages)
    BY <1>16, SeqFacts DEF TypeInv, TypeOK, QueueTypes, BusPop
  <2> QED
    BY <2>1, <2>2 DEF QueueTypes
<1>17. CASE StreamAdvances
  <2>1. queue' \in Seq(Speech)
    BY <1>17 DEF TypeInv, TypeOK, QueueTypes, StreamAdvances
  <2>2. bus' \in Seq(Messages)
    <3>1. bus \in Seq(Messages)
      BY DEF TypeInv, TypeOK, QueueTypes
    <3>2. PICK m \in Messages : bus' = bus \/ bus' = Append(bus, m)
      BY <1>17 DEF StreamAdvances, Post, Messages
    <3> QED
      BY <3>1, <3>2, SeqFacts
  <2> QED
    BY <2>1, <2>2 DEF QueueTypes
<1>18. CASE StreamEnds
  <2>1. queue' \in Seq(Speech)
    BY <1>18, SeqFacts DEF TypeInv, TypeOK, QueueTypes, Post, StreamEnds
  <2>2. bus' \in Seq(Messages)
    BY <1>18, SeqFacts DEF TypeInv, TypeOK, QueueTypes, Messages, Post, StreamEnds
  <2> QED
    BY <2>1, <2>2 DEF QueueTypes
<1>19. CASE UNCHANGED vars
  BY <1>19 DEF TypeInv, TypeOK, NumberTypes, QueueTypes, Room, Speech, Messages
<1> QED
  BY <1>1, <1>2, <1>3, <1>4, <1>5, <1>6, <1>7, <1>8, <1>9, <1>10, <1>11, <1>12, <1>13,
     <1>14, <1>15, <1>16, <1>17, <1>18, <1>19 DEF Next, ApiCall, ApiStep, GstStep,
     BusStep, Stream

\* The flags.
LEMMA FlagStep == ASSUME TypeInv, [Next]_vars PROVE FlagTypes'
<1>1. CASE Speak \/ SpeakWithUtterance \/ EnterCancel \/ EnterPause \/ CancelCheck \/
          FlushQueue \/ QueueData \/ ResumeSet
  <2>1. UNCHANGED <<flushed, speaking, paused, eos, pipelineError, networkError, remoteError,
                  pipeline, ensure, bstale, retried, runThread, crashed>>
    BY <1>1 DEF Speak, SpeakWithUtterance, EnterCancel, Cancel, SetACL, Enable, Issued,
       EnterPause, Pause, Resume, CancelCheck,
       CancelHits, AfterCancel, FlushQueue, QueueMutexFree, QueueData, Notify,
       ResumeSet, SetState
  <2> QED
    BY <2>1 DEF TypeInv, TypeOK, FlagTypes
<1>2. CASE DestroyNotify \/ Join \/ LoopUpdate \/ LoopNoUpdate \/ CreationFailed \/
          Evaluate \/ Block \/ WillSpeak
  <2>1. UNCHANGED <<flushed, speaking, paused, eos, pipelineError, networkError, remoteError,
                  pipeline, ensure, bstale, retried, runThread, crashed>>
    BY <1>2 DEF DestroyNotify, Notify, Join, LoopUpdate, needsPipelineUpdate,
       LoopNoUpdate, CreationFailed, Evaluate, WorkToDo, Block, WillSpeak, TellWill
  <2> QED
    BY <2>1 DEF TypeInv, TypeOK, FlagTypes
<1>3. CASE PlayReturns \/ Decide \/ StreamAdvances \/ StreamEnds
  <2>1. UNCHANGED <<flushed, speaking, paused, eos, pipelineError, networkError, remoteError,
                  pipeline, ensure, bstale, retried, runThread, crashed>>
    BY <1>3 DEF PlayReturns, Decide, TellEnd, Outcome, StreamAdvances, Post, StreamEnds
  <2> QED
    BY <2>1 DEF TypeInv, TypeOK, FlagTypes
<1>4. CASE CancelSet
  BY <1>4 DEF TypeInv, TypeOK, FlagTypes, CancelSet, AfterCancel, Notify
<1>5. CASE EnsurePipeline
  BY <1>5 DEF TypeInv, TypeOK, FlagTypes, EnsurePipeline, QueueMutexFree, Notify
<1>6. CASE PauseSet
  BY <1>6 DEF TypeInv, TypeOK, FlagTypes, PauseSet, SetState
<1>7. CASE Destroy
  BY <1>7 DEF TypeInv, TypeOK, FlagTypes, Destroy
<1>8. CASE LoopExit
  BY <1>8 DEF TypeInv, TypeOK, FlagTypes, LoopExit, destroyPipeline, Silent
<1>9. CASE FailHead
  BY <1>9 DEF TypeInv, TypeOK, FlagTypes, FailHead, dequeueData, TellEnd
<1>10. CASE StopCheck
  BY <1>10 DEF TypeInv, TypeOK, FlagTypes, StopCheck, Silent
<1>11. CASE Take
  BY <1>11 DEF TypeInv, TypeOK, FlagTypes, Take, dequeueData
<1>12. CASE BeginSpeaking
  BY <1>12 DEF TypeInv, TypeOK, FlagTypes, BeginSpeaking, StateMutexFree
<1>13. CASE SpeakText
  BY <1>13 DEF TypeInv, TypeOK, FlagTypes, SpeakText
<1>14. CASE AudioEnds
  BY <1>14 DEF TypeInv, TypeOK, FlagTypes, AudioEnds, Silent, AudioOver
<1>15. CASE Retry
  BY <1>15 DEF TypeInv, TypeOK, FlagTypes, Retry
<1>16. CASE FinishSpeaking
  BY <1>16 DEF TypeInv, TypeOK, FlagTypes, FinishSpeaking, StateMutexFree
<1>17. CASE BusPop
  BY <1>17 DEF TypeInv, TypeOK, FlagTypes, BusPop
<1>18. CASE HandleDropped
  BY <1>18 DEF TypeInv, TypeOK, FlagTypes, HandleDropped
<1>19. CASE HandleEos
  BY <1>19 DEF TypeInv, TypeOK, FlagTypes, HandleEos, Notify
<1>20. CASE HandleError
  BY <1>20 DEF TypeInv, TypeOK, FlagTypes, HandleError, Notify
<1>21. CASE HandleState
  BY <1>21 DEF TypeInv, TypeOK, FlagTypes, HandleState, Announces, PlaybackEvent
<1>22. CASE HandleTell
  BY <1>22 DEF TypeInv, TypeOK, FlagTypes, HandleTell, TellPlay
<1>23. CASE LoopChoose
  BY <1>23 DEF TypeInv, TypeOK, FlagTypes, LoopChoose, destroyPipeline, Silent
<1>24. CASE CreatePipeline
  <2>1. pipeline' \in BOOLEAN
    BY <1>24, PipelineType
  <2>2. ensure' \in BOOLEAN /\ flushed' \in BOOLEAN /\ speaking' \in BOOLEAN
    BY <1>24 DEF TypeInv, TypeOK, FlagTypes, CreatePipeline, Adopt, Silent, SetState
  <2>3. bstale' \in BOOLEAN /\ retried' \in BOOLEAN /\ runThread' \in BOOLEAN /\ crashed' \in BOOLEAN
    BY <1>24 DEF TypeInv, TypeOK, FlagTypes, CreatePipeline, Adopt, Silent
  <2>4. (\E yes : ClearFlags(yes)) \/ UNCHANGED <<paused, eos, errorVars>>
    BY <1>24 DEF CreatePipeline
  <2>5. /\ eos' \in BOOLEAN /\ paused' \in BOOLEAN /\ pipelineError' \in BOOLEAN
        /\ networkError' \in BOOLEAN /\ remoteError' \in BOOLEAN
    BY <2>4, ClearedType DEF TypeInv, TypeOK, FlagTypes
  <2> QED
    BY <2>1, <2>2, <2>3, <2>5 DEF FlagTypes
<1>25. CASE Play
  <2>1. pipeline' \in BOOLEAN
    BY <1>25, PipelineType
  <2>2. ensure' \in BOOLEAN /\ flushed' \in BOOLEAN /\ speaking' \in BOOLEAN
    BY <1>25 DEF TypeInv, TypeOK, FlagTypes, Play, Adopt, SetState
  <2>3. bstale' \in BOOLEAN /\ retried' \in BOOLEAN /\ runThread' \in BOOLEAN /\ crashed' \in BOOLEAN
    BY <1>25 DEF TypeInv, TypeOK, FlagTypes, Play, Adopt
  <2>4. (\E yes : ClearFlags(yes)) \/ UNCHANGED <<paused, eos, errorVars>>
    BY <1>25 DEF Play
  <2>5. /\ eos' \in BOOLEAN /\ paused' \in BOOLEAN /\ pipelineError' \in BOOLEAN
        /\ networkError' \in BOOLEAN /\ remoteError' \in BOOLEAN
    BY <2>4, ClearedType DEF TypeInv, TypeOK, FlagTypes
  <2> QED
    BY <2>1, <2>2, <2>3, <2>5 DEF FlagTypes
<1>26. CASE Reset
  <2>1. pipeline' \in BOOLEAN
    BY <1>26, PipelineType
  <2>2. ensure' \in BOOLEAN /\ flushed' \in BOOLEAN /\ speaking' \in BOOLEAN
    BY <1>26 DEF TypeInv, TypeOK, FlagTypes, Reset, resetPipeline, Adopt, Silent, SetState
  <2>3. bstale' \in BOOLEAN /\ retried' \in BOOLEAN /\ runThread' \in BOOLEAN /\ crashed' \in BOOLEAN
    BY <1>26 DEF TypeInv, TypeOK, FlagTypes, Reset, resetPipeline, Adopt, Silent
  <2>4. (\E yes : ClearFlags(yes)) \/ UNCHANGED <<paused, eos, errorVars>>
    BY <1>26 DEF Reset, resetPipeline
  <2>5. /\ eos' \in BOOLEAN /\ paused' \in BOOLEAN /\ pipelineError' \in BOOLEAN
        /\ networkError' \in BOOLEAN /\ remoteError' \in BOOLEAN
    BY <2>4, ClearedType DEF TypeInv, TypeOK, FlagTypes
  <2> QED
    BY <2>1, <2>2, <2>3, <2>5 DEF FlagTypes
<1>27. CASE UNCHANGED vars
  BY <1>27 DEF TypeInv, TypeOK, FlagTypes
<1> QED
  BY <1>1, <1>2, <1>3, <1>4, <1>5, <1>6, <1>7, <1>8, <1>9, <1>10, <1>11, <1>12, <1>13,
     <1>14, <1>15, <1>16, <1>17, <1>18, <1>19, <1>20, <1>21, <1>22, <1>23, <1>24, <1>25,
     <1>26, <1>27 DEF Next, ApiCall, ApiStep, GstStep, BusStep, Stream

\* The ids and the counters.
LEMMA NumberStep == ASSUME TypeInv, [Next]_vars PROVE NumberTypes'
<1>1. CASE FlushQueue \/ DestroyNotify \/ Join \/ LoopUpdate \/ LoopNoUpdate \/
          CreationFailed \/ Evaluate \/ Block
  <2>1. UNCHANGED <<nextId, preempted, failures, calls, arg, btell, data, current>>
    BY <1>1 DEF FlushQueue, QueueMutexFree, DestroyNotify, Notify, Join, LoopUpdate,
       needsPipelineUpdate, LoopNoUpdate, CreationFailed, Evaluate, WorkToDo, Block
  <2> QED
    BY <2>1 DEF TypeInv, TypeOK, NumberTypes, QueueTypes, Room, Speech
<1>2. CASE StopCheck \/ BeginSpeaking \/ WillSpeak \/ SpeakText \/ AudioEnds \/ Retry
          \/ Decide \/ BusPop
  <2>1. UNCHANGED <<nextId, preempted, failures, calls, arg, btell, data, current>>
    BY <1>2 DEF StopCheck, Silent, BeginSpeaking, StateMutexFree, WillSpeak, TellWill,
       SpeakText, AudioEnds, AudioOver, Retry, Decide, TellEnd, Outcome, BusPop
  <2> QED
    BY <2>1 DEF TypeInv, TypeOK, NumberTypes, QueueTypes, Room, Speech
<1>3. CASE StreamAdvances \/ StreamEnds
  <2>1. UNCHANGED <<nextId, preempted, failures, calls, arg, btell, data, current>>
    BY <1>3 DEF StreamAdvances, Post, StreamEnds
  <2> QED
    BY <2>1 DEF TypeInv, TypeOK, NumberTypes, QueueTypes, Room, Speech
<1>4. CASE Speak
  BY <1>4 DEF TypeInv, TypeOK, NumberTypes, QueueTypes, Room, Speech, Speak
<1>5. CASE SpeakWithUtterance
  BY <1>5 DEF TypeInv, TypeOK, NumberTypes, QueueTypes, Room, Speech, SpeakWithUtterance
<1>6. CASE Destroy
  BY <1>6 DEF TypeInv, TypeOK, NumberTypes, QueueTypes, Room, Speech, Destroy
<1>7. CASE EnterCancel
  BY <1>7 DEF TypeInv, TypeOK, NumberTypes, QueueTypes, Room, Speech, EnterCancel, Cancel,
     SetACL, Enable,
     Issued
<1>8. CASE EnterPause
  BY <1>8 DEF TypeInv, TypeOK, NumberTypes, QueueTypes, Room, Speech, EnterPause, Pause, Resume
<1>9. CASE CancelCheck
  BY <1>9 DEF TypeInv, TypeOK, NumberTypes, QueueTypes, Room, Speech, CancelCheck,
     CancelHits, AfterCancel
<1>10. CASE CancelSet
  BY <1>10 DEF TypeInv, TypeOK, NumberTypes, QueueTypes, Room, Speech, CancelSet,
     AfterCancel, Notify
<1>11. CASE QueueData
  BY <1>11 DEF TypeInv, TypeOK, NumberTypes, QueueTypes, Room, Speech, QueueData,
     QueueMutexFree, Notify
<1>12. CASE EnsurePipeline
  BY <1>12 DEF TypeInv, TypeOK, NumberTypes, QueueTypes, Room, Speech, EnsurePipeline,
     QueueMutexFree, Notify
<1>13. CASE PauseSet
  BY <1>13 DEF TypeInv, TypeOK, NumberTypes, QueueTypes, Room, Speech, PauseSet,
     SetState
<1>14. CASE ResumeSet
  BY <1>14 DEF TypeInv, TypeOK, NumberTypes, QueueTypes, Room, Speech, ResumeSet,
     SetState
<1>15. CASE LoopExit
  BY <1>15 DEF TypeInv, TypeOK, NumberTypes, QueueTypes, Room, Speech, LoopExit,
     destroyPipeline, Silent
<1>16. CASE LoopChoose
  <2>1. failures' \in 0 .. 255
    <3>1. failures' = failures \/ failures' = 0
      BY <1>16 DEF LoopChoose, destroyPipeline
    <3> QED
      BY <3>1 DEF TypeInv, TypeOK, NumberTypes
  <2> QED
    BY <1>16, <2>1 DEF TypeInv, TypeOK, NumberTypes, LoopChoose, destroyPipeline, Silent
<1>17. CASE CreatePipeline
  BY <1>17, PipelineType DEF TypeInv, TypeOK, NumberTypes, QueueTypes, Room, Speech,
     CreatePipeline, ClearFlags, Silent
<1>18. CASE FailHead
  BY <1>18 DEF TypeInv, TypeOK, NumberTypes, QueueTypes, Room, Speech, FailHead,
     dequeueData, TellEnd
<1>19. CASE Take
  BY <1>19 DEF TypeInv, TypeOK, NumberTypes, QueueTypes, Room, Speech, Take, dequeueData
<1>20. CASE Play
  BY <1>20, PipelineType DEF TypeInv, TypeOK, NumberTypes, QueueTypes, Room, Speech, Play,
     ClearFlags, SetState, UrlType
<1>21. CASE PlayReturns
  BY <1>21 DEF TypeInv, TypeOK, NumberTypes, QueueTypes, Room, Speech, PlayReturns
<1>22. CASE FinishSpeaking
  BY <1>22 DEF TypeInv, TypeOK, NumberTypes, QueueTypes, Room, Speech, FinishSpeaking,
     StateMutexFree
<1>23. CASE Reset
  BY <1>23, PipelineType DEF TypeInv, TypeOK, NumberTypes, QueueTypes, Room, Speech, Reset,
     resetPipeline, ClearFlags, Silent
<1>24. CASE HandleDropped
  BY <1>24 DEF TypeInv, TypeOK, NumberTypes, QueueTypes, Room, Speech, HandleDropped
<1>25. CASE HandleEos
  BY <1>25 DEF TypeInv, TypeOK, NumberTypes, QueueTypes, Room, Speech, HandleEos, Notify
<1>26. CASE HandleError
  BY <1>26 DEF TypeInv, TypeOK, NumberTypes, QueueTypes, Room, Speech, HandleError,
     Notify
<1>27. CASE HandleState
  BY <1>27 DEF TypeInv, TypeOK, NumberTypes, QueueTypes, Room, Speech, HandleState,
     Announces, PlaybackEvent
<1>28. CASE HandleTell
  BY <1>28 DEF TypeInv, TypeOK, NumberTypes, QueueTypes, Room, Speech, HandleTell,
     TellPlay
<1>29. CASE UNCHANGED vars
  BY <1>29 DEF TypeInv, TypeOK, NumberTypes, QueueTypes, Room, Speech
<1> QED
  BY <1>1, <1>2, <1>3, <1>4, <1>5, <1>6, <1>7, <1>8, <1>9, <1>10, <1>11, <1>12, <1>13,
     <1>14, <1>15, <1>16, <1>17, <1>18, <1>19, <1>20, <1>21, <1>22, <1>23, <1>24, <1>25,
     <1>26, <1>27, <1>28, <1>29 DEF Next, ApiCall, ApiStep, GstStep, BusStep, Stream

\* The states and the program counters.
LEMMA StateStep == ASSUME TypeInv, [Next]_vars PROVE StateTypes'
<1>1. CASE Speak
  BY <1>1 DEF TypeInv, TypeOK, StateTypes, PipeType, GstPcs, ApiPcs, CallKinds,
     Messages, Playback, Telling, Speak
<1>2. CASE SpeakWithUtterance
  BY <1>2 DEF TypeInv, TypeOK, StateTypes, PipeType, GstPcs, ApiPcs, CallKinds,
     Messages, Playback, Telling, SpeakWithUtterance
<1>3. CASE EnterCancel
  BY <1>3 DEF TypeInv, TypeOK, StateTypes, PipeType, GstPcs, ApiPcs, CallKinds,
     Messages, Playback, Telling, EnterCancel, Cancel, SetACL, Enable, Issued
<1>4. CASE EnterPause
  BY <1>4 DEF TypeInv, TypeOK, StateTypes, PipeType, GstPcs, ApiPcs, CallKinds,
     Messages, Playback, Telling, EnterPause, Pause, Resume
<1>5. CASE Destroy
  BY <1>5 DEF TypeInv, TypeOK, StateTypes, PipeType, GstPcs, ApiPcs, CallKinds,
     Messages, Playback, Telling, Destroy
<1>6. CASE CancelCheck
  BY <1>6 DEF TypeInv, TypeOK, StateTypes, PipeType, GstPcs, ApiPcs, CallKinds,
     Messages, Playback, Telling, CancelCheck, CancelHits, AfterCancel
<1>7. CASE CancelSet
  BY <1>7 DEF TypeInv, TypeOK, StateTypes, PipeType, GstPcs, ApiPcs, CallKinds,
     Messages, Playback, Telling, CancelSet, AfterCancel, Notify
<1>8. CASE FlushQueue
  BY <1>8 DEF TypeInv, TypeOK, StateTypes, PipeType, GstPcs, ApiPcs, CallKinds,
     Messages, Playback, Telling, FlushQueue, QueueMutexFree
<1>9. CASE QueueData
  BY <1>9 DEF TypeInv, TypeOK, StateTypes, PipeType, GstPcs, ApiPcs, CallKinds,
     Messages, Playback, Telling, QueueData, QueueMutexFree, Notify
<1>10. CASE EnsurePipeline
  BY <1>10 DEF TypeInv, TypeOK, StateTypes, PipeType, GstPcs, ApiPcs, CallKinds,
     Messages, Playback, Telling, EnsurePipeline, QueueMutexFree, Notify
<1>11. CASE PauseSet
  BY <1>11 DEF TypeInv, TypeOK, StateTypes, PipeType, GstPcs, ApiPcs, CallKinds,
     Messages, Playback, Telling, PauseSet, SetState
<1>12. CASE ResumeSet
  BY <1>12 DEF TypeInv, TypeOK, StateTypes, PipeType, GstPcs, ApiPcs, CallKinds,
     Messages, Playback, Telling, ResumeSet, SetState
<1>13. CASE DestroyNotify
  BY <1>13 DEF TypeInv, TypeOK, StateTypes, PipeType, GstPcs, ApiPcs, CallKinds,
     Messages, Playback, Telling, DestroyNotify, Notify
<1>14. CASE Join
  BY <1>14 DEF TypeInv, TypeOK, StateTypes, PipeType, GstPcs, ApiPcs, CallKinds,
     Messages, Playback, Telling, Join
<1>15. CASE LoopExit
  BY <1>15 DEF TypeInv, TypeOK, StateTypes, PipeType, GstPcs, ApiPcs, CallKinds,
     Messages, Playback, Telling, LoopExit, destroyPipeline, Silent
<1>16. CASE LoopUpdate
  BY <1>16 DEF TypeInv, TypeOK, StateTypes, PipeType, GstPcs, ApiPcs, CallKinds,
     Messages, Playback, Telling, LoopUpdate, needsPipelineUpdate
<1>17. CASE LoopChoose
  BY <1>17 DEF TypeInv, TypeOK, StateTypes, PipeType, GstPcs, ApiPcs, CallKinds,
     Messages, Playback, Telling, LoopChoose, destroyPipeline, Silent
<1>18. CASE CreatePipeline
  BY <1>18 DEF TypeInv, TypeOK, StateTypes, PipeType, GstPcs, ApiPcs, CallKinds,
     Messages, Playback, Telling, CreatePipeline, Adopt, ClearFlags, Silent
<1>19. CASE LoopNoUpdate
  BY <1>19 DEF TypeInv, TypeOK, StateTypes, PipeType, GstPcs, ApiPcs, CallKinds,
     Messages, Playback, Telling, LoopNoUpdate
<1>20. CASE CreationFailed
  BY <1>20 DEF TypeInv, TypeOK, StateTypes, PipeType, GstPcs, ApiPcs, CallKinds,
     Messages, Playback, Telling, CreationFailed
<1>21. CASE FailHead
  BY <1>21 DEF TypeInv, TypeOK, StateTypes, PipeType, GstPcs, ApiPcs, CallKinds,
     Messages, Playback, Telling, FailHead, dequeueData, TellEnd
<1>22. CASE Evaluate
  BY <1>22 DEF TypeInv, TypeOK, StateTypes, PipeType, GstPcs, ApiPcs, CallKinds,
     Messages, Playback, Telling, Evaluate, WorkToDo
<1>23. CASE Block
  BY <1>23 DEF TypeInv, TypeOK, StateTypes, PipeType, GstPcs, ApiPcs, CallKinds,
     Messages, Playback, Telling, Block
<1>24. CASE StopCheck
  BY <1>24 DEF TypeInv, TypeOK, StateTypes, PipeType, GstPcs, ApiPcs, CallKinds,
     Messages, Playback, Telling, StopCheck, Silent
<1>25. CASE Take
  BY <1>25 DEF TypeInv, TypeOK, StateTypes, PipeType, GstPcs, ApiPcs, CallKinds,
     Messages, Playback, Telling, Take, dequeueData
<1>26. CASE BeginSpeaking
  BY <1>26 DEF TypeInv, TypeOK, StateTypes, PipeType, GstPcs, ApiPcs, CallKinds,
     Messages, Playback, Telling, BeginSpeaking, StateMutexFree
<1>27. CASE WillSpeak
  BY <1>27 DEF TypeInv, TypeOK, StateTypes, PipeType, GstPcs, ApiPcs, CallKinds,
     Messages, Playback, Telling, WillSpeak, TellWill
<1>28. CASE SpeakText
  BY <1>28 DEF TypeInv, TypeOK, StateTypes, PipeType, GstPcs, ApiPcs, CallKinds,
     Messages, Playback, Telling, SpeakText
<1>29. CASE Play
  <2>1. ptype' \in PipeType
    <3>1. \A c \in BOOLEAN : UrlType(c) \in PipeType
      BY DEF UrlType, PipeType
    <3> QED
      BY <1>29, <3>1 DEF TypeInv, TypeOK, StateTypes, PipeType, GstPcs, ApiPcs, CallKinds,
         Messages, Playback, Telling, Play, Adopt
  <2>2. gstState' \in {"null", "ready", "paused", "playing", "drained"}
    BY <1>29 DEF TypeInv, TypeOK, StateTypes, PipeType, GstPcs, ApiPcs, CallKinds, Messages,
       Playback, Telling, Play, SetState
  <2>3. gstTarget' \in {"null", "paused", "playing"}
    BY <1>29 DEF TypeInv, TypeOK, StateTypes, PipeType, GstPcs, ApiPcs, CallKinds, Messages,
       Playback, Telling, Play, SetState
  <2>4. /\ bmsg' \in Messages \cup Playback \cup {"none"} /\ gpc' \in GstPcs
        /\ apc' \in ApiPcs /\ call' \in CallKinds \cup {"none", "speak"}
    BY <1>29 DEF TypeInv, TypeOK, StateTypes, PipeType, GstPcs, ApiPcs, CallKinds, Messages,
       Playback, Telling, Play, SetState
  <2> QED
    BY <2>1, <2>2, <2>3, <2>4 DEF StateTypes
<1>30. CASE AudioEnds
  BY <1>30 DEF TypeInv, TypeOK, StateTypes, PipeType, GstPcs, ApiPcs, CallKinds,
     Messages, Playback, Telling, AudioEnds, Silent, AudioOver
<1>31. CASE PlayReturns
  BY <1>31 DEF TypeInv, TypeOK, StateTypes, PipeType, GstPcs, ApiPcs, CallKinds,
     Messages, Playback, Telling, PlayReturns
<1>32. CASE Retry
  BY <1>32 DEF TypeInv, TypeOK, StateTypes, PipeType, GstPcs, ApiPcs, CallKinds,
     Messages, Playback, Telling, Retry
<1>33. CASE Decide
  BY <1>33 DEF TypeInv, TypeOK, StateTypes, PipeType, GstPcs, ApiPcs, CallKinds,
     Messages, Playback, Telling, Decide, TellEnd, Outcome
<1>34. CASE FinishSpeaking
  BY <1>34 DEF TypeInv, TypeOK, StateTypes, PipeType, GstPcs, ApiPcs, CallKinds,
     Messages, Playback, Telling, FinishSpeaking, StateMutexFree
<1>35. CASE Reset
  BY <1>35 DEF TypeInv, TypeOK, StateTypes, PipeType, GstPcs, ApiPcs, CallKinds,
     Messages, Playback, Telling, Reset, resetPipeline, Adopt, ClearFlags, Silent
<1>36. CASE BusPop
  BY <1>36, SeqFacts DEF TypeInv, TypeOK, StateTypes, PipeType, GstPcs, ApiPcs, CallKinds,
     Messages, Playback, Telling, QueueTypes, BusPop
<1>37. CASE HandleDropped
  BY <1>37 DEF TypeInv, TypeOK, StateTypes, PipeType, GstPcs, ApiPcs, CallKinds,
     Messages, Playback, Telling, HandleDropped
<1>38. CASE HandleEos
  BY <1>38 DEF TypeInv, TypeOK, StateTypes, PipeType, GstPcs, ApiPcs, CallKinds,
     Messages, Playback, Telling, HandleEos, Notify
<1>39. CASE HandleError
  BY <1>39 DEF TypeInv, TypeOK, StateTypes, PipeType, GstPcs, ApiPcs, CallKinds,
     Messages, Playback, Telling, HandleError, Notify
<1>40. CASE HandleState
  BY <1>40 DEF TypeInv, TypeOK, StateTypes, PipeType, GstPcs, ApiPcs, CallKinds,
     Messages, Playback, Telling, HandleState, Announces, PlaybackEvent
<1>41. CASE HandleTell
  BY <1>41 DEF TypeInv, TypeOK, StateTypes, PipeType, GstPcs, ApiPcs, CallKinds,
     Messages, Playback, Telling, HandleTell, TellPlay
<1>42. CASE StreamAdvances
  BY <1>42 DEF TypeInv, TypeOK, StateTypes, PipeType, GstPcs, ApiPcs, CallKinds,
     Messages, Playback, Telling, StreamAdvances, Post
<1>43. CASE StreamEnds
  BY <1>43 DEF TypeInv, TypeOK, StateTypes, PipeType, GstPcs, ApiPcs, CallKinds,
     Messages, Playback, Telling, StreamEnds, Post
<1>44. CASE UNCHANGED vars
  BY <1>44 DEF TypeInv, TypeOK, StateTypes, PipeType, GstPcs, ApiPcs, CallKinds,
     Messages, Playback, Telling
<1> QED
  BY <1>1, <1>2, <1>3, <1>4, <1>5, <1>6, <1>7, <1>8, <1>9, <1>10, <1>11, <1>12, <1>13,
     <1>14, <1>15, <1>16, <1>17, <1>18, <1>19, <1>20, <1>21, <1>22, <1>23, <1>24, <1>25,
     <1>26, <1>27, <1>28, <1>29, <1>30, <1>31, <1>32, <1>33, <1>34, <1>35, <1>36, <1>37,
     <1>38, <1>39, <1>40, <1>41, <1>42, <1>43, <1>44 DEF Next, ApiCall, ApiStep,
     GstStep, BusStep, Stream

\* What the clients were told.
LEMMA GhostStep == ASSUME TypeInv, [Next]_vars PROVE GhostTypes'
<1>1. CASE Speak \/ SpeakWithUtterance \/ EnterCancel \/ EnterPause \/ Destroy \/
          CancelCheck \/ CancelSet \/ FlushQueue
  <2>1. UNCHANGED heard
    BY <1>1 DEF Speak, SpeakWithUtterance, EnterCancel, Cancel, SetACL, Enable, Issued,
       EnterPause, Pause, Resume, Destroy,
       CancelCheck, CancelHits, AfterCancel, CancelSet, Notify, FlushQueue,
       QueueMutexFree
  <2> QED
    BY <2>1 DEF TypeInv, TypeOK, GhostTypes, Outcomes, Playback, Telling, Speech,
       NumberTypes
<1>2. CASE QueueData \/ EnsurePipeline \/ PauseSet \/ ResumeSet \/ DestroyNotify \/
          Join \/ LoopExit \/ LoopUpdate
  <2>1. UNCHANGED heard
    BY <1>2 DEF QueueData, QueueMutexFree, Notify, EnsurePipeline, PauseSet, SetState,
       ResumeSet, DestroyNotify, Join, LoopExit, destroyPipeline, Silent, LoopUpdate,
       needsPipelineUpdate
  <2> QED
    BY <2>1 DEF TypeInv, TypeOK, GhostTypes, Outcomes, Playback, Telling, Speech,
       NumberTypes
<1>3. CASE LoopChoose \/ CreatePipeline \/ LoopNoUpdate \/ CreationFailed \/ Evaluate
          \/ Block \/ StopCheck \/ Take
  <2>1. UNCHANGED heard
    BY <1>3 DEF LoopChoose, destroyPipeline, Silent, CreatePipeline, Adopt, ClearFlags,
       LoopNoUpdate, CreationFailed, Evaluate, WorkToDo, Block, StopCheck, Take,
       dequeueData
  <2> QED
    BY <2>1 DEF TypeInv, TypeOK, GhostTypes, Outcomes, Playback, Telling, Speech,
       NumberTypes
<1>4. CASE BeginSpeaking \/ SpeakText \/ Play \/ AudioEnds \/ PlayReturns \/ Retry \/
          FinishSpeaking \/ Reset
  <2>1. UNCHANGED heard
    BY <1>4 DEF BeginSpeaking, StateMutexFree, SpeakText, Play, Adopt, ClearFlags,
       SetState, UrlType, AudioEnds, Silent, AudioOver, PlayReturns, Retry,
       FinishSpeaking, Reset, resetPipeline
  <2> QED
    BY <2>1 DEF TypeInv, TypeOK, GhostTypes, Outcomes, Playback, Telling, Speech,
       NumberTypes
<1>5. CASE BusPop \/ HandleDropped \/ HandleEos \/ HandleError \/ HandleState \/
          StreamAdvances \/ StreamEnds
  <2>1. UNCHANGED heard
    BY <1>5 DEF BusPop, HandleDropped, HandleEos, Notify, HandleError, HandleState,
       Announces, PlaybackEvent, StreamAdvances, Post, StreamEnds
  <2> QED
    BY <2>1 DEF TypeInv, TypeOK, GhostTypes, Outcomes, Playback, Telling, Speech,
       NumberTypes
<1>6. CASE FailHead
  <2>1. heard' \in [Speech -> Told1]
    <3>1. CASE queue = <<>>
      BY <1>6, <3>1, GhostIsTold DEF TypeInv, TypeOK, FailHead
    <3>2. CASE queue # <<>>
      <4>1. Head(queue) \in 0 .. MaxSpeech
        BY <3>2, SeqFacts DEF TypeInv, TypeOK, QueueTypes, Speech
      <4>2. heard' = [heard EXCEPT ![Head(queue)].end = "playbackerror",
                                   ![Head(queue)].ends = @ + 1]
        BY <1>6, <3>2 DEF FailHead, TellEnd
      <4>3. GhostTypes /\ "playbackerror" \in Outcomes
        BY DEF TypeInv, TypeOK, Outcomes
      <4> QED
        BY <4>1, <4>2, <4>3, ToldType
    <3> QED
      BY <3>1, <3>2
  <2> QED
    BY <2>1 DEF GhostTypes, Told1
<1>7. CASE WillSpeak
  <2>1. heard' \in [Speech -> Told1]
    BY <1>7, ToldType, GhostIsTold DEF TypeInv, TypeOK, NumberTypes, WillSpeak, TellWill
  <2> QED
    BY <2>1 DEF GhostTypes, Told1
<1>8. CASE Decide
  <2>1. heard' \in [Speech -> Told1]
    <3>1. Outcome \in Outcomes
      BY DEF Outcome, Outcomes
    <3> QED
      BY <1>8, <3>1, ToldType DEF TypeInv, TypeOK, NumberTypes, Decide, TellEnd
  <2> QED
    BY <2>1 DEF GhostTypes, Told1
<1>9. CASE HandleTell
  <2>1. heard' \in [Speech -> Told1]
    <3>1. bmsg \in Playback
      BY <1>9 DEF TypeInv, Telling, HandleTell
    <3> QED
      BY <1>9, <3>1, ToldType DEF TypeInv, TypeOK, NumberTypes, HandleTell, TellPlay
  <2> QED
    BY <2>1 DEF GhostTypes, Told1
<1>10. CASE UNCHANGED vars
  BY <1>10 DEF TypeInv, TypeOK, GhostTypes, Outcomes, Playback, Telling, Speech,
     NumberTypes
<1> QED
  BY <1>1, <1>2, <1>3, <1>4, <1>5, <1>6, <1>7, <1>8, <1>9, <1>10 DEF Next, ApiCall,
     ApiStep, GstStep, BusStep, Stream

\* Room is made before a speech is queued, by the call that queues it.
LEMMA RoomStep == ASSUME TypeInv, [Next]_vars PROVE Room'
<1>1. CASE LoopExit \/ LoopUpdate \/ LoopChoose \/ CreatePipeline \/ LoopNoUpdate \/
          CreationFailed \/ FailHead \/ Evaluate
  <2>1. UNCHANGED <<call, apc, nextId>>
    BY <1>1 DEF LoopExit, destroyPipeline, Silent, LoopUpdate, needsPipelineUpdate,
       LoopChoose, CreatePipeline, Adopt, ClearFlags, LoopNoUpdate, CreationFailed,
       FailHead, dequeueData, TellEnd, Evaluate, WorkToDo
  <2> QED
    BY <2>1 DEF TypeInv, TypeOK, StateTypes, Room, Telling, Messages, Playback
<1>2. CASE Block \/ StopCheck \/ Take \/ BeginSpeaking \/ WillSpeak \/ SpeakText \/
          Play \/ AudioEnds
  <2>1. UNCHANGED <<call, apc, nextId>>
    BY <1>2 DEF Block, StopCheck, Silent, Take, dequeueData, BeginSpeaking,
       StateMutexFree, WillSpeak, TellWill, SpeakText, Play, Adopt, ClearFlags,
       SetState, UrlType, AudioEnds, AudioOver
  <2> QED
    BY <2>1 DEF TypeInv, TypeOK, StateTypes, Room, Telling, Messages, Playback
<1>3. CASE PlayReturns \/ Retry \/ Decide \/ FinishSpeaking \/ Reset \/ BusPop \/
          HandleDropped \/ HandleEos
  <2>1. UNCHANGED <<call, apc, nextId>>
    BY <1>3 DEF PlayReturns, Retry, Decide, TellEnd, Outcome, FinishSpeaking,
       StateMutexFree, Reset, resetPipeline, Adopt, ClearFlags, Silent, BusPop,
       HandleDropped, HandleEos, Notify
  <2> QED
    BY <2>1 DEF TypeInv, TypeOK, StateTypes, Room, Telling, Messages, Playback
<1>4. CASE HandleError \/ HandleState \/ HandleTell \/ StreamAdvances \/ StreamEnds
  <2>1. UNCHANGED <<call, apc, nextId>>
    BY <1>4 DEF HandleError, Notify, HandleState, Announces, PlaybackEvent, HandleTell,
       TellPlay, StreamAdvances, Post, StreamEnds
  <2> QED
    BY <2>1 DEF TypeInv, TypeOK, StateTypes, Room, Telling, Messages, Playback
<1>5. CASE Speak
  BY <1>5 DEF TypeInv, TypeOK, StateTypes, Room, Telling, Messages, Playback, Speak
<1>6. CASE SpeakWithUtterance
  BY <1>6 DEF TypeInv, TypeOK, StateTypes, Room, Telling, Messages, Playback,
     SpeakWithUtterance
<1>7. CASE EnterCancel
  BY <1>7 DEF TypeInv, TypeOK, StateTypes, Room, Telling, Messages, Playback,
     EnterCancel, Cancel, SetACL, Enable, Issued
<1>8. CASE EnterPause
  BY <1>8 DEF TypeInv, TypeOK, StateTypes, Room, Telling, Messages, Playback, EnterPause,
     Pause, Resume
<1>9. CASE Destroy
  BY <1>9 DEF TypeInv, TypeOK, StateTypes, Room, Telling, Messages, Playback, Destroy
<1>10. CASE CancelCheck
  BY <1>10 DEF TypeInv, TypeOK, StateTypes, Room, Telling, Messages, Playback,
     CancelCheck, CancelHits, AfterCancel
<1>11. CASE CancelSet
  BY <1>11 DEF TypeInv, TypeOK, StateTypes, Room, Telling, Messages, Playback,
     CancelSet, AfterCancel, Notify
<1>12. CASE FlushQueue
  BY <1>12 DEF TypeInv, TypeOK, StateTypes, Room, Telling, Messages, Playback,
     FlushQueue, QueueMutexFree
<1>13. CASE QueueData
  BY <1>13 DEF TypeInv, TypeOK, StateTypes, Room, Telling, Messages, Playback,
     QueueData, QueueMutexFree, Notify
<1>14. CASE EnsurePipeline
  BY <1>14 DEF TypeInv, TypeOK, StateTypes, Room, Telling, Messages, Playback,
     EnsurePipeline, QueueMutexFree, Notify
<1>15. CASE PauseSet
  BY <1>15 DEF TypeInv, TypeOK, StateTypes, Room, Telling, Messages, Playback, PauseSet,
     SetState
<1>16. CASE ResumeSet
  BY <1>16 DEF TypeInv, TypeOK, StateTypes, Room, Telling, Messages, Playback,
     ResumeSet, SetState
<1>17. CASE DestroyNotify
  BY <1>17 DEF TypeInv, TypeOK, StateTypes, Room, Telling, Messages, Playback,
     DestroyNotify, Notify
<1>18. CASE Join
  BY <1>18 DEF TypeInv, TypeOK, StateTypes, Room, Telling, Messages, Playback, Join
<1>19. CASE UNCHANGED vars
  BY <1>19 DEF TypeInv, TypeOK, StateTypes, Room, Telling, Messages, Playback
<1> QED
  BY <1>1, <1>2, <1>3, <1>4, <1>5, <1>6, <1>7, <1>8, <1>9, <1>10, <1>11, <1>12, <1>13,
     <1>14, <1>15, <1>16, <1>17, <1>18, <1>19 DEF Next, ApiCall, ApiStep, GstStep,
     BusStep, Stream

\* Only the bus watch sets what it holds.
LEMMA TellingStep == ASSUME TypeInv, [Next]_vars PROVE Telling'
<1>1. CASE Speak \/ SpeakWithUtterance \/ EnterCancel \/ EnterPause \/ Destroy \/
          CancelCheck \/ CancelSet \/ FlushQueue
  <2>1. UNCHANGED <<btell, bmsg>>
    BY <1>1 DEF Speak, SpeakWithUtterance, EnterCancel, Cancel, SetACL, Enable, Issued,
       EnterPause, Pause, Resume, Destroy,
       CancelCheck, CancelHits, AfterCancel, CancelSet, Notify, FlushQueue,
       QueueMutexFree
  <2> QED
    BY <2>1 DEF TypeInv, TypeOK, StateTypes, Room, Telling, Messages, Playback,
       QueueTypes
<1>2. CASE QueueData \/ EnsurePipeline \/ PauseSet \/ ResumeSet \/ DestroyNotify \/
          Join \/ LoopExit \/ LoopUpdate
  <2>1. UNCHANGED <<btell, bmsg>>
    BY <1>2 DEF QueueData, QueueMutexFree, Notify, EnsurePipeline, PauseSet, SetState,
       ResumeSet, DestroyNotify, Join, LoopExit, destroyPipeline, Silent, LoopUpdate,
       needsPipelineUpdate
  <2> QED
    BY <2>1 DEF TypeInv, TypeOK, StateTypes, Room, Telling, Messages, Playback,
       QueueTypes
<1>3. CASE LoopChoose \/ CreatePipeline \/ LoopNoUpdate \/ CreationFailed \/ FailHead
          \/ Evaluate \/ Block \/ StopCheck
  <2>1. UNCHANGED <<btell, bmsg>>
    BY <1>3 DEF LoopChoose, destroyPipeline, Silent, CreatePipeline, Adopt, ClearFlags,
       LoopNoUpdate, CreationFailed, FailHead, dequeueData, TellEnd, Evaluate, WorkToDo,
       Block, StopCheck
  <2> QED
    BY <2>1 DEF TypeInv, TypeOK, StateTypes, Room, Telling, Messages, Playback,
       QueueTypes
<1>4. CASE Take \/ BeginSpeaking \/ WillSpeak \/ SpeakText \/ Play \/ AudioEnds \/
          PlayReturns \/ Retry
  <2>1. UNCHANGED <<btell, bmsg>>
    BY <1>4 DEF Take, dequeueData, BeginSpeaking, StateMutexFree, WillSpeak, TellWill,
       SpeakText, Play, Adopt, ClearFlags, SetState, UrlType, AudioEnds, Silent,
       AudioOver, PlayReturns, Retry
  <2> QED
    BY <2>1 DEF TypeInv, TypeOK, StateTypes, Room, Telling, Messages, Playback,
       QueueTypes
<1>5. CASE Decide \/ FinishSpeaking \/ Reset \/ StreamAdvances \/ StreamEnds
  <2>1. UNCHANGED <<btell, bmsg>>
    BY <1>5 DEF Decide, TellEnd, Outcome, FinishSpeaking, StateMutexFree, Reset,
       resetPipeline, Adopt, ClearFlags, Silent, StreamAdvances, Post, StreamEnds
  <2> QED
    BY <2>1 DEF TypeInv, TypeOK, StateTypes, Room, Telling, Messages, Playback,
       QueueTypes
<1>6. CASE BusPop
  BY <1>6, SeqFacts DEF TypeInv, TypeOK, StateTypes, Room, Telling, Messages, Playback,
     QueueTypes, BusPop
<1>7. CASE HandleDropped
  BY <1>7 DEF TypeInv, TypeOK, StateTypes, Room, Telling, Messages, Playback,
     QueueTypes, HandleDropped
<1>8. CASE HandleEos
  BY <1>8 DEF TypeInv, TypeOK, StateTypes, Room, Telling, Messages, Playback,
     QueueTypes, HandleEos, Notify
<1>9. CASE HandleError
  BY <1>9 DEF TypeInv, TypeOK, StateTypes, Room, Telling, Messages, Playback,
     QueueTypes, HandleError, Notify
<1>10. CASE HandleState
  BY <1>10 DEF TypeInv, TypeOK, StateTypes, Room, Telling, Messages, Playback,
     QueueTypes, HandleState, Announces, PlaybackEvent
<1>11. CASE HandleTell
  BY <1>11 DEF TypeInv, TypeOK, StateTypes, Room, Telling, Messages, Playback,
     QueueTypes, HandleTell, TellPlay
<1>12. CASE UNCHANGED vars
  BY <1>12 DEF TypeInv, TypeOK, StateTypes, Room, Telling, Messages, Playback,
     QueueTypes
<1> QED
  BY <1>1, <1>2, <1>3, <1>4, <1>5, <1>6, <1>7, <1>8, <1>9, <1>10, <1>11, <1>12 DEF Next,
     ApiCall, ApiStep, GstStep, BusStep, Stream

-------------------------------------------------------------------------------
(* Type correctness.                                                       *)

\* Every step keeps the strengthened type invariant.
LEMMA TypeStep == ASSUME TypeInv, [Next]_vars PROVE TypeInv'
<1>1. FlagTypes' /\ StateTypes' /\ NumberTypes' /\ QueueTypes' /\ GhostTypes'
  BY FlagStep, StateStep, NumberStep, QueueStep, GhostStep
<1>2. Room' /\ Telling'
  BY RoomStep, TellingStep
<1> QED
  BY <1>1, <1>2 DEF TypeInv, TypeOK

\* The strengthened type invariant holds throughout.
THEOREM TypeInvHolds == Spec => []TypeInv
<1>1. Init => TypeInv
  BY TypeInit
<1>2. TypeInv /\ [Next]_vars => TypeInv'
  BY TypeStep
<1> QED
  BY <1>1, <1>2, PTL DEF Spec

\* Whatever the number of speeches and calls, every variable keeps its type: in
\* particular m_pipelineConstructionFailures stays a byte, and the event the
\* bus watch forwards (onspeechstart, -pause, -resume) is one of the three.
THEOREM TypeCorrect == Spec => []TypeOK
<1>1. TypeInv => TypeOK
  BY DEF TypeInv
<1> QED
  BY <1>1, TypeInvHolds, PTL
=============================================================================

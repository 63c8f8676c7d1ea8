------------------------------ MODULE BufferQueue ------------------------------
(***************************************************************************)
(* BufferQueue (src/SystemAudioPlayer/impl/BufferQueue.cpp), the bounded   *)
(* queue between those who feed an AudioPlayer and the thread that pushes  *)
(* to its appsrc, with its users in AudioPlayer.cpp:                       *)
(*                                                                         *)
(*   - the feeders, push_data: "api" is PlayBuffer, which holds m_apiMutex,*)
(*     "ws" the WebSocket client's thread, which holds no mutex;           *)
(*   - the pusher, PushDataAppSrc, which runs from the constructor to the  *)
(*     destructor;                                                         *)
(*   - the stopper: Stop, under m_apiMutex, and Close, which is a Stop     *)
(*     followed by the destructor.                                         *)
(*                                                                         *)
(* The queue is guarded by m_mutex and counted by two semaphores, which    *)
(* are waited for outside the mutex by add and remove, and inside it by    *)
(* clear: the steps are cut where a thread can block.                      *)
(***************************************************************************)
EXTENDS Integers, Sequences, FiniteSets

CONSTANTS Size,          \* BufferQueue(1000)
          MaxBuffers,    \* bound: buffers added
          MaxStops,      \* bound: calls of Stop
          Feeders        \* who feeds this player

ASSUME BufferAssumption ==
    /\ Size \in Nat \ {0} /\ MaxBuffers \in Nat /\ MaxStops \in Nat
    /\ Feeders \subseteq {"api", "ws"}

VARIABLES
    buffer,      \* m_buffer, numbered in the order of their being added
    full, empty, \* m_sem_full, m_sem_empty
    running,     \* m_running
    fpc,         \* where each feeder is in push_data
    connected,   \* webClient # NULL
    ppc,         \* where the pusher is
    item,        \* what remove() gave it, 0 for NULL
    spc,         \* where the stopper is
    closing,     \* it is in Close
    stops,       \* calls of Stop, up to MaxStops
    nextBuf,     \* buffers added, plus 1
    pushed       \* ghost: the last buffer pushed to the appsrc

queueVars  == <<buffer, full, empty, nextBuf>>
pusherVars == <<ppc, item, pushed>>
stopVars   == <<spc, closing, stops, running>>
feedVars   == <<fpc, connected>>
vars == <<queueVars, pusherVars, stopVars, feedVars>>

PusherPcs  == {"top", "remove", "pop", "push", "done"}
StopperPcs == {"idle", "disconnect", "lock", "clear", "take", "give", "reset",
               "delete", "lock2", "clear2", "take2", "give2", "post", "join", "gone"}
FeederPcs  == {"idle", "add", "full"}

\* The semaphores of BufferQueue.h never count below zero, whoever waits on them, and
\* each thread is at a place of the code it runs.
TypeOK ==
    /\ buffer \in Seq(Nat \ {0}) /\ full \in Nat /\ empty \in Nat
    /\ running \in BOOLEAN /\ closing \in BOOLEAN /\ connected \in BOOLEAN
    /\ fpc \in [Feeders -> FeederPcs] /\ ppc \in PusherPcs /\ spc \in StopperPcs
    /\ item \in Nat /\ pushed \in Nat
    /\ stops \in 0 .. MaxStops /\ nextBuf \in Nat \ {0}

Init ==
    /\ buffer = <<>> /\ full = 0 /\ empty = Size /\ nextBuf = 1
    /\ running = TRUE /\ spc = "idle" /\ closing = FALSE /\ stops = 0
    /\ fpc = [f \in Feeders |-> "idle"] /\ connected = FALSE
    /\ ppc = "top" /\ item = 0 /\ pushed = 0

-------------------------------------------------------------------------------
(* Mutual exclusion.                                                       *)

\* clear() holds m_mutex from its first step to its last; what add and remove
\* do under it is one step.
Clearing  == spc \in {"clear", "take", "give", "clear2", "take2", "give2"}
MutexFree == ~Clearing

\* m_apiMutex: PlayBuffer, and Stop from beginning to end.
Stopping == spc \in {"disconnect", "lock", "clear", "take", "give", "reset"}
ApiMutexFree == ~Stopping /\ ("api" \in Feeders => fpc["api"] = "idle")

-------------------------------------------------------------------------------
(* push_data.                                                              *)

\* What a feeder does to a queue deleted under it is undefined: not followed.
FeederAt(f, from, to) == /\ fpc[f] = from /\ spc # "gone"
                         /\ fpc' = [fpc EXCEPT ![f] = to]

\* isFull() drops the data; the queue may fill up before add().  A PlayBuffer may have got
\* the player before Close took it out of objectMap, and feeds it while it is closing.
Feed(f) ==
    /\ f = "api" => ApiMutexFree
    /\ f = "ws" => connected
    /\ nextBuf + Cardinality({g \in Feeders : fpc[g] # "idle"}) <= MaxBuffers
    /\ empty # 0
    /\ FeederAt(f, "idle", "add")
    /\ UNCHANGED <<queueVars, pusherVars, stopVars, connected>>

\* add: sem_wait(&m_sem_empty)
Reserve(f) ==
    /\ FeederAt(f, "add", "full")
    /\ empty > 0 /\ empty' = empty - 1
    /\ UNCHANGED <<buffer, full, nextBuf, pusherVars, stopVars, connected>>

\* Mutant: sem_post(&m_sem_full) is forgotten.
Add_NoPost(f) ==
    /\ FeederAt(f, "full", "idle") /\ MutexFree
    /\ buffer' = Append(buffer, nextBuf) /\ nextBuf' = nextBuf + 1
    /\ UNCHANGED <<full, empty, pusherVars, stopVars, connected>>

\* add: under m_mutex, push and sem_post(&m_sem_full)
Add(f) ==
    /\ FeederAt(f, "full", "idle") /\ MutexFree
    /\ buffer' = Append(buffer, nextBuf) /\ nextBuf' = nextBuf + 1
    /\ full' = full + 1
    /\ UNCHANGED <<empty, pusherVars, stopVars, connected>>

\* The pipeline reached PLAYING: the bus watch connects, a Stop under way or not.
Connect ==
    /\ "ws" \in Feeders /\ ~connected /\ spc # "gone"
    /\ connected' = TRUE
    /\ UNCHANGED <<fpc, queueVars, pusherVars, stopVars>>

-------------------------------------------------------------------------------
(* PushDataAppSrc.                                                         *)

PusherAt(from, to) == ppc = from /\ ppc' = to

\* while(m_running); isEmpty() only tells NEED_DATA.
PushLoop ==
    /\ PusherAt("top", IF running THEN "remove" ELSE "done") /\ (running => MutexFree)
    /\ UNCHANGED <<item, pushed, queueVars, stopVars, feedVars>>

\* Mutant: a counter taken down without waiting, in place of the semaphore.
RemoveWait_NoWait ==
    /\ PusherAt("remove", "pop")
    /\ full' = full - 1
    /\ UNCHANGED <<buffer, empty, nextBuf, item, pushed, stopVars, feedVars>>

\* remove: sem_wait(&m_sem_full)
RemoveWait ==
    /\ PusherAt("remove", "pop")
    /\ full > 0 /\ full' = full - 1
    /\ UNCHANGED <<buffer, empty, nextBuf, item, pushed, stopVars, feedVars>>

\* Mutant: the last buffer is taken first.
RemovePop_Last ==
    /\ PusherAt("pop", "push") /\ MutexFree
    /\ IF buffer = <<>>
       THEN item' = 0 /\ UNCHANGED <<buffer, empty>>
       ELSE /\ item' = buffer[Len(buffer)] /\ buffer' = SubSeq(buffer, 1, Len(buffer) - 1)
            /\ empty' = empty + 1
    /\ UNCHANGED <<full, nextBuf, pushed, stopVars, feedVars>>

\* remove: under m_mutex, pop and sem_post(&m_sem_empty), unless cleared since
RemovePop ==
    /\ PusherAt("pop", "push") /\ MutexFree
    /\ IF buffer = <<>>
       THEN item' = 0 /\ UNCHANGED <<buffer, empty>>
       ELSE item' = Head(buffer) /\ buffer' = Tail(buffer) /\ empty' = empty + 1
    /\ UNCHANGED <<full, nextBuf, pushed, stopVars, feedVars>>

\* Mutant: the thread ends when remove gives NULL.
Push_BreakOnNull ==
    /\ PusherAt("push", IF item = 0 THEN "done" ELSE "top")
    /\ pushed' = IF item = 0 THEN pushed ELSE item
    /\ item' = 0
    /\ UNCHANGED <<queueVars, stopVars, feedVars>>

\* "push-buffer", fragment by fragment; NULL is skipped.
Push ==
    /\ PusherAt("push", "top")
    /\ pushed' = IF item = 0 THEN pushed ELSE item
    /\ item' = 0
    /\ UNCHANGED <<queueVars, stopVars, feedVars>>

-------------------------------------------------------------------------------
(* Stop and Close.                                                         *)

StopperAt(from, to) == spc = from /\ spc' = to

\* Stop, on the API thread or the bus watch's, or Close.
EnterStop ==
    /\ StopperAt("idle", "disconnect") /\ ApiMutexFree
    /\ \/ stops < MaxStops /\ stops' = stops + 1 /\ UNCHANGED closing
       \/ closing' = TRUE /\ UNCHANGED stops
    /\ UNCHANGED <<running, queueVars, pusherVars, feedVars>>

\* webClient->disconnect() and reset(), which joins its thread
Disconnect ==
    /\ StopperAt("disconnect", "lock")
    /\ "ws" \in Feeders /\ connected => fpc["ws"] = "idle"
    /\ connected' = FALSE
    /\ UNCHANGED <<fpc, closing, stops, running, queueVars, pusherVars>>

\* clear(), called by Stop and again by preDelete
ClearLock ==
    /\ StopperAt("lock", "clear") \/ StopperAt("lock2", "clear2")
    /\ UNCHANGED <<closing, stops, running, queueVars, pusherVars, feedVars>>

\* Pop a buffer and read m_sem_full.
ClearPop ==
    /\ buffer # <<>> /\ buffer' = Tail(buffer)
    /\ \/ StopperAt("clear",  IF full # 0 THEN "take"  ELSE "give")
       \/ StopperAt("clear2", IF full # 0 THEN "take2" ELSE "give2")
    /\ UNCHANGED <<full, empty, nextBuf, closing, stops, running, pusherVars, feedVars>>

\* sem_wait(&m_sem_full), with m_mutex held
ClearTake ==
    /\ StopperAt("take", "give") \/ StopperAt("take2", "give2")
    /\ full > 0 /\ full' = full - 1
    /\ UNCHANGED <<buffer, empty, nextBuf, closing, stops, running, pusherVars, feedVars>>

\* Mutant: the slot of a buffer cleared is not given back.
ClearGive_Leak ==
    /\ StopperAt("give", "clear") \/ StopperAt("give2", "clear2")
    /\ UNCHANGED <<queueVars, closing, stops, running, pusherVars, feedVars>>

ClearGive ==
    /\ StopperAt("give", "clear") \/ StopperAt("give2", "clear2")
    /\ empty' = empty + 1
    /\ UNCHANGED <<buffer, full, nextBuf, closing, stops, running, pusherVars, feedVars>>

ClearUnlock ==
    /\ buffer = <<>>
    /\ StopperAt("clear", "reset") \/ StopperAt("clear2", "post")
    /\ UNCHANGED <<closing, stops, running, queueVars, pusherVars, feedVars>>

\* resetPipeline; m_apiMutex is released.
StopEnds ==
    /\ StopperAt("reset", IF closing THEN "delete" ELSE "idle")
    /\ UNCHANGED <<closing, stops, running, queueVars, pusherVars, feedVars>>

\* ~AudioPlayer
Delete ==
    /\ StopperAt("delete", "lock2")
    /\ running' = FALSE
    /\ UNCHANGED <<closing, stops, queueVars, pusherVars, feedVars>>

\* Mutant: preDelete does not wake the pusher.
PreDelete_NoPost ==
    /\ StopperAt("post", "join")
    /\ UNCHANGED <<closing, stops, running, queueVars, pusherVars, feedVars>>

\* preDelete: sem_post(&m_sem_full)
PreDelete ==
    /\ StopperAt("post", "join")
    /\ full' = full + 1
    /\ UNCHANGED <<buffer, empty, nextBuf, closing, stops, running, pusherVars, feedVars>>

Join ==
    /\ StopperAt("join", "gone") /\ ppc = "done"
    /\ UNCHANGED <<closing, stops, running, queueVars, pusherVars, feedVars>>

-------------------------------------------------------------------------------
Feeder == \E f \in Feeders : Feed(f) \/ Reserve(f) \/ Add(f)
Pusher == PushLoop \/ RemoveWait \/ RemovePop \/ Push
Clear  == ClearLock \/ ClearPop \/ ClearTake \/ ClearGive \/ ClearUnlock
Stopper == Disconnect \/ Clear \/ StopEnds \/ Delete \/ PreDelete \/ Join

Next == Feeder \/ Connect \/ Pusher \/ EnterStop \/ Stopper

\* Threads run, and a call that entered goes on.
Spec == Init /\ [][Next]_vars
FairSpec == Spec /\ WF_vars(Pusher) /\ WF_vars(Stopper)
                 /\ \A f \in Feeders : WF_vars(Reserve(f) \/ Add(f))

-------------------------------------------------------------------------------
(* Properties.                                                             *)

Reserved == Cardinality({f \in Feeders : fpc[f] = "full"})
Owed     == IF spc \in {"take", "give", "take2", "give2"} THEN 1 ELSE 0

\* No slot of the queue leaks or is invented, whatever is cleared while it is
\* added to or removed from: else push_data would drop data for ever, or the
\* queue grow beyond its size.
SlotsAccounted == empty + Len(buffer) + Reserved + Owed = Size

\* The pusher never sleeps in remove() while buffers wait: outside clear(), each
\* queued buffer has its token, in the semaphore or in the pusher's hand.
NoneStranded ==
    ~Clearing => Len(buffer) <= full + (IF ppc = "pop" THEN 1 ELSE 0)

\* The appsrc is given each buffer at most once, in the order they were added.
InOrder == [][pushed' # pushed => pushed' > pushed]_vars

\* A buffer accepted leaves the queue, pushed or cleared, unless clear() blocks
\* or the player is destroyed.
EveryBufferLeaves ==
    \A b \in 1 .. MaxBuffers :
        (\E i \in DOMAIN buffer : buffer[i] = b)
            ~> (spc = "take" \/ ~running \/ ~\E i \in DOMAIN buffer : buffer[i] = b)

\* The destructor's join returns: preDelete wakes the pusher after its clear().
JoinReturns == spc = "join" ~> spc = "gone"

\* SAPClose, test_SystemAudioPlayer.cpp:976: close "Closes the player instance".
CloseReturns == closing ~> spc = "gone"
===============================================================================

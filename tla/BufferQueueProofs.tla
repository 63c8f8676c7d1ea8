--------------------------- MODULE BufferQueueProofs ---------------------------
(***************************************************************************)
(* BufferQueue keeps account of its slots and of its tokens, for every     *)
(* size, number of buffers and set of feeders.                             *)
(*                                                                         *)
(* SlotsAccounted is inductive with TypeOK.  NoneStranded is not: inside   *)
(* clear() a buffer is popped one step before its token is taken.  Tokens  *)
(* says what holds at every step.  InOrder needs Ordered: the queue and    *)
(* what the pusher has in hand are in the order they were added, and none  *)
(* of it has been pushed.  OnlyClearBlocks needs Awake: the pusher ends     *)
(* only in the destructor, and does not sleep through its join.            *)
(***************************************************************************)
EXTENDS BufferQueue, FiniteSetTheorems, TLAPS

USE BufferAssumption
USE DEF vars, queueVars, pusherVars, stopVars, feedVars, PusherAt, StopperAt, FeederAt

\* Every queued buffer, and the token clear() is about to take, is covered.
Tokens == Len(buffer) + (IF spc \in {"take", "take2"} THEN 1 ELSE 0)
             <= full + (IF ppc = "pop" THEN 1 ELSE 0)

Counters == buffer \in Seq(Nat \ {0}) /\ full \in Nat /\ empty \in Nat /\ nextBuf \in Nat \ {0}
Threads  == /\ running \in BOOLEAN /\ closing \in BOOLEAN /\ connected \in BOOLEAN
            /\ fpc \in [Feeders -> FeederPcs] /\ ppc \in PusherPcs /\ spc \in StopperPcs
Numbers  == item \in Nat /\ pushed \in Nat /\ stops \in 0 .. MaxStops

\* What is queued is later than what the pusher has in hand, and that than what it pushed.
Ordered ==
    /\ \A i \in 1 .. Len(buffer) : pushed < buffer[i] /\ item < buffer[i] /\ buffer[i] < nextBuf
    /\ \A i, j \in 1 .. Len(buffer) : i < j => buffer[i] < buffer[j]
    /\ pushed < nextBuf /\ item < nextBuf
    /\ item # 0 => pushed < item /\ ppc = "push"

\* The pusher runs until the destructor ends it, which finds it awake.
Destroying == {"lock2", "clear2", "take2", "give2", "post", "join", "gone"}
Awake ==
    /\ running <=> spc \notin Destroying
    /\ ppc = "done" => ~running
    /\ spc = "join" /\ ppc = "remove" => full > 0

Inv == TypeOK /\ SlotsAccounted /\ Tokens /\ Ordered /\ Awake

-------------------------------------------------------------------------------
(* Operators.                                                              *)

\* What a queue of buffers is after a push and after a pop.
LEMMA QueueFacts ==
  ASSUME NEW q \in Seq(Nat \ {0})
  PROVE  /\ Len(q) \in Nat /\ (q = <<>> <=> Len(q) = 0)
         /\ q # <<>> => /\ Head(q) \in Nat \ {0} /\ Tail(q) \in Seq(Nat \ {0})
                        /\ Len(Tail(q)) = Len(q) - 1
         /\ \A b \in Nat \ {0} : /\ Append(q, b) \in Seq(Nat \ {0})
                                 /\ Len(Append(q, b)) = Len(q) + 1
  OBVIOUS

\* The feeders between their wait and their push are a finite set.
LEMMA ReservedFinite ==
  /\ IsFiniteSet({f \in Feeders : fpc[f] = "full"})
  /\ IsFiniteSet({f \in Feeders : fpc'[f] = "full"})
  /\ Reserved \in Nat
<1>1. IsFiniteSet({"api", "ws"})
  <2>1. IsFiniteSet({} \cup {"api"})
    BY FS_EmptySet, FS_AddElement
  <2>2. IsFiniteSet(({} \cup {"api"}) \cup {"ws"})
    BY <2>1, FS_AddElement
  <2>3. {"api", "ws"} = ({} \cup {"api"}) \cup {"ws"}
    OBVIOUS
  <2> QED
    BY <2>2, <2>3
<1>2. IsFiniteSet(Feeders)
  BY <1>1, FS_Subset
<1> QED
  BY <1>2, FS_Subset, FS_CardinalityType DEF Reserved

\* A feeder that gets a slot, or uses it, changes the count of them by one.
LEMMA ReservedStep ==
  ASSUME fpc \in [Feeders -> FeederPcs], NEW f \in Feeders
  PROVE  /\ FeederAt(f, "add", "full") => Reserved' = Reserved + 1
         /\ FeederAt(f, "full", "idle") => Reserved' = Reserved - 1
         /\ FeederAt(f, "idle", "add") => Reserved' = Reserved
<1> DEFINE S == {g \in Feeders : fpc[g] = "full"}
           T == {g \in Feeders : fpc'[g] = "full"}
<1>1. IsFiniteSet(S) /\ Reserved = Cardinality(S) /\ Reserved' = Cardinality(T)
  BY ReservedFinite DEF Reserved
<1>2. FeederAt(f, "add", "full") => T = S \cup {f} /\ f \notin S
  OBVIOUS
<1>3. FeederAt(f, "full", "idle") => T = S \ {f} /\ f \in S
  OBVIOUS
<1>4. FeederAt(f, "idle", "add") => T = S
  OBVIOUS
<1> HIDE DEF S, T
<1> QED
  BY <1>1, <1>2, <1>3, <1>4, FS_AddElement, FS_RemoveElement

-------------------------------------------------------------------------------
(* Types.                                                                  *)

\* Every step keeps the types.
LEMMA TypeStep == ASSUME TypeOK, [Next]_vars PROVE TypeOK'
<1> USE DEF Feeder, Pusher, Clear, Stopper
<1>1. TypeOK <=> Counters /\ Threads /\ Numbers
  BY DEF TypeOK, Counters, Threads, Numbers
<1>2. CASE \E f \in Feeders : Feed(f) \/ Reserve(f)
  BY <1>2 DEF TypeOK, Feed, Reserve, FeederPcs
<1>3. CASE \E f \in Feeders : Add(f)
  BY <1>3, QueueFacts DEF TypeOK, Add, FeederPcs
<1>4. CASE Connect \/ EnterStop \/ Disconnect \/ StopEnds \/ Delete \/ Join
  <2>1. Counters' /\ Threads'
    BY <1>1, <1>4 DEF Counters, Threads, Connect, EnterStop, Disconnect, StopEnds, Delete,
                      Join, StopperPcs
  <2>2. Numbers'
    BY <1>1, <1>4 DEF Numbers, Connect, EnterStop, Disconnect, StopEnds, Delete, Join
  <2> QED
    BY <2>1, <2>2 DEF TypeOK, Counters, Threads, Numbers
<1>5. CASE PushLoop \/ RemoveWait \/ Push
  BY <1>5 DEF TypeOK, PushLoop, RemoveWait, Push, PusherPcs
<1>6. CASE RemovePop
  <2>1. Counters' /\ item' \in Nat
    <3>1. buffer \in Seq(Nat \ {0}) /\ empty \in Nat /\ full \in Nat /\ nextBuf \in Nat \ {0}
      BY <1>1 DEF Counters
    <3>2. CASE buffer = <<>>
      BY <1>6, <3>1, <3>2 DEF Counters, RemovePop
    <3>3. CASE buffer # <<>>
      <4>1. buffer' = Tail(buffer) /\ item' = Head(buffer) /\ empty' = empty + 1
            /\ UNCHANGED <<full, nextBuf>>
        BY <1>6, <3>3 DEF RemovePop
      <4>2. Tail(buffer) \in Seq(Nat \ {0}) /\ Head(buffer) \in Nat
        BY <3>1, <3>3, QueueFacts
      <4> QED
        BY <3>1, <4>1, <4>2 DEF Counters
    <3> QED
      BY <3>2, <3>3
  <2>2. Threads' /\ Numbers'
    BY <1>1, <1>6, <2>1 DEF Threads, Numbers, RemovePop, PusherPcs
  <2> QED
    BY <2>1, <2>2 DEF TypeOK, Counters, Threads, Numbers
<1>7. CASE ClearLock \/ ClearTake \/ ClearGive \/ ClearUnlock \/ PreDelete
  BY <1>7 DEF TypeOK, ClearLock, ClearTake, ClearGive, ClearUnlock, PreDelete, StopperPcs
<1>8. CASE ClearPop
  BY <1>8, QueueFacts DEF TypeOK, ClearPop, StopperPcs
<1>9. CASE UNCHANGED vars
  BY <1>9 DEF TypeOK
<1> QED
  BY <1>2, <1>3, <1>4, <1>5, <1>6, <1>7, <1>8, <1>9 DEF Next

-------------------------------------------------------------------------------
(* Slots.                                                                  *)

\* Every step keeps the account of the slots.
LEMMA SlotsStep == ASSUME TypeOK, SlotsAccounted, [Next]_vars PROVE SlotsAccounted'
<1> USE DEF Feeder, Pusher, Clear, Stopper
<1>1. Reserved \in Nat /\ Len(buffer) \in Nat /\ Owed \in {0, 1} /\ empty \in Nat
  BY ReservedFinite, QueueFacts DEF Owed, TypeOK
<1>2. CASE \E f \in Feeders : Feed(f) \/ Reserve(f) \/ Add(f)
  <2>1. PICK f \in Feeders : Feed(f) \/ Reserve(f) \/ Add(f)
    BY <1>2
  <2>2. Owed' = Owed
    BY <2>1 DEF Owed, Feed, Reserve, Add
  <2>3. CASE Feed(f)
    <3>1. Reserved' = Reserved
      BY <2>3, ReservedStep DEF Feed, TypeOK
    <3> QED
      BY <2>2, <2>3, <3>1 DEF SlotsAccounted, Feed
  <2>4. CASE Reserve(f)
    <3>1. Reserved' = Reserved + 1
      BY <2>4, ReservedStep DEF Reserve, TypeOK
    <3> QED
      BY <1>1, <2>2, <2>4, <3>1 DEF SlotsAccounted, Reserve
  <2>5. CASE Add(f)
    <3>1. Reserved' = Reserved - 1
      BY <2>5, ReservedStep DEF Add, TypeOK
    <3>2. Len(buffer') = Len(buffer) + 1 /\ empty' = empty
      BY <2>5, QueueFacts DEF Add, TypeOK
    <3> QED
      BY <1>1, <2>2, <3>1, <3>2 DEF SlotsAccounted
  <2> QED
    BY <2>1, <2>3, <2>4, <2>5
<1>3. CASE UNCHANGED fpc
  <2>1. Reserved' = Reserved
    BY <1>3 DEF Reserved
  <2>2. CASE RemovePop
    <3>1. Owed' = Owed
      BY <2>2 DEF Owed, RemovePop
    <3>2. \/ UNCHANGED <<buffer, empty>>
          \/ Len(buffer') = Len(buffer) - 1 /\ empty' = empty + 1
      BY <2>2, QueueFacts DEF RemovePop, TypeOK
    <3> QED
      BY <1>1, <2>1, <3>1, <3>2 DEF SlotsAccounted
  <2>3. CASE ClearPop
    <3>1. Owed = 0 /\ Owed' = 1
      BY <2>3 DEF Owed, ClearPop
    <3>2. Len(buffer') = Len(buffer) - 1 /\ empty' = empty
      BY <2>3, QueueFacts DEF ClearPop, TypeOK
    <3> QED
      BY <1>1, <2>1, <3>1, <3>2 DEF SlotsAccounted
  <2>4. CASE ClearGive
    BY <1>1, <2>1, <2>4 DEF SlotsAccounted, Owed, ClearGive
  <2>5. CASE Connect \/ PushLoop \/ RemoveWait \/ Push
    BY <2>1, <2>5 DEF SlotsAccounted, Owed, Connect, PushLoop, RemoveWait, Push
  <2>6. CASE EnterStop \/ Disconnect \/ StopEnds \/ Delete \/ Join \/ ClearLock \/ ClearTake
             \/ ClearUnlock \/ PreDelete
    <3>1. Owed' = Owed /\ UNCHANGED <<buffer, empty>>
      BY <2>6 DEF Owed, EnterStop, Disconnect, StopEnds, Delete, Join, ClearLock, ClearTake,
                  ClearUnlock, PreDelete
    <3> QED
      BY <2>1, <3>1 DEF SlotsAccounted
  <2>7. CASE UNCHANGED vars
    BY <2>1, <2>7 DEF SlotsAccounted, Owed
  <2>8. CASE \E f \in Feeders : Feed(f) \/ Reserve(f) \/ Add(f)
    BY <1>2, <2>8
  <2> QED
    BY <2>2, <2>3, <2>4, <2>5, <2>6, <2>7, <2>8 DEF Next
<1>4. (\E f \in Feeders : Feed(f) \/ Reserve(f) \/ Add(f)) \/ UNCHANGED fpc
  BY DEF Next, Connect, PushLoop, RemoveWait, RemovePop, Push, EnterStop, Disconnect, StopEnds,
         Delete, Join, PreDelete, ClearLock, ClearPop, ClearTake, ClearGive, ClearUnlock
<1> QED
  BY <1>2, <1>3, <1>4

-------------------------------------------------------------------------------
(* Tokens.                                                                 *)

\* Every step keeps the tokens.
LEMMA TokensStep == ASSUME TypeOK, Tokens, [Next]_vars PROVE Tokens'
<1> USE DEF Feeder, Pusher, Clear, Stopper, Tokens
<1>1. Len(buffer) \in Nat /\ full \in Nat
  BY QueueFacts DEF TypeOK
<1>2. CASE \E f \in Feeders : Feed(f) \/ Reserve(f)
  BY <1>2 DEF Feed, Reserve
<1>3. CASE \E f \in Feeders : Add(f)
  BY <1>1, <1>3, QueueFacts DEF TypeOK, Add
<1>4. CASE Connect \/ PushLoop \/ Push
  BY <1>4 DEF Connect, PushLoop, Push
<1>5. CASE RemoveWait
  BY <1>1, <1>5 DEF RemoveWait
<1>6. CASE RemovePop
  <2>1. spc \notin {"take", "take2"}
    BY <1>6 DEF RemovePop, MutexFree, Clearing
  <2> QED
    BY <1>1, <1>6, <2>1, QueueFacts DEF TypeOK, RemovePop
<1>7. CASE EnterStop \/ Disconnect \/ StopEnds \/ Delete \/ Join \/ ClearLock \/ ClearGive
           \/ ClearUnlock
  BY <1>7 DEF EnterStop, Disconnect, StopEnds, Delete, Join, ClearLock, ClearGive, ClearUnlock
<1>8. CASE ClearPop
  BY <1>1, <1>8, QueueFacts DEF TypeOK, ClearPop
<1>9. CASE ClearTake \/ PreDelete
  BY <1>1, <1>9 DEF ClearTake, PreDelete
<1>10. CASE UNCHANGED vars
  BY <1>10
<1> QED
  BY <1>2, <1>3, <1>4, <1>5, <1>6, <1>7, <1>8, <1>9, <1>10 DEF Next

-------------------------------------------------------------------------------
(* Order.                                                                  *)

\* What is at which place of a queue after a pop and after a push
LEMMA PlaceFacts ==
  ASSUME NEW q \in Seq(Nat \ {0})
  PROVE  /\ \A i \in 1 .. Len(q) : q[i] \in Nat \ {0}
         /\ q # <<>> => /\ Head(q) = q[1] /\ 1 \in 1 .. Len(q)
                        /\ \A i \in 1 .. Len(Tail(q)) : i + 1 \in 1 .. Len(q) /\ Tail(q)[i] = q[i + 1]
         /\ \A b \in Nat \ {0} : \A i \in 1 .. Len(Append(q, b)) :
                \/ i \in 1 .. Len(q) /\ Append(q, b)[i] = q[i]
                \/ i = Len(q) + 1 /\ Append(q, b)[i] = b
<1>1. ASSUME q # <<>>
      PROVE  /\ Head(q) = q[1] /\ 1 \in 1 .. Len(q)
             /\ \A i \in 1 .. Len(Tail(q)) : i + 1 \in 1 .. Len(q) /\ Tail(q)[i] = q[i + 1]
  <2>1. Len(q) \in Nat \ {0} /\ Len(Tail(q)) = Len(q) - 1
    BY <1>1, QueueFacts
  <2> QED
    BY <1>1, <2>1
<1>2. ASSUME NEW b \in Nat \ {0}, NEW i \in 1 .. Len(Append(q, b))
      PROVE  \/ i \in 1 .. Len(q) /\ Append(q, b)[i] = q[i]
             \/ i = Len(q) + 1 /\ Append(q, b)[i] = b
  <2>1. Len(q) \in Nat /\ Len(Append(q, b)) = Len(q) + 1
    BY QueueFacts
  <2> QED
    BY <2>1
<1>3. \A i \in 1 .. Len(q) : q[i] \in Nat \ {0}
  OBVIOUS
<1> QED
  BY <1>1, <1>2, <1>3

\* Every step keeps the order.
LEMMA OrderedStep == ASSUME TypeOK, Ordered, [Next]_vars PROVE Ordered'
<1> USE DEF Feeder, Pusher, Clear, Stopper
<1>1. buffer \in Seq(Nat \ {0}) /\ Len(buffer) \in Nat /\ nextBuf \in Nat \ {0}
      /\ item \in Nat /\ pushed \in Nat
  BY QueueFacts DEF TypeOK
<1>2. \A i \in 1 .. Len(buffer) : buffer[i] \in Nat \ {0}
  BY <1>1, PlaceFacts
<1>3. ASSUME buffer # <<>>, buffer' = Tail(buffer), UNCHANGED <<nextBuf, pushed>>
      PROVE  /\ \A i, j \in 1 .. Len(buffer') : i < j => buffer'[i] < buffer'[j]
             /\ \A i \in 1 .. Len(buffer') : /\ pushed < buffer'[i] /\ buffer'[i] < nextBuf
                                              /\ item < buffer'[i] /\ Head(buffer) < buffer'[i]
             /\ pushed < Head(buffer) /\ Head(buffer) < nextBuf /\ Head(buffer) \in Nat \ {0}
  <2>1. /\ Head(buffer) = buffer[1] /\ 1 \in 1 .. Len(buffer) /\ Len(buffer') \in Nat
        /\ \A i \in 1 .. Len(buffer') : i + 1 \in 1 .. Len(buffer) /\ buffer'[i] = buffer[i + 1]
    BY <1>1, <1>3, PlaceFacts, QueueFacts
  <2>2. \A i, j \in 1 .. Len(buffer') : i < j => buffer'[i] < buffer'[j]
    <3>1. SUFFICES ASSUME NEW i \in 1 .. Len(buffer'), NEW j \in 1 .. Len(buffer'), i < j
                   PROVE  buffer'[i] < buffer'[j]
      OBVIOUS
    <3>2. i + 1 < j + 1 /\ i + 1 \in 1 .. Len(buffer) /\ j + 1 \in 1 .. Len(buffer)
      BY <2>1, <3>1
    <3> QED
      BY <2>1, <3>2 DEF Ordered
  <2>3. ASSUME NEW i \in 1 .. Len(buffer')
        PROVE  /\ pushed < buffer'[i] /\ buffer'[i] < nextBuf
               /\ item < buffer'[i] /\ Head(buffer) < buffer'[i]
    <3>1. 1 < i + 1 /\ i + 1 \in 1 .. Len(buffer) /\ buffer'[i] = buffer[i + 1]
      BY <2>1
    <3> QED
      BY <2>1, <3>1 DEF Ordered
  <2>4. pushed < Head(buffer) /\ Head(buffer) < nextBuf /\ Head(buffer) \in Nat \ {0}
    BY <1>2, <2>1 DEF Ordered
  <2> QED
    BY <2>2, <2>3, <2>4
<1>4. CASE UNCHANGED <<buffer, nextBuf, pushed, item>> /\ (ppc = "push" => ppc' = "push")
  BY <1>4 DEF Ordered
<1>5. CASE \E f \in Feeders : Add(f)
  <2>1. /\ buffer' = Append(buffer, nextBuf) /\ nextBuf' = nextBuf + 1
        /\ UNCHANGED <<ppc, pushed, item>>
    BY <1>5 DEF Add
  <2>2. \A i \in 1 .. Len(buffer') : \/ i \in 1 .. Len(buffer) /\ buffer'[i] = buffer[i]
                                     \/ i = Len(buffer) + 1 /\ buffer'[i] = nextBuf
    BY <1>1, <2>1, PlaceFacts
  <2>3. ASSUME NEW i \in 1 .. Len(buffer')
        PROVE  pushed < buffer'[i] /\ item < buffer'[i] /\ buffer'[i] < nextBuf + 1
    BY <1>1, <1>2, <2>2 DEF Ordered
  <2>4. ASSUME NEW i \in 1 .. Len(buffer'), NEW j \in 1 .. Len(buffer'), i < j
        PROVE  buffer'[i] < buffer'[j]
    <3>1. Len(buffer') = Len(buffer) + 1
      BY <1>1, <2>1, QueueFacts
    <3>2. i \in 1 .. Len(buffer) /\ buffer'[i] = buffer[i]
      BY <1>1, <2>2, <2>4, <3>1
    <3> QED
      BY <1>1, <2>2, <2>4, <3>2 DEF Ordered
  <2> QED
    BY <1>1, <2>1, <2>3, <2>4 DEF Ordered
<1>6. CASE RemovePop
  <2>1. ppc = "pop" /\ ppc' = "push" /\ UNCHANGED <<nextBuf, pushed>>
    BY <1>6 DEF RemovePop
  <2>2. CASE buffer = <<>>
    BY <1>1, <1>6, <2>1, <2>2 DEF RemovePop, Ordered
  <2>3. CASE buffer # <<>>
    <3>1. item' = Head(buffer) /\ buffer' = Tail(buffer)
      BY <1>6, <2>3 DEF RemovePop
    <3> QED
      BY <1>3, <2>1, <2>3, <3>1 DEF Ordered
  <2> QED
    BY <2>2, <2>3
<1>7. CASE Push
  <2>1. /\ pushed' = (IF item = 0 THEN pushed ELSE item) /\ item' = 0
        /\ UNCHANGED <<buffer, nextBuf>>
    BY <1>7 DEF Push
  <2> QED
    BY <1>1, <1>2, <2>1 DEF Ordered
<1>8. CASE ClearPop
  <2>1. buffer # <<>> /\ buffer' = Tail(buffer) /\ UNCHANGED <<nextBuf, pushed, item, ppc>>
    BY <1>8 DEF ClearPop
  <2> QED
    BY <1>3, <2>1 DEF Ordered
<1> QED
  BY <1>4, <1>5, <1>6, <1>7, <1>8
     DEF Next, Feed, Reserve, Connect, PushLoop, RemoveWait, EnterStop, Disconnect, StopEnds,
         Delete, Join, ClearLock, ClearTake, ClearGive, ClearUnlock, PreDelete

-------------------------------------------------------------------------------
(* Waits.                                                                  *)

\* Every step keeps the pusher awake.
LEMMA AwakeStep == ASSUME TypeOK, Awake, [Next]_vars PROVE Awake'
<1> USE DEF Feeder, Pusher, Clear, Stopper, Awake, Destroying
<1>1. full \in Nat
  BY DEF TypeOK
<1>2. CASE \E f \in Feeders : Feed(f) \/ Reserve(f) \/ Add(f)
  BY <1>1, <1>2 DEF Feed, Reserve, Add
<1>3. CASE Connect \/ PushLoop \/ RemoveWait \/ RemovePop \/ Push
  BY <1>3 DEF Connect, PushLoop, RemoveWait, RemovePop, Push
<1>4. CASE EnterStop \/ Disconnect \/ StopEnds \/ Delete
  BY <1>4 DEF EnterStop, Disconnect, StopEnds, Delete
<1>5. CASE ClearLock \/ ClearPop \/ ClearTake \/ ClearGive \/ ClearUnlock
  BY <1>5 DEF ClearLock, ClearPop, ClearTake, ClearGive, ClearUnlock
<1>6. CASE PreDelete \/ Join
  BY <1>1, <1>6 DEF PreDelete, Join
<1>7. CASE UNCHANGED vars
  BY <1>7
<1> QED
  BY <1>2, <1>3, <1>4, <1>5, <1>6, <1>7 DEF Next

\* Whom nothing keeps from his next step: the waits are those for the two semaphores, for
\* m_mutex, and for a thread that is joined.
PusherMoves == /\ ppc # "done"
               /\ ppc = "remove" => full > 0
               /\ ppc = "pop" \/ (ppc = "top" /\ running) => ~Clearing
FeederMoves(f) == /\ fpc[f] # "idle" /\ spc # "gone"
                  /\ fpc[f] = "add" => empty > 0
                  /\ fpc[f] = "full" => ~Clearing
StopperMoves == /\ spc \notin {"idle", "gone"}
                /\ spc = "disconnect" /\ "ws" \in Feeders /\ connected => fpc["ws"] = "idle"
                /\ spc \in {"take", "take2"} => full > 0
                /\ spc = "join" => ppc = "done"

\* A Stop, a Close or a push_data has begun, and the player is there.
CallUnderWay == \/ spc \notin {"idle", "gone"}
                \/ spc = "idle" /\ \E f \in Feeders : fpc[f] # "idle"

\* clear() waits in m_mutex for a token that the pusher, who waits for m_mutex, has taken.
ClearWaitsForItself == /\ spc \in {"take", "take2"} /\ full = 0 /\ buffer = <<>>
                       /\ ppc = "pop"

SomeoneGoesOn == CallUnderWay => \/ StopperMoves \/ PusherMoves
                                 \/ \E f \in Feeders : FeederMoves(f)
                                 \/ ClearWaitsForItself

\* While the pusher sleeps for want of buffers, there is a slot, or a feeder has one.
LEMMA SleepersLeaveRoom ==
  ASSUME Inv, ~Clearing, ppc = "remove", full = 0
  PROVE  empty > 0 \/ \E f \in Feeders : fpc[f] = "full"
<1>1. Len(buffer) = 0 /\ empty \in Nat /\ Owed = 0
  BY QueueFacts DEF Inv, Tokens, TypeOK, Clearing, Owed
<1>2. empty + Reserved = Size
  BY <1>1, ReservedFinite DEF Inv, SlotsAccounted
<1>3. CASE {f \in Feeders : fpc[f] = "full"} = {}
  BY <1>1, <1>2, <1>3, FS_EmptySet DEF Reserved
<1> QED
  BY <1>3

LEMMA NoOtherCircle ==
  ASSUME Inv
  PROVE  SomeoneGoesOn
<1> SUFFICES ASSUME CallUnderWay, ~StopperMoves, ~PusherMoves, ~ClearWaitsForItself
             PROVE  \E f \in Feeders : FeederMoves(f)
  BY DEF SomeoneGoesOn
<1>0. TypeOK /\ Tokens /\ Awake /\ Len(buffer) \in Nat /\ (buffer = <<>> <=> Len(buffer) = 0)
  BY QueueFacts DEF Inv, TypeOK
<1>1. ~Clearing
  <2> SUFFICES ASSUME Clearing PROVE FALSE
    OBVIOUS
  <2>1. spc \in {"take", "take2"} /\ full = 0
    BY <1>0 DEF Clearing, StopperMoves, TypeOK
  <2> QED
    BY <1>0, <2>1 DEF Tokens, ClearWaitsForItself, TypeOK
<1>2. ppc = "remove" /\ full = 0
  <2>1. ppc = "done" \/ (ppc = "remove" /\ full = 0)
    BY <1>0, <1>1 DEF PusherMoves, TypeOK, PusherPcs
  <2>2. ppc # "done"
    BY <1>0, <1>1 DEF Awake, Destroying, Clearing, CallUnderWay, StopperMoves
  <2> QED
    BY <2>1, <2>2
<1>3. spc # "join" /\ spc # "gone"
  BY <1>0, <1>2 DEF Awake, CallUnderWay
<1>4. \E f \in Feeders : fpc[f] # "idle"
  BY <1>1, <1>3 DEF CallUnderWay, StopperMoves, Clearing
<1>5. CASE \E f \in Feeders : fpc[f] = "full"
  BY <1>1, <1>3, <1>5 DEF FeederMoves
<1>6. CASE empty > 0
  BY <1>1, <1>3, <1>4, <1>6 DEF FeederMoves
<1> QED
  BY <1>1, <1>2, <1>5, <1>6, SleepersLeaveRoom

-------------------------------------------------------------------------------
(* The theorems.                                                           *)

\* The invariant holds at first.
LEMMA InvInit == Init => Inv
<1> SUFFICES ASSUME Init PROVE Inv
  OBVIOUS
<1>1. TypeOK
  <2>1. Counters
    BY DEF Init, Counters
  <2>2. Threads
    BY DEF Init, Threads, FeederPcs, PusherPcs, StopperPcs
  <2>3. Numbers
    BY DEF Init, Numbers
  <2> QED
    BY <2>1, <2>2, <2>3 DEF TypeOK, Counters, Threads, Numbers
<1>2. Tokens
  BY DEF Init, Tokens
<1>3. Reserved = 0
  <2>1. {f \in Feeders : fpc[f] = "full"} = {}
    BY DEF Init
  <2> QED
    BY <2>1, FS_EmptySet DEF Reserved
<1>4. SlotsAccounted
  BY <1>3 DEF Init, SlotsAccounted, Owed
<1>5. Ordered /\ Awake
  BY DEF Init, Ordered, Awake, Destroying
<1> QED
  BY <1>1, <1>2, <1>4, <1>5 DEF Inv

\* The invariant holds throughout.
THEOREM InvHolds == Spec => []Inv
<1>1. Inv /\ [Next]_vars => Inv'
  BY TypeStep, SlotsStep, TokensStep, OrderedStep, AwakeStep DEF Inv
<1> QED
  BY <1>1, InvInit, PTL DEF Spec

\* The semaphores stay what they are: the waits of add, remove and clear keep
\* every counter of the queue natural, and every variable keeps its type.
THEOREM QueueTypeCorrect == Spec => []TypeOK
<1>1. Inv => TypeOK
  BY DEF Inv
<1> QED
  BY <1>1, InvHolds, PTL

\* For any size of the queue no slot leaks, whatever clear() interleaves with.
THEOREM NoSlotLeaks == Spec => []SlotsAccounted
<1>1. Inv => SlotsAccounted
  BY DEF Inv
<1> QED
  BY <1>1, InvHolds, PTL

\* For any size the pushing thread never sleeps while buffers wait, although
\* clear() takes tokens it does not own and preDelete adds one nobody pays for.
THEOREM NoBufferStranded == Spec => []NoneStranded
<1>1. Inv => NoneStranded
  BY QueueFacts DEF Inv, Tokens, NoneStranded, Clearing, TypeOK
<1> QED
  BY <1>1, InvHolds, PTL

\* For any size and any feeders, no Stop, Close or push_data waits for a thread that waits
\* for it, with one exception: clear(), which takes a token inside m_mutex, and the pusher,
\* which took that token and wants m_mutex.
THEOREM OnlyClearBlocks == Spec => []SomeoneGoesOn
  BY NoOtherCircle, InvHolds, PTL

\* The join of the destructor waits for a pusher that has ended or can go on: the token
\* of preDelete is still there for it, whoever took others.
THEOREM TheJoinedIsAwake == Spec => [](spc = "join" => ppc = "done" \/ PusherMoves)
<1>1. ASSUME Inv, spc = "join" PROVE ppc = "done" \/ PusherMoves
  BY <1>1 DEF Inv, Awake, PusherMoves, Clearing
<1> QED
  BY <1>1, InvHolds, PTL

\* For any size, and whatever Stop and Close clear in between, the appsrc gets no buffer
\* twice and none before one that was added earlier.
THEOREM PushedInOrder == Spec => InOrder
<1>1. Inv /\ [Next]_vars => [pushed' # pushed => pushed' > pushed]_vars
  <2> SUFFICES ASSUME Inv, [Next]_vars, pushed' # pushed PROVE pushed' > pushed
    OBVIOUS
  <2>1. Push
    BY DEF Next, Feeder, Pusher, Clear, Stopper, Feed, Reserve, Add, Connect, PushLoop, RemoveWait,
       RemovePop, EnterStop, Disconnect, StopEnds, Delete, Join, ClearLock, ClearPop, ClearTake,
       ClearGive, ClearUnlock, PreDelete
  <2> QED
    BY <2>1 DEF Push, Inv, TypeOK, Ordered
<1> QED
  BY <1>1, InvHolds, PTL DEF Spec, InOrder
===============================================================================

-------------------------- MODULE NotificationsProofs --------------------------
(***************************************************************************)
(* What Notifications promises its clients, for any number of sinks,       *)
(* callsigns, workers and events, and for each of the three plugins.       *)
(*                                                                         *)
(*   - Shape: the types, but for the sign of the reference counts;         *)
(*   - Lists: no sink is listed twice, and who calls has a job;            *)
(*   - Locked: of TTS and SAP, a worker that has sinks to call holds       *)
(*     _adminLock, and they are all still registered;                      *)
(*   - Balanced, ImplBalanced: each count is what is held;                 *)
(*   - Unborn: before the process starts nobody holds anything in it.      *)
(* Each is kept with the help of the others: that the last job frees the   *)
(* implementation while nothing else is held needs its count, that no sink *)
(* is released twice needs that no sink is listed twice.                   *)
(***************************************************************************)
EXTENDS Notifications, FiniteSetTheorems, TLAPS

USE NotificationsAssumption

NoDup(q) == \A i, j \in 1 .. Len(q) : q[i] = q[j] => i = j

\* std::find and erase, on a list without duplicates
LEMMA EraseFacts ==
  ASSUME NEW S, NEW q \in Seq(S), NoDup(q), NEW s
  PROVE  /\ Erased(q, s) \in Seq(S) /\ NoDup(Erased(q, s))
         /\ Range(Erased(q, s)) = Range(q) \ {s}
<1>1. CASE s \notin Range(q)
  BY <1>1 DEF Erased
<1>2. CASE s \in Range(q)
  <2>0. DOMAIN q = 1 .. Len(q) /\ Len(q) \in Nat
    OBVIOUS
  <2> DEFINE i == CHOOSE j \in DOMAIN q : q[j] = s
             r == [j \in 1 .. Len(q) - 1 |-> q[IF j < i THEN j ELSE j + 1]]
  <2>1. i \in 1 .. Len(q) /\ q[i] = s
    BY <1>2, <2>0 DEF Range
  <2> HIDE DEF i
  <2>2. /\ r \in Seq(S) /\ Len(r) = Len(q) - 1
        /\ \A j \in 1 .. Len(q) - 1 : r[j] = IF j < i THEN q[j] ELSE q[j + 1]
    BY <2>0, <2>1
  <2> HIDE DEF r
  <2>3. NoDup(r)
    BY <2>1, <2>2 DEF NoDup
  <2>4. DOMAIN r = 1 .. Len(q) - 1 /\ DOMAIN q = 1 .. Len(q) /\ Len(q) \in Nat
    BY <2>2
  <2>5. Range(r) \subseteq Range(q) \ {s}
    BY <2>1, <2>2, <2>4 DEF Range, NoDup
  <2>6. ASSUME NEW x \in Range(q) \ {s} PROVE x \in Range(r)
    <3>1. PICK j \in 1 .. Len(q) : q[j] = x /\ j # i
      BY <2>1, <2>4 DEF Range
    <3>2. CASE j < i
      <4>1. j \in 1 .. Len(q) - 1 /\ r[j] = q[j]
        BY <2>1, <2>2, <2>4, <3>1, <3>2
      <4> QED
        BY <2>4, <3>1, <4>1 DEF Range
    <3>3. CASE j > i
      <4>1. j - 1 \in 1 .. Len(q) - 1 /\ r[j - 1] = q[j]
        BY <2>1, <2>2, <2>4, <3>1, <3>3
      <4> QED
        BY <2>4, <3>1, <4>1 DEF Range
    <3> QED
      BY <2>1, <2>4, <3>1, <3>2, <3>3
  <2>7. Erased(q, s) = r
    BY <1>2 DEF Erased, r, i
  <2> QED
    BY <2>2, <2>3, <2>5, <2>6, <2>7
<1> QED
  BY <1>1, <1>2

-------------------------------------------------------------------------------
(* Types.                                                                  *)

\* NotifTypeOK, but for the sign of the reference counts
Shape ==
    /\ plugin \in Plugins /\ adminLock \in Workers \cup {Nobody, "caller"}
    /\ clients \in Seq(Sinks) /\ callsigns \in [Callsigns -> Clients \cup {NoSink}]
    /\ refs \in [Sinks -> Int] /\ own \in [Sinks -> BOOLEAN] /\ displaced \in [Sinks -> Nat]
    /\ pool \in Seq(Jobs) /\ work \in [Workers -> Jobs \cup {NoJob}]
    /\ todo \in [Workers -> Seq(Sinks)] /\ calling \in [Workers -> Sinks \cup {NoSink}]
    /\ waits \in SUBSET Clients /\ linked \in SUBSET Clients /\ implRefs \in Int
    /\ shell \in {"off", "rooted", "on", "leaving", "left"}
    /\ process \in {"none", "runs", "destroyed", "dead"}
    /\ events \in 0 .. MaxEvents[plugin] /\ named \in 0 .. MaxNamed
    /\ got \in [Sinks -> SUBSET Events]

\* The list has no sink twice, and the shell's only while the shell is on; a worker that
\* has sinks to call has a job, and calls the first of them.
Lists ==
    /\ NoDup(clients)
    /\ Listed(Shell) => shell = "on" /\ Runs
    /\ \A w \in Workers : /\ todo[w] # <<>> => Busy(w)
                          /\ calling[w] # NoSink => todo[w] # <<>> /\ calling[w] = Head(todo[w])
    /\ plugin = "UCAS" =>
           /\ Runs /\ shell = "on" /\ pool = <<>>
           /\ \A w \in Workers : work[w].callsign = NoCallsign /\ NoDup(todo[w])

\* _adminLock is held by the worker that calls the sinks of TTS or SAP; they are registered
\* until it lets it go.
Locked == plugin # "UCAS" => \A w \in Workers : todo[w] # <<>> =>
    adminLock = w /\ \A s \in Range(todo[w]) : Registered(s)

\* What Unregistered leaves behind
LEMMA UnregisteredFacts ==
  ASSUME Shape, NoDup(clients), NEW s \in Sinks, NEW names \in Found(s), Unregistered(s, names)
  PROVE  /\ clients' \in Seq(Sinks) /\ NoDup(clients') /\ Range(clients') = Range(clients) \ {s}
         /\ callsigns' = [k \in Callsigns |-> IF k \in names THEN NoSink ELSE callsigns[k]]
         /\ names \subseteq Named(s) /\ IsFiniteSet(names) /\ Cardinality(names) \in Nat
         /\ refs' = [refs EXCEPT ![s] = @ - (Cardinality(names) + IF Listed(s) THEN 1 ELSE 0)]
<1>1. names \subseteq Named(s) /\ names \subseteq Callsigns
  BY DEF Found, Named
<1>2. IsFiniteSet(names) /\ Cardinality(names) \in Nat
  BY <1>1, FS_Subset, FS_CardinalityType
<1> QED
  BY <1>1, <1>2, EraseFacts DEF Unregistered, Drop, Shape

\* Each step of a client keeps the shape,
LEMMA ClientShape ==
  ASSUME Shape, NoDup(clients), NEW s \in Clients, ClientStep(s)
  PROVE  Shape'
<1>0. s \in Sinks
  BY DEF Sinks
<1> USE <1>0 DEF Shape
<1>1. CASE Link(s) \/ Unlink(s)
  BY <1>1 DEF Link, Unlink, sinkVars, jobVars
<1>2. CASE Register(s)
  <2>1. clients' \in Seq(Sinks)
    <3>1. clients' = clients \/ clients' = Append(clients, s)
      BY <1>2 DEF Register
    <3>2. Append(clients, s) \in Seq(Sinks)
      OBVIOUS
    <3> QED
      BY <3>1, <3>2
  <2>2. refs' \in [Sinks -> Int]
    <3>1. refs' = refs \/ refs' = [refs EXCEPT ![s] = @ + 1]
      BY <1>2 DEF Register, Take
    <3> QED
      BY <3>1
  <2> QED
    BY <1>2, <2>1, <2>2 DEF Register, jobVars, implVars
<1>3. ASSUME NEW names \in Found(s), Unregistered(s, names)
      PROVE  /\ clients' \in Seq(Sinks) /\ callsigns' \in [Callsigns -> Clients \cup {NoSink}]
             /\ refs' \in [Sinks -> Int]
  <2>1. /\ clients' \in Seq(Sinks) /\ Cardinality(names) \in Nat
        /\ callsigns' = [k \in Callsigns |-> IF k \in names THEN NoSink ELSE callsigns[k]]
        /\ refs' = [refs EXCEPT ![s] = @ - (Cardinality(names) + IF Listed(s) THEN 1 ELSE 0)]
    BY <1>3, UnregisteredFacts
  <2> QED
    BY <2>1
<1>4. CASE Unregister(s)
  BY <1>3, <1>4 DEF Unregister, jobVars, implVars
<1>5. CASE CallbackUnregisters(s)
  BY <1>5 DEF CallbackUnregisters, sinkVars, implVars
<1>6. CASE CallbackUnregistered(s)
  BY <1>3, <1>6 DEF CallbackUnregistered, implVars
<1>7. CASE Forget(s)
  BY <1>7 DEF Forget, Drop, jobVars, implVars
<1>8. ASSUME NEW k \in Callsigns, RegisterWithCallsign(k, s) PROVE Shape'
  BY <1>8 DEF RegisterWithCallsign, Take, jobVars, implVars
<1> QED
  BY <1>1, <1>2, <1>4, <1>5, <1>6, <1>7, <1>8 DEF ClientStep

\* and so does each of an event,
LEMMA EventShape ==
  ASSUME Shape, Lists, NEW w \in Workers, WorkerStep(w) \/ event_data(w)
  PROVE  Shape'
<1> USE DEF Shape
<1>0. Jobs \subseteq [event : Events, callsign : Callsigns \cup {NoCallsign}]
  BY DEF Jobs
<1>1. ASSUME JobEnds(w)
      PROVE  /\ work' \in [Workers -> Jobs \cup {NoJob}] /\ implRefs' \in Int
             /\ process' \in {"none", "runs", "destroyed", "dead"} /\ UNCHANGED <<linked, shell>>
  BY <1>1 DEF JobEnds, implVars
<1>2. CASE TakeJob(w)
  <2>1. Head(pool) \in Jobs /\ Tail(pool) \in Seq(Jobs)
    BY <1>2 DEF TakeJob
  <2> QED
    BY <1>2, <2>1 DEF TakeJob, sinkVars, implVars
<1>3. CASE event_data(w)
  <2>1. events' \in 0 .. MaxEvents[plugin] /\ events + 1 \in Events
    BY <1>3 DEF event_data, Events
  <2>2. [event |-> events + 1, callsign |-> NoCallsign] \in Jobs
    BY <2>1 DEF Jobs
  <2>3. work' \in [Workers -> Jobs \cup {NoJob}]
    BY <1>3, <2>2 DEF event_data
  <2> QED
    BY <1>3, <2>1, <2>3 DEF event_data, sinkVars, implVars
<1>4. CASE Dispatch(w)
  <2>1. Recipients(w) \in Seq(Sinks)
    <3>1. work[w].callsign # NoCallsign => work[w].callsign \in Callsigns
      BY DEF Jobs, NoJob
    <3>2. CASE work[w].callsign # NoCallsign /\ callsigns[work[w].callsign] # NoSink
      <4>1. callsigns[work[w].callsign] \in Sinks
        BY <3>1, <3>2 DEF Sinks
      <4>2. Recipients(w) = clients \o <<callsigns[work[w].callsign]>>
        BY <3>2 DEF Recipients
      <4> QED
        BY <4>1, <4>2
    <3>3. CASE ~(work[w].callsign # NoCallsign /\ callsigns[work[w].callsign] # NoSink)
      BY <3>3 DEF Recipients
    <3> QED
      BY <3>2, <3>3
  <2>2. CASE Recipients(w) = <<>>
    BY <1>1, <1>4, <2>2 DEF Dispatch
  <2>3. CASE Recipients(w) # <<>>
    <3>1. todo' \in [Workers -> Seq(Sinks)]
      <4>1. todo' = [todo EXCEPT ![w] = Recipients(w)]
        BY <1>4, <2>3 DEF Dispatch
      <4> QED
        BY <2>1, <4>1
    <3>2. adminLock' \in Workers \cup {Nobody, "caller"}
      BY <1>4, <2>3 DEF Dispatch
    <3>3. refs' \in [Sinks -> Int]
      <4>1. refs' = refs \/ refs' = [s \in Sinks |-> refs[s] + IF Listed(s) THEN 1 ELSE 0]
        BY <1>4, <2>3 DEF Dispatch
      <4>2. \A s \in Sinks : refs[s] + (IF Listed(s) THEN 1 ELSE 0) \in Int
        OBVIOUS
      <4>3. [s \in Sinks |-> refs[s] + IF Listed(s) THEN 1 ELSE 0] \in [Sinks -> Int]
        BY <4>2, Zenon
      <4> QED
        BY <4>1, <4>3
    <3> QED
      BY <1>4, <2>3, <3>1, <3>2, <3>3 DEF Dispatch, implVars
  <2> QED
    BY <2>2, <2>3
<1>5. CASE Call(w)
  <2>1. Head(todo[w]) \in Sinks
    BY <1>5 DEF Call
  <2>2. work[w].event \in Events
    BY <1>5 DEF Call, Lists, Busy, Jobs
  <2>3. calling' \in [Workers -> Sinks \cup {NoSink}] /\ got' \in [Sinks -> SUBSET Events]
    BY <1>5, <2>1, <2>2 DEF Call
  <2> QED
    BY <1>5, <2>3 DEF Call, sinkVars, implVars
<1>6. CASE Called(w)
  <2>1. todo[w] # <<>> /\ calling[w] \in Sinks
    BY <1>6 DEF Called, Lists
  <2>2. todo' \in [Workers -> Seq(Sinks)]
    <3>1. Tail(todo[w]) \in Seq(Sinks) /\ todo' = [todo EXCEPT ![w] = Tail(todo[w])]
      BY <1>6, <2>1 DEF Called
    <3> QED
      BY <3>1
  <2>4. refs' \in [Sinks -> Int]
    <3>1. refs' = refs \/ refs' = [refs EXCEPT ![calling[w]] = @ - 1]
      BY <1>6 DEF Called, Drop
    <3> QED
      BY <2>1, <3>1
  <2>5. calling' \in [Workers -> Sinks \cup {NoSink}]
    BY <1>6 DEF Called
  <2>3. /\ work' \in [Workers -> Jobs \cup {NoJob}] /\ implRefs' \in Int
        /\ process' \in {"none", "runs", "destroyed", "dead"} /\ UNCHANGED <<linked, shell>>
        /\ adminLock' \in Workers \cup {Nobody, "caller"}
    BY <1>1, <1>6 DEF Called, implVars
  <2> QED
    BY <1>6, <2>2, <2>3, <2>4, <2>5 DEF Called
<1> QED
  BY <1>2, <1>3, <1>4, <1>5, <1>6 DEF WorkerStep

\* and each of the shell and of those who submit events.
LEMMA ShellShape ==
  ASSUME Shape, NoDup(clients),
         \/ Manage \/ Managed \/ (\E k \in Callsigns \cup {NoCallsign} : dispatchEvent(k))
         \/ Initialize \/ ConfigureFails \/ InitializeRegisters \/ Deinitialize
  PROVE  Shape'
<1> USE DEF Shape
<1>0. Shell \in Sinks
  BY DEF Sinks
<1>1. CASE Manage \/ Managed
  BY <1>1 DEF Manage, Managed, sinkVars, jobVars, implVars
<1>2. ASSUME NEW k \in Callsigns \cup {NoCallsign}, dispatchEvent(k) PROVE Shape'
  <2>0. MaxEvents[plugin] \in Nat
    OBVIOUS
  <2>1. events' \in 0 .. MaxEvents[plugin] /\ events + 1 \in Events
    BY <1>2, <2>0 DEF dispatchEvent, Events
  <2>2. [event |-> events + 1, callsign |-> k] \in Jobs
    BY <2>1 DEF Jobs
  <2>3. pool' \in Seq(Jobs)
    BY <1>2, <2>2 DEF dispatchEvent
  <2> QED
    BY <1>2, <2>1, <2>3 DEF dispatchEvent, sinkVars
<1>3. CASE Initialize \/ ConfigureFails
  BY <1>3 DEF Initialize, ConfigureFails, sinkVars, jobVars
<1>4. CASE InitializeRegisters
  <2>1. clients' \in Seq(Sinks)
    <3>1. Append(clients, Shell) \in Seq(Sinks)
      BY <1>0
    <3> QED
      BY <1>4, <3>1 DEF InitializeRegisters
  <2>2. refs' \in [Sinks -> Int]
    <3>1. refs' = refs \/ refs' = [refs EXCEPT ![Shell] = @ + 1]
      BY <1>4 DEF InitializeRegisters, Take
    <3> QED
      BY <1>0, <3>1
  <2> QED
    BY <1>4, <2>1, <2>2 DEF InitializeRegisters, jobVars
<1>5. CASE Deinitialize
  <2>1. CASE UNCHANGED <<clients, callsigns, refs>>
    BY <1>5, <2>1 DEF Deinitialize, jobVars
  <2>2. CASE Unregistered(Shell, {})
    <3>1. Named(Shell) = {}
      BY DEF Named, Sinks
    <3>2. {} \in Found(Shell)
      BY <3>1 DEF Found
    <3>3. /\ clients' \in Seq(Sinks) /\ Cardinality({}) \in Nat
          /\ callsigns' = [k \in Callsigns |-> IF k \in {} THEN NoSink ELSE callsigns[k]]
          /\ refs' = [refs EXCEPT ![Shell] = @ - (Cardinality({}) + IF Listed(Shell) THEN 1 ELSE 0)]
      BY <1>0, <2>2, <3>2, UnregisteredFacts
    <3>4. callsigns' \in [Callsigns -> Clients \cup {NoSink}]
      BY <1>0, <3>3
    <3>5. refs' \in [Sinks -> Int]
      <4>1. Cardinality({}) + (IF Listed(Shell) THEN 1 ELSE 0) \in Int
        BY <3>3
      <4>2. PICK n \in Int : refs' = [refs EXCEPT ![Shell] = @ - n]
        BY <3>3, <4>1
      <4> QED
        BY <1>0, <4>2
    <3> QED
      BY <1>5, <3>3, <3>4, <3>5 DEF Deinitialize, jobVars
  <2> QED
    BY <1>5, <2>1, <2>2 DEF Deinitialize
<1> QED
  BY <1>1, <1>2, <1>3, <1>4, <1>5

\* The process is gone.
LEMMA GoneShape ==
  ASSUME Shape, Gone, shell' \in {"off", "rooted", "on", "leaving", "left"},
         process' \in {"none", "runs", "destroyed", "dead"}
  PROVE  Shape'
<1>1. /\ clients' \in Seq(Sinks) /\ callsigns' \in [Callsigns -> Clients \cup {NoSink}]
      /\ refs' \in [Sinks -> Int] /\ displaced' \in [Sinks -> Nat]
  BY DEF Gone, Shape
<1>2. /\ pool' \in Seq(Jobs) /\ work' \in [Workers -> Jobs \cup {NoJob}]
      /\ todo' \in [Workers -> Seq(Sinks)] /\ calling' \in [Workers -> Sinks \cup {NoSink}]
  BY DEF Gone
<1> QED
  BY <1>1, <1>2 DEF Gone, Shape

LEMMA ShapeStep ==
  ASSUME Shape, Lists, Next
  PROVE  Shape'
<1>0. NoDup(clients)
  BY DEF Lists
<1>1. CASE Release \/ ProcessDies
  <2>1. CASE Gone
    BY <1>1, <2>1, GoneShape DEF Release, ProcessDies, Shape
  <2>2. CASE UNCHANGED <<plugin, adminLock, sinkVars, jobVars, linked, implRefs, process>>
    BY <1>1, <2>2 DEF Release, ProcessDies, sinkVars, jobVars, Shape, Gone
  <2> QED
    BY <1>1, <2>1, <2>2 DEF Release, ProcessDies
<1> QED
  BY <1>0, <1>1, ClientShape, EventShape, ShellShape DEF Next

-------------------------------------------------------------------------------
(* The list and the lock.                                                  *)

LEMMA NoDupAppend ==
  ASSUME NEW S, NEW q \in Seq(S), NEW x \in S, x \notin Range(q), NoDup(q)
  PROVE  NoDup(Append(q, x)) /\ Range(Append(q, x)) = Range(q) \cup {x}
<1>1. /\ Len(Append(q, x)) = Len(q) + 1 /\ Len(q) \in Nat
      /\ \A i \in 1 .. Len(q) : Append(q, x)[i] = q[i] /\ q[i] # x
      /\ Append(q, x)[Len(q) + 1] = x
      /\ DOMAIN q = 1 .. Len(q) /\ DOMAIN Append(q, x) = 1 .. Len(q) + 1
  BY DEF Range
<1>2. NoDup(Append(q, x))
  BY <1>1 DEF NoDup
<1>3. Range(Append(q, x)) = Range(q) \cup {x}
  BY <1>1 DEF Range
<1> QED
  BY <1>2, <1>3

LEMMA NoDupTail ==
  ASSUME NEW S, NEW q \in Seq(S), q # <<>>, NoDup(q)
  PROVE  /\ NoDup(Tail(q)) /\ Range(Tail(q)) = Range(q) \ {Head(q)} /\ Head(q) \in Range(q)
<1>1. /\ Len(Tail(q)) = Len(q) - 1 /\ Len(q) \in Nat /\ Len(q) > 0
      /\ \A i \in 1 .. Len(q) - 1 : Tail(q)[i] = q[i + 1]
      /\ DOMAIN q = 1 .. Len(q) /\ DOMAIN Tail(q) = 1 .. Len(q) - 1 /\ Head(q) = q[1]
  OBVIOUS
<1>2. NoDup(Tail(q))
  BY <1>1 DEF NoDup
<1>3. Head(q) \in Range(q)
  BY <1>1 DEF Range
<1>4. Range(Tail(q)) \subseteq Range(q) \ {Head(q)}
  BY <1>1 DEF Range, NoDup
<1>5. ASSUME NEW x \in Range(q) \ {Head(q)} PROVE x \in Range(Tail(q))
  <2>1. PICK i \in 1 .. Len(q) : q[i] = x /\ i # 1
    BY <1>1 DEF Range
  <2>2. i - 1 \in 1 .. Len(q) - 1 /\ Tail(q)[i - 1] = x
    BY <1>1, <2>1
  <2> QED
    BY <1>1, <2>2 DEF Range
<1> QED
  BY <1>2, <1>3, <1>4, <1>5

\* Whatever Tail leaves was there, with or without duplicates.
LEMMA TailRange ==
  ASSUME NEW S, NEW q \in Seq(S), q # <<>>
  PROVE  Range(Tail(q)) \subseteq Range(q)
  BY DEF Range

\* Who holds a sink by event_data, who runs a job, and whether the shell holds the
\* implementation
Holders(s) == {w \in Workers : Holds(w, s) = 1}
Running == {w \in Workers : Busy(w)}
ShellHolds == IF Runs /\ shell \in {"rooted", "on", "leaving"} THEN 1 ELSE 0

ImplBalanced == implRefs = ShellHolds + Cardinality(linked)
                           + IF plugin = "UCAS" THEN 0 ELSE Len(pool) + Cardinality(Running)
SinkBalanced(s) == refs[s] =
    (IF own[s] THEN 1 ELSE 0) + (IF Listed(s) THEN 1 ELSE 0) + Cardinality(Named(s))
    + displaced[s] + Cardinality(Holders(s))

LEMMA Finite ==
  ASSUME Shape
  PROVE  /\ IsFiniteSet(linked) /\ IsFiniteSet(Running) /\ Cardinality(linked) \in Nat
         /\ Cardinality(Running) \in Nat /\ ShellHolds \in Nat /\ Len(pool) \in Nat
         /\ \A s \in Sinks : /\ IsFiniteSet(Named(s)) /\ IsFiniteSet(Holders(s))
                             /\ Cardinality(Named(s)) \in Nat /\ Cardinality(Holders(s)) \in Nat
<1>1. linked \subseteq Sinks /\ Running \subseteq Workers
  BY DEF Shape, Running, Sinks
<1>2. \A s \in Sinks : Named(s) \subseteq Callsigns /\ Holders(s) \subseteq Workers
  BY DEF Named, Holders
<1>3. Len(pool) \in Nat /\ ShellHolds \in Nat
  BY DEF Shape, ShellHolds
<1> QED
  BY <1>1, <1>2, <1>3, FS_Subset, FS_CardinalityType

\* The job that holds the last reference is the only one who holds any.
LEMMA LastJob ==
  ASSUME Shape, ImplBalanced, plugin # "UCAS", Runs, NEW w \in Workers, Busy(w), implRefs = 1
  PROVE  shell \notin {"rooted", "on", "leaving"} /\ linked = {} /\ pool = <<>>
<1>1. w \in Running
  BY DEF Running
<1>2. Cardinality(Running) # 0
  BY <1>1, Finite, FS_EmptySet
<1>3. ShellHolds = 0 /\ Cardinality(linked) = 0 /\ Len(pool) = 0
  BY <1>2, Finite DEF ImplBalanced
<1> QED
  BY <1>3, Finite, FS_EmptySet DEF ShellHolds, Shape

\* A job without a callsign is for the list.
LEMMA PlainRecipients ==
  ASSUME Shape, NEW w \in Workers, work[w].callsign = NoCallsign
  PROVE  Recipients(w) = clients
<1>1. Recipients(w) = clients \o <<>>
  BY DEF Recipients
<1> QED
  BY <1>1 DEF Shape

\* Whom a job calls is registered when it looks.
LEMMA RecipientsRegistered ==
  ASSUME Shape, NEW w \in Workers
  PROVE  \A s \in Range(Recipients(w)) : Registered(s)
<1>0. /\ clients \in Seq(Sinks) /\ callsigns \in [Callsigns -> Clients \cup {NoSink}]
      /\ work[w].callsign # NoCallsign => work[w].callsign \in Callsigns
  BY DEF Shape, Jobs, NoJob
<1>1. CASE work[w].callsign # NoCallsign /\ callsigns[work[w].callsign] # NoSink
  <2> DEFINE x == callsigns[work[w].callsign]
  <2>1. Recipients(w) = clients \o <<x>>
    BY <1>1 DEF Recipients
  <2>2. Named(x) # {}
    BY <1>0, <1>1 DEF Named
  <2>3. Range(Recipients(w)) \subseteq Range(clients) \cup {x}
    BY <1>0, <2>1 DEF Range
  <2> QED
    BY <2>2, <2>3 DEF Registered, Listed
<1>2. CASE ~(work[w].callsign # NoCallsign /\ callsigns[work[w].callsign] # NoSink)
  <2>1. Recipients(w) = clients \o <<>>
    BY <1>2 DEF Recipients
  <2>2. Recipients(w) = clients
    BY <1>0, <2>1
  <2> QED
    BY <2>2 DEF Registered, Listed
<1> QED
  BY <1>1, <1>2

\* Each step keeps Lists.
LEMMA ClientLists ==
  ASSUME Shape, Lists, NEW s \in Clients, ClientStep(s)
  PROVE  Lists'
<1>0. s \in Sinks /\ s # Shell
  BY DEF Sinks
<1> USE <1>0 DEF Lists, Busy, Runs
<1>1. ASSUME UNCHANGED <<plugin, shell, process, pool, work, todo, calling>>,
             NoDup(clients'), Range(clients') \subseteq Range(clients) \cup {s}
      PROVE  Lists'
  BY <1>1 DEF Listed
<1>2. CASE UNCHANGED <<plugin, shell, process, pool, work, todo, calling, clients>>
  BY <1>2 DEF Listed
<1>3. CASE Register(s)
  <2>1. CASE clients' = clients
    BY <1>2, <1>3, <2>1 DEF Register, jobVars, implVars
  <2>2. CASE clients' = Append(clients, s) /\ ~Listed(s)
    <3>1. NoDup(clients') /\ Range(clients') = Range(clients) \cup {s}
      BY <2>2, NoDupAppend DEF Listed, Shape
    <3> QED
      BY <1>1, <1>3, <3>1 DEF Register, jobVars, implVars
  <2> QED
    BY <1>3, <2>1, <2>2 DEF Register
<1>4. ASSUME NEW names \in Found(s), Unregistered(s, names)
      PROVE  NoDup(clients') /\ Range(clients') \subseteq Range(clients) \cup {s}
  BY <1>4, UnregisteredFacts
<1>5. CASE Unregister(s)
  BY <1>1, <1>4, <1>5 DEF Unregister, jobVars, implVars
<1>6. CASE CallbackUnregistered(s)
  BY <1>1, <1>4, <1>6 DEF CallbackUnregistered, implVars
<1> QED
  BY <1>2, <1>3, <1>5, <1>6 DEF ClientStep, Link, Unlink, CallbackUnregisters, Forget,
     RegisterWithCallsign, sinkVars, jobVars, implVars

LEMMA EventLists ==
  ASSUME Shape, Lists, ImplBalanced, NEW w \in Workers, WorkerStep(w) \/ event_data(w)
  PROVE  Lists'
<1>0. /\ work \in [Workers -> Jobs \cup {NoJob}] /\ todo \in [Workers -> Seq(Sinks)]
      /\ calling \in [Workers -> Sinks \cup {NoSink}] /\ pool \in Seq(Jobs)
      /\ clients \in Seq(Sinks) /\ NoJob.callsign = NoCallsign
  BY DEF Shape, NoJob
<1> USE <1>0 DEF Lists
\* The list and the shell are left alone, unless the process ends with its last job.
<1>1. ASSUME UNCHANGED <<plugin, clients, shell>>,
             process' = process \/ (plugin # "UCAS" /\ shell \notin {"rooted", "on", "leaving"})
      PROVE  /\ NoDup(clients') /\ (Listed(Shell)' => shell' = "on" /\ Runs')
             /\ (plugin' = "UCAS" => Runs' /\ shell' = "on")
  BY <1>1 DEF Listed, Runs
<1>2. ASSUME JobEnds(w), Busy(w), Runs
      PROVE  /\ work' = [work EXCEPT ![w] = NoJob] /\ shell' = shell
             /\ process' = process \/ (plugin # "UCAS" /\ shell \notin {"rooted", "on", "leaving"})
  BY <1>2, LastJob DEF JobEnds, implVars
<1>3. CASE TakeJob(w)
  <2>1. todo[w] = <<>> /\ calling[w] = NoSink /\ plugin # "UCAS"
    BY <1>3 DEF TakeJob
  <2>2. UNCHANGED <<plugin, clients, shell, process, todo, calling>>
        /\ work' = [work EXCEPT ![w] = Head(pool)]
    BY <1>3 DEF TakeJob, sinkVars, implVars
  <2> QED
    BY <1>1, <2>1, <2>2 DEF Busy
<1>4. CASE event_data(w)
  <2>1. todo[w] = <<>> /\ calling[w] = NoSink
    BY <1>4 DEF event_data
  <2>2. UNCHANGED <<plugin, clients, shell, process, todo, calling, pool>>
        /\ work' = [work EXCEPT ![w] = [event |-> events + 1, callsign |-> NoCallsign]]
    BY <1>4 DEF event_data, sinkVars, implVars
  <2> QED
    BY <1>1, <2>1, <2>2 DEF Busy
<1>5. CASE Dispatch(w)
  <2>0. UNCHANGED <<plugin, clients, pool, calling>> /\ Busy(w) /\ Runs /\ todo[w] = <<>>
        /\ calling[w] = NoSink
    BY <1>5 DEF Dispatch
  <2>1. CASE Recipients(w) = <<>>
    <3>1. JobEnds(w) /\ todo' = todo
      BY <1>5, <2>1 DEF Dispatch
    <3> QED
      BY <1>1, <1>2, <2>0, <3>1 DEF Busy
  <2>2. CASE Recipients(w) # <<>>
    <3>1. todo' = [todo EXCEPT ![w] = Recipients(w)] /\ UNCHANGED <<work, shell, process>>
      BY <1>5, <2>2 DEF Dispatch, implVars
    <3>2. plugin = "UCAS" => NoDup(Recipients(w))
      BY PlainRecipients
    <3> QED
      BY <1>1, <2>0, <3>1, <3>2 DEF Busy
  <2> QED
    BY <2>1, <2>2
<1>6. CASE Call(w)
  <2>1. UNCHANGED <<plugin, clients, shell, process, todo, work, pool>> /\ todo[w] # <<>>
        /\ calling' = [calling EXCEPT ![w] = Head(todo[w])]
    BY <1>6 DEF Call, sinkVars, implVars
  <2> QED
    BY <1>1, <2>1 DEF Busy
<1>7. CASE Called(w)
  <2>1. todo[w] # <<>> /\ Busy(w) /\ Runs
    BY <1>7 DEF Called
  <2>2. UNCHANGED <<plugin, clients, pool>> /\ calling' = [calling EXCEPT ![w] = NoSink]
        /\ todo' = [todo EXCEPT ![w] = Tail(todo[w])]
    BY <1>7 DEF Called
  <2>3. plugin = "UCAS" => NoDup(Tail(todo[w]))
    BY <2>1, NoDupTail
  <2>4. CASE Tail(todo[w]) = <<>>
    <3>1. JobEnds(w)
      BY <1>7, <2>4 DEF Called
    <3> QED
      BY <1>1, <1>2, <2>1, <2>2, <2>3, <2>4, <3>1 DEF Busy
  <2>5. CASE Tail(todo[w]) # <<>>
    <3>1. UNCHANGED <<work, shell, process>>
      BY <1>7, <2>5 DEF Called, implVars
    <3> QED
      BY <1>1, <2>1, <2>2, <2>3, <3>1 DEF Busy
  <2> QED
    BY <2>4, <2>5
<1> QED
  BY <1>3, <1>4, <1>5, <1>6, <1>7 DEF WorkerStep

LEMMA ShellLists ==
  ASSUME Shape, Lists, ImplBalanced,
         \/ Manage \/ Managed \/ (\E k \in Callsigns \cup {NoCallsign} : dispatchEvent(k))
         \/ Initialize \/ ConfigureFails \/ InitializeRegisters \/ Deinitialize
         \/ Release \/ ProcessDies
  PROVE  Lists'
<1>0. Shell \in Sinks /\ Shell \notin Clients
  BY DEF Sinks
<1> USE <1>0 DEF Lists, Busy, Runs
<1>1. CASE Manage \/ Managed \/ Initialize \/ ConfigureFails
  BY <1>1 DEF Manage, Managed, Initialize, ConfigureFails, sinkVars, jobVars, implVars, Listed
<1>2. CASE \E k \in Callsigns \cup {NoCallsign} : dispatchEvent(k)
  BY <1>2 DEF dispatchEvent, sinkVars, Listed
<1>3. CASE InitializeRegisters
  <2>1. UNCHANGED <<plugin, pool, work, todo, calling, process>> /\ shell' = "on" /\ shell = "rooted"
    BY <1>3 DEF InitializeRegisters, jobVars
  <2>2. CASE ~Runs
    BY <1>3, <2>1, <2>2 DEF InitializeRegisters, Listed
  <2>3. CASE Runs
    <3>1. NoDup(clients')
      <4>1. Shell \notin Range(clients) /\ clients' = Append(clients, Shell)
        BY <1>3, <2>1, <2>3 DEF InitializeRegisters, Listed
      <4> QED
        BY <4>1, NoDupAppend DEF Shape
    <3> QED
      BY <2>1, <2>3, <3>1
  <2> QED
    BY <2>2, <2>3
<1>4. CASE Deinitialize
  <2>1. UNCHANGED <<plugin, pool, work, todo, calling, process>> /\ plugin # "UCAS"
    BY <1>4 DEF Deinitialize, jobVars
  <2>2. CASE UNCHANGED clients /\ ~Listed(Shell)
    BY <2>1, <2>2 DEF Listed
  <2>3. CASE Unregistered(Shell, {})
    <3>1. Named(Shell) = {}
      BY DEF Named, Shape
    <3>2. NoDup(clients') /\ Range(clients') = Range(clients) \ {Shell}
      BY <2>3, <3>1, UnregisteredFacts DEF Found
    <3> QED
      BY <2>1, <3>2 DEF Listed
  <2> QED
    BY <1>4, <2>2, <2>3 DEF Deinitialize
<1>5. CASE Gone /\ plugin # "UCAS"
  BY <1>5 DEF Gone, NoDup, Listed, Range, NoJob
<1>6. CASE Release /\ ~Gone
  BY <1>6 DEF Release, sinkVars, jobVars, Listed
<1>7. CASE Release \/ ProcessDies
  BY <1>5, <1>6, <1>7 DEF Release, ProcessDies
<1> QED
  BY <1>1, <1>2, <1>3, <1>4, <1>7

LEMMA ListsStep ==
  ASSUME Shape, Lists, ImplBalanced, Next
  PROVE  Lists'
  BY ClientLists, EventLists, ShellLists DEF Next

\* Nobody registers or unregisters while a worker calls the sinks.
LEMMA LockedStep ==
  ASSUME Shape, Lists, Locked, Next
  PROVE  Locked'
<1>0. /\ Nobody \notin Workers /\ "caller" \notin Workers
      /\ todo \in [Workers -> Seq(Sinks)] /\ clients \in Seq(Sinks)
      /\ callsigns \in [Callsigns -> Clients \cup {NoSink}]
      /\ work \in [Workers -> Jobs \cup {NoJob}] /\ Clients \subseteq Sinks
  BY DEF Shape, Sinks
<1> USE <1>0
<1> DEFINE Free == plugin # "UCAS" => \A w \in Workers : todo[w] = <<>>
<1>1. Unlocked => Free
  BY DEF Locked, Unlocked
\* No sink to call, and none to be called
<1>2. ASSUME Free, todo' = todo, plugin' = plugin PROVE Locked'
  BY <1>2 DEF Locked
<1>3. ASSUME UNCHANGED <<plugin, adminLock, todo, clients, callsigns>> PROVE Locked'
  BY <1>3 DEF Locked, Registered, Listed, Named
<1>4. ASSUME NEW s \in Clients, ClientStep(s) PROVE Locked'
  <2>1. CASE Register(s) \/ Unregister(s) \/ CallbackUnregistered(s)
             \/ \E k \in Callsigns : RegisterWithCallsign(k, s)
    BY <1>1, <1>2, <2>1 DEF Register, Unregister, CallbackUnregistered, RegisterWithCallsign, jobVars
  <2>2. CASE Link(s) \/ Unlink(s) \/ CallbackUnregisters(s) \/ Forget(s)
    BY <1>3, <2>2 DEF Link, Unlink, CallbackUnregisters, Forget, sinkVars, jobVars
  <2> QED
    BY <1>4, <2>1, <2>2 DEF ClientStep
<1>5. CASE Manage
  BY <1>5 DEF Manage, Locked
<1>6. CASE Managed
  <2>1. Free
    BY <1>6 DEF Managed, Locked
  <2> QED
    BY <1>2, <1>6, <2>1 DEF Managed, jobVars
<1>7. CASE \/ Initialize \/ ConfigureFails \/ \E k \in Callsigns \cup {NoCallsign} : dispatchEvent(k)
           \/ \E w \in Workers : TakeJob(w) \/ event_data(w) \/ Call(w)
  BY <1>3, <1>7 DEF Initialize, ConfigureFails, dispatchEvent, TakeJob, event_data, Call, sinkVars,
     jobVars
<1>8. ASSUME NEW w \in Workers, Dispatch(w) PROVE Locked'
  <2>0. Free /\ UNCHANGED <<plugin, clients, callsigns>>
    BY <1>1, <1>8 DEF Dispatch
  <2>1. CASE Recipients(w) = <<>>
    BY <1>2, <1>8, <2>0, <2>1 DEF Dispatch
  <2>2. CASE plugin # "UCAS" /\ Recipients(w) # <<>>
    <3>1. adminLock' = w /\ todo' = [todo EXCEPT ![w] = Recipients(w)]
      BY <1>8, <2>2 DEF Dispatch
    <3>2. \A s \in Range(Recipients(w)) : Registered(s)
      BY RecipientsRegistered
    <3> QED
      BY <2>0, <3>1, <3>2 DEF Locked, Registered, Listed, Named
  <2>3. CASE plugin = "UCAS"
    BY <2>0, <2>3 DEF Locked
  <2> QED
    BY <2>1, <2>2, <2>3
<1>9. ASSUME NEW w \in Workers, Called(w) PROVE Locked'
  <2>1. /\ todo[w] # <<>> /\ UNCHANGED <<plugin, clients, callsigns>>
        /\ todo' = [todo EXCEPT ![w] = Tail(todo[w])]
    BY <1>9 DEF Called, Lists
  <2>2. ASSUME plugin # "UCAS", NEW v \in Workers, todo'[v] # <<>>
        PROVE  adminLock' = v /\ \A s \in Range(todo'[v]) : Registered(s)
    <3>1. adminLock = w /\ v = w
      BY <2>1, <2>2 DEF Locked
    <3>2. adminLock' = adminLock
      BY <1>9, <2>1, <2>2, <3>1 DEF Called
    <3>3. Range(todo'[v]) \subseteq Range(todo[v])
      BY <2>1, <3>1, TailRange
    <3> QED
      BY <2>1, <2>2, <3>1, <3>2, <3>3 DEF Locked
  <2> QED
    BY <2>1, <2>2 DEF Locked, Registered, Listed, Named
<1>10. CASE InitializeRegisters \/ Deinitialize
  <2>1. CASE Runs
    BY <1>1, <1>2, <1>10, <2>1 DEF InitializeRegisters, Deinitialize, jobVars
  <2>2. CASE ~Runs
    BY <1>3, <1>10, <2>2 DEF InitializeRegisters, Deinitialize, jobVars
  <2> QED
    BY <2>1, <2>2
<1>11. CASE Release \/ ProcessDies
  <2>1. CASE Gone
    BY <2>1 DEF Gone, Locked
  <2>2. CASE UNCHANGED <<plugin, adminLock, sinkVars, jobVars>>
    BY <1>3, <2>2 DEF sinkVars, jobVars
  <2> QED
    BY <1>11, <2>1, <2>2 DEF Release, ProcessDies
<1> QED
  BY <1>4, <1>5, <1>6, <1>7, <1>8, <1>9, <1>10, <1>11 DEF Next, WorkerStep

-------------------------------------------------------------------------------
(* The references on the sinks.                                            *)

Balanced == \A s \in Sinks : SinkBalanced(s)

\* Of sink x nothing changes.
Same(x) == /\ refs'[x] = refs[x] /\ own'[x] = own[x] /\ displaced'[x] = displaced[x]
           /\ (Listed(x)' <=> Listed(x)) /\ Named(x)' = Named(x)

LEMMA HoldersKept ==
  ASSUME UNCHANGED <<plugin, todo>>, NEW x \in Sinks
  PROVE  Holders(x)' = Holders(x)
  BY DEF Holders, Holds

\* An unregistration gives back what the registrations took.
LEMMA UnregisteredBalance ==
  ASSUME Shape, NoDup(clients), Balanced, NEW s \in Sinks, NEW names \in Found(s),
         Unregistered(s, names), UNCHANGED <<plugin, todo, own, displaced>>
  PROVE  Balanced'
<1>1. /\ Range(clients') = Range(clients) \ {s}
      /\ callsigns' = [k \in Callsigns |-> IF k \in names THEN NoSink ELSE callsigns[k]]
      /\ names \subseteq Named(s) /\ IsFiniteSet(names) /\ Cardinality(names) \in Nat
      /\ refs' = [refs EXCEPT ![s] = @ - (Cardinality(names) + IF Listed(s) THEN 1 ELSE 0)]
  BY UnregisteredFacts
<1>2. \A x \in Sinks : Holders(x)' = Holders(x)
  BY HoldersKept
<1>3. ASSUME NEW x \in Sinks, x # s PROVE SinkBalanced(x)'
  <2>1. refs'[x] = refs[x] /\ (Listed(x)' <=> Listed(x))
    BY <1>1, <1>3 DEF Shape, Listed
  <2>2. Named(x)' = Named(x)
    BY <1>1, <1>3 DEF Named
  <2> QED
    BY <1>2, <2>1, <2>2 DEF Balanced, SinkBalanced
<1>4. SinkBalanced(s)'
  <2>1. /\ refs'[s] = refs[s] - (Cardinality(names) + IF Listed(s) THEN 1 ELSE 0)
        /\ ~Listed(s)' /\ refs[s] \in Int /\ displaced[s] \in Nat
    BY <1>1 DEF Shape, Listed
  <2>2. Named(s)' = Named(s) \ names
    BY <1>1 DEF Named
  <2>3. Cardinality(Named(s) \ names) = Cardinality(Named(s)) - Cardinality(names)
    <3>1. Named(s) \cap names = names
      BY <1>1
    <3> QED
      BY <3>1, Finite, FS_Difference
  <2>4. Cardinality(Named(s)) \in Nat /\ Cardinality(Holders(s)) \in Nat
    BY Finite
  <2>5. SinkBalanced(s)
    BY DEF Balanced
  <2> QED
    BY <1>1, <1>2, <2>1, <2>2, <2>3, <2>4, <2>5 DEF SinkBalanced
<1> QED
  BY <1>3, <1>4 DEF Balanced

LEMMA ClientBalance ==
  ASSUME Shape, Lists, Balanced, NEW s \in Clients, ClientStep(s)
  PROVE  Balanced'
<1>0. /\ s \in Sinks /\ Clients \subseteq Sinks /\ refs \in [Sinks -> Int] /\ own \in [Sinks -> BOOLEAN]
      /\ displaced \in [Sinks -> Nat] /\ callsigns \in [Callsigns -> Clients \cup {NoSink}]
      /\ \A x \in Sinks : Cardinality(Named(x)) \in Nat /\ Cardinality(Holders(x)) \in Nat
  BY Finite DEF Sinks, Shape
<1>1. ASSUME NEW x \in Sinks, Same(x), UNCHANGED <<plugin, todo>> PROVE SinkBalanced(x)'
  BY <1>1, HoldersKept DEF Same, SinkBalanced, Balanced
<1>2. CASE Link(s) \/ Unlink(s) \/ CallbackUnregisters(s)
  <2>1. \A x \in Sinks : Same(x) /\ UNCHANGED <<plugin, todo>>
    BY <1>2 DEF Link, Unlink, CallbackUnregisters, sinkVars, jobVars, Same, Listed, Named
  <2> QED
    BY <1>1, <2>1 DEF Balanced
<1>3. CASE Register(s)
  <2>0. UNCHANGED <<plugin, todo, callsigns, own, displaced>>
    BY <1>3 DEF Register, jobVars
  <2>1. CASE Listed(s)
    <3>1. \A x \in Sinks : Same(x)
      BY <1>3, <2>0, <2>1 DEF Register, Same, Listed, Named
    <3> QED
      BY <1>1, <2>0, <3>1 DEF Balanced
  <2>2. CASE ~Listed(s)
    <3>1. Range(clients') = Range(clients) \cup {s} /\ refs' = [refs EXCEPT ![s] = @ + 1]
      <4>1. clients' = Append(clients, s) /\ refs' = [refs EXCEPT ![s] = @ + 1]
        BY <1>3, <2>2 DEF Register, Take
      <4>2. Range(Append(clients, s)) = Range(clients) \cup {s}
        BY <1>0, <2>2, NoDupAppend DEF Shape, Lists, Listed
      <4> QED
        BY <4>1, <4>2
    <3>2. ASSUME NEW x \in Sinks, x # s PROVE SinkBalanced(x)'
      <4>1. Same(x)
        BY <1>0, <2>0, <3>1, <3>2 DEF Same, Listed, Named
      <4> QED
        BY <1>1, <2>0, <4>1
    <3>3. SinkBalanced(s)'
      <4>1. Listed(s)' /\ refs'[s] = refs[s] + 1 /\ Named(s)' = Named(s) /\ Holders(s)' = Holders(s)
        BY <1>0, <2>0, <3>1, HoldersKept DEF Listed, Named
      <4> QED
        BY <1>0, <2>0, <2>2, <4>1 DEF Balanced, SinkBalanced
    <3> QED
      BY <3>2, <3>3 DEF Balanced
  <2> QED
    BY <2>1, <2>2
<1>4. CASE Unregister(s) \/ CallbackUnregistered(s)
  BY <1>0, <1>4, UnregisteredBalance DEF Unregister, CallbackUnregistered, jobVars, Lists
<1>5. CASE Forget(s)
  <2>0. /\ UNCHANGED <<plugin, todo, clients, callsigns, displaced>> /\ own[s]
        /\ own' = [own EXCEPT ![s] = FALSE] /\ refs' = [refs EXCEPT ![s] = @ - 1]
    BY <1>5 DEF Forget, Drop, jobVars
  <2>1. ASSUME NEW x \in Sinks, x # s PROVE SinkBalanced(x)'
    BY <1>0, <1>1, <2>0, <2>1 DEF Same, Listed, Named
  <2>2. SinkBalanced(s)'
    <3>1. Listed(s)' = Listed(s) /\ Named(s)' = Named(s) /\ Holders(s)' = Holders(s)
      BY <2>0, HoldersKept, <1>0 DEF Listed, Named
    <3> QED
      BY <1>0, <2>0, <3>1 DEF Balanced, SinkBalanced
  <2> QED
    BY <2>1, <2>2 DEF Balanced
<1>6. ASSUME NEW k \in Callsigns, RegisterWithCallsign(k, s) PROVE Balanced'
  <2>0. /\ UNCHANGED <<plugin, todo, clients, own>>
        /\ callsigns' = [callsigns EXCEPT ![k] = s] /\ refs' = [refs EXCEPT ![s] = @ + 1]
        /\ displaced' = [x \in Sinks |-> displaced[x] + IF callsigns[k] = x THEN 1 ELSE 0]
    BY <1>6 DEF RegisterWithCallsign, Take, jobVars
  <2>1. \A x \in Sinks : (Listed(x)' <=> Listed(x)) /\ Holders(x)' = Holders(x)
    BY <2>0, HoldersKept DEF Listed
  <2>2. ASSUME NEW x \in Sinks PROVE SinkBalanced(x)'
    <3>0. SinkBalanced(x) /\ IsFiniteSet(Named(x))
      BY Finite DEF Balanced
    <3>1. CASE callsigns[k] = x /\ x = s
      <4>1. Named(x)' = Named(x) /\ refs'[x] = refs[x] + 1 /\ displaced'[x] = displaced[x] + 1
        BY <1>0, <2>0, <3>1 DEF Named
      <4> QED
        BY <1>0, <2>0, <2>1, <3>0, <4>1 DEF SinkBalanced
    <3>2. CASE callsigns[k] = x /\ x # s
      <4>1. /\ Named(x)' = Named(x) \ {k} /\ k \in Named(x)
            /\ refs'[x] = refs[x] /\ displaced'[x] = displaced[x] + 1
        BY <1>0, <2>0, <3>2 DEF Named
      <4>2. Cardinality(Named(x)') = Cardinality(Named(x)) - 1
        BY <3>0, <4>1, FS_RemoveElement
      <4> QED
        BY <1>0, <2>0, <2>1, <3>0, <4>1, <4>2 DEF SinkBalanced
    <3>3. CASE callsigns[k] # x /\ x = s
      <4>1. /\ Named(x)' = Named(x) \cup {k} /\ k \notin Named(x)
            /\ refs'[x] = refs[x] + 1 /\ displaced'[x] = displaced[x]
        BY <1>0, <2>0, <3>3 DEF Named
      <4>2. Cardinality(Named(x)') = Cardinality(Named(x)) + 1
        BY <3>0, <4>1, FS_AddElement
      <4> QED
        BY <1>0, <2>0, <2>1, <3>0, <4>1, <4>2 DEF SinkBalanced
    <3>4. CASE callsigns[k] # x /\ x # s
      <4>1. Named(x)' = Named(x) /\ refs'[x] = refs[x] /\ displaced'[x] = displaced[x]
        BY <1>0, <2>0, <3>4 DEF Named
      <4> QED
        BY <1>0, <2>0, <2>1, <3>0, <4>1 DEF SinkBalanced
    <3> QED
      BY <3>1, <3>2, <3>3, <3>4
  <2> QED
    BY <2>2 DEF Balanced
<1> QED
  BY <1>2, <1>3, <1>4, <1>5, <1>6 DEF ClientStep

LEMMA EventBalance ==
  ASSUME Shape, Lists, Balanced, NEW w \in Workers, WorkerStep(w) \/ event_data(w)
  PROVE  Balanced'
<1>0. /\ refs \in [Sinks -> Int] /\ todo \in [Workers -> Seq(Sinks)]
      /\ \A x \in Sinks : Cardinality(Named(x)) \in Nat /\ Cardinality(Holders(x)) \in Nat
      /\ displaced \in [Sinks -> Nat]
  BY Finite DEF Shape
<1>1. ASSUME NEW x \in Sinks, UNCHANGED <<plugin, clients, callsigns, own, displaced>>,
             refs'[x] = refs[x], Holders(x)' = Holders(x)
      PROVE  SinkBalanced(x)'
  BY <1>1 DEF SinkBalanced, Balanced, Listed, Named
<1>2. CASE UNCHANGED <<plugin, clients, callsigns, own, displaced, refs, todo>>
  BY <1>1, <1>2, HoldersKept DEF Balanced
<1>3. CASE plugin # "UCAS" /\ UNCHANGED <<plugin, clients, callsigns, own, displaced, refs>>
  <2>1. \A x \in Sinks : Holders(x)' = Holders(x)
    BY <1>3 DEF Holders, Holds
  <2> QED
    BY <1>1, <1>3, <2>1 DEF Balanced
<1>4. CASE Dispatch(w) /\ plugin = "UCAS" /\ Recipients(w) # <<>>
  <2>0. /\ UNCHANGED <<plugin, clients, callsigns, own, displaced>> /\ todo[w] = <<>>
        /\ todo' = [todo EXCEPT ![w] = clients]
        /\ refs' = [s \in Sinks |-> refs[s] + IF Listed(s) THEN 1 ELSE 0]
    BY <1>4, PlainRecipients DEF Dispatch, Lists
  <2>1. ASSUME NEW x \in Sinks PROVE SinkBalanced(x)'
    <3>0. Range(<<>>) = {} /\ IsFiniteSet(Holders(x))
      BY Finite DEF Range
    <3>1. CASE Listed(x)
      <4>1. w \notin Holders(x)
        BY <2>0, <3>0 DEF Holders, Holds
      <4>2. Holders(x)' = Holders(x) \cup {w}
        BY <1>0, <1>4, <2>0, <3>1 DEF Holders, Holds, Listed
      <4>3. Cardinality(Holders(x)') = Cardinality(Holders(x)) + 1
        BY <3>0, <4>1, <4>2, FS_AddElement
      <4>4. refs'[x] = refs[x] + 1 /\ Listed(x)' /\ Named(x)' = Named(x)
        BY <2>0, <3>1 DEF Listed, Named
      <4> QED
        BY <1>0, <2>0, <3>1, <4>3, <4>4 DEF Balanced, SinkBalanced
    <3>2. CASE ~Listed(x)
      <4>1. Holders(x)' = Holders(x)
        BY <1>0, <1>4, <2>0, <3>0, <3>2 DEF Holders, Holds, Listed
      <4>2. refs'[x] = refs[x]
        BY <1>0, <2>0, <3>2
      <4> QED
        BY <1>1, <2>0, <4>1, <4>2
    <3> QED
      BY <3>1, <3>2
  <2> QED
    BY <2>1 DEF Balanced
<1>5. CASE Called(w) /\ plugin = "UCAS"
  <2>0. /\ UNCHANGED <<plugin, clients, callsigns, own, displaced>> /\ todo[w] # <<>>
        /\ calling[w] = Head(todo[w]) /\ todo' = [todo EXCEPT ![w] = Tail(todo[w])]
        /\ refs' = [refs EXCEPT ![calling[w]] = @ - 1]
    BY <1>5 DEF Called, Lists, Drop
  <2>1. /\ Range(Tail(todo[w])) = Range(todo[w]) \ {calling[w]} /\ calling[w] \in Range(todo[w])
        /\ calling[w] \in Sinks
    BY <1>0, <1>5, <2>0, NoDupTail DEF Lists
  <2>2. ASSUME NEW x \in Sinks, x # calling[w] PROVE SinkBalanced(x)'
    <3>1. Holders(x)' = Holders(x) /\ refs'[x] = refs[x]
      BY <1>0, <2>0, <2>1, <2>2 DEF Holders, Holds
    <3> QED
      BY <1>1, <2>0, <3>1
  <2>3. ASSUME NEW x \in Sinks, x = calling[w] PROVE SinkBalanced(x)'
    <3>1. Holders(x)' = Holders(x) \ {w} /\ w \in Holders(x) /\ refs'[x] = refs[x] - 1
      BY <1>0, <1>5, <2>0, <2>1, <2>3 DEF Holders, Holds
    <3>2. Cardinality(Holders(x)') = Cardinality(Holders(x)) - 1
      BY <3>1, Finite, FS_RemoveElement
    <3>3. Named(x)' = Named(x) /\ (Listed(x)' <=> Listed(x))
      BY <2>0 DEF Named, Listed
    <3> QED
      BY <1>0, <2>0, <3>1, <3>2, <3>3 DEF Balanced, SinkBalanced
  <2> QED
    BY <2>2, <2>3 DEF Balanced
<1>6. CASE TakeJob(w) \/ event_data(w) \/ Call(w)
  BY <1>2, <1>6 DEF TakeJob, event_data, Call, sinkVars
<1>7. CASE Dispatch(w)
  BY <1>2, <1>3, <1>4, <1>7 DEF Dispatch
<1>8. CASE Called(w)
  BY <1>3, <1>5, <1>8 DEF Called
<1> QED
  BY <1>6, <1>7, <1>8 DEF WorkerStep

LEMMA ShellBalance ==
  ASSUME Shape, Lists, Balanced,
         \/ Manage \/ Managed \/ (\E k \in Callsigns \cup {NoCallsign} : dispatchEvent(k))
         \/ Initialize \/ ConfigureFails \/ InitializeRegisters \/ Deinitialize
         \/ Release \/ ProcessDies
  PROVE  Balanced'
<1>0. /\ refs \in [Sinks -> Int] /\ displaced \in [Sinks -> Nat] /\ Shell \in Sinks
      /\ \A x \in Sinks : Cardinality(Named(x)) \in Nat /\ Cardinality(Holders(x)) \in Nat
  BY Finite DEF Shape, Sinks
<1>1. ASSUME NEW x \in Sinks, UNCHANGED <<plugin, todo, callsigns, own, displaced>>,
             refs'[x] = refs[x], Listed(x)' <=> Listed(x)
      PROVE  SinkBalanced(x)'
  <2>1. Named(x)' = Named(x) /\ Holders(x)' = Holders(x)
    BY <1>1, HoldersKept DEF Named
  <2> QED
    BY <1>1, <2>1 DEF SinkBalanced, Balanced
<1>2. CASE UNCHANGED <<plugin, todo, sinkVars>>
  BY <1>1, <1>2 DEF sinkVars, Listed, Balanced
<1>3. CASE Gone
  <2>1. ASSUME NEW x \in Sinks PROVE SinkBalanced(x)'
    <3>1. /\ refs'[x] = (IF own[x] THEN 1 ELSE 0) /\ own' = own /\ displaced'[x] = 0
          /\ callsigns' = [k \in Callsigns |-> NoSink] /\ clients' = <<>>
          /\ todo' = [v \in Workers |-> <<>>] /\ Range(<<>>) = {} /\ x # NoSink
      BY <1>3 DEF Gone, Range
    <3>2. ~Listed(x)' /\ Named(x)' = {} /\ Holders(x)' = {}
      BY <3>1 DEF Listed, Named, Holders, Holds
    <3>3. Cardinality({}) = 0
      BY FS_EmptySet
    <3> QED
      BY <3>1, <3>2, <3>3 DEF SinkBalanced
  <2> QED
    BY <2>1 DEF Balanced
<1>4. CASE InitializeRegisters /\ Runs
  <2>0. /\ UNCHANGED <<plugin, todo, callsigns, own, displaced>> /\ ~Listed(Shell)
        /\ clients' = Append(clients, Shell) /\ refs' = [refs EXCEPT ![Shell] = @ + 1]
    BY <1>4 DEF InitializeRegisters, Take, jobVars, Lists
  <2>1. Range(Append(clients, Shell)) = Range(clients) \cup {Shell}
    BY <1>0, <2>0, NoDupAppend DEF Shape, Lists, Listed
  <2>2. ASSUME NEW x \in Sinks, x # Shell PROVE SinkBalanced(x)'
    BY <1>0, <1>1, <2>0, <2>1, <2>2 DEF Listed
  <2>3. SinkBalanced(Shell)'
    <3>1. Listed(Shell)' /\ refs'[Shell] = refs[Shell] + 1
      BY <1>0, <2>0, <2>1 DEF Listed
    <3>2. Named(Shell)' = Named(Shell) /\ Holders(Shell)' = Holders(Shell)
      BY <1>0, <2>0, HoldersKept DEF Named
    <3> QED
      BY <1>0, <2>0, <3>1, <3>2 DEF Balanced, SinkBalanced
  <2> QED
    BY <2>2, <2>3 DEF Balanced
<1>5. CASE Deinitialize /\ Unregistered(Shell, {})
  <2>1. {} \in Found(Shell)
    <3>1. Named(Shell) = {}
      BY <1>0 DEF Named, Shape
    <3> QED
      BY <3>1 DEF Found
  <2> QED
    BY <1>0, <1>5, <2>1, UnregisteredBalance DEF Deinitialize, jobVars, Lists
<1>6. CASE Deinitialize /\ UNCHANGED <<clients, callsigns, refs>>
  BY <1>2, <1>6 DEF Deinitialize, sinkVars, jobVars
<1>7. CASE Deinitialize
  BY <1>5, <1>6, <1>7 DEF Deinitialize
<1>8. CASE InitializeRegisters /\ ~Runs
  BY <1>2, <1>8 DEF InitializeRegisters, sinkVars, jobVars
<1>9. CASE \/ Manage \/ Managed \/ Initialize \/ ConfigureFails
           \/ \E k \in Callsigns \cup {NoCallsign} : dispatchEvent(k)
  BY <1>2, <1>9 DEF Manage, Managed, Initialize, ConfigureFails, dispatchEvent, jobVars
<1>10. CASE Release \/ ProcessDies
  BY <1>2, <1>3, <1>10 DEF Release, ProcessDies, jobVars
<1> QED
  BY <1>4, <1>7, <1>8, <1>9, <1>10

LEMMA BalanceStep ==
  ASSUME Shape, Lists, Balanced, Next
  PROVE  Balanced'
  BY ClientBalance, EventBalance, ShellBalance DEF Next

-------------------------------------------------------------------------------
(* The references on the implementation.                                   *)

\* Before the process starts nobody holds anything in it.
Unborn == process = "none" =>
    linked = {} /\ pool = <<>> /\ \A w \in Workers : ~Busy(w)

LEMMA UnbornStep ==
  ASSUME Unborn, Next
  PROVE  Unborn'
<1>1. CASE process' # "none"
  BY <1>1 DEF Unborn
<1>2. CASE Gone
  BY <1>2 DEF Gone, Unborn, Busy
<1>3. CASE process = "none" /\ UNCHANGED <<linked, pool, work>>
  BY <1>3 DEF Unborn, Busy
<1>4. ASSUME Runs, process' \in {process, "dead", "destroyed"} PROVE Unborn'
  BY <1>1, <1>4 DEF Runs
<1>5. ASSUME NEW s \in Clients, ClientStep(s) PROVE Unborn'
  <2>1. CASE Forget(s)
    BY <2>1 DEF Forget, jobVars, implVars, Unborn, Busy
  <2> QED
    BY <1>4, <1>5, <2>1 DEF ClientStep, Link, Unlink, Register, Unregister, CallbackUnregisters,
       CallbackUnregistered, RegisterWithCallsign, implVars
<1>6. ASSUME NEW w \in Workers, WorkerStep(w) \/ event_data(w) PROVE Unborn'
  BY <1>4, <1>6 DEF WorkerStep, TakeJob, Dispatch, Call, Called, event_data, JobEnds, implVars
<1>7. CASE \E k \in Callsigns \cup {NoCallsign} : dispatchEvent(k)
  BY <1>4, <1>7 DEF dispatchEvent
<1>8. CASE \/ Manage \/ Managed \/ Initialize \/ ConfigureFails \/ InitializeRegisters
           \/ Deinitialize \/ Release \/ ProcessDies
  BY <1>2, <1>8 DEF Manage, Managed, Initialize, ConfigureFails, InitializeRegisters, Deinitialize,
     Release, ProcessDies, jobVars, implVars, Unborn, Busy
<1> QED
  BY <1>5, <1>6, <1>7, <1>8 DEF Next

LEMMA ImplStep ==
  ASSUME Shape, Lists, Unborn, ImplBalanced, Next
  PROVE  ImplBalanced'
<1>0. /\ implRefs \in Int /\ Cardinality(linked) \in Nat /\ Cardinality(Running) \in Nat
      /\ IsFiniteSet(linked) /\ IsFiniteSet(Running) /\ Len(pool) \in Nat /\ pool \in Seq(Jobs)
      /\ work \in [Workers -> Jobs \cup {NoJob}] /\ ShellHolds \in Nat
      /\ Cardinality({}) = 0
  BY Finite, FS_EmptySet DEF Shape
<1>1. ASSUME UNCHANGED <<plugin, pool, work>>, implRefs' = implRefs
             + (ShellHolds' - ShellHolds) + (Cardinality(linked)' - Cardinality(linked)),
             implRefs' \in Int, ShellHolds' \in Int, Cardinality(linked)' \in Int
      PROVE  ImplBalanced'
  <2> DEFINE Jobbing == IF plugin = "UCAS" THEN 0 ELSE Len(pool) + Cardinality(Running)
  <2>1. Running' = Running /\ pool' = pool /\ plugin' = plugin
    BY <1>1 DEF Running, Busy
  <2>2. Jobbing \in Nat /\ Jobbing' = Jobbing
    BY <1>0, <2>1
  <2>3. implRefs = ShellHolds + Cardinality(linked) + Jobbing
    BY DEF ImplBalanced
  <2>4. ImplBalanced' <=> implRefs' = ShellHolds' + Cardinality(linked)' + Jobbing'
    BY DEF ImplBalanced
  <2> HIDE DEF Jobbing
  <2>5. implRefs' = ShellHolds' + Cardinality(linked)' + Jobbing
    <3>1. implRefs' = implRefs + (ShellHolds' - ShellHolds)
                      + (Cardinality(linked)' - Cardinality(linked))
      BY <1>1
    <3>2. implRefs \in Int /\ ShellHolds \in Int /\ Cardinality(linked) \in Int /\ Jobbing \in Int
      BY <1>0, <2>2
    <3>3. ShellHolds' \in Int /\ Cardinality(linked)' \in Int
      BY <1>1
    <3> QED
      BY <2>3, <3>1, <3>2, <3>3
  <2> QED
    BY <2>2, <2>4, <2>5
<1>2. CASE UNCHANGED <<plugin, pool, work, implVars>>
  <2>1. Running' = Running /\ ShellHolds' = ShellHolds
    BY <1>2 DEF Running, Busy, implVars, ShellHolds, Runs
  <2> QED
    BY <1>2, <2>1 DEF ImplBalanced, implVars
<1>3. ASSUME NEW s \in Clients, Link(s) PROVE ImplBalanced'
  <2>1. /\ linked' = linked \cup {s} /\ s \notin linked /\ implRefs' = implRefs + 1
        /\ UNCHANGED <<plugin, pool, work, shell, process>>
    BY <1>3 DEF Link, jobVars
  <2>2. Cardinality(linked)' = Cardinality(linked) + 1 /\ ShellHolds' = ShellHolds
    BY <1>0, <2>1, FS_AddElement DEF ShellHolds, Runs
  <2> QED
    BY <1>0, <1>1, <2>1, <2>2
<1>4. ASSUME NEW s \in Clients, Unlink(s) PROVE ImplBalanced'
  <2>1. /\ linked' = linked \ {s} /\ s \in linked /\ implRefs' = implRefs - 1
        /\ UNCHANGED <<plugin, pool, work, shell, process>>
    BY <1>4 DEF Unlink, jobVars
  <2>2. Cardinality(linked)' = Cardinality(linked) - 1 /\ ShellHolds' = ShellHolds
    BY <1>0, <2>1, FS_RemoveElement DEF ShellHolds, Runs
  <2> QED
    BY <1>0, <1>1, <2>1, <2>2
<1>5. ASSUME NEW k \in Callsigns \cup {NoCallsign}, dispatchEvent(k) PROVE ImplBalanced'
  <2>1. /\ UNCHANGED <<plugin, work, linked, shell, process>> /\ implRefs' = implRefs + 1
        /\ Len(pool') = Len(pool) + 1 /\ plugin # "UCAS"
    BY <1>0, <1>5 DEF dispatchEvent
  <2>2. Running' = Running /\ ShellHolds' = ShellHolds
    BY <2>1 DEF Running, Busy, ShellHolds, Runs
  <2> QED
    BY <1>0, <2>1, <2>2 DEF ImplBalanced
<1>6. ASSUME NEW w \in Workers, TakeJob(w) PROVE ImplBalanced'
  <2>1. /\ UNCHANGED <<plugin, linked, implRefs, shell, process>> /\ pool # <<>> /\ ~Busy(w)
        /\ work' = [work EXCEPT ![w] = Head(pool)] /\ Len(pool') = Len(pool) - 1
        /\ plugin # "UCAS"
    BY <1>0, <1>6 DEF TakeJob, implVars, Lists
  <2>2. Head(pool) # NoJob
    <3>1. Head(pool) \in Jobs
      BY <1>0, <2>1
    <3> QED
      BY <3>1 DEF Jobs, Events, NoJob
  <2>3. Running' = Running \cup {w} /\ w \notin Running
    BY <1>0, <2>1, <2>2 DEF Running, Busy
  <2>4. Cardinality(Running)' = Cardinality(Running) + 1 /\ ShellHolds' = ShellHolds
    BY <1>0, <2>1, <2>3, FS_AddElement DEF ShellHolds, Runs
  <2> QED
    BY <1>0, <2>1, <2>4 DEF ImplBalanced
<1>7. ASSUME NEW w \in Workers, event_data(w) PROVE ImplBalanced'
  BY <1>7 DEF event_data, ImplBalanced, implVars, ShellHolds, Runs
<1>8. ASSUME NEW w \in Workers, JobEnds(w), Busy(w), Runs, UNCHANGED <<plugin, pool>>
      PROVE  ImplBalanced'
  <2>1. CASE plugin = "UCAS"
    BY <1>8, <2>1 DEF JobEnds, ImplBalanced, implVars, ShellHolds, Runs
  <2>2. CASE plugin # "UCAS"
    <3>1. /\ work' = [work EXCEPT ![w] = NoJob] /\ implRefs' = implRefs - 1
          /\ UNCHANGED <<linked, shell>>
          /\ process' = IF implRefs = 1 THEN "destroyed" ELSE process
      BY <1>8, <2>2 DEF JobEnds
    <3>2. Running' = Running \ {w} /\ w \in Running
      BY <1>0, <1>8, <3>1 DEF Running, Busy
    <3>3. Cardinality(Running)' = Cardinality(Running) - 1
      BY <1>0, <3>2, FS_RemoveElement
    <3>4. ShellHolds' = ShellHolds
      BY <1>8, <2>2, <3>1, LastJob DEF ShellHolds, Runs
    <3> QED
      BY <1>0, <1>8, <2>2, <3>1, <3>3, <3>4 DEF ImplBalanced
  <2> QED
    BY <2>1, <2>2
<1>9. ASSUME NEW w \in Workers, Dispatch(w) \/ Called(w) PROVE ImplBalanced'
  <2>1. CASE JobEnds(w)
    BY <1>8, <1>9, <2>1 DEF Dispatch, Called, Lists
  <2>2. CASE UNCHANGED <<work, implVars>>
    BY <1>2, <1>9, <2>2 DEF Dispatch, Called
  <2> QED
    BY <1>9, <2>1, <2>2 DEF Dispatch, Called
<1>10. CASE Initialize
  <2>1. /\ linked = {} /\ pool = <<>> /\ Running = {} /\ plugin # "UCAS" /\ ShellHolds = 0
        /\ UNCHANGED <<plugin, linked, pool, work>>
    BY <1>10 DEF Initialize, Unborn, Running, Lists, Runs, ShellHolds, jobVars
  <2>2. implRefs = 0 /\ Running' = {}
    <3>1. Running' = Running
      BY <2>1 DEF Running, Busy
    <3>2. implRefs = ShellHolds + Cardinality(linked) + (Len(pool) + Cardinality(Running))
      BY <2>1 DEF ImplBalanced
    <3>3. Len(pool) = 0 /\ Cardinality(linked) = 0 /\ Cardinality(Running) = 0
      BY <1>0, <2>1
    <3> QED
      BY <2>1, <3>1, <3>2, <3>3
  <2>3. implRefs' = ShellHolds'
    BY <1>10, <2>1, <2>2 DEF Initialize, ShellHolds, Runs
  <2>4. implRefs' \in Int
    BY <1>0, <1>10 DEF Initialize
  <2> QED
    BY <1>0, <2>1, <2>2, <2>3, <2>4 DEF ImplBalanced
<1>11. CASE ConfigureFails
  <2>1. /\ UNCHANGED <<plugin, pool, work, linked>> /\ implRefs' = implRefs - 1
        /\ ShellHolds = 1 /\ ShellHolds' = 0
    BY <1>11 DEF ConfigureFails, jobVars, ShellHolds, Runs
  <2> QED
    BY <1>0, <1>1, <2>1
<1>12. CASE InitializeRegisters \/ Deinitialize
  <2>1. UNCHANGED <<plugin, pool, work, linked, implRefs>> /\ ShellHolds' = ShellHolds
    BY <1>12 DEF InitializeRegisters, Deinitialize, jobVars, ShellHolds, Runs
  <2> QED
    BY <1>0, <1>1, <2>1
<1>13. CASE Gone /\ shell' # "off" /\ process' # "runs"
  <2>1. Running' = {} /\ linked' = {} /\ pool' = <<>> /\ implRefs' = 0 /\ ShellHolds' = 0
    BY <1>13 DEF Gone, Running, Busy, ShellHolds, Runs
  <2> QED
    BY <1>0, <2>1 DEF ImplBalanced
<1>14. CASE Release
  <2>1. CASE Runs
    BY <1>13, <1>14, <2>1 DEF Release
  <2>2. CASE ~Runs /\ UNCHANGED <<plugin, jobVars, linked, implRefs, process>>
    BY <1>0, <1>1, <2>2 DEF ShellHolds, Runs, jobVars
  <2> QED
    BY <1>14, <2>1, <2>2 DEF Release
<1>15. CASE ProcessDies
  <2>1. Running' = {} /\ linked' = {} /\ pool' = <<>> /\ implRefs' = 0 /\ ShellHolds' = 0
    BY <1>15 DEF ProcessDies, Gone, Running, Busy, ShellHolds, Runs
  <2> QED
    BY <1>0, <2>1 DEF ImplBalanced
<1>16. ASSUME NEW s \in Clients,
              Register(s) \/ Unregister(s) \/ CallbackUnregisters(s) \/ CallbackUnregistered(s)
              \/ Forget(s) \/ \E k \in Callsigns : RegisterWithCallsign(k, s)
       PROVE  ImplBalanced'
  BY <1>2, <1>16 DEF Register, Unregister, CallbackUnregisters, CallbackUnregistered, Forget,
     RegisterWithCallsign, jobVars
<1>17. CASE Manage \/ Managed \/ \E w \in Workers : Call(w)
  BY <1>2, <1>17 DEF Manage, Managed, Call, jobVars
<1> QED
  BY <1>3, <1>4, <1>5, <1>6, <1>7, <1>9, <1>10, <1>11, <1>12, <1>14, <1>15, <1>16, <1>17
     DEF Next, ClientStep, WorkerStep

-------------------------------------------------------------------------------
NotifInv == Shape /\ Lists /\ Locked /\ Balanced /\ Unborn /\ ImplBalanced

LEMMA NotifInitially ==
  ASSUME Init
  PROVE  NotifInv
<1>0. /\ Shell \in Sinks /\ NoSink \notin Sinks /\ Range(<<>>) = {} /\ Cardinality({}) = 0
      /\ NoJob.callsign = NoCallsign
  BY FS_EmptySet DEF Sinks, Range, NoJob
<1>1. Shape
  <2>1. /\ clients \in Seq(Sinks) /\ callsigns \in [Callsigns -> Clients \cup {NoSink}]
        /\ refs \in [Sinks -> Int] /\ own \in [Sinks -> BOOLEAN] /\ displaced \in [Sinks -> Nat]
    BY DEF Init
  <2>2. /\ pool \in Seq(Jobs) /\ work \in [Workers -> Jobs \cup {NoJob}]
        /\ todo \in [Workers -> Seq(Sinks)] /\ calling \in [Workers -> Sinks \cup {NoSink}]
    BY DEF Init
  <2>3. /\ waits \in SUBSET Clients /\ linked \in SUBSET Clients /\ implRefs \in Int
        /\ shell \in {"off", "rooted", "on", "leaving", "left"}
        /\ process \in {"none", "runs", "destroyed", "dead"}
    BY DEF Init
  <2>4. /\ plugin \in Plugins /\ adminLock \in Workers \cup {Nobody, "caller"}
        /\ MaxEvents[plugin] \in Nat /\ events = 0 /\ named = 0
        /\ got \in [Sinks -> SUBSET Events]
    BY DEF Init
  <2> QED
    BY <2>1, <2>2, <2>3, <2>4 DEF Shape
<1>2. Lists /\ Locked
  BY <1>0 DEF Init, Lists, Locked, NoDup, Listed, Runs
<1>3. Balanced
  <2>1. ASSUME NEW s \in Sinks PROVE SinkBalanced(s)
    <3>1. ~Listed(s) /\ Named(s) = {} /\ Holders(s) = {}
      BY <1>0 DEF Init, Listed, Named, Holders, Holds
    <3> QED
      BY <1>0, <3>1 DEF Init, SinkBalanced
  <2> QED
    BY <2>1 DEF Balanced
<1>4. ImplBalanced
  <2>1. Running = {} /\ linked = {} /\ Len(pool) = 0
    BY DEF Init, Running, Busy
  <2>2. ShellHolds = implRefs
    BY DEF Init, ShellHolds, Runs
  <2>3. implRefs \in Int
    BY DEF Init
  <2> QED
    BY <1>0, <2>1, <2>2, <2>3 DEF ImplBalanced
<1>5. Unborn
  BY DEF Init, Unborn, Busy
<1> QED
  BY <1>1, <1>2, <1>3, <1>4, <1>5 DEF NotifInv

\* Nothing changes.
LEMMA NotifStutters ==
  ASSUME NotifInv, UNCHANGED vars
  PROVE  NotifInv'
<1>1. Shape'
  BY DEF NotifInv, Shape, vars, sinkVars, jobVars, implVars
<1>2. Lists' /\ Locked' /\ Unborn'
  BY DEF NotifInv, Lists, Locked, Unborn, NoDup, Listed, Registered, Named, Busy, Runs, vars,
     sinkVars, jobVars, implVars
<1>3. ASSUME NEW s \in Sinks PROVE SinkBalanced(s)'
  <2>1. Named(s)' = Named(s) /\ Holders(s)' = Holders(s) /\ (Listed(s)' <=> Listed(s))
    BY DEF Named, Holders, Holds, Listed, vars, sinkVars, jobVars
  <2>2. SinkBalanced(s) /\ UNCHANGED <<refs, own, displaced>>
    BY DEF NotifInv, Balanced, vars, sinkVars
  <2> QED
    BY <2>1, <2>2 DEF SinkBalanced
<1>4. ImplBalanced'
  <2>1. Running' = Running /\ ShellHolds' = ShellHolds
    BY DEF Running, Busy, ShellHolds, Runs, vars, jobVars, implVars
  <2> QED
    BY <2>1 DEF NotifInv, ImplBalanced, vars, jobVars, implVars
<1> QED
  BY <1>1, <1>2, <1>3, <1>4 DEF NotifInv, Balanced

LEMMA NotifInvStep ==
  ASSUME NotifInv, [Next]_vars
  PROVE  NotifInv'
<1>1. CASE Next
  BY <1>1, ShapeStep, ListsStep, LockedStep, BalanceStep, UnbornStep, ImplStep DEF NotifInv
<1> QED
  BY <1>1, NotifStutters

THEOREM NotifInvariant == Spec => []NotifInv
  BY NotifInitially, NotifInvStep, PTL DEF Spec

\* Reference counts are what is held, in every plugin, for any number of sinks, callsigns,
\* workers and jobs: no sink and no implementation is freed while it is in use, and only
\* a sink that lost its callsign to another is kept for ever.
THEOREM ReferencesBalanced == Spec => []RefsBalanced
<1>1. NotifInv => RefsBalanced
  <2> SUFFICES ASSUME NotifInv PROVE RefsBalanced
    OBVIOUS
  <2>1. \A s \in Sinks : SinkBalanced(s)
    BY DEF NotifInv, Balanced
  <2>2. ImplBalanced /\ Cardinality(linked) \in Nat /\ Cardinality(Running) \in Nat
        /\ Len(pool) \in Nat /\ ShellHolds \in Nat
    BY Finite DEF NotifInv
  <2>3. plugin # "UCAS" => implRefs = ShellHolds + Cardinality(linked) + Len(pool)
                                      + Cardinality(Running)
    BY <2>2 DEF ImplBalanced
  <2> QED
    BY <2>1, <2>3 DEF RefsBalanced, SinkBalanced, Holders, Running, ShellHolds
<1> QED
  BY <1>1, NotifInvariant, PTL

\* Among the types: no count of references goes below zero, and only sinks are called.
THEOREM NotificationsTyped == Spec => []NotifTypeOK
<1>1. NotifInv => NotifTypeOK
  <2> SUFFICES ASSUME NotifInv PROVE NotifTypeOK
    OBVIOUS
  <2>1. Shape
    BY DEF NotifInv
  <2>2. \A s \in Sinks : refs[s] \in Nat
    <3> SUFFICES ASSUME NEW s \in Sinks PROVE refs[s] \in Nat
      OBVIOUS
    <3>1. /\ SinkBalanced(s) /\ Cardinality(Named(s)) \in Nat /\ Cardinality(Holders(s)) \in Nat
          /\ displaced[s] \in Nat
      BY <2>1, Finite DEF NotifInv, Balanced, Shape
    <3> QED
      BY <3>1 DEF SinkBalanced
  <2>3. refs \in [Sinks -> Nat]
    BY <2>1, <2>2 DEF Shape
  <2>4. implRefs \in Nat
    BY <2>1, Finite DEF NotifInv, ImplBalanced
  <2> QED
    BY <2>1, <2>3, <2>4 DEF Shape, NotifTypeOK
<1> QED
  BY <1>1, NotifInvariant, PTL

\* Once its Unregister has returned, a client of TTS or SAP is not called: the worker that
\* calls the sinks has held _adminLock since it looked who they are.
THEOREM UnregisteredIsQuiet == Spec => []QuietAfterUnregister
<1>1. NotifInv => QuietAfterUnregister
  <2> SUFFICES ASSUME NotifInv, plugin # "UCAS", NEW w \in Workers, calling[w] # NoSink
               PROVE  Registered(calling[w])
    BY DEF QuietAfterUnregister
  <2>1. todo[w] # <<>> /\ calling[w] = Head(todo[w]) /\ todo[w] \in Seq(Sinks)
    BY DEF NotifInv, Lists, Shape
  <2>2. Head(todo[w]) \in Range(todo[w])
    BY <2>1 DEF Range
  <2> QED
    BY <2>1, <2>2 DEF NotifInv, Locked
<1> QED
  BY <1>1, NotifInvariant, PTL
===============================================================================

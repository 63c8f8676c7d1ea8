----------------------------- MODULE Notifications -----------------------------
(***************************************************************************)
(* How the three plugins tell their clients what happens:                  *)
(* TextToSpeechImplementation (TTS) and SystemAudioPlayerImplementation    *)
(* (SAP) make a job of each event, which calls every sink under            *)
(* _adminLock; UnifiedCASManagementImplementation (UCAS) copies its list   *)
(* under _adminLock and calls the sinks without it.                        *)
(*                                                                         *)
(* The shells of TTS and SAP (Initialize, Deinitialize, Deactivated) run   *)
(* the implementation in a process of its own: they assert that the        *)
(* connection is not 0.  That process may die at any moment.               *)
(*                                                                         *)
(* A sink is a reference count, an object of its client.  A client is a    *)
(* process too: what its callback calls comes in on another thread.        *)
(***************************************************************************)
EXTENDS Integers, Sequences, FiniteSets, SequencesExt

CONSTANTS Plugins,     \* which of "TTS", "SAP", "UCAS" to look at
          Shell,       \* the sink of the shell
          Clients,     \* the other sinks
          Callsigns, NoCallsign, NoSink,
          Workers,     \* threads of the worker pool, or of the media player
          Nobody,
          MaxEvents,   \* bound: events, for each plugin
          MaxNamed     \* bound: calls of RegisterWithCallsign

Sinks == Clients \cup {Shell}

ASSUME NotificationsAssumption ==
    /\ Plugins \subseteq {"TTS", "SAP", "UCAS"} /\ Shell \notin Clients
    /\ NoSink \notin Sinks /\ NoCallsign \notin Callsigns /\ {Nobody, "caller"} \cap Workers = {}
    /\ IsFiniteSet(Sinks) /\ IsFiniteSet(Workers) /\ IsFiniteSet(Callsigns)
    /\ MaxEvents \in [Plugins -> Nat] /\ MaxNamed \in Nat

VARIABLES
    plugin,
    adminLock,    \* the thread that holds _adminLock across a call
    clients,      \* _notificationClients, _notifications
    callsigns,    \* _notificationCallsignClients
    refs, own,    \* of a sink: its count; its client still has it
    displaced,    \* ghost: times it was replaced under a callsign
    pool,         \* jobs in the worker pool
    work, todo,   \* of a worker: its job, and the sinks it still has to call
    calling,      \* the sink in whose callback it is
    waits,        \* clients whose callback waits for _adminLock
    linked,       \* clients that hold a reference on the implementation
    implRefs,     \* the count of the implementation
    shell,        \* the shell
    process,      \* the process of the implementation
    events, named,\* counters, up to MaxEvents[plugin] and MaxNamed
    got           \* ghost: what each sink was told

sinkVars == <<clients, callsigns, refs, own, displaced, named>>
jobVars  == <<pool, work, todo, calling, waits, events, got>>
implVars == <<linked, implRefs, shell, process>>
vars == <<plugin, adminLock, sinkVars, jobVars, implVars>>

Events == Nat \ {0}
Jobs == [event : Events, callsign : Callsigns \cup {NoCallsign}]
NoJob == [event |-> 0, callsign |-> NoCallsign]
Named(s) == {k \in Callsigns : callsigns[k] = s}
Listed(s) == s \in Range(clients)
Registered(s) == Listed(s) \/ Named(s) # {}
Busy(w) == work[w] # NoJob

\* The reference counts of the sinks and of the implementation never go below zero,
\* the jobs are those of submitted events, and only a sink that can be registered is
\* called (Register, Unregister, Dispatch, event_data, Deinitialize).
NotifTypeOK ==
    /\ plugin \in Plugins /\ adminLock \in Workers \cup {Nobody, "caller"}
    /\ clients \in Seq(Sinks) /\ callsigns \in [Callsigns -> Clients \cup {NoSink}]
    /\ refs \in [Sinks -> Nat] /\ own \in [Sinks -> BOOLEAN] /\ displaced \in [Sinks -> Nat]
    /\ pool \in Seq(Jobs) /\ work \in [Workers -> Jobs \cup {NoJob}]
    /\ todo \in [Workers -> Seq(Sinks)] /\ calling \in [Workers -> Sinks \cup {NoSink}]
    /\ waits \in SUBSET Clients /\ linked \in SUBSET Clients /\ implRefs \in Nat
    /\ shell \in {"off", "rooted", "on", "leaving", "left"}
    /\ process \in {"none", "runs", "destroyed", "dead"}
    /\ events \in 0 .. MaxEvents[plugin] /\ named \in 0 .. MaxNamed
    /\ got \in [Sinks -> SUBSET Events]

\* UCAS has no shell here: it is created by its own.
Init ==
    /\ plugin \in Plugins /\ adminLock = Nobody
    /\ clients = <<>> /\ callsigns = [k \in Callsigns |-> NoSink]
    /\ refs = [s \in Sinks |-> 1] /\ own = [s \in Sinks |-> TRUE]
    /\ displaced = [s \in Sinks |-> 0]
    /\ pool = <<>> /\ work = [w \in Workers |-> NoJob] /\ todo = [w \in Workers |-> <<>>]
    /\ calling = [w \in Workers |-> NoSink] /\ waits = {}
    /\ events = 0 /\ named = 0 /\ got = [s \in Sinks |-> {}]
    /\ linked = {}
    /\ IF plugin = "UCAS" THEN implRefs = 1 /\ shell = "on" /\ process = "runs"
                          ELSE implRefs = 0 /\ shell = "off" /\ process = "none"

Runs == process = "runs"
Unlocked == adminLock = Nobody
Take(s, n) == refs' = [refs EXCEPT ![s] = @ + n]
Drop(s, n) == refs' = [refs EXCEPT ![s] = @ - n]

-------------------------------------------------------------------------------
(* Clients.                                                                *)

\* The client gets at the implementation through the shell, and lets it go.
Link(s) ==
    /\ Runs /\ shell = "on" /\ s \in Clients \ linked /\ own[s]
    /\ linked' = linked \cup {s} /\ implRefs' = implRefs + 1
    /\ UNCHANGED <<plugin, adminLock, sinkVars, jobVars, shell, process>>

Unlink(s) ==
    /\ Runs /\ s \in linked /\ ~Registered(s) /\ s \notin waits
    /\ linked' = linked \ {s} /\ implRefs' = implRefs - 1
    /\ UNCHANGED <<plugin, adminLock, sinkVars, jobVars, shell, process>>

\* No sink twice: TTS and SAP assert it, UCAS answers ERROR_ALREADY_CONNECTED.
Register(s) ==
    /\ Runs /\ Unlocked /\ s \in linked /\ own[s] /\ (plugin # "UCAS" => ~Listed(s))
    /\ IF Listed(s) THEN UNCHANGED <<clients, refs>>
       ELSE clients' = Append(clients, s) /\ Take(s, 1)
    /\ UNCHANGED <<plugin, adminLock, callsigns, own, displaced, named, jobVars, implVars>>

\* std::find, and erase of what it finds
Erased(q, s) ==
    IF s \notin Range(q) THEN q
    ELSE LET at == CHOOSE i \in DOMAIN q : q[i] = s
         IN [i \in 1 .. Len(q) - 1 |-> q[IF i < at THEN i ELSE i + 1]]

\* Mutant: a sink that has left the list keeps its reference.
Unregistered_NoRelease(s, names) ==
    /\ clients' = Erased(clients, s)
    /\ callsigns' = [k \in Callsigns |-> IF k \in names THEN NoSink ELSE callsigns[k]]
    /\ Drop(s, Cardinality(names))

\* Mutant: a sink is released that was never in the list.
Unregistered_Always(s, names) ==
    /\ clients' = Erased(clients, s)
    /\ callsigns' = [k \in Callsigns |-> IF k \in names THEN NoSink ELSE callsigns[k]]
    /\ Drop(s, Cardinality(names) + 1)

\* s leaves the list, and the callsigns names.
Unregistered(s, names) ==
    /\ clients' = Erased(clients, s)
    /\ callsigns' = [k \in Callsigns |-> IF k \in names THEN NoSink ELSE callsigns[k]]
    /\ Drop(s, Cardinality(names) + IF Listed(s) THEN 1 ELSE 0)

\* The loop over the callsigns goes on from the entry it has just erased: the build may
\* find the next one, or not.
Found(s) == {Named(s)} \cup {{k} : k \in Named(s)}

Unregister(s) ==
    /\ Runs /\ Unlocked /\ s \in Clients /\ Registered(s)
    /\ \E names \in Found(s) : Unregistered(s, names)
    /\ UNCHANGED <<plugin, adminLock, own, displaced, named, jobVars, implVars>>

\* The callback of s calls Unregister: it waits for _adminLock, and the callback for it.
CallbackUnregisters(s) ==
    /\ Runs /\ s \in Clients \ waits /\ s \in Range(calling) /\ Registered(s)
    /\ waits' = waits \cup {s}
    /\ UNCHANGED <<plugin, adminLock, sinkVars, pool, work, todo, calling, events, got, implVars>>

CallbackUnregistered(s) ==
    /\ Runs /\ Unlocked /\ s \in waits /\ waits' = waits \ {s}
    /\ \E names \in Found(s) : Unregistered(s, names)
    /\ UNCHANGED <<plugin, adminLock, own, displaced, named, pool, work, todo, calling, events, got,
                   implVars>>

\* TTS.  The sink that had the callsign is not released.
RegisterWithCallsign(k, s) ==
    /\ plugin = "TTS" /\ Runs /\ Unlocked /\ s \in linked /\ own[s]
    /\ named < MaxNamed /\ named' = named + 1
    /\ callsigns' = [callsigns EXCEPT ![k] = s] /\ Take(s, 1)
    /\ displaced' = [x \in Sinks |-> displaced[x] + IF callsigns[k] = x THEN 1 ELSE 0]
    /\ UNCHANGED <<plugin, adminLock, clients, own, jobVars, implVars>>

\* A client is done with its sink.
Forget(s) ==
    /\ s \in Clients /\ own[s] /\ own' = [own EXCEPT ![s] = FALSE] /\ Drop(s, 1)
    /\ UNCHANGED <<plugin, adminLock, clients, callsigns, displaced, named, jobVars, implVars>>

\* UCAS: Manage, Unmanage and Send hold _adminLock while the media player works.
Manage ==
    /\ plugin = "UCAS" /\ Unlocked /\ adminLock' = "caller"
    /\ UNCHANGED <<plugin, sinkVars, jobVars, implVars>>

Managed ==
    /\ adminLock = "caller" /\ adminLock' = Nobody
    /\ UNCHANGED <<plugin, sinkVars, jobVars, implVars>>

-------------------------------------------------------------------------------
(* Events.                                                                 *)

\* TTS, SAP: the job holds a reference on the implementation.
dispatchEvent(k) ==
    /\ plugin # "UCAS" /\ Runs /\ implRefs > 0 /\ events < MaxEvents[plugin] /\ events' = events + 1
    /\ plugin = "SAP" => k = NoCallsign
    /\ pool' = Append(pool, [event |-> events + 1, callsign |-> k])
    /\ implRefs' = implRefs + 1
    /\ UNCHANGED <<plugin, adminLock, sinkVars, work, todo, calling, waits, got, linked, shell, process>>

\* Idle workers are alike: any one of them is next.
Idle == CHOOSE w \in Workers : ~Busy(w)

\* A worker takes the oldest job: two jobs may run at once, and overtake each other.
TakeJob(w) ==
    /\ Runs /\ ~Busy(w) /\ w = Idle /\ pool # <<>>
    /\ work' = [work EXCEPT ![w] = Head(pool)] /\ pool' = Tail(pool)
    /\ UNCHANGED <<plugin, adminLock, sinkVars, todo, calling, waits, events, got, implVars>>

\* UCAS: event_data, on a thread of the media player
event_data(w) ==
    /\ plugin = "UCAS" /\ Runs /\ ~Busy(w) /\ w = Idle /\ events < MaxEvents[plugin] /\ events' = events + 1
    /\ work' = [work EXCEPT ![w] = [event |-> events + 1, callsign |-> NoCallsign]]
    /\ UNCHANGED <<plugin, adminLock, sinkVars, pool, todo, calling, waits, got, implVars>>

\* Mutant: the last client is never reached.
Recipients_ButLast(w) ==
    (IF clients = <<>> THEN <<>> ELSE Front(clients))
    \o (IF work[w].callsign # NoCallsign /\ callsigns[work[w].callsign] # NoSink
        THEN <<callsigns[work[w].callsign]>> ELSE <<>>)

\* Every client, then the one of the callsign
Recipients(w) ==
    clients \o (IF work[w].callsign # NoCallsign /\ callsigns[work[w].callsign] # NoSink
                THEN <<callsigns[work[w].callsign]>> ELSE <<>>)

\* The job ends, and with it its reference on the implementation.
JobEnds(w) ==
    /\ work' = [work EXCEPT ![w] = NoJob]
    /\ IF plugin = "UCAS" THEN UNCHANGED implVars
       ELSE /\ implRefs' = implRefs - 1 /\ UNCHANGED <<linked, shell>>
            /\ process' = IF implRefs = 1 THEN "destroyed" ELSE process

\* Mutant: UCAS keeps _adminLock while it calls the sinks.
Dispatch_Locked(w) ==
    /\ Runs /\ Busy(w) /\ todo[w] = <<>> /\ Unlocked
    /\ IF Recipients(w) = <<>> THEN JobEnds(w) /\ UNCHANGED <<adminLock, todo, refs>>
       ELSE /\ todo' = [todo EXCEPT ![w] = Recipients(w)] /\ UNCHANGED <<work, implVars>>
            /\ adminLock' = w
            /\ IF plugin = "UCAS"
               THEN refs' = [s \in Sinks |-> refs[s] + IF Listed(s) THEN 1 ELSE 0]
               ELSE UNCHANGED refs
    /\ UNCHANGED <<plugin, clients, callsigns, own, displaced, named, pool, calling, waits, events,
                   got>>

\* Mutant: no plugin keeps _adminLock, and only UCAS takes references.
Dispatch_Unlocked(w) ==
    /\ Runs /\ Busy(w) /\ todo[w] = <<>> /\ Unlocked
    /\ IF Recipients(w) = <<>> THEN JobEnds(w) /\ UNCHANGED <<todo, refs>>
       ELSE /\ todo' = [todo EXCEPT ![w] = Recipients(w)] /\ UNCHANGED <<work, implVars>>
            /\ IF plugin = "UCAS"
               THEN refs' = [s \in Sinks |-> refs[s] + IF Listed(s) THEN 1 ELSE 0]
               ELSE UNCHANGED refs
    /\ UNCHANGED <<plugin, adminLock, clients, callsigns, own, displaced, named, pool, calling, waits,
                   events, got>>

\* Dispatch of TTS and SAP keeps the lock; event_data copies, with a reference on each.
Dispatch(w) ==
    /\ Runs /\ Busy(w) /\ todo[w] = <<>> /\ Unlocked
    /\ IF Recipients(w) = <<>> THEN JobEnds(w) /\ UNCHANGED <<adminLock, todo, refs>>
       ELSE /\ todo' = [todo EXCEPT ![w] = Recipients(w)] /\ UNCHANGED <<work, implVars>>
            /\ IF plugin = "UCAS"
               THEN /\ refs' = [s \in Sinks |-> refs[s] + IF Listed(s) THEN 1 ELSE 0]
                    /\ UNCHANGED adminLock
               ELSE adminLock' = w /\ UNCHANGED refs
    /\ UNCHANGED <<plugin, clients, callsigns, own, displaced, named, pool, calling, waits, events,
                   got>>

Call(w) ==
    /\ Runs /\ todo[w] # <<>> /\ calling[w] = NoSink
    /\ calling' = [calling EXCEPT ![w] = Head(todo[w])]
    /\ got' = [got EXCEPT ![Head(todo[w])] = @ \cup {work[w].event}]
    /\ UNCHANGED <<plugin, adminLock, sinkVars, pool, work, todo, waits, events, implVars>>

\* The callback returns; after the last one the job ends.
Called(w) ==
    /\ Runs /\ calling[w] \notin waits \cup {NoSink}
    /\ calling' = [calling EXCEPT ![w] = NoSink] /\ todo' = [todo EXCEPT ![w] = Tail(@)]
    /\ IF plugin = "UCAS" THEN Drop(calling[w], 1) ELSE UNCHANGED refs
    /\ IF Tail(todo[w]) = <<>>
       THEN JobEnds(w) /\ adminLock' = (IF plugin = "UCAS" THEN adminLock ELSE Nobody)
       ELSE UNCHANGED <<work, adminLock, implVars>>
    /\ UNCHANGED <<plugin, clients, callsigns, own, displaced, named, pool, waits, events, got>>

-------------------------------------------------------------------------------
(* The shell.                                                              *)

\* Root makes the implementation in a new process; Configure may fail (TTS).
Initialize ==
    /\ shell = "off" /\ process = "none"
    /\ \/ shell' = "rooted" /\ process' = "runs" /\ implRefs' = 1
       \/ shell' = "left" /\ UNCHANGED <<process, implRefs>>
    /\ UNCHANGED <<plugin, adminLock, sinkVars, jobVars, linked>>

\* It failed: the shell drops it, and does not kill the process of jobs that still run.
ConfigureFails ==
    /\ shell = "rooted" /\ plugin = "TTS" /\ Runs /\ shell' = "left" /\ implRefs' = implRefs - 1
    /\ process' = IF implRefs = 1 THEN "destroyed" ELSE process
    /\ UNCHANGED <<plugin, adminLock, sinkVars, jobVars, linked>>

InitializeRegisters ==
    /\ shell = "rooted" /\ (Runs => Unlocked) /\ shell' = "on"
    /\ IF Runs THEN clients' = Append(clients, Shell) /\ Take(Shell, 1)
       ELSE UNCHANGED <<clients, refs>>
    /\ UNCHANGED <<plugin, adminLock, callsigns, own, displaced, named, jobVars, linked, implRefs, process>>

\* A call into a process that is gone comes back with an error.
Deinitialize ==
    /\ shell = "on" /\ plugin # "UCAS" /\ (Runs => Unlocked) /\ shell' = "leaving"
    /\ IF Runs /\ Listed(Shell) THEN Unregistered(Shell, {}) ELSE UNCHANGED <<clients, callsigns, refs>>
    /\ UNCHANGED <<plugin, adminLock, own, displaced, named, jobVars, linked, implRefs, process>>

\* Nobody holds on to what was in the process.
Gone == /\ clients' = <<>> /\ callsigns' = [k \in Callsigns |-> NoSink]
        /\ pool' = <<>> /\ work' = [w \in Workers |-> NoJob]
        /\ todo' = [w \in Workers |-> <<>>] /\ calling' = [w \in Workers |-> NoSink]
        /\ refs' = [s \in Sinks |-> IF own[s] THEN 1 ELSE 0]
        /\ displaced' = [s \in Sinks |-> 0] /\ waits' = {} /\ linked' = {} /\ adminLock' = Nobody
        /\ implRefs' = 0 /\ UNCHANGED <<plugin, own, named, events, got>>

\* Mutant: whoever else holds the implementation is left with it.
Release_NoKill ==
    /\ shell = "leaving" /\ shell' = "left" /\ (Runs => implRefs' = implRefs - 1)
    /\ (~Runs => UNCHANGED implRefs)
    /\ process' = IF Runs /\ implRefs = 1 THEN "destroyed" ELSE process
    /\ UNCHANGED <<plugin, adminLock, sinkVars, jobVars, linked>>

\* Release; a job that holds the implementation has the process killed.
Release ==
    /\ shell = "leaving" /\ shell' = "left"
    /\ IF ~Runs THEN UNCHANGED <<plugin, adminLock, sinkVars, jobVars, linked, implRefs, process>>
       ELSE /\ Gone /\ process' = IF implRefs = 1 THEN "destroyed" ELSE "dead"

ProcessDies ==
    /\ plugin # "UCAS" /\ Runs /\ process' = "dead" /\ Gone /\ UNCHANGED shell

-------------------------------------------------------------------------------
ClientStep(s) == \/ Link(s) \/ Unlink(s) \/ Register(s)
                 \/ Unregister(s) \/ CallbackUnregisters(s) \/ CallbackUnregistered(s) \/ Forget(s)
                 \/ \E k \in Callsigns : RegisterWithCallsign(k, s)
WorkerStep(w) == TakeJob(w) \/ Dispatch(w) \/ Call(w) \/ Called(w)

Next == \/ \E s \in Clients : ClientStep(s)
        \/ Manage \/ Managed
        \/ \E k \in Callsigns \cup {NoCallsign} : dispatchEvent(k)
        \/ \E w \in Workers : WorkerStep(w) \/ event_data(w)
        \/ Initialize \/ ConfigureFails \/ InitializeRegisters
        \/ Deinitialize \/ Release \/ ProcessDies

\* The workers run, a callback that does not wait returns, and a call of the media
\* player returns; _adminLock is fair to those that wait for it.
Fairness ==
    /\ \A w \in Workers : SF_vars(WorkerStep(w))
    /\ \A s \in Clients : SF_vars(CallbackUnregistered(s))
    /\ WF_vars(Managed) /\ SF_vars(InitializeRegisters) /\ WF_vars(Release)

Spec == Init /\ [][Next]_vars /\ Fairness

-------------------------------------------------------------------------------
(* Properties.                                                             *)

Holds(w, s) == IF plugin = "UCAS" /\ s \in Range(todo[w]) THEN 1 ELSE 0

\* The references on a sink are its client's, one for each registration and one for each
\* copy of event_data, and one for each time it lost its callsign to another
\* (TextToSpeechImplementation.cpp:288); those on the implementation are the shell's, the
\* clients' and one for each job.  So that no sink is called and no job runs on freed
\* memory, and none but the displaced are kept for ever.
RefsBalanced ==
    /\ \A s \in Sinks : refs[s] =
          (IF own[s] THEN 1 ELSE 0) + (IF Listed(s) THEN 1 ELSE 0) + Cardinality(Named(s))
          + displaced[s] + Cardinality({w \in Workers : Holds(w, s) = 1})
    /\ plugin # "UCAS" => implRefs =
          (IF Runs /\ shell \in {"rooted", "on", "leaving"} THEN 1 ELSE 0)
          + Cardinality(linked) + Len(pool) + Cardinality({w \in Workers : Busy(w)})

\* A client of TTS or SAP is not called once its Unregister has returned, unless it was
\* registered under two callsigns.
QuietAfterUnregister ==
    plugin # "UCAS" => \A w \in Workers : calling[w] # NoSink => Registered(calling[w])

\* The clients whose callback waits for the lock that its caller holds.
Deadlocked == plugin # "UCAS" /\ waits # {}

\* An event reaches every client that stays registered, unless the process dies or a
\* callback of TTS or SAP calls Unregister.
Undelivered(e) == \/ \E j \in Range(pool) : j.event = e
                  \/ \E w \in Workers : work[w].event = e /\ todo[w] = <<>>
EventReaches == \A s \in Clients, e \in UNION {1 .. MaxEvents[p] : p \in Plugins} :
    (Listed(s) /\ Undelivered(e)) ~> (e \in got[s] \/ ~Listed(s) \/ ~Runs \/ Deadlocked)

\* A dispatch ends; that of UCAS also when a callback calls Unregister ("This prevents
\* potential deadlocks if callbacks try to register/unregister",
\* UnifiedCASManagementImplementation.cpp:251).
DispatchReturns == \A w \in Workers : Busy(w) ~> (~Busy(w) \/ Deadlocked)

\* Once the shell has let go, the process of the implementation ends, whoever else holds
\* it ("Shoot to kill", TextToSpeech.cpp:115) and whatever its jobs do.
NoOrphan == (shell = "left") ~> ~Runs
===============================================================================

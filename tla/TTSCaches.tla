------------------------------- MODULE TTSCaches -------------------------------
(***************************************************************************)
(* What TextToSpeech remembers of other plugins: the service access token  *)
(* ("sat", SatToken), whether there is internet ("net",                    *)
(* NetworkStatusObserver), and the endpoint that RFC names ("rfc",         *)
(* RFCURLObserver).  Each is asked for once, then follows events, which    *)
(* come in on another thread.  The thread that asks subscribes after it    *)
(* has its answer.                                                         *)
(***************************************************************************)
EXTENDS Integers, Sequences

CONSTANTS Caches,     \* which of "sat", "net", "rfc" to look at
          MaxChanges  \* bound: changes of what is remembered

ASSUME CachesAssumption == Caches \subseteq {"sat", "net", "rfc"} /\ MaxChanges \in Nat

VARIABLES
    truth,      \* what the other plugin would answer: 0, then 1, 2, ...
    known,      \* m_SatToken, m_isConnected, the endpoint of m_defaultConfig
    subscribed, \* m_eventRegistered, _eventRegistered
    updated,    \* m_tokenUpdated
    events,     \* notifications on their way
    turn,       \* of the thread that uses it
    reply,      \* the answer it has in hand
    late,       \* ghost: what it asks for has changed again, or was not had
    missed      \* ghost: why the cache may be stale
cacheVars == <<truth, known, subscribed, updated, events, turn, reply, late, missed>>

Failed == -1
Values == 0 .. MaxChanges

\* A cache holds, and an event carries, only values that were once true
\* (SatToken::m_satToken, NetworkStatusObserver::m_isConnected, RFCURLObserver's URL).
CachesTypeOK ==
    /\ truth \in [Caches -> Values] /\ known \in [Caches -> Values]
    /\ subscribed \in [Caches -> BOOLEAN] /\ updated \in [Caches -> BOOLEAN]
    /\ events \in [Caches -> Seq(Values)] /\ reply \in [Caches -> Values \cup {Failed}]
    /\ turn \in [Caches -> {"new", "idle", "asked", "answered", "stored", "clear"}]
    /\ late \in [Caches -> BOOLEAN]
    /\ missed \in [Caches -> SUBSET {"unsubscribed", "cleared", "failed"}]

CachesInit ==
    /\ truth = [c \in Caches |-> 0] /\ known = [c \in Caches |-> 0]
    /\ subscribed = [c \in Caches |-> FALSE] /\ updated = [c \in Caches |-> FALSE]
    /\ events = [c \in Caches |-> <<>>] /\ reply = [c \in Caches |-> Failed]
    /\ turn = [c \in Caches |-> "new"]
    /\ late = [c \in Caches |-> FALSE] /\ missed = [c \in Caches |-> {}]

At(c, s) == turn[c] = s
Go(c, s) == turn' = [turn EXCEPT ![c] = s]
Miss(c, why) == missed' = [missed EXCEPT ![c] = @ \cup why]

\* The constructor of SatToken, the first isConnected, triggerRFC; and getSAT after a
\* notification
Ask(c) ==
    /\ At(c, "new") \/ (c = "sat" /\ At(c, "idle") /\ updated[c])
    /\ Go(c, "asked")
    /\ UNCHANGED <<truth, known, subscribed, updated, events, reply, late, missed>>

\* A later isConnected tries again to subscribe, and does not ask again.
AskAgain(c) ==
    /\ c = "net" /\ At(c, "idle") /\ ~subscribed[c] /\ Go(c, "stored")
    /\ UNCHANGED <<truth, known, subscribed, updated, events, reply, late, missed>>

\* Invoke, getRFCConfig: the answer, or none in time
Answer(c) ==
    /\ At(c, "asked") /\ Go(c, "answered")
    /\ \/ reply' = [reply EXCEPT ![c] = truth[c]] /\ missed' = [missed EXCEPT ![c] = {}]
          /\ late' = [late EXCEPT ![c] = FALSE]
       \/ reply' = [reply EXCEPT ![c] = Failed] /\ Miss(c, {"failed"})
          /\ late' = [late EXCEPT ![c] = TRUE]
    /\ UNCHANGED <<truth, known, subscribed, updated, events>>

\* Mutant: a token that is there is not replaced.
Store_First(c) ==
    /\ At(c, "answered") /\ Go(c, "stored")
    /\ known' = [known EXCEPT ![c] = CASE c = "sat" /\ @ # 0 -> @
                                        [] reply[c] # Failed -> reply[c]
                                        [] c = "net" -> 0
                                        [] OTHER -> @]
    /\ UNCHANGED <<truth, subscribed, updated, events, reply, late, missed>>

\* No answer means no internet, and otherwise what was known.
Store(c) ==
    /\ At(c, "answered") /\ Go(c, "stored")
    /\ known' = [known EXCEPT ![c] = IF reply[c] # Failed THEN reply[c]
                                     ELSE IF c = "net" THEN 0 ELSE @]
    /\ UNCHANGED <<truth, subscribed, updated, events, reply, late, missed>>

\* getSAT, which clears the flag, comes here with the flag up; the constructor does not.
Subscribe(c) ==
    /\ c # "rfc" /\ At(c, "stored") /\ Go(c, IF updated[c] THEN "clear" ELSE "idle")
    /\ IF subscribed[c] THEN UNCHANGED subscribed
       ELSE subscribed' \in {subscribed, [subscribed EXCEPT ![c] = TRUE]}
    /\ UNCHANGED <<truth, known, updated, events, reply, late, missed>>

\* Tried once only, by triggerRFC: without it no event comes to ask again.
registerNotification(c) ==
    /\ c = "rfc" /\ At(c, "stored") /\ Go(c, "idle")
    /\ IF subscribed[c] THEN UNCHANGED subscribed
       ELSE subscribed' \in {subscribed, [subscribed EXCEPT ![c] = TRUE]}
    /\ UNCHANGED <<truth, known, updated, events, reply, late, missed>>

\* getSAT: whatever was notified meanwhile is forgotten, also when the fetch failed.
Clear(c) ==
    /\ At(c, "clear") /\ Go(c, "idle") /\ updated' = [updated EXCEPT ![c] = FALSE]
    /\ Miss(c, IF late[c] THEN {"cleared"} ELSE {})
    /\ UNCHANGED <<truth, known, subscribed, events, reply, late>>

\* The other plugin.
Change(c) ==
    /\ truth[c] < MaxChanges /\ truth' = [truth EXCEPT ![c] = @ + 1]
    /\ IF subscribed[c] THEN events' = [events EXCEPT ![c] = Append(@, truth'[c])] /\ UNCHANGED missed
       ELSE Miss(c, {"unsubscribed"}) /\ UNCHANGED events
    /\ UNCHANGED <<known, subscribed, updated, turn, reply, late>>

\* The handlers.
Event(c) ==
    /\ events[c] # <<>> /\ events' = [events EXCEPT ![c] = Tail(@)]
    /\ late' = [late EXCEPT ![c] = TRUE]
    /\ UNCHANGED <<truth, subscribed, reply>>

\* SatToken takes note,
serviceAccessTokenChanged(c) ==
    /\ c = "sat" /\ Event(c) /\ updated' = [updated EXCEPT ![c] = TRUE]
    /\ UNCHANGED <<known, turn, missed>>

\* NetworkStatusObserver takes the value,
onConnectionStatusChanged(c) ==
    /\ c = "net" /\ Event(c) /\ known' = [known EXCEPT ![c] = Head(events[c])]
    /\ missed' = [missed EXCEPT ![c] = {}]
    /\ UNCHANGED <<updated, turn>>

\* and RFCURLObserver asks again.
onDeviceMgtUpdateReceived(c) ==
    /\ c = "rfc" /\ Event(c) /\ At(c, "idle") /\ Go(c, "asked")
    /\ UNCHANGED <<known, updated, missed>>

CacheStep(c) == \/ Ask(c) \/ AskAgain(c) \/ Answer(c) \/ Store(c) \/ Subscribe(c)
                \/ registerNotification(c) \/ Clear(c) \/ Change(c) \/ serviceAccessTokenChanged(c)
                \/ onConnectionStatusChanged(c) \/ onDeviceMgtUpdateReceived(c)

CachesSpec == CachesInit /\ [][\E c \in Caches : CacheStep(c)]_cacheVars

\* A cache at rest holds what is true, unless something changed while nobody had
\* subscribed, or getSAT cleared a notification that came during its fetch
\* (SatToken.cpp:114), or an answer was not had.
CachesExplained == \A c \in Caches :
    (At(c, "idle") /\ events[c] = <<>> /\ ~updated[c]) => known[c] = truth[c] \/ missed[c] # {}
===============================================================================

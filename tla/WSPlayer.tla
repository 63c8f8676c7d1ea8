------------------------------- MODULE WSPlayer -------------------------------
(***************************************************************************)
(* A player of source WEBSOCKET: AudioPlayer with its webClient, an        *)
(* endpoint of WSEndpoint per SecuredWebSocketClient or                    *)
(* UnsecuredWebSocketClient it makes, and the fallback from wss to ws.     *)
(*                                                                         *)
(* Three kinds of threads use webClient and share no mutex: callers and    *)
(* the bus thread in Stop (m_apiMutex), the bus thread in handleMessage,   *)
(* and the event loop thread of a client in wsConnectionStatus.            *)
(*                                                                         *)
(* webClient is a unique_ptr: a thread reads the pointer, and then is      *)
(* inside a call of the client, or stores null and deletes it.  Two        *)
(* threads may have read one pointer: then the client may be freed during  *)
(* a call, or deleted twice.  Calling a client that is null, or deleting   *)
(* one twice, ends the program; a call that comes to a freed one ends it,  *)
(* or has no effect.                                                       *)
(***************************************************************************)
EXTENDS WSEndpoint

CONSTANTS Clients,     \* the endpoints a player may make
          Callers,     \* threads that call Play and Stop
          MaxCalls,    \* bound: their calls
          NoClient     \* nullptr

Bus == "bus"
Nobody == "nobody"
Threads == Callers \cup {Bus}

ASSUME PlayerAssumption ==
    /\ Clients \subseteq Endpoint \ Servers
    /\ MaxCalls \in Nat /\ NoClient \notin Endpoint /\ Nobody \notin Threads /\ Bus \notin Callers

VARIABLES
    url,         \* the scheme of m_url
    fallback,    \* m_fallbackToUnsecuredConnection
    webClient,
    pipe,        \* the pipeline: NULL, on its way to PLAYING, PLAYING, in error
    playing, error,  \* PLAYING messages on its bus; an ERROR message
    apiMutex, pc, op,  \* of a thread: its step, its call
    held,        \* the client whose pointer a thread has read, to call or to destroy it
    wpc,         \* where the event loop thread of a client is in wsConnectionStatus
    calls,       \* calls made, up to MaxCalls
    refused,     \* ghost: the clients whose secured attempt failed
    carried,     \* ghost: the fallback flag has stood for a client that is not webClient
    stopped,     \* ghost: the last call that ended is Stop
    late,        \* ghost: the bus thread handled a PLAYING message during the last Stop
    raced        \* ghost: it handled one during some Stop

pipeVars  == <<pipe, playing, error>>
stepVars  == <<apiMutex, pc, op, held, calls>>
ghostVars == <<refused, carried, stopped, late, raced>>
playerVars == <<url, fallback, webClient, pipeVars, stepVars, wpc, ghostVars>>
playerSysVars == <<endpointVars, playerVars, ended>>

\* Where the bus thread is in handleMessage with a PLAYING message
Handling == {"test", "type", "typing", "swap", "swapClosing", "swapReset", "swapDelete", "swapJoin",
             "create", "createPlain", "connect", "connecting"}
Steps == {"idle", "stop", "disconnect", "closing", "reset", "delete", "join", "silence", "start"}
         \cup Handling

\* The PLAYING messages that are taken were on the bus (AudioPlayer.cpp:639-664).
PlayerTypeOK ==
    /\ EndpointTypeOK
    /\ url \in {"ws", "wss"} /\ fallback \in BOOLEAN
    /\ webClient \in Clients \cup {NoClient}
    /\ pipe \in {"null", "starting", "playing", "drained"}
    /\ playing \in Nat /\ error \in BOOLEAN
    /\ apiMutex \in Threads \cup {Nobody}
    /\ pc \in [Threads -> Steps] /\ op \in [Threads -> {"none", "play", "stop", "error"}]
    /\ held \in [Threads -> Clients \cup {NoClient}]
    /\ wpc \in [Endpoint -> {"idle", "type", "toggle"}]
    /\ calls \in 0 .. MaxCalls
    /\ refused \subseteq Clients /\ carried \in BOOLEAN
    /\ stopped \in BOOLEAN /\ late \in BOOLEAN /\ raced \in BOOLEAN

PlayerInit ==
    /\ EndpointInit
    /\ url = "ws" /\ fallback = FALSE /\ webClient = NoClient
    /\ pipe = "null" /\ playing = 0 /\ error = FALSE
    /\ apiMutex = Nobody /\ pc = [t \in Threads |-> "idle"] /\ op = [t \in Threads |-> "none"]
    /\ held = [t \in Threads |-> NoClient] /\ wpc = [e \in Endpoint |-> "idle"]
    /\ calls = 0 /\ refused = {} /\ carried = FALSE
    /\ stopped = FALSE /\ late = FALSE /\ raced = FALSE

At(t, step) == pc[t] = step /\ ~ended
Goto(t, step) == pc' = [pc EXCEPT ![t] = step]

Dies == ended' = TRUE /\ UNCHANGED <<endpointVars, playerVars>>

\* A null webClient is dereferenced.
Crash == webClient = NoClient /\ Dies

\* The pointer is read: from here on another thread may destroy the client.
read(t, next) ==
    /\ held' = [held EXCEPT ![t] = webClient] /\ Goto(t, next)
    /\ UNCHANGED <<endpointVars, url, fallback, webClient, pipeVars, apiMutex, op, calls, wpc,
                   ghostVars, ended>>

release(t, next) ==
    /\ held' = [held EXCEPT ![t] = NoClient] /\ Goto(t, next)
    /\ UNCHANGED <<url, fallback, webClient, pipeVars, apiMutex, op, calls, wpc, ghostVars, ended>>

\* A call that came to the client after another thread had freed it
Dangles(t) == life[held[t]] = "gone" /\ Dies

\* The endpoint of the client closes its connection.
disconnect(t, next) ==
    /\ \/ Disconnect(held[t])
       \/ life[held[t]] = "gone" /\ UNCHANGED endpointVars
    /\ release(t, next)

\* The rest of webClient.reset(), after the read: the pointer is null, whatever it is by
\* now, before the client that was read is deleted.
reset(t, joins, next) ==
    /\ webClient' = NoClient
    /\ carried' = (carried \/ (fallback /\ webClient # NoClient))
    /\ \/ /\ held[t] = NoClient /\ Goto(t, next) /\ UNCHANGED <<endpointVars, ended>>
       \/ /\ held[t] # NoClient /\ Destroy(held[t]) /\ Goto(t, joins) /\ UNCHANGED ended
       \/ /\ held[t] # NoClient /\ life[held[t]] # "alive"
          /\ ended' = TRUE /\ UNCHANGED <<endpointVars, pc>>
    /\ UNCHANGED <<url, fallback, pipeVars, apiMutex, op, held, calls, wpc, refused, stopped, late,
                   raced>>

join(t, next) == Joined(held[t]) /\ release(t, next)

-------------------------------------------------------------------------------
(* Play and Stop.                                                          *)

\* m_playMutex admits one Play.
Play(t, u) ==
    /\ t \in Callers /\ At(t, "idle") /\ \A d \in Callers : op[d] # "play"
    /\ calls < MaxCalls /\ calls' = calls + 1
    /\ url' = u /\ op' = [op EXCEPT ![t] = "play"] /\ Goto(t, "stop")
    /\ UNCHANGED <<endpointVars, fallback, webClient, pipeVars, apiMutex, held, wpc, ghostVars,
                   ended>>

CallStop(t) ==
    /\ t \in Callers /\ At(t, "idle") /\ calls < MaxCalls /\ calls' = calls + 1
    /\ op' = [op EXCEPT ![t] = "stop"] /\ Goto(t, "stop")
    /\ UNCHANGED <<endpointVars, url, fallback, webClient, pipeVars, apiMutex, held, wpc, ghostVars,
                   ended>>

\* Mutant: Stop does not take m_apiMutex.
StopBegins_Unlocked(t) ==
    /\ At(t, "stop") /\ apiMutex' = t
    /\ Goto(t, IF webClient = NoClient THEN "silence" ELSE "disconnect")
    /\ late' = (pc[Bus] \in Handling) /\ raced' = (raced \/ late')
    /\ UNCHANGED <<endpointVars, url, fallback, webClient, pipeVars, op, held, calls, wpc,
                   refused, carried, stopped, ended>>

StopBegins(t) ==
    /\ At(t, "stop") /\ apiMutex = Nobody /\ apiMutex' = t
    /\ Goto(t, IF webClient = NoClient THEN "silence" ELSE "disconnect")
    /\ late' = (pc[Bus] \in Handling) /\ raced' = (raced \/ late')
    /\ UNCHANGED <<endpointVars, url, fallback, webClient, pipeVars, op, held, calls, wpc,
                   refused, carried, stopped, ended>>

\* Mutant: Stop disconnects the client but keeps it.
StopResets_Keeps(t) ==
    /\ At(t, "reset") /\ Goto(t, "silence")
    /\ UNCHANGED <<endpointVars, url, fallback, webClient, pipeVars, apiMutex, op, held, calls, wpc,
                   ghostVars, ended>>

StopDisconnects(t) ==
    \/ At(t, "disconnect") /\ ((webClient # NoClient /\ read(t, "closing")) \/ Crash)
    \/ At(t, "closing") /\ (disconnect(t, "reset") \/ Dangles(t))
StopResets(t) == \/ At(t, "reset") /\ read(t, "delete")
                 \/ At(t, "delete") /\ reset(t, "join", "silence")
StopJoins(t) == At(t, "join") /\ join(t, "silence")

\* clear() and resetPipeline, which flushes the bus.  The fallback flag is left alone.
StopSilences(t) ==
    /\ At(t, "silence") /\ apiMutex' = Nobody
    /\ pipe' = "null" /\ playing' = 0 /\ error' = FALSE
    /\ Goto(t, IF op[t] = "play" THEN "start" ELSE "idle")
    /\ op' = [op EXCEPT ![t] = IF @ = "play" THEN @ ELSE "none"]
    /\ stopped' = TRUE
    /\ UNCHANGED <<endpointVars, url, fallback, webClient, held, calls, wpc, refused, carried,
                   late, raced, ended>>

\* The rest of Play
Begin(t) ==
    /\ At(t, "start") /\ Goto(t, "idle") /\ op' = [op EXCEPT ![t] = "none"]
    /\ pipe' = "starting" /\ stopped' = FALSE
    /\ UNCHANGED <<endpointVars, url, fallback, webClient, playing, error, apiMutex, held, calls,
                   wpc, refused, carried, late, raced, ended>>

StopStep(t) == \/ StopBegins(t) \/ StopDisconnects(t) \/ StopResets(t) \/ StopJoins(t)
               \/ StopSilences(t) \/ Begin(t)

-------------------------------------------------------------------------------
(* The pipeline, and the bus thread.                                       *)

StreamAdvances ==
    /\ pipe = "starting" /\ ~ended /\ pipe' = "playing" /\ playing' = playing + 1
    /\ UNCHANGED <<endpointVars, url, fallback, webClient, error, stepVars, wpc, ghostVars,
                   ended>>

StreamFails ==
    /\ pipe \in {"starting", "playing"} /\ ~ended /\ pipe' = "drained" /\ error' = TRUE
    /\ UNCHANGED <<endpointVars, url, fallback, webClient, playing, stepVars, wpc, ghostVars,
                   ended>>

\* Mutant: the message may be gone by the time it is taken.
BusPop_Flushed ==
    /\ At(Bus, "idle")
    /\ \/ pipe = "playing" /\ playing' = playing - 1 /\ Goto(Bus, "test") /\ UNCHANGED <<error, op>>
       \/ error /\ error' = FALSE /\ Goto(Bus, "stop") /\ op' = [op EXCEPT ![Bus] = "error"]
          /\ UNCHANGED playing
    /\ UNCHANGED <<endpointVars, url, fallback, webClient, pipe, apiMutex, held, calls, wpc,
                   ghostVars, ended>>

\* A PLAYING message, or an ERROR, on which handleMessage calls Stop
BusPop ==
    /\ At(Bus, "idle")
    /\ \/ /\ playing > 0 /\ playing' = playing - 1 /\ Goto(Bus, "test") /\ UNCHANGED <<error, op>>
          /\ late' = (late \/ apiMutex # Nobody) /\ raced' = (raced \/ apiMutex # Nobody)
       \/ /\ error /\ error' = FALSE /\ Goto(Bus, "stop") /\ op' = [op EXCEPT ![Bus] = "error"]
          /\ UNCHANGED <<playing, late, raced>>
    /\ UNCHANGED <<endpointVars, url, fallback, webClient, pipe, apiMutex, held, calls, wpc,
                   refused, carried, stopped, ended>>

BusTest ==
    /\ At(Bus, "test") /\ Goto(Bus, IF webClient = NoClient THEN "create" ELSE "type")
    /\ UNCHANGED <<endpointVars, url, fallback, webClient, pipeVars, apiMutex, op, held, calls, wpc,
                   ghostVars, ended>>

BusType ==
    \/ At(Bus, "type") /\ ((webClient # NoClient /\ read(Bus, "typing")) \/ Crash)
    \/ /\ At(Bus, "typing") /\ tls[held[Bus]] /\ fallback
       /\ fallback' = FALSE /\ held' = [held EXCEPT ![Bus] = NoClient] /\ Goto(Bus, "swap")
       /\ UNCHANGED <<endpointVars, url, webClient, pipeVars, apiMutex, op, calls, wpc, ghostVars,
                      ended>>
    \/ /\ At(Bus, "typing") /\ ~(tls[held[Bus]] /\ fallback)
       /\ UNCHANGED endpointVars /\ release(Bus, "idle")
    \/ At(Bus, "typing") /\ Dangles(Bus)

\* webClient->disconnect(); webClient.reset(), outside any lock
BusSwaps == \/ At(Bus, "swap") /\ ((webClient # NoClient /\ read(Bus, "swapClosing")) \/ Crash)
            \/ At(Bus, "swapClosing") /\ (disconnect(Bus, "swapReset") \/ Dangles(Bus))
            \/ At(Bus, "swapReset") /\ read(Bus, "swapDelete")
            \/ At(Bus, "swapDelete") /\ reset(Bus, "swapJoin", "createPlain")
            \/ At(Bus, "swapJoin") /\ join(Bus, "createPlain")

\* A new endpoint; all that are not made yet are alike.
NewClient(secured) ==
    /\ \E x \in Clients : life[x] = "none"
    /\ LET e == CHOOSE x \in Clients : life[x] = "none"
       IN  Construct(e, secured) /\ webClient' = e

\* webClient.reset(new ...), on a pointer that is null: no other thread makes a client.
BusCreates ==
    /\ pc[Bus] \in {"create", "createPlain"} /\ ~ended
    /\ NewClient(pc[Bus] = "create" /\ url = "wss")
    /\ Goto(Bus, "connect")
    /\ UNCHANGED <<url, fallback, pipeVars, apiMutex, op, held, calls, wpc, ghostVars, ended>>

\* connect: a uri that websocketpp refuses is logged and forgotten.
BusConnects ==
    \/ At(Bus, "connect") /\ ((webClient # NoClient /\ read(Bus, "connecting")) \/ Crash)
    \/ At(Bus, "connecting") /\ (Connect(held[Bus]) \/ UNCHANGED endpointVars)
       /\ release(Bus, "idle")
    \/ At(Bus, "connecting") /\ Dangles(Bus)

BusStep == BusPop \/ BusTest \/ BusType \/ BusSwaps \/ BusCreates \/ BusConnects

-------------------------------------------------------------------------------
(* The event loop thread of client e: wsConnectionStatus.                  *)

Failing(e) == callback[e][1] \in {"fail", "unauthenticated"} /\ ~ended

\* CONNECTED and DISCONNECTED change nothing.
WsOther(e) ==
    /\ ~Failing(e) /\ ~ended /\ Done(e) /\ UNCHANGED <<playerVars, ended>>

\* The connection failed: of which kind is webClient?  (An unsecured one: NETWORK_ERROR.)
\* getConnectionType is one step with the read: another thread cannot free the client
\* whose own event loop asks, and that the pointer is of another takes a client that was
\* lost before.
WsTest(e) ==
    /\ Failing(e) /\ wpc[e] = "idle"
    /\ IF webClient = NoClient THEN Done(e) /\ UNCHANGED wpc
       ELSE wpc' = [wpc EXCEPT ![e] = "type"] /\ UNCHANGED endpointVars
    /\ UNCHANGED <<url, fallback, webClient, pipeVars, stepVars, ghostVars, ended>>

WsType(e) ==
    /\ Failing(e) /\ wpc[e] = "type"
    /\ \/ /\ webClient # NoClient /\ tls[webClient]
          /\ fallback' = TRUE /\ wpc' = [wpc EXCEPT ![e] = "toggle"]
          /\ carried' = (carried \/ e # webClient)
          /\ UNCHANGED <<endpointVars, url, webClient, pipeVars, stepVars, refused, stopped, late,
                         raced, ended>>
       \/ /\ webClient # NoClient /\ ~tls[webClient]
          /\ Done(e) /\ wpc' = [wpc EXCEPT ![e] = "idle"]
          /\ UNCHANGED <<url, fallback, webClient, pipeVars, stepVars, refused, carried, stopped,
                         late, raced, ended>>
       \/ Crash

\* Mutant: the pipeline is left alone.
WsToggle_Quiet(e) ==
    /\ Failing(e) /\ wpc[e] = "toggle" /\ Done(e) /\ wpc' = [wpc EXCEPT ![e] = "idle"]
    /\ UNCHANGED <<pipe, url, fallback, webClient, playing, error, stepVars, ghostVars, ended>>

\* The pipeline goes to PAUSED and PLAYING, whatever its state, for the bus thread to see.
WsToggle(e) ==
    /\ Failing(e) /\ wpc[e] = "toggle" /\ Done(e) /\ wpc' = [wpc EXCEPT ![e] = "idle"]
    /\ pipe' = IF pipe = "drained" THEN pipe ELSE "starting"
    /\ UNCHANGED <<url, fallback, webClient, playing, error, stepVars, ghostVars, ended>>

Library(e) ==
    /\ ~ended
    /\ \/ ping(e) \/ LoopEnds(e)
       \/ \E c \in Conn : Owner[c] = e /\ (onOpen(c) \/ onClose(c) \/ onPong(c) \/ onPongTimeout(c)
                                     \/ GoesSilent(c))
    /\ UNCHANGED <<playerVars, ended>>

Refused(e) ==
    /\ ~ended /\ \E c \in Conn : Owner[c] = e /\ onFail(c)
    /\ refused' = IF tls[e] THEN refused \cup {e} ELSE refused
    /\ UNCHANGED <<url, fallback, webClient, pipeVars, stepVars, wpc, carried, stopped,
                   late, raced, ended>>

WsCallback(e) == WsOther(e) \/ WsTest(e) \/ WsType(e) \/ WsToggle(e)

-------------------------------------------------------------------------------
PlayerNext ==
    \/ \E t \in Callers : CallStop(t) \/ \E u \in {"ws", "wss"} : Play(t, u)
    \/ \E t \in Threads : StopStep(t)
    \/ StreamAdvances \/ StreamFails \/ BusStep
    \/ \E e \in Clients : WsCallback(e) \/ Library(e) \/ Refused(e)

\* Every thread runs; nobody calls, and the stream need not fail.
PlayerFairness ==
    /\ \A t \in Threads : WF_playerSysVars(StopStep(t))
    /\ WF_playerSysVars(StreamAdvances) /\ WF_playerSysVars(BusStep)
    /\ \A e \in Clients : WF_playerSysVars(WsCallback(e))

PlayerSpec == PlayerInit /\ [][PlayerNext]_playerSysVars /\ PlayerFairness /\ LibraryFairness

-------------------------------------------------------------------------------
(* Properties.                                                             *)

\* webClient never dangles.  Until the bus thread handles a PLAYING message while another
\* thread is in Stop, which no mutex keeps apart (AudioPlayer.cpp:639-664 and 861-870),
\* every client made is webClient or is awaited by the one thread that destroys it, and
\* nobody calls a client, or deletes one, that another thread has: neither two Stops, nor
\* the error of a stream, nor the event loops of the clients suffice.
NoClientLeaks ==
    /\ webClient # NoClient => life[webClient] = "alive"
    /\ raced \/ /\ \A e \in Clients : life[e] \in {"alive", "joining"}
                    => e = webClient \/ \E t \in Threads : held[t] = e
                /\ \A t, s \in Threads : t # s /\ held[t] # NoClient => held[t] # held[s]
                /\ \A t \in Threads : held[t] # NoClient =>
                       life[held[t]] = IF pc[t] \in {"join", "swapJoin"} THEN "joining" ELSE "alive"

\* A client nobody can reach: the null that Stop stores has overwritten it.
Lost(e) == life[e] = "alive" /\ e # webClient

\* After Stop, until the next Play, the player has no client, unless the bus thread
\* handled a message of the old stream during Stop: that one makes a client again; or
\* unless an earlier Stop lost a client, whose failure starts the pipeline.
SilentAfterStop ==
    stopped /\ ~late /\ (\A e \in Clients : ~Lost(e)) /\ (\A t \in Threads : pc[t] = "idle")
        => webClient = NoClient

Stopping == \E t \in Threads :
    pc[t] \in {"stop", "disconnect", "closing", "reset", "delete", "join", "silence"}

\* "Secured connection to %s failed. Retrying with unsecured." (AudioPlayer.cpp:502): a wss
\* client is swapped for an unsecured one only when its own attempt has failed, or a
\* client that is gone has left its flag behind;
SwapsTheRefused ==
    [][pc[Bus] = "typing" /\ pc'[Bus] = "swap" => held[Bus] \in refused \/ carried]_playerSysVars

\* and one whose attempt failed is replaced, or destroyed, unless a Stop or an error of
\* the stream comes in between.
FallbackFollows ==
    /\ SwapsTheRefused
    /\ (webClient \in refused)
        ~> (webClient \notin refused \/ Stopping \/ pipe \in {"null", "drained"} \/ ended)
===============================================================================

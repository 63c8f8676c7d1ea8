------------------------------ MODULE WSEndpoint ------------------------------
(***************************************************************************)
(* The endpoints of the WebSockets library: WSEndpoint with its roles      *)
(* (Client, SingleClientServer), its ping-pong and its event loop thread.  *)
(*                                                                         *)
(*   - Threads of the application construct, connect, disconnect and       *)
(*     destroy an endpoint; the destructor joins the event loop thread;    *)
(*   - the event loop thread of an endpoint runs the handlers, one at a    *)
(*     time; the callback of the application that a handler makes ends in  *)
(*     a later step, Done;                                                 *)
(*   - websocketpp keeps a session per connection, which outlives          *)
(*     connectionHandler_.                                                 *)
(*                                                                         *)
(* Time is not modelled: a timer or a timeout fires at any moment.         *)
(***************************************************************************)
EXTENDS Integers, FiniteSets

CONSTANTS Endpoint,
          Conn,       \* connections websocketpp may make
          Owner,      \* the endpoint of each
          Servers,    \* endpoints with the role SingleClientServer; the others are clients
          Pinging,    \* endpoints with PingPongEnabled
          NoConn

ASSUME EndpointAssumption ==
    /\ Owner \in [Conn -> Endpoint] /\ NoConn \notin Conn
    /\ Servers \subseteq Endpoint /\ Pinging \subseteq Endpoint
    /\ IsFiniteSet(Conn)

VARIABLES
    life,              \* of an endpoint
    tls,               \* it has TlsEnabled
    connectionHandler, \* connectionHandler_
    loop,              \* eventLoopThread_
    listening,
    callback,          \* what the event loop thread tells the application now
    timers,            \* ping timers that run
    session, pinged,   \* of a connection; pings unanswered
    peer,              \* the other side answers pings
    ended              \* the program has ended: a null pointer, an exception of a thread

endpointVars == <<life, tls, connectionHandler, loop, listening, callback, timers, session,
                  pinged, peer>>

Idle == <<"none", NoConn>>
Kinds == {"open", "fail", "unauthenticated", "close"}
Sessions == {"none", "connecting", "open", "closing", "closed"}

\* No connection has fewer timers or unanswered pings than none, and the callback under
\* way is one of the endpoint's connection handlers (WSEndpoint.cpp, PingPongEnabled.h).
EndpointTypeOK ==
    /\ life \in [Endpoint -> {"none", "alive", "joining", "gone"}]
    /\ tls \in [Endpoint -> BOOLEAN]
    /\ connectionHandler \in [Endpoint -> Conn \cup {NoConn}]
    /\ loop \in [Endpoint -> {"none", "running", "ended"}]
    /\ listening \in [Endpoint -> BOOLEAN]
    /\ callback \in [Endpoint -> {Idle} \cup (Kinds \X Conn)]
    /\ timers \in [Endpoint -> Nat]
    /\ session \in [Conn -> Sessions]
    /\ pinged \in [Conn -> Nat]
    /\ peer \in [Conn -> BOOLEAN] /\ ended \in BOOLEAN

EndpointInit ==
    /\ life = [e \in Endpoint |-> "none"] /\ tls = [e \in Endpoint |-> FALSE]
    /\ connectionHandler = [e \in Endpoint |-> NoConn]
    /\ loop = [e \in Endpoint |-> "none"] /\ listening = [e \in Endpoint |-> FALSE]
    /\ callback = [e \in Endpoint |-> Idle] /\ timers = [e \in Endpoint |-> 0]
    /\ session = [c \in Conn |-> "none"] /\ pinged = [c \in Conn |-> 0]
    /\ peer = [c \in Conn |-> TRUE] /\ ended = FALSE

Runs(e) == loop[e] = "running" /\ ~ended
LoopFree(e) == Runs(e) /\ callback[e] = Idle
Callback(e, kind, c) == callback' = [callback EXCEPT ![e] = <<kind, c>>]
Move(c, to) == session' = [session EXCEPT ![c] = to]

-------------------------------------------------------------------------------
(* Calls of the application.                                               *)

Construct(e, encrypted) ==
    /\ life[e] = "none" /\ life' = [life EXCEPT ![e] = "alive"]
    /\ tls' = [tls EXCEPT ![e] = encrypted]
    /\ UNCHANGED <<connectionHandler, loop, listening, callback, timers, session, pinged, peer>>

startEventLoop(e) == loop' = [loop EXCEPT ![e] = IF @ = "none" THEN "running" ELSE @]

\* A call may overlap the destructor, where threads of the application race.
Callable(e) == life[e] \in {"alive", "joining"}

\* Client::connect
Connect(e) ==
    /\ Callable(e) /\ e \notin Servers
    /\ \E c \in Conn : Owner[c] = e /\ session[c] = "none" /\ Move(c, "connecting")
    /\ startEventLoop(e)
    /\ UNCHANGED <<life, tls, connectionHandler, listening, callback, timers, pinged, peer>>

\* SingleClientServer::start, again after stop too.  If start_accept fails, the endpoint
\* listens without a thread; with a thread of an earlier start, nobody is accepted.
Start(e) ==
    /\ life[e] = "alive" /\ e \in Servers /\ ~listening[e]
    /\ listening' = [listening EXCEPT ![e] = TRUE]
    /\ startEventLoop(e) \/ UNCHANGED loop
    /\ UNCHANGED <<life, tls, connectionHandler, callback, timers, session, pinged, peer>>

closeConnection(e) ==
    session' = [c \in Conn |-> IF c = connectionHandler[e] /\ session[c] = "open"
                               THEN "closing" ELSE session[c]]

\* SingleClientServer::stop
Stop(e) ==
    /\ life[e] = "alive" /\ listening[e]
    /\ listening' = [listening EXCEPT ![e] = FALSE]
    /\ closeConnection(e)
    /\ UNCHANGED <<life, tls, connectionHandler, loop, callback, timers, pinged, peer>>

\* Client::disconnect
Disconnect(e) ==
    /\ Callable(e) /\ closeConnection(e)
    /\ UNCHANGED <<life, tls, connectionHandler, loop, listening, callback, timers, pinged, peer>>

\* The destructor, up to the join: stop_perpetual and closeConnection
Destroy(e) ==
    /\ life[e] = "alive" /\ life' = [life EXCEPT ![e] = "joining"]
    /\ closeConnection(e)
    /\ UNCHANGED <<tls, connectionHandler, loop, listening, callback, timers, pinged, peer>>

\* stopEventLoop has joined.
Joined(e) ==
    /\ life[e] = "joining" /\ loop[e] # "running" /\ ~ended
    /\ life' = [life EXCEPT ![e] = "gone"]
    /\ UNCHANGED <<tls, connectionHandler, loop, listening, callback, timers, session, pinged,
                   peer>>

-------------------------------------------------------------------------------
(* The event loop thread.                                                  *)

onOpen(c) ==
    /\ session[c] = "connecting" /\ LoopFree(Owner[c])
    /\ Move(c, "open") /\ Callback(Owner[c], "open", c)
    /\ connectionHandler' = [connectionHandler EXCEPT ![Owner[c]] = c]
    /\ UNCHANGED <<life, tls, loop, listening, timers, pinged, peer>>

\* What a failure may be, by setAuthenticationState
Failures(e) == {"fail"} \cup (IF tls[e] THEN {"unauthenticated"} ELSE {})

onFail(c) ==
    /\ session[c] = "connecting" /\ LoopFree(Owner[c])
    /\ Move(c, "closed") /\ \E kind \in Failures(Owner[c]) : Callback(Owner[c], kind, c)
    /\ UNCHANGED <<life, tls, connectionHandler, loop, listening, timers, pinged, peer>>

\* The other side closed it, or the closing handshake is over.
onClose(c) ==
    /\ session[c] \in {"open", "closing"} /\ LoopFree(Owner[c])
    /\ Move(c, "closed") /\ Callback(Owner[c], "close", c)
    /\ pinged' = [pinged EXCEPT ![c] = 0]
    /\ UNCHANGED <<life, tls, connectionHandler, loop, listening, timers, peer>>

\* Mutant: startPing has no effect.
Done_NoPing(e) ==
    /\ Runs(e) /\ callback[e] # Idle
    /\ callback' = [callback EXCEPT ![e] = Idle]
    /\ UNCHANGED <<life, tls, connectionHandler, loop, listening, timers, session, pinged, peer>>

\* The callback returns; after that of onOpen, startPing.
Done(e) ==
    /\ Runs(e) /\ callback[e] # Idle
    /\ callback' = [callback EXCEPT ![e] = Idle]
    /\ IF callback[e][1] = "open" /\ e \in Pinging
       THEN timers' = [timers EXCEPT ![e] = @ + 1] ELSE UNCHANGED timers
    /\ UNCHANGED <<life, tls, connectionHandler, loop, listening, session, pinged, peer>>

\* ping is sent on connectionHandler_, whichever connection armed the timer.
ping(e) ==
    /\ LoopFree(e) /\ timers[e] > 0
    /\ timers' = [timers EXCEPT ![e] = @ - 1]
    /\ LET h == connectionHandler[e] IN
       IF h # NoConn /\ session[h] = "open" THEN pinged' = [pinged EXCEPT ![h] = @ + 1]
       ELSE UNCHANGED pinged
    /\ UNCHANGED <<life, tls, connectionHandler, loop, listening, callback, session, peer>>

\* Mutant: the next ping is not scheduled.
onPong_NoSchedule(c) ==
    /\ LoopFree(Owner[c]) /\ session[c] = "open" /\ pinged[c] > 0 /\ peer[c]
    /\ pinged' = [pinged EXCEPT ![c] = @ - 1]
    /\ UNCHANGED <<timers, life, tls, connectionHandler, loop, listening, callback, session, peer>>

onPong(c) ==
    /\ LoopFree(Owner[c]) /\ session[c] = "open" /\ pinged[c] > 0 /\ peer[c]
    /\ pinged' = [pinged EXCEPT ![c] = @ - 1]
    /\ timers' = [timers EXCEPT ![Owner[c]] = @ + 1]
    /\ UNCHANGED <<life, tls, connectionHandler, loop, listening, callback, session, peer>>

\* closeConnection closes connectionHandler_, whichever connection timed out.
onPongTimeout(c) ==
    /\ LoopFree(Owner[c]) /\ session[c] = "open" /\ pinged[c] > 0 /\ ~peer[c]
    /\ pinged' = [pinged EXCEPT ![c] = 0]
    /\ closeConnection(Owner[c])
    /\ UNCHANGED <<life, tls, connectionHandler, loop, listening, callback, timers, peer>>

\* run() returns: not perpetual any more, and nothing left to wait for.
LoopEnds(e) ==
    /\ life[e] = "joining" /\ LoopFree(e) /\ ~listening[e] /\ timers[e] = 0
    /\ \A c \in Conn : Owner[c] = e => session[c] \in {"none", "closed"}
    /\ loop' = [loop EXCEPT ![e] = "ended"]
    /\ UNCHANGED <<life, tls, connectionHandler, listening, callback, timers, session, pinged, peer>>

\* websocketpp accepts one client after another while it listens.
Accept(c) ==
    /\ session[c] = "none" /\ listening[Owner[c]] /\ LoopFree(Owner[c])
    /\ Move(c, "connecting")
    /\ UNCHANGED <<life, tls, connectionHandler, loop, listening, callback, timers, pinged, peer>>

GoesSilent(c) ==
    /\ peer[c] /\ session[c] = "open" /\ peer' = [peer EXCEPT ![c] = FALSE]
    /\ UNCHANGED <<life, tls, connectionHandler, loop, listening, callback, timers, session, pinged>>

-------------------------------------------------------------------------------
Handler(c) == onOpen(c) \/ onFail(c) \/ onClose(c) \/ onPong(c) \/ onPongTimeout(c) \/ Accept(c)
Application(e) == \/ \E encrypted \in BOOLEAN : Construct(e, encrypted)
                  \/ Connect(e) \/ Start(e) \/ Stop(e) \/ Disconnect(e) \/ Destroy(e) \/ Joined(e)
EventLoop(e) == Done(e) \/ ping(e) \/ LoopEnds(e)

\* What endpoint e does, and its connections
EndpointStep(e) == \/ Application(e) \/ EventLoop(e)
                   \/ \E c \in Conn : Owner[c] = e /\ (Handler(c) \/ GoesSilent(c))

EndpointNext == UNCHANGED ended /\ \E e \in Endpoint : EndpointStep(e)

\* A handshake, an answer to a ping and a closing handshake have timeouts; the
\* other side need not close a connection it keeps.
Answer(c) == onOpen(c) \/ onFail(c) \/ onPong(c) \/ onPongTimeout(c)
             \/ (session[c] = "closing" /\ onClose(c))

LibraryFairness == /\ \A e \in Endpoint : WF_endpointVars(EventLoop(e) \/ Joined(e))
                   /\ \A c \in Conn : WF_endpointVars(Answer(c))

EndpointSpec == EndpointInit /\ [][EndpointNext]_<<endpointVars, ended>> /\ LibraryFairness

-------------------------------------------------------------------------------
(* Properties.                                                             *)

\* On an open connection of a client with PingPongEnabled, from the end of the
\* callback of onOpen on, one ping is scheduled or unanswered: the chain of pings
\* neither dies (which would leave a dead peer unnoticed) nor doubles.
OnePing == \A c \in Conn :
    LET e == Owner[c] IN
    (e \in Pinging \ Servers /\ session[c] = "open" /\ callback[e] # <<"open", c>>)
        => timers[e] + pinged[c] = 1

\* A connection the endpoint holds whose peer answers no ping is closed.
SilentPeerDropped == \A c \in Conn :
    (Owner[c] \in Pinging /\ connectionHandler[Owner[c]] = c /\ session[c] = "open" /\ ~peer[c])
        ~> (session[c] = "closed" \/ connectionHandler[Owner[c]] # c \/ ended)

\* The destructor returns, unless the server still listens, or a connection opened
\* after closeConnection had nothing to close: nobody closes that one.
DestructorReturns == \A e \in Endpoint :
    (life[e] = "joining")
        ~> (life[e] = "gone" \/ listening[e] \/ ended
            \/ \E c \in Conn : Owner[c] = e /\ session[c] = "open")

\* Every connection ends that its peer or its endpoint has given up: the pings find a
\* silent peer out, and the destructor waits for no more than what it has closed.
ConnectionsEnd == SilentPeerDropped /\ DestructorReturns
===============================================================================

--------------------------- MODULE WebSocketsProofs ---------------------------
(***************************************************************************)
(* The WebSockets library and its users, for any number of endpoints,      *)
(* connections, threads, requests and calls.                               *)
(*                                                                         *)
(*   - endpoints: the types, and the chain of pings of a client;           *)
(*   - the player: in whose hands its clients are, whom a Stop silences,   *)
(*     and which client the fallback replaces;                             *)
(*   - requests: to whom a promise belongs, and when a response ends the   *)
(*     program; commands: whose answer a command returns;                  *)
(*   - the composition: all of it with any of the users at work, and that  *)
(*     whoever uses the library implements its specification.              *)
(***************************************************************************)
EXTENDS MCWebSockets, TLAPS

USE EndpointAssumption, PlayerAssumption, MessagingAssumption

-------------------------------------------------------------------------------
(* Types.                                                                  *)

\* What closeConnection leaves of the sessions
LEMMA ClosingFacts ==
  ASSUME EndpointTypeOK, NEW e \in Endpoint, closeConnection(e)
  PROVE  /\ session' \in [Conn -> Sessions]
         /\ \A c \in Conn : session'[c] = session[c] \/ (session[c] = "open" /\ session'[c] = "closing")
  BY DEF EndpointTypeOK, closeConnection, Sessions

\* Each call of the application keeps the types.
LEMMA ApplicationTypes ==
  ASSUME EndpointTypeOK, NEW e \in Endpoint, Application(e), ended' = ended
  PROVE  EndpointTypeOK'
<1>1. CASE \E encrypted \in BOOLEAN : Construct(e, encrypted)
  BY <1>1 DEF EndpointTypeOK, Construct
<1>2. CASE Connect(e)
  BY <1>2 DEF EndpointTypeOK, Connect, Move, startEventLoop, Sessions
<1>3. CASE Start(e)
  BY <1>3 DEF EndpointTypeOK, Start, startEventLoop
<1>4. CASE Stop(e) \/ Disconnect(e) \/ Destroy(e)
  <2>1. session' \in [Conn -> Sessions]
    BY <1>4, ClosingFacts DEF Stop, Disconnect, Destroy
  <2> QED
    BY <1>4, <2>1 DEF EndpointTypeOK, Stop, Disconnect, Destroy
<1>5. CASE Joined(e)
  BY <1>5 DEF EndpointTypeOK, Joined
<1> QED
  BY <1>1, <1>2, <1>3, <1>4, <1>5 DEF Application

\* So does each step of the event loop,
LEMMA LoopTypes ==
  ASSUME EndpointTypeOK, NEW e \in Endpoint, EventLoop(e), ended' = ended
  PROVE  EndpointTypeOK'
<1>1. CASE Done(e)
  BY <1>1 DEF EndpointTypeOK, Done
<1>2. CASE ping(e)
  BY <1>2 DEF EndpointTypeOK, ping
<1>3. CASE LoopEnds(e)
  BY <1>3 DEF EndpointTypeOK, LoopEnds
<1> QED
  BY <1>1, <1>2, <1>3 DEF EventLoop

\* and each handler of a connection.
LEMMA HandlerTypes ==
  ASSUME EndpointTypeOK, NEW c \in Conn, Handler(c) \/ GoesSilent(c), ended' = ended
  PROVE  EndpointTypeOK'
<1>0. Owner[c] \in Endpoint
  OBVIOUS
<1>1. CASE onOpen(c)
  BY <1>0, <1>1 DEF EndpointTypeOK, onOpen, Move, Callback, Kinds, Sessions
<1>2. CASE onFail(c)
  <2>1. \A kind \in Failures(Owner[c]) : <<kind, c>> \in Kinds \X Conn
    BY DEF Failures, Kinds
  <2> QED
    BY <1>0, <1>2, <2>1 DEF EndpointTypeOK, onFail, Move, Callback, Sessions
<1>3. CASE onClose(c)
  BY <1>0, <1>3 DEF EndpointTypeOK, onClose, Move, Callback, Kinds, Sessions
<1>4. CASE onPong(c)
  BY <1>0, <1>4 DEF EndpointTypeOK, onPong
<1>5. CASE onPongTimeout(c)
  <2>1. session' \in [Conn -> Sessions]
    BY <1>0, <1>5, ClosingFacts DEF onPongTimeout
  <2> QED
    BY <1>5, <2>1 DEF EndpointTypeOK, onPongTimeout
<1>6. CASE Accept(c)
  BY <1>6 DEF EndpointTypeOK, Accept, Move, Sessions
<1>7. CASE GoesSilent(c)
  BY <1>7 DEF EndpointTypeOK, GoesSilent
<1> QED
  BY <1>1, <1>2, <1>3, <1>4, <1>5, <1>6, <1>7 DEF Handler

\* A step of an endpoint keeps the types.
LEMMA EndpointTypes ==
  ASSUME EndpointTypeOK, NEW e \in Endpoint, EndpointStep(e), ended' = ended
  PROVE  EndpointTypeOK'
  BY ApplicationTypes, LoopTypes, HandlerTypes DEF EndpointStep

LEMMA InitialTypes ==
  ASSUME EndpointInit
  PROVE  EndpointTypeOK
<1>1. /\ callback \in [Endpoint -> {Idle} \cup (Kinds \X Conn)]
      /\ connectionHandler \in [Endpoint -> Conn \cup {NoConn}]
  BY DEF EndpointInit
<1>2. timers \in [Endpoint -> Nat] /\ pinged \in [Conn -> Nat]
  BY DEF EndpointInit
<1>3. session \in [Conn -> Sessions] /\ peer \in [Conn -> BOOLEAN] /\ ended \in BOOLEAN
  BY DEF EndpointInit, Sessions
<1>4. /\ life \in [Endpoint -> {"none", "alive", "joining", "gone"}]
      /\ tls \in [Endpoint -> BOOLEAN] /\ listening \in [Endpoint -> BOOLEAN]
      /\ loop \in [Endpoint -> {"none", "running", "ended"}]
  BY DEF EndpointInit
<1> QED
  BY <1>1, <1>2, <1>3, <1>4 DEF EndpointTypeOK

\* A step in which nothing of the endpoints changes keeps the types.
LEMMA TypesStutter ==
  ASSUME EndpointTypeOK, UNCHANGED endpointVars, ended' \in BOOLEAN
  PROVE  EndpointTypeOK'
  BY DEF EndpointTypeOK, endpointVars

\* Every variable of the endpoints keeps its type: no counter of timers or pings goes
\* below zero.
THEOREM EndpointTyped == EndpointSpec => []EndpointTypeOK
<1>1. EndpointTypeOK /\ [EndpointNext]_<<endpointVars, ended>> => EndpointTypeOK'
  <2> SUFFICES ASSUME EndpointTypeOK, [EndpointNext]_<<endpointVars, ended>>
               PROVE  EndpointTypeOK'
    OBVIOUS
  <2>1. CASE EndpointNext
    BY <2>1, EndpointTypes DEF EndpointNext
  <2>2. CASE UNCHANGED <<endpointVars, ended>>
    <3>1. ended' \in BOOLEAN
      BY <2>2 DEF EndpointTypeOK
    <3> QED
      BY <2>2, <3>1, TypesStutter
  <2> QED
    BY <2>1, <2>2
<1> QED
  BY <1>1, InitialTypes, PTL DEF EndpointSpec

-------------------------------------------------------------------------------
(* The chain of pings.                                                     *)

\* What the endpoints do in every use of the library: the specification of the endpoints,
\* whatever the application does besides
AnyUse == EndpointInit /\ [][EndpointNext]_endpointVars

\* A client connects once: AudioPlayer makes a new client for each connection
\* (AudioPlayer.cpp:649-663).
ConnectsOnce == \A c, d \in Conn :
    (Owner[c] = Owner[d] /\ Owner[c] \notin Servers /\ session[c] # "none" /\ session[d] # "none")
        => c = d

Unused(e) == \A c \in Conn : Owner[c] = e => session[c] = "none"

\* connectionHandler_ is of a connection of the endpoint.
Held == \A e \in Endpoint : connectionHandler[e] # NoConn => Owner[connectionHandler[e]] = e

\* A client that has not connected has no timer, and no onOpen.
Fresh(e) == Unused(e) => timers[e] = 0 /\ callback[e][1] # "open"

\* The chain of the connection c of client e begins when the callback of onOpen returns:
\* before it there is no timer and no ping.  The callback on its way is of c.
Chain(c, e) ==
    /\ session[c] \in {"none", "connecting"} => pinged[c] = 0 /\ callback[e] # <<"open", c>>
    /\ session[c] = "connecting" => timers[e] = 0
    /\ session[c] = "open" =>
           /\ connectionHandler[e] = c
           /\ callback[e] = <<"open", c>> => timers[e] = 0 /\ pinged[c] = 0
           /\ callback[e] # <<"open", c>> => timers[e] + pinged[c] = 1
    /\ session[c] # "none" /\ callback[e][1] = "open" => callback[e] = <<"open", c>>

Chains == /\ \A e \in Pinging \ Servers : Fresh(e)
          /\ \A c \in Conn : Owner[c] \in Pinging \ Servers => Chain(c, Owner[c])

\* connectionHandler_ is only ever that of a connection of the endpoint.
LEMMA HeldStep ==
  ASSUME EndpointTypeOK, Held, NEW e \in Endpoint, EndpointStep(e)
  PROVE  Held'
<1>1. CASE \E c \in Conn : onOpen(c)
  BY <1>1 DEF EndpointTypeOK, Held, onOpen
<1>2. CASE UNCHANGED connectionHandler
  BY <1>2 DEF Held
<1> QED
  BY <1>1, <1>2 DEF EndpointStep, Application, EventLoop, Handler, Construct, Connect, Start, Stop,
     Disconnect, Destroy, Joined, onFail, onClose, Done, ping, onPong, onPongTimeout, LoopEnds,
     Accept, GoesSilent

\* A step of an endpoint touches no other endpoint, and no connection of another.
LEMMA OthersUntouched ==
  ASSUME EndpointTypeOK, Held, NEW e \in Endpoint, EndpointStep(e)
  PROVE  /\ \A d \in Endpoint \ {e} :
                /\ timers'[d] = timers[d] /\ callback'[d] = callback[d]
                /\ connectionHandler'[d] = connectionHandler[d]
         /\ \A c \in Conn : Owner[c] # e => session'[c] = session[c] /\ pinged'[c] = pinged[c]
<1> DEFINE Untouched ==
      /\ \A d \in Endpoint \ {e} :
             /\ timers'[d] = timers[d] /\ callback'[d] = callback[d]
             /\ connectionHandler'[d] = connectionHandler[d]
      /\ \A c \in Conn : Owner[c] # e => session'[c] = session[c] /\ pinged'[c] = pinged[c]
<1>0. \A c \in Conn : Owner[c] # e => connectionHandler[e] # c
  BY DEF Held
<1>1. CASE Application(e)
  BY <1>0, <1>1 DEF EndpointTypeOK, Application, Construct, Connect, Start, Stop, Disconnect,
     Destroy, Joined, closeConnection, Move
<1>2. CASE EventLoop(e)
  BY <1>0, <1>2 DEF EndpointTypeOK, EventLoop, Done, ping, LoopEnds
<1>3. ASSUME NEW c \in Conn, Owner[c] = e, Handler(c) \/ GoesSilent(c)
      PROVE  Untouched
  BY <1>0, <1>3 DEF EndpointTypeOK, Handler, GoesSilent, onOpen, onFail, onClose, onPong,
     onPongTimeout, Accept, closeConnection, Move, Callback
<1> QED
  BY <1>1, <1>2, <1>3 DEF EndpointStep

\* No connection is unmade.
LEMMA SessionsStay ==
  ASSUME EndpointTypeOK, NEW e \in Endpoint, EndpointStep(e)
  PROVE  \A c \in Conn : session[c] # "none" => session'[c] # "none"
<1>1. CASE \E c \in Conn : Handler(c) \/ GoesSilent(c)
  BY <1>1 DEF EndpointTypeOK, Handler, GoesSilent, onOpen, onFail, onClose, onPong,
     onPongTimeout, Accept, closeConnection, Move
<1>2. CASE Application(e) \/ EventLoop(e)
  BY <1>2 DEF EndpointTypeOK, Application, Construct, Connect, Start, Stop, Disconnect,
     Destroy, Joined, closeConnection, Move, EventLoop, Done, ping, LoopEnds
<1> QED
  BY <1>1, <1>2 DEF EndpointStep

\* A step of client e that connects at most once keeps the chain of its connection c.
LEMMA OwnChain ==
  ASSUME EndpointTypeOK, ConnectsOnce, ConnectsOnce', NEW c \in Conn, NEW e \in Endpoint,
         e = Owner[c], e \in Pinging \ Servers, EndpointStep(e), Fresh(e), Chain(c, e)
  PROVE  Chain(c, e)'
<1>0. /\ c # NoConn /\ timers[e] \in Nat /\ pinged[c] \in Nat
      /\ session[c] \in Sessions /\ callback[e] \in {Idle} \cup (Kinds \X Conn)
      /\ Idle # <<"open", c>> /\ Idle[1] # "open"
  BY DEF EndpointTypeOK, Idle
<1>a. session[c] = "none" /\ session'[c] # "none" => timers[e] = 0 /\ callback[e][1] # "open"
  <2> SUFFICES ASSUME session[c] = "none", session'[c] # "none" PROVE Unused(e)
    BY DEF Fresh
  <2>1. \A d \in Conn : Owner[d] = e /\ session[d] # "none" => session'[d] # "none"
    BY SessionsStay
  <2> QED
    BY <2>1 DEF ConnectsOnce, Unused
<1>1. CASE Application(e)
  <2>1. UNCHANGED <<callback, timers, pinged, connectionHandler>>
    BY <1>1 DEF Application, Construct, Connect, Start, Stop, Disconnect, Destroy, Joined
  <2>2. \/ session'[c] = session[c]
        \/ session[c] = "none" /\ session'[c] = "connecting"
        \/ session[c] = "open" /\ session'[c] = "closing"
    BY <1>1 DEF EndpointTypeOK, Application, Construct, Connect, Start, Stop, Disconnect,
       Destroy, Joined, closeConnection, Move
  <2>3. CASE session[c] = "none" /\ session'[c] = "connecting"
    BY <1>0, <1>a, <2>1, <2>3 DEF Chain
  <2> QED
    BY <1>0, <2>1, <2>2, <2>3 DEF Chain
<1>2. CASE Done(e)
  <2>1. CASE callback[e] = <<"open", c>>
    <3>1. /\ callback'[e] = Idle /\ timers'[e] = timers[e] + 1
          /\ UNCHANGED <<session, pinged, connectionHandler>>
      BY <1>2, <2>1 DEF EndpointTypeOK, Done
    <3> QED
      BY <1>0, <2>1, <3>1 DEF Chain
  <2>2. CASE callback[e] # <<"open", c>> /\ session[c] # "none"
    <3>1. /\ callback'[e] = Idle /\ timers'[e] = timers[e]
          /\ UNCHANGED <<session, pinged, connectionHandler>>
      BY <1>2, <2>2 DEF EndpointTypeOK, Done, Chain
    <3> QED
      BY <1>0, <2>2, <3>1 DEF Chain
  <2>3. CASE session[c] = "none"
    <3>1. callback'[e] = Idle /\ UNCHANGED <<session, pinged>>
      BY <1>2 DEF EndpointTypeOK, Done
    <3> QED
      BY <1>0, <2>3, <3>1 DEF Chain
  <2> QED
    BY <2>1, <2>2, <2>3
<1>3. CASE ping(e)
  <2>1. callback[e] = Idle /\ timers[e] > 0 /\ timers'[e] = timers[e] - 1
        /\ UNCHANGED <<session, callback, connectionHandler>>
    BY <1>3 DEF EndpointTypeOK, ping, LoopFree
  <2>2. session[c] = "open" => pinged'[c] = pinged[c] + 1
    BY <1>0, <1>3 DEF EndpointTypeOK, ping, Chain
  <2>3. session[c] # "connecting"
    BY <1>0, <2>1 DEF Chain
  <2>4. session[c] = "none" => pinged'[c] = pinged[c]
    BY <1>3 DEF EndpointTypeOK, ping
  <2> QED
    BY <1>0, <2>1, <2>2, <2>3, <2>4 DEF Chain
<1>4. CASE LoopEnds(e)
  BY <1>4 DEF LoopEnds, Chain
<1>5. CASE onOpen(c)
  <2>1. /\ session[c] = "connecting" /\ session'[c] = "open" /\ callback'[e] = <<"open", c>>
        /\ connectionHandler'[e] = c /\ UNCHANGED <<timers, pinged>>
    BY <1>5 DEF EndpointTypeOK, onOpen, Move, Callback
  <2> QED
    BY <2>1 DEF Chain
<1>6. CASE onFail(c) \/ onClose(c)
  <2>1. session'[c] = "closed" /\ callback'[e][1] # "open"
    BY <1>6 DEF EndpointTypeOK, onFail, onClose, Move, Callback, Failures
  <2> QED
    BY <2>1 DEF Chain
<1>7. CASE onPong(c)
  <2>1. /\ session[c] = "open" /\ pinged[c] > 0 /\ callback[e] = Idle
        /\ pinged'[c] = pinged[c] - 1 /\ timers'[e] = timers[e] + 1
        /\ UNCHANGED <<session, callback, connectionHandler>>
    BY <1>7 DEF EndpointTypeOK, onPong, LoopFree
  <2> QED
    BY <1>0, <2>1 DEF Chain
<1>8. CASE onPongTimeout(c)
  <2>1. session'[c] = "closing" /\ callback'[e] = Idle
    BY <1>8 DEF EndpointTypeOK, onPongTimeout, closeConnection, LoopFree, Chain
  <2> QED
    BY <1>0, <2>1 DEF Chain
<1>9. CASE Accept(c)
  <2>1. /\ session[c] = "none" /\ session'[c] = "connecting"
        /\ UNCHANGED <<callback, timers, pinged, connectionHandler>>
    BY <1>9 DEF EndpointTypeOK, Accept, Move
  <2> QED
    BY <1>0, <1>a, <2>1 DEF Chain
<1>10. CASE GoesSilent(c)
  BY <1>10 DEF GoesSilent, Chain
<1>11. ASSUME NEW d \in Conn, d # c, Owner[d] = e, Handler(d) \/ GoesSilent(d)
       PROVE  Chain(c, e)'
  <2>1. session'[d] # "none"
    BY <1>11 DEF EndpointTypeOK, Handler, GoesSilent, onOpen, onFail, onClose, onPong,
       onPongTimeout, Accept, closeConnection, Move
  <2>2. session'[c] = "none" /\ session[c] = "none"
    BY <1>11, <2>1, SessionsStay DEF ConnectsOnce
  <2>3. pinged'[c] = pinged[c]
    BY <1>11 DEF EndpointTypeOK, Handler, GoesSilent, onOpen, onFail, onClose, onPong,
       onPongTimeout, Accept
  <2>4. callback'[e] = callback[e] \/ \E kind \in Kinds : callback'[e] = <<kind, d>>
    BY <1>11 DEF EndpointTypeOK, Handler, GoesSilent, onOpen, onFail, onClose, onPong,
       onPongTimeout, Accept, Callback, Failures, Kinds
  <2>5. callback'[e] # <<"open", c>>
    BY <1>11, <2>2, <2>4 DEF Chain
  <2> QED
    BY <2>2, <2>3, <2>5 DEF Chain
<1> QED
  BY <1>1, <1>2, <1>3, <1>4, <1>5, <1>6, <1>7, <1>8, <1>9, <1>10, <1>11
     DEF EndpointStep, EventLoop, Handler

\* Without a connection there is nothing to arm a timer.
LEMMA FreshStep ==
  ASSUME EndpointTypeOK, NEW e \in Endpoint, EndpointStep(e), Fresh(e)
  PROVE  Fresh(e)'
<1> SUFFICES ASSUME Unused(e)' PROVE timers'[e] = 0 /\ callback'[e][1] # "open"
  BY DEF Fresh
<1>1. Unused(e) /\ timers[e] = 0 /\ callback[e][1] # "open"
  BY SessionsStay DEF Unused, Fresh
<1>2. ASSUME NEW c \in Conn, Owner[c] = e, Handler(c) \/ GoesSilent(c) PROVE FALSE
  BY <1>1, <1>2 DEF Unused, EndpointTypeOK, Handler, GoesSilent, onOpen, onFail, onClose, onPong,
     onPongTimeout, Accept, Move
<1>3. CASE Application(e)
  BY <1>1, <1>3 DEF Application, Construct, Connect, Start, Stop, Disconnect, Destroy, Joined
<1>4. CASE EventLoop(e)
  BY <1>1, <1>4 DEF EndpointTypeOK, EventLoop, Done, ping, LoopEnds, Idle
<1> QED
  BY <1>2, <1>3, <1>4 DEF EndpointStep

\* A step of any endpoint keeps the chains of all.
LEMMA ChainsStep ==
  ASSUME EndpointTypeOK, Held, Chains, ConnectsOnce, ConnectsOnce', NEW e \in Endpoint,
         EndpointStep(e)
  PROVE  Chains'
<1>1. ASSUME NEW d \in Pinging \ Servers PROVE Fresh(d)'
  <2>1. CASE d = e
    BY <1>1, <2>1, FreshStep DEF Chains
  <2>2. CASE d # e
    BY <1>1, <2>2, OthersUntouched DEF Chains, Fresh, Unused
  <2> QED
    BY <2>1, <2>2
<1>2. ASSUME NEW c \in Conn, Owner[c] \in Pinging \ Servers PROVE Chain(c, Owner[c])'
  <2>1. CASE Owner[c] = e
    BY <1>2, <2>1, OwnChain DEF Chains
  <2>2. CASE Owner[c] # e
    <3>1. Chain(c, Owner[c]) /\ Owner[c] \in Endpoint
      BY <1>2 DEF Chains
    <3> QED
      BY <2>2, <3>1, OthersUntouched DEF Chain
  <2> QED
    BY <2>1, <2>2
<1> QED
  BY <1>1, <1>2 DEF Chains

\* However often connections open, fail, close and time out, and whatever the library is
\* used for: on an open connection of a client that connects once, one ping is scheduled
\* or unanswered, so that a dead peer is always found out.
THEOREM PingChain == AnyUse /\ []EndpointTypeOK /\ []ConnectsOnce => []OnePing
<1>1. EndpointInit => Held /\ Chains
  BY DEF EndpointInit, Held, Chains, Chain, Fresh, Idle
<1>2. ASSUME Held, Chains, EndpointTypeOK, ConnectsOnce, ConnectsOnce', [EndpointNext]_endpointVars
      PROVE  Held' /\ Chains'
  <2>1. CASE EndpointNext
    BY <1>2, <2>1, HeldStep, ChainsStep DEF EndpointNext
  <2>2. CASE UNCHANGED endpointVars
    BY <1>2, <2>2 DEF Held, Chains, Chain, Fresh, Unused, endpointVars
  <2> QED
    BY <1>2, <2>1, <2>2
<1>3. Chains => OnePing
  BY DEF Chains, Chain, OnePing
<1> QED
  BY <1>1, <1>2, <1>3, PTL DEF AnyUse

-------------------------------------------------------------------------------
(* The player and its clients.                                             *)

InCall == {"typing", "closing", "swapClosing", "connecting"}
Joining == {"join", "swapJoin"}
Deleting == {"delete", "swapDelete"}

\* A thread in a call of a client, or that waits for one it destroys, has read its pointer.
Handed ==
    /\ \A t \in Threads : pc[t] \in InCall \cup Joining => held[t] # NoClient
    /\ \A t \in Threads : held[t] # NoClient => pc[t] \in InCall \cup Joining \cup Deleting

\* A step of the player is a step of one endpoint, or leaves the endpoints alone.
LEMMA PlayerEndpoints ==
  ASSUME PlayerTypeOK, Handed, PlayerNext
  PROVE  \/ UNCHANGED endpointVars /\ ended' \in BOOLEAN
         \/ ended' = ended /\ \E e \in Endpoint : EndpointStep(e)
<1> DEFINE Goal == \/ UNCHANGED endpointVars /\ ended' \in BOOLEAN
                   \/ ended' = ended /\ \E e \in Endpoint : EndpointStep(e)
<1>0. /\ ended \in BOOLEAN /\ Clients \subseteq Endpoint /\ Bus \in Threads
      /\ \A t \in Threads : held[t] # NoClient => held[t] \in Endpoint
      /\ \A t \in Threads : pc[t] \in InCall \cup Joining => held[t] \in Endpoint
  BY DEF PlayerTypeOK, EndpointTypeOK, Handed, Threads
<1>1. ASSUME NEW t \in Callers, CallStop(t) \/ \E u \in {"ws", "wss"} : Play(t, u)
      PROVE  Goal
  BY <1>0, <1>1 DEF CallStop, Play
<1>2. ASSUME NEW t \in Threads, NEW next, disconnect(t, next), pc[t] \in InCall PROVE Goal
  BY <1>0, <1>2 DEF disconnect, release, EndpointStep, Application
<1>3. ASSUME NEW t \in Threads, NEW joins, NEW next, reset(t, joins, next) PROVE Goal
  BY <1>0, <1>3 DEF reset, EndpointStep, Application
<1>4. ASSUME NEW t \in Threads, NEW next, join(t, next), pc[t] \in Joining PROVE Goal
  BY <1>0, <1>4 DEF join, release, EndpointStep, Application
<1>5. ASSUME Dies \/ Crash PROVE Goal
  BY <1>5 DEF Crash, Dies
<1>6. ASSUME NEW t \in Threads, NEW next, read(t, next) \/ Dangles(t) PROVE Goal
  BY <1>0, <1>5, <1>6 DEF read, Dangles
<1>7. ASSUME NEW t \in Threads, StopStep(t) PROVE Goal
  <2>1. CASE StopBegins(t) \/ StopSilences(t) \/ Begin(t)
    BY <1>0, <2>1 DEF StopBegins, StopSilences, Begin
  <2>2. CASE StopDisconnects(t) \/ StopResets(t) \/ StopJoins(t)
    BY <1>2, <1>3, <1>4, <1>5, <1>6, <2>2 DEF StopDisconnects, StopResets, StopJoins, At,
       InCall, Joining
  <2> QED
    BY <1>7, <2>1, <2>2 DEF StopStep
<1>8. CASE StreamAdvances \/ StreamFails \/ BusPop \/ BusTest
  BY <1>0, <1>8 DEF StreamAdvances, StreamFails, BusPop, BusTest
<1>9. CASE BusType
  BY <1>0, <1>5, <1>6, <1>9 DEF BusType, release
<1>10. CASE BusSwaps
  BY <1>0, <1>2, <1>3, <1>4, <1>5, <1>6, <1>10 DEF BusSwaps, At, InCall, Joining
<1>11. CASE BusCreates
  <2>1. PICK e \in Clients : Construct(e, pc[Bus] = "create" /\ url = "wss")
    BY <1>11 DEF BusCreates, NewClient
  <2> QED
    BY <1>0, <1>11, <2>1 DEF BusCreates, EndpointStep, Application
<1>12. CASE BusConnects
  <2>1. CASE At(Bus, "connecting") /\ (Connect(held[Bus]) \/ UNCHANGED endpointVars)
             /\ release(Bus, "idle")
    BY <1>0, <2>1 DEF release, At, InCall, EndpointStep, Application
  <2> QED
    BY <1>0, <1>5, <1>6, <1>12, <2>1 DEF BusConnects
<1>13. ASSUME NEW e \in Clients, WsCallback(e) PROVE Goal
  <2>1. Done(e) => EndpointStep(e)
    BY DEF EndpointStep, EventLoop
  <2> QED
    BY <1>0, <1>5, <1>13, <2>1 DEF WsCallback, WsOther, WsTest, WsType, WsToggle
<1>14. ASSUME NEW e \in Clients, Library(e) \/ Refused(e) PROVE Goal
  <2>1. EndpointStep(e) /\ UNCHANGED ended
    BY <1>14 DEF Library, Refused, EndpointStep, EventLoop, Handler
  <2> QED
    BY <1>0, <2>1
<1> QED
  BY <1>1, <1>7, <1>8, <1>9, <1>10, <1>11, <1>12, <1>13, <1>14 DEF PlayerNext, BusStep

\* The types of what is not of the endpoints
OwnTypes ==
    /\ url \in {"ws", "wss"} /\ fallback \in BOOLEAN
    /\ webClient \in Clients \cup {NoClient}
    /\ pipe \in {"null", "starting", "playing", "drained"}
    /\ playing \in Nat /\ error \in BOOLEAN
    /\ apiMutex \in Threads \cup {Nobody}
    /\ pc \in [Threads -> Steps] /\ op \in [Threads -> {"none", "play", "stop", "error"}]
    /\ held \in [Threads -> Clients \cup {NoClient}]
    /\ wpc \in [Endpoint -> {"idle", "type", "toggle"}]
    /\ calls \in 0 .. MaxCalls
    /\ refused \subseteq Clients /\ carried \in BOOLEAN
    /\ stopped \in BOOLEAN /\ late \in BOOLEAN /\ raced \in BOOLEAN

LEMMA OwnTypesFrame ==
  ASSUME OwnTypes, UNCHANGED playerVars
  PROVE  OwnTypes'
  BY DEF OwnTypes, playerVars, pipeVars, stepVars, ghostVars

\* Each step keeps those.
LEMMA OwnTypesStep ==
  ASSUME OwnTypes, EndpointTypeOK, PlayerNext
  PROVE  OwnTypes'
<1>0. Bus \in Threads
  BY DEF Threads
<1> USE <1>0 DEF OwnTypes, Goto, Steps, Handling
<1>1. ASSUME NEW t \in Callers, CallStop(t) PROVE OwnTypes'
  BY <1>1 DEF CallStop, Threads, pipeVars, ghostVars
<1>2. ASSUME NEW t \in Callers, NEW u \in {"ws", "wss"}, Play(t, u) PROVE OwnTypes'
  BY <1>2 DEF Play, Threads, pipeVars, ghostVars
<1>3. ASSUME NEW t \in Threads, NEW next \in Steps, disconnect(t, next) PROVE OwnTypes'
  BY <1>3 DEF disconnect, release, pipeVars, ghostVars
<1>4. ASSUME NEW t \in Threads, NEW joins \in Steps, NEW next \in Steps, reset(t, joins, next)
      PROVE OwnTypes'
  <2>1. pc' \in [Threads -> Steps] /\ carried' \in BOOLEAN /\ webClient' = NoClient
    BY <1>4 DEF reset
  <2> QED
    BY <1>4, <2>1 DEF reset, pipeVars
<1>5. ASSUME NEW t \in Threads, NEW next \in Steps, join(t, next) \/ read(t, next) \/ release(t, next)
      PROVE OwnTypes'
  BY <1>5 DEF join, read, release, pipeVars, ghostVars
<1>6. ASSUME NEW t \in Threads, Crash \/ Dies \/ Dangles(t) PROVE OwnTypes'
  BY <1>6, OwnTypesFrame DEF Crash, Dangles, Dies
<1>7. ASSUME NEW t \in Threads, StopStep(t) PROVE OwnTypes'
  <2>1. CASE StopBegins(t)
    BY <2>1 DEF StopBegins, pipeVars
  <2>2. CASE StopSilences(t)
    BY <2>2 DEF StopSilences
  <2>3. CASE Begin(t)
    BY <2>3 DEF Begin
  <2>4. CASE StopDisconnects(t) \/ StopResets(t) \/ StopJoins(t)
    BY <1>3, <1>4, <1>5, <1>6, <2>4 DEF StopDisconnects, StopResets, StopJoins
  <2> QED
    BY <1>7, <2>1, <2>2, <2>3, <2>4 DEF StopStep
<1>8. CASE StreamAdvances \/ StreamFails
  <2>1. playing' \in Nat
    BY <1>8 DEF StreamAdvances, StreamFails
  <2> QED
    BY <1>8, <2>1 DEF StreamAdvances, StreamFails, stepVars, ghostVars
<1>9. CASE BusPop
  <2>1. playing' \in Nat
    BY <1>9 DEF BusPop
  <2>2. error' \in BOOLEAN /\ late' \in BOOLEAN /\ raced' \in BOOLEAN
    BY <1>9 DEF BusPop
  <2>3. pc' \in [Threads -> Steps] /\ op' \in [Threads -> {"none", "play", "stop", "error"}]
    BY <1>9 DEF BusPop
  <2> QED
    BY <1>9, <2>1, <2>2, <2>3 DEF BusPop
<1>10. CASE BusTest
  BY <1>10 DEF BusTest, pipeVars, ghostVars
<1>11. CASE BusType
  <2>1. CASE /\ UNCHANGED <<url, webClient, pipeVars, apiMutex, op, calls, wpc, ghostVars>>
             /\ fallback' \in BOOLEAN /\ pc' \in [Threads -> Steps]
             /\ held' \in [Threads -> Clients \cup {NoClient}]
    BY <2>1 DEF pipeVars, ghostVars
  <2>2. CASE Crash \/ Dangles(Bus) \/ read(Bus, "typing") \/ release(Bus, "idle")
    BY <1>5, <1>6, <2>2
  <2>3. CASE /\ fallback' = FALSE /\ Goto(Bus, "swap")
             /\ held' = [held EXCEPT ![Bus] = NoClient]
             /\ UNCHANGED <<url, webClient, pipeVars, apiMutex, op, calls, wpc, ghostVars>>
    BY <2>1, <2>3
  <2> QED
    BY <1>11, <2>2, <2>3 DEF BusType
<1>12. CASE BusSwaps
  BY <1>3, <1>4, <1>5, <1>6, <1>12 DEF BusSwaps
<1>13. CASE BusCreates
  <2>1. webClient' \in Clients
    BY <1>13 DEF BusCreates, NewClient
  <2> QED
    BY <1>13, <2>1 DEF BusCreates, pipeVars, ghostVars
<1>14. CASE BusConnects
  <2>1. CASE At(Bus, "connect") /\ ((webClient # NoClient /\ read(Bus, "connecting")) \/ Crash)
    BY <1>5, <1>6, <2>1
  <2>2. CASE release(Bus, "idle") \/ Dangles(Bus)
    BY <1>5, <1>6, <2>2
  <2> QED
    BY <1>14, <2>1, <2>2 DEF BusConnects
<1>15. ASSUME NEW e \in Clients, WsCallback(e) PROVE OwnTypes'
  <2>1. CASE WsOther(e)
    BY <2>1, OwnTypesFrame DEF WsOther
  <2>2. CASE WsTest(e)
    BY <2>2 DEF WsTest, pipeVars, stepVars, ghostVars
  <2>3. CASE WsType(e)
    <3>1. CASE Crash
      BY <1>6, <3>1
    <3>2. CASE ~Crash
      <4>1. fallback' \in BOOLEAN /\ carried' \in BOOLEAN
        BY <2>3, <3>2 DEF WsType
      <4>2. wpc' \in [Endpoint -> {"idle", "type", "toggle"}]
        BY <2>3, <3>2 DEF WsType
      <4> QED
        BY <2>3, <3>2, <4>1, <4>2 DEF WsType, pipeVars, stepVars
    <3> QED
      BY <3>1, <3>2
  <2>4. CASE WsToggle(e)
    BY <2>4 DEF WsToggle, stepVars, ghostVars
  <2> QED
    BY <1>15, <2>1, <2>2, <2>3, <2>4 DEF WsCallback
<1>16. ASSUME NEW e \in Clients, Library(e) PROVE OwnTypes'
  BY <1>16, OwnTypesFrame DEF Library
<1>17. ASSUME NEW e \in Clients, Refused(e) PROVE OwnTypes'
  BY <1>17 DEF Refused, pipeVars, stepVars
<1> QED
  BY <1>1, <1>2, <1>7, <1>8, <1>9, <1>10, <1>11, <1>12, <1>13, <1>14, <1>15, <1>16, <1>17
     DEF PlayerNext, BusStep

\* Every step keeps the types.
LEMMA PlayerTypesStep ==
  ASSUME PlayerTypeOK, Handed, PlayerNext
  PROVE  PlayerTypeOK'
<1>1. OwnTypes /\ EndpointTypeOK
  BY DEF PlayerTypeOK, OwnTypes
<1>2. EndpointTypeOK'
  BY <1>1, PlayerEndpoints, EndpointTypes, TypesStutter
<1>3. OwnTypes'
  BY <1>1, OwnTypesStep
<1> QED
  BY <1>2, <1>3 DEF PlayerTypeOK, OwnTypes

-------------------------------------------------------------------------------
(* Who has the mutex, and who has a client.                                *)

\* m_apiMutex is held from the disconnect of Stop to its end, and only there.
InStop == {"disconnect", "closing", "reset", "delete", "join", "silence"}
Mutex ==
    /\ \A t \in Threads : apiMutex = t <=> pc[t] \in InStop
    /\ \A t \in Callers : pc[t] \in InStop \cup {"idle", "stop", "start"}
    /\ op[Bus] \in {"none", "error"}

\* A client that is destroyed is awaited by the one thread that destroys it; webClient is
\* alive; the bus thread makes a client where there is none, and no other thread makes one.
Owned ==
    /\ Handed
    /\ \A t \in Threads : pc[t] \in Joining => life[held[t]] = "joining"
    /\ \A t, s \in Threads : t # s /\ pc[t] \in Joining /\ pc[s] \in Joining => held[t] # held[s]
    /\ \A e \in Clients : life[e] = "joining" => \E t \in Threads : pc[t] \in Joining /\ held[t] = e
    /\ webClient # NoClient => life[webClient] = "alive"
    /\ \A t \in Threads : held[t] # NoClient => life[held[t]] # "none"
    /\ pc[Bus] \in {"swapJoin", "create", "createPlain"} => webClient = NoClient
    /\ pc[Bus] = "typing" => webClient \in {NoClient, held[Bus]}

\* The bus thread keeps out of Stop, so that what a thread has read is still webClient.
Apart ==
    /\ apiMutex \in Callers => pc[Bus] \notin Handling
    /\ \A t \in Threads : pc[t] \in InCall \cup Deleting => held[t] = webClient

\* So it is in a Stop in which it handles no PLAYING message; and as long as that is true
\* of every Stop, no client is lost.
Unshared ==
    /\ late => raced
    /\ ~late => Apart
    /\ ~raced => \A e \in Clients : ~Lost(e)

\* The steps of the threads that call Stop, and the bus thread's
LEMMA MutexStep ==
  ASSUME PlayerTypeOK, Mutex, PlayerNext
  PROVE  Mutex'
<1>0. /\ Bus \in Threads /\ Bus \notin Callers /\ Nobody \notin Threads /\ Callers \subseteq Threads
      /\ \A t \in Threads : t \in Callers \/ t = Bus
      /\ pc \in [Threads -> Steps] /\ op \in [Threads -> {"none", "play", "stop", "error"}]
  BY DEF Threads, PlayerTypeOK
<1> USE <1>0 DEF Mutex, Goto, InStop, At
<1>1. ASSUME NEW t \in Callers, CallStop(t) \/ \E u \in {"ws", "wss"} : Play(t, u)
      PROVE  Mutex'
  BY <1>1 DEF CallStop, Play
<1>2. ASSUME NEW t \in Threads, StopBegins(t) PROVE Mutex'
  BY <1>2 DEF StopBegins
<1>3. ASSUME NEW t \in Threads, StopDisconnects(t) PROVE Mutex'
  BY <1>3 DEF StopDisconnects, disconnect, read, release, Crash, Dangles, Dies, playerVars, stepVars
<1>4. ASSUME NEW t \in Threads, StopResets(t) PROVE Mutex'
  BY <1>4 DEF StopResets, read, reset
<1>5. ASSUME NEW t \in Threads, StopJoins(t) PROVE Mutex'
  BY <1>5 DEF StopJoins, join, release
<1>6. ASSUME NEW t \in Threads, StopSilences(t) PROVE Mutex'
  BY <1>6 DEF StopSilences
<1>7. ASSUME NEW t \in Threads, Begin(t) PROVE Mutex'
  BY <1>7 DEF Begin
<1>8. CASE BusPop \/ BusTest
  BY <1>8 DEF BusPop, BusTest
<1>9. CASE BusType
  BY <1>9 DEF BusType, read, release, Dangles, Crash, Dies, playerVars, stepVars
<1>10. CASE BusSwaps
  BY <1>10 DEF BusSwaps, disconnect, read, release, reset, join, Crash, Dangles, Dies, playerVars,
     stepVars
<1>11. CASE BusCreates \/ BusConnects
  BY <1>11 DEF BusCreates, BusConnects, read, release, Crash, Dangles, Dies, playerVars, stepVars
<1>12. CASE UNCHANGED <<apiMutex, pc, op>>
  BY <1>12
<1>13. StreamAdvances \/ StreamFails \/ (\E e \in Clients : WsCallback(e) \/ Library(e) \/ Refused(e))
       => UNCHANGED <<apiMutex, pc, op>>
  BY DEF StreamAdvances, StreamFails, WsCallback, WsOther, WsTest, WsType, WsToggle, Crash, Dies,
     Library, Refused, playerVars, stepVars
<1> QED
  BY <1>1, <1>2, <1>3, <1>4, <1>5, <1>6, <1>7, <1>8, <1>9, <1>10, <1>11, <1>12, <1>13
     DEF PlayerNext, BusStep, StopStep

\* Only a construction, a destruction and a join change what is alive.
LEMMA LifeKept ==
  ASSUME NEW e \in Clients, Done(e) \/ Library(e) \/ Refused(e) \/ Connect(e) \/ Disconnect(e)
  PROVE  UNCHANGED <<life, tls>>
  BY DEF Done, Library, Refused, Connect, Disconnect, ping, LoopEnds, onOpen, onClose, onPong,
     onPongTimeout, GoesSilent, onFail

LEMMA StepFacts ==
  ASSUME PlayerTypeOK
  PROVE  /\ Bus \in Threads /\ Bus \notin Callers /\ Callers \subseteq Threads
         /\ \A t \in Threads : t \in Callers \/ t = Bus
         /\ pc \in [Threads -> Steps] /\ held \in [Threads -> Clients \cup {NoClient}]
         /\ webClient \in Clients \cup {NoClient} /\ NoClient \notin Clients
         /\ Clients \subseteq Endpoint /\ Nobody \notin Threads
         /\ apiMutex \in Threads \cup {Nobody}
         /\ life \in [Endpoint -> {"none", "alive", "joining", "gone"}]
  BY DEF Threads, PlayerTypeOK, EndpointTypeOK

\* What the steps do to who has what: at the most one of these.  A thread moves between
\* steps in which it has no client,
Moves(t) ==
    /\ UNCHANGED <<life, webClient, held>> /\ pc[t] \notin InCall \cup Joining \cup Deleting
    /\ \E to \in Steps \ (InCall \cup Joining \cup Deleting \cup {"connect"}) :
           /\ Goto(t, to) /\ (t = Bus /\ to \in {"create", "createPlain"} => webClient = NoClient)

\* reads the pointer,
Reads(t) ==
    /\ UNCHANGED <<life, webClient>> /\ pc[t] \notin Joining
    /\ held' = [held EXCEPT ![t] = webClient]
    /\ \E to \in InCall \cup Deleting :
           /\ Goto(t, to) /\ (to \in InCall => webClient # NoClient)
           /\ to = "connecting" => pc[t] = "connect"

\* comes back from a call,
Returns(t) ==
    /\ UNCHANGED <<life, webClient>> /\ pc[t] \in InCall
    /\ held' = [held EXCEPT ![t] = NoClient]
    /\ \E to \in {"swap", "reset", "swapReset", "idle"} : Goto(t, to)

\* stores null, and deletes the client it read, if any, and nothing ended the program,
Deletes(t) ==
    /\ pc[t] \in Deleting /\ webClient' = NoClient /\ held' = held
    /\ \/ /\ held[t] = NoClient /\ life' = life
          /\ Goto(t, IF pc[t] = "delete" THEN "silence" ELSE "createPlain")
       \/ /\ held[t] # NoClient /\ life[held[t]] = "alive"
          /\ life' = [life EXCEPT ![held[t]] = "joining"]
          /\ Goto(t, IF pc[t] = "delete" THEN "join" ELSE "swapJoin")
       \/ /\ held[t] # NoClient /\ life[held[t]] # "alive" /\ UNCHANGED <<life, pc>>

\* has waited for the event loop,
Awaits(t) ==
    /\ pc[t] \in Joining /\ webClient' = webClient
    /\ life' = [life EXCEPT ![held[t]] = "gone"] /\ held' = [held EXCEPT ![t] = NoClient]
    /\ Goto(t, IF pc[t] = "join" THEN "silence" ELSE "createPlain")

\* or makes a client.
Makes ==
    /\ pc[Bus] \in {"create", "createPlain"} /\ held' = held /\ Goto(Bus, "connect")
    /\ \E e \in Clients : /\ life[e] = "none" /\ life' = [life EXCEPT ![e] = "alive"]
                          /\ webClient' = e

Frame == UNCHANGED <<life, webClient, held, pc>>

LEMMA DiesFrame ==
  ASSUME Dies
  PROVE  Frame
  BY DEF Dies, Frame, endpointVars, playerVars, stepVars

\* The steps of Stop
LEMMA StopHands ==
  ASSUME PlayerTypeOK, NEW t \in Threads, StopStep(t)
  PROVE  Frame \/ Moves(t) \/ Reads(t) \/ Returns(t) \/ Deletes(t) \/ Awaits(t)
<1> USE DEF At, Goto
<1>1. CASE StopBegins(t) \/ StopSilences(t) \/ Begin(t)
  BY <1>1 DEF StopBegins, StopSilences, Begin, Moves, endpointVars, InCall, Joining, Deleting, Steps
<1>2. CASE StopDisconnects(t)
  BY <1>2, LifeKept, DiesFrame DEF StopDisconnects, read, release, disconnect, Crash, Dangles,
     Reads, Returns, endpointVars, InCall, Joining, Disconnect
<1>3. CASE At(t, "reset") /\ read(t, "delete")
  BY <1>3 DEF read, Reads, endpointVars, InCall, Joining, Deleting
<1>5. CASE At(t, "delete") /\ reset(t, "join", "silence")
  <2>1. pc[t] \in Deleting /\ webClient' = NoClient /\ held' = held
    BY <1>5 DEF reset, Deleting
  <2> QED
    BY <1>5, <2>1 DEF reset, Destroy, Deletes, endpointVars
<1>4. CASE StopJoins(t)
  BY <1>4 DEF StopJoins, join, release, Joined, Awaits, Joining
<1> QED
  BY <1>1, <1>2, <1>3, <1>4, <1>5 DEF StopStep, StopResets

\* and of the bus thread
LEMMA BusHands ==
  ASSUME PlayerTypeOK, BusStep
  PROVE  \/ Frame \/ Moves(Bus) \/ Reads(Bus) \/ Returns(Bus) \/ Deletes(Bus) \/ Awaits(Bus)
         \/ Makes
<1>0. Bus \in Threads
  BY DEF Threads
<1> USE <1>0 DEF At, Goto
<1>1. CASE BusPop \/ BusTest
  BY <1>1 DEF BusPop, BusTest, Moves, endpointVars, InCall, Joining, Deleting, Steps, Handling
<1>2. CASE BusType
  BY <1>2, DiesFrame DEF BusType, read, release, Crash, Dangles, Reads, Returns, endpointVars,
     InCall, Joining
<1>3. CASE BusSwaps
  BY <1>3, DiesFrame DEF BusSwaps, read, release, disconnect, reset, join, Crash, Dangles,
     Reads, Returns, Deletes, Awaits, endpointVars, InCall, Joining, Deleting, Disconnect, Destroy,
     Joined
<1>4. CASE BusCreates
  <2>1. PICK e \in Clients : /\ life[e] = "none" /\ life' = [life EXCEPT ![e] = "alive"]
                             /\ webClient' = e
    BY <1>4 DEF BusCreates, NewClient, Construct
  <2> QED
    BY <1>4, <2>1 DEF BusCreates, Makes
<1>5. CASE BusConnects
  BY <1>5, DiesFrame DEF BusConnects, read, release, Crash, Dangles, Reads, Returns, endpointVars,
     InCall, Joining, Connect
<1> QED
  BY <1>1, <1>2, <1>3, <1>4, <1>5 DEF BusStep

\* The others have no clients in hand.
LEMMA OtherHands ==
  ASSUME PlayerTypeOK,
         \/ \E t \in Callers : CallStop(t) \/ \E u \in {"ws", "wss"} : Play(t, u)
         \/ StreamAdvances \/ StreamFails
         \/ \E e \in Clients : WsCallback(e) \/ Library(e) \/ Refused(e)
  PROVE  Frame \/ \E t \in Callers : Moves(t)
<1>1. ASSUME NEW t \in Callers, CallStop(t) \/ \E u \in {"ws", "wss"} : Play(t, u)
      PROVE  Moves(t)
  <2>1. t # Bus
    BY StepFacts
  <2> QED
    BY <1>1, <2>1 DEF CallStop, Play, Moves, endpointVars, At, Goto, InCall, Joining, Deleting, Steps
<1>2. CASE StreamAdvances \/ StreamFails
  BY <1>2 DEF StreamAdvances, StreamFails, endpointVars, stepVars, Frame
<1>3. ASSUME NEW e \in Clients, WsCallback(e) \/ Library(e) \/ Refused(e) PROVE Frame
  <2>1. Done(e) \/ UNCHANGED endpointVars \/ Library(e) \/ Refused(e)
    BY <1>3 DEF WsCallback, WsOther, WsTest, WsType, WsToggle, Crash, Dies
  <2> QED
    BY <1>3, <2>1, LifeKept DEF WsCallback, WsOther, WsTest, WsType, WsToggle, Crash, Dies, Library,
       Refused, playerVars, stepVars, endpointVars, Frame
<1> QED
  BY <1>1, <1>2, <1>3

\* What a step does to who has what, in one of seven ways
LEMMA Hands ==
  ASSUME PlayerTypeOK, PlayerNext
  PROVE  \/ Frame \/ Makes
         \/ \E t \in Threads : Moves(t) \/ Reads(t) \/ Returns(t) \/ Deletes(t) \/ Awaits(t)
<1>1. Bus \in Threads /\ Callers \subseteq Threads
  BY StepFacts
<1> QED
  BY <1>1, StopHands, BusHands, OtherHands DEF PlayerNext

\* Each step keeps every client that is destroyed in one hand.
LEMMA OwnedStep ==
  ASSUME PlayerTypeOK, Owned, PlayerNext
  PROVE  Owned'
<1> USE StepFacts DEF Goto, InCall, Joining, Deleting
<1>1. CASE Frame
  BY <1>1 DEF Frame, Owned, Handed
<1>2. ASSUME NEW t \in Threads, Moves(t) PROVE Owned'
  BY <1>2 DEF Moves, Owned, Handed
<1>3. ASSUME NEW t \in Threads, Reads(t) PROVE Owned'
  BY <1>3 DEF Reads, Owned, Handed
<1>4. ASSUME NEW t \in Threads, Returns(t) PROVE Owned'
  BY <1>4 DEF Returns, Owned, Handed
<1>5. ASSUME NEW t \in Threads, Deletes(t) PROVE Owned'
  <2>1. CASE held[t] = NoClient
    BY <1>5, <2>1 DEF Deletes, Owned, Handed
  <2>2. CASE held[t] # NoClient /\ life[held[t]] = "alive"
    BY <1>5, <2>2 DEF Deletes, Owned, Handed
  <2>3. CASE held[t] # NoClient /\ life[held[t]] # "alive"
    BY <1>5, <2>3 DEF Deletes, Owned, Handed
  <2> QED
    BY <2>1, <2>2, <2>3
<1>6. ASSUME NEW t \in Threads, Awaits(t) PROVE Owned'
  <2>1. /\ life[held[t]] = "joining" /\ held[t] \in Clients /\ webClient # held[t]
        /\ \A s \in Threads : s # t /\ pc[s] \in Joining => held[s] # held[t]
    BY <1>6 DEF Awaits, Owned, Handed
  <2>2. Handed'
    BY <1>6 DEF Awaits, Owned, Handed
  <2>3. \A e \in Clients : life'[e] = "joining" => \E s \in Threads : pc'[s] \in Joining /\ held'[s] = e
    BY <1>6, <2>1 DEF Awaits, Owned
  <2> QED
    BY <1>6, <2>1, <2>2, <2>3 DEF Awaits, Owned
<1>7. CASE Makes
  BY <1>7 DEF Makes, Owned, Handed
<1> QED
  BY <1>1, <1>2, <1>3, <1>4, <1>5, <1>6, <1>7, Hands

\* Two threads are not in steps with a client, or about to make one, while the bus thread
\* keeps out of Stop.
LEMMA OneAtATime ==
  ASSUME PlayerTypeOK, Mutex, Apart, NEW t \in Threads, NEW s \in Threads, t # s,
         pc[t] \in InCall \cup Joining \cup Deleting \cup {"create", "createPlain"}
  PROVE  pc[s] \notin InCall \cup Joining \cup Deleting
  BY StepFacts DEF Mutex, Apart, InCall, Joining, Deleting, InStop, Handling

\* When a Stop begins, and when the bus thread takes a message
LEMMA RaceFacts ==
  ASSUME PlayerTypeOK, PlayerNext
  PROVE  \/ /\ UNCHANGED <<late, raced>> /\ apiMutex' \in {apiMutex, Nobody}
            /\ pc'[Bus] \in Handling => pc[Bus] \in Handling
         \/ BusPop
         \/ \E t \in Threads : StopBegins(t)
<1> DEFINE Kept == /\ UNCHANGED <<late, raced>> /\ apiMutex' \in {apiMutex, Nobody}
                   /\ pc'[Bus] \in Handling => pc[Bus] \in Handling
<1> USE StepFacts DEF At, Goto
<1>1. ASSUME NEW t \in Callers, CallStop(t) \/ \E u \in {"ws", "wss"} : Play(t, u) PROVE Kept
  BY <1>1 DEF CallStop, Play, ghostVars, Handling
<1>2. CASE Dies
  BY <1>2 DEF Dies, playerVars, stepVars, ghostVars
<1>3. ASSUME NEW t \in Threads, StopDisconnects(t) \/ StopResets(t) PROVE Kept
  <2>1. UNCHANGED <<late, raced, apiMutex>>
    BY <1>2, <1>3 DEF StopDisconnects, StopResets, read, release, disconnect, reset, Dies, Crash,
       Dangles, playerVars, stepVars, ghostVars
  <2>2. CASE t = Bus /\ pc'[Bus] \in Handling
    BY <1>3, <2>2 DEF StopDisconnects, StopResets, read, release, disconnect, reset, Dies, Crash,
       Dangles, playerVars, stepVars, Handling
  <2>3. CASE t # Bus
    <3>1. \/ pc' = pc \/ \E to : pc' = [pc EXCEPT ![t] = to]
      BY <1>3 DEF StopDisconnects, StopResets, read, release, disconnect, reset, Dies, Crash,
         Dangles, playerVars, stepVars
    <3>2. pc'[Bus] = pc[Bus]
      BY <2>3, <3>1
    <3> QED
      BY <2>1, <3>2
  <2> QED
    BY <2>1, <2>2, <2>3
<1>4. ASSUME NEW t \in Threads, StopJoins(t) \/ StopSilences(t) \/ Begin(t) PROVE Kept
  BY <1>4 DEF StopJoins, StopSilences, Begin, join, release, ghostVars, Handling
<1>5. CASE StreamAdvances \/ StreamFails
  BY <1>5 DEF StreamAdvances, StreamFails, stepVars, ghostVars
<1>6. ASSUME pc[Bus] \in Handling, UNCHANGED <<late, raced, apiMutex>> PROVE Kept
  BY <1>6
<1>7. CASE BusTest \/ BusType
  BY <1>2, <1>6, <1>7 DEF BusTest, BusType, read, release, Dangles, Crash, ghostVars,
     Handling
<1>8. CASE BusSwaps
  BY <1>2, <1>6, <1>8 DEF BusSwaps, read, release, disconnect, reset, join, Crash, Dangles,
     ghostVars, Handling
<1>9. CASE BusCreates \/ BusConnects
  BY <1>2, <1>6, <1>9 DEF BusCreates, BusConnects, read, release, Crash, Dangles, ghostVars, Handling
<1>10. ASSUME NEW e \in Clients, WsCallback(e) \/ Library(e) \/ Refused(e) PROVE Kept
  <2>1. UNCHANGED <<late, raced, apiMutex, pc>>
    BY <1>10 DEF WsCallback, WsOther, WsTest, WsType, WsToggle, Crash, Dies, Library, Refused,
       playerVars, stepVars, ghostVars
  <2> QED
    BY <2>1
<1> QED
  BY <1>1, <1>3, <1>4, <1>5, <1>7, <1>8, <1>9, <1>10 DEF PlayerNext, BusStep, StopStep

\* What is read stays webClient, as long as nobody comes in between.
LEMMA ApartStep ==
  ASSUME PlayerTypeOK, Mutex, Owned, Apart, PlayerNext
  PROVE  \A t \in Threads : pc'[t] \in InCall \cup Deleting => held'[t] = webClient'
<1> DEFINE Goal == \A t \in Threads : pc'[t] \in InCall \cup Deleting => held'[t] = webClient'
<1> USE StepFacts DEF Goto, InCall, Joining, Deleting
<1>1. CASE Frame
  BY <1>1 DEF Frame, Apart
<1>2. ASSUME NEW t \in Threads, Moves(t) PROVE Goal
  BY <1>2 DEF Moves, Apart
<1>3. ASSUME NEW t \in Threads, Reads(t) \/ Returns(t) PROVE Goal
  BY <1>3 DEF Reads, Returns, Apart
<1>4. ASSUME NEW t \in Threads, Deletes(t) PROVE Goal
  <2>1. \A s \in Threads : s # t => pc[s] \notin InCall \cup Deleting
    BY <1>4, OneAtATime DEF Deletes
  <2>2. held[t] # NoClient => life[held[t]] = "alive"
    BY <1>4 DEF Deletes, Apart, Owned
  <2> QED
    BY <1>4, <2>1, <2>2 DEF Deletes
<1>5. ASSUME NEW t \in Threads, Awaits(t) PROVE Goal
  BY <1>5 DEF Awaits, Apart
<1>6. CASE Makes
  <2>1. \A s \in Threads : s # Bus => pc[s] \notin InCall \cup Deleting
    BY <1>6, OneAtATime DEF Makes
  <2> QED
    BY <1>6, <2>1 DEF Makes
<1> QED
  BY <1>1, <1>2, <1>3, <1>4, <1>5, <1>6, Hands

\* Then no client is lost, for what is deleted is webClient.
LEMMA LostStep ==
  ASSUME PlayerTypeOK, Mutex, Owned, Apart, PlayerNext, NEW e \in Clients, Lost(e)'
  PROVE  \E d \in Clients : Lost(d)
<1> SUFFICES ASSUME \A d \in Clients : life[d] = "alive" => d = webClient PROVE FALSE
  BY DEF Lost
<1>0. life'[e] = "alive" /\ e # webClient'
  BY DEF Lost
<1> USE StepFacts
<1>1. CASE Frame \/ \E t \in Threads : Moves(t) \/ Reads(t) \/ Returns(t)
  BY <1>0, <1>1 DEF Frame, Moves, Reads, Returns
<1>2. ASSUME NEW t \in Threads, Deletes(t) PROVE FALSE
  BY <1>0, <1>2 DEF Deletes, Apart, Owned
<1>3. ASSUME NEW t \in Threads, Awaits(t) PROVE FALSE
  BY <1>0, <1>3 DEF Awaits
<1>4. CASE Makes
  BY <1>0, <1>4 DEF Makes, Owned
<1> QED
  BY <1>1, <1>2, <1>3, <1>4, Hands

LEMMA UnsharedStep ==
  ASSUME PlayerTypeOK, Mutex, Owned, Unshared, PlayerNext
  PROVE  Unshared'
<1> USE StepFacts
<1>1. CASE UNCHANGED <<late, raced>> /\ apiMutex' \in {apiMutex, Nobody}
           /\ (pc'[Bus] \in Handling => pc[Bus] \in Handling)
  <2>1. ~late' => Apart'
    BY <1>1, ApartStep DEF Unshared, Apart
  <2>2. ~raced' => \A e \in Clients : ~Lost(e)'
    BY <1>1, LostStep DEF Unshared
  <2> QED
    BY <1>1, <2>1, <2>2 DEF Unshared
<1>2. CASE BusPop
  <2>1. /\ UNCHANGED <<life, webClient, held, apiMutex>>
        /\ pc' = [pc EXCEPT ![Bus] = "test"] \/ pc' = [pc EXCEPT ![Bus] = "stop"]
    BY <1>2 DEF BusPop, endpointVars, Goto
  <2>2. /\ (late => late')
        /\ (raced => raced')
        /\ ((pc'[Bus] = "test" /\ apiMutex # Nobody) => (late' /\ raced'))
        /\ (late' => (late \/ raced'))
    <3>1. CASE /\ late' = (late \/ apiMutex # Nobody)
               /\ raced' = (raced \/ apiMutex # Nobody)
      BY <3>1 DEF Unshared
    <3>2. CASE UNCHANGED <<late, raced>> /\ pc'[Bus] = "stop"
      BY <3>2
    <3> QED
      BY <1>2, <3>1, <3>2 DEF BusPop, Goto
  <2>3. ~late' => Apart'
    BY <2>1, <2>2 DEF Unshared, Apart, Handling, InCall, Deleting
  <2>4. ~raced' => \A e \in Clients : ~Lost(e)'
    BY <2>1, <2>2 DEF Unshared, Lost
  <2> QED
    BY <2>2, <2>3, <2>4 DEF Unshared
<1>3. ASSUME NEW t \in Threads, StopBegins(t) PROVE Unshared'
  <2>1. /\ UNCHANGED <<life, webClient, held>> /\ apiMutex = Nobody
        /\ pc' = [pc EXCEPT ![t] = IF webClient = NoClient THEN "silence" ELSE "disconnect"]
        /\ late' = (pc[Bus] \in Handling) /\ raced' = (raced \/ late')
    BY <1>3 DEF StopBegins, endpointVars, Goto
  <2>2. ~late' => \A s \in Threads : pc[s] \notin InCall \cup Deleting
    BY <2>1 DEF Mutex, InStop, Handling, InCall, Deleting
  <2>3. ~late' => Apart'
    BY <2>1, <2>2 DEF Apart, Handling, InCall, Deleting
  <2>4. ~raced' => \A e \in Clients : ~Lost(e)'
    BY <2>1 DEF Unshared, Lost
  <2> QED
    BY <2>1, <2>3, <2>4 DEF Unshared
<1> QED
  BY <1>1, <1>2, <1>3, RaceFacts

-------------------------------------------------------------------------------
(* What a client may still do.                                             *)

\* The event loop of a client runs while the client is alive or waited for, and makes
\* callbacks only then; a secured client that tells a failure was refused.
Loops == \A e \in Clients :
    /\ loop[e] = "running" => life[e] \in {"alive", "joining"}
    /\ callback[e] # Idle => loop[e] = "running"
    /\ callback[e][1] \in {"fail", "unauthenticated"} /\ tls[e] => e \in refused

\* A call of the application to a client, or the return of a callback
LEMMA CallLoops ==
  ASSUME PlayerTypeOK, Loops, refused' = refused,
         NEW d \in Clients, NEW encrypted,
         Construct(d, encrypted) \/ Connect(d) \/ Disconnect(d) \/ Destroy(d) \/ Joined(d) \/ Done(d)
  PROVE  Loops'
<1>0. /\ life \in [Endpoint -> {"none", "alive", "joining", "gone"}] /\ d \in Endpoint
      /\ loop \in [Endpoint -> {"none", "running", "ended"}] /\ Clients \subseteq Endpoint
      /\ tls \in [Endpoint -> BOOLEAN] /\ callback \in [Endpoint -> {Idle} \cup (Kinds \X Conn)]
      /\ Idle[1] = "none"
  BY DEF PlayerTypeOK, EndpointTypeOK, Idle
<1> USE <1>0
<1>1. CASE Construct(d, encrypted)
  <2>1. loop[d] # "running" /\ callback[d] = Idle /\ UNCHANGED <<loop, callback>>
    BY <1>1 DEF Construct, Loops
  <2>2. /\ \A e \in Clients : e # d => life'[e] = life[e] /\ tls'[e] = tls[e]
    BY <1>1 DEF Construct
  <2> QED
    BY <2>1, <2>2 DEF Loops
<1>2. CASE Connect(d)
  BY <1>2 DEF Connect, Callable, startEventLoop, Loops
<1>3. CASE Disconnect(d)
  BY <1>3 DEF Disconnect, Loops
<1>4. CASE Destroy(d)
  BY <1>4 DEF Destroy, Loops
<1>5. CASE Joined(d)
  BY <1>5 DEF Joined, Loops
<1>6. CASE Done(d)
  BY <1>6 DEF Done, Loops
<1> QED
  BY <1>1, <1>2, <1>3, <1>4, <1>5, <1>6

LEMMA LibraryLoops ==
  ASSUME PlayerTypeOK, Loops, NEW d \in Clients, Library(d)
  PROVE  Loops'
<1>0. /\ life \in [Endpoint -> {"none", "alive", "joining", "gone"}] /\ d \in Endpoint
      /\ loop \in [Endpoint -> {"none", "running", "ended"}] /\ Clients \subseteq Endpoint
      /\ callback \in [Endpoint -> {Idle} \cup (Kinds \X Conn)]
      /\ refused' = refused
  BY DEF PlayerTypeOK, EndpointTypeOK, Library, playerVars, ghostVars
<1> USE <1>0
<1>1. CASE ping(d)
  BY <1>1 DEF ping, Loops
<1>2. CASE LoopEnds(d)
  BY <1>2 DEF LoopEnds, LoopFree, Loops
<1>3. ASSUME NEW c \in Conn, Owner[c] = d, onOpen(c) \/ onClose(c)
      PROVE  Loops'
  <2>1. /\ loop[d] = "running" /\ UNCHANGED <<life, loop, tls>>
        /\ \/ callback' = [callback EXCEPT ![d] = <<"open", c>>]
           \/ callback' = [callback EXCEPT ![d] = <<"close", c>>]
    BY <1>3 DEF onOpen, onClose, LoopFree, Runs, Callback
  <2> QED
    BY <2>1 DEF Loops
<1>4. ASSUME NEW c \in Conn, Owner[c] = d, onPong(c) \/ onPongTimeout(c) \/ GoesSilent(c)
      PROVE  Loops'
  BY <1>4 DEF onPong, onPongTimeout, GoesSilent, Loops
<1> QED
  BY <1>1, <1>2, <1>3, <1>4 DEF Library

LEMMA RefusedLoops ==
  ASSUME PlayerTypeOK, Loops, NEW d \in Clients, Refused(d)
  PROVE  Loops'
<1>1. PICK c \in Conn : Owner[c] = d /\ onFail(c)
  BY DEF Refused
<1>2. /\ loop[d] = "running" /\ UNCHANGED <<life, loop, tls>>
      /\ \E kind \in Kinds : callback' = [callback EXCEPT ![d] = <<kind, c>>]
  BY <1>1 DEF onFail, LoopFree, Runs, Callback, Failures, Kinds
<1>3. callback \in [Endpoint -> {Idle} \cup (Kinds \X Conn)] /\ Clients \subseteq Endpoint
  BY DEF PlayerTypeOK, EndpointTypeOK
<1>4. refused \subseteq refused' /\ (tls[d] => d \in refused')
  BY DEF Refused
<1> QED
  BY <1>2, <1>3, <1>4 DEF Loops

\* Each step keeps it.
LEMMA LoopsStep ==
  ASSUME PlayerTypeOK, Owned, Loops, PlayerNext
  PROVE  Loops'
<1>0. /\ Bus \in Threads /\ NoClient \notin Clients
      /\ \A t \in Threads : held[t] # NoClient => held[t] \in Clients
      /\ \A t \in Threads : pc[t] \in InCall \cup Joining => held[t] \in Clients
  BY StepFacts DEF Owned, Handed
<1>1. ASSUME UNCHANGED endpointVars, refused' = refused PROVE Loops'
  BY <1>1 DEF Loops, endpointVars
<1>2. ASSUME NEW t, Dies \/ Crash \/ Dangles(t) PROVE Loops'
  BY <1>1, <1>2 DEF Dies, Crash, Dangles, playerVars, ghostVars
<1>3. ASSUME NEW t \in Threads, NEW next, read(t, next) PROVE Loops'
  BY <1>1, <1>3 DEF read, ghostVars
<1>4. ASSUME NEW t \in Threads, NEW next, disconnect(t, next), pc[t] \in InCall PROVE Loops'
  <2>1. held[t] \in Clients /\ refused' = refused
    BY <1>0, <1>4 DEF disconnect, release, ghostVars
  <2> QED
    BY <1>1, <1>4, <2>1, CallLoops DEF disconnect
<1>5. ASSUME NEW t \in Threads, NEW joins, NEW next, reset(t, joins, next) PROVE Loops'
  <2>1. refused' = refused /\ (held[t] # NoClient => held[t] \in Clients)
    BY <1>0, <1>5 DEF reset
  <2> QED
    BY <1>1, <1>5, <2>1, CallLoops DEF reset
<1>6. ASSUME NEW t \in Threads, NEW next, join(t, next), pc[t] \in Joining PROVE Loops'
  <2>1. held[t] \in Clients /\ refused' = refused
    BY <1>0, <1>6 DEF join, release, ghostVars
  <2> QED
    BY <1>6, <2>1, CallLoops DEF join
<1>7. ASSUME NEW t \in Threads, StopStep(t) PROVE Loops'
  <2>1. CASE StopBegins(t) \/ StopSilences(t) \/ Begin(t)
    BY <1>1, <2>1 DEF StopBegins, StopSilences, Begin
  <2>2. CASE StopDisconnects(t) \/ StopResets(t) \/ StopJoins(t)
    BY <1>2, <1>3, <1>4, <1>5, <1>6, <2>2 DEF StopDisconnects, StopResets, StopJoins, At, InCall,
       Joining
  <2> QED
    BY <1>7, <2>1, <2>2 DEF StopStep
<1>8. CASE BusSwaps
  BY <1>0, <1>2, <1>3, <1>4, <1>5, <1>6, <1>8 DEF BusSwaps, At, InCall, Joining
<1>9. CASE BusCreates
  <2>1. PICK e \in Clients : Construct(e, pc[Bus] = "create" /\ url = "wss")
    BY <1>9 DEF BusCreates, NewClient
  <2> QED
    BY <1>9, <2>1, CallLoops DEF BusCreates, ghostVars
<1>10. CASE BusConnects
  <2>1. ASSUME At(Bus, "connecting"), Connect(held[Bus]) \/ UNCHANGED endpointVars,
               release(Bus, "idle")
        PROVE  Loops'
    <3>1. held[Bus] \in Clients /\ refused' = refused
      BY <1>0, <2>1 DEF release, ghostVars, At, InCall
    <3> QED
      BY <1>1, <2>1, <3>1, CallLoops
  <2> QED
    BY <1>0, <1>2, <1>3, <1>10, <2>1 DEF BusConnects
<1>11. CASE BusPop \/ BusTest \/ BusType \/ StreamAdvances \/ StreamFails
            \/ \E t \in Callers : CallStop(t) \/ \E u \in {"ws", "wss"} : Play(t, u)
  BY <1>1, <1>2, <1>3, <1>11 DEF BusPop, BusTest, BusType, read, release, Dangles, StreamAdvances,
     StreamFails, CallStop, Play, ghostVars
<1>12. ASSUME NEW e \in Clients, WsCallback(e) PROVE Loops'
  <2>1. (refused' = refused /\ (UNCHANGED endpointVars \/ Done(e))) \/ Crash
    BY <1>12 DEF WsCallback, WsOther, WsTest, WsType, WsToggle, playerVars, ghostVars
  <2> QED
    BY <1>1, <1>2, <2>1, CallLoops
<1> QED
  BY <1>7, <1>8, <1>9, <1>10, <1>11, <1>12, LibraryLoops, RefusedLoops DEF PlayerNext, BusStep

\* While the bus thread stays out of a Stop, nothing makes a client again; after it the
\* player has neither a client nor a message that would make one, as long as no client is
\* lost, whose event loop might start the pipeline.
Quiet ==
    /\ apiMutex # Nobody /\ ~late /\ pc[apiMutex] \in {"join", "silence"} => webClient = NoClient
    /\ stopped /\ ~late /\ apiMutex = Nobody /\ (\A e \in Clients : ~Lost(e)) =>
           webClient = NoClient /\ pipe = "null" /\ playing = 0 /\ pc[Bus] \notin Handling

\* The flag stands for webClient, which failed, unless a Stop or a change of client came
\* in between.
Flag == fallback /\ ~carried => webClient \in refused

\* After a Stop the event loop of a client that toggles the pipeline is none's.
LEMMA NobodyToggles ==
  ASSUME PlayerTypeOK, Mutex, Owned, Loops, Quiet, stopped, ~late, apiMutex = Nobody,
         \A d \in Clients : ~Lost(d), NEW e \in Clients, callback[e] # Idle
  PROVE  FALSE
<1>1. life[e] \in {"alive", "joining"} /\ webClient = NoClient /\ pc[Bus] \notin Handling
  BY DEF Loops, Quiet
<1>2. life[e] = "joining"
  BY <1>1, StepFacts DEF Lost
<1>3. PICK t \in Threads : pc[t] \in Joining
  BY <1>2 DEF Owned
<1> QED
  BY <1>1, <1>3, StepFacts DEF Mutex, InStop, Joining, Handling

\* A client that is lost stays so while the bus thread keeps out of Stop: only webClient
\* is deleted.
LEMMA LostStays ==
  ASSUME PlayerTypeOK, Owned, Apart, PlayerNext, NEW e \in Clients, Lost(e), ~Lost(e)'
  PROVE  FALSE
<1>0. life[e] = "alive" /\ e # webClient /\ ~(life'[e] = "alive" /\ e # webClient')
  BY DEF Lost
<1> USE StepFacts
<1>1. CASE Frame \/ \E t \in Threads : Moves(t) \/ Reads(t) \/ Returns(t)
  BY <1>0, <1>1 DEF Frame, Moves, Reads, Returns
<1>2. ASSUME NEW t \in Threads, Deletes(t) PROVE FALSE
  BY <1>0, <1>2 DEF Deletes, Apart
<1>3. ASSUME NEW t \in Threads, Awaits(t) PROVE FALSE
  BY <1>0, <1>3 DEF Awaits, Owned
<1>4. CASE Makes
  BY <1>0, <1>4 DEF Makes
<1> QED
  BY <1>1, <1>2, <1>3, <1>4, Hands

\* What is known after a Stop in which the bus thread kept out
Settled == stopped /\ ~late /\ apiMutex = Nobody /\ \A e \in Clients : ~Lost(e)

\* It is known before a step already, unless the step is the end of a Stop.
LEMMA SettledBefore ==
  ASSUME PlayerTypeOK, Mutex, Owned, Unshared, PlayerNext, Settled',
         UNCHANGED <<stopped, late, apiMutex>>
  PROVE  Settled
  BY LostStays DEF Settled, Unshared

LEMMA QuietStep ==
  ASSUME PlayerTypeOK, Mutex, Owned, Loops, Unshared, Quiet, PlayerNext
  PROVE  Quiet'
<1> USE StepFacts DEF Goto, At
\* Neither what Stop is about nor what the stream is about changes.
<1>1. ASSUME UNCHANGED <<apiMutex, late, stopped, webClient, pipe, playing>>,
             UNCHANGED pc \/ \E t \in Threads, to \in Steps \ (Handling \cup {"join", "silence"}) :
                                 pc' = [pc EXCEPT ![t] = to]
      PROVE  Quiet'
  <2>1. Settled' => Settled
    BY <1>1, SettledBefore
  <2> QED
    BY <1>1, <2>1 DEF Quiet, Settled
<1>2. ASSUME NEW t \in Callers, CallStop(t) \/ \E u \in {"ws", "wss"} : Play(t, u)
      PROVE  Quiet'
  <2>1. /\ UNCHANGED <<apiMutex, late, stopped, webClient, pipe, playing>>
        /\ pc' = [pc EXCEPT ![t] = "stop"]
    BY <1>2 DEF CallStop, Play, pipeVars, ghostVars
  <2> QED
    BY <1>1, <2>1 DEF Steps, Handling
<1>3. ASSUME NEW t \in Threads, StopBegins(t) PROVE Quiet'
  <2>1. /\ apiMutex' = t /\ webClient' = webClient
        /\ pc' = [pc EXCEPT ![t] = IF webClient = NoClient THEN "silence" ELSE "disconnect"]
    BY <1>3 DEF StopBegins
  <2> QED
    BY <2>1 DEF Quiet
<1>4. ASSUME NEW t, Dies \/ Crash \/ Dangles(t) PROVE Quiet'
  BY <1>1, <1>4 DEF Dies, Crash, Dangles, playerVars, stepVars, pipeVars, ghostVars
<1>5. ASSUME NEW t \in Threads, StopDisconnects(t) \/ StopResets(t) \/ StopJoins(t) PROVE Quiet'
  <2>1. apiMutex = t /\ pc[t] \in {"disconnect", "closing", "reset", "delete", "join"}
    BY <1>5 DEF StopDisconnects, StopResets, StopJoins, Mutex, InStop
  <2>2. CASE StopDisconnects(t)
    BY <1>1, <1>4, <2>2 DEF StopDisconnects, disconnect, read, release, pipeVars, ghostVars, Steps,
       Handling
  <2>3. CASE At(t, "reset") /\ read(t, "delete")
    BY <1>1, <2>3 DEF read, pipeVars, ghostVars, Steps, Handling
  <2>4. CASE At(t, "delete") /\ reset(t, "join", "silence")
    BY <2>1, <2>4 DEF reset, Quiet
  <2>5. CASE StopJoins(t)
    <3>1. ~late => webClient = NoClient
      BY <2>1, <2>5 DEF StopJoins, Quiet
    <3>2. UNCHANGED <<apiMutex, late, stopped, webClient>> /\ pc' = [pc EXCEPT ![t] = "silence"]
      BY <2>5 DEF StopJoins, join, release, ghostVars
    <3> QED
      BY <2>1, <3>1, <3>2 DEF Quiet
  <2> QED
    BY <1>5, <2>2, <2>3, <2>4, <2>5 DEF StopResets
<1>6. ASSUME NEW t \in Threads, StopSilences(t) PROVE Quiet'
  <2>1. apiMutex = t /\ pc[t] = "silence"
    BY <1>6 DEF StopSilences, Mutex, InStop
  <2>2. ~late => webClient = NoClient /\ (t = Bus \/ pc[Bus] \notin Handling)
    BY <2>1 DEF Quiet, Unshared, Apart
  <2>3. pc'[Bus] \in Handling => t # Bus /\ pc'[Bus] = pc[Bus]
    BY <1>6 DEF StopSilences, Handling
  <2> QED
    BY <1>6, <2>2, <2>3 DEF StopSilences, Quiet
<1>7. ASSUME NEW t \in Threads, Begin(t) PROVE Quiet'
  <2>1. /\ stopped' = FALSE /\ pc' = [pc EXCEPT ![t] = "idle"]
        /\ UNCHANGED <<apiMutex, late, webClient>>
    BY <1>7 DEF Begin
  <2> QED
    BY <2>1 DEF Quiet
<1>8. CASE StreamAdvances \/ StreamFails
  <2>1. /\ UNCHANGED <<apiMutex, late, stopped, webClient, pc>> /\ pipe # "null"
    BY <1>8 DEF StreamAdvances, StreamFails, stepVars, ghostVars
  <2>2. ~Settled'
    BY <2>1, SettledBefore DEF Quiet, Settled
  <2> QED
    BY <2>1, <2>2 DEF Quiet, Settled
<1>9. CASE BusPop
  <2>1. CASE error /\ pc' = [pc EXCEPT ![Bus] = "stop"] /\ UNCHANGED <<playing, late, raced>>
    BY <1>1, <1>9, <2>1 DEF BusPop, Steps, Handling
  <2>2. CASE /\ playing > 0 /\ pc' = [pc EXCEPT ![Bus] = "test"]
             /\ late' = (late \/ apiMutex # Nobody)
    <3>1. UNCHANGED <<apiMutex, stopped, webClient>>
      BY <1>9 DEF BusPop
    <3>2. ~late' => apiMutex' = Nobody /\ late' = late
      BY <2>2, <3>1 DEF PlayerTypeOK
    <3>3. ~Settled'
      BY <2>2, <3>1, <3>2, SettledBefore DEF Quiet, Settled
    <3> QED
      BY <3>2, <3>3 DEF Quiet, Settled
  <2> QED
    BY <1>9, <2>1, <2>2 DEF BusPop
\* The bus thread in handleMessage: it came in before Stop, or Stop waits for nobody.
<1>10. ASSUME pc[Bus] \in Handling, UNCHANGED <<apiMutex, late, stopped>>
       PROVE  Quiet'
  <2>1. apiMutex # Bus
    BY <1>10 DEF Mutex, InStop, Handling
  <2>2. late \/ apiMutex = Nobody
    BY <1>10, <2>1 DEF Unshared, Apart
  <2>3. ~Settled'
    BY <1>10, SettledBefore DEF Quiet, Settled
  <2> QED
    BY <1>10, <2>2, <2>3 DEF Quiet, Settled
<1>11. CASE BusTest \/ BusType \/ BusSwaps \/ BusCreates \/ BusConnects
  <2>1. pc[Bus] \in Handling
    BY <1>11 DEF BusTest, BusType, BusSwaps, BusCreates, BusConnects, Handling
  <2>2. Dies \/ UNCHANGED <<apiMutex, late, stopped>>
    BY <1>11 DEF BusTest, BusType, BusSwaps, BusCreates, BusConnects, read, release, disconnect,
       reset, join, Crash, Dangles, ghostVars
  <2> QED
    BY <1>4, <1>10, <2>1, <2>2
<1>12. ASSUME NEW e \in Clients, WsOther(e) \/ WsTest(e) \/ WsType(e) \/ Library(e) \/ Refused(e)
       PROVE  Quiet'
  BY <1>1, <1>4, <1>12 DEF WsOther, WsTest, WsType, Library, Refused, playerVars, pipeVars,
     stepVars, ghostVars
<1>13. ASSUME NEW e \in Clients, WsToggle(e) PROVE Quiet'
  <2>1. UNCHANGED <<apiMutex, late, stopped, webClient, pc>> /\ callback[e] # Idle
    BY <1>13 DEF WsToggle, Done, stepVars, ghostVars
  <2>2. ~Settled'
    BY <2>1, SettledBefore, NobodyToggles DEF Settled
  <2> QED
    BY <2>1, <2>2 DEF Quiet, Settled
<1> QED
  BY <1>2, <1>3, <1>5, <1>6, <1>7, <1>8, <1>9, <1>11, <1>12, <1>13
     DEF PlayerNext, BusStep, StopStep, WsCallback

LEMMA FlagStep ==
  ASSUME PlayerTypeOK, Owned, Loops, Flag, PlayerNext
  PROVE  Flag'
<1>0. /\ Bus \in Threads /\ fallback \in BOOLEAN /\ carried \in BOOLEAN /\ refused \subseteq Clients
      /\ NoClient \notin Clients
  BY DEF Threads, PlayerTypeOK
<1>1. ASSUME fallback' = fallback, carried' = carried, webClient' = webClient,
             refused \subseteq refused'
      PROVE  Flag'
  BY <1>1 DEF Flag
<1>2. ASSUME NEW t, Dies \/ Crash \/ Dangles(t) PROVE Flag'
  BY <1>1, <1>2 DEF Dies, Crash, Dangles, playerVars, ghostVars
<1>3. ASSUME NEW t \in Threads, NEW next, read(t, next) \/ release(t, next) PROVE Flag'
  BY <1>1, <1>3 DEF read, release, ghostVars
<1>4. ASSUME NEW t \in Threads, NEW joins, NEW next, reset(t, joins, next) PROVE Flag'
  BY <1>0, <1>4 DEF reset, Flag
<1>5. ASSUME NEW t \in Threads, StopStep(t) PROVE Flag'
  BY <1>1, <1>2, <1>3, <1>4, <1>5 DEF StopStep, StopBegins, StopDisconnects, StopResets,
     StopJoins, StopSilences, Begin, disconnect, join
<1>6. CASE BusSwaps
  BY <1>0, <1>2, <1>3, <1>4, <1>6 DEF BusSwaps, disconnect, join
<1>7. CASE BusType
  <2>1. CASE fallback' = FALSE
    BY <2>1 DEF Flag
  <2>2. CASE UNCHANGED <<fallback, webClient, ghostVars>>
    BY <1>1, <2>2 DEF ghostVars
  <2> QED
    BY <1>2, <1>3, <1>7, <2>1, <2>2 DEF BusType, read, release, Dangles
<1>8. CASE BusCreates
  <2>1. webClient = NoClient /\ UNCHANGED <<fallback, carried>>
    BY <1>8 DEF BusCreates, Owned, ghostVars
  <2>2. fallback => carried
    BY <1>0, <2>1 DEF Flag
  <2> QED
    BY <2>1, <2>2 DEF Flag
<1>9. CASE BusPop \/ BusTest \/ BusConnects \/ StreamAdvances \/ StreamFails
           \/ \E t \in Callers : CallStop(t) \/ \E u \in {"ws", "wss"} : Play(t, u)
  BY <1>0, <1>1, <1>2, <1>3, <1>9 DEF BusPop, BusTest, BusConnects, StreamAdvances, StreamFails,
     CallStop, Play, ghostVars
<1>10. ASSUME NEW e \in Clients, WsType(e) PROVE Flag'
  <2>1. CASE fallback' = TRUE /\ tls[webClient] /\ webClient # NoClient
    <3>1. carried' = (carried \/ e # webClient) /\ UNCHANGED <<webClient, refused>>
      BY <1>10, <2>1 DEF WsType, Crash, Dies, playerVars, ghostVars, Done
    <3>2. e = webClient => webClient \in refused
      BY <1>10, <2>1 DEF WsType, Failing, Loops
    <3> QED
      BY <3>1, <3>2 DEF Flag
  <2>2. CASE UNCHANGED <<fallback, webClient, carried, refused>>
    BY <1>1, <2>2
  <2> QED
    BY <1>2, <1>10, <2>1, <2>2 DEF WsType
<1>11. ASSUME NEW e \in Clients, WsOther(e) \/ WsTest(e) \/ WsToggle(e) \/ Library(e) \/ Refused(e)
       PROVE  Flag'
  BY <1>1, <1>11 DEF WsOther, WsTest, WsToggle, Library, Refused, playerVars, ghostVars
<1> QED
  BY <1>5, <1>6, <1>7, <1>8, <1>9, <1>10, <1>11 DEF PlayerNext, BusStep, WsCallback

-------------------------------------------------------------------------------
PlayerInv == PlayerTypeOK /\ Mutex /\ Owned /\ Unshared /\ Loops /\ Quiet /\ Flag

LEMMA PlayerInitially ==
  ASSUME PlayerInit
  PROVE  PlayerInv
<1>0. Bus \in Threads /\ Nobody \notin Threads /\ NoClient \notin Clients /\ Clients \subseteq Endpoint
  BY DEF Threads
<1>1. EndpointTypeOK
  BY InitialTypes DEF PlayerInit
<1>2. OwnTypes
  <2>1. /\ pc \in [Threads -> Steps] /\ op \in [Threads -> {"none", "play", "stop", "error"}]
        /\ held \in [Threads -> Clients \cup {NoClient}]
        /\ wpc \in [Endpoint -> {"idle", "type", "toggle"}]
    BY DEF PlayerInit, Steps
  <2>2. calls \in 0 .. MaxCalls /\ playing \in Nat /\ refused \subseteq Clients
    BY DEF PlayerInit
  <2>3. /\ url \in {"ws", "wss"} /\ fallback \in BOOLEAN /\ error \in BOOLEAN
        /\ pipe \in {"null", "starting", "playing", "drained"}
        /\ carried \in BOOLEAN /\ stopped \in BOOLEAN /\ late \in BOOLEAN /\ raced \in BOOLEAN
    BY DEF PlayerInit
  <2>4. webClient \in Clients \cup {NoClient} /\ apiMutex \in Threads \cup {Nobody}
    BY DEF PlayerInit
  <2> QED
    BY <2>1, <2>2, <2>3, <2>4 DEF OwnTypes
<1>3. Mutex
  BY <1>0 DEF PlayerInit, Mutex, InStop, Threads
<1>4. Owned /\ Unshared
  BY <1>0 DEF PlayerInit, EndpointInit, Owned, Handed, Unshared, Apart, Lost, InCall, Joining,
     Deleting, Handling
<1>5. Loops
  BY <1>0 DEF PlayerInit, EndpointInit, Loops, Idle
<1>6. Quiet /\ Flag
  BY <1>0 DEF PlayerInit, Quiet, Flag, Handling
<1> QED
  BY <1>1, <1>2, <1>3, <1>4, <1>5, <1>6 DEF PlayerInv, PlayerTypeOK, OwnTypes

\* Nothing changes.
LEMMA PlayerStutters ==
  ASSUME PlayerInv, UNCHANGED playerSysVars
  PROVE  PlayerInv'
<1>1. UNCHANGED <<endpointVars, playerVars, ended>>
  BY DEF playerSysVars
<1>2. EndpointTypeOK' /\ OwnTypes'
  BY <1>1, TypesStutter, OwnTypesFrame DEF PlayerInv, PlayerTypeOK, OwnTypes, EndpointTypeOK
<1>3. /\ UNCHANGED <<life, loop, callback, tls, url, fallback, webClient, pipe, playing, apiMutex>>
      /\ UNCHANGED <<pc, op, held, refused, carried, stopped, late, raced>>
  BY <1>1 DEF endpointVars, playerVars, stepVars, pipeVars, ghostVars
<1>4. Mutex' /\ Owned' /\ Unshared'
  BY <1>3 DEF PlayerInv, Mutex, Owned, Handed, Unshared, Apart, Lost
<1>5. Loops' /\ Quiet' /\ Flag'
  BY <1>3 DEF PlayerInv, Loops, Quiet, Flag, Lost
<1> QED
  BY <1>2, <1>4, <1>5 DEF PlayerInv, PlayerTypeOK, OwnTypes

LEMMA PlayerInvStep ==
  ASSUME PlayerInv, [PlayerNext]_playerSysVars
  PROVE  PlayerInv'
<1>1. CASE PlayerNext
  BY <1>1, PlayerTypesStep, MutexStep, OwnedStep, UnsharedStep, LoopsStep, QuietStep, FlagStep
     DEF PlayerInv, Owned
<1> QED
  BY <1>1, PlayerStutters

\* The player uses the library as it is: with its clients it implements the specification
\* of the endpoints, whose properties are then the player's, and so is its fairness.
THEOREM PlayerUsesTheLibrary == PlayerSpec => AnyUse /\ LibraryFairness
<1>1. PlayerInit => EndpointInit
  BY DEF PlayerInit
<1>2. PlayerInv /\ [PlayerNext]_playerSysVars => [EndpointNext]_endpointVars
  BY PlayerEndpoints DEF PlayerInv, Owned, EndpointNext, playerSysVars
<1> QED
  BY <1>1, <1>2, PlayerInitially, PlayerInvStep, PTL DEF PlayerSpec, AnyUse

\* A client of the player has at most one connection, for the bus thread connects the
\* client it has just made, and that one only once; nobody else connects.
Single ==
    /\ \A e \in Endpoint \ Clients : Unused(e)
    /\ \A e \in Clients : life[e] = "none" => Unused(e)
    /\ pc[Bus] = "connect" /\ webClient # NoClient => Unused(webClient)
    /\ pc[Bus] = "connecting" => Unused(held[Bus])
    /\ ConnectsOnce

\* What opens a connection
LEMMA OnlyTheBusConnects ==
  ASSUME PlayerInv, PlayerNext
  PROVE  \/ /\ At(Bus, "connecting") /\ Connect(held[Bus]) /\ release(Bus, "idle")
         \/ \A c \in Conn : session'[c] # "none" => session[c] # "none"
<1> DEFINE Kept == \A c \in Conn : session'[c] # "none" => session[c] # "none"
<1>0. session \in [Conn -> Sessions]
  BY DEF PlayerInv, PlayerTypeOK, EndpointTypeOK
<1> HIDE DEF Kept
<1>1. ASSUME UNCHANGED endpointVars PROVE Kept
  BY <1>1 DEF Kept, endpointVars
<1>2. ASSUME NEW e, closeConnection(e) \/ session' = session PROVE Kept
  BY <1>0, <1>2 DEF Kept, closeConnection
<1>3. ASSUME NEW t, NEW next, \/ disconnect(t, next) \/ read(t, next) \/ join(t, next)
                              \/ Dies \/ Crash \/ Dangles(t)
      PROVE  Kept
  BY <1>1, <1>2, <1>3 DEF disconnect, Disconnect, read, join, Joined, Dies, Crash, Dangles
<1>4. ASSUME NEW t, NEW joins, NEW next, reset(t, joins, next) PROVE Kept
  BY <1>1, <1>2, <1>4 DEF reset, Destroy
<1>5. ASSUME NEW t \in Threads, StopStep(t) PROVE Kept
  <2>1. CASE StopBegins(t) \/ StopSilences(t) \/ Begin(t)
    BY <1>1, <2>1 DEF StopBegins, StopSilences, Begin
  <2>2. CASE StopDisconnects(t) \/ StopResets(t) \/ StopJoins(t)
    BY <1>3, <1>4, <2>2 DEF StopDisconnects, StopResets, StopJoins
  <2> QED
    BY <1>5, <2>1, <2>2 DEF StopStep
<1>6. ASSUME \/ StreamAdvances \/ StreamFails \/ BusPop \/ BusTest \/ BusType
             \/ \E t \in Callers : CallStop(t) \/ \E u \in {"ws", "wss"} : Play(t, u)
      PROVE  Kept
  BY <1>1, <1>3, <1>6 DEF StreamAdvances, StreamFails, BusPop, BusTest, BusType, CallStop, Play
<1>7. ASSUME BusSwaps PROVE Kept
  BY <1>3, <1>4, <1>7 DEF BusSwaps
<1>8. ASSUME BusCreates PROVE Kept
  BY <1>2, <1>8 DEF BusCreates, NewClient, Construct
<1>9. ASSUME NEW e \in Clients, WsCallback(e) PROVE Kept
  BY <1>1, <1>2, <1>3, <1>9 DEF WsCallback, WsOther, WsTest, WsType, WsToggle, Done
<1>10. ASSUME NEW e \in Clients, Library(e) \/ Refused(e) PROVE Kept
  BY <1>0, <1>10 DEF Kept, Library, Refused, ping, LoopEnds, onOpen, onFail, onClose,
     onPong, onPongTimeout, closeConnection, GoesSilent, Move
<1>11. CASE BusConnects
  <2>1. UNCHANGED endpointVars => Kept
    BY <1>1
  <2> QED
    BY <1>3, <1>11, <2>1 DEF BusConnects, Kept
<1> QED
  BY <1>5, <1>6, <1>7, <1>8, <1>9, <1>10, <1>11 DEF PlayerNext, BusStep, Kept

\* Which client the bus thread connects next, and which are not made yet
LEMMA NextConnected ==
  ASSUME PlayerInv, PlayerNext
  PROVE  /\ \A e \in Clients : life'[e] = "none" => life[e] = "none"
         /\ pc'[Bus] = "connect" /\ webClient' # NoClient =>
                \/ pc[Bus] = "connect" /\ webClient' = webClient
                \/ webClient' \in Clients /\ life[webClient'] = "none"
         /\ pc'[Bus] = "connecting" =>
                \/ pc[Bus] = "connect" /\ held'[Bus] = webClient /\ webClient # NoClient
                \/ pc[Bus] = "connecting" /\ held'[Bus] = held[Bus]
<1> DEFINE Goal ==
         /\ \A e \in Clients : life'[e] = "none" => life[e] = "none"
         /\ pc'[Bus] = "connect" /\ webClient' # NoClient =>
                \/ pc[Bus] = "connect" /\ webClient' = webClient
                \/ webClient' \in Clients /\ life[webClient'] = "none"
         /\ pc'[Bus] = "connecting" =>
                \/ pc[Bus] = "connect" /\ held'[Bus] = webClient /\ webClient # NoClient
                \/ pc[Bus] = "connecting" /\ held'[Bus] = held[Bus]
<1>0. PlayerTypeOK
  BY DEF PlayerInv
<1> USE <1>0, StepFacts DEF Goto, InCall, Joining, Deleting
<1>1. CASE Frame
  BY <1>1 DEF Frame
<1>2. ASSUME NEW t \in Threads, Moves(t) PROVE Goal
  BY <1>2 DEF Moves
<1>3. ASSUME NEW t \in Threads, Reads(t) PROVE Goal
  BY <1>3 DEF Reads
<1>4. ASSUME NEW t \in Threads, Returns(t) \/ Awaits(t) PROVE Goal
  BY <1>4 DEF Returns, Awaits
<1>5. ASSUME NEW t \in Threads, Deletes(t) PROVE Goal
  BY <1>5 DEF Deletes
<1>6. CASE Makes
  BY <1>6 DEF Makes
<1> QED
  BY <1>1, <1>2, <1>3, <1>4, <1>5, <1>6, Hands

LEMMA SingleStep ==
  ASSUME PlayerInv, Single, [PlayerNext]_playerSysVars
  PROVE  Single'
<1>0. /\ Clients \subseteq Endpoint \ Servers /\ session \in [Conn -> Sessions]
      /\ NoClient \notin Endpoint /\ Bus \in Threads /\ pc \in [Threads -> Steps]
      /\ life \in [Endpoint -> {"none", "alive", "joining", "gone"}]
  BY DEF PlayerInv, PlayerTypeOK, EndpointTypeOK, Threads
<1>1. CASE At(Bus, "connecting") /\ Connect(held[Bus]) /\ release(Bus, "idle")
  <2>1. held[Bus] \in Clients /\ Unused(held[Bus]) /\ life[held[Bus]] # "none"
    BY <1>0, <1>1, StepFacts DEF At, Single, PlayerInv, Owned, Handed, InCall, Connect, Callable
  <2>2. life' = life /\ pc'[Bus] = "idle"
    BY <1>0, <1>1 DEF Connect, release, Goto
  <2>3. PICK c \in Conn : Owner[c] = held[Bus] /\ session' = [session EXCEPT ![c] = "connecting"]
    BY <1>1 DEF Connect, Move
  <2>4. \A d \in Conn : d # c => session'[d] = session[d] /\ (Owner[d] = Owner[c] => session[d] = "none")
    BY <1>0, <2>1, <2>3 DEF Unused
  <2>5. \A e \in Endpoint : e # held[Bus] /\ Unused(e) => Unused(e)'
    BY <1>0, <2>3, <2>4 DEF Unused
  <2>6. ConnectsOnce'
    BY <1>0, <2>3, <2>4 DEF Single, ConnectsOnce
  <2> QED
    BY <1>0, <2>1, <2>2, <2>5, <2>6 DEF Single
<1>2. CASE PlayerNext /\ \A c \in Conn : session'[c] # "none" => session[c] # "none"
  <2>1. \A e \in Endpoint : Unused(e) => Unused(e)'
    BY <1>2 DEF Unused
  <2>2. held[Bus] \in Endpoint \cup {NoClient} /\ (webClient # NoClient => webClient \in Endpoint)
    BY StepFacts DEF PlayerInv
  <2> QED
    BY <1>0, <1>2, <2>1, NextConnected DEF Single, Unused, ConnectsOnce
<1>4. CASE UNCHANGED playerSysVars
  BY <1>4 DEF playerSysVars, endpointVars, playerVars, stepVars, Single, Unused, ConnectsOnce
<1> QED
  BY <1>1, <1>2, <1>4, OnlyTheBusConnects

LEMMA SingleInitially ==
  ASSUME PlayerInit
  PROVE  Single
  BY DEF PlayerInit, EndpointInit, Single, Unused, ConnectsOnce

\* On an open connection of a client of the player one ping is scheduled or unanswered,
\* whatever Play, Stop and the fallback do: AudioPlayer connects each client once.
THEOREM PlayerPings == PlayerSpec => []OnePing
<1>1. PlayerInv => EndpointTypeOK
  BY DEF PlayerInv, PlayerTypeOK
<1>2. Single => ConnectsOnce
  BY DEF Single
<1> QED
  BY <1>1, <1>2, PlayerInitially, PlayerInvStep, SingleInitially, SingleStep, PingChain,
     PlayerUsesTheLibrary, PTL DEF PlayerSpec

LEMMA NoLeak ==
  ASSUME PlayerInv
  PROVE  NoClientLeaks
<1>0. PlayerTypeOK /\ Mutex /\ Owned /\ Unshared
  BY DEF PlayerInv
<1>1. webClient # NoClient => life[webClient] = "alive"
  BY <1>0 DEF Owned
<1>2. CASE ~raced
  <2>0. Apart
    BY <1>0, <1>2 DEF Unshared
  <2>1. \A e \in Clients : life[e] \in {"alive", "joining"}
           => e = webClient \/ \E t \in Threads : held[t] = e
    BY <1>0, <1>2 DEF Owned, Unshared, Lost
  <2>2. ASSUME NEW t \in Threads, NEW s \in Threads, t # s, held[t] # NoClient
        PROVE  held[t] # held[s]
    BY <1>0, <2>0, <2>2, OneAtATime DEF Owned, Handed
  <2>3. ASSUME NEW t \in Threads, held[t] # NoClient
        PROVE  life[held[t]] = IF pc[t] \in {"join", "swapJoin"} THEN "joining" ELSE "alive"
    BY <1>0, <2>0, <2>3 DEF Owned, Handed, Apart, Joining
  <2> QED
    BY <1>1, <2>1, <2>2, <2>3 DEF NoClientLeaks
<1> QED
  BY <1>1, <1>2 DEF NoClientLeaks

LEMMA Silence ==
  ASSUME PlayerInv
  PROVE  SilentAfterStop
<1> SUFFICES ASSUME stopped, ~late, \A e \in Clients : ~Lost(e), \A t \in Threads : pc[t] = "idle"
             PROVE  webClient = NoClient
  BY DEF SilentAfterStop
<1>1. apiMutex = Nobody
  BY DEF PlayerInv, PlayerTypeOK, Mutex, InStop
<1> QED
  BY <1>1 DEF PlayerInv, Quiet

\* webClient never dangles; and until the bus thread handles a PLAYING message while
\* another thread is in Stop, no client is left running with nobody to close it, none is
\* destroyed twice, and none is called that another thread destroys.
THEOREM NoClientIsLost == PlayerSpec => []NoClientLeaks
  BY NoLeak, PlayerInitially, PlayerInvStep, PTL DEF PlayerSpec

\* After Stop there is no client, unless the bus thread was in handleMessage meanwhile, or
\* a client is lost.
THEOREM StopSilencesThePlayer == PlayerSpec => []SilentAfterStop
  BY Silence, PlayerInitially, PlayerInvStep, PTL DEF PlayerSpec

\* BusType is the only step that takes a client for a refused one.
LEMMA SwapStep ==
  ASSUME PlayerInv, PlayerNext, pc[Bus] = "typing", pc'[Bus] = "swap"
  PROVE  held[Bus] \in refused \/ carried
<1>0. /\ Bus \in Threads /\ Bus \notin Callers /\ pc \in [Threads -> Steps]
      /\ \A t \in Threads : t \in Callers \/ t = Bus
  BY DEF PlayerInv, PlayerTypeOK, Threads
<1>1. BusType
  <2>1. ASSUME NEW t \in Threads, StopStep(t) PROVE FALSE
    BY <1>0, <2>1 DEF StopStep, StopBegins, StopDisconnects, StopResets, StopJoins,
       StopSilences, Begin, disconnect, read, release, reset, join, Crash, Dangles, Dies,
       playerVars, stepVars, At, Goto
  <2>2. ASSUME NEW t \in Callers, CallStop(t) \/ \E u \in {"ws", "wss"} : Play(t, u) PROVE FALSE
    BY <1>0, <2>2 DEF CallStop, Play, At, Goto
  <2>3. ~(BusPop \/ BusTest \/ BusSwaps \/ BusCreates \/ BusConnects)
    BY DEF BusPop, BusTest, BusSwaps, BusCreates, BusConnects, At
  <2>4. pc' # pc
    OBVIOUS
  <2>5. ~(StreamAdvances \/ StreamFails
          \/ \E e \in Clients : WsCallback(e) \/ Library(e) \/ Refused(e))
    BY <2>4 DEF StreamAdvances, StreamFails, WsCallback, WsOther, WsTest, WsType, WsToggle, Crash,
       Dies, Library, Refused, playerVars, stepVars
  <2> QED
    BY <2>1, <2>2, <2>3, <2>5 DEF PlayerNext, BusStep
<1>2. fallback
  BY <1>0, <1>1 DEF BusType, read, release, Dangles, Crash, Dies, playerVars, stepVars, At, Goto
<1>3. webClient \in {NoClient, held[Bus]} /\ refused \subseteq Clients /\ NoClient \notin Clients
  BY StepFacts DEF PlayerInv, Owned, PlayerTypeOK
<1> QED
  BY <1>2, <1>3 DEF PlayerInv, Flag

\* The bus thread takes a client for one whose secured attempt failed only when it did, or
\* when the flag outlived the client it was set for.
THEOREM OnlyTheRefusedIsSwapped == PlayerSpec => SwapsTheRefused
<1>1. ASSUME PlayerInv, [PlayerNext]_playerSysVars
      PROVE  [pc[Bus] = "typing" /\ pc'[Bus] = "swap" => held[Bus] \in refused \/ carried]_playerSysVars
  BY <1>1, SwapStep
<1> QED
  BY <1>1, PlayerInitially, PlayerInvStep, PTL DEF PlayerSpec, SwapsTheRefused

-------------------------------------------------------------------------------
(* JsonRpcInterface.                                                       *)

Calling == {"create", "send", "wait", "remove"}

Sending == \A t \in Senders :
    step[t] \in {"idle"} \cup Calling /\ (step[t] # "idle" => id[t] \in Ids)

\* A promise has at most one answer to come, none before its request is sent and none
\* once it is set.
Answers == ~twice => \A i \in Ids :
    /\ responseToPromise[i] = "waiting" => asked[i] <= 1
    /\ responseToPromise[i] = "set" => asked[i] = 0
    /\ \A t \in Senders : Owns(t, i) /\ step[t] = "send" =>
           responseToPromise[i] = "waiting" /\ asked[i] = 0

Fatal == ended => twice

RpcInv == MessagingTypeOK /\ Sending /\ PromiseOwned /\ Answers /\ Fatal

\* The endpoint leaves the messages alone.
LEMMA TransportKeeps ==
  ASSUME RpcInv, Transport
  PROVE  RpcInv'
<1>1. EndpointTypeOK'
  BY EndpointTypes DEF RpcInv, MessagingTypeOK, Transport
<1> QED
  BY <1>1 DEF RpcInv, MessagingTypeOK, Transport, messagingVars, rpcVars, commandVars, Sending,
     PromiseOwned, Owns, Answers, Fatal

\* A call begins.
LEMMA OngoingKeeps ==
  ASSUME RpcInv, NEW t \in Senders, NEW i \in Ids, isRequestProcessingOngoing(t, i)
  PROVE  RpcInv'
<1> USE DEF RpcInv
<1>1. EndpointTypeOK'
  BY TypesStutter DEF isRequestProcessingOngoing, MessagingTypeOK, EndpointTypeOK
<1>2. /\ step[t] = "idle" /\ step'[t] \in {"idle", "create"} /\ (step'[t] # "idle" => id'[t] = i)
      /\ \A u \in Senders \ {t} : step'[u] = step[u] /\ id'[u] = id[u]
      /\ UNCHANGED <<responseToPromise, asked, twice, ended>>
  BY DEF isRequestProcessingOngoing, AtStep, To, rpcVars, MessagingTypeOK
<1>3. MessagingTypeOK'
  BY <1>1 DEF isRequestProcessingOngoing, To, rpcVars, commandVars, MessagingTypeOK
<1>4. \A u \in Senders, j \in Ids : Owns(u, j)' <=> Owns(u, j)
  BY <1>2 DEF Owns
<1> QED
  BY <1>2, <1>3, <1>4 DEF Sending, Calling, PromiseOwned, Answers, Owns, Fatal

\* emplace: no thread takes over a promise that another has made.
LEMMA CreateKeeps ==
  ASSUME RpcInv, NEW t \in Senders, createFutureResponse(t)
  PROVE  RpcInv'
<1> USE DEF RpcInv
<1>1. EndpointTypeOK'
  BY TypesStutter DEF createFutureResponse, rpcVars, MessagingTypeOK, EndpointTypeOK
<1>2. id[t] \in Ids /\ step[t] = "create" /\ UNCHANGED <<id, asked, ended>>
      /\ \A u \in Senders \ {t} : step'[u] = step[u]
  BY DEF createFutureResponse, AtStep, To, rpcVars, Sending, Calling, MessagingTypeOK
<1>3. MessagingTypeOK'
  BY <1>1, <1>2 DEF createFutureResponse, To, rpcVars, commandVars, MessagingTypeOK
<1>4. CASE responseToPromise[id[t]] # "none"
  <2>1. step'[t] = "idle" /\ UNCHANGED <<responseToPromise, twice>>
    BY <1>4 DEF createFutureResponse, To, rpcVars, MessagingTypeOK
  <2>2. \A u \in Senders, j \in Ids : Owns(u, j)' <=> Owns(u, j)
    BY <1>2, <2>1 DEF Owns
  <2> QED
    BY <1>2, <1>3, <2>1, <2>2 DEF Sending, Calling, PromiseOwned, Answers, Owns, Fatal
<1>5. CASE responseToPromise[id[t]] = "none"
  <2>1. /\ step'[t] = "send" /\ responseToPromise'[id[t]] = "waiting"
        /\ \A j \in Ids \ {id[t]} : responseToPromise'[j] = responseToPromise[j]
        /\ twice' = (twice \/ asked[id[t]] > 0)
    <3>1. /\ responseToPromise' = [responseToPromise EXCEPT ![id[t]] = "waiting"]
          /\ step' = [step EXCEPT ![t] = "send"]
      BY <1>5 DEF createFutureResponse, To
    <3>2. twice' = (twice \/ asked[id[t]] > 0)
      BY <1>5, Zenon DEF createFutureResponse
    <3> QED
      BY <1>2, <3>1, <3>2 DEF MessagingTypeOK
  <2>2. \A u \in Senders, j \in Ids : Owns(u, j)' <=> (Owns(u, j) \/ (u = t /\ j = id[t]))
    BY <1>2, <2>1 DEF Owns
  <2>3. \A u \in Senders : ~Owns(u, id[t])
    BY <1>2, <1>5 DEF PromiseOwned
  <2>4. ASSUME NEW j \in Ids
        PROVE  /\ (responseToPromise'[j] # "none") <=> (\E u \in Senders : Owns(u, j)')
               /\ \A u, w \in Senders : Owns(u, j)' /\ Owns(w, j)' => u = w
    <3>1. CASE j = id[t]
      BY <2>1, <2>2, <2>3, <3>1
    <3>2. CASE j # id[t]
      <4>1. \A u \in Senders : Owns(u, j)' <=> Owns(u, j)
        BY <2>2, <3>2
      <4> QED
        BY <2>1, <3>2, <4>1 DEF PromiseOwned
    <3> QED
      BY <3>1, <3>2
  <2>5. ASSUME ~twice', NEW j \in Ids
        PROVE  /\ responseToPromise'[j] = "waiting" => asked'[j] <= 1
               /\ responseToPromise'[j] = "set" => asked'[j] = 0
               /\ \A u \in Senders : Owns(u, j)' /\ step'[u] = "send" =>
                      responseToPromise'[j] = "waiting" /\ asked'[j] = 0
    <3>1. CASE j = id[t]
      <4>1. asked[j] \in Nat /\ ~(asked[j] > 0) /\ asked'[j] = asked[j]
        BY <1>2, <2>1, <2>5, <3>1 DEF MessagingTypeOK
      <4> QED
        BY <2>1, <3>1, <4>1
    <3>2. CASE j # id[t]
      <4>1. \A u \in Senders : Owns(u, j)' => Owns(u, j) /\ u # t
        BY <1>2, <2>2, <3>2 DEF Owns
      <4> QED
        BY <1>2, <2>1, <2>5, <3>2, <4>1 DEF Answers
    <3> QED
      BY <3>1, <3>2
  <2> QED
    BY <1>2, <1>3, <2>1, <2>4, <2>5 DEF Sending, Calling, PromiseOwned, Answers, Fatal
<1> QED
  BY <1>4, <1>5

\* send, and the wait: the promise stays.
LEMMA SendKeeps ==
  ASSUME RpcInv, NEW t \in Senders, send(t) \/ getAsyncResponse(t)
  PROVE  RpcInv'
<1> USE DEF RpcInv
<1>1. EndpointTypeOK'
  BY TypesStutter DEF send, getAsyncResponse, MessagingTypeOK, EndpointTypeOK
<1>2. /\ id[t] \in Ids /\ step[t] \in {"send", "wait"} /\ step'[t] \in {"wait", "remove"}
      /\ \A u \in Senders \ {t} : step'[u] = step[u]
      /\ UNCHANGED <<id, responseToPromise, twice, ended>>
  BY DEF send, getAsyncResponse, AtStep, To, rpcVars, Sending, Calling, MessagingTypeOK
<1>3. \/ asked' = asked
      \/ step[t] = "send" /\ asked' = [asked EXCEPT ![id[t]] = @ + 1]
  BY DEF send, getAsyncResponse, AtStep, rpcVars
<1>4. MessagingTypeOK'
  BY <1>1, <1>2, <1>3 DEF send, getAsyncResponse, To, rpcVars, commandVars, MessagingTypeOK
<1>5. \A u \in Senders, j \in Ids : Owns(u, j)' <=> Owns(u, j)
  BY <1>2 DEF Owns
<1>6. Owns(t, id[t]) /\ \A u \in Senders : Owns(u, id[t]) => u = t
  BY <1>2 DEF Owns, PromiseOwned
<1>7. Answers'
  <2> SUFFICES ASSUME ~twice', NEW j \in Ids
               PROVE  /\ responseToPromise'[j] = "waiting" => asked'[j] <= 1
                      /\ responseToPromise'[j] = "set" => asked'[j] = 0
                      /\ \A u \in Senders : Owns(u, j)' /\ step'[u] = "send" =>
                             responseToPromise'[j] = "waiting" /\ asked'[j] = 0
    BY DEF Answers
  <2>1. CASE asked'[j] = asked[j]
    BY <1>2, <1>5, <2>1 DEF Answers
  <2>2. CASE asked'[j] # asked[j]
    <3>1. step[t] = "send" /\ j = id[t] /\ asked'[j] = asked[j] + 1
      BY <1>3, <2>2 DEF MessagingTypeOK
    <3>2. responseToPromise[j] = "waiting" /\ asked[j] = 0
      BY <1>2, <1>6, <3>1 DEF Answers
    <3> QED
      BY <1>2, <1>5, <1>6, <3>1, <3>2
  <2> QED
    BY <2>1, <2>2
<1> QED
  BY <1>2, <1>4, <1>5, <1>7 DEF Sending, Calling, PromiseOwned, Fatal

\* The call ends, and its promise with it.
LEMMA RemoveKeeps ==
  ASSUME RpcInv, NEW t \in Senders, removePromise(t)
  PROVE  RpcInv'
<1> USE DEF RpcInv
<1>1. EndpointTypeOK'
  BY TypesStutter DEF removePromise, MessagingTypeOK, EndpointTypeOK
<1>2. /\ id[t] \in Ids /\ step[t] = "remove" /\ step'[t] = "idle"
      /\ \A u \in Senders \ {t} : step'[u] = step[u]
      /\ responseToPromise'[id[t]] = "none"
      /\ \A j \in Ids \ {id[t]} : responseToPromise'[j] = responseToPromise[j]
      /\ UNCHANGED <<id, asked, twice, ended>>
  BY DEF removePromise, AtStep, To, Sending, Calling, MessagingTypeOK
<1>3. MessagingTypeOK'
  BY <1>1, <1>2 DEF removePromise, To, commandVars, MessagingTypeOK
<1>4. \A u \in Senders, j \in Ids : Owns(u, j)' <=> (Owns(u, j) /\ u # t)
  BY <1>2 DEF Owns
<1>5. Owns(t, id[t]) /\ \A u \in Senders : Owns(u, id[t]) => u = t
  BY <1>2 DEF Owns, PromiseOwned
<1>6. PromiseOwned'
  <2>1. ASSUME NEW j \in Ids, j # id[t] PROVE ~Owns(t, j)
    BY <2>1 DEF Owns
  <2> QED
    BY <1>2, <1>4, <1>5, <2>1 DEF PromiseOwned
<1>7. Answers'
  BY <1>2, <1>4, <1>5 DEF Answers
<1> QED
  BY <1>2, <1>3, <1>6, <1>7 DEF Sending, Calling, Fatal

\* A response comes.
LEMMA ResponseKeeps ==
  ASSUME RpcInv, NEW i \in Ids, handleResponse(i)
  PROVE  RpcInv'
<1> USE DEF RpcInv
<1>1. EndpointTypeOK'
  BY TypesStutter DEF handleResponse, MessagingTypeOK, EndpointTypeOK
<1>2. /\ responseToPromise'[i] = (IF responseToPromise[i] = "waiting" THEN "set"
                                  ELSE responseToPromise[i])
      /\ \A j \in Ids \ {i} : responseToPromise'[j] = responseToPromise[j]
      /\ UNCHANGED <<id, step>> /\ asked[i] > 0
      /\ ended' = (responseToPromise[i] = "set")
  BY DEF handleResponse, MessagingTypeOK
<1>3. \/ /\ asked'[i] = asked[i] - 1 /\ \A j \in Ids \ {i} : asked'[j] = asked[j]
         /\ twice' = twice
      \/ twice' = TRUE
  BY DEF handleResponse, MessagingTypeOK
<1>4. MessagingTypeOK'
  <2>1. asked' \in [Ids -> Nat] /\ twice' \in BOOLEAN
    <3>1. asked \in [Ids -> Nat] /\ twice \in BOOLEAN /\ asked[i] > 0
      BY DEF handleResponse, MessagingTypeOK
    <3>2. CASE asked' = [asked EXCEPT ![i] = @ - 1] /\ twice' = twice
      BY <3>1, <3>2
    <3>3. CASE asked' = asked /\ twice' = TRUE
      BY <3>1, <3>3
    <3> QED
      BY <3>2, <3>3 DEF handleResponse
  <2>2. responseToPromise' \in [Ids -> {"none", "waiting", "set"}]
    <3>1. responseToPromise \in [Ids -> {"none", "waiting", "set"}]
      BY DEF MessagingTypeOK
    <3>2. responseToPromise' = [responseToPromise EXCEPT ![i] = IF @ = "waiting" THEN "set" ELSE @]
      BY DEF handleResponse
    <3> QED
      BY ONLY <3>1, <3>2
  <2>3. UNCHANGED <<step, id, sends, replied, lastResponse, response, alone>>
    BY DEF handleResponse, commandVars
  <2>4. /\ step' \in [Senders -> {"idle", "create", "send", "wait", "remove",
                                 "lock", "waiting", "notified"}]
        /\ id' \in [Senders -> Ids \cup (0 .. MaxSends)]
        /\ response' \in [Senders -> 0 .. replied'] /\ alone' \in [Senders -> BOOLEAN]
    BY <2>3 DEF MessagingTypeOK
  <2>5. sends' \in 0 .. MaxSends /\ replied' \in 0 .. sends' /\ lastResponse' \in 0 .. replied'
    BY <2>3 DEF MessagingTypeOK
  <2> QED
    BY <1>1, <2>1, <2>2, <2>4, <2>5 DEF MessagingTypeOK
<1>5. \A u \in Senders, j \in Ids : Owns(u, j)' <=> Owns(u, j)
  BY <1>2 DEF Owns
<1>6. PromiseOwned'
  BY <1>2, <1>5 DEF PromiseOwned
<1>7. Answers' /\ Fatal'
  BY <1>2, <1>3, <1>5 DEF Answers, Fatal, MessagingTypeOK
<1> QED
  BY <1>2, <1>4, <1>6, <1>7 DEF Sending

LEMMA MessagingInitially ==
  ASSUME MessagingInit
  PROVE  MessagingTypeOK
<1>1. EndpointTypeOK
  BY InitialTypes DEF MessagingInit
<1>2. /\ step \in [Senders -> {"idle", "create", "send", "wait", "remove",
                              "lock", "waiting", "notified"}]
      /\ id \in [Senders -> Ids \cup (0 .. MaxSends)]
      /\ response \in [Senders -> 0 .. replied] /\ alone \in [Senders -> BOOLEAN]
  BY DEF MessagingInit
<1>3. responseToPromise \in [Ids -> {"none", "waiting", "set"}] /\ asked \in [Ids -> Nat]
  BY DEF MessagingInit
<1>4. sends = 0 /\ replied = 0 /\ lastResponse = 0 /\ 0 \in 0 .. MaxSends /\ 0 \in 0 .. 0
  BY DEF MessagingInit
<1>5. twice \in BOOLEAN
  BY DEF MessagingInit
<1> QED
  BY <1>1, <1>2, <1>3, <1>4, <1>5 DEF MessagingTypeOK

\* The messages are left alone, the endpoints keep their types.
LEMMA MessagingFrame ==
  ASSUME MessagingTypeOK, EndpointTypeOK', UNCHANGED messagingVars
  PROVE  MessagingTypeOK'
  BY DEF MessagingTypeOK, messagingVars, rpcVars, commandVars

\* The invariant of sendRequest and handleResponse
LEMMA RpcInitially ==
  ASSUME MessagingInit
  PROVE  RpcInv
<1>1. Sending /\ PromiseOwned
  BY DEF MessagingInit, Sending, PromiseOwned, Owns
<1>2. Answers /\ Fatal
  BY DEF MessagingInit, EndpointInit, Owns, Answers, Fatal
<1> QED
  BY <1>1, <1>2, MessagingInitially DEF RpcInv

LEMMA RpcInvStep ==
  ASSUME RpcInv, RpcNext
  PROVE  RpcInv'
  BY TransportKeeps, OngoingKeeps, CreateKeeps, SendKeeps, RemoveKeeps, ResponseKeeps
     DEF RpcNext, RpcStep

THEOREM RpcInvariant == RpcSpec => []RpcInv
<1>1. RpcInv /\ [RpcNext]_messagingSysVars => RpcInv'
  <2> SUFFICES ASSUME RpcInv, UNCHANGED messagingSysVars PROVE RpcInv'
    BY RpcInvStep
  <2>1. UNCHANGED <<endpointVars, messagingVars, ended>>
    BY DEF messagingSysVars
  <2>2. MessagingTypeOK'
    BY <2>1, TypesStutter, MessagingFrame DEF RpcInv, MessagingTypeOK, EndpointTypeOK
  <2> QED
    BY <2>1, <2>2 DEF RpcInv, messagingVars, rpcVars, Sending, PromiseOwned, Owns, Answers, Fatal
<1> QED
  BY <1>1, RpcInitially, PTL DEF RpcSpec

\* Requests move no endpoint: only the library and its application do,
LEMMA RpcEndpoints ==
  ASSUME [RpcNext]_messagingSysVars
  PROVE  [EndpointNext]_endpointVars
<1>1. CASE Transport
  BY <1>1 DEF Transport, EndpointNext
<1>2. CASE UNCHANGED endpointVars
  BY <1>2
<1> QED
  BY <1>1, <1>2 DEF RpcNext, RpcStep, createFutureResponse, send, getAsyncResponse, removePromise,
     isRequestProcessingOngoing, handleResponse, messagingSysVars

\* so that on the connection of a Messenger that connects once, too, one ping is scheduled
\* or unanswered, whatever the requests and their responses do meanwhile.
THEOREM RequestsPing == RpcSpec /\ []ConnectsOnce => []OnePing
<1>1. RpcInv => EndpointTypeOK
  BY DEF RpcInv, MessagingTypeOK
<1>2. MessagingInit => EndpointInit
  BY DEF MessagingInit
<1> QED
  BY <1>1, <1>2, RpcEndpoints, RpcInvariant, PingChain, PTL DEF RpcSpec, AnyUse

\* Two calls with one Request never share a promise, though isRequestProcessingOngoing and
\* createFutureResponse lock the map one after the other, and no promise outlives its call.
THEOREM PromiseHasOneOwner == RpcSpec => []PromiseOwned
<1>1. RpcInv => PromiseOwned
  BY DEF RpcInv
<1> QED
  BY <1>1, RpcInvariant, PTL

\* Late, lost and unknown responses are harmless: set_value throws only for a second answer
\* to an id, or for the answer to a first sending of it that timed out.
THEOREM OnlyDuplicatesKill == RpcSpec => []DiesOnlyOfDuplicates
<1>1. RpcInv => DiesOnlyOfDuplicates
  BY DEF RpcInv, Fatal, DiesOnlyOfDuplicates
<1> QED
  BY <1>1, RpcInvariant, PTL

-------------------------------------------------------------------------------
(* CommandInterface.                                                       *)

\* Each call keeps the types,
LEMMA CommandTypes ==
  ASSUME MessagingTypeOK, CommandNext
  PROVE  MessagingTypeOK'
<1>1. CASE Transport
  BY <1>1, EndpointTypes, MessagingFrame DEF Transport, MessagingTypeOK
<1>2. ASSUME NEW t \in Senders, sendCommand(t) PROVE MessagingTypeOK'
  <2>1. EndpointTypeOK'
    BY <1>2, TypesStutter DEF sendCommand, MessagingTypeOK, EndpointTypeOK
  <2>2. sends \in Nat /\ sends' = sends + 1 /\ sends' \in 0 .. MaxSends /\ replied \in 0 .. sends'
    BY <1>2 DEF sendCommand, MessagingTypeOK
  <2>3. id' \in [Senders -> Ids \cup (0 .. MaxSends)] /\ alone' \in [Senders -> BOOLEAN]
    BY <1>2, <2>2 DEF sendCommand, MessagingTypeOK
  <2> QED
    BY <1>2, <2>1, <2>2, <2>3 DEF sendCommand, To, rpcVars, MessagingTypeOK
<1>3. ASSUME NEW t \in Senders, waitBegins(t) PROVE MessagingTypeOK'
  <2>1. EndpointTypeOK'
    BY <1>3, TypesStutter DEF waitBegins, MessagingTypeOK, EndpointTypeOK
  <2> QED
    BY <1>3, <2>1 DEF waitBegins, To, rpcVars, commandVars, MessagingTypeOK
<1>4. ASSUME NEW t \in Senders, waitEnds(t) PROVE MessagingTypeOK'
  <2>1. EndpointTypeOK'
    BY <1>4, TypesStutter DEF waitEnds, MessagingTypeOK, EndpointTypeOK
  <2> QED
    BY <1>4, <2>1 DEF waitEnds, To, rpcVars, MessagingTypeOK
<1>5. CASE onMessage
  <2>1. EndpointTypeOK'
    BY <1>5, TypesStutter DEF onMessage, MessagingTypeOK, EndpointTypeOK
  <2>2. step' \in [Senders -> {"idle", "create", "send", "wait", "remove",
                              "lock", "waiting", "notified"}]
    BY <1>5 DEF onMessage, To, MessagingTypeOK
  <2>3. /\ sends \in Nat /\ replied \in Nat /\ replied' = replied + 1 /\ replied' \in 0 .. sends
        /\ lastResponse' = replied'
    BY <1>5 DEF onMessage, MessagingTypeOK
  <2>4. response' \in [Senders -> 0 .. replied']
    BY <1>5, <2>3 DEF onMessage, MessagingTypeOK
  <2> QED
    BY <1>5, <2>1, <2>2, <2>3, <2>4 DEF onMessage, rpcVars, MessagingTypeOK
<1> QED
  BY <1>1, <1>2, <1>3, <1>4, <1>5 DEF CommandNext

\* What is kept is the last answer, and a command that no other overlaps is the last that
\* was sent: the answer to it can only be the last one.
CommandInv ==
    /\ MessagingTypeOK
    /\ lastResponse = replied
    /\ \A t \in Senders : alone[t] => id[t] = sends

LEMMA CommandInvStep ==
  ASSUME CommandInv, CommandNext
  PROVE  CommandInv'
<1>1. MessagingTypeOK'
  BY CommandTypes DEF CommandInv
<1>2. ASSUME NEW t \in Senders, sendCommand(t)
      PROVE  lastResponse' = replied' /\ \A u \in Senders : alone'[u] => id'[u] = sends'
  BY <1>2 DEF sendCommand, CommandInv, MessagingTypeOK
<1>3. CASE onMessage
  BY <1>1, <1>3 DEF onMessage, CommandInv
<1>4. CASE UNCHANGED <<lastResponse, replied, alone, id, sends>>
  BY <1>1, <1>4 DEF CommandInv
<1> QED
  BY <1>1, <1>2, <1>3, <1>4 DEF CommandNext, waitBegins, waitEnds, Transport, messagingVars,
     commandVars, CommandInv

LEMMA CommandInitially ==
  ASSUME MessagingInit
  PROVE  CommandInv
  BY MessagingInitially DEF MessagingInit, CommandInv

LEMMA CommandEndpoints ==
  ASSUME [CommandNext]_messagingSysVars
  PROVE  [EndpointNext]_endpointVars
<1>1. CASE Transport
  BY <1>1 DEF Transport, EndpointNext
<1>2. CASE UNCHANGED endpointVars
  BY <1>2
<1> QED
  BY <1>1, <1>2 DEF CommandNext, sendCommand, waitBegins, waitEnds, onMessage, messagingSysVars

\* The answer a command takes, step by step
LEMMA FreshAnswer ==
  ASSUME CommandInv, CommandNext, NEW t \in Senders, step[t] \in {"waiting", "notified"},
         step'[t] = "idle", alone[t], replied >= id[t]
  PROVE  response'[t] = id[t]
<1>1. id[t] = replied /\ lastResponse = replied
  BY DEF CommandInv, MessagingTypeOK
<1>2. waitEnds(t)
  <2>1. ASSUME NEW u \in Senders, sendCommand(u) \/ waitBegins(u) PROVE FALSE
    BY <2>1 DEF sendCommand, waitBegins, To, AtStep, CommandInv, MessagingTypeOK
  <2>2. ASSUME NEW u \in Senders, waitEnds(u), u # t PROVE FALSE
    BY <2>2 DEF waitEnds, To, CommandInv, MessagingTypeOK
  <2>3. ~onMessage
    BY DEF onMessage, To, CommandInv, MessagingTypeOK
  <2>4. ~Transport
    BY DEF Transport, messagingVars
  <2> QED
    BY <2>1, <2>2, <2>3, <2>4 DEF CommandNext
<1> QED
  BY <1>1, <1>2 DEF waitEnds, CommandInv, MessagingTypeOK

\* A command that no other overlaps returns its own answer if that has come, also when
\* its notification was lost before the wait, or the wait ended for no reason.
THEOREM AnswerIsFresh == CommandSpec => ReplyFresh
<1>1. ASSUME CommandInv, [CommandNext]_messagingSysVars PROVE CommandInv'
  <2> SUFFICES ASSUME UNCHANGED messagingSysVars PROVE CommandInv'
    BY <1>1, CommandInvStep
  <2>1. UNCHANGED <<endpointVars, messagingVars, ended>>
    BY DEF messagingSysVars
  <2>2. MessagingTypeOK'
    BY <1>1, <2>1, TypesStutter, MessagingFrame DEF CommandInv, MessagingTypeOK, EndpointTypeOK
  <2> QED
    BY <1>1, <2>1, <2>2 DEF CommandInv, messagingVars, commandVars
<1>2. ASSUME CommandInv, [CommandNext]_messagingSysVars
      PROVE  [\A t \in Senders :
                 (step[t] \in {"waiting", "notified"} /\ step'[t] = "idle" /\ alone[t]
                      /\ replied >= id[t]) => response'[t] = id[t]]_messagingSysVars
  BY <1>2, FreshAnswer
<1> QED
  BY <1>1, <1>2, CommandInitially, PTL DEF CommandSpec, ReplyFresh

-------------------------------------------------------------------------------
(* The composition.                                                        *)

\* The player that does not run has no client.
NoPlayer == /\ webClient = NoClient /\ stopped = FALSE
            /\ \A t \in Threads : held[t] = NoClient
            /\ \A e \in Clients : life[e] = "none"

\* No request is under way: none was sent, or the Messenger sends commands.
NoRequest == /\ \A i \in Ids : responseToPromise[i] = "none"
             /\ \A t \in Senders : step[t] \notin Calling

\* A client connects once: those of the player do, the Messenger is taken to.
MessengerOnce == \A c, d \in Conn :
    (Owner[c] = Messenger /\ Owner[d] = Messenger /\ session[c] # "none" /\ session[d] # "none")
        => c = d

\* Which endpoints are used, and by whom
SceneInv ==
    /\ scene \in {"player", "requests", "commands", "server"}
    /\ scene = "player" => PlayerInv /\ Single /\ sends = 0 /\ \A t \in Senders : step[t] = "idle"
    /\ scene # "player" => NoPlayer
    /\ scene = "requests" => RpcInv
    /\ scene # "requests" => NoRequest
    /\ scene = "commands" => CommandInv /\ ~ended
    /\ scene \in {"requests", "commands"} => \A e \in Endpoint \ {Messenger} : Unused(e)
    /\ scene = "server" => sends = 0 /\ (\A e \in Endpoint \ Servers : Unused(e))
                           /\ \A t \in Senders : step[t] = "idle"

CompositionInv == TypeOK /\ SceneInv

\* A step of one endpoint makes no connection and no client of another.
LEMMA OthersStayUnused ==
  ASSUME EndpointTypeOK, NEW E, NEW e \in Endpoint \cap E, EndpointStep(e),
         \A d \in Endpoint \ E : Unused(d)
  PROVE  /\ \A d \in Endpoint \ E : Unused(d)'
         /\ \A d \in Endpoint \ E : life'[d] = life[d]
<1>1. \A d \in Endpoint \ {e} : life'[d] = life[d]
  BY DEF EndpointTypeOK, EndpointStep, Application, Construct, Connect, Start, Stop, Disconnect,
     Destroy, Joined, EventLoop, Done, ping, LoopEnds, Handler, onOpen, onFail, onClose, onPong,
     onPongTimeout, Accept, GoesSilent
<1>2. \A c \in Conn : Owner[c] # e /\ session[c] = "none" => session'[c] = "none"
  <2>1. CASE Application(e)
    BY <2>1 DEF EndpointTypeOK, Application, Construct, Connect, Start, Stop, Disconnect,
       Destroy, Joined, closeConnection, Move
  <2>2. CASE EventLoop(e)
    BY <2>2 DEF EndpointTypeOK, EventLoop, Done, ping, LoopEnds
  <2>3. CASE \E c \in Conn : Owner[c] = e /\ (Handler(c) \/ GoesSilent(c))
    BY <2>3 DEF EndpointTypeOK, Handler, GoesSilent, onOpen, onFail, onClose, onPong,
       onPongTimeout, Accept, closeConnection, Move
  <2> QED
    BY <2>1, <2>2, <2>3 DEF EndpointStep
<1> QED
  BY <1>1, <1>2 DEF Unused

LEMMA CompositionInitially ==
  ASSUME Init
  PROVE  CompositionInv
<1>1. PlayerInv /\ Single /\ RpcInv /\ CommandInv
  BY PlayerInitially, SingleInitially, RpcInitially, CommandInitially DEF Init
<1>2. TypeOK
  BY <1>1 DEF TypeOK, PlayerInv, RpcInv
<1>3. NoPlayer /\ NoRequest /\ sends = 0 /\ ~ended /\ \A t \in Senders : step[t] = "idle"
  BY DEF Init, PlayerInit, MessagingInit, EndpointInit, NoPlayer, NoRequest, Calling
<1>4. \A e \in Endpoint : Unused(e)
  BY DEF Init, PlayerInit, EndpointInit, Unused
<1> QED
  BY <1>1, <1>2, <1>3, <1>4 DEF CompositionInv, SceneInv, Init

\* What changes in a step that only moves endpoints
LEMMA FrameKept ==
  ASSUME UNCHANGED <<playerVars, messagingVars>>
  PROVE  /\ UNCHANGED <<webClient, stopped, held, sends, step, responseToPromise, pc, carried>>
         /\ NoRequest => NoRequest'
  BY DEF playerVars, stepVars, ghostVars, messagingVars, rpcVars, NoRequest, Calling

LEMMA CompositionStep ==
  ASSUME Messenger \notin Clients, CompositionInv, [Next]_vars
  PROVE  CompositionInv'
<1>0. /\ PlayerTypeOK /\ MessagingTypeOK /\ EndpointTypeOK /\ OwnTypes /\ SceneInv
  BY DEF CompositionInv, TypeOK, PlayerTypeOK, OwnTypes
<1>1. ASSUME EndpointTypeOK', UNCHANGED playerVars PROVE PlayerTypeOK'
  BY <1>0, <1>1, OwnTypesFrame DEF PlayerTypeOK, OwnTypes
<1>2. CASE scene = "player" /\ PlayerNext /\ UNCHANGED <<messagingVars, scene>>
  <2>1. PlayerInv' /\ Single'
    BY <1>0, <1>2, PlayerInvStep, SingleStep DEF SceneInv
  <2>2. MessagingTypeOK'
    BY <1>0, <1>2, <2>1, MessagingFrame DEF PlayerInv, PlayerTypeOK
  <2>3. /\ sends' = 0 /\ (\A t \in Senders : step'[t] = "idle") /\ NoRequest'
    BY <1>0, <1>2 DEF SceneInv, messagingVars, rpcVars, NoRequest, Calling
  <2> QED
    BY <1>2, <2>1, <2>2, <2>3 DEF CompositionInv, SceneInv, TypeOK, PlayerInv
<1>3. ASSUME NEW E, EndpointTypeOK', UNCHANGED playerVars, E \cap Clients = {},
             \A d \in Endpoint \ E : Unused(d), NoPlayer,
             UNCHANGED endpointVars \/ \E e \in Endpoint \cap E : EndpointStep(e)
      PROVE  PlayerTypeOK' /\ NoPlayer' /\ \A d \in Endpoint \ E : Unused(d)'
  <2>1. /\ \A d \in Endpoint \ E : Unused(d)'
        /\ \A d \in Endpoint \ E : life'[d] = life[d]
    <3>1. CASE UNCHANGED endpointVars
      BY <1>3, <3>1 DEF endpointVars, Unused
    <3> QED
      BY <1>0, <1>3, <3>1, OthersStayUnused
  <2>2. NoPlayer'
    BY <1>3, <2>1 DEF NoPlayer, playerVars, stepVars, ghostVars
  <2> QED
    BY <1>1, <1>3, <2>1, <2>2
<1>4. CASE scene = "requests" /\ RpcNext /\ UNCHANGED <<playerVars, scene>>
  <2>1. RpcInv'
    BY <1>0, <1>4, RpcInvStep DEF SceneInv
  <2>2. UNCHANGED endpointVars \/ EndpointStep(Messenger)
    BY <1>4 DEF RpcNext, RpcStep, createFutureResponse, send, getAsyncResponse, removePromise,
       isRequestProcessingOngoing, handleResponse, Transport
  <2>3. PlayerTypeOK' /\ NoPlayer' /\ \A d \in Endpoint \ {Messenger} : Unused(d)'
    <3>1. /\ EndpointTypeOK' /\ NoPlayer /\ {Messenger} \cap Clients = {}
          /\ \A d \in Endpoint \ {Messenger} : Unused(d)
          /\ UNCHANGED endpointVars \/ \E e \in Endpoint \cap {Messenger} : EndpointStep(e)
      BY <1>0, <1>4, <2>1, <2>2 DEF SceneInv, RpcInv, MessagingTypeOK
    <3> QED
      BY <1>3, <1>4, <3>1
  <2> QED
    BY <1>4, <2>1, <2>3 DEF CompositionInv, SceneInv, TypeOK, RpcInv
<1>5. CASE scene = "commands" /\ CommandNext /\ UNCHANGED <<playerVars, scene>>
  <2>1. CommandInv'
    BY <1>0, <1>5, CommandInvStep DEF SceneInv
  <2>2. (UNCHANGED endpointVars \/ EndpointStep(Messenger)) /\ ended' = ended
    BY <1>5 DEF CommandNext, sendCommand, waitBegins, waitEnds, onMessage, Transport
  <2>3. PlayerTypeOK' /\ NoPlayer' /\ \A d \in Endpoint \ {Messenger} : Unused(d)'
    <3>1. /\ EndpointTypeOK' /\ NoPlayer /\ {Messenger} \cap Clients = {}
          /\ \A d \in Endpoint \ {Messenger} : Unused(d)
          /\ UNCHANGED endpointVars \/ \E e \in Endpoint \cap {Messenger} : EndpointStep(e)
      BY <1>0, <1>5, <2>1, <2>2 DEF SceneInv, CommandInv, MessagingTypeOK
    <3> QED
      BY <1>3, <1>5, <3>1
  <2>4. NoRequest'
    <3>1. responseToPromise' = responseToPromise
      BY <1>5 DEF CommandNext, sendCommand, waitBegins, waitEnds, onMessage, Transport,
         messagingVars, rpcVars
    <3>2. \A t \in Senders :
             step'[t] = step[t] \/ step'[t] \in {"idle", "lock", "waiting", "notified"}
      BY <1>0, <1>5 DEF CommandNext, sendCommand, waitBegins, waitEnds, onMessage, Transport, To,
         messagingVars, MessagingTypeOK
    <3> QED
      BY <1>0, <1>5, <3>1, <3>2 DEF SceneInv, NoRequest, Calling
  <2> QED
    BY <1>0, <1>5, <2>1, <2>2, <2>3, <2>4 DEF CompositionInv, SceneInv, TypeOK, CommandInv
<1>6. CASE /\ scene = "server" /\ \E e \in Servers : EndpointStep(e)
           /\ UNCHANGED <<playerVars, messagingVars, ended, scene>>
  <2>1. EndpointTypeOK'
    BY <1>0, <1>6, EndpointTypes
  <2>2. MessagingTypeOK'
    BY <1>0, <1>6, <2>1, MessagingFrame
  <2>3. PlayerTypeOK' /\ NoPlayer' /\ \A d \in Endpoint \ Servers : Unused(d)'
    BY <1>0, <1>3, <1>6, <2>1 DEF SceneInv
  <2>4. NoRequest' /\ sends' = 0 /\ \A t \in Senders : step'[t] = "idle"
    BY <1>0, <1>6, FrameKept DEF SceneInv
  <2> QED
    BY <1>6, <2>2, <2>3, <2>4 DEF CompositionInv, SceneInv, TypeOK
<1>7. CASE UNCHANGED vars
  <2>1. UNCHANGED <<endpointVars, playerVars, messagingVars, ended, scene>>
    BY <1>7 DEF vars
  <2>2. EndpointTypeOK'
    BY <1>0, <2>1, TypesStutter DEF EndpointTypeOK
  <2>3. MessagingTypeOK' /\ PlayerTypeOK'
    BY <1>0, <1>1, <2>1, <2>2, MessagingFrame
  <2>4. scene = "player" => PlayerInv' /\ Single'
    BY <1>0, <2>1, PlayerInvStep, SingleStep DEF SceneInv, playerSysVars
  <2>5. scene = "requests" => RpcInv'
    BY <1>0, <2>1, <2>3 DEF SceneInv, messagingVars, rpcVars, RpcInv, Sending, PromiseOwned, Owns,
       Answers, Fatal
  <2>6. scene = "commands" => CommandInv' /\ ~ended'
    BY <1>0, <2>1, <2>3 DEF SceneInv, messagingVars, commandVars, CommandInv
  <2>7. (NoPlayer => NoPlayer') /\ (NoRequest => NoRequest') /\ sends' = sends /\ step' = step
    BY <2>1, FrameKept DEF NoPlayer, endpointVars
  <2>8. \A e \in Endpoint : Unused(e)' <=> Unused(e)
    BY <2>1 DEF Unused, endpointVars
  <2> QED
    BY <1>0, <2>1, <2>3, <2>4, <2>5, <2>6, <2>7, <2>8 DEF CompositionInv, SceneInv, TypeOK
<1> QED
  BY <1>2, <1>4, <1>5, <1>6, <1>7 DEF Next

\* With the player, requests, commands or a server on the library, whichever of them runs:
\* every variable keeps its type, webClient never dangles and no client is left running,
\* destroyed twice or called when another thread destroys it until the bus thread meets a
\* Stop, a Stop silences the player, a promise has one owner, and only an answer that comes
\* twice ends the program that sends requests.
THEOREM CompositionHolds ==
  ASSUME Messenger \notin Clients
  PROVE  Spec => [](TypeOK /\ NoClientLeaks /\ SilentAfterStop /\ PromiseOwned
                        /\ DiesOnlyOfDuplicates)
<1>1. CompositionInv => TypeOK
  BY DEF CompositionInv
<1>2. CompositionInv => NoClientLeaks /\ SilentAfterStop
  <2> SUFFICES ASSUME CompositionInv PROVE NoClientLeaks /\ SilentAfterStop
    OBVIOUS
  <2>1. CASE scene = "player"
    BY <2>1, NoLeak, Silence DEF CompositionInv, SceneInv
  <2>2. CASE scene # "player"
    BY <2>2, StepFacts DEF CompositionInv, SceneInv, TypeOK, NoPlayer, NoClientLeaks,
       SilentAfterStop
  <2> QED
    BY <2>1, <2>2
<1>3. CompositionInv => PromiseOwned /\ DiesOnlyOfDuplicates
  <2> SUFFICES ASSUME CompositionInv PROVE PromiseOwned /\ DiesOnlyOfDuplicates
    OBVIOUS
  <2>1. CASE scene = "requests"
    BY <2>1 DEF CompositionInv, SceneInv, RpcInv, Fatal, DiesOnlyOfDuplicates
  <2>2. CASE scene # "requests"
    <3>1. PromiseOwned
      BY <2>2 DEF CompositionInv, SceneInv, NoRequest, Calling, PromiseOwned, Owns
    <3>2. sends = 0 \/ ~ended
      BY <2>2 DEF CompositionInv, SceneInv
    <3>3. sends \in Nat
      BY DEF CompositionInv, TypeOK, MessagingTypeOK
    <3> QED
      BY <3>1, <3>2, <3>3 DEF DiesOnlyOfDuplicates
  <2> QED
    BY <2>1, <2>2
<1> QED
  BY <1>1, <1>2, <1>3, CompositionInitially, CompositionStep, PTL DEF Spec

\* The composition implements the specification of the library's endpoints, fairness and
\* all: whichever use of it runs, its steps are theirs, or leave them alone.
THEOREM TheLibraryIsUsedAsSpecified ==
  ASSUME Messenger \notin Clients
  PROVE  Spec => AnyUse /\ LibraryFairness
<1>1. Init => EndpointInit
  BY DEF Init, PlayerInit
<1>2. ASSUME CompositionInv, [Next]_vars PROVE [EndpointNext]_endpointVars
  <2>1. CASE UNCHANGED vars
    BY <2>1 DEF vars
  <2>2. CASE scene = "player" /\ PlayerNext
    BY <1>2, <2>2, PlayerEndpoints
       DEF CompositionInv, TypeOK, SceneInv, PlayerInv, Owned, EndpointNext
  <2>3. CASE RpcNext \/ CommandNext
    BY <2>3, RpcEndpoints, CommandEndpoints
  <2>4. CASE (\E e \in Servers : EndpointStep(e)) /\ UNCHANGED ended
    BY <2>4 DEF EndpointNext
  <2> QED
    BY <1>2, <2>1, <2>2, <2>3, <2>4 DEF Next
<1> QED
  BY <1>1, <1>2, CompositionInitially, CompositionStep, PTL DEF Spec, AnyUse

\* On an open connection of a client one ping is scheduled or unanswered, whoever uses it,
\* if the application connects its Messenger once; for the player nothing is assumed.
THEOREM EveryClientPings ==
  ASSUME Messenger \notin Clients
  PROVE  Spec /\ []MessengerOnce => []OnePing
<1>1. CompositionInv /\ MessengerOnce => ConnectsOnce
  <2> SUFFICES ASSUME CompositionInv, MessengerOnce PROVE ConnectsOnce
    OBVIOUS
  <2>1. CASE scene = "player"
    BY <2>1 DEF CompositionInv, SceneInv, Single
  <2>2. CASE scene \in {"requests", "commands"}
    BY <2>2 DEF CompositionInv, SceneInv, Unused, ConnectsOnce, MessengerOnce
  <2>3. CASE scene = "server"
    BY <2>3 DEF CompositionInv, SceneInv, Unused, ConnectsOnce
  <2> QED
    BY <2>1, <2>2, <2>3 DEF CompositionInv, SceneInv
<1>2. CompositionInv => EndpointTypeOK
  BY DEF CompositionInv, TypeOK, PlayerTypeOK
<1>3. Spec => []CompositionInv
  BY CompositionInitially, CompositionStep, PTL DEF Spec
<1>4. Spec => AnyUse
  BY TheLibraryIsUsedAsSpecified
<1> QED
  BY <1>1, <1>2, <1>3, <1>4, PingChain, PTL

\* Here too, only a refused client is swapped,
THEOREM SwapsStayJustified ==
  ASSUME Messenger \notin Clients
  PROVE  Spec => SwapsTheRefused
<1>1. ASSUME CompositionInv, [Next]_vars
      PROVE  [pc[Bus] = "typing" /\ pc'[Bus] = "swap" => held[Bus] \in refused \/ carried]_playerSysVars
  <2> SUFFICES ASSUME pc[Bus] = "typing", pc'[Bus] = "swap" PROVE held[Bus] \in refused \/ carried
    OBVIOUS
  <2>1. pc' # pc
    OBVIOUS
  <2>2. PlayerNext /\ PlayerInv
    BY <1>1, <2>1 DEF CompositionInv, SceneInv, Next, vars, playerVars, stepVars
  <2> QED
    BY <2>2, SwapStep
<1> QED
  BY <1>1, CompositionInitially, CompositionStep, PTL DEF Spec, SwapsTheRefused

\* and a command that no other overlaps is not given a stale answer.
THEOREM AnswersStayFresh ==
  ASSUME Messenger \notin Clients
  PROVE  Spec => ReplyFresh
<1>1. ASSUME CompositionInv, [Next]_vars
      PROVE  [\A t \in Senders :
                 (step[t] \in {"waiting", "notified"} /\ step'[t] = "idle" /\ alone[t]
                      /\ replied >= id[t]) => response'[t] = id[t]]_messagingSysVars
  <2> SUFFICES ASSUME NEW t \in Senders, step[t] \in {"waiting", "notified"}, step'[t] = "idle",
                      alone[t], replied >= id[t]
               PROVE  response'[t] = id[t]
    OBVIOUS
  <2>1. scene \notin {"player", "server"}
    BY <1>1 DEF CompositionInv, SceneInv
  <2>2. scene # "requests"
    BY <1>1 DEF CompositionInv, SceneInv, RpcInv, Sending, Calling
  <2>3. CommandNext /\ CommandInv
    BY <1>1, <2>1, <2>2 DEF CompositionInv, SceneInv, Next, vars, messagingVars
  <2> QED
    BY <2>3, FreshAnswer
<1> QED
  BY <1>1, CompositionInitially, CompositionStep, PTL DEF Spec, ReplyFresh

===============================================================================

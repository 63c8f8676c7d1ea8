----------------------------- MODULE MCWebSockets -----------------------------
(***************************************************************************)
(* The three uses of the WebSockets library: a player with the clients it  *)
(* makes, a client that sends requests or commands, and a server.  Their   *)
(* endpoints share nothing, so that TLC takes one use at a time (scene):   *)
(* the sum of their states, not the product.                               *)
(***************************************************************************)
EXTENDS WSPlayer, WSMessaging

VARIABLE scene

vars == <<endpointVars, playerVars, messagingVars, ended, scene>>

\* Connections 1 .. 3 belong to the clients of the player, 4 to the messenger, and 5
\* and 6 to the server.
MCOwner == [c \in Conn |-> IF c > 5 THEN 5 ELSE c]

Init == /\ PlayerInit /\ MessagingInit
        /\ scene \in {"player", "requests", "commands", "server"}

Next ==
    /\ UNCHANGED scene
    /\ \/ scene = "player" /\ PlayerNext /\ UNCHANGED messagingVars
       \/ scene = "requests" /\ RpcNext /\ UNCHANGED playerVars
       \/ scene = "commands" /\ CommandNext /\ UNCHANGED playerVars
       \/ scene = "server" /\ (\E e \in Servers : EndpointStep(e))
          /\ UNCHANGED <<playerVars, messagingVars, ended>>

Spec == Init /\ [][Next]_vars /\ PlayerFairness /\ RpcFairness /\ LibraryFairness

\* The endpoints, the player with its clients, and the pending requests keep their types:
\* among them, no timer fires and no ping is answered that was not counted before
\* (PingPongEnabled.h), and the bus thread takes no PLAYING message that is not there
\* (AudioPlayer.cpp:639-664).
TypeOK == PlayerTypeOK /\ MessagingTypeOK
===============================================================================

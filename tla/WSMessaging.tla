------------------------------ MODULE WSMessaging ------------------------------
(***************************************************************************)
(* Requests and commands over an endpoint of WSEndpoint: JsonRpcInterface, *)
(* where a response finds its request by id, and CommandInterface, where a *)
(* response is whatever came last.                                         *)
(*                                                                         *)
(* Threads of the application send and wait; the event loop thread of the  *)
(* endpoint receives.  The other side answers late, never, or twice; what  *)
(* it sends arrives in order while the connection is open.                 *)
(*                                                                         *)
(* Which success value a response carries is left out.                     *)
(***************************************************************************)
EXTENDS WSEndpoint

CONSTANTS Messenger,    \* the endpoint
          Senders,      \* threads that call sendRequest or sendCommand
          Ids,          \* of the requests: a Request may be sent again
          MaxSends      \* bound: calls

ASSUME MessagingAssumption == Messenger \in Endpoint /\ MaxSends \in Nat

VARIABLES
    step,              \* of a sender
    id,                \* of the request it sends; the number of its command
    responseToPromise, \* of an id: no promise, waiting, or set
    asked,             \* requests of an id the other side may answer
    sends,             \* calls made, up to MaxSends
    twice,             \* ghost: an id has had two answers to come
    replied,           \* commands answered; the k-th answer is k
    lastResponse,      \* lastResponse_
    response,          \* what the last sendCommand of a thread returned
    alone              \* ghost: no other command overlaps this one

rpcVars == <<responseToPromise, asked, twice>>
commandVars == <<replied, lastResponse, response, alone>>
messagingVars == <<step, id, sends, rpcVars, commandVars>>
messagingSysVars == <<endpointVars, messagingVars, ended>>

\* No more commands are answered than were sent, and a sender has only a response that
\* has come (CommandInterface.h).  Whose a promise is: PromiseOwned, below.
MessagingTypeOK ==
    /\ EndpointTypeOK
    /\ step \in [Senders -> {"idle", "create", "send", "wait", "remove",
                             "lock", "waiting", "notified"}]
    /\ id \in [Senders -> Ids \cup (0 .. MaxSends)]
    /\ responseToPromise \in [Ids -> {"none", "waiting", "set"}]
    /\ asked \in [Ids -> Nat]
    /\ sends \in 0 .. MaxSends /\ twice \in BOOLEAN
    /\ replied \in 0 .. sends /\ lastResponse \in 0 .. replied
    /\ response \in [Senders -> 0 .. replied] /\ alone \in [Senders -> BOOLEAN]

MessagingInit ==
    /\ EndpointInit
    /\ step = [t \in Senders |-> "idle"] /\ id = [t \in Senders |-> 0]
    /\ responseToPromise = [i \in Ids |-> "none"] /\ asked = [i \in Ids |-> 0]
    /\ sends = 0 /\ twice = FALSE
    /\ replied = 0 /\ lastResponse = 0
    /\ response = [t \in Senders |-> 0] /\ alone = [t \in Senders |-> FALSE]

AtStep(t, s) == step[t] = s /\ ~ended
To(t, s) == step' = [step EXCEPT ![t] = s]
Reachable == connectionHandler[Messenger] # NoConn
             /\ session[connectionHandler[Messenger]] = "open"

-------------------------------------------------------------------------------
(* JsonRpcInterface::sendRequest                                           *)

\* Mutant: nobody looks whether the request is under way.
isRequestProcessingOngoing_Skip(t, i) ==
    /\ AtStep(t, "idle") /\ life[Messenger] = "alive" /\ sends < MaxSends /\ sends' = sends + 1
    /\ To(t, "send") /\ id' = [id EXCEPT ![t] = i]
    /\ responseToPromise' = [responseToPromise EXCEPT ![i] = "waiting"]
    /\ UNCHANGED <<endpointVars, asked, twice, ended, commandVars>>

isRequestProcessingOngoing(t, i) ==
    /\ AtStep(t, "idle") /\ life[Messenger] = "alive" /\ sends < MaxSends /\ sends' = sends + 1
    /\ IF responseToPromise[i] # "none" THEN UNCHANGED <<step, id>>
       ELSE To(t, "create") /\ id' = [id EXCEPT ![t] = i]
    /\ UNCHANGED <<endpointVars, rpcVars, commandVars, ended>>

\* Mutant: the promise another thread has just made is taken over.
createFutureResponse_Over(t) ==
    /\ AtStep(t, "create") /\ To(t, "send")
    /\ responseToPromise' = [responseToPromise EXCEPT ![id[t]] = "waiting"]
    /\ UNCHANGED <<endpointVars, id, sends, asked, twice, ended, commandVars>>

\* Another thread may have been here since: emplace fails.
createFutureResponse(t) ==
    /\ AtStep(t, "create")
    /\ IF responseToPromise[id[t]] # "none" THEN To(t, "idle") /\ UNCHANGED <<rpcVars, ended>>
       ELSE /\ responseToPromise' = [responseToPromise EXCEPT ![id[t]] = "waiting"]
            /\ twice' = (twice \/ asked[id[t]] > 0) /\ To(t, "send")
            /\ UNCHANGED <<asked, ended>>
    /\ UNCHANGED <<endpointVars, id, sends, commandVars>>

send(t) ==
    /\ AtStep(t, "send")
    /\ IF Reachable THEN asked' = [asked EXCEPT ![id[t]] = @ + 1] /\ To(t, "wait")
       ELSE To(t, "remove") /\ UNCHANGED asked
    /\ UNCHANGED <<endpointVars, id, sends, responseToPromise, twice, ended, commandVars>>

\* Mutant: the wait has no timeout.
getAsyncResponse_Forever(t) ==
    /\ AtStep(t, "wait") /\ responseToPromise[id[t]] = "set" /\ To(t, "remove")
    /\ UNCHANGED <<endpointVars, id, sends, rpcVars, commandVars, ended>>

\* The promise is set, or five seconds have passed.
getAsyncResponse(t) ==
    /\ AtStep(t, "wait") /\ To(t, "remove")
    /\ UNCHANGED <<endpointVars, id, sends, rpcVars, commandVars, ended>>

removePromise(t) ==
    /\ AtStep(t, "remove") /\ To(t, "idle")
    /\ responseToPromise' = [responseToPromise EXCEPT ![id[t]] = "none"]
    /\ UNCHANGED <<endpointVars, id, sends, asked, twice, ended, commandVars>>

\* Event loop thread.  A promise that is set cannot be set again: the exception ends
\* the thread and the program.
handleResponse(i) ==
    /\ ~ended /\ LoopFree(Messenger) /\ Reachable /\ asked[i] > 0
    /\ \/ asked' = [asked EXCEPT ![i] = @ - 1] /\ UNCHANGED twice
       \/ twice' = TRUE /\ UNCHANGED asked
    /\ responseToPromise' = [responseToPromise EXCEPT ![i] = IF @ = "waiting" THEN "set" ELSE @]
    /\ ended' = (responseToPromise[i] = "set")
    /\ UNCHANGED <<endpointVars, step, id, sends, commandVars>>

RpcStep(t) == createFutureResponse(t) \/ send(t) \/ getAsyncResponse(t) \/ removePromise(t)

-------------------------------------------------------------------------------
(* CommandInterface                                                        *)

Pending == {t \in Senders : step[t] # "idle"}

\* sendCommand, up to the lock
sendCommand(t) ==
    /\ AtStep(t, "idle") /\ life[Messenger] = "alive" /\ Reachable /\ sends < MaxSends /\ sends' = sends + 1
    /\ id' = [id EXCEPT ![t] = sends + 1] /\ To(t, "lock")
    /\ alone' = [u \in Senders |-> u = t /\ Pending = {} /\ replied = sends]
    /\ UNCHANGED <<endpointVars, rpcVars, ended, replied, lastResponse, response>>

\* wait_for, without a predicate: an answer that came before is not noticed.
waitBegins(t) ==
    /\ AtStep(t, "lock") /\ To(t, "waiting")
    /\ UNCHANGED <<endpointVars, id, sends, rpcVars, commandVars, ended>>

\* Notified, five seconds over, or woken for no reason
waitEnds(t) ==
    /\ AtStep(t, "waiting") \/ AtStep(t, "notified")
    /\ To(t, "idle") /\ response' = [response EXCEPT ![t] = lastResponse]
    /\ UNCHANGED <<endpointVars, id, sends, rpcVars, ended, replied, lastResponse, alone>>

\* Mutant: an answer is kept only for a thread that already waits.
onMessage_Waiting ==
    /\ ~ended /\ LoopFree(Messenger) /\ Reachable /\ replied < sends /\ replied' = replied + 1
    /\ IF \E t \in Senders : step[t] = "waiting"
       THEN /\ lastResponse' = replied + 1
            /\ \E t \in Senders : step[t] = "waiting" /\ To(t, "notified")
       ELSE UNCHANGED <<lastResponse, step>>
    /\ UNCHANGED <<endpointVars, id, sends, rpcVars, ended, response, alone>>

\* Event loop thread: store, and wake one of those who wait.
onMessage ==
    /\ ~ended /\ LoopFree(Messenger) /\ Reachable /\ replied < sends /\ replied' = replied + 1
    /\ lastResponse' = replied + 1
    /\ \/ \E t \in Senders : step[t] = "waiting" /\ To(t, "notified")
       \/ (\A t \in Senders : step[t] # "waiting") /\ UNCHANGED step
    /\ UNCHANGED <<endpointVars, id, sends, rpcVars, ended, response, alone>>

-------------------------------------------------------------------------------
\* The library, and an application that destroys no endpoint in use
Transport ==
    /\ ~ended /\ UNCHANGED <<messagingVars, ended>>
    /\ EndpointStep(Messenger) /\ (life'[Messenger] = "joining" => Pending = {})

RpcNext == \/ \E t \in Senders : RpcStep(t) \/ \E i \in Ids : isRequestProcessingOngoing(t, i)
           \/ \E i \in Ids : handleResponse(i)
           \/ Transport

CommandNext == \/ \E t \in Senders : sendCommand(t) \/ waitBegins(t) \/ waitEnds(t)
               \/ onMessage
               \/ Transport

RpcSpec == MessagingInit /\ [][RpcNext]_messagingSysVars
CommandSpec == MessagingInit /\ [][CommandNext]_messagingSysVars

\* Every thread runs, and a wait has a timeout; the other side need not answer.
RpcFairness == \A t \in Senders : WF_messagingSysVars(RpcStep(t))

-------------------------------------------------------------------------------
(* Properties.                                                             *)

Owns(t, i) == step[t] \in {"send", "wait", "remove"} /\ id[t] = i

\* Each promise belongs to the one sendRequest that made it: two calls with one Request
\* never share it, though the test and emplace are two critical sections
\* (JsonRpcInterface.h:75-82), and none outlives its call.
PromiseOwned == \A i \in Ids :
    /\ (responseToPromise[i] # "none") <=> (\E t \in Senders : Owns(t, i))
    /\ \A t, u \in Senders : Owns(t, i) /\ Owns(u, i) => t = u

\* A late, a lost or an unknown response is harmless: the event loop thread dies of
\* set_value only if the other side answers twice, or a Request is sent again while the
\* answer to its first sending, which timed out, is still to come.
DiesOnlyOfDuplicates == ended /\ sends > 0 => twice

\* sendRequest comes back, whatever the connection and the other side do.
EveryRequestReturns == \A t \in Senders :
    (step[t] \in {"create", "send", "wait", "remove"}) ~> (step[t] = "idle" \/ ended)

\* A command that no other overlaps returns its own answer if that has come, also when
\* it came before the wait and its notification was lost.
ReplyFresh ==
    [][\A t \in Senders :
         (step[t] \in {"waiting", "notified"} /\ step'[t] = "idle" /\ alone[t] /\ replied >= id[t])
            => response'[t] = id[t]]_messagingSysVars
===============================================================================

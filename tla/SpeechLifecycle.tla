--------------------------- MODULE SpeechLifecycle ---------------------------
(***************************************************************************)
(* What the TextToSpeech speaker promises the client of a speech, whatever *)
(* its threads, its pipeline and its flags do: a speech accepted is served *)
(* alone and in the order of its id; it is told of its playback only while *)
(* it is served and after willSpeak; it is told its outcome at most once;  *)
(* it leaves without an outcome only when it is dropped from the queue     *)
(* before being served.  TTSSpeaker is shown to implement this module.     *)
(***************************************************************************)
EXTENDS Integers

CONSTANT MaxSpeech          \* speech ids are 1..MaxSpeech

VARIABLES stage,            \* where each speech is
          heard             \* what its client was told

Speech   == 1 .. MaxSpeech
Stages   == {"new", "pending", "dropped", "serving", "over"}
Playback == {"started", "paused", "resumed"}
Outcomes == {"spoke", "interrupted", "networkerror", "playbackerror"}
Hearing  == [will: BOOLEAN, play: Playback \cup {"none"},
             end: Outcomes \cup {"none"}]

lifeVars == <<stage, heard>>
Move(s, to) == stage' = [stage EXCEPT ![s] = to]

Init == /\ stage = [s \in Speech |-> "new"]
        /\ heard = [s \in Speech |-> [will |-> FALSE, play |-> "none", end |-> "none"]]

Accept(s) == stage[s] = "new" /\ Move(s, "pending") /\ UNCHANGED heard

\* Everything still pending is dropped together; nobody is told.
DropPending ==
    /\ stage' = [s \in Speech |-> IF stage[s] = "pending" THEN "dropped" ELSE stage[s]]
    /\ UNCHANGED heard

\* No speech is being served, and s is the oldest that waits.
NextToServe(s) == /\ stage[s] = "pending"
                  /\ \A t \in Speech : /\ stage[t] # "serving"
                                       /\ stage[t] = "pending" => s <= t

Serve(s) == NextToServe(s) /\ Move(s, "serving") /\ UNCHANGED heard

\* Without a pipeline a pending speech fails at once, never announced.
Fail(s) == /\ NextToServe(s)
           /\ Move(s, "over")
           /\ heard' = [heard EXCEPT ![s].end = "playbackerror"]

Announce(s) == /\ stage[s] = "serving" /\ heard[s].end = "none" /\ ~heard[s].will
               /\ heard' = [heard EXCEPT ![s].will = TRUE]
               /\ UNCHANGED stage

\* A late playback event may follow the outcome, but never the service.
TellPlayback(s, e) == /\ stage[s] = "serving" /\ heard[s].will
                      /\ heard' = [heard EXCEPT ![s].play = e]
                      /\ UNCHANGED stage

TellOutcome(s, k) == /\ stage[s] = "serving" /\ heard[s].end = "none"
                     /\ k = "spoke" => heard[s].will
                     /\ heard' = [heard EXCEPT ![s].end = k]
                     /\ UNCHANGED stage

Close(s) == /\ stage[s] = "serving" /\ heard[s].end # "none"
            /\ Move(s, "over") /\ UNCHANGED heard

Next == \/ DropPending
        \/ \E s \in Speech :
              \/ Accept(s) \/ Serve(s) \/ Fail(s) \/ Announce(s) \/ Close(s)
              \/ \E e \in Playback : TellPlayback(s, e)
              \/ \E k \in Outcomes : TellOutcome(s, k)

Spec == Init /\ [][Next]_lifeVars
==============================================================================

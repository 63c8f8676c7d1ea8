---------------------------- MODULE MCNotifications ----------------------------
(* Each plugin with two clients.  TTS has the callsigns and one event, the *)
(* others two events, on two workers.                                      *)
EXTENDS Notifications

EventsOf == [p \in Plugins |-> IF p = "TTS" THEN 1 ELSE 2]
===============================================================================

----------------------------- MODULE MCTTSSpeaker -----------------------------
(* Small instances of TTSSpeaker for TLC: the kinds of calls each run makes. *)
EXTENDS TTSSpeaker

ClientCalls == CallKinds \ {"setACL"}
NoShutdown == CallKinds \ {"destroy"}
Bringup == {"enable", "destroy"}
===============================================================================

----------------------------- MODULE MCSAPPlayers -----------------------------
(* Small instances of SAPPlayers for TLC: the players opened, and the calls. *)
EXTENDS SAPPlayers, TLC

BothSystem == <<"SYSTEM", "SYSTEM">>
LastOne == {2}
NoneFed == {}
PlayOnly == {"play"}

\* Callers are alike.
Alike == Permutations(Callers)
===============================================================================

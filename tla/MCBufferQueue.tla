---------------------------- MODULE MCBufferQueue ----------------------------
(* Small instances of BufferQueue for TLC: who feeds the player. *)
EXTENDS BufferQueue

Both == {"api", "ws"}
AppData == {"api"}
==============================================================================

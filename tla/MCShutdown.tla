----------------------------- MODULE MCShutdown -----------------------------
(***************************************************************************)
(* Instances of Shutdown for TLC.                                          *)
(***************************************************************************)
EXTENDS Shutdown, TLC

CONSTANTS c1, c2

MCKindOf == c1 :> {"Ping", "Stream"} @@ c2 :> {"Request", "Post"}
MCPing == c1 :> {"Ping"} @@ c2 :> {"Request"}
=============================================================================

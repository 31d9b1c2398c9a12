-------------------------- MODULE MCServerPlugins --------------------------
(***************************************************************************)
(* Every session in which the server lets the client in.                   *)
(***************************************************************************)
EXTENDS ServerPlugins

HonestSessions == {s \in SessionType : LetsIn(s)}

CutsNearEnds == {-1, 0, 4, 20}
=============================================================================

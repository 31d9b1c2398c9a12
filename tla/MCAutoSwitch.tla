---------------------------- MODULE MCAutoSwitch ----------------------------
(***************************************************************************)
(* A main node and two backup nodes, so that the rotation has a next node  *)
(* and an end; one other process.                                          *)
(***************************************************************************)
EXTENDS AutoSwitch
Backups == <<"a", "b">>
=============================================================================

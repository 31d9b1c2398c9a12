---------------------------- MODULE MCPasswall ----------------------------
(***************************************************************************)
(* Two invocations, each called again and again: one at work and one that  *)
(* waits for it, takes its file away or is refused; two monitors, as two   *)
(* starts leave them.                                                      *)
(***************************************************************************)
EXTENDS Passwall
=============================================================================

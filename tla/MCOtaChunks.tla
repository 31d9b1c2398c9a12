---------------------------- MODULE MCOtaChunks ----------------------------
(***************************************************************************)
(* The length and the hash in four bytes, a buffer that holds three empty  *)
(* chunks but not the longest one.                                         *)
(***************************************************************************)
EXTENDS OtaChunks

Reads == 1..4 \cup {6, 9, 12}
=============================================================================

------------------------------ MODULE MCFrames ------------------------------
(***************************************************************************)
(* Sizes on both sides of every threshold of the packing functions, cuts   *)
(* on both sides of every comparison of the reading ones.                  *)
(***************************************************************************)
EXTENDS Frames

AllProtocols == {"verify_simple", "auth_simple", "auth_sha1", "auth_sha1_v2", "auth_sha1_v4", "auth_aes128_sha1"}

CutsNearEnds == {-1, 0, 2, 3, 4, 5, 7}
=============================================================================

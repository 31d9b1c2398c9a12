---------------------------- MODULE MCResolvQuery ----------------------------
(***************************************************************************)
(* Two clients and two blocks: a block can pass from one to the other.     *)
(***************************************************************************)
EXTENDS ResolvQuery

\* At least one of the two lookups is accepted.
SomeAccepted == SUBSET Families \ {{}}
=============================================================================

------------------------------- MODULE Streams -------------------------------
(***************************************************************************)
(* What the modules that count the bytes of a stream share: two sizes of   *)
(* the code, the sum of a sequence of numbers, and the sequences of a      *)
(* sequence put one behind the other (as recursive functions).             *)
(***************************************************************************)
EXTENDS Integers, Sequences

BUF_SIZE == 2048
pack_unit_size == 2000

\* The sums of the first elements, and of all of them.
Sums(s) ==
  LET to[k \in 0..Len(s)] == IF k = 0 THEN 0 ELSE to[k - 1] + s[k]
  IN  to
Sum(s) == Sums(s)[Len(s)]

Joined(s) ==
  LET to[k \in 0..Len(s)] == IF k = 0 THEN <<>> ELSE to[k - 1] \o s[k]
  IN  to[Len(s)]
=============================================================================

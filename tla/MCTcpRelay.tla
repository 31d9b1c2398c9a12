----------------------------- MODULE MCTcpRelay -----------------------------
(***************************************************************************)
(* The sessions TLC explores.  Plain: no protocol plugin, every byte is a  *)
(* frame.  Framed: the plugin hands out two frames at a time, the first of *)
(* which holds the header and the first payload byte.                      *)
(***************************************************************************)
EXTENDS TcpRelay

Session(k, f, fr) == [kind |-> k, fast |-> f, frames |-> fr]

Plain  == Positions
Framed == {f \in Positions : f >= Header + 1 /\ (f - Header) % 2 = 1}

\* Every session but the one that copies from the wrong end of the buffer.
SafeSessions ==
  {Session(k, f, fr) : k \in Kinds, f \in BOOLEAN, fr \in {Plain, Framed}}
    \ {Session("ip", TRUE, fr) : fr \in {Plain, Framed}}
=============================================================================

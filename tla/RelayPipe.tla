------------------------------ MODULE RelayPipe ------------------------------
(***************************************************************************)
(* What one relayed TCP connection promises to the two programs it joins:  *)
(* two byte streams, each delivered in order, without a gap and without a  *)
(* repetition, that share one life: nothing comes back before the relay is *)
(* open, and nothing moves in either direction once it is closed.          *)
(*                                                                         *)
(* A stream is a sequence of positions.  Position UpBase + 1 is the first  *)
(* payload byte after the relay header the client sends in front of it,    *)
(* and position 1 the first byte of what goes back to the client.          *)
(***************************************************************************)
EXTENDS Naturals, Sequences

CONSTANTS UpBase      \* bytes of the upward stream that are never delivered

VARIABLES
  phase,              \* "opening", "open" or "closed"
  upEnd, up,          \* last position the client wrote; positions delivered
  dnEnd, dn           \* the same towards the client

vars == <<phase, upEnd, up, dnEnd, dn>>

\* The n positions that follow position b.
Slice(b, n) == [i \in 1..n |-> b + i]

Init ==
  /\ phase = "opening"
  /\ upEnd = 0 /\ up = <<>>
  /\ dnEnd = 0 /\ dn = <<>>

\* The client writes: only the end of its stream moves.
ClientWrites ==
  /\ upEnd' \in Nat /\ upEnd' > upEnd
  /\ UNCHANGED <<phase, up, dnEnd, dn>>

\* The destination writes.
RemoteWrites ==
  /\ dnEnd' \in Nat /\ dnEnd' > dnEnd
  /\ UNCHANGED <<phase, upEnd, up, dn>>

\* The next bytes of the upward stream reach the destination.  The first
\* bytes may travel while the relay opens, and may be what opens it.
DeliverUp ==
  /\ phase # "closed"
  /\ \E n \in 0..upEnd : /\ UpBase + Len(up) + n <= upEnd
                         /\ up' = up \o Slice(UpBase + Len(up), n)
  /\ phase' \in {phase, "open"}
  /\ UNCHANGED <<upEnd, dnEnd, dn>>

\* The next bytes of the downward stream reach the client.
DeliverDown ==
  /\ phase = "open"
  /\ \E n \in 0..dnEnd : /\ Len(dn) + n <= dnEnd
                         /\ dn' = dn \o Slice(Len(dn), n)
  /\ UNCHANGED <<phase, upEnd, up, dnEnd>>

Close ==
  /\ phase' = "closed"
  /\ UNCHANGED <<upEnd, up, dnEnd, dn>>

Next == ClientWrites \/ RemoteWrites \/ DeliverUp \/ DeliverDown \/ Close

Spec == Init /\ [][Next]_vars
=============================================================================

----------------------------- MODULE MCUdpRelay -----------------------------
(***************************************************************************)
(* Two clients, two IPv4 addresses and one IPv6 address, names with        *)
(* addresses of either family, a table that holds two entries and a heap   *)
(* with one address more than that.                                        *)
(***************************************************************************)
EXTENDS UdpRelay, TLC

CONSTANTS s1, s2, a1, a2, a6, n1, n2, n3, r1, r2, r3

MCSources == {s1, s2}
MCAddrs == {a1, a2, a6}
MCNames == {n1, n2, n3}
MCRemotes == {r1, r2, r3}
MCFamily == a1 :> "v4" @@ a2 :> "v4" @@ a6 :> "v6"
MCResolves == n1 :> {a1, a2} @@ n2 :> {a6} @@ n3 :> {a2}

\* One name for each client, with addresses beside it.
OneName == s1 :> {a1, a2, n1} @@ s2 :> {a6, n3}
\* One client changes between two names.
TwoNames == s1 :> {n1, n3} @@ s2 :> {a1}
TwoFamilies == s1 :> {n1, n2} @@ s2 :> {a1}

AllAsks == {OneName, TwoNames, TwoFamilies}
TwoNamesOnly == {TwoNames}

HeapSymmetry == Permutations(MCRemotes)
=============================================================================

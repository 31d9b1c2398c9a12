----------------------------- MODULE MCBlockList -----------------------------
\* Two peers that can be blocked and one that cannot, and a table that overflows.
EXTENDS BlockList

CONSTANTS p1, p2, p3
ThreePeers == {p1, p2, p3}
WhiteList == {p3}
=============================================================================

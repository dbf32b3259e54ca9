--------------------------- MODULE MCBrainLinkPool ---------------------------
(* Small instances of BrainLinkPool for TLC. *)
EXTENDS BrainLinkPool, TLC

CONSTANTS p1, p2

TwoPeers == {p1, p2}
OnePeer == {p1}
PeerSymmetry == Permutations(TwoPeers)
=============================================================================

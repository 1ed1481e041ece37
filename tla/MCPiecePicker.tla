---------------------------- MODULE MCPiecePicker ----------------------------
(***************************************************************************)
(* Small instances of PiecePicker.                                         *)
(***************************************************************************)
EXTENDS PiecePicker, TLC

CONSTANTS p1, p2, fast

OnePeer     == {p1}
TwoPeers    == {p1, p2}
OneSpeed    == {fast}
Symmetry    == Permutations(Peers)
=============================================================================

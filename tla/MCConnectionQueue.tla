-------------------------- MODULE MCConnectionQueue --------------------------
(***************************************************************************)
(* Small instances of ConnectionQueue.                                     *)
(***************************************************************************)
EXTENDS ConnectionQueue, TLC

CONSTANTS a, b, c

AllClients == {a, b, c}
TwoClients == {a, b}
OneHigh    == {c}
Symmetry   == Permutations(AllClients \ HighPriority)
=============================================================================

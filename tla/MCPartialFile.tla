---------------------------- MODULE MCPartialFile ----------------------------
(***************************************************************************)
(* Small instances of PartialFile.                                         *)
(***************************************************************************)
EXTENDS PartialFile

AllOffers  == Functionals
(* Regular pieces, overlapping combinations and a dependent one. *)
SomeOffers == {{0}, {2}, {0, 1}, {1, 2}, {0, 1, 3}, {2, 3}, {0, 1, 2, 3}}
=============================================================================

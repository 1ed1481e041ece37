--------------------------- MODULE MCCodedStorage ---------------------------
(***************************************************************************)
(* Small instances of CodedStorage.  For the properties: coded chunks of two *)
(* senders that drew the same marker, one of them made of wrong rows.  For   *)
(* what happens at the last piece: two sound ones, and a third chunk that    *)
(* makes the file whole.                                                    *)
(***************************************************************************)
EXTENDS CodedStorage, TLC

CONSTANTS c1, c2, c3

MCCoded  == {c1, c2, c3}
MCMarker == c1 :> 1 @@ c2 :> 1 @@ c3 :> 2
MCFunc   == c1 :> {0} @@ c2 :> {0, 1} @@ c3 :> {1, 2}

TwoCoded  == {c1, c2}
TwoMarker == c1 :> 1 @@ c2 :> 1
TwoFunc   == c1 :> {0, 1} @@ c2 :> {0, 2}
TwoWrong  == {c2}
=============================================================================

------------------------------ MODULE Knowledge ------------------------------
(***************************************************************************)
(* What a partly downloaded BP2P file promises, seen from outside.  A chunk *)
(* of the file is named by its functional, the set of original pieces whose *)
(* XOR it is.  Whoever holds some chunks can make every XOR of them, so the *)
(* file knows a space closed under XOR.  An offered chunk is helpful exactly*)
(* when it is outside that space, and then the file knows everything that   *)
(* the chunk and the old space generate.  A crash may cost some of it, but  *)
(* never more than one chunk's worth.                                       *)
(***************************************************************************)
EXTENDS Integers, FiniteSetsExt

CONSTANTS
  Chunks,    \* the original pieces
  NoOffer    \* no chunk is being looked at

VARIABLES
  known,     \* the functionals the file can produce
  offered,   \* the functional of the chunk being looked at
  answer     \* what the sender of the last chunk was told

vars == <<known, offered, answer>>

(* Everything a chunk adds to a space of functionals. *)
With(space, f) == space \cup {SymDiff(f, g) : g \in space}

(* A space of functionals is closed under XOR and has the blank chunk. *)
IsSpace(space) ==
  /\ {} \in space
  /\ \A f, g \in space : SymDiff(f, g) \in space

Init ==
  /\ known = {{}}
  /\ offered = NoOffer
  /\ answer = "none"

Offer(f) ==
  /\ offered = NoOffer
  /\ offered' = f
  /\ answer' = "none"
  /\ UNCHANGED known

Answer ==
  /\ offered # NoOffer
  /\ offered' = NoOffer
  /\ answer' = IF offered \in known THEN "useless" ELSE "helpful"
  /\ known' = With(known, offered)

(* The space is halved when a dimension is lost. *)
Lose ==
  /\ offered' = NoOffer
  /\ answer' = "none"
  /\ known' \subseteq known
  /\ Cardinality(known) <= 2 * Cardinality(known')
  /\ IsSpace(known')

Next ==
  \/ \E f \in SUBSET Chunks : Offer(f)
  \/ Answer
  \/ Lose

Spec == Init /\ [][Next]_vars
==============================================================================

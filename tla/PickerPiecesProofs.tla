------------------------- MODULE PickerPiecesProofs -------------------------
(***************************************************************************)
(* Proofs about the pieces of PiecePicker, for any number of pieces, peers  *)
(* and priorities: the order of picking, the cursors, the counters and the  *)
(* availability.  The blocks of partial pieces are in PickerBlocksProofs.   *)
(***************************************************************************)
EXTENDS PiecePicker, ProofFacts

-----------------------------------------------------------------------------
(***************************************************************************)
(* The inductive invariant.                                                *)
(***************************************************************************)

\* The fields of the pieces and of the peers.
PieceTypes ==
  /\ peerCount \in [Pieces -> 0..MaxPeerCount]
  /\ downloading \in SUBSET Pieces
  /\ priority \in [Pieces -> 0..7]
  /\ have \in SUBSET Pieces
  /\ seeds \in Nat
  /\ dirty \in BOOLEAN
  /\ bucket \in [Pieces -> Int]
  /\ peerHas \in [Peers -> SUBSET Pieces]
  /\ announced \in SUBSET Peers

PiecesInv == PieceTypes /\ CountersExact /\ CursorsExact /\ BucketsCurrent

\* A peer that has announced nothing has nothing, and whoever is counted in
\* m_seeds has every piece: taking another peer's pieces off one by one then
\* finds them counted in peer_count.
PeersInv ==
  /\ \A p \in Peers : p \notin announced => peerHas[p] = {}
  /\ seeds <= Cardinality(FullPeers)
  /\ AvailabilityExact

\* The pieces are finitely many, and so are the peers.
LEMMA Finite ==
  /\ \A S \in SUBSET Pieces : IsFiniteSet(S) /\ Cardinality(S) \in Nat
  /\ \A S \in SUBSET Peers : /\ IsFiniteSet(S) /\ Cardinality(S) \in Nat
                             /\ Cardinality(S) <= Cardinality(Peers)
<1>1. IsFiniteSet(Pieces)
  BY PickerAssumption, FS_Interval DEF Pieces
<1> QED BY <1>1, PickerAssumption, FS_Subset, FS_CardinalityType

\* The steps that leave pieces, priorities and counters alone.
Elsewhere ==
  \/ UpdatePieces
  \/ \E p \in Peers : Announce(p)
  \/ \E p \in Peers : Leave(p)
  \/ \E i \in Pieces : RestorePiece(i)
  \/ \E i \in Pieces : \E k \in Blocks(i) : BlockStep(i, k)
  \/ UNCHANGED vars

LEMMA ElsewhereUnchanged ==
  ASSUME Elsewhere
  PROVE  UNCHANGED <<priority, have, numHave, numFiltered, numHaveFiltered, cursor, reverseCursor>>
BY ZenonT(30) DEF Elsewhere, UpdatePieces, Announce, Have, HaveAll, Bitfield, Leave, RestorePiece,
       BlockStep, MarkAsDownloading, MarkAsWriting, WriteFailed, MarkAsFinished, AbortDownload,
       UnlistedVars, counterVars, vars

LEMMA NextCases ==
  ASSUME [Next]_vars
  PROVE  \/ Elsewhere
         \/ \E i \in Pieces : WeHave(i)
         \/ \E i \in Pieces : WeDontHave(i)
         \/ \E i \in Pieces, pr \in Priorities : SetPiecePriority(i, pr)
         \/ Recheck
BY DEF Next, Elsewhere

-----------------------------------------------------------------------------
(***************************************************************************)
(* The counters.                                                           *)
(***************************************************************************)

\* A piece that comes to a set of pieces or leaves it.
LEMMA AddPiece ==
  ASSUME NEW S \in SUBSET Pieces, NEW i \in Pieces \ S
  PROVE  Cardinality(S \cup {i}) = Cardinality(S) + 1
BY Finite, FS_AddElement

LEMMA DropPiece ==
  ASSUME NEW S \in SUBSET Pieces, NEW i \in S
  PROVE  Cardinality(S \ {i}) = Cardinality(S) - 1
BY Finite, FS_RemoveElement

LEMMA CountersInit == Init => CountersExact
<1> SUFFICES ASSUME Init PROVE CountersExact
  OBVIOUS
<1>1. have = {} /\ numHave = 0 /\ numFiltered = 0 /\ numHaveFiltered = 0
  BY DEF Init
<1>2. Filtered = {}
  BY DEF Init, Filtered
<1>3. Filtered \ have = {} /\ Filtered \cap have = {}
  BY <1>2
<1>4. Cardinality({}) = 0
  BY FS_EmptySet
<1> QED BY <1>1, <1>3, <1>4 DEF CountersExact

LEMMA CountersStep ==
  ASSUME PieceTypes, CountersExact, [Next]_vars
  PROVE  CountersExact'
<1> USE DEF CountersExact, PieceTypes
<1>0. Filtered \in SUBSET Pieces
  BY DEF Filtered
<1>1. CASE Elsewhere
  BY <1>1, ElsewhereUnchanged DEF Filtered
<1>2. ASSUME NEW i \in Pieces, WeHave(i) PROVE CountersExact'
  <2>1. /\ i \notin have /\ have' = have \cup {i} /\ numHave' = numHave + 1
        /\ Filtered' = Filtered
        /\ IF i \in Filtered
           THEN numFiltered' = numFiltered - 1 /\ numHaveFiltered' = numHaveFiltered + 1
           ELSE UNCHANGED <<numFiltered, numHaveFiltered>>
    BY <1>2 DEF WeHave, Filtered
  <2>2. Cardinality(have') = Cardinality(have) + 1
    BY <2>1, AddPiece
  <2>3. CASE i \in Filtered
    <3>1. /\ Filtered \ have' = (Filtered \ have) \ {i} /\ i \in Filtered \ have
          /\ Filtered \cap have' = (Filtered \cap have) \cup {i} /\ i \notin Filtered \cap have
      BY <2>1, <2>3
    <3>2. /\ Cardinality((Filtered \ have) \ {i}) = Cardinality(Filtered \ have) - 1
          /\ Cardinality((Filtered \cap have) \cup {i}) = Cardinality(Filtered \cap have) + 1
      BY <3>1, <1>0, AddPiece, DropPiece
    <3> QED BY <2>1, <2>2, <2>3, <3>1, <3>2
  <2>4. CASE i \notin Filtered
    <3>1. Filtered \ have' = Filtered \ have /\ Filtered \cap have' = Filtered \cap have
      BY <2>1, <2>4
    <3> QED BY <2>1, <2>2, <2>4, <3>1
  <2> QED BY <2>3, <2>4
<1>3. ASSUME NEW i \in Pieces, WeDontHave(i) PROVE CountersExact'
  <2>1. /\ i \in have /\ have' = have \ {i} /\ numHave' = numHave - 1
        /\ Filtered' = Filtered
        /\ IF i \in Filtered
           THEN numFiltered' = numFiltered + 1 /\ numHaveFiltered' = numHaveFiltered - 1
           ELSE UNCHANGED <<numFiltered, numHaveFiltered>>
    BY <1>3 DEF WeDontHave, Filtered
  <2>2. Cardinality(have') = Cardinality(have) - 1
    BY <2>1, DropPiece
  <2>3. CASE i \in Filtered
    <3>1. /\ Filtered \ have' = (Filtered \ have) \cup {i} /\ i \notin Filtered \ have
          /\ Filtered \cap have' = (Filtered \cap have) \ {i} /\ i \in Filtered \cap have
      BY <2>1, <2>3
    <3>2. /\ Cardinality((Filtered \ have) \cup {i}) = Cardinality(Filtered \ have) + 1
          /\ Cardinality((Filtered \cap have) \ {i}) = Cardinality(Filtered \cap have) - 1
      BY <3>1, <1>0, AddPiece, DropPiece
    <3> QED BY <2>1, <2>2, <2>3, <3>1, <3>2
  <2>4. CASE i \notin Filtered
    <3>1. Filtered \ have' = Filtered \ have /\ Filtered \cap have' = Filtered \cap have
      BY <2>1, <2>4
    <3> QED BY <2>1, <2>2, <2>4, <3>1
  <2> QED BY <2>3, <2>4
<1>4. ASSUME NEW i \in Pieces, NEW pr \in Priorities, SetPiecePriority(i, pr)
      PROVE  CountersExact'
  <2>1. /\ pr # priority[i] /\ priority' = [priority EXCEPT ![i] = pr]
        /\ have' = have /\ numHave' = numHave
        /\ \/ pr = 0 /\ CountFiltered(i)
           \/ priority[i] = 0 /\ CountUnfiltered(i)
           \/ pr # 0 /\ priority[i] # 0 /\ UNCHANGED <<numFiltered, numHaveFiltered>>
    BY <1>4 DEF SetPiecePriority
  <2>2. CASE pr = 0 /\ CountFiltered(i)
    <3>1. Filtered' = Filtered \cup {i} /\ i \notin Filtered
      BY <2>1, <2>2 DEF Filtered
    <3>2. CASE i \in have
      <4>1. /\ Filtered' \ have = Filtered \ have
            /\ Filtered' \cap have = (Filtered \cap have) \cup {i} /\ i \notin Filtered \cap have
        BY <3>1, <3>2
      <4>2. Cardinality((Filtered \cap have) \cup {i}) = Cardinality(Filtered \cap have) + 1
        BY <4>1, <1>0, AddPiece
      <4> QED BY <2>1, <2>2, <3>2, <4>1, <4>2 DEF CountFiltered
    <3>3. CASE i \notin have
      <4>1. /\ Filtered' \cap have = Filtered \cap have
            /\ Filtered' \ have = (Filtered \ have) \cup {i} /\ i \notin Filtered \ have
        BY <3>1, <3>3
      <4>2. Cardinality((Filtered \ have) \cup {i}) = Cardinality(Filtered \ have) + 1
        BY <4>1, <1>0, AddPiece
      <4> QED BY <2>1, <2>2, <3>3, <4>1, <4>2 DEF CountFiltered
    <3> QED BY <3>2, <3>3
  <2>3. CASE priority[i] = 0 /\ CountUnfiltered(i)
    <3>1. Filtered' = Filtered \ {i} /\ i \in Filtered
      BY <2>1, <2>3 DEF Filtered
    <3>2. CASE i \in have
      <4>1. /\ Filtered' \ have = Filtered \ have
            /\ Filtered' \cap have = (Filtered \cap have) \ {i} /\ i \in Filtered \cap have
        BY <3>1, <3>2
      <4>2. Cardinality((Filtered \cap have) \ {i}) = Cardinality(Filtered \cap have) - 1
        BY <4>1, <1>0, DropPiece
      <4> QED BY <2>1, <2>3, <3>2, <4>1, <4>2 DEF CountUnfiltered
    <3>3. CASE i \notin have
      <4>1. /\ Filtered' \cap have = Filtered \cap have
            /\ Filtered' \ have = (Filtered \ have) \ {i} /\ i \in Filtered \ have
        BY <3>1, <3>3
      <4>2. Cardinality((Filtered \ have) \ {i}) = Cardinality(Filtered \ have) - 1
        BY <4>1, <1>0, DropPiece
      <4> QED BY <2>1, <2>3, <3>3, <4>1, <4>2 DEF CountUnfiltered
    <3> QED BY <3>2, <3>3
  <2>4. CASE pr # 0 /\ priority[i] # 0 /\ UNCHANGED <<numFiltered, numHaveFiltered>>
    <3>1. Filtered' = Filtered
      BY <2>1, <2>4 DEF Filtered
    <3> QED BY <2>1, <2>4, <3>1
  <2> QED BY <2>1, <2>2, <2>3, <2>4
<1>5. CASE Recheck
  <2>1. have' = {} /\ numHave' = 0
    BY <1>5 DEF Recheck
  <2>2. Cardinality({}) = 0
    BY FS_EmptySet
  <2>3. CASE ~IsSeed
    <3>1. /\ numFiltered' = numFiltered + numHaveFiltered /\ numHaveFiltered' = 0
          /\ Filtered' = Filtered
      BY <1>5, <2>3 DEF Recheck, Recount, Filtered
    <3> DEFINE S == Filtered \ have
               T == Filtered \cap have
    <3>2. IsFiniteSet(S) /\ IsFiniteSet(T) /\ S \cap T = {} /\ S \cup T = Filtered
      BY <1>0, Finite
    <3>3. Cardinality(S) \in Nat /\ Cardinality(T) \in Nat
      BY <1>0, Finite
    <3>4. Cardinality(S \cup T) = Cardinality(S) + Cardinality(T) - Cardinality(S \cap T)
      BY <3>2, FS_Union, Zenon
    <3>5. Cardinality(Filtered) = Cardinality(S) + Cardinality(T) - 0
      BY <3>2, <3>4, <2>2, Zenon
    <3>6. Filtered \ have' = Filtered /\ Filtered \cap have' = {}
      BY <2>1
    <3>7. Cardinality(Filtered' \ have') = numFiltered'
      BY <3>1, <3>3, <3>5, <3>6
    <3> QED BY <2>1, <2>2, <3>1, <3>6, <3>7
  <2>4. CASE IsSeed
    <3>1. numFiltered' = 0 /\ numHaveFiltered' = 0 /\ Filtered' = {}
      BY <1>5, <2>4 DEF Recheck, Filtered
    <3>2. Filtered' \ have' = {} /\ Filtered' \cap have' = {}
      BY <3>1
    <3> QED BY <2>1, <2>2, <3>1, <3>2
  <2> QED BY <2>3, <2>4
<1> QED BY <1>1, <1>2, <1>3, <1>4, <1>5, NextCases

-----------------------------------------------------------------------------
(***************************************************************************)
(* The cursors.                                                            *)
(***************************************************************************)

\* What a cursor is, without Min and Max.
IsFirst(c, T) ==
  /\ c \in T \cup {NumPieces}
  /\ \A j \in T : c <= j

IsLast(r, T) ==
  /\ r = 0 \/ r - 1 \in T
  /\ r \in Nat
  /\ \A j \in T : j < r

LEMMA CursorForms ==
  ASSUME NEW T \in SUBSET Pieces
  PROVE  /\ \A c : c = Min(T \cup {NumPieces}) <=> IsFirst(c, T)
         /\ \A r : r = Max({i + 1 : i \in T} \cup {0}) <=> IsLast(r, T)
<1>0. NumPieces \in Nat /\ \A j \in T : j \in Nat /\ j + 1 \in Nat /\ j < NumPieces
  BY PickerAssumption DEF Pieces
<1> DEFINE S == T \cup {NumPieces}
           U == {i + 1 : i \in T} \cup {0}
<1>1. S \in SUBSET Nat /\ S # {}
  BY <1>0
<1>2. U \in SUBSET Nat /\ U # {} /\ \A y \in U : y <= NumPieces
  BY <1>0
<1>3. Min(S) \in S /\ (\A y \in S : Min(S) <= y) /\ \A x \in S : (\A y \in S : x <= y) => x = Min(S)
  BY <1>1, MinFacts, Zenon
<1>4. Max(U) \in U /\ (\A y \in U : y <= Max(U)) /\ \A x \in U : (\A y \in U : y <= x) => x = Max(U)
  BY <1>0, <1>2, MaxFacts
<1> DEFINE a == Min(S)
           b == Max(U)
<1> HIDE DEF a, b
<1>5. a \in S /\ (\A y \in S : a <= y) /\ \A x \in S : (\A y \in S : x <= y) => x = a
  BY <1>3 DEF a
<1>6. b \in U /\ (\A y \in U : y <= b) /\ \A x \in U : (\A y \in U : y <= x) => x = b
  BY <1>4 DEF b
<1>7. ASSUME NEW c PROVE c = a <=> IsFirst(c, T)
  <2>1. ASSUME c = a PROVE IsFirst(c, T)
    BY <2>1, <1>5 DEF IsFirst
  <2>2. ASSUME IsFirst(c, T) PROVE c = a
    <3>1. c \in S /\ \A j \in T : c <= j
      BY <2>2 DEF IsFirst
    <3>2. c <= NumPieces
      BY <3>1, <1>0
    <3> QED BY <3>1, <3>2, <1>5
  <2> QED BY <2>1, <2>2
<1>8. ASSUME NEW r PROVE r = b <=> IsLast(r, T)
  <2>1. ASSUME r = b PROVE IsLast(r, T)
    <3>1. r \in Nat
      BY <2>1, <1>6, <1>2
    <3>2. r = 0 \/ \E i \in T : r = i + 1
      BY <2>1, <1>6
    <3>3. r = 0 \/ r - 1 \in T
      BY <3>2, <1>0
    <3>4. ASSUME NEW j \in T PROVE j < r
      <4>1. j + 1 \in U
        OBVIOUS
      <4>2. j + 1 <= r
        BY <4>1, <1>6, <2>1
      <4> QED BY <4>2, <3>1, <1>0
    <3> QED BY <3>1, <3>3, <3>4 DEF IsLast
  <2>2. ASSUME IsLast(r, T) PROVE r = b
    <3>1. r \in Nat /\ (r = 0 \/ r - 1 \in T) /\ \A j \in T : j < r
      BY <2>2 DEF IsLast
    <3>2. r \in U
      <4>1. r = (r - 1) + 1
        BY <3>1
      <4> QED BY <3>1, <4>1
    <3>3. ASSUME NEW y \in U PROVE y <= r
      <4>1. CASE y = 0
        BY <4>1, <3>1
      <4>2. ASSUME NEW j \in T, y = j + 1 PROVE y <= r
        BY <4>2, <3>1, <1>0
      <4> QED BY <4>1, <4>2
    <3> QED BY <3>2, <3>3, <1>6
  <2> QED BY <2>1, <2>2
<1> QED BY <1>7, <1>8 DEF a, b

LEMMA CursorsForm ==
  ASSUME priority \in [Pieces -> 0..7], have \in SUBSET Pieces
  PROVE  CursorsExact <=> IsFirst(cursor, ToPick) /\ IsLast(reverseCursor, ToPick)
<1>1. ToPick \in SUBSET Pieces
  BY DEF ToPick, Wanted
<1> QED BY <1>1, CursorForms, Zenon DEF CursorsExact

\* The cursors pass a piece and still bracket what is left.
LEMMA PassExact ==
  ASSUME NEW T \in SUBSET Pieces, NEW i \in Pieces,
         IsFirst(cursor, T), IsLast(reverseCursor, T), PassCursors(i, T \ {i})
  PROVE  IsFirst(cursor', T \ {i}) /\ IsLast(reverseCursor', T \ {i})
<1>0. NumPieces \in Nat /\ i \in Nat /\ i < NumPieces /\ \A j \in T : j \in Nat /\ j < NumPieces
  BY PickerAssumption DEF Pieces
<1>1. /\ cursor \in T \cup {NumPieces} /\ \A j \in T : cursor <= j
      /\ reverseCursor = 0 \/ reverseCursor - 1 \in T
      /\ reverseCursor \in Nat /\ \A j \in T : j < reverseCursor
  BY DEF IsFirst, IsLast
<1>2. cursor \in Nat
  BY <1>0, <1>1
<1> DEFINE left == T \ {i}
<1>3. CASE cursor = i /\ reverseCursor = i + 1
  <2>1. cursor' = NumPieces /\ reverseCursor' = 0
    BY <1>3 DEF PassCursors
  <2>2. left = {}
    <3>1. ASSUME NEW j \in left PROVE FALSE
      BY <1>0, <1>1, <1>3
    <3> QED BY <3>1
  <2> QED BY <2>1, <2>2 DEF IsFirst, IsLast
<1>4. CASE cursor = i /\ reverseCursor # i + 1
  <2> DEFINE more == {j \in left : j > i}
  <2>1. cursor' = Min(more \cup {NumPieces}) /\ reverseCursor' = reverseCursor
    BY <1>4 DEF PassCursors
  <2>2. more = left
    <3>1. ASSUME NEW j \in left PROVE j > i
      BY <1>0, <1>1, <1>4
    <3> QED BY <3>1
  <2>3. IsFirst(cursor', left)
    <3>1. left \in SUBSET Pieces
      OBVIOUS
    <3> QED BY <3>1, <2>1, <2>2, CursorForms
  <2>4. IsLast(reverseCursor, left)
    <3>1. reverseCursor - 1 # i
      BY <1>1, <1>0, <1>4
    <3> QED BY <3>1, <1>1 DEF IsLast
  <2> QED BY <2>1, <2>3, <2>4
<1>5. CASE cursor # i /\ reverseCursor = i + 1
  <2> DEFINE less == {j \in left : j < i}
  <2>1. cursor' = cursor /\ reverseCursor' = Max({j + 1 : j \in less} \cup {0})
    BY <1>5 DEF PassCursors
  <2>2. less = left
    <3>1. ASSUME NEW j \in left PROVE j < i
      BY <1>0, <1>1, <1>5
    <3> QED BY <3>1
  <2>3. IsLast(reverseCursor', left)
    <3>1. left \in SUBSET Pieces
      OBVIOUS
    <3> HIDE DEF left
    <3> QED BY <3>1, <2>1, <2>2, CursorForms
  <2>4. IsFirst(cursor, left)
    BY <1>1, <1>5 DEF IsFirst
  <2> QED BY <2>1, <2>3, <2>4
<1>6. CASE cursor # i /\ reverseCursor # i + 1
  <2>1. cursor' = cursor /\ reverseCursor' = reverseCursor
    BY <1>6 DEF PassCursors
  <2>2. reverseCursor - 1 # i
    BY <1>1, <1>0, <1>6
  <2> QED BY <2>1, <2>2, <1>1, <1>6 DEF IsFirst, IsLast
<1> QED BY <1>3, <1>4, <1>5, <1>6

\* The cursors come back to a piece.
LEMMA ReturnExact ==
  ASSUME NEW T \in SUBSET Pieces, NEW i \in Pieces,
         IsFirst(cursor, T), IsLast(reverseCursor, T), ReturnCursors(i)
  PROVE  IsFirst(cursor', T \cup {i}) /\ IsLast(reverseCursor', T \cup {i})
<1>0. NumPieces \in Nat /\ i \in Nat /\ i < NumPieces /\ \A j \in T : j \in Nat /\ j < NumPieces
  BY PickerAssumption DEF Pieces
<1>1. /\ cursor \in T \cup {NumPieces} /\ \A j \in T : cursor <= j
      /\ reverseCursor = 0 \/ reverseCursor - 1 \in T
      /\ reverseCursor \in Nat /\ \A j \in T : j < reverseCursor
  BY DEF IsFirst, IsLast
<1>2. cursor \in Nat
  BY <1>0, <1>1
<1>3. IsFirst(cursor', T \cup {i})
  <2>1. CASE i < cursor
    <3>1. cursor' = i
      BY <2>1 DEF ReturnCursors
    <3>2. \A j \in T : i <= j
      BY <2>1, <1>0, <1>1, <1>2
    <3> QED BY <3>1, <3>2, <1>0 DEF IsFirst
  <2>2. CASE ~(i < cursor)
    <3>1. cursor' = cursor /\ cursor <= i
      BY <2>2, <1>0, <1>2 DEF ReturnCursors
    <3> QED BY <3>1, <1>1 DEF IsFirst
  <2> QED BY <2>1, <2>2
<1>4. IsLast(reverseCursor', T \cup {i})
  <2>1. CASE i >= reverseCursor
    <3>1. reverseCursor' = i + 1 /\ (i + 1) - 1 = i /\ i + 1 \in Nat /\ i < i + 1
      BY <2>1, <1>0 DEF ReturnCursors
    <3>2. \A j \in T : j < i + 1
      BY <2>1, <1>0, <1>1
    <3> QED BY <3>1, <3>2 DEF IsLast
  <2>2. CASE ~(i >= reverseCursor)
    <3>1. reverseCursor' = reverseCursor /\ i < reverseCursor
      BY <2>2, <1>0, <1>1 DEF ReturnCursors
    <3> QED BY <3>1, <1>1 DEF IsLast
  <2> QED BY <2>1, <2>2
<1> QED BY <1>3, <1>4

LEMMA AllToPick ==
  IsFirst(0, Pieces) /\ IsLast(NumPieces, Pieces)
BY PickerAssumption DEF IsFirst, IsLast, Pieces

LEMMA CursorsInit == Init => CursorsExact
<1> SUFFICES ASSUME Init PROVE CursorsExact
  OBVIOUS
<1>1. /\ priority = [i \in Pieces |-> 1] /\ have = {} /\ cursor = 0 /\ reverseCursor = NumPieces
  BY DEF Init
<1>2. ToPick = Pieces
  BY <1>1 DEF ToPick, Wanted, Filtered
<1>3. priority \in [Pieces -> 0..7] /\ have \in SUBSET Pieces
  BY <1>1
<1> QED BY <1>1, <1>2, <1>3, AllToPick, CursorsForm

LEMMA CursorsStep ==
  ASSUME PieceTypes, PieceTypes', CursorsExact, [Next]_vars
  PROVE  CursorsExact'
<1>0. /\ priority \in [Pieces -> 0..7] /\ have \in SUBSET Pieces
      /\ priority' \in [Pieces -> 0..7] /\ have' \in SUBSET Pieces
  BY DEF PieceTypes
<1>1. IsFirst(cursor, ToPick) /\ IsLast(reverseCursor, ToPick) /\ ToPick \in SUBSET Pieces
  BY <1>0, CursorsForm DEF ToPick, Wanted
<1> SUFFICES IsFirst(cursor', ToPick') /\ IsLast(reverseCursor', ToPick')
  <2>1. ToPick' \in SUBSET Pieces
    BY DEF ToPick, Wanted
  <2>2. /\ cursor' = Min(ToPick' \cup {NumPieces}) <=> IsFirst(cursor', ToPick')
        /\ reverseCursor' = Max({i + 1 : i \in ToPick'} \cup {0}) <=> IsLast(reverseCursor', ToPick')
    BY <2>1, CursorForms, Zenon
  <2> QED BY <2>2, Zenon DEF CursorsExact
<1>2. ASSUME UNCHANGED <<priority, have, cursor, reverseCursor>>
      PROVE  IsFirst(cursor', ToPick') /\ IsLast(reverseCursor', ToPick')
  BY <1>1, <1>2 DEF ToPick, Wanted, Filtered
<1>3. CASE Elsewhere
  BY <1>2, <1>3, ElsewhereUnchanged
<1>4. ASSUME NEW i \in Pieces, WeHave(i)
      PROVE  IsFirst(cursor', ToPick') /\ IsLast(reverseCursor', ToPick')
  <2>1. have' = have \cup {i} /\ priority' = priority /\ PassCursors(i, ToPick \ {i})
    BY <1>4 DEF WeHave
  <2>2. ToPick' = ToPick \ {i}
    BY <2>1 DEF ToPick, Wanted, Filtered
  <2> QED BY <1>1, <2>1, <2>2, PassExact
<1>5. ASSUME NEW i \in Pieces, WeDontHave(i)
      PROVE  IsFirst(cursor', ToPick') /\ IsLast(reverseCursor', ToPick')
  <2>1. have' = have \ {i} /\ priority' = priority
    BY <1>5 DEF WeDontHave
  <2>2. CASE i \in Filtered
    <3>1. UNCHANGED <<cursor, reverseCursor>>
      BY <1>5, <2>2 DEF WeDontHave
    <3>2. ToPick' = ToPick
      BY <2>1, <2>2 DEF ToPick, Wanted, Filtered
    <3> QED BY <1>1, <3>1, <3>2
  <2>3. CASE i \notin Filtered
    <3>1. ReturnCursors(i)
      BY <1>5, <2>3 DEF WeDontHave
    <3>2. ToPick' = ToPick \cup {i}
      BY <2>1, <2>3 DEF ToPick, Wanted, Filtered
    <3> QED BY <1>1, <3>1, <3>2, ReturnExact
  <2> QED BY <2>2, <2>3
<1>6. ASSUME NEW i \in Pieces, NEW pr \in Priorities, SetPiecePriority(i, pr)
      PROVE  IsFirst(cursor', ToPick') /\ IsLast(reverseCursor', ToPick')
  <2>1. /\ pr # priority[i] /\ priority' = [priority EXCEPT ![i] = pr] /\ have' = have
        /\ \/ pr = 0 /\ CountFiltered(i)
           \/ priority[i] = 0 /\ CountUnfiltered(i)
           \/ pr # 0 /\ priority[i] # 0 /\ UNCHANGED <<cursor, reverseCursor>>
    BY <1>6 DEF SetPiecePriority
  <2>2. CASE pr = 0 /\ CountFiltered(i)
    <3>1. Filtered' = Filtered \cup {i}
      BY <1>0, <2>1, <2>2 DEF Filtered
    <3>2. CASE i \in have
      <4>1. UNCHANGED <<cursor, reverseCursor>>
        BY <2>2, <3>2 DEF CountFiltered
      <4>2. ToPick' = ToPick
        BY <2>1, <3>1, <3>2 DEF ToPick, Wanted
      <4> QED BY <1>1, <4>1, <4>2
    <3>3. CASE i \notin have
      <4>1. PassCursors(i, ToPick \ {i})
        BY <2>2, <3>3 DEF CountFiltered
      <4>2. ToPick' = ToPick \ {i}
        BY <2>1, <3>1 DEF ToPick, Wanted
      <4> QED BY <1>1, <4>1, <4>2, PassExact
    <3> QED BY <3>2, <3>3
  <2>3. CASE priority[i] = 0 /\ CountUnfiltered(i)
    <3>1. Filtered' = Filtered \ {i}
      BY <1>0, <2>1, <2>3 DEF Filtered
    <3>2. CASE i \in have
      <4>1. UNCHANGED <<cursor, reverseCursor>>
        BY <2>3, <3>2 DEF CountUnfiltered
      <4>2. ToPick' = ToPick
        BY <2>1, <3>1, <3>2 DEF ToPick, Wanted
      <4> QED BY <1>1, <4>1, <4>2
    <3>3. CASE i \notin have
      <4>1. ReturnCursors(i)
        BY <2>3, <3>3 DEF CountUnfiltered
      <4>2. ToPick' = ToPick \cup {i}
        BY <2>1, <3>1, <3>3 DEF ToPick, Wanted
      <4> QED BY <1>1, <4>1, <4>2, ReturnExact
    <3> QED BY <3>2, <3>3
  <2>4. CASE pr # 0 /\ priority[i] # 0 /\ UNCHANGED <<cursor, reverseCursor>>
    <3>1. Filtered' = Filtered
      BY <1>0, <2>1, <2>4 DEF Filtered
    <3>2. ToPick' = ToPick
      BY <2>1, <3>1 DEF ToPick, Wanted
    <3> QED BY <1>1, <2>4, <3>2
  <2> QED BY <2>1, <2>2, <2>3, <2>4
<1>7. CASE Recheck
  <2>1. have' = {}
    BY <1>7 DEF Recheck
  <2>2. CASE ~IsSeed
    <3>1. /\ priority' = priority /\ cursor' = Min(Wanted \cup {NumPieces})
          /\ reverseCursor' = Max({i + 1 : i \in Wanted} \cup {0})
      BY <1>7, <2>2 DEF Recheck
    <3>2. ToPick' = Wanted /\ Wanted \in SUBSET Pieces
      BY <2>1, <3>1 DEF ToPick, Wanted, Filtered
    <3> QED BY <3>1, <3>2, CursorForms, Zenon
  <2>3. CASE IsSeed
    <3>1. priority' = [i \in Pieces |-> 1] /\ cursor' = 0 /\ reverseCursor' = NumPieces
      BY <1>7, <2>3 DEF Recheck
    <3>2. ToPick' = Pieces
      BY <2>1, <3>1 DEF ToPick, Wanted, Filtered
    <3> QED BY <3>1, <3>2, AllToPick
  <2> QED BY <2>2, <2>3
<1> QED BY <1>3, <1>4, <1>5, <1>6, <1>7, NextCases

-----------------------------------------------------------------------------
(***************************************************************************)
(* The fields of the pieces and of the peers.                              *)
(***************************************************************************)

\* The ten bits of peer_count: the first line alone holds for any count.
LEMMA CountTypes ==
  ASSUME NEW n \in 0..MaxPeerCount
  PROVE  /\ CountUp(n) \in 0..MaxPeerCount /\ CountDown(n) \in 0..MaxPeerCount
         /\ n < MaxPeerCount => CountUp(n) = n + 1
         /\ n > 0 => CountDown(n) = n - 1
         /\ n \in Nat
<1>1. n \in Nat /\ n <= 1023 /\ MaxPeerCount = 1023
  BY DEF MaxPeerCount
<1>2. CountUp(n) = (n + 1) % 1024 /\ CountDown(n) = (n + 1023) % 1024
  BY <1>1 DEF CountUp, CountDown
<1>3. (n + 1) % 1024 \in 0..1023 /\ (n < 1023 => (n + 1) % 1024 = n + 1)
  <2>1. n + 1 \in Nat /\ (n < 1023 => n + 1 < 1024)
    BY <1>1
  <2>2. (n + 1) % 1024 \in 0..1023
    BY <2>1
  <2>3. ASSUME n < 1023 PROVE (n + 1) % 1024 = n + 1
    BY <2>1, <2>3
  <2> QED BY <2>2, <2>3
<1>4. (n + 1023) % 1024 \in 0..1023 /\ (n > 0 => (n + 1023) % 1024 = n - 1)
  BY <1>1, SMTT(30)
<1> QED BY <1>1, <1>2, <1>3, <1>4

LEMMA MaxOfTwo ==
  ASSUME NEW a \in Int, NEW b \in Int
  PROVE  Max({a, b}) = IF a >= b THEN a ELSE b
<1> DEFINE c == IF a >= b THEN a ELSE b
<1>1. c \in {a, b} /\ \A y \in {a, b} : c >= y
  OBVIOUS
<1>2. ASSUME NEW x \in {a, b}, \A y \in {a, b} : x >= y PROVE x = c
  BY <1>2
<1>3. /\ Max({a, b}) \in {a, b} /\ \A y \in {a, b} : Max({a, b}) >= y
  <2> HIDE DEF c
  <2> QED BY <1>1, Zenon DEF Max
<1> QED BY <1>2, <1>3

LEMMA RecheckSeeds ==
  ASSUME seeds \in Nat, Recheck
  PROVE  /\ seeds' \in Nat
         /\ seeds <= Cardinality(FullPeers) => seeds' = 0
<1>1. Cardinality(FullPeers) \in Nat
  BY Finite DEF FullPeers
<1>2. Max({0, seeds - Cardinality(FullPeers)})
        = IF 0 >= seeds - Cardinality(FullPeers) THEN 0 ELSE seeds - Cardinality(FullPeers)
  BY <1>1, MaxOfTwo
<1>3. seeds' = 0 \/ seeds' = Max({0, seeds - Cardinality(FullPeers)})
  BY DEF Recheck
<1> QED BY <1>1, <1>2, <1>3

\* The priorities that a step may put into the list.
LEMMA RelistType ==
  ASSUME bucket \in [Pieces -> Int], NEW S, Relist(S),
         peerCount' \in [Pieces -> 0..MaxPeerCount], priority' \in [Pieces -> 0..7], seeds' \in Nat
  PROVE  bucket' \in [Pieces -> Int]
<1>1. ASSUME NEW i \in Pieces PROVE Priority(i)' \in Int
  <2>0. peerCount'[i] \in 0..MaxPeerCount /\ priority'[i] \in 0..7
    OBVIOUS
  <2>1. peerCount'[i] \in Nat /\ priority'[i] \in Nat
    BY <2>0, CountTypes
  <2>2. peerCount'[i] \div 2 \in Nat
    BY <2>1
  <2> QED BY <2>1, <2>2 DEF Priority, NotListed
<1> QED BY <1>1 DEF Relist, NotListed

LEMMA PieceTypesInit == Init => PieceTypes
BY DEF Init, PieceTypes, MaxPeerCount, NotListed

LEMMA PieceTypesStep ==
  ASSUME PieceTypes, [Next]_vars
  PROVE  PieceTypes'
<1> USE DEF PieceTypes
<1> DEFINE Fields ==
      /\ peerCount' \in [Pieces -> 0..MaxPeerCount]
      /\ downloading' \in SUBSET Pieces
      /\ priority' \in [Pieces -> 0..7]
      /\ have' \in SUBSET Pieces
      /\ seeds' \in Nat
      /\ dirty' \in BOOLEAN
      /\ peerHas' \in [Peers -> SUBSET Pieces]
      /\ announced' \in SUBSET Peers
<1>1. ASSUME Fields, NEW S, Relist(S) PROVE PieceTypes'
  BY <1>1, RelistType
<1>2. \A n \in 0..MaxPeerCount : CountUp(n) \in 0..MaxPeerCount /\ CountDown(n) \in 0..MaxPeerCount
  BY CountTypes
<1>3. ASSUME NEW i \in Pieces PROVE peerCount[i] \in 0..MaxPeerCount
  OBVIOUS
<1>4. CASE UpdatePieces
  <2>1. \A i \in Pieces : Priority(i) \in Int
    <3> TAKE i \in Pieces
    <3>0. peerCount[i] \in 0..MaxPeerCount /\ priority[i] \in 0..7
      OBVIOUS
    <3>1. peerCount[i] \in Nat /\ priority[i] \in Nat
      BY <3>0, CountTypes
    <3>2. peerCount[i] \div 2 \in Nat
      BY <3>1
    <3> QED BY <3>1, <3>2 DEF Priority, NotListed
  <2> QED BY <1>4, <2>1 DEF UpdatePieces, peerVars
<1>5. ASSUME NEW p \in Peers, NEW i \in Pieces, Have(p, i) PROVE PieceTypes'
  <2>1. Fields
    BY <1>2, <1>5 DEF Have
  <2> QED BY <2>1, <1>1, <1>5 DEF Have
<1>6. ASSUME NEW p \in Peers, HaveAll(p) PROVE PieceTypes'
  <2>1. Fields
    BY <1>6 DEF HaveAll, IncRefcountAll
  <2> QED BY <2>1, <1>1, <1>6 DEF HaveAll
<1>7. ASSUME NEW p \in Peers, NEW B \in SUBSET Pieces, Bitfield(p, B) PROVE PieceTypes'
  <2>1. peerCount' \in [Pieces -> 0..MaxPeerCount]
    BY <1>2, <1>3, <1>7 DEF Bitfield
  <2>2. Fields
    BY <2>1, <1>7 DEF Bitfield
  <2> QED BY <2>2, <1>1, <1>7 DEF Bitfield
<1>8. ASSUME NEW p \in Peers, Leave(p) PROVE PieceTypes'
  <2>1. peerCount' \in [Pieces -> 0..MaxPeerCount] /\ seeds' \in Nat /\ dirty' \in BOOLEAN
    <3>1. CASE peerHas[p] = Pieces
      <4>1. DecRefcountAll
        BY <1>8, <3>1 DEF Leave
      <4>2. dirty' \in BOOLEAN
        BY <4>1, Zenon DEF DecRefcountAll
      <4>3. peerCount' \in [Pieces -> 0..MaxPeerCount]
        BY <1>2, <1>3, <4>1 DEF DecRefcountAll
      <4>4. seeds' \in Nat
        BY <4>1 DEF DecRefcountAll
      <4> QED BY <4>2, <4>3, <4>4
    <3>2. CASE peerHas[p] # Pieces
      BY <1>2, <1>3, <1>8, <3>2 DEF Leave
    <3> QED BY <3>1, <3>2
  <2>2. Fields
    BY <2>1, <1>8 DEF Leave
  <2> QED BY <2>2, <1>1, <1>8 DEF Leave
<1>9. ASSUME NEW i \in Pieces, WeHave(i) PROVE PieceTypes'
  <2>1. Fields
    BY <1>9 DEF WeHave, EraseDownload, peerVars
  <2> QED BY <2>1, <1>1, <1>9 DEF WeHave
<1>10. ASSUME NEW i \in Pieces, WeDontHave(i) PROVE PieceTypes'
  <2>1. Fields
    BY <1>10 DEF WeDontHave, peerVars
  <2> QED BY <2>1, <1>1, <1>10 DEF WeDontHave
<1>11. ASSUME NEW i \in Pieces, NEW pr \in Priorities, SetPiecePriority(i, pr) PROVE PieceTypes'
  <2>1. pr \in 0..7
    BY PickerAssumption
  <2>2. Fields
    BY <1>11, <2>1 DEF SetPiecePriority, peerVars
  <2> QED BY <2>2, <1>1, <1>11 DEF SetPiecePriority
<1>12. ASSUME NEW i \in Pieces, RestorePiece(i) PROVE PieceTypes'
  <2>1. Fields
    BY <1>12 DEF RestorePiece, EraseDownload, peerVars
  <2> QED BY <2>1, <1>1, <1>12 DEF RestorePiece
<1>13. ASSUME NEW i \in Pieces, NEW k \in Blocks(i), BlockStep(i, k) PROVE PieceTypes'
  <2>1. Fields
    BY <1>13 DEF BlockStep, MarkAsDownloading, MarkAsWriting, WriteFailed, MarkAsFinished,
                 AbortDownload, AddDownload, EraseDownload, UnlistedVars, peerVars
  <2>2. bucket' = bucket \/ Relist({i})
    BY <1>13 DEF BlockStep, MarkAsDownloading, MarkAsWriting, WriteFailed, MarkAsFinished,
                 AbortDownload
  <2> QED BY <2>1, <2>2, <1>1
<1>14. CASE Recheck
  <2>1. Fields
    BY <1>14, RecheckSeeds DEF Recheck, MaxPeerCount
  <2> QED BY <2>1, <1>1, <1>14 DEF Recheck
<1>15. CASE UNCHANGED vars
  BY <1>15 DEF vars
<1> QED BY <1>4, <1>5, <1>6, <1>7, <1>8, <1>9, <1>10, <1>11, <1>12, <1>13, <1>14, <1>15
        DEF Next, Announce

-----------------------------------------------------------------------------
(***************************************************************************)
(* The order of picking.                                                   *)
(***************************************************************************)

\* What a priority is made of.
LEMMA PrioritySame ==
  ASSUME NEW i \in Pieces, peerCount'[i] = peerCount[i], priority'[i] = priority[i],
         i \in have' <=> i \in have, i \in downloading' <=> i \in downloading,
         peerCount[i] + seeds = 0 <=> peerCount[i] + seeds' = 0
  PROVE  Priority(i)' = Priority(i)
<1>1. i \in ToPick' <=> i \in ToPick
  BY DEF ToPick, Wanted, Filtered
<1> QED BY <1>1 DEF Priority

LEMMA RelistExact ==
  ASSUME BucketsCurrent, NEW S, Relist(S), ~dirty' => ~dirty,
         ~dirty' => \A i \in Pieces : i \notin S => Priority(i)' = Priority(i)
  PROVE  BucketsCurrent'
<1> SUFFICES ASSUME ~dirty', NEW i \in Pieces PROVE bucket'[i] = Priority(i)'
  BY DEF BucketsCurrent
<1>1. bucket[i] = Priority(i)
  BY DEF BucketsCurrent
<1>2. bucket'[i] = IF i \in S /\ Priority(i)' # Priority(i) THEN Priority(i)' ELSE bucket[i]
  BY Zenon DEF Relist
<1> QED BY <1>1, <1>2, Zenon

LEMMA BucketsStep ==
  ASSUME PieceTypes, BucketsCurrent, [Next]_vars
  PROVE  BucketsCurrent'
<1> DEFINE Same(i) == Priority(i)' = Priority(i)
<1>0. /\ \A i \in Pieces : peerCount[i] \in Nat
      /\ seeds \in Nat /\ dirty \in BOOLEAN
      /\ priority \in [Pieces -> 0..7] /\ peerHas \in [Peers -> SUBSET Pieces]
      /\ peerCount \in [Pieces -> 0..MaxPeerCount]
  BY CountTypes DEF PieceTypes
<1>1. CASE UpdatePieces
  <2>1. \A i \in Pieces : Same(i)
    BY <1>1, PrioritySame DEF UpdatePieces, peerVars
  <2>2. \A i \in Pieces : bucket'[i] = Priority(i)
    BY <1>1, Zenon DEF UpdatePieces
  <2> QED BY <2>1, <2>2 DEF BucketsCurrent
<1>2. ASSUME NEW p \in Peers, NEW i \in Pieces, Have(p, i) PROVE BucketsCurrent'
  <2>1. \A j \in Pieces : j \notin {i} => Same(j)
    BY <1>0, <1>2, PrioritySame DEF Have
  <2> HIDE DEF Same
  <2> QED BY <1>2, <2>1, RelistExact DEF Have, Same
<1>3. ASSUME NEW p \in Peers, HaveAll(p) PROVE BucketsCurrent'
  <2>0. ~dirty' => ~dirty /\ seeds # 0
    BY <1>3, Zenon DEF HaveAll, IncRefcountAll
  <2>1. ~dirty' => ~dirty /\ seeds > 0
    BY <1>0, <2>0
  <2>2. ~dirty' => \A j \in Pieces : Same(j)
    BY <1>0, <1>3, <2>1, PrioritySame DEF HaveAll, IncRefcountAll
  <2> HIDE DEF Same
  <2> QED BY <1>3, <2>1, <2>2, RelistExact DEF HaveAll, Same
<1>4. ASSUME NEW p \in Peers, NEW B \in SUBSET Pieces, Bitfield(p, B) PROVE BucketsCurrent'
  <2>1. ~dirty' => ~dirty /\ B = {}
    BY <1>4 DEF Bitfield
  <2>2. ~dirty' => \A j \in Pieces : j \notin peerHas[p] \ B => Same(j)
    BY <1>0, <1>4, <2>1, PrioritySame DEF Bitfield
  <2> HIDE DEF Same
  <2> QED BY <1>4, <2>1, <2>2, RelistExact DEF Bitfield, Same
<1>5. ASSUME NEW p \in Peers, Leave(p) PROVE BucketsCurrent'
  <2>1. CASE peerHas[p] = Pieces
    <3>0. ~dirty' => ~dirty /\ seeds # 1 /\ seeds > 0 /\ seeds' = seeds - 1 /\ peerCount' = peerCount
      BY <1>5, <2>1, Zenon DEF Leave, DecRefcountAll
    <3>1. ~dirty' => ~dirty /\ seeds > 1 /\ seeds' = seeds - 1 /\ peerCount' = peerCount
      BY <1>0, <3>0
    <3>2. ~dirty' => \A j \in Pieces : Same(j)
      BY <1>0, <1>5, <3>1, PrioritySame DEF Leave
    <3> HIDE DEF Same
    <3> QED BY <1>5, <3>1, <3>2, RelistExact DEF Leave, Same
  <2>2. CASE peerHas[p] # Pieces
    <3>1. ~dirty' => ~dirty /\ peerHas[p] = {} /\ seeds' = seeds
      BY <1>5, <2>2 DEF Leave
    <3>2. ~dirty' => \A j \in Pieces : peerCount'[j] = peerCount[j]
      BY <1>0, <1>5, <2>2, <3>1 DEF Leave
    <3>3. ~dirty' => \A j \in Pieces : Same(j)
      BY <1>0, <1>5, <3>1, <3>2, PrioritySame DEF Leave
    <3> HIDE DEF Same
    <3> QED BY <1>5, <3>1, <3>3, RelistExact DEF Leave, Same
  <2> QED BY <2>1, <2>2
<1>6. ASSUME NEW i \in Pieces, Relist({i}), UNCHANGED <<peerCount, seeds, dirty>>,
             \A j \in Pieces \ {i} : /\ priority'[j] = priority[j]
                                     /\ j \in have' <=> j \in have
                                     /\ j \in downloading' <=> j \in downloading
      PROVE  BucketsCurrent'
  <2>1. \A j \in Pieces : j \notin {i} => Same(j)
    BY <1>6, PrioritySame
  <2> HIDE DEF Same
  <2> QED BY <1>6, <2>1, RelistExact DEF Same
<1>7. ASSUME NEW i \in Pieces, WeHave(i) PROVE BucketsCurrent'
  BY <1>6, <1>7 DEF WeHave, EraseDownload, peerVars
<1>8. ASSUME NEW i \in Pieces, WeDontHave(i) PROVE BucketsCurrent'
  BY <1>6, <1>8 DEF WeDontHave, peerVars
<1>9. ASSUME NEW i \in Pieces, NEW pr \in Priorities, SetPiecePriority(i, pr) PROVE BucketsCurrent'
  BY <1>0, <1>6, <1>9 DEF SetPiecePriority, peerVars
<1>10. ASSUME NEW i \in Pieces, RestorePiece(i) PROVE BucketsCurrent'
  BY <1>6, <1>10 DEF RestorePiece, EraseDownload, peerVars
<1>11. ASSUME NEW i \in Pieces, NEW k \in Blocks(i), BlockStep(i, k) PROVE BucketsCurrent'
  <2>1. /\ UNCHANGED <<peerCount, seeds, dirty, priority, have>>
        /\ \A j \in Pieces \ {i} : j \in downloading' <=> j \in downloading
    BY <1>11 DEF BlockStep, MarkAsDownloading, MarkAsWriting, WriteFailed, MarkAsFinished,
                 AbortDownload, AddDownload, EraseDownload, UnlistedVars, peerVars
  <2>2. \/ UNCHANGED <<bucket, downloading>>
        \/ Relist({i})
    BY <1>11 DEF BlockStep, MarkAsDownloading, MarkAsWriting, WriteFailed, MarkAsFinished,
                 AbortDownload
  <2>3. ASSUME UNCHANGED <<bucket, downloading>> PROVE BucketsCurrent'
    <3>1. \A j \in Pieces : Same(j)
      BY <2>1, <2>3, PrioritySame
    <3> QED BY <3>1, <2>1, <2>3 DEF BucketsCurrent
  <2> QED BY <1>6, <2>1, <2>2, <2>3
<1>12. CASE Recheck
  BY <1>12 DEF Recheck, BucketsCurrent
<1>13. CASE UNCHANGED vars
  <2>1. \A j \in Pieces : Same(j)
    BY <1>13, PrioritySame DEF vars
  <2> QED BY <1>13, <2>1 DEF vars, BucketsCurrent
<1> QED BY <1>1, <1>2, <1>3, <1>4, <1>5, <1>7, <1>8, <1>9, <1>10, <1>11, <1>12, <1>13
        DEF Next, Announce

-----------------------------------------------------------------------------
(***************************************************************************)
(* The peers.                                                              *)
(***************************************************************************)

LEMMA PeersInit == Init => PeersInv
<1> SUFFICES ASSUME Init PROVE PeersInv
  OBVIOUS
<1>1. /\ peerHas = [p \in Peers |-> {}] /\ seeds = 0
      /\ peerCount = [i \in Pieces |-> 0]
  BY DEF Init
<1>2. \A i \in Pieces : PeersWith(i) = {}
  BY <1>1 DEF PeersWith
<1>3. Cardinality({}) = 0 /\ Cardinality(FullPeers) \in Nat
  BY FS_EmptySet, Finite DEF FullPeers
<1>4. AvailabilityExact
  BY <1>1, <1>2, <1>3 DEF AvailabilityExact
<1> QED BY <1>1, <1>3, <1>4 DEF PeersInv

\* Of the sets of peers a step changes only what the peer p is in.
LEMMA OnePeerChanges ==
  ASSUME peerHas \in [Peers -> SUBSET Pieces], NEW p \in Peers, NEW X \in SUBSET Pieces,
         peerHas' = [peerHas EXCEPT ![p] = X]
  PROVE  /\ FullPeers' = IF X = Pieces THEN FullPeers \cup {p} ELSE FullPeers \ {p}
         /\ \A i \in Pieces :
              PeersWith(i)' = IF i \in X THEN PeersWith(i) \cup {p} ELSE PeersWith(i) \ {p}
BY DEF FullPeers, PeersWith

\* A peer that comes to a set of peers or leaves it.
LEMMA AddPeer ==
  ASSUME NEW S \in SUBSET Peers, NEW p \in Peers
  PROVE  /\ p \notin S => Cardinality(S \cup {p}) = Cardinality(S) + 1
         /\ p \in S => S \cup {p} = S /\ Cardinality(S \ {p}) = Cardinality(S) - 1
         /\ p \notin S => S \ {p} = S
         /\ p \notin S => Cardinality(S) < MaxPeerCount
         /\ p \in S => Cardinality(S) > 0
         /\ Cardinality(S) \in Nat
<1>1. IsFiniteSet(S) /\ Cardinality(S) \in Nat
  BY Finite
<1>2. p \notin S => Cardinality(S \cup {p}) = Cardinality(S) + 1
  BY <1>1, FS_AddElement
<1>3. p \in S => Cardinality(S \ {p}) = Cardinality(S) - 1
  BY <1>1, FS_RemoveElement
<1>4. Cardinality(S \cup {p}) \in Nat /\ Cardinality(S \cup {p}) <= Cardinality(Peers)
  <2>1. S \cup {p} \in SUBSET Peers
    OBVIOUS
  <2> QED BY <2>1, Finite
<1>5. Cardinality(Peers) \in Nat /\ Cardinality(Peers) <= MaxPeerCount /\ MaxPeerCount = 1023
  BY Finite, PickerAssumption DEF MaxPeerCount
<1>6. Cardinality(S \ {p}) \in Nat
  <2>1. S \ {p} \in SUBSET Peers
    OBVIOUS
  <2> QED BY <2>1, Finite
<1> QED BY <1>1, <1>2, <1>3, <1>4, <1>5, <1>6

\* More peers, not fewer.
LEMMA PeersMonotone ==
  ASSUME NEW S \in SUBSET Peers, NEW T \in SUBSET S
  PROVE  Cardinality(T) <= Cardinality(S)
BY Finite, FS_Subset

LEMMA PeersElsewhere ==
  ASSUME PeersInv, UNCHANGED peerVars
  PROVE  PeersInv'
BY DEF PeersInv, AvailabilityExact, FullPeers, PeersWith, peerVars

LEMMA PeersStep ==
  ASSUME PieceTypes, PeersInv, ~LateBitfields, [Next]_vars
  PROVE  PeersInv'
<1>0. /\ peerCount \in [Pieces -> 0..MaxPeerCount] /\ peerHas \in [Peers -> SUBSET Pieces]
      /\ seeds \in Nat /\ \A i \in Pieces : peerCount[i] \in Nat
  BY CountTypes DEF PieceTypes
<1>1. /\ FullPeers \in SUBSET Peers
      /\ \A i \in Pieces : /\ PeersWith(i) \in SUBSET Peers /\ FullPeers \subseteq PeersWith(i)
                           /\ peerCount[i] + seeds = Cardinality(PeersWith(i))
      /\ seeds <= Cardinality(FullPeers)
      /\ \A p \in Peers : p \notin announced => peerHas[p] = {}
  BY DEF PeersInv, AvailabilityExact, FullPeers, PeersWith
<1>2. 0 \in Pieces
  BY PickerAssumption DEF Pieces
\* one piece more that a peer has
<1>3. ASSUME NEW p \in Peers, NEW i \in Pieces, i \notin peerHas[p]
      PROVE  /\ CountUp(peerCount[i]) = peerCount[i] + 1
             /\ Cardinality(PeersWith(i) \cup {p}) = Cardinality(PeersWith(i)) + 1
  <2>1. p \notin PeersWith(i)
    BY <1>3 DEF PeersWith
  <2>2. peerCount[i] < MaxPeerCount
    <3>1. Cardinality(PeersWith(i)) < MaxPeerCount
      BY <1>1, <2>1, AddPeer
    <3> QED BY <1>0, <1>1, <3>1 DEF MaxPeerCount
  <2> QED BY <1>0, <1>1, <2>1, <2>2, AddPeer, CountTypes
<1>4. ASSUME NEW p \in Peers, NEW i \in Pieces, Have(p, i) PROVE PeersInv'
  <2>1. /\ i \notin peerHas[p] /\ seeds' = seeds /\ announced' = announced \cup {p}
        /\ peerHas' = [peerHas EXCEPT ![p] = @ \cup {i}]
        /\ peerCount' = [peerCount EXCEPT ![i] = CountUp(@)]
    BY <1>4 DEF Have
  <2> DEFINE X == peerHas[p] \cup {i}
  <2>2. X \in SUBSET Pieces /\ peerHas' = [peerHas EXCEPT ![p] = X]
    BY <1>0, <2>1
  <2>3. /\ FullPeers' = IF X = Pieces THEN FullPeers \cup {p} ELSE FullPeers \ {p}
        /\ \A j \in Pieces :
             PeersWith(j)' = IF j \in X THEN PeersWith(j) \cup {p} ELSE PeersWith(j) \ {p}
    BY <1>0, <2>2, OnePeerChanges
  <2>4. p \notin FullPeers
    BY <2>1 DEF FullPeers
  <2>5. FullPeers \subseteq FullPeers' /\ FullPeers' \in SUBSET Peers
    BY <1>1, <2>3, <2>4
  <2>6. Cardinality(FullPeers) <= Cardinality(FullPeers')
    BY <2>5, PeersMonotone
  <2>7. Cardinality(FullPeers) \in Nat /\ Cardinality(FullPeers') \in Nat
    BY <1>1, <2>5, Finite
  <2>8. ASSUME NEW j \in Pieces PROVE peerCount'[j] + seeds' = Cardinality(PeersWith(j)')
    <3>1. CASE j = i
      <4>1. PeersWith(j)' = PeersWith(i) \cup {p} /\ peerCount'[j] = CountUp(peerCount[i])
        BY <1>0, <2>1, <2>3, <3>1
      <4>2. /\ CountUp(peerCount[i]) = peerCount[i] + 1
            /\ Cardinality(PeersWith(i) \cup {p}) = Cardinality(PeersWith(i)) + 1
        BY <1>3, <2>1
      <4>3. peerCount[i] + seeds = Cardinality(PeersWith(i)) /\ peerCount[i] \in Nat
        BY <1>0, <1>1
      <4> QED BY <4>1, <4>2, <4>3, <2>1, <1>0
    <3>2. CASE j # i
      <4>1. peerCount'[j] = peerCount[j]
        BY <1>0, <2>1, <3>2
      <4>2. j \in X <=> p \in PeersWith(j)
        BY <3>2 DEF PeersWith
      <4>3. PeersWith(j)' = PeersWith(j)
        BY <2>3, <4>2
      <4> QED BY <4>1, <4>3, <2>1, <1>1
    <3> QED BY <3>1, <3>2
  <2>9. \A q \in Peers : q \notin announced' => peerHas'[q] = {}
    BY <1>0, <1>1, <2>1
  <2>10. seeds' <= Cardinality(FullPeers')
    BY <1>0, <1>1, <2>1, <2>6, <2>7
  <2> QED BY <2>8, <2>9, <2>10 DEF PeersInv, AvailabilityExact
<1>5. ASSUME NEW p \in Peers, HaveAll(p) PROVE PeersInv'
  <2>1. /\ p \notin announced /\ seeds' = seeds + 1 /\ announced' = announced \cup {p}
        /\ peerHas' = [peerHas EXCEPT ![p] = Pieces] /\ peerCount' = peerCount
    BY <1>5 DEF HaveAll, MayAnnounceAll, IncRefcountAll
  <2>2. peerHas[p] = {}
    BY <1>1, <2>1
  <2>3. FullPeers' = FullPeers \cup {p} /\ \A j \in Pieces : PeersWith(j)' = PeersWith(j) \cup {p}
    BY <1>0, <2>1, OnePeerChanges
  <2>4. p \notin FullPeers /\ \A j \in Pieces : p \notin PeersWith(j)
    BY <1>2, <2>2 DEF FullPeers, PeersWith
  <2>5. Cardinality(FullPeers') = Cardinality(FullPeers) + 1 /\ Cardinality(FullPeers) \in Nat
    BY <1>1, <2>3, <2>4, AddPeer
  <2>6. ASSUME NEW j \in Pieces PROVE peerCount'[j] + seeds' = Cardinality(PeersWith(j)')
    <3>1. Cardinality(PeersWith(j) \cup {p}) = Cardinality(PeersWith(j)) + 1
      BY <1>1, <2>4, AddPeer
    <3>2. PeersWith(j)' = PeersWith(j) \cup {p} /\ peerCount'[j] = peerCount[j]
      BY <2>1, <2>3
    <3>3. peerCount[j] + seeds = Cardinality(PeersWith(j)) /\ peerCount[j] \in Nat
      BY <1>0, <1>1
    <3> QED BY <3>1, <3>2, <3>3, <2>1, <1>0
  <2>7. \A q \in Peers : q \notin announced' => peerHas'[q] = {}
    BY <1>0, <1>1, <2>1
  <2>8. seeds' <= Cardinality(FullPeers')
    BY <1>0, <1>1, <2>1, <2>5
  <2> QED BY <2>6, <2>7, <2>8 DEF PeersInv, AvailabilityExact
<1>6. ASSUME NEW p \in Peers, NEW B \in SUBSET Pieces, Bitfield(p, B) PROVE PeersInv'
  <2>1. /\ p \notin announced /\ B # Pieces /\ seeds' = seeds /\ announced' = announced \cup {p}
        /\ peerHas' = [peerHas EXCEPT ![p] = B]
        /\ peerCount' = [i \in Pieces |-> IF i \in B THEN CountUp(peerCount[i])
                                          ELSE IF i \in peerHas[p] THEN CountDown(peerCount[i])
                                          ELSE peerCount[i]]
    BY <1>6 DEF Bitfield, MayAnnounceAll
  <2>2. peerHas[p] = {}
    BY <1>1, <2>1
  <2>3. /\ FullPeers' = FullPeers \ {p}
        /\ \A j \in Pieces :
             PeersWith(j)' = IF j \in B THEN PeersWith(j) \cup {p} ELSE PeersWith(j) \ {p}
    BY <1>0, <2>1, OnePeerChanges
  <2>4. p \notin FullPeers /\ \A j \in Pieces : p \notin PeersWith(j)
    BY <1>2, <2>2 DEF FullPeers, PeersWith
  <2>5. FullPeers' = FullPeers
    BY <2>3, <2>4
  <2>6. ASSUME NEW j \in Pieces PROVE peerCount'[j] + seeds' = Cardinality(PeersWith(j)')
    <3>1. peerCount[j] + seeds = Cardinality(PeersWith(j)) /\ peerCount[j] \in Nat
      BY <1>0, <1>1
    <3>2. CASE j \in B
      <4>1. PeersWith(j)' = PeersWith(j) \cup {p} /\ peerCount'[j] = CountUp(peerCount[j])
        BY <2>1, <2>3, <3>2
      <4>2. /\ CountUp(peerCount[j]) = peerCount[j] + 1
            /\ Cardinality(PeersWith(j) \cup {p}) = Cardinality(PeersWith(j)) + 1
        BY <1>3, <2>2
      <4> QED BY <3>1, <4>1, <4>2, <2>1, <1>0
    <3>3. CASE j \notin B
      <4>1. PeersWith(j)' = PeersWith(j) /\ peerCount'[j] = peerCount[j]
        BY <2>1, <2>2, <2>3, <2>4, <3>3
      <4> QED BY <3>1, <4>1, <2>1
    <3> QED BY <3>2, <3>3
  <2>7. \A q \in Peers : q \notin announced' => peerHas'[q] = {}
    BY <1>0, <1>1, <2>1
  <2> QED BY <1>1, <2>1, <2>5, <2>6, <2>7 DEF PeersInv, AvailabilityExact
<1>7. ASSUME NEW p \in Peers, Leave(p) PROVE PeersInv'
  <2>1. /\ announced' = announced \ {p} /\ peerHas' = [peerHas EXCEPT ![p] = {}]
        /\ {} # Pieces
    BY <1>2, <1>7 DEF Leave
  <2>2. FullPeers' = FullPeers \ {p} /\ \A j \in Pieces : PeersWith(j)' = PeersWith(j) \ {p}
    <3> DEFINE X == {}
    <3>1. /\ FullPeers' = IF X = Pieces THEN FullPeers \cup {p} ELSE FullPeers \ {p}
          /\ \A j \in Pieces :
               PeersWith(j)' = IF j \in X THEN PeersWith(j) \cup {p} ELSE PeersWith(j) \ {p}
      <4>1. X \in SUBSET Pieces /\ peerHas' = [peerHas EXCEPT ![p] = X]
        BY <2>1
      <4> HIDE DEF X
      <4> QED BY <4>1, <1>0, OnePeerChanges
    <3> QED BY <3>1, <2>1
  <2>3. \A q \in Peers : q \notin announced' => peerHas'[q] = {}
    BY <1>0, <1>1, <2>1
  <2>4. Cardinality(FullPeers) \in Nat
    BY <1>1, Finite
  <2>5. CASE peerHas[p] = Pieces
    <3>1. p \in FullPeers /\ \A j \in Pieces : p \in PeersWith(j)
      BY <2>5 DEF FullPeers, PeersWith
    <3>2. Cardinality(FullPeers') = Cardinality(FullPeers) - 1 /\ Cardinality(FullPeers) > 0
      BY <1>1, <2>2, <3>1, AddPeer
    <3>3. ASSUME NEW j \in Pieces
          PROVE  /\ Cardinality(PeersWith(j)') = Cardinality(PeersWith(j)) - 1
                 /\ Cardinality(PeersWith(j)) > 0
                 /\ peerCount[j] + seeds = Cardinality(PeersWith(j)) /\ peerCount[j] \in Nat
      <4>1. /\ Cardinality(PeersWith(j) \ {p}) = Cardinality(PeersWith(j)) - 1
            /\ Cardinality(PeersWith(j)) > 0
        BY <1>1, <3>1, AddPeer
      <4> QED BY <1>0, <1>1, <2>2, <4>1
    <3>4. DecRefcountAll
      BY <1>7, <2>5 DEF Leave
    <3>5. CASE seeds > 0
      <4>1. seeds' = seeds - 1 /\ peerCount' = peerCount
        BY <3>4, <3>5 DEF DecRefcountAll
      <4>2. ASSUME NEW j \in Pieces PROVE peerCount'[j] + seeds' = Cardinality(PeersWith(j)')
        <5>1. peerCount'[j] = peerCount[j]
          BY <4>1
        <5> QED BY <5>1, <4>1, <3>3, <1>0
      <4>3. seeds' <= Cardinality(FullPeers')
        BY <1>0, <1>1, <2>4, <3>2, <4>1
      <4> QED BY <2>3, <4>2, <4>3 DEF PeersInv, AvailabilityExact
    <3>6. CASE ~(seeds > 0)
      <4>1. /\ seeds = 0 /\ seeds' = 0
            /\ peerCount' = [i \in Pieces |-> CountDown(peerCount[i])]
        BY <1>0, <3>4, <3>6 DEF DecRefcountAll
      <4>2. ASSUME NEW j \in Pieces PROVE peerCount'[j] + seeds' = Cardinality(PeersWith(j)')
        <5>1. peerCount'[j] = CountDown(peerCount[j])
          BY <4>1
        <5>2. peerCount[j] > 0
          BY <4>1, <3>3
        <5>3. CountDown(peerCount[j]) = peerCount[j] - 1
          BY <1>0, <5>2, CountTypes
        <5> QED BY <5>1, <5>3, <4>1, <3>3, <1>0
      <4>3. seeds' <= Cardinality(FullPeers')
        BY <2>4, <3>2, <4>1
      <4> QED BY <2>3, <4>2, <4>3 DEF PeersInv, AvailabilityExact
    <3> QED BY <3>5, <3>6
  <2>6. CASE peerHas[p] # Pieces
    <3>1. /\ seeds' = seeds
          /\ peerCount' = [i \in Pieces |-> IF i \in peerHas[p] THEN CountDown(peerCount[i])
                                            ELSE peerCount[i]]
      BY <1>7, <2>6 DEF Leave
    <3>2. p \notin FullPeers
      BY <2>6 DEF FullPeers
    <3>3. FullPeers' = FullPeers
      BY <2>2, <3>2
    <3>4. ASSUME NEW j \in Pieces PROVE peerCount'[j] + seeds' = Cardinality(PeersWith(j)')
      <4>1. peerCount[j] + seeds = Cardinality(PeersWith(j)) /\ peerCount[j] \in Nat
        BY <1>0, <1>1
      <4>2. CASE j \in peerHas[p]
        <5>1. p \in PeersWith(j) /\ peerCount'[j] = CountDown(peerCount[j])
          BY <3>1, <4>2 DEF PeersWith
        <5>2. Cardinality(PeersWith(j) \ {p}) = Cardinality(PeersWith(j)) - 1
          BY <1>1, <5>1, AddPeer
        <5>3. Cardinality(FullPeers) <= Cardinality(PeersWith(j) \ {p})
          <6>1. FullPeers \in SUBSET (PeersWith(j) \ {p}) /\ PeersWith(j) \ {p} \in SUBSET Peers
            BY <1>1, <3>2
          <6> QED BY <6>1, PeersMonotone
        <5>4. peerCount[j] > 0
          BY <1>0, <1>1, <2>4, <4>1, <5>2, <5>3
        <5>5. CountDown(peerCount[j]) = peerCount[j] - 1
          BY <1>0, <5>4, CountTypes
        <5>6. PeersWith(j)' = PeersWith(j) \ {p}
          BY <2>2
        <5> QED BY <5>1, <5>2, <5>5, <5>6, <4>1, <3>1, <1>0
      <4>3. CASE j \notin peerHas[p]
        <5>1. PeersWith(j)' = PeersWith(j) /\ peerCount'[j] = peerCount[j]
          <6>1. p \notin PeersWith(j)
            BY <4>3 DEF PeersWith
          <6> QED BY <6>1, <2>2, <3>1, <4>3
        <5> QED BY <5>1, <4>1, <3>1
      <4> QED BY <4>2, <4>3
    <3> QED BY <1>1, <2>3, <3>1, <3>3, <3>4 DEF PeersInv, AvailabilityExact
  <2> QED BY <2>5, <2>6
<1>8. CASE Recheck
  <2>1. /\ peerHas' = [p \in Peers |-> {}] /\ peerCount' = [i \in Pieces |-> 0] /\ seeds' = 0
    BY <1>0, <1>1, <1>8, RecheckSeeds DEF Recheck
  <2>2. \A i \in Pieces : PeersWith(i)' = {}
    BY <2>1 DEF PeersWith
  <2>3. Cardinality({}) = 0 /\ Cardinality(FullPeers') \in Nat
    <3>1. FullPeers' \in SUBSET Peers
      BY DEF FullPeers
    <3> QED BY <3>1, FS_EmptySet, Finite
  <2>4. AvailabilityExact'
    BY <2>1, <2>2, <2>3 DEF AvailabilityExact
  <2> QED BY <2>1, <2>3, <2>4 DEF PeersInv
<1>9. ASSUME \/ UpdatePieces
             \/ \E i \in Pieces : WeHave(i)
             \/ \E i \in Pieces : WeDontHave(i)
             \/ \E i \in Pieces, pr \in Priorities : SetPiecePriority(i, pr)
             \/ \E i \in Pieces : RestorePiece(i)
             \/ \E i \in Pieces : \E k \in Blocks(i) : BlockStep(i, k)
             \/ UNCHANGED vars
      PROVE  PeersInv'
  <2>1. UNCHANGED peerVars
    BY <1>9, ZenonT(30) DEF UpdatePieces, WeHave, WeDontHave, SetPiecePriority, RestorePiece, BlockStep,
                MarkAsDownloading, MarkAsWriting, WriteFailed, MarkAsFinished, AbortDownload,
                UnlistedVars, peerVars, vars
  <2> QED BY <2>1, PeersElsewhere
<1> QED BY <1>4, <1>5, <1>6, <1>7, <1>8, <1>9 DEF Next, Announce

-----------------------------------------------------------------------------
(***************************************************************************)
(* The theorems.                                                           *)
(***************************************************************************)

LEMMA PiecesAlways == Spec => []PiecesInv
<1>1. Init => PiecesInv
  BY PieceTypesInit, CountersInit, CursorsInit DEF PiecesInv, Init, BucketsCurrent
<1>2. PiecesInv /\ [Next]_vars => PiecesInv'
  BY PieceTypesStep, CountersStep, CursorsStep, BucketsStep DEF PiecesInv
<1> QED BY <1>1, <1>2, PTL DEF Spec

\* The counters of the pieces we have, of those that are filtered and of those
\* that are both are what the pieces say, after any sequence of we_have,
\* we_dont_have, set_piece_priority and init.
THEOREM CountersAlwaysExact == Spec => []CountersExact
<1>1. PiecesInv => CountersExact
  BY DEF PiecesInv
<1> QED BY <1>1, PiecesAlways, PTL

\* m_cursor and m_reverse_cursor bracket exactly the pieces left to pick,
\* however pieces come and go.
THEOREM CursorsAlwaysExact == Spec => []CursorsExact
<1>1. PiecesInv => CursorsExact
  BY DEF PiecesInv
<1> QED BY <1>1, PiecesAlways, PTL

\* While m_dirty is not set every piece is in the range of its priority, though
\* only some of the calls that change a priority move the piece.
THEOREM BucketsAlwaysCurrent == Spec => []BucketsCurrent
<1>1. PiecesInv => BucketsCurrent
  BY DEF PiecesInv
<1> QED BY <1>1, PiecesAlways, PTL

\* A higher number of the user's never makes a piece later.
THEOREM HigherNumberNeverLater == Spec => []HigherNumberNotLater
<1>1. ASSUME PiecesInv PROVE HigherNumberNotLater
  <2> SUFFICES ASSUME ~dirty, NEW i \in ToPick, NEW j \in ToPick, peerCount[i] > 0,
                      priority[i] > priority[j], peerCount[i] = peerCount[j],
                      i \in downloading <=> j \in downloading
               PROVE  bucket[i] <= bucket[j]
    BY DEF HigherNumberNotLater, NotLater
  <2>1. i \in Pieces /\ j \in Pieces
    BY DEF ToPick, Wanted
  <2>2. bucket[i] = Priority(i) /\ bucket[j] = Priority(j)
    BY <1>1, <2>1 DEF PiecesInv, BucketsCurrent
  <2>3. /\ peerCount[i] \in 0..MaxPeerCount /\ priority[i] \in 0..7 /\ priority[j] \in 0..7
        /\ seeds \in Nat /\ priority[i] # 0 /\ priority[j] # 0
    BY <1>1, <2>1 DEF PiecesInv, PieceTypes, ToPick, Wanted, Filtered
  <2> DEFINE c == peerCount[i]
             h == c \div 2
             a == priority[i]
             b == priority[j]
  <2>4. c \in Nat /\ c > 0 /\ a \in 1..7 /\ b \in 1..7 /\ a > b
    BY <2>3, CountTypes
  <2>5. h \in Nat /\ h <= c - 1
    BY <2>4
  <2>6. c + seeds # 0
    BY <2>3, <2>4
  <2> DEFINE part == i \in downloading
             Rank(n) == IF n = 7 THEN (IF part THEN 0 ELSE 1)
                        ELSE IF part THEN 4 * (IF n >= 4 THEN h ELSE c)
                        ELSE 4 * (IF n >= 4 THEN h ELSE c) + 4 - (IF n >= 4 THEN n - 3 ELSE n)
  <2>7. Priority(i) = Rank(a) /\ Priority(j) = Rank(b)
    BY <2>6 DEF Priority
  <2>8. Rank(a) <= Rank(b)
    <3> HIDE DEF c, h, a, b, part
    <3> QED BY <2>4, <2>5
  <2> QED BY <2>2, <2>7, <2>8
<1> QED BY <1>1, PiecesAlways, PTL

\* peer_count and m_seeds together count the peers that have a piece, whether
\* they announced it one HAVE at a time, in a bitfield or with HAVE_ALL, and
\* whichever of the seeds leaves first; if every peer announces its bitfield
\* once and first.  The run picker_late_bitfield shows that the premise is needed.
THEOREM AvailabilityAlwaysExact ==
  ASSUME ~LateBitfields
  PROVE  Spec => []AvailabilityExact
<1>1. Init => PeersInv
  BY PeersInit
<1>2. PiecesInv /\ PeersInv /\ [Next]_vars => PeersInv'
  BY PeersStep DEF PiecesInv
<1>3. PeersInv => AvailabilityExact
  BY DEF PeersInv
<1> QED BY <1>1, <1>2, <1>3, PiecesAlways, PTL DEF Spec
=============================================================================

-------------------------- MODULE CodedStorageProofs --------------------------
(***************************************************************************)
(* Proofs about CodedStorage, for any number of pieces and any coded chunks *)
(* and markers.  The matrix comes first: what reducing a chunk leaves, and  *)
(* that a whole matrix decodes to every piece.                              *)
(***************************************************************************)
EXTENDS CodedStorage, ProofFacts

-----------------------------------------------------------------------------
(***************************************************************************)
(* The inductive invariant.                                                *)
(***************************************************************************)

Places == Pieces \cup {Bad}

\* Every row that is there begins with its own piece.
RowsOK(m) ==
  /\ m \in [Pieces -> SUBSET Places]
  /\ \A i \in Pieces : m[i] # {} => i \in m[i] /\ \A k \in m[i] : i <= k

\* A whole matrix is wrapped up: every row is its piece, and wrong bytes at
\* most beside it.
WrappedUp(m) ==
  (\A i \in Pieces : m[i] # {}) => \A i \in Pieces : Functional(m[i]) = {i}

MatrixOK == RowsOK(rows) /\ WrappedUp(rows)

\* A waiting entry is under its own marker, and its chunk has been seen: the
\* header that meets waiting data is therefore another sender's.
IncomingOK ==
  /\ incoming \in [Markers -> Entry]
  /\ \A m \in Markers : incoming[m] # NoEntry =>
       Marker[incoming[m].chunk] = m /\ incoming[m].chunk \in seen

SlotTypes ==
  /\ slots \in [Pieces -> {"free", "written", "verified"}]
  /\ phase \in [Pieces -> {"want", "arrived", "written", "error", "passed", "failed", "have"}]
  /\ body \in [Pieces -> Bodies \cup {Nothing}]
  /\ seen \subseteq Coded
  /\ hasher \subseteq Pieces

\* What libtorrent has collected for s, and how the slot and the hash of the
\* bytes go with it.
PieceOK(s) ==
  /\ body[s] \in Coded => body[s] \in seen /\ s # LastPiece
  /\ s \in hasher => phase[s] = "written" /\ (slots[s] = "verified" \/ body[s] \in Regular)
  /\ phase[s] = "written" /\ slots[s] = "written" => s \in hasher
  /\ phase[s] = "failed" /\ slots[s] # "free" => body[s] = "corrupt"

SlotsOK == SlotTypes /\ \A s \in Pieces : PieceOK(s)

StorageInv == MatrixOK /\ IncomingOK /\ SlotsOK /\ Cardinality(InFlight) <= MaxInFlight

-----------------------------------------------------------------------------
(***************************************************************************)
(* Reducing a chunk.                                                       *)
(***************************************************************************)

LEMMA PlaceFacts ==
  /\ N \in Nat /\ N > 1 /\ Places = 0..N /\ Bad \notin Pieces /\ LastPiece \in Pieces
  /\ \A k \in Places : k \in Nat /\ k <= N
  /\ \A i \in Pieces : i \in Nat /\ i < N
BY CodedAssumption DEF Places, Pieces, Bad, LastPiece

LEMMA FinitePieces ==
  ASSUME NEW S \in SUBSET Pieces
  PROVE  IsFiniteSet(S) /\ Cardinality(S) \in Nat
<1>1. IsFiniteSet(Pieces)
  BY PlaceFacts, FS_Interval DEF Pieces
<1> QED BY <1>1, FS_Subset, FS_CardinalityType

\* The first bit of a functional that is not empty.
LEMMA LeadFacts ==
  ASSUME NEW e \in SUBSET Places, Functional(e) # {}
  PROVE  Lead(e) \in Pieces /\ Lead(e) \in e /\ \A k \in e : Lead(e) <= k
<1>1. Functional(e) \in SUBSET Nat /\ Functional(e) \subseteq Pieces
  BY PlaceFacts DEF Functional, Places
<1>2. Min(Functional(e)) \in Functional(e) /\ \A k \in Functional(e) : Min(Functional(e)) <= k
  BY <1>1, MinFacts
<1>3. Lead(e) \in Functional(e) /\ \A k \in Functional(e) : Lead(e) <= k
  BY <1>2 DEF Lead
<1>4. ASSUME NEW k \in e PROVE Lead(e) <= k
  <2>1. CASE k \in Functional(e)
    BY <2>1, <1>3
  <2>2. CASE k = Bad
    BY <2>2, <1>1, <1>3, PlaceFacts DEF Bad
  <2> QED BY <2>1, <2>2 DEF Functional
<1> QED BY <1>1, <1>3, <1>4 DEF Functional

\* Where e begins: at its lead, or past the last piece.
Key(e) == IF Functional(e) = {} THEN N ELSE Lead(e)

LEMMA KeyFacts ==
  ASSUME NEW e \in SUBSET Places
  PROVE  /\ Key(e) \in 0..N /\ (Key(e) = N <=> Functional(e) = {})
         /\ Functional(e) # {} => Key(e) = Lead(e)
BY LeadFacts, PlaceFacts DEF Key

\* The row of the lead takes the lead away and nothing before it is touched.
LEMMA XorRow ==
  ASSUME RowsOK(rows), NEW e \in SUBSET Places, Functional(e) # {}, Lead(e) \in Rows
  PROVE  /\ SymDiff(e, rows[Lead(e)]) \in SUBSET Places
         /\ Key(SymDiff(e, rows[Lead(e)])) > Key(e)
<1> DEFINE i == Lead(e)
           x == SymDiff(e, rows[i])
<1>1. i \in Pieces /\ i \in e /\ \A k \in e : i <= k
  BY LeadFacts
<1>2. rows[i] \in SUBSET Places /\ i \in rows[i] /\ \A k \in rows[i] : i <= k
  BY <1>1 DEF RowsOK, Rows
<1> HIDE DEF i
<1>3. x \in SUBSET Places /\ i \notin x /\ \A k \in x : i <= k
  BY <1>1, <1>2 DEF SymDiff
<1> HIDE DEF x
<1>4. CASE Functional(x) = {}
  <2>1. Key(x) = N
    BY <1>3, <1>4, KeyFacts
  <2>2. Key(e) = i /\ i < N /\ i \in Nat
    BY <1>1, KeyFacts, PlaceFacts DEF i
  <2> QED BY <1>3, <2>1, <2>2, PlaceFacts DEF x, i
<1>5. CASE Functional(x) # {}
  <2>1. Key(x) \in x /\ Key(x) \in Pieces
    BY <1>3, <1>5, KeyFacts, LeadFacts
  <2>2. i <= Key(x) /\ i # Key(x) /\ i \in Nat /\ Key(x) \in Nat
    BY <1>1, <1>3, <2>1, PlaceFacts
  <2>3. Key(e) = i
    BY KeyFacts DEF i
  <2> QED BY <1>3, <2>2, <2>3 DEF x, i
<1> QED BY <1>3, <1>4, <1>5 DEF x, i

\* The recursive function of semiReduce, as the fixed point it stands for.
Reduces(g) ==
  g = [e \in SUBSET Places |-> IF Functional(e) # {} /\ Lead(e) \in Rows
                               THEN g[SymDiff(e, rows[Lead(e)])] ELSE e]

LEMMA ReducedDef ==
  ASSUME NEW d
  PROVE  Reduced(d) = (CHOOSE g : Reduces(g))[d]
BY DEF Reduced, Reduces, Places

\* semiReduce terminates: the function exists.  Every XOR moves the lead on,
\* so a function for the chunks that begin late extends to those that begin
\* one piece earlier.
LEMMA ReducesExists ==
  ASSUME RowsOK(rows)
  PROVE  \E g : Reduces(g)
<1> DEFINE S == SUBSET Places
           Late(n) == {e \in S : Key(e) + n >= N}
           Goes(e) == Functional(e) # {} /\ Lead(e) \in Rows
           Onward(e) == SymDiff(e, rows[Lead(e)])
           Solves(g, n) == /\ g \in [Late(n) -> S]
                           /\ \A e \in Late(n) : g[e] = IF Goes(e) THEN g[Onward(e)] ELSE e
           T == {n \in Nat : \E g : Solves(g, n)}
<1>1. \A e \in S : Key(e) \in 0..N /\ (Key(e) = N <=> Functional(e) = {})
  BY KeyFacts
<1>2. \A e \in S : Goes(e) => Onward(e) \in S /\ Key(Onward(e)) > Key(e)
  BY XorRow
<1> HIDE DEF Goes, Onward
<1>3. 0 \in T
  <2> DEFINE g == [e \in Late(0) |-> e]
  <2>1. \A e \in Late(0) : e \in S /\ ~Goes(e)
    BY <1>1, PlaceFacts DEF Goes
  <2>2. Solves(g, 0)
    BY <2>1
  <2> QED BY <2>2
<1>4. ASSUME NEW n \in Nat, n \in T PROVE n + 1 \in T
  <2>1. PICK g : Solves(g, n)
    BY <1>4
  <2> DEFINE h == [e \in Late(n + 1) |->
                     IF e \in Late(n) THEN g[e] ELSE IF Goes(e) THEN g[Onward(e)] ELSE e]
  <2>2. \A e \in Late(n + 1) : Goes(e) => Onward(e) \in Late(n)
    BY <1>1, <1>2, PlaceFacts
  <2>3. Late(n) \subseteq Late(n + 1)
    BY <1>1, PlaceFacts
  <2>4. \A e \in Late(n) : Goes(e) => Onward(e) \in Late(n)
    BY <2>2, <2>3
  <2> HIDE DEF Late
  <2>5. Late(n + 1) \subseteq S
    BY DEF Late
  <2>6. \A e \in Late(n + 1) : h[e] \in S
    BY <2>1, <2>2, <2>5
  <2>7. \A e \in Late(n + 1) : h[e] = IF Goes(e) THEN h[Onward(e)] ELSE e
    BY <2>1, <2>2, <2>3, <2>4
  <2>8. Solves(h, n + 1)
    BY <2>6, <2>7
  <2> HIDE DEF h, Solves
  <2>9. \E f : Solves(f, n + 1)
    BY <2>8
  <2> QED BY <2>9
<1> HIDE DEF T
<1>5. N \in T
  BY <1>3, <1>4, SetInduction, PlaceFacts
<1>6. PICK g : Solves(g, N)
  BY <1>5 DEF T
<1>7. Late(N) = S
  BY <1>1, PlaceFacts
<1> HIDE DEF Late
<1>8. g = [e \in S |-> IF Goes(e) THEN g[Onward(e)] ELSE e]
  BY <1>6, <1>7
<1> QED BY <1>8 DEF Reduces, Goes, Onward

IsTaintedBy(m) == \E i \in Pieces : Bad \in m[i]

\* What reducing leaves: a chunk whose lead has no row, with wrong bytes only
\* if there were some in it or in a row.
LEMMA ReducedFacts ==
  ASSUME RowsOK(rows), NEW d \in SUBSET Places
  PROVE  /\ Reduced(d) \in SUBSET Places
         /\ Functional(Reduced(d)) # {} => Lead(Reduced(d)) \notin Rows
         /\ Bad \in Reduced(d) => Bad \in d \/ IsTainted
<1> DEFINE S == SUBSET Places
           g == CHOOSE f : Reduces(f)
           Goes(e) == Functional(e) # {} /\ Lead(e) \in Rows
           Onward(e) == SymDiff(e, rows[Lead(e)])
           Fine(e) == /\ g[e] \in S
                      /\ Functional(g[e]) # {} => Lead(g[e]) \notin Rows
                      /\ Bad \in g[e] => Bad \in e \/ IsTainted
           T == {n \in Nat : \A e \in S : Key(e) + n >= N => Fine(e)}
<1>1. Reduces(g)
  BY ReducesExists, Zenon
<1> HIDE DEF g
<1>2. \A e \in S : g[e] = IF Goes(e) THEN g[Onward(e)] ELSE e
  BY <1>1 DEF Reduces
<1>3. \A e \in S : Key(e) \in 0..N /\ (Key(e) = N <=> Functional(e) = {})
  BY KeyFacts
<1>4. \A e \in S : Goes(e) => Onward(e) \in S /\ Key(Onward(e)) > Key(e)
  BY XorRow
<1>5. \A e \in S : Goes(e) /\ Bad \in Onward(e) => Bad \in e \/ IsTainted
  BY DEF SymDiff, IsTainted, Rows
<1>6. \A e \in S : ~Goes(e) => Fine(e)
  BY <1>2
<1>7. \A e \in S : Goes(e) /\ Fine(Onward(e)) => Fine(e)
  BY <1>2, <1>5
<1> HIDE DEF Onward, Fine
<1>8. 0 \in T
  BY <1>3, <1>6, PlaceFacts
<1> HIDE DEF Goes
<1>9. ASSUME NEW n \in Nat, n \in T PROVE n + 1 \in T
  <2> SUFFICES ASSUME NEW e \in S, Key(e) + (n + 1) >= N, Goes(e) PROVE Fine(e)
    BY <1>6
  <2>1. Onward(e) \in S /\ Key(Onward(e)) + n >= N
    BY <1>3, <1>4, PlaceFacts
  <2>2. Fine(Onward(e))
    BY <1>9, <2>1
  <2> QED BY <1>7, <2>2
<1>10. N \in T
  <2> HIDE DEF T
  <2> QED BY <1>8, <1>9, SetInduction, PlaceFacts
<1>11. Fine(d)
  BY <1>3, <1>10, PlaceFacts
<1> QED BY <1>11, ReducedDef DEF Fine, g

-----------------------------------------------------------------------------
(***************************************************************************)
(* Decoding a whole matrix.                                                *)
(***************************************************************************)

LEMMA Parity == \A n \in Nat : (n + 1) % 2 = 1 <=> ~(n % 2 = 1)
OBVIOUS

\* One more row in a combination is one more XOR.
LEMMA CombinationStep ==
  ASSUME NEW m \in [Pieces -> SUBSET Places], NEW R \in SUBSET Pieces, NEW i \in Pieces \ R
  PROVE  Combination(m, R \cup {i}) = SymDiff(Combination(m, R), m[i])
<1> DEFINE A(k) == {j \in R : k \in m[j]}
           B(k) == {j \in R \cup {i} : k \in m[j]}
<1>1. ASSUME NEW k \in Places
      PROVE  Cardinality(B(k)) % 2 = 1 <=>
               IF k \in m[i] THEN ~(Cardinality(A(k)) % 2 = 1) ELSE Cardinality(A(k)) % 2 = 1
  <2>1. IsFiniteSet(A(k)) /\ Cardinality(A(k)) \in Nat
    BY FinitePieces
  <2>2. CASE k \in m[i]
    <3>1. B(k) = A(k) \cup {i} /\ i \notin A(k)
      BY <2>2
    <3>2. Cardinality(B(k)) = Cardinality(A(k)) + 1
      BY <2>1, <3>1, FS_AddElement
    <3> QED BY <2>1, <2>2, <3>2, Parity
  <2>3. CASE k \notin m[i]
    <3>1. B(k) = A(k)
      BY <2>3
    <3> QED BY <2>3, <3>1
  <2> QED BY <2>2, <2>3
<1>2. \A k \in Places : k \in Combination(m, R) <=> Cardinality(A(k)) % 2 = 1
  BY DEF Combination, Places
<1>3. \A k \in Places : k \in Combination(m, R \cup {i}) <=> Cardinality(B(k)) % 2 = 1
  BY DEF Combination, Places
<1>4. /\ Combination(m, R) \subseteq Places
      /\ Combination(m, R \cup {i}) \subseteq Places
      /\ m[i] \subseteq Places
  BY DEF Combination, Places
<1> HIDE DEF A, B
<1>5. \A k \in Places : k \in Combination(m, R \cup {i}) <=>
                          (k \in Combination(m, R) /\ k \notin m[i])
                          \/ (k \in m[i] /\ k \notin Combination(m, R))
  BY <1>1, <1>2, <1>3
<1> QED BY <1>4, <1>5 DEF SymDiff

\* A combination contains nothing that no row contains.
LEMMA CombinationType ==
  ASSUME NEW m, NEW R \in SUBSET Pieces
  PROVE  /\ Combination(m, R) \in SUBSET Places
         /\ \A k \in Combination(m, R) : \E i \in R : k \in m[i]
<1>1. Combination(m, R) \in SUBSET Places
  BY DEF Combination, Places
<1>2. ASSUME NEW k \in Combination(m, R), {i \in R : k \in m[i]} = {} PROVE FALSE
  <2>1. Cardinality({i \in R : k \in m[i]}) = 0
    BY <1>2, FS_EmptySet
  <2>2. Cardinality({i \in R : k \in m[i]}) % 2 = 1
    BY DEF Combination
  <2> QED BY <2>1, <2>2
<1> QED BY <1>1, <1>2

\* The rows of a whole matrix span every set of pieces: the row of the first
\* piece of the set leaves a set that begins later.
LEMMA WholeMatrixSpans ==
  ASSUME NEW m, RowsOK(m), \A i \in Pieces : m[i] # {}, NEW F \in SUBSET Pieces
  PROVE  \E R \in SUBSET Pieces : Functional(Combination(m, R)) = F
<1> DEFINE From(n) == {i \in Pieces : i + n >= N}
           T == {n \in Nat : \A G \in SUBSET From(n) :
                               \E R \in SUBSET From(n) : Functional(Combination(m, R)) = G}
<1>0. \A n : From(n) \subseteq Pieces
  OBVIOUS
<1>1. 0 \in T
  <2>1. From(0) = {}
    BY PlaceFacts
  <2>2. Combination(m, {}) = {}
    BY CombinationType
  <2>3. Functional(Combination(m, {})) = {}
    BY <2>2 DEF Functional
  <2> HIDE DEF From
  <2>4. \A G \in SUBSET From(0) : \E R \in SUBSET From(0) : Functional(Combination(m, R)) = G
    BY <2>1, <2>3
  <2> QED BY <2>4
<1>2. ASSUME NEW n \in Nat, n \in T, NEW G \in SUBSET From(n + 1)
      PROVE  \E R \in SUBSET From(n + 1) : Functional(Combination(m, R)) = G
  <2> DEFINE i == N - (n + 1)
  <2>1. From(n) \subseteq From(n + 1) /\ \A k \in From(n + 1) : k \notin From(n) => k = i
    BY PlaceFacts
  <2>2. i \notin From(n)
    BY PlaceFacts
  <2> HIDE DEF i
  <2>3. CASE G \subseteq From(n)
    BY <1>2, <2>1, <2>3
  <2>4. CASE ~(G \subseteq From(n))
    <3>1. i \in G /\ i \in From(n + 1) /\ i \in Pieces
      BY <2>1, <2>4
    <3>2. m[i] \in SUBSET Places /\ i \in m[i] /\ \A k \in m[i] : i <= k
      BY <3>1 DEF RowsOK
    <3> DEFINE H == SymDiff(G, Functional(m[i]))
    <3>3. H \in SUBSET From(n)
      <4>1. i \notin H
        BY <3>1, <3>2, PlaceFacts DEF SymDiff, Functional
      <4>2. ASSUME NEW k \in Functional(m[i]) PROVE k \in From(n + 1)
        <5>1. k \in Pieces /\ i <= k
          BY <3>2 DEF Functional, Places
        <5> QED BY <5>1, <3>1, PlaceFacts
      <4>3. H \subseteq From(n + 1)
        BY <4>2 DEF SymDiff
      <4> HIDE DEF From
      <4> QED BY <4>1, <4>3, <2>1
    <3> HIDE DEF H
    <3>4. PICK R \in SUBSET From(n) : Functional(Combination(m, R)) = H
      BY <1>2, <3>3
    <3>5. R \cup {i} \in SUBSET From(n + 1) /\ R \in SUBSET Pieces /\ i \notin R
      BY <2>1, <2>2, <3>1, <3>4
    <3>6. Combination(m, R \cup {i}) = SymDiff(Combination(m, R), m[i])
      BY <3>1, <3>5, CombinationStep DEF RowsOK
    <3>7. Functional(Combination(m, R \cup {i})) = SymDiff(H, Functional(m[i]))
      BY <3>4, <3>6 DEF Functional, SymDiff
    <3>8. SymDiff(H, Functional(m[i])) = G
      BY DEF H, SymDiff
    <3> QED BY <3>5, <3>7, <3>8
  <2> QED BY <2>3, <2>4
<1>3. ASSUME NEW n \in Nat, n \in T PROVE n + 1 \in T
  <2> HIDE DEF From
  <2>1. \A G \in SUBSET From(n + 1) : \E R \in SUBSET From(n + 1) : Functional(Combination(m, R)) = G
    <3> HIDE DEF T
    <3> QED BY <1>2, <1>3
  <2>2. n + 1 \in Nat
    OBVIOUS
  <2> QED BY <2>1, <2>2, Zenon
<1>4. N \in T
  <2> HIDE DEF T
  <2> QED BY <1>1, <1>3, SetInduction, PlaceFacts
<1>5. From(N) = Pieces
  BY PlaceFacts
<1> HIDE DEF From
<1> QED BY <1>4, <1>5

\* wrapUp: row i becomes piece i, with wrong bytes only out of the rows.
LEMMA DecodedFacts ==
  ASSUME NEW m, RowsOK(m), \A i \in Pieces : m[i] # {}
  PROVE  /\ RowsOK(Decoded(m))
         /\ \A i \in Pieces : Decoded(m)[i] # {} /\ Functional(Decoded(m)[i]) = {i}
         /\ IsTaintedBy(Decoded(m)) => IsTaintedBy(m)
<1> DEFINE span == {Combination(m, R) : R \in SUBSET Pieces}
           D    == Decoded(m)
<1>1. D = [i \in Pieces |-> CHOOSE d \in span : Functional(d) = {i}]
  BY DEF Decoded
<1>2. ASSUME NEW i \in Pieces PROVE D[i] \in span /\ Functional(D[i]) = {i}
  <2>1. PICK R \in SUBSET Pieces : Functional(Combination(m, R)) = {i}
    BY WholeMatrixSpans
  <2>2. \E d \in span : Functional(d) = {i}
    BY <2>1
  <2> HIDE DEF span, D
  <2>3. D[i] = CHOOSE d \in span : Functional(d) = {i}
    BY <1>1
  <2> QED BY <2>2, <2>3, Zenon
<1>3. \A d \in span : d \in SUBSET Places /\ (Bad \in d => IsTaintedBy(m))
  BY CombinationType DEF IsTaintedBy
<1> HIDE DEF span
<1>4. ASSUME NEW i \in Pieces
      PROVE  /\ D[i] \in SUBSET Places /\ i \in D[i] /\ \A k \in D[i] : i <= k
             /\ Bad \in D[i] => IsTaintedBy(m)
  <2>1. D[i] \in SUBSET Places /\ Functional(D[i]) = {i} /\ (Bad \in D[i] => IsTaintedBy(m))
    BY <1>2, <1>3
  <2>2. \A k \in D[i] : k = i \/ k = Bad
    BY <2>1 DEF Functional
  <2>3. i \in D[i]
    BY <2>1 DEF Functional
  <2> QED BY <2>1, <2>2, <2>3, PlaceFacts DEF Bad
<1>5. D \in [Pieces -> SUBSET Places]
  BY <1>1, <1>4
<1> HIDE DEF D
<1>6. RowsOK(D) /\ \A i \in Pieces : D[i] # {} /\ Functional(D[i]) = {i}
  BY <1>2, <1>4, <1>5 DEF RowsOK
<1>7. IsTaintedBy(D) => IsTaintedBy(m)
  BY <1>4 DEF IsTaintedBy
<1> QED BY <1>6, <1>7 DEF D

-----------------------------------------------------------------------------
(***************************************************************************)
(* putChunk.                                                               *)
(***************************************************************************)

RowsOf(m) == {i \in Pieces : m[i] # {}}

\* putChunk leaves the rows as they are or gains a row, decodes the matrix
\* when the row was the last, and brings in no wrong bytes of its own.
LEMMA PutFacts ==
  ASSUME MatrixOK, NEW d \in SUBSET Places
  PROVE  /\ RowsOK(Put(d))
         /\ WrappedUp(Put(d))
         /\ Put(d) # rows => Cardinality(RowsOf(Put(d))) > Cardinality(Rows)
         /\ IsTaintedBy(Put(d)) => Bad \in d \/ IsTainted
<1> DEFINE e == Reduced(d)
           m == [rows EXCEPT ![Lead(e)] = e]
<1>1. RowsOK(rows) /\ rows \in [Pieces -> SUBSET Places]
  BY DEF MatrixOK, RowsOK
<1>2. /\ e \in SUBSET Places /\ (Functional(e) # {} => Lead(e) \notin Rows)
      /\ Bad \in e => Bad \in d \/ IsTainted
  BY <1>1, ReducedFacts
<1>3. Put(d) = IF Functional(e) = {} THEN rows
               ELSE IF \A i \in Pieces : m[i] # {} THEN Decoded(m) ELSE m
  BY DEF Put
<1> HIDE DEF e
<1>4. CASE Functional(e) = {}
  <2>1. Put(d) = rows
    BY <1>3, <1>4
  <2> QED BY <1>1, <2>1 DEF MatrixOK, IsTainted, IsTaintedBy
<1>5. CASE Functional(e) # {}
  <2>1. Lead(e) \in Pieces /\ Lead(e) \in e /\ (\A k \in e : Lead(e) <= k) /\ Lead(e) \notin Rows
    BY <1>2, <1>5, LeadFacts
  <2>2. /\ m \in [Pieces -> SUBSET Places] /\ m[Lead(e)] = e
        /\ \A i \in Pieces : i # Lead(e) => m[i] = rows[i]
    BY <1>1, <1>2, <2>1
  <2> HIDE DEF m
  <2>3. RowsOK(m)
    BY <1>1, <2>1, <2>2 DEF RowsOK
  <2>4. RowsOf(m) = Rows \cup {Lead(e)}
    BY <2>1, <2>2 DEF RowsOf, Rows
  <2>5. Cardinality(RowsOf(m)) > Cardinality(Rows)
    <3>1. Rows \in SUBSET Pieces
      BY DEF Rows
    <3>2. IsFiniteSet(Rows) /\ Cardinality(Rows) \in Nat
      BY <3>1, FinitePieces
    <3>3. Cardinality(Rows \cup {Lead(e)}) = Cardinality(Rows) + 1
      BY <2>1, <3>2, FS_AddElement
    <3> QED BY <2>4, <3>2, <3>3
  <2>6. IsTaintedBy(m) => Bad \in d \/ IsTainted
    BY <1>2, <2>1, <2>2 DEF IsTaintedBy, IsTainted
  <2>7. CASE \A i \in Pieces : m[i] # {}
    <3>1. Put(d) = Decoded(m)
      BY <1>3, <1>5, <2>7
    <3>2. /\ RowsOK(Decoded(m)) /\ (IsTaintedBy(Decoded(m)) => IsTaintedBy(m))
          /\ \A i \in Pieces : Decoded(m)[i] # {} /\ Functional(Decoded(m)[i]) = {i}
      BY <2>3, <2>7, DecodedFacts
    <3>3. RowsOf(Decoded(m)) = RowsOf(m)
      BY <2>7, <3>2 DEF RowsOf
    <3> QED BY <2>5, <2>6, <3>1, <3>2, <3>3 DEF WrappedUp
  <2>8. CASE ~ \A i \in Pieces : m[i] # {}
    <3>1. Put(d) = m
      BY <1>3, <1>5, <2>8
    <3> QED BY <2>3, <2>5, <2>6, <2>8, <3>1 DEF WrappedUp
  <2> QED BY <2>7, <2>8
<1> QED BY <1>4, <1>5

-----------------------------------------------------------------------------
(***************************************************************************)
(* The pieces that libtorrent collects.                                    *)
(***************************************************************************)

LEMMA SeparateBodies ==
  /\ Nothing \notin Coded /\ Regular \cap Coded = {} /\ "parts" \notin Coded
  /\ \A c \in Coded : Marker[c] \in Markers /\ Func[c] \in SUBSET Pieces
BY CodedAssumption DEF Regular, Nothing, Markers

\* What a step at piece s leaves alone.
OthersKept(s) ==
  /\ \A t \in Pieces : t # s => /\ slots'[t] = slots[t] /\ phase'[t] = phase[t]
                                /\ body'[t] = body[t] /\ (t \in hasher' <=> t \in hasher)
  /\ seen \subseteq seen'

PieceStep(s) == SlotTypes' /\ PieceOK(s)' /\ OthersKept(s)

LEMMA PieceStepSlots ==
  ASSUME SlotsOK, NEW s \in Pieces, PieceStep(s)
  PROVE  SlotsOK'
<1>1. ASSUME NEW t \in Pieces PROVE PieceOK(t)'
  <2>1. CASE t = s
    BY <2>1 DEF PieceStep
  <2>2. CASE t # s
    BY <2>2 DEF PieceStep, OthersKept, SlotsOK, PieceOK
  <2> QED BY <2>1, <2>2
<1> QED BY <1>1 DEF SlotsOK, PieceStep

LEMMA ArriveStep ==
  ASSUME SlotsOK, NEW s \in Pieces, NEW b \in Bodies, Arrive(s, b)
  PROVE  PieceStep(s)
<1>1. SlotTypes'
  BY DEF SlotsOK, SlotTypes, Arrive
<1>2. OthersKept(s)
  BY DEF OthersKept, SlotsOK, SlotTypes, Arrive
<1>3. phase'[s] = "arrived" /\ body'[s] = b /\ (s = LastPiece => b \notin Coded)
      /\ hasher' = hasher /\ phase[s] = "want" /\ seen' = seen \cup ({b} \cap Coded)
  BY DEF Arrive, SlotsOK, SlotTypes
<1>4. PieceOK(s)'
  BY <1>3 DEF PieceOK, SlotsOK
<1> QED BY <1>1, <1>2, <1>4 DEF PieceStep

\* write: only a regular piece leaves its slot "written".
LEMMA WrittenStep ==
  ASSUME SlotsOK, NEW s \in Pieces, NEW state \in {"free", "written", "verified"}, NEW m,
         phase[s] = "arrived", state = "written" => body[s] \in Regular, Written(s, state, m)
  PROVE  PieceStep(s)
<1>1. SlotTypes'
  BY DEF SlotsOK, SlotTypes, Written
<1>2. OthersKept(s)
  BY DEF OthersKept, SlotsOK, SlotTypes, Written
<1>3. /\ phase'[s] = "written" /\ body'[s] = body[s] /\ seen' = seen
      /\ slots'[s] = IF IsRefused(m) THEN "free" ELSE state
      /\ hasher' = IF state = "free" \/ IsRefused(m) THEN hasher ELSE hasher \cup {s}
  BY DEF Written, SlotsOK, SlotTypes
<1>4. PieceOK(s) /\ s \notin hasher
  BY DEF SlotsOK, PieceOK
<1>5. PieceOK(s)'
  BY <1>3, <1>4 DEF PieceOK
<1> QED BY <1>1, <1>2, <1>5 DEF PieceStep

LEMMA WriteStep ==
  ASSUME SlotsOK, NEW s \in Pieces, Write(s)
  PROVE  PieceStep(s) /\ phase[s] = "arrived"
<1>1. CASE WriteParts(s)
  <2>1. SlotTypes' /\ OthersKept(s)
    BY <1>1 DEF OthersKept, SlotsOK, SlotTypes, WriteParts
  <2>2. phase'[s] = "written" /\ slots'[s] = "free" /\ UNCHANGED <<body, hasher, seen>>
        /\ phase[s] = "arrived"
    BY <1>1 DEF WriteParts, SlotsOK, SlotTypes
  <2>3. PieceOK(s)'
    BY <2>2 DEF PieceOK, SlotsOK
  <2> QED BY <2>1, <2>2, <2>3 DEF PieceStep
<1>2. CASE WriteWhenDone(s)
  BY <1>2, WrittenStep DEF WriteWhenDone
<1>3. CASE WriteRegular(s)
  BY <1>3, WrittenStep DEF WriteRegular
<1>4. CASE WriteUseless(s)
  BY <1>4, WrittenStep DEF WriteUseless
<1>5. CASE WriteWithHeader(s)
  <2> DEFINE m     == Insert(incoming[Marker[body[s]]], body[s])
             state == IF m = rows THEN "free" ELSE "verified"
  <2>1. phase[s] = "arrived" /\ Written(s, state, m)
    BY <1>5 DEF WriteWithHeader, LooksUp
  <2>2. state \in {"free", "written", "verified"} /\ state # "written"
    OBVIOUS
  <2> HIDE DEF m, state
  <2> QED BY <2>1, <2>2, WrittenStep
<1>6. CASE WriteAndWait(s)
  BY <1>6, WrittenStep DEF WriteAndWait, LooksUp
<1>7. CASE WriteTwice(s)
  <2>1. SlotTypes' /\ OthersKept(s)
    BY <1>7 DEF OthersKept, SlotsOK, SlotTypes, WriteTwice
  <2>2. phase'[s] = "error" /\ UNCHANGED <<slots, body, hasher, seen>> /\ phase[s] = "arrived"
    BY <1>7 DEF WriteTwice, LooksUp, SlotsOK, SlotTypes
  <2>3. PieceOK(s)'
    BY <2>2 DEF PieceOK, SlotsOK
  <2> QED BY <2>1, <2>2, <2>3 DEF PieceStep
<1> QED BY <1>1, <1>2, <1>3, <1>4, <1>5, <1>6, <1>7 DEF Write

\* A piece fails with a slot that is not free only when the bytes that write
\* took were wrong.
LEMMA HashStep ==
  ASSUME SlotsOK, NEW s \in Pieces, Hash(s)
  PROVE  PieceStep(s) /\ phase[s] = "written"
<1>1. SlotTypes' /\ OthersKept(s)
  BY DEF OthersKept, SlotsOK, SlotTypes, Hash
<1>2. /\ phase'[s] = (IF Passes(s) THEN "passed" ELSE "failed") /\ phase[s] = "written"
      /\ UNCHANGED <<slots, body, seen>> /\ s \notin hasher'
  BY DEF Hash, SlotsOK, SlotTypes
<1>3. PieceOK(s)'
  BY <1>2 DEF PieceOK, SlotsOK, SlotTypes, Passes, Regular
<1> QED BY <1>1, <1>2, <1>3 DEF PieceStep

LEMMA FinishedStep ==
  ASSUME SlotsOK, NEW s \in Pieces, PieceFinished(s)
  PROVE  PieceStep(s) /\ phase[s] \in {"passed", "failed", "error"}
<1>1. /\ phase[s] \in {"passed", "failed", "error"}
      /\ \E p \in {"want", "have"} : phase' = [phase EXCEPT ![s] = p]
      /\ body' = [body EXCEPT ![s] = Nothing]
      /\ UNCHANGED <<slots, hasher, seen>>
  BY DEF PieceFinished, PiecePassed, PieceExcused, PieceBlamed, PieceLost, Restore
<1>2. SlotTypes' /\ OthersKept(s)
  BY <1>1 DEF OthersKept, SlotsOK, SlotTypes
<1>3. phase'[s] \in {"want", "have"} /\ body'[s] = Nothing
  BY <1>1 DEF SlotsOK, SlotTypes
<1>4. PieceOK(s)'
  BY <1>1, <1>3, SeparateBodies DEF PieceOK, SlotsOK
<1> QED BY <1>1, <1>2, <1>4 DEF PieceStep

-----------------------------------------------------------------------------
(***************************************************************************)
(* The headers and the data that wait.                                     *)
(***************************************************************************)

LEMMA EntryFacts ==
  ASSUME IncomingOK, NEW m \in Markers
  PROVE  /\ incoming[m].kind \in {"nothing", "header", "data"}
         /\ incoming[m].kind = "nothing" <=> incoming[m] = NoEntry
         /\ incoming[m] # NoEntry => /\ incoming[m].chunk \in Coded \cap seen
                                     /\ Marker[incoming[m].chunk] = m
<1>1. incoming[m] \in Entry
  BY DEF IncomingOK
<1>2. CASE incoming[m] = NoEntry
  BY <1>2 DEF NoEntry
<1>3. CASE \E c \in Coded : incoming[m] = Header(c)
  <2>1. PICK c \in Coded : incoming[m] = Header(c)
    BY <1>3
  <2>2. incoming[m].kind = "header" /\ incoming[m].chunk = c /\ incoming[m] # NoEntry
    BY <2>1 DEF Header, NoEntry
  <2> QED BY <2>2 DEF IncomingOK
<1>4. CASE \E c \in Coded, s \in Pieces : incoming[m] = Data(c, s)
  <2>1. PICK c \in Coded, s \in Pieces : incoming[m] = Data(c, s)
    BY <1>4
  <2>2. incoming[m].kind = "data" /\ incoming[m].chunk = c /\ incoming[m] # NoEntry
    BY <2>1 DEF Data, NoEntry
  <2> QED BY <2>2 DEF IncomingOK
<1> QED BY <1>1, <1>2, <1>3, <1>4 DEF Entry

\* A header comes before any data of its chunk: data that waits under its
\* marker is another sender's, which it does not fit.  receiveChunk never
\* changes the matrix or a slot.
LEMMA HeaderFitsNothing ==
  ASSUME IncomingOK, NEW c \in Coded, ReceiveHeader(c)
  PROVE  UNCHANGED <<rows, slots>>
<1> DEFINE entry == incoming[Marker[c]]
<1>1. Marker[c] \in Markers
  BY SeparateBodies
<1>2. ~(entry # NoEntry /\ Func[entry.chunk] = Func[c])
  <2> SUFFICES ASSUME entry # NoEntry, Func[entry.chunk] = Func[c] PROVE FALSE
    OBVIOUS
  <2>1. entry.chunk \in Coded \cap seen /\ Marker[entry.chunk] = Marker[c]
    BY <1>1, EntryFacts
  <2>2. entry.chunk \in SentAs(c) \cap seen
    BY <2>1 DEF SentAs
  <2> QED BY <2>2 DEF ReceiveHeader
<1> QED BY <1>2 DEF ReceiveHeader

\* What a step does to the entry of a marker.
LEMMA EntryStep ==
  ASSUME IncomingOK, NEW m \in Markers, NEW x \in Entry,
         incoming' = [incoming EXCEPT ![m] = x], seen \subseteq seen',
         x = NoEntry \/ (Marker[x.chunk] = m /\ x.chunk \in seen')
  PROVE  IncomingOK'
<1>1. incoming' \in [Markers -> Entry] /\ incoming'[m] = x
      /\ \A n \in Markers : n # m => incoming'[n] = incoming[n]
  BY DEF IncomingOK
<1> QED BY <1>1 DEF IncomingOK

LEMMA EntryTypes ==
  /\ NoEntry \in Entry
  /\ \A c \in Coded : /\ Header(c) \in Entry /\ Header(c).chunk = c
                      /\ \A s \in Pieces : /\ s # LastPiece => Data(c, s) \in Entry
                                           /\ Data(c, s).chunk = c
<1>1. NoEntry \in Entry
  BY DEF Entry
<1>2. ASSUME NEW c \in Coded PROVE Header(c) \in Entry /\ Header(c).chunk = c
  <2>1. Header(c) \in {Header(d) : d \in Coded}
    OBVIOUS
  <2> QED BY <2>1 DEF Entry, Header
<1>3. ASSUME NEW c \in Coded, NEW s \in Pieces, s # LastPiece PROVE Data(c, s) \in Entry
  BY <1>3 DEF Entry
<1>4. ASSUME NEW c \in Coded, NEW s \in Pieces PROVE Data(c, s).chunk = c
  BY DEF Data
<1> QED BY <1>1, <1>2, <1>3, <1>4

LEMMA IncomingUnchanged ==
  ASSUME IncomingOK, UNCHANGED incoming, seen \subseteq seen'
  PROVE  IncomingOK'
BY DEF IncomingOK

LEMMA IncomingStep ==
  ASSUME IncomingOK, SlotsOK, [Next]_vars
  PROVE  IncomingOK'
<1>1. ASSUME NEW s \in Pieces, Write(s) PROVE IncomingOK'
  <2>1. seen \subseteq seen'
    BY <1>1, WriteStep DEF PieceStep, OthersKept
  <2>2. CASE UNCHANGED incoming
    BY <2>1, <2>2, IncomingUnchanged
  <2>3. CASE WriteWithHeader(s)
    <3>1. incoming' = [incoming EXCEPT ![Marker[body[s]]] = NoEntry] /\ Marker[body[s]] \in Markers
      BY <2>3, SeparateBodies DEF WriteWithHeader, LooksUp
    <3> QED BY <2>1, <3>1, EntryTypes, EntryStep
  <2>4. CASE WriteAndWait(s)
    <3> DEFINE c == body[s]
    <3>1. /\ incoming' = [incoming EXCEPT ![Marker[c]] = Data(c, s)]
          /\ c \in Coded /\ Marker[c] \in Markers
      BY <2>4, SeparateBodies DEF WriteAndWait, LooksUp
    <3>2. c \in seen /\ s # LastPiece
      BY <3>1 DEF SlotsOK, PieceOK
    <3>3. Data(c, s) \in Entry /\ Data(c, s).chunk = c
      BY <3>1, <3>2, EntryTypes
    <3> HIDE DEF c
    <3> QED BY <2>1, <3>1, <3>2, <3>3, EntryStep
  <2> QED BY <1>1, <2>2, <2>3, <2>4
          DEF Write, WriteParts, WriteWhenDone, WriteRegular, WriteUseless, WriteTwice
<1>2. ASSUME NEW c \in Coded, ReceiveHeader(c) PROVE IncomingOK'
  <2>1. Marker[c] \in Markers /\ c \in seen' /\ seen \subseteq seen'
    BY <1>2, SeparateBodies DEF ReceiveHeader
  <2>2. \/ UNCHANGED incoming
        \/ incoming' = [incoming EXCEPT ![Marker[c]] = Header(c)]
        \/ incoming' = [incoming EXCEPT ![Marker[c]] = NoEntry]
    BY <1>2 DEF ReceiveHeader
  <2>3. Header(c) \in Entry /\ Header(c).chunk = c /\ NoEntry \in Entry
    BY EntryTypes
  <2>4. CASE incoming' = [incoming EXCEPT ![Marker[c]] = Header(c)]
    BY <2>1, <2>3, <2>4, EntryStep
  <2>5. CASE incoming' = [incoming EXCEPT ![Marker[c]] = NoEntry]
    BY <2>1, <2>3, <2>5, EntryStep
  <2> QED BY <2>1, <2>2, <2>4, <2>5, IncomingUnchanged
<1>3. ASSUME NEW m \in Markers, Purge(m) PROVE IncomingOK'
  BY <1>3, EntryTypes, EntryStep DEF Purge
<1>4. ASSUME NEW had, NEW verified, Restart(had, verified) PROVE IncomingOK'
  BY <1>4, EntryTypes DEF Restart, IncomingOK
<1>5. ASSUME UNCHANGED incoming, seen \subseteq seen' PROVE IncomingOK'
  BY <1>5, IncomingUnchanged
<1>6. ASSUME NEW s \in Pieces, (\E b \in Bodies : Arrive(s, b)) \/ Hash(s) \/ PieceFinished(s)
      PROVE  IncomingOK'
  BY <1>5, <1>6 DEF Arrive, Hash, PieceFinished, PiecePassed, PieceExcused, PieceBlamed,
                    PieceLost, Restore
<1> QED BY <1>1, <1>2, <1>3, <1>4, <1>5, <1>6 DEF Next, Resume, FullCheck, vars

-----------------------------------------------------------------------------
(***************************************************************************)
(* The matrix.                                                             *)
(***************************************************************************)

\* insertChunk puts the data of a chunk that met the header of its sender, or
\* nothing; wrong bytes are then the sender's, or those of a mixed block.
LEMMA InsertFacts ==
  ASSUME MatrixOK, NEW h, NEW c \in Coded, h.chunk \in Coded, Marker[h.chunk] = Marker[c]
  PROVE  /\ RowsOK(Insert(h, c)) /\ WrappedUp(Insert(h, c))
         /\ Insert(h, c) # rows => Cardinality(RowsOf(Insert(h, c))) > Cardinality(Rows)
         /\ IsTaintedBy(Insert(h, c)) =>
              IsTainted \/ (h.chunk \in SentAs(c) /\ {h.chunk, c} \cap Wrong # {})
<1> DEFINE d == Restored(h, c)
<1>1. d \in SUBSET Places /\ (Bad \in d => {h.chunk, c} \cap Wrong # {})
  BY SeparateBodies, PlaceFacts DEF Places, Restored
<1>2. CASE Func[h.chunk] = Func[c]
  <2>1. Insert(h, c) = Put(d) /\ h.chunk \in SentAs(c)
    BY <1>2 DEF Insert, SentAs
  <2> HIDE DEF d
  <2> QED BY <1>1, <2>1, PutFacts
<1>3. CASE Func[h.chunk] # Func[c]
  <2>1. Insert(h, c) = rows
    BY <1>3 DEF Insert
  <2> QED BY <2>1 DEF MatrixOK, IsTainted, IsTaintedBy
<1> QED BY <1>2, <1>3

\* What write finds under the marker of its data is a header of that marker.
LEMMA HeaderFacts ==
  ASSUME IncomingOK, NEW s \in Pieces, WriteWithHeader(s)
  PROVE  /\ body[s] \in Coded
         /\ incoming[Marker[body[s]]].chunk \in Coded
         /\ Marker[incoming[Marker[body[s]]].chunk] = Marker[body[s]]
<1>1. body[s] \in Coded /\ incoming[Marker[body[s]]].kind = "header"
  BY DEF WriteWithHeader, LooksUp
<1>2. Marker[body[s]] \in Markers
  BY <1>1, SeparateBodies
<1>3. incoming[Marker[body[s]]] # NoEntry
  BY <1>1, <1>2, EntryFacts
<1> QED BY <1>1, <1>2, <1>3, EntryFacts

LEMMA RowsCases ==
  ASSUME IncomingOK, [Next]_vars
  PROVE  \/ UNCHANGED rows
         \/ \E s \in Pieces : WriteRegular(s) \/ WriteWithHeader(s)
<1>1. ASSUME NEW c \in Coded, ReceiveHeader(c) PROVE UNCHANGED rows
  BY <1>1, HeaderFitsNothing
<1>2. ASSUME NEW s \in Pieces, Write(s), ~WriteRegular(s), ~WriteWithHeader(s)
      PROVE  UNCHANGED rows
  BY <1>2 DEF Write, WriteParts, WriteWhenDone, WriteUseless, WriteAndWait, WriteTwice, Written
<1>3. ASSUME NEW s \in Pieces, (\E b \in Bodies : Arrive(s, b)) \/ Hash(s) \/ PieceFinished(s)
      PROVE  UNCHANGED rows
  BY <1>3 DEF Arrive, Hash, PieceFinished, PiecePassed, PieceExcused, PieceBlamed, PieceLost, Restore
<1>4. ASSUME NEW m \in Markers, Purge(m) PROVE UNCHANGED rows
  BY <1>4 DEF Purge
<1> QED BY <1>1, <1>2, <1>3, <1>4 DEF Next, Resume, FullCheck, Restart, vars

\* How a step may bring wrong bytes into a sound matrix.
Received(s) ==
  \/ WriteRegular(s) /\ body[s] = "corrupt"
  \/ /\ WriteWithHeader(s)
     /\ LET h == incoming[Marker[body[s]]].chunk
        IN h \in SentAs(body[s]) /\ {h, body[s]} \cap Wrong # {}

LEMMA MatrixStep ==
  ASSUME MatrixOK, IncomingOK, [Next]_vars
  PROVE  /\ MatrixOK'
         /\ ~IsTainted /\ IsTainted' => \E s \in Pieces : Received(s)
<1>1. CASE UNCHANGED rows
  BY <1>1 DEF MatrixOK, IsTainted
<1>2. ASSUME NEW s \in Pieces, WriteRegular(s)
      PROVE  MatrixOK' /\ (IsTainted' => IsTainted \/ body[s] = "corrupt")
  <2> DEFINE d == IF body[s] = "right" THEN {s} ELSE {s, Bad}
  <2>1. rows' = Put(d) /\ d \in SUBSET Places
    BY <1>2 DEF WriteRegular, Written, Places
  <2>2. Bad \in d => body[s] = "corrupt"
    BY <1>2, PlaceFacts DEF WriteRegular, Regular
  <2> HIDE DEF d
  <2> QED BY <2>1, <2>2, PutFacts DEF MatrixOK, IsTainted, IsTaintedBy
<1>3. ASSUME NEW s \in Pieces, WriteWithHeader(s)
      PROVE  MatrixOK' /\ (IsTainted' => IsTainted \/ Received(s))
  <2> DEFINE h == incoming[Marker[body[s]]]
             m == Insert(h, body[s])
  <2>1. rows' = m
    BY <1>3 DEF WriteWithHeader, Written
  <2>2. body[s] \in Coded /\ h.chunk \in Coded /\ Marker[h.chunk] = Marker[body[s]]
    BY <1>3, HeaderFacts
  <2> HIDE DEF h
  <2>3. /\ RowsOK(m) /\ WrappedUp(m)
        /\ IsTaintedBy(m) =>
             IsTainted \/ (h.chunk \in SentAs(body[s]) /\ {h.chunk, body[s]} \cap Wrong # {})
    BY <2>2, InsertFacts
  <2> HIDE DEF m
  <2> QED BY <1>3, <2>1, <2>3 DEF MatrixOK, IsTainted, IsTaintedBy, Received, h
<1> QED BY <1>1, <1>2, <1>3, RowsCases DEF Received

-----------------------------------------------------------------------------
(***************************************************************************)
(* The invariant.                                                          *)
(***************************************************************************)

\* Every step is one of a piece, one of a header or a clock, or a restart.
LEMMA StepCases ==
  ASSUME SlotsOK, IncomingOK, [Next]_vars
  PROVE  \/ \E s \in Pieces, b \in Bodies : Arrive(s, b) /\ PieceStep(s)
         \/ \E s \in Pieces : /\ Write(s) \/ Hash(s) \/ PieceFinished(s)
                              /\ PieceStep(s) /\ phase[s] \notin {"want", "have"}
         \/ /\ UNCHANGED <<slots, phase, body, hasher>>
            /\ seen \subseteq seen' /\ seen' \subseteq Coded
         \/ \E had, verified : Restart(had, verified)
<1>1. ASSUME NEW c \in Coded, ReceiveHeader(c)
      PROVE  UNCHANGED <<slots, phase, body, hasher>> /\ seen \subseteq seen' /\ seen' \subseteq Coded
  BY <1>1, HeaderFitsNothing DEF ReceiveHeader, SlotsOK, SlotTypes
<1>2. ASSUME NEW s \in Pieces, NEW b \in Bodies, Arrive(s, b) PROVE PieceStep(s)
  BY <1>2, ArriveStep
<1>3. ASSUME NEW s \in Pieces, Write(s) \/ Hash(s) \/ PieceFinished(s)
      PROVE  PieceStep(s) /\ phase[s] \notin {"want", "have"}
  BY <1>3, WriteStep, HashStep, FinishedStep
<1>4. ASSUME (\E m \in Markers : Purge(m)) \/ UNCHANGED vars
      PROVE  UNCHANGED <<slots, phase, body, hasher>> /\ seen \subseteq seen' /\ seen' \subseteq Coded
  BY <1>4 DEF Purge, vars, SlotsOK, SlotTypes
<1> QED BY <1>1, <1>2, <1>3, <1>4 DEF Next, Resume, FullCheck

LEMMA SlotsStep ==
  ASSUME SlotsOK, IncomingOK, [Next]_vars
  PROVE  SlotsOK'
<1>1. ASSUME UNCHANGED <<slots, phase, body, hasher>>, seen \subseteq seen', seen' \subseteq Coded
      PROVE  SlotsOK'
  BY <1>1 DEF SlotsOK, SlotTypes, PieceOK
<1>2. ASSUME NEW had, NEW verified, Restart(had, verified) PROVE SlotsOK'
  <2>1. SlotTypes'
    BY <1>2 DEF Restart, SlotsOK, SlotTypes
  <2>2. ASSUME NEW s \in Pieces PROVE PieceOK(s)'
    <3>1. body'[s] = Nothing /\ hasher' = {} /\ phase'[s] \in {"want", "have"}
      BY <1>2 DEF Restart
    <3> QED BY <3>1, SeparateBodies DEF PieceOK
  <2> QED BY <2>1, <2>2 DEF SlotsOK
<1> QED BY <1>1, <1>2, StepCases, PieceStepSlots

\* Only Arrive takes a piece in, and it looks at the bound first.
LEMMA InFlightStep ==
  ASSUME SlotsOK, IncomingOK, Cardinality(InFlight) <= MaxInFlight, [Next]_vars
  PROVE  Cardinality(InFlight') <= MaxInFlight
<1>1. /\ InFlight \in SUBSET Pieces /\ MaxInFlight \in Nat
      /\ IsFiniteSet(InFlight) /\ Cardinality(InFlight) \in Nat
  <2>1. InFlight \in SUBSET Pieces
    BY DEF InFlight
  <2> QED BY <2>1, FinitePieces, CodedAssumption
<1>2. ASSUME NEW s \in Pieces, PieceStep(s), phase[s] \notin {"want", "have"}
      PROVE  InFlight' \subseteq InFlight
  BY <1>2 DEF PieceStep, OthersKept, InFlight
<1>3. ASSUME NEW s \in Pieces, NEW b \in Bodies, Arrive(s, b), PieceStep(s)
      PROVE  Cardinality(InFlight') <= MaxInFlight
  <2>1. InFlight' = InFlight \cup {s} /\ s \notin InFlight
    BY <1>3 DEF Arrive, InFlight, SlotsOK, SlotTypes
  <2>2. Cardinality(InFlight') = Cardinality(InFlight) + 1
    BY <1>1, <2>1, FS_AddElement
  <2>3. Cardinality(InFlight) < MaxInFlight
    BY <1>3 DEF Arrive
  <2> QED BY <1>1, <2>2, <2>3
<1>4. ASSUME NEW had, NEW verified, Restart(had, verified)
      PROVE  InFlight' \subseteq InFlight
  BY <1>4 DEF Restart, InFlight
<1>5. ASSUME UNCHANGED phase PROVE InFlight' \subseteq InFlight
  BY <1>5 DEF InFlight
<1>6. ASSUME InFlight' \subseteq InFlight PROVE Cardinality(InFlight') <= MaxInFlight
  <2>1. Cardinality(InFlight') <= Cardinality(InFlight) /\ Cardinality(InFlight') \in Nat
    BY <1>1, <1>6, FS_Subset, FS_CardinalityType
  <2> QED BY <1>1, <2>1
<1> QED BY <1>2, <1>3, <1>4, <1>5, <1>6, StepCases

LEMMA StorageInit == Init => StorageInv
<1> SUFFICES ASSUME Init PROVE StorageInv
  OBVIOUS
<1>1. MatrixOK
  <2>1. RowsOK(rows)
    BY DEF Init, RowsOK
  <2>2. rows[LastPiece] = {} /\ LastPiece \in Pieces
    BY PlaceFacts DEF Init
  <2> QED BY <2>1, <2>2 DEF MatrixOK, WrappedUp
<1>2. IncomingOK
  BY EntryTypes DEF Init, IncomingOK
<1>3. SlotsOK
  BY SeparateBodies DEF Init, SlotsOK, SlotTypes, PieceOK
<1>4. InFlight = {}
  BY DEF Init, InFlight
<1>5. Cardinality(InFlight) <= MaxInFlight
  BY <1>4, FS_EmptySet, CodedAssumption
<1> QED BY <1>1, <1>2, <1>3, <1>5 DEF StorageInv

LEMMA StorageAlways == Spec => []StorageInv
<1>1. StorageInv /\ [Next]_vars => StorageInv'
  <2> SUFFICES ASSUME StorageInv, [Next]_vars PROVE StorageInv'
    OBVIOUS
  <2> USE DEF StorageInv
  <2>1. MatrixOK'
    BY MatrixStep
  <2>2. IncomingOK'
    BY IncomingStep
  <2>3. SlotsOK'
    BY SlotsStep
  <2>4. Cardinality(InFlight') <= MaxInFlight
    BY InFlightStep
  <2> QED BY <2>1, <2>2, <2>3, <2>4
<1> QED BY <1>1, StorageInit, PTL DEF Spec

-----------------------------------------------------------------------------
(***************************************************************************)
(* The theorems.                                                           *)
(***************************************************************************)

\* Every object of the storage is in a state its calls leave it in: reducing
\* and decoding always give rows, and an entry waits under its own marker.
THEOREM StorageTypeCorrect == Spec => []TypeOK
<1>1. StorageInv => TypeOK
  <2> SUFFICES ASSUME StorageInv PROVE TypeOK
    OBVIOUS
  <2>1. rows \in [Pieces -> SUBSET (Pieces \cup {Bad})]
    BY DEF StorageInv, MatrixOK, RowsOK, Places
  <2>2. /\ incoming \in [Markers -> Entry]
        /\ \A m \in Markers : incoming[m] # NoEntry => Marker[incoming[m].chunk] = m
    BY DEF StorageInv, IncomingOK
  <2>3. hasher \subseteq {s \in Pieces : phase[s] = "written"}
    BY DEF StorageInv, SlotsOK, SlotTypes, PieceOK
  <2> QED BY <2>1, <2>2, <2>3 DEF TypeOK, StorageInv, SlotsOK, SlotTypes
<1> QED BY <1>1, StorageAlways, PTL

\* piece_failed never bans the sender of a sound piece or chunk: when the slot
\* is not free, the bytes that write took were wrong.
THEOREM HonestPeersNeverBlamed == Spec => []HonestPeersNotBlamed
<1>1. StorageInv => HonestPeersNotBlamed
  BY DEF StorageInv, SlotsOK, PieceOK, HonestPeersNotBlamed
<1> QED BY <1>1, StorageAlways, PTL

\* Wrong bytes reach a sound file in a corrupt regular piece or in a wrong
\* chunk that met its own header: insertChunk refuses data whose functional is
\* not its header's, and reducing, wrapping up and restarting spread wrong bytes
\* but make none.
THEOREM TaintIsAlwaysReceived == Spec => TaintIsReceived
<1>1. StorageInv /\ [Next]_vars =>
        [~IsTainted /\ IsTainted' => \E s \in Pieces : Received(s)]_vars
  BY MatrixStep DEF StorageInv
<1> QED BY <1>1, StorageAlways, PTL DEF Spec, TaintIsReceived, Received

\* A slot becomes verified only when the matrix gained a row, an entry began
\* to wait, or nothing was left to gain.
THEOREM VerifiedAlwaysBacked == Spec => VerifiedIsBacked
<1> DEFINE Backed == \A s \in Pieces :
             slots[s] # "verified" /\ slots'[s] = "verified" =>
               \/ Cardinality(Rows') > Cardinality(Rows)
               \/ \E m \in Markers : incoming[m] = NoEntry /\ incoming'[m] # NoEntry
               \/ IsDone
<1>1. ASSUME StorageInv, [Next]_vars PROVE Backed
  <2> SUFFICES ASSUME NEW s \in Pieces, slots[s] # "verified", slots'[s] = "verified"
               PROVE  \/ Cardinality(Rows') > Cardinality(Rows)
                      \/ \E m \in Markers : incoming[m] = NoEntry /\ incoming'[m] # NoEntry
                      \/ IsDone
    OBVIOUS
  <2>1. slots \in [Pieces -> {"free", "written", "verified"}]
    BY <1>1 DEF StorageInv, SlotsOK, SlotTypes
  <2>2. ASSUME NEW t \in Pieces, NEW state, NEW m, Written(t, state, m)
        PROVE  s = t /\ state = "verified"
    BY <2>1, <2>2 DEF Written
  <2>3. ASSUME NEW t \in Pieces, Write(t)
        PROVE  WriteWhenDone(t) \/ WriteWithHeader(t) \/ WriteAndWait(t)
    <3>1. ~WriteParts(t) /\ ~WriteTwice(t)
      BY <2>1 DEF WriteParts, WriteTwice
    <3>2. ~WriteRegular(t) /\ ~WriteUseless(t)
      BY <2>2 DEF WriteRegular, WriteUseless
    <3> QED BY <2>3, <3>1, <3>2 DEF Write
  <2>4. ASSUME NEW t \in Pieces, WriteWithHeader(t) PROVE Cardinality(Rows') > Cardinality(Rows)
    <3> DEFINE m == Insert(incoming[Marker[body[t]]], body[t])
    <3>1. Written(t, IF m = rows THEN "free" ELSE "verified", m) /\ body[t] \in Coded
      BY <2>4 DEF WriteWithHeader, LooksUp
    <3>2. m # rows
      BY <2>2, <3>1
    <3>3. Cardinality(RowsOf(m)) > Cardinality(Rows)
      BY <1>1, <2>4, <3>2, HeaderFacts, InsertFacts DEF StorageInv
    <3>4. rows' = m
      BY <3>1 DEF Written
    <3> HIDE DEF m
    <3> QED BY <3>3, <3>4 DEF RowsOf, Rows
  <2>5. ASSUME NEW t \in Pieces, WriteAndWait(t)
        PROVE  \E m \in Markers : incoming[m] = NoEntry /\ incoming'[m] # NoEntry
    <3> DEFINE m == Marker[body[t]]
    <3>1. /\ m \in Markers /\ incoming[m].kind = "nothing"
          /\ incoming' = [incoming EXCEPT ![m] = Data(body[t], t)]
      BY <2>5, SeparateBodies DEF WriteAndWait, LooksUp
    <3> HIDE DEF m
    <3>2. incoming[m] = NoEntry
      BY <1>1, <3>1, EntryFacts DEF StorageInv
    <3>3. incoming'[m] = Data(body[t], t)
      BY <1>1, <3>1 DEF StorageInv, IncomingOK
    <3>4. Data(body[t], t) # NoEntry
      BY DEF Data, NoEntry
    <3> QED BY <3>1, <3>2, <3>3, <3>4
  <2>6. ASSUME NEW t \in Pieces, WriteWhenDone(t) PROVE IsDone
    BY <2>6 DEF WriteWhenDone
  <2>7. ASSUME NEW c \in Coded, ReceiveHeader(c) PROVE FALSE
    BY <1>1, <2>7, HeaderFitsNothing DEF StorageInv
  <2>8. ASSUME NEW had, Resume(had) PROVE FALSE
    BY <2>8 DEF Resume, Restart
  <2>9. ASSUME FullCheck PROVE FALSE
    BY <2>9 DEF FullCheck, Restart
  <2>10. ~UNCHANGED slots
    OBVIOUS
  <2> QED BY <1>1, <2>3, <2>4, <2>5, <2>6, <2>7, <2>8, <2>9, <2>10
          DEF Next, Arrive, Hash, PieceFinished, PiecePassed, PieceExcused, PieceBlamed,
              PieceLost, Restore, Purge, vars
<1>2. StorageInv /\ [Next]_vars => [Backed]_vars
  BY <1>1
<1> QED BY <1>2, StorageAlways, PTL DEF Spec, VerifiedIsBacked

\* With a whole and sound matrix every piece passes that is not itself
\* corrupt: its slot is verified, write kept the hash of right bytes, or its
\* place on disk holds the decoded piece.
THEOREM PiecesPassWhenDone == Spec => DonePiecesPass
<1> DEFINE Pass == IsDone /\ ~IsTainted =>
             \A s \in Pieces : Hash(s) /\ body[s] # "corrupt" => phase'[s] = "passed"
<1>1. ASSUME StorageInv PROVE Pass
  <2> SUFFICES ASSUME IsDone, ~IsTainted, NEW s \in Pieces, Hash(s), body[s] # "corrupt"
               PROVE  phase'[s] = "passed"
    OBVIOUS
  <2>1. phase' = [phase EXCEPT ![s] = IF Passes(s) THEN "passed" ELSE "failed"]
        /\ phase \in [Pieces -> {"want", "arrived", "written", "error", "passed", "failed", "have"}]
    BY <1>1 DEF Hash, StorageInv, SlotsOK, SlotTypes
  <2>2. rows[s] = {s}
    <3>1. Functional(rows[s]) = {s}
      BY <1>1 DEF StorageInv, MatrixOK, WrappedUp, IsDone, Rows
    <3>2. Bad \notin rows[s]
      BY DEF IsTainted
    <3> QED BY <3>1, <3>2 DEF Functional
  <2>3. s \in hasher => slots[s] = "verified" \/ body[s] = "right"
    BY <1>1 DEF StorageInv, SlotsOK, PieceOK, Regular
  <2>4. Passes(s)
    BY <2>2, <2>3 DEF Passes
  <2> QED BY <2>1, <2>4
<1>2. StorageInv /\ [Next]_vars => [Pass]_vars
  BY <1>1
<1> QED BY <1>2, StorageAlways, PTL DEF Spec, DonePiecesPass
=============================================================================

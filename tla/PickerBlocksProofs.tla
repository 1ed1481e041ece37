------------------------- MODULE PickerBlocksProofs -------------------------
(***************************************************************************)
(* Proofs about the partial pieces of PiecePicker, for any number of        *)
(* pieces, blocks, peers and partial pieces: m_downloads, which is sorted   *)
(* after some calls, and m_block_info, whose last slot is copied to the one *)
(* that an erased piece gives up.                                          *)
(***************************************************************************)
EXTENDS PickerPiecesProofs

-----------------------------------------------------------------------------
(***************************************************************************)
(* The inductive invariant.                                                *)
(***************************************************************************)

BlockTable == [0..(BlocksPerPiece - 1) -> BlockType]

Count(f, i, s) == Cardinality({k \in Blocks(i) : f[k].state = s})

\* The entry d says of the blocks f what they are.
Agrees(d, f) ==
  /\ d.requested = Count(f, d.index, "requested")
  /\ d.writing = Count(f, d.index, "writing")
  /\ d.finished = Count(f, d.index, "finished")
  /\ d.speed = "none" <=> d.requested = 0
  /\ \A k \in Blocks(d.index) : f[k].peers > 0 <=> f[k].state = "requested"

\* The entries ds with the slots bi are those of the pieces D.
EntriesOK(ds, bi, D) ==
  /\ ds \in Seq(EntryType) /\ bi \in Seq(BlockTable)
  /\ Len(bi) = Len(ds)
  /\ D = {ds[n].index : n \in 1..Len(ds)}
  /\ \A m, n \in 1..Len(ds) : m # n => ds[m].index # ds[n].index /\ ds[m].slot # ds[n].slot
  /\ \A n \in 1..Len(ds) : ds[n].slot <= Len(ds) /\ Agrees(ds[n], bi[ds[n].slot])

\* Every other piece than i keeps its blocks, wherever its slot is.
Kept(i, ds, bi, es, ci) ==
  \A m \in 1..Len(es) : es[m].index # i =>
    \E n \in 1..Len(ds) : ds[n].index = es[m].index /\ bi[ds[n].slot] = ci[es[m].slot]

BlocksInv ==
  /\ EntriesOK(downloads, blockInfo, downloading)
  /\ downloading \cap have = {}

-----------------------------------------------------------------------------
(***************************************************************************)
(* Blocks and their counts.                                                *)
(***************************************************************************)

LEMMA BlocksFinite ==
  ASSUME NEW i \in Pieces
  PROVE  /\ Blocks(i) \in SUBSET (0..(BlocksPerPiece - 1))
         /\ \A S \in SUBSET Blocks(i) : IsFiniteSet(S) /\ Cardinality(S) \in Nat
<1>1. BlocksIn(i) \in 1..BlocksPerPiece
  BY PickerAssumption DEF BlocksIn
<1>2. BlocksPerPiece \in Nat /\ BlocksIn(i) - 1 \in Int
  BY <1>1, PickerAssumption
<1>3. IsFiniteSet(Blocks(i))
  BY <1>2, FS_Interval DEF Blocks
<1>4. \A S \in SUBSET Blocks(i) : IsFiniteSet(S) /\ Cardinality(S) \in Nat
  BY <1>3, FS_Subset, FS_CardinalityType
<1> QED BY <1>1, <1>2, <1>4 DEF Blocks

LEMMA CountType ==
  ASSUME NEW i \in Pieces, NEW f, NEW s
  PROVE  Count(f, i, s) \in Nat
BY BlocksFinite DEF Count

\* One block changes: the count of its old state goes down, that of its new
\* one goes up.
LEMMA CountChange ==
  ASSUME NEW i \in Pieces, NEW f \in BlockTable, NEW k \in Blocks(i), NEW b \in BlockType
  PROVE  /\ [f EXCEPT ![k] = b] \in BlockTable
         /\ \A s : Count([f EXCEPT ![k] = b], i, s) =
              Count(f, i, s) + (IF b.state = s THEN 1 ELSE 0) - (IF f[k].state = s THEN 1 ELSE 0)
<1>1. Blocks(i) \in SUBSET (0..(BlocksPerPiece - 1))
  BY BlocksFinite
<1> DEFINE g == [f EXCEPT ![k] = b]
<1>2. g \in BlockTable /\ g[k] = b /\ \A j \in Blocks(i) : j # k => g[j] = f[j]
  BY <1>1 DEF BlockTable
<1> HIDE DEF g
<1>3. ASSUME NEW s
      PROVE  Count(g, i, s) = Count(f, i, s) + (IF b.state = s THEN 1 ELSE 0)
                                - (IF f[k].state = s THEN 1 ELSE 0)
  <2> DEFINE S == {j \in Blocks(i) : f[j].state = s}
             T == {j \in Blocks(i) : g[j].state = s}
  <2>1. /\ S \in SUBSET Blocks(i) /\ Cardinality(S) \in Nat /\ IsFiniteSet(S)
        /\ Count(f, i, s) = Cardinality(S) /\ Count(g, i, s) = Cardinality(T)
    BY BlocksFinite DEF Count
  <2>2. T = IF b.state = s THEN S \cup {k} ELSE S \ {k}
    BY <1>2
  <2>3. k \in S <=> f[k].state = s
    OBVIOUS
  <2> HIDE DEF S, T
  <2>4. /\ Cardinality(S \cup {k}) = IF k \in S THEN Cardinality(S) ELSE Cardinality(S) + 1
        /\ Cardinality(S \ {k}) = IF k \in S THEN Cardinality(S) - 1 ELSE Cardinality(S)
    BY <2>1, FS_AddElement, FS_RemoveElement
  <2> QED BY <2>1, <2>2, <2>3, <2>4
<1> QED BY <1>2, <1>3 DEF g

LEMMA CountFresh ==
  ASSUME NEW i \in Pieces
  PROVE  /\ FreshBlocks \in BlockTable
         /\ \A s : s # "none" => Count(FreshBlocks, i, s) = 0
         /\ \A k \in Blocks(i) : FreshBlocks[k] = [state |-> "none", peers |-> 0]
<1>1. Blocks(i) \in SUBSET (0..(BlocksPerPiece - 1))
  BY BlocksFinite
<1>2. FreshBlocks \in BlockTable
  BY DEF FreshBlocks, BlockTable, BlockType
<1>3. \A k \in Blocks(i) : FreshBlocks[k] = [state |-> "none", peers |-> 0]
  BY <1>1 DEF FreshBlocks
<1>4. ASSUME NEW s, s # "none" PROVE Count(FreshBlocks, i, s) = 0
  <2>1. {k \in Blocks(i) : FreshBlocks[k].state = s} = {}
    BY <1>3, <1>4
  <2> QED BY <2>1, FS_EmptySet DEF Count
<1> QED BY <1>2, <1>3, <1>4

-----------------------------------------------------------------------------
(***************************************************************************)
(* What the helpers do to the entries.                                     *)
(***************************************************************************)

LEMMA EntryFacts ==
  ASSUME NEW ds, NEW bi, NEW D, EntriesOK(ds, bi, D)
  PROVE  /\ Len(ds) \in Nat /\ DOMAIN ds = 1..Len(ds) /\ DOMAIN bi = 1..Len(ds)
         /\ \A n \in 1..Len(ds) : ds[n] \in EntryType /\ bi[n] \in BlockTable
         /\ \A n \in 1..Len(ds) : /\ ds[n].slot \in 1..Len(ds) /\ ds[n].index \in Pieces
                                  /\ bi[ds[n].slot] \in BlockTable
<1>1. ds \in Seq(EntryType) /\ bi \in Seq(BlockTable) /\ Len(bi) = Len(ds)
  BY DEF EntriesOK
<1>2. Len(ds) \in Nat /\ DOMAIN ds = 1..Len(ds) /\ DOMAIN bi = 1..Len(bi)
  BY <1>1, LenProperties
<1>3. \A n \in 1..Len(ds) : ds[n] \in EntryType /\ bi[n] \in BlockTable
  BY <1>1, ElementOfSeq
<1>4. \A n \in 1..Len(ds) : ds[n].slot \in 1..Len(ds) /\ ds[n].index \in Pieces
  BY <1>2, <1>3 DEF EntriesOK, EntryType
<1> QED BY <1>1, <1>2, <1>3, <1>4

\* Entry(i) is the entry of i.
LEMMA Found ==
  ASSUME EntriesOK(downloads, blockInfo, downloading), NEW i \in downloading
  PROVE  /\ Position(i) \in 1..Len(downloads)
         /\ Entry(i) = downloads[Position(i)] /\ Entry(i).index = i
         /\ BlocksOf(i) = blockInfo[Entry(i).slot]
         /\ \A n \in 1..Len(downloads) : downloads[n].index = i => n = Position(i)
<1>1. DOMAIN downloads = 1..Len(downloads)
  BY EntryFacts
<1>2. \E n \in DOMAIN downloads : downloads[n].index = i
  BY <1>1 DEF EntriesOK
<1>3. Position(i) \in DOMAIN downloads /\ downloads[Position(i)].index = i
  BY <1>2, Zenon DEF Position
<1>4. \A n \in 1..Len(downloads) : downloads[n].index = i => n = Position(i)
  BY <1>1, <1>3 DEF EntriesOK
<1> QED BY <1>1, <1>3, <1>4 DEF Entry, BlocksOf

\* SetBlock: the entry and its slot change.
LEMMA Replaced ==
  ASSUME NEW ds, NEW bi, NEW D, EntriesOK(ds, bi, D), NEW n \in 1..Len(ds),
         NEW d \in EntryType, d.index = ds[n].index, d.slot = ds[n].slot,
         NEW f \in BlockTable, Agrees(d, f)
  PROVE  /\ EntriesOK([ds EXCEPT ![n] = d], [bi EXCEPT ![ds[n].slot] = f], D)
         /\ Kept(d.index, ds, bi, [ds EXCEPT ![n] = d], [bi EXCEPT ![ds[n].slot] = f])
<1> DEFINE es == [ds EXCEPT ![n] = d]
           ci == [bi EXCEPT ![ds[n].slot] = f]
<1>1. /\ Len(ds) \in Nat /\ DOMAIN ds = 1..Len(ds) /\ DOMAIN bi = 1..Len(ds)
      /\ ds \in Seq(EntryType) /\ bi \in Seq(BlockTable) /\ Len(bi) = Len(ds)
      /\ \A m \in 1..Len(ds) : ds[m].slot \in 1..Len(ds)
  BY EntryFacts DEF EntriesOK
<1>2. es \in Seq(EntryType) /\ Len(es) = Len(ds)
      /\ es[n] = d /\ \A m \in 1..Len(ds) : m # n => es[m] = ds[m]
  BY <1>1, ExceptSeq
<1>3. ci \in Seq(BlockTable) /\ Len(ci) = Len(ds)
      /\ ci[ds[n].slot] = f /\ \A m \in 1..Len(ds) : m # ds[n].slot => ci[m] = bi[m]
  BY <1>1, ExceptSeq
<1> HIDE DEF es, ci
<1>4. \A m \in 1..Len(ds) : es[m].index = ds[m].index /\ es[m].slot = ds[m].slot
  BY <1>2
<1>5. \A m \in 1..Len(ds) : m # n => ds[m].slot # ds[n].slot
  BY DEF EntriesOK
<1>6. \A m \in 1..Len(ds) : m # n => ci[es[m].slot] = bi[ds[m].slot]
  BY <1>1, <1>3, <1>4, <1>5
<1>7. D = {es[m].index : m \in 1..Len(es)}
  <2>1. D = {ds[m].index : m \in 1..Len(ds)}
    BY DEF EntriesOK
  <2>2. {ds[m].index : m \in 1..Len(ds)} = {es[m].index : m \in 1..Len(ds)}
    <3>1. \A x : (\E m \in 1..Len(ds) : x = ds[m].index) <=> \E m \in 1..Len(ds) : x = es[m].index
      BY <1>4
    <3> QED BY <3>1
  <2>3. Len(es) = Len(ds)
    BY <1>2
  <2> QED BY <2>1, <2>2, <2>3
<1>8. ASSUME NEW m \in 1..Len(es) PROVE es[m].slot <= Len(es) /\ Agrees(es[m], ci[es[m].slot])
  BY <1>2, <1>3, <1>4, <1>6 DEF EntriesOK
<1>9. \A l, m \in 1..Len(es) : l # m => es[l].index # es[m].index /\ es[l].slot # es[m].slot
  BY <1>2, <1>4 DEF EntriesOK
<1>10. EntriesOK(es, ci, D)
  BY <1>2, <1>3, <1>7, <1>8, <1>9 DEF EntriesOK
<1>11. Kept(d.index, ds, bi, es, ci)
  BY <1>2, <1>4, <1>6 DEF Kept
<1> QED BY <1>10, <1>11 DEF es, ci

\* AddDownload before the sort: a new entry with a new slot.
LEMMA Added ==
  ASSUME NEW ds, NEW bi, NEW D, EntriesOK(ds, bi, D), NEW d \in EntryType,
         d.index \notin D, d.slot = Len(ds) + 1, NEW f \in BlockTable, Agrees(d, f)
  PROVE  /\ EntriesOK(Append(ds, d), Append(bi, f), D \cup {d.index})
         /\ Kept(d.index, ds, bi, Append(ds, d), Append(bi, f))
<1> DEFINE es == Append(ds, d)
           ci == Append(bi, f)
           L == Len(ds)
<1>0. /\ L \in Nat /\ \A m \in 1..L : ds[m].slot \in 1..L /\ ds[m].index \in Pieces
  BY EntryFacts, Zenon
<1>1. /\ L \in Nat /\ ds \in Seq(EntryType) /\ bi \in Seq(BlockTable) /\ Len(bi) = L
      /\ \A m \in 1..L : ds[m].slot \in 1..L /\ ds[m].slot # L + 1 /\ ds[m].index \in D
  <2>1. ds \in Seq(EntryType) /\ bi \in Seq(BlockTable) /\ Len(bi) = L
    BY DEF EntriesOK
  <2>2. \A m \in 1..L : ds[m].index \in D
    BY DEF EntriesOK
  <2> HIDE DEF L
  <2>3. \A m \in 1..L : ds[m].slot # L + 1
    BY <1>0
  <2> QED BY <2>1, <2>2, <2>3, <1>0
<1>2. es \in Seq(EntryType) /\ Len(es) = L + 1
      /\ es[L + 1] = d /\ \A m \in 1..L : es[m] = ds[m]
  BY <1>1, AppendProperties
<1>3. ci \in Seq(BlockTable) /\ Len(ci) = L + 1
      /\ ci[L + 1] = f /\ \A m \in 1..L : ci[m] = bi[m]
  BY <1>1, AppendProperties
<1> HIDE DEF es, ci, L
<1>4. 1..(L + 1) = (1..L) \cup {L + 1}
  BY <1>1
<1>5. D \cup {d.index} = {es[m].index : m \in 1..Len(es)}
  <2>1. D = {ds[m].index : m \in 1..L}
    BY DEF EntriesOK, L
  <2> QED BY <2>1, <1>2, <1>4
<1>6. ASSUME NEW m \in 1..Len(es) PROVE es[m].slot <= Len(es) /\ Agrees(es[m], ci[es[m].slot])
  <2>1. CASE m = L + 1
    <3>1. es[m] = d /\ d.slot = L + 1
      BY <2>1, <1>2 DEF L
    <3> QED BY <3>1, <1>1, <1>2, <1>3
  <2>2. CASE m \in 1..L
    <3>1. es[m] = ds[m] /\ ds[m].slot \in 1..L /\ ci[ds[m].slot] = bi[ds[m].slot]
      BY <2>2, <1>1, <1>2, <1>3
    <3>2. Agrees(ds[m], bi[ds[m].slot])
      BY <2>2 DEF EntriesOK, L
    <3>3. ds[m].slot <= L + 1
      BY <3>1, <1>1
    <3> QED BY <3>1, <3>2, <3>3, <1>2
  <2> QED BY <2>1, <2>2, <1>2, <1>4
<1>7. ASSUME NEW l \in 1..Len(es), NEW m \in 1..Len(es), l # m
      PROVE  es[l].index # es[m].index /\ es[l].slot # es[m].slot
  <2>1. CASE l \in 1..L /\ m \in 1..L
    BY <1>2, <1>7, <2>1 DEF EntriesOK, L
  <2>2. CASE l = L + 1 /\ m \in 1..L
    BY <1>1, <1>2, <2>2 DEF L
  <2>3. CASE m = L + 1 /\ l \in 1..L
    BY <1>1, <1>2, <2>3 DEF L
  <2> QED BY <2>1, <2>2, <2>3, <1>2, <1>4, <1>7
<1>8. EntriesOK(es, ci, D \cup {d.index})
  BY <1>2, <1>3, <1>5, <1>6, <1>7 DEF EntriesOK
<1>9. Kept(d.index, ds, bi, es, ci)
  <2> SUFFICES ASSUME NEW m \in 1..Len(es), es[m].index # d.index
               PROVE  \E n \in 1..L : ds[n].index = es[m].index /\ bi[ds[n].slot] = ci[es[m].slot]
    BY DEF Kept, L
  <2>1. m \in 1..L
    BY <1>2, <1>4
  <2> QED BY <2>1, <1>1, <1>2, <1>3
<1> QED BY <1>8, <1>9 DEF es, ci


\* A sequence of entries in another order, with the same slots.
LEMMA Rearranged ==
  ASSUME NEW ds, NEW bi, NEW D, EntriesOK(ds, bi, D),
         NEW es \in Seq(EntryType), Len(es) = Len(ds),
         NEW p \in [1..Len(ds) -> 1..Len(ds)],
         \A l, m \in 1..Len(ds) : l # m => p[l] # p[m],
         \A n \in 1..Len(ds) : \E m \in 1..Len(ds) : p[m] = n,
         \A m \in 1..Len(ds) : es[m] = ds[p[m]]
  PROVE  EntriesOK(es, bi, D) /\ \A i : Kept(i, ds, bi, es, bi)
<1>1. \A m \in 1..Len(ds) : p[m] \in 1..Len(ds)
  OBVIOUS
<1>2. bi \in Seq(BlockTable) /\ Len(bi) = Len(es)
  BY DEF EntriesOK
<1>3. D = {es[m].index : m \in 1..Len(es)}
  <2>1. D = {ds[n].index : n \in 1..Len(ds)}
    BY DEF EntriesOK
  <2>2. ASSUME NEW x \in D PROVE \E m \in 1..Len(es) : x = es[m].index
    <3>1. PICK n \in 1..Len(ds) : x = ds[n].index
      BY <2>1
    <3>2. PICK m \in 1..Len(ds) : p[m] = n
      OBVIOUS
    <3>3. es[m] = ds[n]
      BY <3>2
    <3> QED BY <3>1, <3>3
  <2>3. ASSUME NEW m \in 1..Len(es) PROVE es[m].index \in D
    BY <1>1, <2>1, SMTT(30)
  <2> QED BY <2>2, <2>3
<1>4. ASSUME NEW m \in 1..Len(es)
      PROVE  es[m].slot <= Len(es) /\ Agrees(es[m], bi[es[m].slot])
  <2>1. p[m] \in 1..Len(ds) /\ es[m] = ds[p[m]]
    BY <1>1
  <2>2. \A n \in 1..Len(ds) : ds[n].slot <= Len(ds) /\ Agrees(ds[n], bi[ds[n].slot])
    BY DEF EntriesOK
  <2> QED BY <2>1, <2>2
<1>5. \A l, m \in 1..Len(es) : l # m => es[l].index # es[m].index /\ es[l].slot # es[m].slot
  <2> SUFFICES ASSUME NEW l \in 1..Len(es), NEW m \in 1..Len(es), l # m
               PROVE  es[l].index # es[m].index /\ es[l].slot # es[m].slot
    OBVIOUS
  <2>1. p[l] \in 1..Len(ds) /\ p[m] \in 1..Len(ds) /\ es[l] = ds[p[l]] /\ es[m] = ds[p[m]]
    BY <1>1
  <2>2. p[l] # p[m]
    OBVIOUS
  <2>3. \A a, b \in 1..Len(ds) : a # b => ds[a].index # ds[b].index /\ ds[a].slot # ds[b].slot
    BY DEF EntriesOK
  <2>4. ds[p[l]].index # ds[p[m]].index /\ ds[p[l]].slot # ds[p[m]].slot
    BY <2>1, <2>2, <2>3, Zenon
  <2> QED BY <2>1, <2>4, Zenon
<1>6. EntriesOK(es, bi, D)
  BY <1>2, <1>3, <1>4, <1>5 DEF EntriesOK
<1>7. \A i : Kept(i, ds, bi, es, bi)
  BY <1>1 DEF Kept
<1> QED BY <1>6, <1>7

\* sort_piece: where the entry goes and where the others are then.
LEMMA SortFacts ==
  ASSUME NEW ds \in Seq(EntryType), NEW n \in 1..Len(ds)
  PROVE  \E stop \in 0..(n - 1) :
           /\ stop > 0 => Complete(ds[stop]) >= Complete(ds[n])
           /\ \A m \in 1..(n - 1) : Complete(ds[m]) >= Complete(ds[n]) => m <= stop
           /\ SortPiece(ds, n) \in Seq(EntryType) /\ Len(SortPiece(ds, n)) = Len(ds)
           /\ \A m \in 1..Len(ds) :
                SortPiece(ds, n)[m] = IF m <= stop THEN ds[m] ELSE IF m = stop + 1 THEN ds[n]
                                      ELSE IF m <= n THEN ds[m - 1] ELSE ds[m]
<1>1. Len(ds) \in Nat /\ n \in Nat /\ n >= 1 /\ n <= Len(ds) /\ ds[n] \in EntryType
  BY LenProperties, ElementOfSeq
<1> DEFINE Before == {m \in 1..(n - 1) : Complete(ds[m]) >= Complete(ds[n])}
           stop   == Max(Before \cup {0})
           L      == Len(ds)
           R      == RemoveAt(ds, n)
           I      == InsertAt(R, stop + 1, ds[n])
<1>2. /\ Before \cup {0} \in SUBSET Nat /\ Before \cup {0} # {}
      /\ \A y \in Before \cup {0} : y <= n - 1
  BY <1>1
<1>3. stop \in Before \cup {0} /\ \A y \in Before \cup {0} : y <= stop
  <2>1. n - 1 \in Nat
    BY <1>1
  <2> HIDE DEF Before
  <2> QED BY <1>2, <2>1, MaxFacts
<1> HIDE DEF stop
<1>4. stop \in 0..(n - 1) /\ (stop > 0 => stop \in Before) /\ \A m \in Before : m <= stop
  BY <1>1, <1>3
<1>5. /\ R \in Seq(EntryType) /\ Len(R) = L - 1
      /\ \A m \in 1..(L - 1) : R[m] = IF m < n THEN ds[m] ELSE ds[m + 1]
  BY RemoveAtFacts
<1> HIDE DEF R
<1>6. stop + 1 \in 1..(Len(R) + 1) /\ Len(R) + 1 = L
  BY <1>1, <1>4, <1>5
<1>7. /\ I \in Seq(EntryType) /\ Len(I) = Len(R) + 1
      /\ \A m \in 1..(Len(R) + 1) :
           I[m] = IF m < stop + 1 THEN R[m] ELSE IF m = stop + 1 THEN ds[n] ELSE R[m - 1]
  <2> DEFINE at == stop + 1
             e  == ds[n]
  <2>1. R \in Seq(EntryType) /\ at \in 1..(Len(R) + 1) /\ e \in EntryType
    BY <1>1, <1>5, <1>6
  <2> HIDE DEF at, e
  <2>2. /\ InsertAt(R, at, e) \in Seq(EntryType) /\ Len(InsertAt(R, at, e)) = Len(R) + 1
        /\ \A m \in 1..(Len(R) + 1) :
             InsertAt(R, at, e)[m] = IF m < at THEN R[m] ELSE IF m = at THEN e ELSE R[m - 1]
    <3> HIDE DEF L, I, Before
    <3>1. InsertAt(R, at, e) \in Seq(EntryType) /\ Len(InsertAt(R, at, e)) = Len(R) + 1
      BY <2>1, InsertAtFacts
    <3>2. ASSUME NEW m \in 1..(Len(R) + 1)
          PROVE  InsertAt(R, at, e)[m] = IF m < at THEN R[m] ELSE IF m = at THEN e ELSE R[m - 1]
      BY <2>1, InsertAtFacts
    <3> QED BY <3>1, <3>2
  <2> QED BY <2>2 DEF at, e
<1>8. SortPiece(ds, n) = I
  BY DEF SortPiece, stop, R
<1> HIDE DEF I
<1>9. ASSUME NEW m \in 1..L
      PROVE  I[m] = IF m <= stop THEN ds[m] ELSE IF m = stop + 1 THEN ds[n]
                    ELSE IF m <= n THEN ds[m - 1] ELSE ds[m]
  <2>0. m \in 1..(Len(R) + 1) /\ m \in Nat /\ stop \in Nat
    BY <1>1, <1>4, <1>6
  <2>1. CASE m <= stop
    <3>1. m < stop + 1 /\ m \in 1..(L - 1) /\ m < n
      BY <2>0, <2>1, <1>1, <1>4
    <3> QED BY <2>0, <2>1, <3>1, <1>5, <1>7
  <2>2. CASE m = stop + 1
    BY <2>0, <2>2, <1>7
  <2>3. CASE m > stop + 1 /\ m <= n
    <3>1. m - 1 \in 1..(L - 1) /\ m - 1 < n /\ ~(m < stop + 1) /\ m # stop + 1 /\ ~(m <= stop)
      BY <2>0, <2>3, <1>1, <1>4
    <3> QED BY <2>0, <2>3, <3>1, <1>5, <1>7
  <2>4. CASE m > n
    <3>1. /\ m - 1 \in 1..(L - 1) /\ ~(m - 1 < n) /\ (m - 1) + 1 = m
          /\ ~(m < stop + 1) /\ m # stop + 1 /\ ~(m <= stop) /\ ~(m <= n)
      BY <2>0, <2>4, <1>1, <1>4
    <3> QED BY <2>0, <3>1, <1>5, <1>7
  <2> QED BY <2>0, <2>1, <2>2, <2>3, <2>4, <1>1
<1>10. stop > 0 => Complete(ds[stop]) >= Complete(ds[n])
  BY <1>4
<1>11. \A m \in 1..(n - 1) : Complete(ds[m]) >= Complete(ds[n]) => m <= stop
  BY <1>4
<1> QED BY <1>4, <1>6, <1>7, <1>8, <1>9, <1>10, <1>11

LEMMA Sorted ==
  ASSUME NEW ds, NEW bi, NEW D, EntriesOK(ds, bi, D), NEW n \in 1..Len(ds)
  PROVE  EntriesOK(SortPiece(ds, n), bi, D) /\ \A i : Kept(i, ds, bi, SortPiece(ds, n), bi)
<1>1. ds \in Seq(EntryType) /\ Len(ds) \in Nat
  BY EntryFacts DEF EntriesOK
<1> DEFINE es == SortPiece(ds, n)
           L  == Len(ds)
<1>0. PICK stop \in 0..(n - 1) :
        /\ stop > 0 => Complete(ds[stop]) >= Complete(ds[n])
        /\ \A m \in 1..(n - 1) : Complete(ds[m]) >= Complete(ds[n]) => m <= stop
        /\ SortPiece(ds, n) \in Seq(EntryType) /\ Len(SortPiece(ds, n)) = Len(ds)
        /\ \A m \in 1..Len(ds) :
             SortPiece(ds, n)[m] = IF m <= stop THEN ds[m] ELSE IF m = stop + 1 THEN ds[n]
                                   ELSE IF m <= n THEN ds[m - 1] ELSE ds[m]
  BY <1>1, SortFacts, ZenonT(30)
<1>2. /\ es \in Seq(EntryType) /\ Len(es) = L
      /\ \A m \in 1..L : es[m] = IF m <= stop THEN ds[m] ELSE IF m = stop + 1 THEN ds[n]
                                  ELSE IF m <= n THEN ds[m - 1] ELSE ds[m]
  BY <1>0
<1> DEFINE p == [m \in 1..L |-> IF m <= stop THEN m ELSE IF m = stop + 1 THEN n
                               ELSE IF m <= n THEN m - 1 ELSE m]
<1> HIDE DEF es
<1>3. L \in Nat /\ n \in 1..L /\ n \in Nat /\ stop \in Nat /\ stop <= n - 1
  BY <1>1
<1>4. p \in [1..L -> 1..L]
  BY <1>3
<1>5. \A l, m \in 1..L : l # m => p[l] # p[m]
  BY <1>3
<1>6. ASSUME NEW k \in 1..L PROVE \E m \in 1..L : p[m] = k
  <2>1. CASE k <= stop
    BY <2>1
  <2>2. CASE k = n
    <3>1. stop + 1 \in 1..L /\ ~(stop + 1 <= stop)
      BY <1>3
    <3> QED BY <3>1, <2>2
  <2>3. CASE k > stop /\ k < n
    <3>1. k + 1 \in 1..L /\ ~(k + 1 <= stop) /\ k + 1 # stop + 1 /\ k + 1 <= n /\ (k + 1) - 1 = k
      BY <1>3, <2>3
    <3> QED BY <3>1
  <2>4. CASE k > n
    BY <2>4, <1>3
  <2> QED BY <2>1, <2>2, <2>3, <2>4, <1>3
<1>7. \A m \in 1..L : es[m] = ds[p[m]]
  BY <1>2
<1> HIDE DEF p
<1> QED BY <1>2, <1>4, <1>5, <1>6, <1>7, Rearranged DEF es

\* EraseDownload: the entry goes, and the blocks of the last slot take the slot
\* it gives up.
LEMMA Erased ==
  ASSUME EntriesOK(downloads, blockInfo, downloading), NEW i \in downloading, EraseDownload(i)
  PROVE  /\ EntriesOK(downloads', blockInfo', downloading')
         /\ Kept(i, downloads, blockInfo, downloads', blockInfo')
         /\ downloading' = downloading \ {i}
         /\ Len(downloads') = Len(downloads) - 1
         /\ \A m \in 1..(Len(downloads) - 1) :
              Complete(downloads'[m]) =
                Complete(downloads[IF m < Position(i) THEN m ELSE m + 1])
<1> DEFINE ds    == downloads
           bi    == blockInfo
           last  == Len(ds)
           n     == Position(i)
           free  == ds[n].slot
           moved == [m \in DOMAIN ds |-> IF ds[m].slot = last THEN [ds[m] EXCEPT !.slot = free]
                                         ELSE ds[m]]
           copied == [bi EXCEPT ![free] = bi[last]]
           es    == RemoveAt(moved, n)
           ci    == SubSeq(copied, 1, last - 1)
           from(m) == IF m < n THEN m ELSE m + 1
<1>1. downloads' = es /\ blockInfo' = ci /\ downloading' = downloading \ {i}
  BY DEF EraseDownload, Entry
<1>2. /\ last \in Nat /\ n \in 1..last /\ ds[n].index = i /\ DOMAIN ds = 1..last
      /\ bi \in Seq(BlockTable) /\ Len(bi) = last /\ free \in 1..last
      /\ \A m \in 1..last : ds[m] \in EntryType /\ ds[m].slot \in 1..last
      /\ \A m \in 1..last : ds[m].index = i => m = n
  <2>1. n \in 1..last /\ ds[n].index = i /\ \A m \in 1..last : ds[m].index = i => m = n
    BY Found
  <2>2. last \in Nat /\ DOMAIN ds = 1..last
    BY EntryFacts
  <2>3. \A m \in 1..last : ds[m] \in EntryType /\ ds[m].slot \in 1..last
    BY EntryFacts
  <2>4. bi \in Seq(BlockTable) /\ Len(bi) = last
    BY DEF EntriesOK
  <2> QED BY <2>1, <2>2, <2>3, <2>4
<1>3. /\ \A l, m \in 1..last : l # m => ds[l].index # ds[m].index /\ ds[l].slot # ds[m].slot
      /\ \A m \in 1..last : Agrees(ds[m], bi[ds[m].slot])
      /\ downloading = {ds[m].index : m \in 1..last}
  BY DEF EntriesOK
<1>4. /\ moved \in Seq(EntryType) /\ Len(moved) = last
      /\ \A m \in 1..last : moved[m] = IF ds[m].slot = last THEN [ds[m] EXCEPT !.slot = free]
                                      ELSE ds[m]
  <2>1. \A m \in 1..last : [ds[m] EXCEPT !.slot = free] \in EntryType
    <3> SUFFICES ASSUME NEW m \in 1..last PROVE [ds[m] EXCEPT !.slot = free] \in EntryType
      OBVIOUS
    <3> DEFINE d == ds[m]
    <3>1. d \in EntryType /\ free \in Nat \ {0}
      BY <1>2
    <3> HIDE DEF d, free
    <3>2. [d EXCEPT !.slot = free] \in EntryType
      BY <3>1 DEF EntryType
    <3> QED BY <3>2 DEF d
  <2>2. moved \in [1..last -> EntryType]
    BY <1>2, <2>1
  <2>3. Len(moved) = last /\ moved \in Seq(EntryType)
    BY <1>2, <2>2, IsASeq
  <2> QED BY <1>2, <2>3
<1>5. copied \in Seq(BlockTable) /\ Len(copied) = last /\ copied[free] = bi[last]
      /\ \A s \in 1..last : s # free => copied[s] = bi[s]
  <2>1. bi[last] \in BlockTable /\ last \in 1..last
    BY <1>2, ElementOfSeq
  <2> DEFINE b == bi[last]
  <2> HIDE DEF b
  <2>2. [bi EXCEPT ![free] = b] \in Seq(BlockTable) /\ Len([bi EXCEPT ![free] = b]) = Len(bi)
        /\ [bi EXCEPT ![free] = b][free] = b
        /\ \A s \in 1..last : s # free => [bi EXCEPT ![free] = b][s] = bi[s]
    BY <1>2, <2>1, ExceptSeq DEF b
  <2> QED BY <2>2, <1>2 DEF b
<1> HIDE DEF moved, copied, ds, bi, last, n, free
<1>6. /\ es \in Seq(EntryType) /\ Len(es) = last - 1
      /\ \A m \in 1..(last - 1) : es[m] = moved[from(m)]
  <2>1. /\ es \in Seq(EntryType) /\ Len(es) = Len(moved) - 1
        /\ \A m \in 1..(Len(moved) - 1) : es[m] = IF m < n THEN moved[m] ELSE moved[m + 1]
    <3>1. moved \in Seq(EntryType) /\ n \in 1..Len(moved)
      BY <1>2, <1>4
    <3>2. /\ RemoveAt(moved, n) \in Seq(EntryType)
          /\ Len(RemoveAt(moved, n)) = Len(moved) - 1
          /\ \A m \in 1..(Len(moved) - 1) :
               RemoveAt(moved, n)[m] = IF m < n THEN moved[m] ELSE moved[m + 1]
      BY <3>1, RemoveAtFacts, Zenon
    <3> QED BY <3>2
  <2> QED BY <2>1, <1>4
<1>7. /\ ci \in Seq(BlockTable) /\ Len(ci) = last - 1
      /\ \A s \in 1..(last - 1) : ci[s] = copied[s]
  <2>1. last - 1 \in 0..Len(copied)
    BY <1>2, <1>5
  <2> QED BY <2>1, <1>5, PrefixFacts
<1> HIDE DEF es, ci
<1>8. /\ \A m \in 1..(last - 1) : from(m) \in 1..last /\ from(m) # n
      /\ \A l, m \in 1..(last - 1) : l # m => from(l) # from(m)
  BY <1>2
<1>9. ASSUME NEW k \in 1..last, k # n PROVE \E m \in 1..(last - 1) : from(m) = k
  <2>1. CASE k < n
    <3>1. k \in 1..(last - 1) /\ from(k) = k
      BY <2>1, <1>2
    <3> QED BY <3>1
  <2>2. CASE k > n
    <3>1. k - 1 \in 1..(last - 1) /\ from(k - 1) = k
      BY <2>2, <1>2
    <3> QED BY <3>1
  <2> QED BY <2>1, <2>2, <1>2, <1>9
<1> HIDE DEF from
\* an entry that stays: where its slot is now
<1>10. ASSUME NEW m \in 1..(last - 1)
       PROVE  /\ es[m].index = ds[from(m)].index /\ es[m].index # i
              /\ es[m].slot = IF ds[from(m)].slot = last THEN free ELSE ds[from(m)].slot
              /\ es[m].slot \in 1..(last - 1)
              /\ ci[es[m].slot] = bi[ds[from(m)].slot]
              /\ Agrees(es[m], ci[es[m].slot])
              /\ Complete(es[m]) = Complete(ds[from(m)])
  <2> DEFINE k == from(m)
             d == ds[k]
  <2>1. k \in 1..last /\ k # n
    BY <1>8
  <2>2. d \in EntryType /\ d.slot \in 1..last /\ d.index # i /\ d.slot # free
    <3>1. d \in EntryType /\ d.slot \in 1..last /\ d.index # i
      BY <1>2, <2>1
    <3>2. ds[k].slot # ds[n].slot
      BY <1>2, <1>3, <2>1
    <3> QED BY <3>1, <3>2 DEF free
  <2>3. es[m] = IF d.slot = last THEN [d EXCEPT !.slot = free] ELSE d
    BY <1>4, <1>6, <2>1
  <2>4. Agrees(d, bi[d.slot])
    BY <1>3, <2>1
  <2> HIDE DEF d
  <2>5. CASE d.slot = last
    <3>1. es[m] = [d EXCEPT !.slot = free]
      BY <2>3, <2>5
    <3>2. /\ es[m].index = d.index /\ es[m].slot = free /\ es[m].speed = d.speed
          /\ es[m].requested = d.requested /\ es[m].writing = d.writing
          /\ es[m].finished = d.finished
      BY <2>2, <3>1 DEF EntryType
    <3>3. free \in 1..(last - 1)
      BY <1>2, <2>2, <2>5
    <3>4. ci[free] = bi[last]
      BY <1>5, <1>7, <3>3
    <3>5. Agrees(es[m], bi[last])
      BY <2>4, <2>5, <3>2 DEF Agrees
    <3>6. Complete(es[m]) = Complete(d)
      BY <3>2 DEF Complete
    <3> QED BY <2>2, <2>5, <3>2, <3>3, <3>4, <3>5, <3>6 DEF d
  <2>6. CASE d.slot # last
    <3>1. es[m] = d
      BY <2>3, <2>6
    <3>2. d.slot \in 1..(last - 1)
      BY <1>2, <2>2, <2>6
    <3>3. ci[d.slot] = bi[d.slot]
      BY <1>5, <1>7, <2>2, <3>2
    <3> QED BY <2>2, <2>4, <2>6, <3>1, <3>2, <3>3 DEF d
  <2> QED BY <2>5, <2>6
<1>11. downloading \ {i} = {es[m].index : m \in 1..Len(es)}
  <2>1. ASSUME NEW x \in downloading \ {i} PROVE \E m \in 1..Len(es) : x = es[m].index
    <3>1. PICK k \in 1..last : x = ds[k].index
      BY <1>3
    <3>2. k # n
      BY <1>2, <3>1
    <3>3. PICK m \in 1..(last - 1) : from(m) = k
      BY <1>9, <3>2
    <3>4. m \in 1..Len(es)
      BY <1>6, <3>3
    <3> QED BY <3>1, <3>3, <3>4, <1>10
  <2>2. ASSUME NEW m \in 1..Len(es) PROVE es[m].index \in downloading \ {i}
    BY <1>3, <1>6, <1>8, <1>10
  <2> QED BY <2>1, <2>2
<1>12. ASSUME NEW l \in 1..Len(es), NEW m \in 1..Len(es), l # m
       PROVE  es[l].index # es[m].index /\ es[l].slot # es[m].slot
  <2>1. l \in 1..(last - 1) /\ m \in 1..(last - 1)
    BY <1>6
  <2>2. from(l) \in 1..last /\ from(m) \in 1..last /\ from(l) # from(m)
    BY <1>8, <1>12, <2>1
  <2>3. from(l) # n /\ from(m) # n /\ n \in 1..last
    BY <1>2, <1>8, <2>1
  <2>4. /\ ds[from(l)].index # ds[from(m)].index /\ ds[from(l)].slot # ds[from(m)].slot
        /\ ds[from(l)].slot # free /\ ds[from(m)].slot # free
    BY <1>3, <2>2, <2>3 DEF free
  <2>5. /\ es[l].index = ds[from(l)].index /\ es[m].index = ds[from(m)].index
        /\ es[l].slot = IF ds[from(l)].slot = last THEN free ELSE ds[from(l)].slot
        /\ es[m].slot = IF ds[from(m)].slot = last THEN free ELSE ds[from(m)].slot
    BY <1>10, <2>1
  <2> QED BY <2>4, <2>5
<1>13. \A m \in 1..Len(es) : es[m].slot <= Len(es) /\ Agrees(es[m], ci[es[m].slot])
  BY <1>2, <1>6, <1>10
<1>14. EntriesOK(es, ci, downloading \ {i})
  BY <1>6, <1>7, <1>11, <1>12, <1>13 DEF EntriesOK
<1>15. Kept(i, ds, bi, es, ci)
  <2> SUFFICES ASSUME NEW m \in 1..Len(es)
               PROVE  \E k \in 1..Len(ds) : ds[k].index = es[m].index /\ bi[ds[k].slot] = ci[es[m].slot]
    BY DEF Kept
  <2>1. m \in 1..(last - 1) /\ from(m) \in 1..Len(ds)
    BY <1>6, <1>8 DEF last
  <2> QED BY <2>1, <1>10
<1>16. \A m \in 1..(last - 1) : Complete(es[m]) = Complete(ds[IF m < n THEN m ELSE m + 1])
  BY <1>10 DEF from
<1> QED BY <1>1, <1>6, <1>14, <1>15, <1>16 DEF ds, bi, last, n

LEMMA KeptTwice ==
  ASSUME NEW i, NEW ds, NEW bi, NEW es, NEW ci, NEW fs, NEW di,
         Kept(i, ds, bi, es, ci), Kept(i, es, ci, fs, di)
  PROVE  Kept(i, ds, bi, fs, di)
<1> SUFFICES ASSUME NEW m \in 1..Len(fs), fs[m].index # i
             PROVE  \E l \in 1..Len(ds) : ds[l].index = fs[m].index /\ bi[ds[l].slot] = di[fs[m].slot]
  BY DEF Kept
<1>1. PICK n \in 1..Len(es) : es[n].index = fs[m].index /\ ci[es[n].slot] = di[fs[m].slot]
  BY DEF Kept
<1>2. PICK l \in 1..Len(ds) : ds[l].index = es[n].index /\ bi[ds[l].slot] = ci[es[n].slot]
  BY <1>1 DEF Kept
<1> QED BY <1>1, <1>2

-----------------------------------------------------------------------------
(***************************************************************************)
(* What the operations do to the entries.                                  *)
(***************************************************************************)

\* The step is about the blocks of piece i.
StepOf(i) ==
  /\ EntriesOK(downloads', blockInfo', downloading')
  /\ Kept(i, downloads, blockInfo, downloads', blockInfo')
  /\ downloading' \ {i} = downloading \ {i}

One(condition) == IF condition THEN 1 ELSE 0

\* A block may be in its state with its peers.
BlockOK(b) == b \in BlockType /\ (b.peers > 0 <=> b.state = "requested")

LEMMA AgreesAfter ==
  ASSUME NEW i \in Pieces, NEW f \in BlockTable, NEW k \in Blocks(i),
         NEW b, BlockOK(b), NEW e, NEW d, Agrees(e, f), e.index = i, d.index = i,
         d.requested = e.requested + One(b.state = "requested") - One(f[k].state = "requested"),
         d.writing = e.writing + One(b.state = "writing") - One(f[k].state = "writing"),
         d.finished = e.finished + One(b.state = "finished") - One(f[k].state = "finished"),
         d.speed = "none" <=> d.requested = 0
  PROVE  Agrees(d, [f EXCEPT ![k] = b]) /\ [f EXCEPT ![k] = b] \in BlockTable
<1> DEFINE g == [f EXCEPT ![k] = b]
<1>1. /\ g \in BlockTable
      /\ \A s : Count(g, i, s) = Count(f, i, s) + (IF b.state = s THEN 1 ELSE 0)
                                  - (IF f[k].state = s THEN 1 ELSE 0)
  BY CountChange DEF BlockOK
<1>2. \A j \in Blocks(i) : g[j] = IF j = k THEN b ELSE f[j]
  BY BlocksFinite DEF BlockTable
<1> HIDE DEF g
<1>3. \A j \in Blocks(i) : g[j].peers > 0 <=> g[j].state = "requested"
  BY <1>2 DEF Agrees, BlockOK
<1>4. d.requested = Count(g, i, "requested")
  BY <1>1 DEF Agrees, One
<1>5. d.writing = Count(g, i, "writing")
  BY <1>1 DEF Agrees, One
<1>6. d.finished = Count(g, i, "finished")
  BY <1>1 DEF Agrees, One
<1>7. Agrees(d, g)
  BY <1>3, <1>4, <1>5, <1>6 DEF Agrees
<1> QED BY <1>1, <1>7 DEF g

LEMMA CountPositive ==
  ASSUME NEW i \in Pieces, NEW f, NEW k \in Blocks(i)
  PROVE  Count(f, i, f[k].state) \in Nat \ {0}
<1> DEFINE S == {j \in Blocks(i) : f[j].state = f[k].state}
<1>1. S \in SUBSET Blocks(i) /\ S # {}
  OBVIOUS
<1>2. IsFiniteSet(S) /\ Cardinality(S) \in Nat /\ Cardinality(S) # 0
  BY <1>1, BlocksFinite, FS_EmptySet
<1> QED BY <1>2 DEF Count

LEMMA SetBlockStep ==
  ASSUME EntriesOK(downloads, blockInfo, downloading), NEW i \in downloading, downloading' = downloading,
         NEW k \in Blocks(i), NEW b, NEW d \in EntryType, d.index = i, d.slot = Entry(i).slot,
         [BlocksOf(i) EXCEPT ![k] = b] \in BlockTable, Agrees(d, [BlocksOf(i) EXCEPT ![k] = b]),
         SetBlock(i, k, b, d) \/ SetBlockAndSort(i, k, b, d)
  PROVE  StepOf(i)
<1> DEFINE n  == Position(i)
           f  == [BlocksOf(i) EXCEPT ![k] = b]
           es == [downloads EXCEPT ![n] = d]
           ci == [blockInfo EXCEPT ![downloads[n].slot] = f]
<1>1. /\ n \in 1..Len(downloads) /\ Entry(i) = downloads[n] /\ downloads[n].index = i
      /\ BlocksOf(i) = blockInfo[downloads[n].slot]
  BY Found
<1>2. [blockInfo EXCEPT ![Entry(i).slot][k] = b] = ci
  BY <1>1
<1>3. blockInfo' = ci /\ (downloads' = es \/ downloads' = SortPiece(es, n))
  BY <1>2 DEF SetBlock, SetBlockAndSort
<1> HIDE DEF f, n
<1>4. EntriesOK(es, ci, downloading) /\ Kept(i, downloads, blockInfo, es, ci)
  <2>1. f \in BlockTable /\ Agrees(d, f)
    BY DEF f
  <2> QED BY <1>1, <2>1, Replaced
<1>5. n \in 1..Len(es)
  <2>1. Len(es) = Len(downloads)
    BY <1>1, ExceptSeq DEF EntriesOK
  <2> QED BY <1>1, <2>1
<1> HIDE DEF es, ci
<1>6. EntriesOK(SortPiece(es, n), ci, downloading) /\ Kept(i, es, ci, SortPiece(es, n), ci)
  BY <1>4, <1>5, Sorted
<1>7. Kept(i, downloads, blockInfo, SortPiece(es, n), ci)
  BY <1>4, <1>6, KeptTwice
<1> QED BY <1>3, <1>4, <1>6, <1>7 DEF StepOf

LEMMA AddDownloadStep ==
  ASSUME EntriesOK(downloads, blockInfo, downloading), NEW i \in Pieces, i \notin downloading,
         NEW k \in Blocks(i), NEW b, BlockOK(b), NEW speed \in Speeds \cup {"none"},
         NEW requested, NEW finished,
         requested = One(b.state = "requested"), finished = One(b.state = "finished"),
         b.state # "writing", speed = "none" <=> requested = 0,
         AddDownload(i, k, b, speed, requested, finished)
  PROVE  StepOf(i) /\ downloading' = downloading \cup {i}
<1> DEFINE d  == [index |-> i, slot |-> Len(downloads) + 1, speed |-> speed,
                  requested |-> requested, writing |-> 0, finished |-> finished]
           f  == [FreshBlocks EXCEPT ![k] = b]
           es == Append(downloads, d)
           ci == Append(blockInfo, f)
<1>1. /\ downloading' = downloading \cup {i} /\ blockInfo' = ci
      /\ downloads' = es \/ downloads' = SortPiece(es, Len(es))
  BY DEF AddDownload
<1>2. Len(downloads) \in Nat /\ downloads \in Seq(EntryType)
  BY EntryFacts DEF EntriesOK
<1>3. d \in EntryType
  <2>1. requested \in Nat /\ finished \in Nat /\ Len(downloads) + 1 \in Nat \ {0}
    BY <1>2 DEF One
  <2> QED BY <2>1 DEF EntryType
<1>4. Agrees(d, f) /\ f \in BlockTable
  <2> DEFINE e == [index |-> i, speed |-> "none", requested |-> 0, writing |-> 0, finished |-> 0]
  <2>1. /\ FreshBlocks \in BlockTable
        /\ \A s : s # "none" => Count(FreshBlocks, i, s) = 0
        /\ \A j \in Blocks(i) : FreshBlocks[j] = [state |-> "none", peers |-> 0]
    BY CountFresh
  <2>2. Agrees(e, FreshBlocks) /\ e.index = i
    BY <2>1 DEF Agrees
  <2>3. /\ d.index = i
        /\ d.requested = e.requested + One(b.state = "requested") - One(FreshBlocks[k].state = "requested")
        /\ d.writing = e.writing + One(b.state = "writing") - One(FreshBlocks[k].state = "writing")
        /\ d.finished = e.finished + One(b.state = "finished") - One(FreshBlocks[k].state = "finished")
        /\ d.speed = "none" <=> d.requested = 0
    BY <2>1 DEF One
  <2> HIDE DEF d, e
  <2> QED BY <2>1, <2>2, <2>3, AgreesAfter
<1>5. d.index = i /\ d.slot = Len(downloads) + 1
  OBVIOUS
<1>6. Len(es) \in Nat /\ Len(es) \in 1..Len(es)
  BY <1>2, <1>3, AppendProperties
<1> HIDE DEF d, f
<1>7. EntriesOK(es, ci, downloading \cup {i}) /\ Kept(i, downloads, blockInfo, es, ci)
  BY <1>3, <1>4, <1>5, Added
<1> HIDE DEF es, ci
<1>8. /\ EntriesOK(SortPiece(es, Len(es)), ci, downloading \cup {i})
      /\ Kept(i, es, ci, SortPiece(es, Len(es)), ci)
  BY <1>6, <1>7, Sorted
<1>9. Kept(i, downloads, blockInfo, SortPiece(es, Len(es)), ci)
  BY <1>7, <1>8, KeptTwice
<1> QED BY <1>1, <1>7, <1>8, <1>9 DEF StepOf

LEMMA EraseStep ==
  ASSUME EntriesOK(downloads, blockInfo, downloading), NEW i \in downloading, EraseDownload(i)
  PROVE  StepOf(i) /\ downloading' = downloading \ {i}
BY Erased DEF StepOf

-----------------------------------------------------------------------------
(***************************************************************************)
(* The handlers.                                                           *)
(***************************************************************************)

\* What is known of a partial piece and of one of its blocks.
LEMMA Known ==
  ASSUME EntriesOK(downloads, blockInfo, downloading), NEW i \in downloading, NEW k \in Blocks(i)
  PROVE  /\ i \in Pieces /\ Entry(i) \in EntryType /\ Entry(i).index = i
         /\ BlocksOf(i) \in BlockTable /\ Agrees(Entry(i), BlocksOf(i))
         /\ BlocksOf(i)[k] \in BlockType /\ BlockState(i, k) = BlocksOf(i)[k].state
         /\ BlocksOf(i)[k].peers > 0 <=> BlockState(i, k) = "requested"
         /\ BlockState(i, k) = "requested" => Entry(i).requested > 0
         /\ BlockState(i, k) = "writing" => Entry(i).writing > 0
<1>1. /\ Position(i) \in 1..Len(downloads) /\ Entry(i) = downloads[Position(i)] /\ Entry(i).index = i
      /\ BlocksOf(i) = blockInfo[Entry(i).slot]
  BY Found
<1>2. Entry(i) \in EntryType /\ BlocksOf(i) \in BlockTable /\ i \in Pieces
  BY <1>1, EntryFacts
<1>3. Agrees(Entry(i), BlocksOf(i))
  BY <1>1 DEF EntriesOK
<1>4. k \in 0..(BlocksPerPiece - 1)
  BY <1>2, BlocksFinite
<1>5. BlocksOf(i)[k] \in BlockType
  BY <1>2, <1>4 DEF BlockTable
<1>6. Count(BlocksOf(i), i, BlockState(i, k)) \in Nat \ {0}
  BY <1>2, CountPositive DEF BlockState
<1>7. BlocksOf(i)[k].peers > 0 <=> BlockState(i, k) = "requested"
  BY <1>1, <1>3 DEF Agrees, BlockState
<1>8. BlockState(i, k) = "requested" => Entry(i).requested > 0
  BY <1>1, <1>3, <1>6 DEF Agrees
<1>9. BlockState(i, k) = "writing" => Entry(i).writing > 0
  BY <1>1, <1>3, <1>6 DEF Agrees
<1> QED BY <1>1, <1>2, <1>3, <1>5, <1>7, <1>8, <1>9 DEF BlockState

\* A block of a partial piece takes a new state and the entry follows.
LEMMA UpdateStep ==
  ASSUME EntriesOK(downloads, blockInfo, downloading), NEW i \in downloading, downloading' = downloading,
         NEW k \in Blocks(i), NEW b, BlockOK(b), NEW d \in EntryType,
         d.index = i, d.slot = Entry(i).slot,
         d.requested = Entry(i).requested + One(b.state = "requested") - One(BlockState(i, k) = "requested"),
         d.writing = Entry(i).writing + One(b.state = "writing") - One(BlockState(i, k) = "writing"),
         d.finished = Entry(i).finished + One(b.state = "finished") - One(BlockState(i, k) = "finished"),
         d.speed = "none" <=> d.requested = 0,
         SetBlock(i, k, b, d) \/ SetBlockAndSort(i, k, b, d)
  PROVE  StepOf(i)
<1>1. /\ i \in Pieces /\ Entry(i).index = i /\ BlocksOf(i) \in BlockTable
      /\ Agrees(Entry(i), BlocksOf(i)) /\ BlockState(i, k) = BlocksOf(i)[k].state
  BY Known
<1> DEFINE f == BlocksOf(i)
           e == Entry(i)
<1>2. Agrees(d, [f EXCEPT ![k] = b]) /\ [f EXCEPT ![k] = b] \in BlockTable
  <2>1. /\ f \in BlockTable /\ Agrees(e, f) /\ e.index = i
        /\ d.requested = e.requested + One(b.state = "requested") - One(f[k].state = "requested")
        /\ d.writing = e.writing + One(b.state = "writing") - One(f[k].state = "writing")
        /\ d.finished = e.finished + One(b.state = "finished") - One(f[k].state = "finished")
    BY <1>1
  <2> HIDE DEF e, f
  <2> QED BY <1>1, <2>1, AgreesAfter
<1> QED BY <1>2, SetBlockStep

LEMMA MarkAsDownloadingStep ==
  ASSUME BlocksInv, NEW i \in Pieces, NEW k \in Blocks(i), NEW speed \in Speeds,
         MarkAsDownloading(i, k, speed)
  PROVE  StepOf(i) /\ downloading' \subseteq downloading \cup {i}
<1>0. EntriesOK(downloads, blockInfo, downloading) /\ speed # "none"
  BY PickerAssumption DEF BlocksInv
<1>1. CASE i \notin downloading
  <2>1. AddDownload(i, k, Requested(1), speed, 1, 0)
    BY <1>1 DEF MarkAsDownloading
  <2>2. /\ BlockOK(Requested(1)) /\ 1 = One(Requested(1).state = "requested")
        /\ 0 = One(Requested(1).state = "finished") /\ Requested(1).state # "writing"
    BY DEF Requested, BlockOK, BlockType, One
  <2> QED BY <1>0, <1>1, <2>1, <2>2, AddDownloadStep
<1>2. CASE i \in downloading
  <2> DEFINE e == Entry(i)
             b == Requested(BlocksOf(i)[k].peers + 1)
             d == [e EXCEPT !.requested = IF BlockState(i, k) = "none" THEN @ + 1 ELSE @,
                            !.speed = IF @ = "none" THEN speed ELSE @]
  <2>1. SetBlock(i, k, b, d) /\ downloading' = downloading /\ BlockState(i, k) \in {"none", "requested"}
    BY <1>2 DEF MarkAsDownloading
  <2>2. /\ e \in EntryType /\ e.index = i /\ BlocksOf(i)[k] \in BlockType
        /\ BlockState(i, k) = "requested" => e.requested > 0
    BY <1>0, <1>2, Known
  <2>3. b.state = "requested" /\ BlockOK(b)
    BY <2>2 DEF Requested, BlockOK, BlockType
  <2> HIDE DEF e, b
  <2>4. /\ d \in EntryType /\ d.index = i /\ d.slot = e.slot
        /\ d.writing = e.writing /\ d.finished = e.finished
        /\ d.requested = IF BlockState(i, k) = "none" THEN e.requested + 1 ELSE e.requested
        /\ d.speed = IF e.speed = "none" THEN speed ELSE e.speed
    <3> DEFINE r == IF BlockState(i, k) = "none" THEN e.requested + 1 ELSE e.requested
               v == IF e.speed = "none" THEN speed ELSE e.speed
    <3>1. r \in Nat /\ v \in Speeds \cup {"none"}
      BY <2>2 DEF EntryType
    <3>2. d = [e EXCEPT !.requested = r, !.speed = v]
      OBVIOUS
    <3> HIDE DEF d, r, v
    <3>3. /\ d \in EntryType /\ d.index = i /\ d.slot = e.slot /\ d.writing = e.writing
          /\ d.finished = e.finished /\ d.requested = r /\ d.speed = v
      BY <2>2, <3>1, <3>2 DEF EntryType
    <3> QED BY <3>3 DEF r, v
  <2> HIDE DEF d
  <2>5. /\ d.requested = e.requested + One(b.state = "requested") - One(BlockState(i, k) = "requested")
        /\ d.writing = e.writing + One(b.state = "writing") - One(BlockState(i, k) = "writing")
        /\ d.finished = e.finished + One(b.state = "finished") - One(BlockState(i, k) = "finished")
    BY <2>1, <2>2, <2>3, <2>4 DEF One, EntryType
  <2>6. d.speed # "none" /\ d.requested # 0
    BY <1>0, <2>1, <2>2, <2>4 DEF EntryType
  <2> QED BY <1>0, <1>2, <2>1, <2>3, <2>4, <2>5, <2>6, UpdateStep DEF e
<1> QED BY <1>1, <1>2

LEMMA MarkAsWritingStep ==
  ASSUME BlocksInv, NEW i \in Pieces, NEW k \in Blocks(i), MarkAsWriting(i, k)
  PROVE  StepOf(i) /\ downloading' = downloading
<1>0. EntriesOK(downloads, blockInfo, downloading)
  BY DEF BlocksInv
<1> DEFINE e == Entry(i)
           b == Settled("writing")
           d == [e EXCEPT !.requested = @ - 1, !.writing = @ + 1,
                          !.speed = IF e.requested = 1 THEN "none" ELSE @]
<1>1. /\ SetBlockAndSort(i, k, b, d) /\ downloading' = downloading /\ i \in downloading
      /\ BlockState(i, k) = "requested"
  BY DEF MarkAsWriting
<1>2. /\ e \in EntryType /\ e.index = i /\ e.requested > 0
      /\ e.speed = "none" <=> e.requested = 0
  BY <1>0, <1>1, Known DEF Agrees
<1>3. b.state = "writing" /\ BlockOK(b)
  BY DEF Settled, BlockOK, BlockType
<1> HIDE DEF e, b
<1>4. /\ d \in EntryType /\ d.index = i /\ d.slot = e.slot
      /\ d.writing = e.writing + 1 /\ d.finished = e.finished /\ d.requested = e.requested - 1
      /\ d.speed = IF e.requested = 1 THEN "none" ELSE e.speed
  <2> DEFINE r == e.requested - 1
             w == e.writing + 1
             v == IF e.requested = 1 THEN "none" ELSE e.speed
  <2>1. r \in Nat /\ w \in Nat /\ v \in Speeds \cup {"none"}
    BY <1>2 DEF EntryType
  <2>2. d = [e EXCEPT !.requested = r, !.writing = w, !.speed = v]
    OBVIOUS
  <2> HIDE DEF d, r, w, v
  <2>3. /\ d \in EntryType /\ d.index = i /\ d.slot = e.slot /\ d.writing = w
        /\ d.finished = e.finished /\ d.requested = r /\ d.speed = v
    BY <1>2, <2>1, <2>2 DEF EntryType
  <2> QED BY <2>3 DEF r, w, v
<1> HIDE DEF d
<1>5. /\ d.requested = e.requested + One(b.state = "requested") - One(BlockState(i, k) = "requested")
      /\ d.writing = e.writing + One(b.state = "writing") - One(BlockState(i, k) = "writing")
      /\ d.finished = e.finished + One(b.state = "finished") - One(BlockState(i, k) = "finished")
      /\ d.speed = "none" <=> d.requested = 0
  BY <1>1, <1>2, <1>3, <1>4 DEF One, EntryType
<1> QED BY <1>0, <1>1, <1>3, <1>4, <1>5, UpdateStep DEF e

LEMMA WriteFailedStep ==
  ASSUME BlocksInv, NEW i \in Pieces, NEW k \in Blocks(i), WriteFailed(i, k)
  PROVE  StepOf(i) /\ downloading' = downloading
<1>0. EntriesOK(downloads, blockInfo, downloading)
  BY DEF BlocksInv
<1> DEFINE e == Entry(i)
           b == Settled("none")
           d == [e EXCEPT !.writing = @ - 1]
<1>1. /\ SetBlock(i, k, b, d) /\ downloading' = downloading /\ i \in downloading
      /\ BlockState(i, k) = "writing"
  BY DEF WriteFailed
<1>2. /\ e \in EntryType /\ e.index = i /\ e.writing > 0
      /\ e.speed = "none" <=> e.requested = 0
  BY <1>0, <1>1, Known DEF Agrees
<1>3. b.state = "none" /\ BlockOK(b)
  BY DEF Settled, BlockOK, BlockType
<1> HIDE DEF e, b
<1>4. /\ d \in EntryType /\ d.index = i /\ d.slot = e.slot
      /\ d.writing = e.writing - 1 /\ d.finished = e.finished /\ d.requested = e.requested
      /\ d.speed = e.speed
  BY <1>2 DEF EntryType
<1> HIDE DEF d
<1>5. /\ d.requested = e.requested + One(b.state = "requested") - One(BlockState(i, k) = "requested")
      /\ d.writing = e.writing + One(b.state = "writing") - One(BlockState(i, k) = "writing")
      /\ d.finished = e.finished + One(b.state = "finished") - One(BlockState(i, k) = "finished")
      /\ d.speed = "none" <=> d.requested = 0
  BY <1>1, <1>2, <1>3, <1>4 DEF One, EntryType
<1> QED BY <1>0, <1>1, <1>3, <1>4, <1>5, UpdateStep DEF e

LEMMA MarkAsFinishedStep ==
  ASSUME BlocksInv, NEW i \in Pieces, NEW k \in Blocks(i), MarkAsFinished(i, k)
  PROVE  StepOf(i) /\ downloading' \subseteq downloading \cup {i}
<1>0. EntriesOK(downloads, blockInfo, downloading)
  BY DEF BlocksInv
<1> DEFINE b == Settled("finished")
<1>1. b.state = "finished" /\ BlockOK(b)
  BY DEF Settled, BlockOK, BlockType
<1>2. CASE i \notin downloading
  <2>1. AddDownload(i, k, b, "none", 0, 1)
    BY <1>2 DEF MarkAsFinished
  <2>2. 0 = One(b.state = "requested") /\ 1 = One(b.state = "finished") /\ b.state # "writing"
    BY <1>1 DEF One
  <2> HIDE DEF b
  <2> QED BY <1>0, <1>1, <1>2, <2>1, <2>2, AddDownloadStep
<1>3. CASE i \in downloading /\ BlockState(i, k) = "writing"
  <2> DEFINE e == Entry(i)
             d == [e EXCEPT !.finished = @ + 1, !.writing = @ - 1]
  <2>1. SetBlock(i, k, b, d) /\ downloading' = downloading
    BY <1>3 DEF MarkAsFinished
  <2>2. /\ e \in EntryType /\ e.index = i /\ e.writing > 0
        /\ e.speed = "none" <=> e.requested = 0
    BY <1>0, <1>3, Known DEF Agrees
  <2> HIDE DEF e, b
  <2>3. /\ d \in EntryType /\ d.index = i /\ d.slot = e.slot
        /\ d.writing = e.writing - 1 /\ d.finished = e.finished + 1 /\ d.requested = e.requested
        /\ d.speed = e.speed
    <3> DEFINE f == e.finished + 1
               w == e.writing - 1
    <3>1. f \in Nat /\ w \in Nat
      BY <2>2 DEF EntryType
    <3>2. d = [e EXCEPT !.finished = f, !.writing = w]
      OBVIOUS
    <3> HIDE DEF d, f, w
    <3>3. /\ d \in EntryType /\ d.index = i /\ d.slot = e.slot /\ d.writing = w
          /\ d.finished = f /\ d.requested = e.requested /\ d.speed = e.speed
      BY <2>2, <3>1, <3>2 DEF EntryType
    <3> QED BY <3>3 DEF f, w
  <2> HIDE DEF d
  <2>4. /\ d.requested = e.requested + One(b.state = "requested") - One(BlockState(i, k) = "requested")
        /\ d.writing = e.writing + One(b.state = "writing") - One(BlockState(i, k) = "writing")
        /\ d.finished = e.finished + One(b.state = "finished") - One(BlockState(i, k) = "finished")
        /\ d.speed = "none" <=> d.requested = 0
    BY <1>1, <1>3, <2>2, <2>3 DEF One, EntryType
  <2> QED BY <1>0, <1>1, <1>3, <2>1, <2>3, <2>4, UpdateStep DEF e
<1>4. CASE i \in downloading /\ BlockState(i, k) = "none"
  <2> DEFINE e == Entry(i)
             d == [e EXCEPT !.finished = @ + 1]
  <2>1. SetBlockAndSort(i, k, b, d) /\ downloading' = downloading
    BY <1>4 DEF MarkAsFinished
  <2>2. e \in EntryType /\ e.index = i /\ (e.speed = "none" <=> e.requested = 0)
    BY <1>0, <1>4, Known DEF Agrees
  <2> HIDE DEF e, b
  <2>3. /\ d \in EntryType /\ d.index = i /\ d.slot = e.slot
        /\ d.writing = e.writing /\ d.finished = e.finished + 1 /\ d.requested = e.requested
        /\ d.speed = e.speed
    <3> DEFINE f == e.finished + 1
    <3>1. f \in Nat
      BY <2>2 DEF EntryType
    <3>2. d = [e EXCEPT !.finished = f]
      OBVIOUS
    <3> HIDE DEF d, f
    <3>3. /\ d \in EntryType /\ d.index = i /\ d.slot = e.slot /\ d.writing = e.writing
          /\ d.finished = f /\ d.requested = e.requested /\ d.speed = e.speed
      BY <2>2, <3>1, <3>2 DEF EntryType
    <3> QED BY <3>3 DEF f
  <2> HIDE DEF d
  <2>4. /\ d.requested = e.requested + One(b.state = "requested") - One(BlockState(i, k) = "requested")
        /\ d.writing = e.writing + One(b.state = "writing") - One(BlockState(i, k) = "writing")
        /\ d.finished = e.finished + One(b.state = "finished") - One(BlockState(i, k) = "finished")
        /\ d.speed = "none" <=> d.requested = 0
    BY <1>1, <1>4, <2>2, <2>3 DEF One, EntryType
  <2> QED BY <1>0, <1>1, <1>4, <2>1, <2>3, <2>4, UpdateStep DEF e
<1> QED BY <1>2, <1>3, <1>4 DEF MarkAsFinished

LEMMA AbortBlockStep ==
  ASSUME BlocksInv, NEW i \in downloading, NEW k \in Blocks(i), BlockState(i, k) = "requested",
         AbortBlock(i, k), downloading' = downloading
  PROVE  StepOf(i)
<1>0. EntriesOK(downloads, blockInfo, downloading)
  BY DEF BlocksInv
<1> DEFINE e == Entry(i)
           n == BlocksOf(i)[k].peers - 1
<1>1. /\ e \in EntryType /\ e.index = i /\ e.requested > 0 /\ BlocksOf(i)[k] \in BlockType
      /\ e.speed = "none" <=> e.requested = 0
      /\ BlocksOf(i)[k].peers > 0
  BY <1>0, Known DEF Agrees
<1>2. n \in Nat
  BY <1>1 DEF BlockType
<1>3. CASE n > 0
  <2> DEFINE b == Requested(n)
  <2>1. SetBlock(i, k, b, e)
    BY <1>3 DEF AbortBlock
  <2>2. b.state = "requested" /\ BlockOK(b)
    BY <1>2, <1>3 DEF Requested, BlockOK, BlockType
  <2> HIDE DEF e, b
  <2>3. /\ e.requested = e.requested + One(b.state = "requested") - One(BlockState(i, k) = "requested")
        /\ e.writing = e.writing + One(b.state = "writing") - One(BlockState(i, k) = "writing")
        /\ e.finished = e.finished + One(b.state = "finished") - One(BlockState(i, k) = "finished")
    BY <1>1, <2>2 DEF One, EntryType
  <2> QED BY <1>0, <1>1, <2>1, <2>2, <2>3, UpdateStep DEF e
<1>4. CASE ~(n > 0)
  <2> DEFINE b == Settled("none")
             d == [e EXCEPT !.requested = @ - 1, !.speed = IF e.requested = 1 THEN "none" ELSE @]
  <2>1. SetBlock(i, k, b, d)
    BY <1>4 DEF AbortBlock
  <2>2. b.state = "none" /\ BlockOK(b)
    BY DEF Settled, BlockOK, BlockType
  <2> HIDE DEF e, b
  <2>3. /\ d \in EntryType /\ d.index = i /\ d.slot = e.slot
        /\ d.writing = e.writing /\ d.finished = e.finished /\ d.requested = e.requested - 1
        /\ d.speed = IF e.requested = 1 THEN "none" ELSE e.speed
    <3> DEFINE r == e.requested - 1
               v == IF e.requested = 1 THEN "none" ELSE e.speed
    <3>1. r \in Nat /\ v \in Speeds \cup {"none"}
      BY <1>1 DEF EntryType
    <3>2. d = [e EXCEPT !.requested = r, !.speed = v]
      OBVIOUS
    <3> HIDE DEF d, r, v
    <3>3. /\ d \in EntryType /\ d.index = i /\ d.slot = e.slot /\ d.writing = e.writing
          /\ d.finished = e.finished /\ d.requested = r /\ d.speed = v
      BY <1>1, <3>1, <3>2 DEF EntryType
    <3> QED BY <3>3 DEF r, v
  <2> HIDE DEF d
  <2>4. /\ d.requested = e.requested + One(b.state = "requested") - One(BlockState(i, k) = "requested")
        /\ d.writing = e.writing + One(b.state = "writing") - One(BlockState(i, k) = "writing")
        /\ d.finished = e.finished + One(b.state = "finished") - One(BlockState(i, k) = "finished")
        /\ d.speed = "none" <=> d.requested = 0
    BY <1>1, <2>2, <2>3 DEF One, EntryType
  <2> QED BY <1>0, <2>1, <2>2, <2>3, <2>4, UpdateStep DEF e
<1> QED BY <1>3, <1>4

LEMMA AbortDownloadStep ==
  ASSUME BlocksInv, NEW i \in Pieces, NEW k \in Blocks(i), AbortDownload(i, k)
  PROVE  StepOf(i) /\ downloading' \subseteq downloading
<1>0. EntriesOK(downloads, blockInfo, downloading)
  BY DEF BlocksInv
<1>1. i \in downloading /\ BlockState(i, k) = "requested"
  BY DEF AbortDownload, MayAbort
<1>2. EraseDownload(i) \/ (AbortBlock(i, k) /\ downloading' = downloading)
  BY DEF AbortDownload
<1> QED BY <1>0, <1>1, <1>2, EraseStep, AbortBlockStep

-----------------------------------------------------------------------------
(***************************************************************************)
(* Every step.                                                             *)
(***************************************************************************)

\* A step is about the blocks of one piece, or drops all of them, or leaves
\* them alone; a piece that becomes partial is not one we have.
LEMMA BlocksCases ==
  ASSUME BlocksInv, PieceTypes, [Next]_vars
  PROVE  /\ downloading' \cap have' = {}
         /\ \/ UNCHANGED <<downloads, blockInfo, downloading>>
            \/ downloads' = <<>> /\ blockInfo' = <<>> /\ downloading' = {}
            \/ \E i \in Pieces : StepOf(i)
<1> DEFINE Result == /\ downloading' \cap have' = {}
                     /\ \/ UNCHANGED <<downloads, blockInfo, downloading>>
                        \/ downloads' = <<>> /\ blockInfo' = <<>> /\ downloading' = {}
                        \/ \E i \in Pieces : StepOf(i)
<1>0. EntriesOK(downloads, blockInfo, downloading) /\ downloading \cap have = {}
  BY DEF BlocksInv
<1>1. ASSUME \/ UpdatePieces
             \/ \E p \in Peers : Announce(p)
             \/ \E p \in Peers : Leave(p)
             \/ \E i \in Pieces, pr \in Priorities : SetPiecePriority(i, pr)
             \/ UNCHANGED vars
      PROVE  Result
  <2>1. UNCHANGED <<downloads, blockInfo, downloading, have>>
    BY <1>1 DEF UpdatePieces, Announce, Have, HaveAll, Bitfield, Leave, SetPiecePriority,
                downloadVars, vars
  <2> QED BY <1>0, <2>1
<1>2. ASSUME NEW i \in Pieces, WeHave(i) PROVE Result
  <2>1. have' = have \cup {i}
    BY <1>2 DEF WeHave
  <2>2. CASE i \in downloading
    <3>1. EraseDownload(i)
      BY <1>2, <2>2 DEF WeHave
    <3>2. StepOf(i) /\ downloading' = downloading \ {i}
      BY <1>0, <2>2, <3>1, EraseStep
    <3> QED BY <1>0, <2>1, <3>2
  <2>3. CASE i \notin downloading
    <3>1. UNCHANGED <<downloads, blockInfo, downloading>>
      BY <1>2, <2>3 DEF WeHave, downloadVars
    <3> QED BY <1>0, <2>1, <2>3, <3>1
  <2> QED BY <2>2, <2>3
<1>3. ASSUME NEW i \in Pieces, WeDontHave(i) PROVE Result
  <2>1. have' = have \ {i} /\ UNCHANGED <<downloads, blockInfo, downloading>>
    BY <1>3 DEF WeDontHave, downloadVars
  <2> QED BY <1>0, <2>1
<1>4. ASSUME NEW i \in Pieces, RestorePiece(i) PROVE Result
  <2>1. i \in downloading /\ EraseDownload(i) /\ have' = have
    BY <1>4 DEF RestorePiece
  <2>2. StepOf(i) /\ downloading' = downloading \ {i}
    BY <1>0, <2>1, EraseStep
  <2> QED BY <1>0, <2>1, <2>2
<1>5. ASSUME NEW i \in Pieces, NEW k \in Blocks(i), BlockStep(i, k) PROVE Result
  <2>1. have' = have
    BY <1>5 DEF BlockStep, MarkAsDownloading, MarkAsWriting, WriteFailed, MarkAsFinished,
                AbortDownload, UnlistedVars
  <2>2. ASSUME NEW speed \in Speeds, MarkAsDownloading(i, k, speed) PROVE Result
    <3>1. StepOf(i) /\ downloading' \subseteq downloading \cup {i} /\ i \notin have
      BY <2>2, MarkAsDownloadingStep DEF MarkAsDownloading
    <3> QED BY <1>0, <2>1, <3>1
  <2>3. ASSUME MarkAsWriting(i, k) PROVE Result
    BY <1>0, <2>1, <2>3, MarkAsWritingStep
  <2>4. ASSUME WriteFailed(i, k) PROVE Result
    BY <1>0, <2>1, <2>4, WriteFailedStep
  <2>5. ASSUME MarkAsFinished(i, k) PROVE Result
    <3>1. StepOf(i) /\ downloading' \subseteq downloading \cup {i} /\ i \notin have
      BY <2>5, MarkAsFinishedStep DEF MarkAsFinished
    <3> QED BY <1>0, <2>1, <3>1
  <2>6. ASSUME AbortDownload(i, k) PROVE Result
    <3>1. StepOf(i) /\ downloading' \subseteq downloading
      BY <2>6, AbortDownloadStep
    <3> QED BY <1>0, <2>1, <3>1
  <2> QED BY <1>5, <2>2, <2>3, <2>4, <2>5, <2>6 DEF BlockStep
<1>6. ASSUME Recheck PROVE Result
  BY <1>6 DEF Recheck
<1> HIDE DEF Result
<1>7. Result
  <2>1. \/ UpdatePieces
        \/ \E p \in Peers : Announce(p)
        \/ \E p \in Peers : Leave(p)
        \/ \E i \in Pieces, pr \in Priorities : SetPiecePriority(i, pr)
        \/ UNCHANGED vars
        \/ \E i \in Pieces : WeHave(i)
        \/ \E i \in Pieces : WeDontHave(i)
        \/ \E i \in Pieces : RestorePiece(i)
        \/ \E i \in Pieces : \E k \in Blocks(i) : BlockStep(i, k)
        \/ Recheck
    BY DEF Next
  <2> QED BY <2>1, <1>1, <1>2, <1>3, <1>4, <1>5, <1>6
<1> QED BY <1>7 DEF Result

LEMMA NoEntries == EntriesOK(<<>>, <<>>, {})
<1>1. /\ <<>> \in Seq(EntryType) /\ <<>> \in Seq(BlockTable) /\ Len(<<>>) = 0 /\ 1..0 = {}
  BY EmptySeq
<1> QED BY <1>1 DEF EntriesOK

LEMMA BlocksInit == Init => BlocksInv
BY NoEntries DEF Init, BlocksInv

LEMMA BlocksStep ==
  ASSUME BlocksInv, PieceTypes, [Next]_vars
  PROVE  BlocksInv'
<1>1. downloading' \cap have' = {}
  BY BlocksCases
<1>2. CASE UNCHANGED <<downloads, blockInfo, downloading>>
  BY <1>1, <1>2 DEF BlocksInv
<1>3. CASE downloads' = <<>> /\ blockInfo' = <<>> /\ downloading' = {}
  BY <1>1, <1>3, NoEntries DEF BlocksInv
<1>4. ASSUME NEW i \in Pieces, StepOf(i) PROVE BlocksInv'
  BY <1>1, <1>4 DEF BlocksInv, StepOf
<1> QED BY <1>2, <1>3, <1>4, BlocksCases

LEMMA BlocksAlways == Spec => [](PiecesInv /\ BlocksInv)
<1>1. Init => BlocksInv
  BY BlocksInit
<1>2. PiecesInv /\ BlocksInv /\ [Next]_vars => BlocksInv'
  BY BlocksStep DEF PiecesInv
<1> QED BY <1>1, <1>2, PiecesAlways, PTL DEF Spec

-----------------------------------------------------------------------------
(***************************************************************************)
(* The order of m_downloads.                                               *)
(***************************************************************************)

\* In descending order of complete blocks, for any two entries.
Descending(ds) ==
  \A a, b \in 1..Len(ds) : a < b => Complete(ds[a]) >= Complete(ds[b])

LEMMA CompleteType ==
  ASSUME NEW ds \in Seq(EntryType)
  PROVE  Len(ds) \in Nat /\ \A n \in 1..Len(ds) : ds[n] \in EntryType /\ Complete(ds[n]) \in Nat
<1>1. Len(ds) \in Nat
  BY LenProperties
<1>2. ASSUME NEW n \in 1..Len(ds) PROVE ds[n] \in EntryType /\ Complete(ds[n]) \in Nat
  <2>1. ds[n] \in EntryType
    BY <1>2, ElementOfSeq
  <2>2. ds[n].finished \in Nat /\ ds[n].writing \in Nat
    BY <2>1 DEF EntryType
  <2> QED BY <2>1, <2>2 DEF Complete
<1> QED BY <1>1, <1>2

LEMMA DescendingForm ==
  ASSUME NEW ds \in Seq(EntryType)
  PROVE  Descending(ds) <=>
           \A n \in 1..(Len(ds) - 1) : Complete(ds[n]) >= Complete(ds[n + 1])
<1> DEFINE C(n) == Complete(ds[n])
           L == Len(ds)
           T == {k \in Nat : \A a, b \in 1..L : b = a + k => C(a) >= C(b)}
<1>1. L \in Nat /\ \A n \in 1..L : C(n) \in Nat
  BY CompleteType
<1> HIDE DEF C, L
<1>2. ASSUME \A n \in 1..(L - 1) : C(n) >= C(n + 1) PROVE Nat \subseteq T
  <2>1. 0 \in T
    BY <1>1
  <2>2. ASSUME NEW k \in Nat, k \in T PROVE k + 1 \in T
    <3> SUFFICES ASSUME NEW a \in 1..L, NEW b \in 1..L, b = a + (k + 1) PROVE C(a) >= C(b)
      OBVIOUS
    <3>1. b - 1 \in 1..L /\ b - 1 = a + k /\ b - 1 \in 1..(L - 1) /\ (b - 1) + 1 = b
      BY <1>1
    <3>2. C(a) >= C(b - 1)
      BY <2>2, <3>1
    <3>3. C(b - 1) >= C(b)
      BY <1>2, <3>1
    <3>4. C(a) \in Nat /\ C(b - 1) \in Nat /\ C(b) \in Nat
      BY <1>1, <3>1
    <3> QED BY <3>2, <3>3, <3>4
  <2> HIDE DEF T
  <2> QED BY <2>1, <2>2, SetInduction
<1>3. ASSUME Nat \subseteq T, NEW a \in 1..L, NEW b \in 1..L, a < b PROVE C(a) >= C(b)
  <2>1. b - a \in Nat /\ b = a + (b - a)
    BY <1>1, <1>3
  <2>2. b - a \in T
    BY <1>3, <2>1
  <2> QED BY <2>1, <2>2
<1>4. ASSUME \A a, b \in 1..L : a < b => C(a) >= C(b), NEW n \in 1..(L - 1)
      PROVE  C(n) >= C(n + 1)
  <2>1. n \in 1..L /\ n + 1 \in 1..L /\ n < n + 1
    BY <1>1
  <2> QED BY <1>4, <2>1
<1>5. (\A a, b \in 1..L : a < b => C(a) >= C(b)) <=> \A n \in 1..(L - 1) : C(n) >= C(n + 1)
  BY <1>2, <1>3, <1>4
<1> QED BY <1>5 DEF Descending, C, L

\* sort_piece restores the order when only the entry n has grown.
LEMMA SortSorts ==
  ASSUME NEW ds \in Seq(EntryType), NEW n \in 1..Len(ds)
  PROVE  (\A a, b \in 1..Len(ds) : a < b /\ b # n => Complete(ds[a]) >= Complete(ds[b]))
           => Descending(SortPiece(ds, n))
<1>a. PICK stop \in 0..(n - 1) :
        /\ stop > 0 => Complete(ds[stop]) >= Complete(ds[n])
        /\ \A m \in 1..(n - 1) : Complete(ds[m]) >= Complete(ds[n]) => m <= stop
        /\ SortPiece(ds, n) \in Seq(EntryType) /\ Len(SortPiece(ds, n)) = Len(ds)
        /\ \A m \in 1..Len(ds) :
             SortPiece(ds, n)[m] = IF m <= stop THEN ds[m] ELSE IF m = stop + 1 THEN ds[n]
                                   ELSE IF m <= n THEN ds[m - 1] ELSE ds[m]
  BY SortFacts, ZenonT(30)
<1> SUFFICES ASSUME \A a, b \in 1..Len(ds) : a < b /\ b # n => Complete(ds[a]) >= Complete(ds[b])
             PROVE  Descending(SortPiece(ds, n))
  OBVIOUS
<1> DEFINE L == Len(ds)
           es == SortPiece(ds, n)
           C(m) == Complete(ds[m])
<1>1. /\ stop > 0 => C(stop) >= C(n)
      /\ \A m \in 1..(n - 1) : C(m) >= C(n) => m <= stop
      /\ Len(es) = L
      /\ \A m \in 1..L : es[m] = IF m <= stop THEN ds[m] ELSE IF m = stop + 1 THEN ds[n]
                                  ELSE IF m <= n THEN ds[m - 1] ELSE ds[m]
  BY <1>a
<1>2. L \in Nat /\ n \in Nat /\ stop \in Nat /\ stop <= n - 1 /\ 1 <= n /\ n <= L
      /\ \A m \in 1..L : C(m) \in Nat
  BY CompleteType
<1>3. \A a, b \in 1..L : a < b /\ b # n => C(a) >= C(b)
  OBVIOUS
<1> DEFINE from(m) == IF m <= stop THEN m ELSE IF m = stop + 1 THEN n
                      ELSE IF m <= n THEN m - 1 ELSE m
<1>4. \A m \in 1..L : es[m] = ds[from(m)] /\ from(m) \in 1..L
  BY <1>1, <1>2
<1>5. \A m \in 1..L : Complete(es[m]) = C(from(m))
  BY <1>4
<1> HIDE DEF C, es, L
<1> SUFFICES ASSUME NEW a \in 1..L, NEW b \in 1..L, a < b PROVE C(from(a)) >= C(from(b))
  BY <1>1, <1>5 DEF Descending, es
<1>6. a \in Nat /\ b \in Nat
  BY <1>2
<1>7. CASE b # stop + 1 /\ a # stop + 1
  <2>1. from(a) \in 1..L /\ from(b) \in 1..L /\ from(a) < from(b) /\ from(b) # n
    BY <1>2, <1>6, <1>7
  <2> QED BY <2>1, <1>3
<1>8. CASE b = stop + 1
  <2>1. from(a) = a /\ from(b) = n /\ a <= stop /\ stop > 0 /\ stop \in 1..L /\ stop # n
    BY <1>2, <1>6, <1>8
  <2>2. C(stop) >= C(n)
    BY <1>1, <2>1
  <2>3. C(a) >= C(stop)
    <3>1. CASE a = stop
      BY <3>1, <1>2
    <3>2. CASE a < stop
      BY <3>2, <2>1, <1>3
    <3> QED BY <3>1, <3>2, <2>1, <1>2, <1>6
  <2>4. C(a) \in Nat /\ C(stop) \in Nat /\ C(n) \in Nat
    BY <1>2, <2>1
  <2> QED BY <2>1, <2>2, <2>3, <2>4
<1>9. CASE a = stop + 1
  <2>1. from(a) = n
    BY <1>2, <1>9
  <2>2. CASE b <= n
    <3>1. from(b) = b - 1 /\ b - 1 \in 1..(n - 1) /\ ~(b - 1 <= stop) /\ b - 1 \in 1..L
      BY <1>2, <1>6, <1>9, <2>2
    <3>2. ~(C(b - 1) >= C(n))
      BY <1>1, <3>1
    <3>3. C(b - 1) \in Nat /\ C(n) \in Nat
      BY <1>2, <3>1
    <3> QED BY <2>1, <3>1, <3>2, <3>3
  <2>3. CASE b > n
    <3>1. from(b) = b /\ b # n /\ n < b /\ n \in 1..L
      BY <1>2, <1>6, <1>9, <2>3
    <3> QED BY <2>1, <3>1, <1>3
  <2> QED BY <2>2, <2>3, <1>2, <1>6
<1> QED BY <1>7, <1>8, <1>9

\* The entry of i is replaced by one with as many complete blocks, or with more
\* and sorted.
LEMMA SetBlockSorted ==
  ASSUME EntriesOK(downloads, blockInfo, downloading), Descending(downloads),
         NEW i \in downloading, NEW k, NEW b, NEW d \in EntryType,
         \/ SetBlock(i, k, b, d) /\ Complete(d) = Complete(Entry(i))
         \/ SetBlockAndSort(i, k, b, d) /\ Complete(d) >= Complete(Entry(i))
  PROVE  Descending(downloads')
<1> DEFINE n  == Position(i)
           L  == Len(downloads)
           es == [downloads EXCEPT ![n] = d]
<1>1. n \in 1..L /\ Entry(i) = downloads[n] /\ downloads \in Seq(EntryType)
  BY Found DEF EntriesOK
<1> HIDE DEF n
<1>2. es \in Seq(EntryType) /\ Len(es) = L
      /\ es[n] = d /\ \A m \in 1..L : m # n => es[m] = downloads[m]
  BY <1>1, ExceptSeq
<1>3. L \in Nat /\ Complete(d) \in Nat /\ \A m \in 1..L : Complete(downloads[m]) \in Nat
  <2>1. L \in Nat /\ \A m \in 1..L : Complete(downloads[m]) \in Nat
    BY <1>1, CompleteType
  <2>2. d.finished \in Nat /\ d.writing \in Nat
    BY DEF EntryType
  <2> QED BY <2>1, <2>2 DEF Complete
<1>4. \A l, m \in 1..L : l < m => Complete(downloads[l]) >= Complete(downloads[m])
  BY DEF Descending
<1>5. CASE SetBlock(i, k, b, d) /\ Complete(d) = Complete(Entry(i))
  <2>1. downloads' = es
    BY <1>5 DEF SetBlock, n
  <2> HIDE DEF es
  <2>2. \A m \in 1..L : Complete(es[m]) = Complete(downloads[m])
    BY <1>1, <1>2, <1>5
  <2>3. Descending(es)
    BY <1>2, <1>4, <2>2 DEF Descending
  <2> QED BY <2>1, <2>3
<1>6. CASE SetBlockAndSort(i, k, b, d) /\ Complete(d) >= Complete(Entry(i))
  <2>1. downloads' = SortPiece(es, n)
    BY <1>6 DEF SetBlockAndSort, n
  <2> HIDE DEF es
  <2>2. ASSUME NEW l \in 1..Len(es), NEW m \in 1..Len(es), l < m, m # n
        PROVE  Complete(es[l]) >= Complete(es[m])
    <3>1. Complete(downloads[l]) >= Complete(downloads[m]) /\ es[m] = downloads[m]
      BY <1>2, <1>4, <2>2
    <3>2. Complete(es[l]) >= Complete(downloads[l]) /\ Complete(es[l]) \in Nat
      BY <1>1, <1>2, <1>3, <1>6
    <3>3. Complete(downloads[l]) \in Nat /\ Complete(downloads[m]) \in Nat
      BY <1>2, <1>3
    <3> QED BY <3>1, <3>2, <3>3
  <2> QED BY <1>1, <1>2, <2>1, <2>2, SortSorts
<1> QED BY <1>5, <1>6

LEMMA AddSorted ==
  ASSUME EntriesOK(downloads, blockInfo, downloading), Descending(downloads), NEW i \in Pieces,
         NEW k, NEW b, NEW speed \in Speeds \cup {"none"}, NEW requested \in Nat,
         NEW finished \in {0, 1}, AddDownload(i, k, b, speed, requested, finished)
  PROVE  Descending(downloads')
<1> DEFINE d  == [index |-> i, slot |-> Len(downloads) + 1, speed |-> speed,
                  requested |-> requested, writing |-> 0, finished |-> finished]
           es == Append(downloads, d)
           L  == Len(downloads)
<1>1. downloads' = IF finished = 1 THEN SortPiece(es, Len(es)) ELSE es
  BY DEF AddDownload
<1>2. downloads \in Seq(EntryType) /\ L \in Nat /\ \A m \in 1..L : Complete(downloads[m]) \in Nat
  BY CompleteType DEF EntriesOK
<1>3. d \in EntryType /\ Complete(d) = finished
  BY <1>2 DEF EntryType, Complete
<1> HIDE DEF d
<1>4. es \in Seq(EntryType) /\ Len(es) = L + 1
      /\ es[L + 1] = d /\ \A m \in 1..L : es[m] = downloads[m]
  BY <1>2, <1>3, AppendProperties
<1> HIDE DEF es
<1>5. ASSUME NEW l \in 1..Len(es), NEW m \in 1..Len(es), l < m, m # L + 1
      PROVE  Complete(es[l]) >= Complete(es[m])
  <2>1. l \in 1..L /\ m \in 1..L
    BY <1>2, <1>4, <1>5
  <2>2. Complete(downloads[l]) >= Complete(downloads[m])
    BY <1>5, <2>1 DEF Descending
  <2> QED BY <1>4, <2>1, <2>2
<1>6. CASE finished = 1
  <2>1. L + 1 \in 1..Len(es)
    BY <1>2, <1>4
  <2> QED BY <1>1, <1>4, <1>5, <1>6, <2>1, SortSorts
<1>7. CASE finished = 0
  <2>1. ASSUME NEW l \in 1..Len(es), NEW m \in 1..Len(es), l < m, m = L + 1
        PROVE  Complete(es[l]) >= Complete(es[m])
    <3>1. l \in 1..L /\ es[m] = d
      BY <1>2, <1>4, <2>1
    <3>2. Complete(es[l]) \in Nat /\ Complete(es[m]) = 0
      BY <1>2, <1>3, <1>4, <1>7, <3>1
    <3> QED BY <3>2
  <2> QED BY <1>1, <1>5, <1>7, <2>1 DEF Descending
<1> QED BY <1>6, <1>7

LEMMA EraseSorted ==
  ASSUME EntriesOK(downloads, blockInfo, downloading), Descending(downloads),
         NEW i \in downloading, EraseDownload(i)
  PROVE  Descending(downloads')
<1> DEFINE L == Len(downloads)
           from(m) == IF m < Position(i) THEN m ELSE m + 1
<1>1. /\ Len(downloads') = L - 1
      /\ \A m \in 1..(L - 1) : Complete(downloads'[m]) = Complete(downloads[from(m)])
  BY Erased
<1>2. L \in Nat /\ Position(i) \in 1..L
  BY Found, EntryFacts
<1>3. ASSUME NEW a \in 1..(L - 1), NEW b \in 1..(L - 1), a < b
      PROVE  from(a) \in 1..L /\ from(b) \in 1..L /\ from(a) < from(b)
  BY <1>2, <1>3
<1> HIDE DEF from
<1> QED BY <1>1, <1>3 DEF Descending

\* Every handler but write_failed keeps the order.
LEMMA BlockStepSorted ==
  ASSUME BlocksInv, Descending(downloads), NEW i \in Pieces, NEW k \in Blocks(i),
         BlockStep(i, k), ~WriteFailed(i, k)
  PROVE  Descending(downloads')
<1>0. EntriesOK(downloads, blockInfo, downloading)
  BY DEF BlocksInv
<1> DEFINE e == Entry(i)
<1>1. i \in downloading =>
        /\ e \in EntryType /\ e.index \in Pieces /\ e.slot \in Nat \ {0}
        /\ e.speed \in Speeds \cup {"none"}
        /\ e.requested \in Nat /\ e.writing \in Nat /\ e.finished \in Nat
        /\ BlockState(i, k) = "requested" => e.requested > 0
        /\ BlockState(i, k) = "writing" => e.writing > 0
  BY <1>0, Known DEF EntryType
<1> HIDE DEF e
\* an entry that takes new counts
<1>2. ASSUME i \in downloading, NEW r \in Nat, NEW w \in Nat, NEW f \in Nat,
             NEW v \in Speeds \cup {"none"}
      PROVE  /\ [e EXCEPT !.requested = r, !.speed = v] \in EntryType
             /\ Complete([e EXCEPT !.requested = r, !.speed = v]) = Complete(e)
             /\ [e EXCEPT !.requested = r, !.writing = w, !.speed = v] \in EntryType
             /\ Complete([e EXCEPT !.requested = r, !.writing = w, !.speed = v]) = e.finished + w
             /\ [e EXCEPT !.finished = f, !.writing = w] \in EntryType
             /\ Complete([e EXCEPT !.finished = f, !.writing = w]) = f + w
             /\ [e EXCEPT !.finished = f] \in EntryType
             /\ Complete([e EXCEPT !.finished = f]) = f + e.writing
  <2>0. e \in EntryType
    BY <1>1, <1>2
  <2>1. /\ [e EXCEPT !.requested = r, !.speed = v] \in EntryType
        /\ Complete([e EXCEPT !.requested = r, !.speed = v]) = Complete(e)
    BY <2>0, <1>2 DEF EntryType, Complete
  <2>2. /\ [e EXCEPT !.requested = r, !.writing = w, !.speed = v] \in EntryType
        /\ Complete([e EXCEPT !.requested = r, !.writing = w, !.speed = v]) = e.finished + w
    BY <2>0, <1>2 DEF EntryType, Complete
  <2>3. /\ [e EXCEPT !.finished = f, !.writing = w] \in EntryType
        /\ Complete([e EXCEPT !.finished = f, !.writing = w]) = f + w
    BY <2>0, <1>2 DEF EntryType, Complete
  <2>4. /\ [e EXCEPT !.finished = f] \in EntryType
        /\ Complete([e EXCEPT !.finished = f]) = f + e.writing
    BY <2>0, <1>2 DEF EntryType, Complete
  <2> QED BY <2>1, <2>2, <2>3, <2>4
<1>3. ASSUME NEW speed \in Speeds, MarkAsDownloading(i, k, speed) PROVE Descending(downloads')
  <2>1. CASE i \notin downloading
    BY <1>0, <1>3, <2>1, AddSorted DEF MarkAsDownloading
  <2>2. CASE i \in downloading
    <3> DEFINE r == IF BlockState(i, k) = "none" THEN e.requested + 1 ELSE e.requested
               v == IF e.speed = "none" THEN speed ELSE e.speed
               b == Requested(BlocksOf(i)[k].peers + 1)
    <3>1. SetBlock(i, k, b, [e EXCEPT !.requested = r, !.speed = v])
      BY <1>3, <2>2 DEF MarkAsDownloading, e
    <3>2. r \in Nat /\ v \in Speeds \cup {"none"}
      BY <1>1, <2>2
    <3> HIDE DEF r, v, b
    <3>3. /\ [e EXCEPT !.requested = r, !.speed = v] \in EntryType
          /\ Complete([e EXCEPT !.requested = r, !.speed = v]) = Complete(e)
      BY <1>2, <2>2, <3>2
    <3> QED BY <1>0, <2>2, <3>1, <3>3, SetBlockSorted DEF e
  <2> QED BY <2>1, <2>2
<1>4. ASSUME MarkAsWriting(i, k) PROVE Descending(downloads')
  <2> DEFINE r == e.requested - 1
             w == e.writing + 1
             v == IF e.requested = 1 THEN "none" ELSE e.speed
             b == Settled("writing")
  <2>1. /\ i \in downloading /\ BlockState(i, k) = "requested"
        /\ SetBlockAndSort(i, k, b, [e EXCEPT !.requested = r, !.writing = w, !.speed = v])
    BY <1>4 DEF MarkAsWriting, e
  <2>2. r \in Nat /\ w \in Nat /\ v \in Speeds \cup {"none"}
    BY <1>1, <2>1
  <2>3. e.finished + w >= Complete(e)
    BY <1>1, <2>1 DEF Complete
  <2> HIDE DEF r, w, v, b
  <2>4. /\ [e EXCEPT !.requested = r, !.writing = w, !.speed = v] \in EntryType
        /\ Complete([e EXCEPT !.requested = r, !.writing = w, !.speed = v]) >= Complete(e)
    BY <1>2, <2>1, <2>2, <2>3
  <2> QED BY <1>0, <2>1, <2>4, SetBlockSorted DEF e
<1>5. ASSUME MarkAsFinished(i, k) PROVE Descending(downloads')
  <2> DEFINE b == Settled("finished")
             f == e.finished + 1
             w == e.writing - 1
  <2>1. CASE i \notin downloading
    BY <1>0, <1>5, <2>1, AddSorted DEF MarkAsFinished
  <2>2. CASE i \in downloading /\ BlockState(i, k) = "writing"
    <3>1. SetBlock(i, k, b, [e EXCEPT !.finished = f, !.writing = w])
      BY <1>5, <2>2 DEF MarkAsFinished, e
    <3>2. f \in Nat /\ w \in Nat /\ f + w = Complete(e)
      BY <1>1, <2>2 DEF Complete
    <3> HIDE DEF f, w, b
    <3>3. /\ [e EXCEPT !.finished = f, !.writing = w] \in EntryType
          /\ Complete([e EXCEPT !.finished = f, !.writing = w]) = Complete(e)
      BY <1>1, <1>2, <2>2, <3>2
    <3> QED BY <1>0, <2>2, <3>1, <3>3, SetBlockSorted DEF e
  <2>3. CASE i \in downloading /\ BlockState(i, k) = "none"
    <3>1. SetBlockAndSort(i, k, b, [e EXCEPT !.finished = f])
      BY <1>5, <2>3 DEF MarkAsFinished, e
    <3>2. f \in Nat /\ f + e.writing >= Complete(e)
      BY <1>1, <2>3 DEF Complete
    <3> HIDE DEF f, b
    <3>3. /\ [e EXCEPT !.finished = f] \in EntryType
          /\ Complete([e EXCEPT !.finished = f]) >= Complete(e)
      BY <1>1, <1>2, <2>3, <3>2
    <3> QED BY <1>0, <2>3, <3>1, <3>3, SetBlockSorted DEF e
  <2> QED BY <1>5, <2>1, <2>2, <2>3 DEF MarkAsFinished
<1>6. ASSUME AbortDownload(i, k) PROVE Descending(downloads')
  <2>1. i \in downloading /\ BlockState(i, k) = "requested"
    BY <1>6 DEF AbortDownload, MayAbort
  <2>2. CASE EraseDownload(i)
    BY <1>0, <2>1, <2>2, EraseSorted
  <2>3. CASE AbortBlock(i, k)
    <3> DEFINE n == BlocksOf(i)[k].peers - 1
               r == e.requested - 1
               v == IF e.requested = 1 THEN "none" ELSE e.speed
    <3>1. \/ SetBlock(i, k, Requested(n), e)
          \/ SetBlock(i, k, Settled("none"), [e EXCEPT !.requested = r, !.speed = v])
      BY <2>3 DEF AbortBlock, e
    <3>2. r \in Nat /\ v \in Speeds \cup {"none"} /\ e \in EntryType
      BY <1>1, <2>1
    <3> HIDE DEF r, v, n
    <3>3. /\ [e EXCEPT !.requested = r, !.speed = v] \in EntryType
          /\ Complete([e EXCEPT !.requested = r, !.speed = v]) = Complete(e)
      BY <1>2, <2>1, <3>2
    <3>4. CASE SetBlock(i, k, Requested(n), e)
      BY <1>0, <2>1, <3>2, <3>4, SetBlockSorted DEF e
    <3>5. CASE SetBlock(i, k, Settled("none"), [e EXCEPT !.requested = r, !.speed = v])
      BY <1>0, <2>1, <3>3, <3>5, SetBlockSorted DEF e
    <3> QED BY <3>1, <3>4, <3>5
  <2> QED BY <1>6, <2>2, <2>3 DEF AbortDownload
<1> QED BY <1>3, <1>4, <1>5, <1>6 DEF BlockStep

LEMMA SortedStep ==
  ASSUME BlocksInv, BlocksInv', DownloadsSorted, [Next]_vars
  PROVE  DownloadsSorted' \/ \E i \in Pieces : \E k \in Blocks(i) : WriteFailed(i, k)
<1>0. /\ EntriesOK(downloads, blockInfo, downloading)
      /\ downloads \in Seq(EntryType) /\ downloads' \in Seq(EntryType)
  BY DEF BlocksInv, EntriesOK
<1>1. Descending(downloads)
  BY <1>0, DescendingForm DEF DownloadsSorted
<1> SUFFICES ASSUME ~ \E i \in Pieces : \E k \in Blocks(i) : WriteFailed(i, k)
             PROVE  Descending(downloads')
  BY <1>0, DescendingForm DEF DownloadsSorted
<1>2. CASE downloads' = downloads
  BY <1>1, <1>2
<1>3. CASE downloads' = <<>>
  BY <1>3 DEF Descending
<1>4. ASSUME NEW i \in downloading, EraseDownload(i) PROVE Descending(downloads')
  BY <1>0, <1>1, <1>4, EraseSorted
<1>5. ASSUME NEW i \in Pieces, NEW k \in Blocks(i), BlockStep(i, k) PROVE Descending(downloads')
  BY <1>1, <1>5, BlockStepSorted
<1>6. \/ downloads' = downloads \/ downloads' = <<>>
      \/ \E i \in downloading : EraseDownload(i)
      \/ \E i \in Pieces : \E k \in Blocks(i) : BlockStep(i, k)
  BY DEF Next, UpdatePieces, Announce, Have, HaveAll, Bitfield, Leave, WeHave, WeDontHave,
         SetPiecePriority, RestorePiece, Recheck, downloadVars, vars
<1> QED BY <1>2, <1>3, <1>4, <1>5, <1>6

-----------------------------------------------------------------------------
(***************************************************************************)
(* The theorems.                                                           *)
(***************************************************************************)

\* No count goes below 0 and no cursor beyond the pieces: the counters count
\* sets of pieces and of blocks.
THEOREM TypeCorrect == Spec => []TypeOK
<1>1. ASSUME PiecesInv, BlocksInv PROVE TypeOK
  <2>1. numHave \in Nat /\ numFiltered \in Nat /\ numHaveFiltered \in Nat
    <3>1. have \in SUBSET Pieces /\ Filtered \ have \in SUBSET Pieces /\ Filtered \cap have \in SUBSET Pieces
      BY <1>1 DEF PiecesInv, PieceTypes, Filtered
    <3>2. /\ Cardinality(have) \in Nat /\ Cardinality(Filtered \ have) \in Nat
          /\ Cardinality(Filtered \cap have) \in Nat
      BY <3>1, Finite
    <3> QED BY <1>1, <3>2 DEF PiecesInv, CountersExact
  <2>2. cursor \in 0..NumPieces /\ reverseCursor \in 0..NumPieces
    <3>1. IsFirst(cursor, ToPick) /\ IsLast(reverseCursor, ToPick)
      BY <1>1, CursorsForm DEF PiecesInv, PieceTypes
    <3>2. NumPieces \in Nat /\ \A j \in ToPick : j \in 0..NumPieces /\ j < NumPieces
      BY PickerAssumption DEF ToPick, Wanted, Pieces
    <3>3. cursor \in 0..NumPieces
      BY <3>1, <3>2 DEF IsFirst
    <3>4. reverseCursor \in 0..NumPieces
      BY <3>1, <3>2 DEF IsLast
    <3> QED BY <3>3, <3>4
  <2>3. downloads \in Seq(EntryType) /\ blockInfo \in Seq([0..(BlocksPerPiece - 1) -> BlockType])
    BY <1>1 DEF BlocksInv, EntriesOK, BlockTable
  <2> QED BY <1>1, <2>1, <2>2, <2>3 DEF PiecesInv, PieceTypes, TypeOK
<1> QED BY <1>1, BlocksAlways, PTL

\* Every partial piece keeps one entry and one slot of its own through every
\* erase, which gives the last slot's blocks another slot, and every sort; and
\* no piece we have is among them.
THEOREM SlotsAlwaysExact == Spec => []SlotsExact
<1>1. ASSUME BlocksInv PROVE SlotsExact
  <2>1. EntriesOK(downloads, blockInfo, downloading) /\ downloading \cap have = {}
    BY <1>1 DEF BlocksInv
  <2>2. DOMAIN downloads = 1..Len(downloads)
    BY <2>1, EntryFacts
  <2> QED BY <2>1, <2>2 DEF EntriesOK, SlotsExact
<1> QED BY <1>1, BlocksAlways, PTL

\* What the entry of a partial piece says of its blocks is what the blocks in
\* its slot are.
THEOREM BlockCountsAlwaysExact == Spec => []BlockCountsExact
<1>1. ASSUME BlocksInv PROVE BlockCountsExact
  <2>1. EntriesOK(downloads, blockInfo, downloading)
    BY <1>1 DEF BlocksInv
  <2>2. DOMAIN downloads = 1..Len(downloads)
    BY <2>1, EntryFacts
  <2>3. ASSUME NEW n \in DOMAIN downloads
        PROVE  Agrees(downloads[n], blockInfo[downloads[n].slot])
    BY <2>1, <2>2 DEF EntriesOK
  <2> SUFFICES ASSUME NEW n \in DOMAIN downloads
               PROVE  LET d        == downloads[n]
                          block    == blockInfo[d.slot]
                          count(s) == Cardinality({k \in Blocks(d.index) : block[k].state = s})
                      IN  /\ d.requested = count("requested")
                          /\ d.writing = count("writing")
                          /\ d.finished = count("finished")
                          /\ (d.speed = "none") = (d.requested = 0)
                          /\ \A k \in Blocks(d.index) :
                               (block[k].peers > 0) = (block[k].state = "requested")
    BY DEF BlockCountsExact
  <2> DEFINE d == downloads[n]
             f == blockInfo[d.slot]
  <2>4. Agrees(d, f)
    BY <2>3
  <2> HIDE DEF d, f
  <2>5. /\ d.requested = Cardinality({k \in Blocks(d.index) : f[k].state = "requested"})
        /\ d.writing = Cardinality({k \in Blocks(d.index) : f[k].state = "writing"})
        /\ d.finished = Cardinality({k \in Blocks(d.index) : f[k].state = "finished"})
    BY <2>4 DEF Agrees, Count
  <2>6. (d.speed = "none") = (d.requested = 0)
    BY <2>4 DEF Agrees
  <2>7. \A k \in Blocks(d.index) : (f[k].peers > 0) = (f[k].state = "requested")
    BY <2>4 DEF Agrees
  <2> QED BY <2>5, <2>6, <2>7 DEF d, f
<1> QED BY <1>1, BlocksAlways, PTL

\* An operation on one piece never changes the blocks of another, though it
\* moves entries, and another piece's blocks between slots.
THEOREM OtherPiecesStayUntouched == Spec => OtherPiecesUntouched
<1> DEFINE Others == {i \in Pieces : BlocksOf(i)' # BlocksOf(i)}
<1>1. ASSUME PiecesInv /\ BlocksInv, BlocksInv', [Next]_vars
      PROVE  [downloads' = <<>> \/ Cardinality(Others) <= 1]_vars
  <2>0. /\ EntriesOK(downloads, blockInfo, downloading)
        /\ EntriesOK(downloads', blockInfo', downloading')
    BY <1>1 DEF BlocksInv
  <2>1. CASE UNCHANGED <<downloads, blockInfo, downloading>>
    <3>1. \A i \in Pieces : BlocksOf(i)' = BlocksOf(i)
      BY <2>1 DEF BlocksOf, Entry, Position
    <3>2. Others = {}
      BY <3>1
    <3>3. Cardinality({}) <= 1
      BY FS_EmptySet
    <3> QED BY <3>2, <3>3
  <2>2. ASSUME NEW i \in Pieces, StepOf(i) PROVE Cardinality(Others) <= 1
    <3>1. ASSUME NEW j \in Pieces, j # i PROVE BlocksOf(j)' = BlocksOf(j)
      <4>1. j \in downloading' <=> j \in downloading
        BY <2>2, <3>1 DEF StepOf
      <4>2. CASE j \notin downloading
        BY <4>1, <4>2 DEF BlocksOf
      <4>3. CASE j \in downloading
        <5>1. PICK m \in 1..Len(downloads') : downloads'[m].index = j
          BY <2>0, <4>1, <4>3 DEF EntriesOK
        <5>2. PICK n \in 1..Len(downloads) :
                /\ downloads[n].index = j
                /\ blockInfo[downloads[n].slot] = blockInfo'[downloads'[m].slot]
          BY <2>2, <3>1, <5>1 DEF StepOf, Kept
        <5>3. BlocksOf(j) = blockInfo[downloads[n].slot]
          BY <2>0, <4>3, <5>2, Found
        <5>4. BlocksOf(j)' = blockInfo'[downloads'[m].slot]
          <6>1. DOMAIN downloads' = 1..Len(downloads')
            BY <2>0, EntryFacts
          <6>2. \A l \in DOMAIN downloads' : downloads'[l].index = j => l = m
            BY <2>0, <5>1, <6>1 DEF EntriesOK
          <6>3. Position(j)' = m
            BY <5>1, <6>1, <6>2, Zenon DEF Position
          <6> QED BY <4>1, <4>3, <6>3 DEF BlocksOf, Entry
        <5> QED BY <5>2, <5>3, <5>4
      <4> QED BY <4>2, <4>3
    <3>2. Others \in SUBSET {i}
      BY <3>1
    <3>3. IsFiniteSet({i}) /\ Cardinality({i}) = 1
      BY FS_Singleton
    <3>4. Cardinality(Others) <= 1
      BY <3>2, <3>3, FS_Subset
    <3> QED BY <3>4
  <2> QED BY <1>1, <2>1, <2>2, BlocksCases DEF PiecesInv
<1> QED BY <1>1, BlocksAlways, PTL DEF Spec, OtherPiecesUntouched

\* Every operation keeps m_downloads in descending order of complete blocks,
\* except a failed write, which moves no entry.
THEOREM SortedUntilAWriteFails == Spec => SortedUntilWriteFails
<1>1. ASSUME PiecesInv /\ BlocksInv, (PiecesInv /\ BlocksInv)', [Next]_vars
      PROVE  [\/ DownloadsSorted'
              \/ ~DownloadsSorted
              \/ \E i \in Pieces : \E k \in Blocks(i) : WriteFailed(i, k)]_vars
  BY <1>1, SortedStep
<1> QED BY <1>1, BlocksAlways, PTL DEF Spec, SortedUntilWriteFails
=============================================================================

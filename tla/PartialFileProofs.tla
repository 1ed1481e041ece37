-------------------------- MODULE PartialFileProofs --------------------------
(***************************************************************************)
(* Proofs about PartialFile, for any number of chunks and any offered      *)
(* functionals, as long as no crash comes while the rows are eliminated     *)
(* (the runs partial_wrap_up and partial_complete show why).               *)
(*                                                                         *)
(* First the invariant of the file alone.  Then that the file implements   *)
(* Knowledge: what the rows span, how a row, a row operation and a restart *)
(* change it, and that every step of the file is a step of the abstract    *)
(* one or changes nothing that it sees.                                    *)
(***************************************************************************)
EXTENDS PartialFile, ProofFacts

-----------------------------------------------------------------------------
(***************************************************************************)
(* The first bit of a functional.                                          *)
(***************************************************************************)

\* find_next returns the least set bit after a position, and npos when there
\* is none.
LEMMA NextBitIsLeast ==
  ASSUME NEW f \in Functionals, NEW after \in Int
  PROVE  /\ NextBit(f, after) \in 0 .. NPos
         /\ NextBit(f, after) # NPos =>
              /\ NextBit(f, after) \in f
              /\ NextBit(f, after) > after
         /\ \A k \in f : k > after => NextBit(f, after) <= k
<1> USE ConstantsAssumption
<1> DEFINE Later == {k \in f : k > after}
<1>0. f \subseteq 0 .. N - 1 /\ 0 .. N - 1 \subseteq Nat
  BY DEF Functionals, Chunks
<1>1. Later \in SUBSET Nat /\ f \subseteq 0 .. N - 1
  BY <1>0
<1>2. CASE Later = {}
  BY <1>2 DEF NextBit, NPos
<1>3. CASE Later # {}
  <2>1. \E t \in Later : \A u \in Later : t <= u
    BY <1>1, <1>3, LeastNat
  <2>2. \E k \in f : k > after /\ \A l \in f : l > after => k <= l
    BY <2>1
  <2>3. \E k \in f : k > after
    BY <1>3
  <2>4. /\ NextBit(f, after) \in f
        /\ NextBit(f, after) > after
        /\ \A l \in f : l > after => NextBit(f, after) <= l
    BY <2>2, <2>3 DEF NextBit
  <2> QED
    BY <2>4, <1>1 DEF NPos
<1> QED
  BY <1>2, <1>3

\* The first bit is the least set bit; npos says that no bit is set.
LEMMA FirstBitIsLeast ==
  ASSUME NEW f \in Functionals
  PROVE  /\ FirstBit(f) \in 0 .. NPos
         /\ FirstBit(f) # NPos => FirstBit(f) \in f
         /\ \A k \in f : FirstBit(f) <= k
         /\ FirstBit(f) = NPos <=> f = {}
<1> USE ConstantsAssumption
<1>1. f \subseteq 0 .. N - 1
  BY DEF Functionals, Chunks
<1>2. /\ FirstBit(f) \in 0 .. NPos
      /\ FirstBit(f) # NPos => FirstBit(f) \in f
      /\ \A k \in f : k > -1 => FirstBit(f) <= k
  BY NextBitIsLeast DEF FirstBit
<1>3. \A k \in f : FirstBit(f) <= k
  BY <1>1, <1>2
<1>4. FirstBit(f) = NPos <=> f = {}
  BY <1>1, <1>2, <1>3 DEF NPos
<1> QED
  BY <1>2, <1>3, <1>4

\* A set bit with none before it is the first one.
LEMMA FirstBitUnique ==
  ASSUME NEW f \in Functionals, NEW p \in f, \A k \in f : p <= k
  PROVE  FirstBit(f) = p
<1> USE ConstantsAssumption
<1>1. f \subseteq 0 .. N - 1
  BY DEF Functionals, Chunks
<1>2. FirstBit(f) \in 0 .. N /\ FirstBit(f) <= p /\ (FirstBit(f) # N => FirstBit(f) \in f)
  BY FirstBitIsLeast DEF NPos
<1> QED
  BY <1>1, <1>2

\* XOR of functionals is a functional.
LEMMA SymDiffFunctional ==
  ASSUME NEW f \in Functionals, NEW g \in Functionals
  PROVE  SymDiff(f, g) \in Functionals
BY DEF Functionals, SymDiff

\* semiReduce: XORing the row that starts at the first bit clears that bit,
\* and the next one is again the first.
LEMMA ReduceMovesOn ==
  ASSUME NEW f \in Functionals, NEW g \in Functionals,
         FirstBit(f) # NPos, FirstBit(g) = FirstBit(f)
  PROVE  NextBit(SymDiff(f, g), FirstBit(f)) = FirstBit(SymDiff(f, g))
<1> USE ConstantsAssumption
<1> DEFINE h == SymDiff(f, g)
           b == FirstBit(f)
<1>1. h \in Functionals /\ h \subseteq 0 .. N - 1
  BY SymDiffFunctional DEF Functionals, Chunks
<1>2. /\ b \in f \cap g /\ b \in 0 .. N
      /\ \A k \in f : b <= k
      /\ \A k \in g : b <= k
  BY FirstBitIsLeast DEF NPos
<1>3. \A k \in h : k > b
  BY <1>1, <1>2 DEF SymDiff
<1>4. /\ FirstBit(h) \in 0 .. N
      /\ FirstBit(h) # N => FirstBit(h) \in h
      /\ \A k \in h : FirstBit(h) <= k
  BY <1>1, FirstBitIsLeast DEF NPos
<1>5. b \in Int
  BY <1>2
<1>6. /\ NextBit(h, b) \in 0 .. N
      /\ NextBit(h, b) # N => NextBit(h, b) \in h
      /\ \A k \in h : k > b => NextBit(h, b) <= k
  BY <1>1, <1>5, NextBitIsLeast DEF NPos
<1> HIDE DEF h, b
<1>7. NextBit(h, b) = FirstBit(h)
  BY <1>1, <1>3, <1>4, <1>6
<1> QED
  BY <1>7 DEF h, b

\* gaussElimination: XORing a later row keeps the place of an earlier one.
LEMMA EliminateKeepsPlace ==
  ASSUME NEW f \in Functionals, NEW g \in Functionals,
         NEW i \in Chunks, NEW j \in Chunks, j # i,
         FirstBit(f) = j, FirstBit(g) = i, i \in f
  PROVE  /\ SymDiff(f, g) \in Functionals
         /\ j < i
         /\ FirstBit(SymDiff(f, g)) = j
<1> USE ConstantsAssumption
<1>1. SymDiff(f, g) \in Functionals
  BY SymDiffFunctional
<1>2. j # NPos /\ i # NPos /\ i \in Int /\ j \in Int
  BY DEF Chunks, NPos
<1>3. j \in f /\ i \in g /\ (\A k \in f : j <= k) /\ (\A k \in g : i <= k)
  BY <1>2, FirstBitIsLeast
<1>4. j < i
  BY <1>2, <1>3
<1>5. f \subseteq Int /\ g \subseteq Int
  BY DEF Functionals, Chunks
<1>6. j \in SymDiff(f, g) /\ \A k \in SymDiff(f, g) : j <= k
  BY <1>2, <1>3, <1>4, <1>5 DEF SymDiff
<1>7. FirstBit(SymDiff(f, g)) = j
  BY <1>1, <1>6, FirstBitUnique
<1> QED
  BY <1>1, <1>4, <1>7

-----------------------------------------------------------------------------
(***************************************************************************)
(* The inductive invariant.  Beside the properties it says what the       *)
(* metafile may hold when a crash can read it again, how far the           *)
(* elimination has come, and that the file is cut only when it is decoded. *)
(***************************************************************************)

\* The first bit of the chunk being reduced is where semiReduce stands.
Reducing == pc = "reducing" => ~IsDone /\ bit = FirstBit(chunk.func)

\* Outside of a save and of the elimination the metafile holds the matrix; in
\* a save it lacks a row.
MetafileFollows ==
  /\ pc \in {"idle", "reducing", "truncating", "deleting", "unlinking"} =>
       metafile \in {NoMetaFile, matrix}
  /\ pc = "saving" =>
       Rows(metafile) # Chunks /\ \A i \in Rows(metafile) : metafile[i] = matrix[i]

\* What the next start will load agrees with the data, and decodes when it is
\* complete.
MetafileLoadable ==
  pc \in {"down", "failed"} /\ metafile # NoMetaFile =>
    /\ Rows(metafile) = Chunks => metafile = IdentityMatrix
    /\ \A i \in Rows(metafile) : FirstBit(metafile[i]) = i /\ disk[i] = metafile[i]

\* There is no metafile before there is data, and none when the file has been
\* wrapped up and cut.
WithoutMetafile ==
  metafile = NoMetaFile =>
    /\ pc \in {"down", "failed", "idle"}
    /\ pc = "idle" \/ length > 0 => trimmed

\* The columns the elimination has passed have only their own row's bit.
Columns ==
  pc = "eliminating" =>
    /\ IsUpperTriangular(matrix)
    /\ \A i \in Chunks, j \in Chunks :
         j # i /\ (i < at[1] \/ (i = at[1] /\ j < at[2])) => i \notin matrix[j]

\* Where m_wasEliminated is set, and what holds from then on.
Eliminated ==
  /\ pc \in {"down", "failed", "reducing", "saving", "eliminating"} => ~eliminated
  /\ pc \in {"truncating", "deleting", "unlinking"} => matrix = IdentityMatrix
  /\ pc = "idle" /\ IsDone => matrix = IdentityMatrix

\* The file is cut when it is decoded, and then the metafile goes.
Cut ==
  /\ pc \in {"saving", "eliminating", "truncating", "deleting", "unlinking"} => length > 0
  /\ pc \in {"deleting", "unlinking"} => trimmed
  /\ trimmed =>
       /\ length > 0
       /\ disk = IdentityMatrix
       /\ pc \in {"down", "failed", "idle", "deleting", "unlinking"}
       /\ metafile \in {NoMetaFile, IdentityMatrix}
       /\ pc = "idle" => matrix = IdentityMatrix

\* A generated chunk is kept only while the rows do not change.
SentCurrent == sent # NoChunk => pc = "idle" /\ SentIsCombination

IInv ==
  /\ TypeOK
  /\ RowsLead
  /\ DataMatchesFunctional
  /\ Reducing
  /\ MetafileFollows
  /\ MetafileLoadable
  /\ WithoutMetafile
  /\ Columns
  /\ Eliminated
  /\ Cut
  /\ SentCurrent

\* The matrices and the values that stand for none are different things.
LEMMA MatrixFacts ==
  /\ EmptyMatrix \in Matrices
  /\ IdentityMatrix \in Matrices
  /\ NoMetaFile \notin Matrices
  /\ Chunks # {}
  /\ Rows(EmptyMatrix) = {}
  /\ Rows(IdentityMatrix) = Chunks
  /\ IsUpperTriangular(IdentityMatrix)
  /\ ~IsUpperTriangular(EmptyMatrix)
<1> USE ConstantsAssumption
<1>1. 0 \in Chunks
  BY DEF Chunks
<1>2. EmptyMatrix \in Matrices /\ IdentityMatrix \in Matrices
  BY DEF EmptyMatrix, IdentityMatrix, Matrices, Functionals
<1>4. \A i \in Chunks : FirstBit({i}) = i
  <2> TAKE i \in Chunks
  <2>1. {i} \in Functionals /\ i \in {i} /\ \A k \in {i} : i <= k
    BY DEF Functionals, Chunks
  <2> QED
    BY <2>1, FirstBitUnique
<1>5. IsUpperTriangular(IdentityMatrix)
  BY <1>4 DEF IsUpperTriangular, IdentityMatrix
<1>6. ~IsUpperTriangular(EmptyMatrix)
  BY <1>1 DEF IsUpperTriangular, EmptyMatrix
<1>7. Rows(EmptyMatrix) = {} /\ Rows(IdentityMatrix) = Chunks
  BY DEF Rows, EmptyMatrix, IdentityMatrix
<1> QED
  BY <1>1, <1>2, <1>5, <1>6, <1>7

\* A matrix whose rows lead is complete exactly when it is upper triangular.
LEMMA FullMeansTriangular ==
  ASSUME NEW m \in Matrices, \A i \in Rows(m) : FirstBit(m[i]) = i
  PROVE  Rows(m) = Chunks <=> IsUpperTriangular(m)
BY DEF Rows, IsUpperTriangular

-----------------------------------------------------------------------------
(***************************************************************************)
(* The invariant holds at the start.                                       *)
(***************************************************************************)

\* Nothing is in memory and nothing on disk.
LEMMA InitIInv ==
  ASSUME Init
  PROVE  IInv
<1> USE ConstantsAssumption DEF Init
<1>1. TypeOK
  <2>1. <<N, 0>> \in (0 .. N) \X (0 .. N - 1) /\ N \in 0 .. NPos /\ 0 \in 0 .. N
    BY DEF NPos
  <2> QED
    BY <2>1, MatrixFacts DEF TypeOK, NPos
<1>2. RowsLead /\ DataMatchesFunctional /\ Reducing
  BY MatrixFacts DEF RowsLead, DataMatchesFunctional, Reducing
<1>3. MetafileFollows /\ MetafileLoadable /\ WithoutMetafile
  BY MatrixFacts DEF MetafileFollows, MetafileLoadable, WithoutMetafile
<1>4. Columns /\ Eliminated /\ Cut /\ SentCurrent
  BY DEF Columns, Eliminated, Cut, SentCurrent
<1> QED
  BY <1>1, <1>2, <1>3, <1>4 DEF IInv
-----------------------------------------------------------------------------
(***************************************************************************)
(* Every step keeps the invariant.                                         *)
(***************************************************************************)

\* The constructor finds no data.
LEMMA OpenNewIInv ==
  ASSUME IInv, OpenNew
  PROVE  IInv'
<1> USE ConstantsAssumption, MatrixFacts
<1>1. /\ pc = "down" /\ pc' = "idle"
      /\ matrix' = EmptyMatrix /\ metafile' = EmptyMatrix
      /\ length = 0
      /\ UNCHANGED <<eliminated, offered, chunk, bit, at, answer, sent, disk, length, trimmed>>
  BY DEF OpenNew, Opened, storage
<1>2. TypeOK'
  BY <1>1 DEF IInv, TypeOK
<1>3. RowsLead' /\ DataMatchesFunctional' /\ Reducing'
  BY <1>1 DEF RowsLead, DataMatchesFunctional, Reducing
<1>4. MetafileFollows' /\ MetafileLoadable' /\ WithoutMetafile'
  BY <1>1 DEF MetafileFollows, MetafileLoadable, WithoutMetafile
<1>5. Columns'
  BY <1>1 DEF Columns
<1>6. Eliminated'
  BY <1>1 DEF IInv, Eliminated, IsDone
<1>7. Cut'
  BY <1>1 DEF IInv, Cut
<1>8. SentCurrent'
  BY <1>1 DEF IInv, SentCurrent
<1> QED
  BY <1>2, <1>3, <1>4, <1>5, <1>6, <1>7, <1>8 DEF IInv

\* The constructor takes the file for complete: without a crash in the
\* elimination it is decoded, so it is.
LEMMA OpenCompleteIInv ==
  ASSUME IInv, OpenComplete
  PROVE  IInv'
<1> USE ConstantsAssumption, MatrixFacts
<1>1. /\ pc = "down" /\ pc' = "idle" /\ length > 0
      /\ matrix' = IdentityMatrix
      /\ metafile' = IF metafile = NoMetaFile THEN NoMetaFile ELSE IdentityMatrix
      /\ metafile # NoMetaFile => Rows(metafile) = Chunks
      /\ UNCHANGED <<eliminated, offered, chunk, bit, at, answer, sent, disk, length, trimmed>>
  BY DEF OpenComplete, LooksComplete, IsComplete, Opened, storage
<1>2. disk = IdentityMatrix /\ ~eliminated /\ (metafile = NoMetaFile => trimmed)
  <2>1. CASE metafile = NoMetaFile
    BY <1>1, <2>1 DEF IInv, WithoutMetafile, Cut, Eliminated
  <2>2. CASE metafile # NoMetaFile
    <3>1. \A i \in Chunks : disk[i] = IdentityMatrix[i]
      BY <1>1, <2>2 DEF IInv, MetafileLoadable
    <3>2. disk \in Matrices /\ ~eliminated
      BY <1>1 DEF IInv, TypeOK, Eliminated
    <3> QED
      BY <2>2, <3>1, <3>2 DEF Matrices
  <2> QED
    BY <2>1, <2>2
<1>3. TypeOK'
  BY <1>1, <1>2 DEF IInv, TypeOK
<1>4. RowsLead' /\ DataMatchesFunctional' /\ Reducing'
  BY <1>1, <1>2 DEF RowsLead, DataMatchesFunctional, Reducing, IsUpperTriangular, Rows
<1>5. MetafileFollows' /\ MetafileLoadable' /\ WithoutMetafile' /\ Columns'
  BY <1>1, <1>2 DEF MetafileFollows, MetafileLoadable, WithoutMetafile, Columns
<1>6. Eliminated'
  BY <1>1, <1>2 DEF Eliminated
<1>7. Cut'
  BY <1>1, <1>2 DEF Cut
<1>8. SentCurrent'
  BY <1>1 DEF IInv, SentCurrent
<1> QED
  BY <1>3, <1>4, <1>5, <1>6, <1>7, <1>8 DEF IInv

\* The constructor loads the metafile.
LEMMA OpenIncompleteIInv ==
  ASSUME IInv, OpenIncomplete
  PROVE  IInv'
<1> USE ConstantsAssumption, MatrixFacts
<1>1. /\ pc = "down" /\ pc' = "idle"
      /\ matrix' = metafile /\ metafile' = metafile
      /\ metafile # NoMetaFile
      /\ trimmed => Rows(metafile) # Chunks
      /\ UNCHANGED <<eliminated, offered, chunk, bit, at, answer, sent, disk, length, trimmed>>
  BY DEF OpenIncomplete, HasRows, LooksComplete, LengthIsFileSize, IsComplete, Opened, storage
<1>2. /\ metafile \in Matrices
      /\ Rows(metafile) = Chunks => metafile = IdentityMatrix
      /\ \A i \in Rows(metafile) : FirstBit(metafile[i]) = i /\ disk[i] = metafile[i]
  BY <1>1 DEF IInv, TypeOK, MetafileLoadable
<1>3. ~eliminated /\ ~trimmed
  BY <1>1 DEF IInv, Eliminated, Cut
<1>4. TypeOK'
  BY <1>1, <1>2 DEF IInv, TypeOK
<1>5. RowsLead' /\ DataMatchesFunctional' /\ Reducing'
  BY <1>1, <1>2 DEF RowsLead, DataMatchesFunctional, Reducing
<1>6. MetafileFollows' /\ MetafileLoadable' /\ WithoutMetafile' /\ Columns'
  BY <1>1, <1>2 DEF MetafileFollows, MetafileLoadable, WithoutMetafile, Columns
<1>7. IsUpperTriangular(metafile) => metafile = IdentityMatrix
  BY <1>2, FullMeansTriangular
<1>8. Eliminated' /\ Cut'
  BY <1>1, <1>3, <1>7 DEF Eliminated, IsDone, Cut
<1>9. SentCurrent'
  BY <1>1 DEF IInv, SentCurrent
<1> QED
  BY <1>4, <1>5, <1>6, <1>8, <1>9 DEF IInv

\* The constructor throws, and the user tries again.
LEMMA OpenFailsIInv ==
  ASSUME IInv, OpenFails \/ Retry
  PROVE  IInv'
<1>1. /\ pc \in {"down", "failed"} /\ pc' \in {"down", "failed"}
      /\ UNCHANGED <<matrix, eliminated, offered, chunk, bit, at, answer, sent,
                     metafile, disk, length, trimmed>>
  BY DEF OpenFails, Retry, memory, adding, storage
<1>2. TypeOK'
  BY <1>1 DEF IInv, TypeOK
<1>3. RowsLead' /\ DataMatchesFunctional' /\ Reducing'
  BY <1>1 DEF IInv, RowsLead, DataMatchesFunctional, Reducing
<1>4. MetafileFollows' /\ MetafileLoadable' /\ WithoutMetafile' /\ Columns'
  BY <1>1 DEF IInv, MetafileFollows, MetafileLoadable, WithoutMetafile, Columns
<1>5. Eliminated' /\ Cut' /\ SentCurrent'
  BY <1>1 DEF IInv, Eliminated, Cut, SentCurrent
<1> QED
  BY <1>2, <1>3, <1>4, <1>5 DEF IInv

\* addChunk begins to reduce a functional.
LEMMA OfferIInv ==
  ASSUME IInv, NEW f \in Functionals, Offer(f)
  PROVE  IInv'
<1> USE ConstantsAssumption, MatrixFacts
<1>1. /\ pc = "idle" /\ pc' = "reducing" /\ ~IsDone
      /\ offered' = f /\ chunk' = [func |-> f, data |-> f]
      /\ bit' = FirstBit(f) /\ answer' = "none" /\ sent' = NoChunk
      /\ UNCHANGED <<matrix, eliminated, at, metafile, disk, length, trimmed>>
  BY DEF Offer, memory, storage
<1>2. bit' \in 0 .. NPos /\ chunk' \in Chunk /\ chunk'.func = f /\ chunk'.data = f
  BY <1>1, FirstBitIsLeast DEF Chunk
<1>3. TypeOK'
  BY <1>1, <1>2 DEF IInv, TypeOK
<1>4. RowsLead' /\ DataMatchesFunctional' /\ Reducing'
  BY <1>1, <1>2 DEF IInv, RowsLead, DataMatchesFunctional, Reducing, IsDone, Place
<1>5. MetafileFollows' /\ MetafileLoadable'
  BY <1>1 DEF IInv, MetafileFollows, MetafileLoadable
<1>6. Columns' /\ Eliminated' /\ SentCurrent'
  BY <1>1 DEF IInv, Columns, Eliminated, SentCurrent, IsDone
<1>7. Cut' /\ WithoutMetafile'
  BY <1>1 DEF IInv, Cut, WithoutMetafile, IsDone
<1> QED
  BY <1>3, <1>4, <1>5, <1>6, <1>7 DEF IInv
\* One turn of semiReduce's loop.
LEMMA ReduceIInv ==
  ASSUME IInv, Reduce
  PROVE  IInv'
<1> USE ConstantsAssumption, MatrixFacts
<1>1. /\ pc = "reducing" /\ bit # NPos /\ matrix[bit] # {}
      /\ chunk' = [func |-> SymDiff(chunk.func, matrix[bit]),
                   data |-> SymDiff(chunk.data, disk[Place(matrix[bit])])]
      /\ bit' = NextBit(chunk'.func, bit)
      /\ UNCHANGED <<pc, matrix, eliminated, offered, at, answer, sent,
                     metafile, disk, length, trimmed>>
  BY DEF Reduce, memory, storage
<1>2. /\ chunk \in Chunk /\ chunk.func \in Functionals /\ chunk.data = chunk.func
      /\ bit = FirstBit(chunk.func) /\ ~IsDone
      /\ bit \in Chunks /\ matrix \in Matrices /\ matrix[bit] \in Functionals
  BY <1>1 DEF IInv, TypeOK, Chunk, DataMatchesFunctional, Reducing, Chunks, NPos, Matrices
<1>3. FirstBit(matrix[bit]) = bit /\ disk[bit] = matrix[bit]
  BY <1>1, <1>2 DEF IInv, RowsLead, DataMatchesFunctional, Rows
<1> DEFINE g == SymDiff(chunk.func, matrix[bit])
<1>4. /\ g \in Functionals
      /\ chunk' = [func |-> g, data |-> g]
      /\ bit' = NextBit(g, bit)
  BY <1>1, <1>2, <1>3, SymDiffFunctional DEF Place
<1>5. bit' = FirstBit(g)
  BY <1>1, <1>2, <1>3, <1>4, ReduceMovesOn
<1> HIDE DEF g
<1>6. bit' \in 0 .. NPos /\ chunk' \in Chunk /\ chunk'.func = g /\ chunk'.data = g
  BY <1>4, <1>5, FirstBitIsLeast DEF Chunk
<1>7. TypeOK'
  BY <1>1, <1>6 DEF IInv, TypeOK
<1>8. RowsLead' /\ DataMatchesFunctional' /\ Reducing'
  BY <1>1, <1>2, <1>5, <1>6 DEF IInv, RowsLead, DataMatchesFunctional, Reducing, IsDone, Place
<1>9. MetafileFollows' /\ MetafileLoadable' /\ WithoutMetafile' /\ Columns'
  BY <1>1 DEF IInv, MetafileFollows, MetafileLoadable, WithoutMetafile, Columns
<1>10. Eliminated' /\ Cut' /\ SentCurrent'
  BY <1>1 DEF IInv, Eliminated, Cut, SentCurrent
<1> QED
  BY <1>7, <1>8, <1>9, <1>10 DEF IInv

\* The chunk depends on the rows.
LEMMA RejectIInv ==
  ASSUME IInv, Reject
  PROVE  IInv'
<1> USE ConstantsAssumption, MatrixFacts
<1>1. /\ pc = "reducing" /\ ~IsDone
      /\ chunk' = NoChunk /\ offered' = NoOffer /\ answer' = "useless" /\ at' = <<0, 0>>
      /\ UNCHANGED <<matrix, eliminated, bit, sent, metafile, disk, length, trimmed>>
  BY DEF IInv, Reducing, Reject, memory, storage
<1>2. pc' = "idle" /\ ~IsDone'
  BY <1>1 DEF Reject, AfterAdding, IsDone
<1>3. TypeOK'
  <2>1. at' \in (0 .. N) \X (0 .. N - 1)
    BY <1>1
  <2> QED
    BY <1>1, <1>2, <2>1 DEF IInv, TypeOK
<1>4. RowsLead' /\ DataMatchesFunctional' /\ Reducing'
  BY <1>1, <1>2 DEF IInv, RowsLead, DataMatchesFunctional, Reducing
<1>5. MetafileFollows' /\ MetafileLoadable' /\ WithoutMetafile' /\ Columns'
  BY <1>1, <1>2 DEF IInv, MetafileFollows, MetafileLoadable, WithoutMetafile, Columns
<1>6. Eliminated' /\ Cut' /\ SentCurrent'
  BY <1>1, <1>2 DEF IInv, Eliminated, Cut, SentCurrent
<1> QED
  BY <1>3, <1>4, <1>5, <1>6 DEF IInv

\* The reduced chunk goes to an empty row, the one it starts at.
LEMMA InsertIInv ==
  ASSUME IInv, Insert
  PROVE  IInv'
<1> USE ConstantsAssumption, MatrixFacts
<1> DEFINE place == Place(chunk.func)
<1>1. /\ pc = "reducing" /\ bit # NPos /\ matrix[bit] = {}
      /\ pc' = "saving" /\ answer' = "helpful"
      /\ matrix' = [matrix EXCEPT ![place] = chunk.func]
      /\ disk' = [disk EXCEPT ![place] = chunk.data]
      /\ length' = IF place < length THEN length ELSE place + 1
      /\ offered' = NoOffer /\ chunk' = NoChunk /\ bit' = NPos
      /\ UNCHANGED <<eliminated, at, sent, metafile, trimmed>>
  BY DEF Insert
<1>2. /\ chunk.func \in Functionals /\ chunk.data = chunk.func
      /\ bit = FirstBit(chunk.func) /\ place = bit /\ bit \in Chunks
      /\ matrix \in Matrices /\ disk \in Matrices /\ length \in 0 .. N
  BY <1>1 DEF IInv, TypeOK, Chunk, DataMatchesFunctional, Reducing, Chunks, NPos, Place
<1> HIDE DEF place
<1>3. /\ matrix' \in Matrices /\ disk' \in Matrices
      /\ matrix'[bit] = chunk.func /\ disk'[bit] = chunk.func
      /\ \A i \in Chunks : i # bit => matrix'[i] = matrix[i] /\ disk'[i] = disk[i]
  BY <1>1, <1>2 DEF Matrices
<1>4. length' \in 0 .. N /\ length' > 0
  BY <1>1, <1>2 DEF Chunks
<1>5. TypeOK'
  <2>1. bit' \in 0 .. NPos
    BY <1>1 DEF NPos
  <2> QED
    BY <1>1, <1>3, <1>4, <2>1 DEF IInv, TypeOK
<1>6. \A i \in Chunks : matrix'[i] # {} =>
        FirstBit(matrix'[i]) = i /\ disk'[i] = matrix'[i]
  <2> TAKE i \in Chunks
  <2>1. CASE i = bit
    BY <2>1, <1>2, <1>3
  <2>2. CASE i # bit
    BY <2>2, <1>3 DEF IInv, RowsLead, DataMatchesFunctional, Rows
  <2> QED
    BY <2>1, <2>2
<1>7. RowsLead' /\ DataMatchesFunctional' /\ Reducing'
  BY <1>1, <1>6 DEF RowsLead, DataMatchesFunctional, Reducing, Rows
<1>8. MetafileFollows'
  <2>1. metafile = matrix /\ UNCHANGED metafile
    BY <1>1 DEF IInv, MetafileFollows, WithoutMetafile
  <2>2. Rows(matrix) # Chunks
    BY <1>1, <1>2 DEF Rows
  <2>3. \A i \in Rows(matrix) : matrix'[i] = matrix[i]
    BY <1>1, <1>3 DEF Rows
  <2> QED
    BY <1>1, <2>1, <2>2, <2>3 DEF MetafileFollows
<1>9. MetafileLoadable' /\ WithoutMetafile' /\ Columns' /\ SentCurrent'
  BY <1>1 DEF IInv, MetafileLoadable, WithoutMetafile, Columns, SentCurrent
<1>10. Eliminated' /\ Cut'
  BY <1>1, <1>4 DEF IInv, Eliminated, Cut
<1> QED
  BY <1>5, <1>7, <1>8, <1>9, <1>10 DEF IInv

\* The row is saved; with the last one wrapUp begins.
LEMMA SaveIInv ==
  ASSUME IInv, Save
  PROVE  IInv'
<1> USE ConstantsAssumption, MatrixFacts
<1>1. /\ pc = "saving" /\ ~eliminated /\ at' = <<0, 0>> /\ ~trimmed
      /\ metafile # NoMetaFile /\ metafile' = matrix
      /\ UNCHANGED <<matrix, eliminated, offered, chunk, bit, answer, sent, disk, length, trimmed>>
  BY DEF IInv, Eliminated, Cut, WithoutMetafile, Save, Persist, memory, adding, storage
<1>2. /\ pc' = IF IsUpperTriangular(matrix) THEN "eliminating" ELSE "idle"
      /\ IsDone' <=> IsUpperTriangular(matrix)
  BY <1>1 DEF Save, AfterAdding, IsDone
<1>3. TypeOK'
  <2>1. at' \in (0 .. N) \X (0 .. N - 1)
    BY <1>1
  <2> QED
    BY <1>1, <1>2, <2>1 DEF IInv, TypeOK
<1>4. RowsLead' /\ DataMatchesFunctional' /\ Reducing'
  BY <1>1, <1>2 DEF IInv, RowsLead, DataMatchesFunctional, Reducing
<1>5. MetafileFollows' /\ MetafileLoadable' /\ WithoutMetafile'
  <2>1. matrix # NoMetaFile
    BY DEF IInv, TypeOK
  <2> QED
    BY <1>1, <1>2, <2>1 DEF MetafileFollows, MetafileLoadable, WithoutMetafile
<1>6. Columns'
  <2>1. \A i \in Chunks, j \in Chunks : ~(i < 0 \/ (i = 0 /\ j < 0))
    BY DEF Chunks
  <2> QED
    BY <1>1, <1>2, <2>1 DEF Columns, IsUpperTriangular
<1>7. SentCurrent'
  BY <1>1, <1>2 DEF IInv, SentCurrent
<1>8. Eliminated' /\ Cut'
  BY <1>1, <1>2 DEF IInv, Eliminated, Cut
<1> QED
  BY <1>3, <1>4, <1>5, <1>6, <1>7, <1>8 DEF IInv

\* One turn of gaussElimination: the row keeps its place and loses the bit.
LEMMA EliminateIInv ==
  ASSUME IInv, Eliminate
  PROVE  IInv'
<1> USE ConstantsAssumption, MatrixFacts
<1> DEFINE i == at[1]
           j == at[2]
           func == SymDiff(matrix[j], matrix[i])
<1>1. /\ pc = "eliminating" /\ i \in Chunks /\ j \in Chunks
      /\ matrix \in Matrices /\ disk \in Matrices
      /\ at = <<i, j>> /\ ~eliminated /\ ~trimmed
  BY DEF IInv, TypeOK, Eliminated, Cut, Eliminate, Chunks
<1>2. /\ IsUpperTriangular(matrix)
      /\ \A k \in Chunks, l \in Chunks :
           l # k /\ (k < i \/ (k = i /\ l < j)) => k \notin matrix[l]
  BY <1>1 DEF IInv, Columns
<1>3. \A k \in Chunks : /\ matrix[k] \in Functionals /\ matrix[k] # {}
                        /\ FirstBit(matrix[k]) = k /\ Place(matrix[k]) = k
                        /\ disk[k] = matrix[k]
  BY <1>1, <1>2 DEF IInv, Matrices, IsUpperTriangular, Place, DataMatchesFunctional, Rows
<1>4. /\ at' = NextPair(i, j)
      /\ IF j # i /\ i \in matrix[j]
         THEN /\ matrix' = [matrix EXCEPT ![Place(func)] = func]
              /\ disk' = [disk EXCEPT ![Place(func)] = func]
         ELSE UNCHANGED <<matrix, disk>>
      /\ UNCHANGED <<pc, eliminated, offered, chunk, bit, answer, sent,
                     metafile, length, trimmed>>
  BY <1>1, <1>3 DEF Eliminate, adding
<1>5. at' \in (0 .. N) \X (0 .. N - 1)
  <2>1. i \in 0 .. N - 1 /\ j \in 0 .. N - 1
    BY <1>1 DEF Chunks
  <2>2. <<i + 1, 0>> \in (0 .. N) \X (0 .. N - 1)
    BY <2>1
  <2>3. j # N - 1 => <<i, j + 1>> \in (0 .. N) \X (0 .. N - 1)
    BY <2>1
  <2> QED
    BY <1>4, <2>2, <2>3 DEF NextPair
<1>6. \A k \in Chunks, l \in Chunks :
        k < at'[1] \/ (k = at'[1] /\ l < at'[2]) =>
          k < i \/ (k = i /\ l < j) \/ (k = i /\ l = j)
  <2>1. at' = IF j = N - 1 THEN <<i + 1, 0>> ELSE <<i, j + 1>>
    BY <1>4 DEF NextPair
  <2>2. at'[1] = (IF j = N - 1 THEN i + 1 ELSE i) /\ at'[2] = IF j = N - 1 THEN 0 ELSE j + 1
    BY <2>1
  <2> HIDE DEF i, j
  <2> QED
    BY <2>2, <1>1 DEF Chunks
<1> HIDE DEF i, j
<1>7. CASE j # i /\ i \in matrix[j]
  <2>1. func \in Functionals /\ FirstBit(func) = j /\ Place(func) = j
    BY <1>1, <1>3, <1>7, EliminateKeepsPlace DEF Place
  <2> HIDE DEF func
  <2>2. func # {}
    BY <2>1, FirstBitIsLeast, <1>1 DEF Chunks, NPos
  <2>3. /\ matrix' \in Matrices /\ disk' \in Matrices
        /\ matrix'[j] = func /\ disk'[j] = func
        /\ \A k \in Chunks : k # j => matrix'[k] = matrix[k] /\ disk'[k] = disk[k]
    BY <1>1, <1>4, <1>7, <2>1 DEF Matrices
  <2>4. \A k \in Chunks : /\ matrix'[k] # {} /\ FirstBit(matrix'[k]) = k
                          /\ disk'[k] = matrix'[k]
    BY <1>3, <2>1, <2>2, <2>3
  <2>5. \A k \in Chunks, l \in Chunks :
          l # k /\ (k < at'[1] \/ (k = at'[1] /\ l < at'[2])) => k \notin matrix'[l]
    <3> TAKE k \in Chunks, l \in Chunks
    <3> HAVE l # k /\ (k < at'[1] \/ (k = at'[1] /\ l < at'[2]))
    <3>1. k < i \/ (k = i /\ l < j) \/ (k = i /\ l = j)
      BY <1>6
    <3>2. CASE l # j
      BY <3>1, <3>2, <1>2, <2>3
    <3>3. CASE l = j /\ k = i
      <4>1. i \in matrix[i]
        BY <1>1, <1>3, FirstBitIsLeast DEF Chunks, NPos
      <4> QED
        BY <3>3, <4>1, <1>7, <2>3 DEF func, SymDiff
    <3>4. CASE l = j /\ k # i
      <4>1. k < i
        BY <3>1, <3>4
      <4>2. k \notin matrix[j] /\ k \notin matrix[i]
        BY <4>1, <3>4, <1>1, <1>2
      <4> QED
        BY <3>4, <4>2, <2>3 DEF func, SymDiff
    <3> QED
      BY <3>2, <3>3, <3>4
  <2>6. TypeOK'
    BY <1>4, <1>5, <2>3 DEF IInv, TypeOK
  <2>7. RowsLead' /\ DataMatchesFunctional' /\ Reducing'
    BY <1>1, <1>4, <2>4 DEF RowsLead, DataMatchesFunctional, Reducing, Rows
  <2>8. Columns'
    BY <2>4, <2>5 DEF Columns, IsUpperTriangular
  <2>9. MetafileFollows' /\ MetafileLoadable' /\ WithoutMetafile' /\ Eliminated' /\ Cut' /\ SentCurrent'
    BY <1>1, <1>4 DEF IInv, MetafileFollows, MetafileLoadable, WithoutMetafile, Eliminated, Cut, SentCurrent
  <2> QED
    BY <2>6, <2>7, <2>8, <2>9 DEF IInv
<1>8. CASE ~(j # i /\ i \in matrix[j])
  <2>1. UNCHANGED <<matrix, disk>>
    BY <1>4, <1>8
  <2>2. TypeOK'
    BY <1>4, <1>5, <2>1 DEF IInv, TypeOK
  <2>3. RowsLead' /\ DataMatchesFunctional' /\ Reducing'
    BY <1>1, <1>4, <2>1 DEF IInv, RowsLead, DataMatchesFunctional, Reducing
  <2>4. Columns'
    <3>1. \A k \in Chunks, l \in Chunks :
            l # k /\ (k < at'[1] \/ (k = at'[1] /\ l < at'[2])) => k \notin matrix[l]
      BY <1>2, <1>6, <1>8
    <3> QED
      BY <1>2, <2>1, <3>1 DEF Columns
  <2>5. MetafileFollows' /\ MetafileLoadable' /\ WithoutMetafile' /\ Eliminated' /\ Cut' /\ SentCurrent'
    BY <1>1, <1>4 DEF IInv, MetafileFollows, MetafileLoadable, WithoutMetafile, Eliminated, Cut, SentCurrent
  <2> QED
    BY <2>2, <2>3, <2>4, <2>5 DEF IInv
<1> QED
  BY <1>7, <1>8

\* Elimination is over: the matrix is the unit matrix.
LEMMA CloseFilesIInv ==
  ASSUME IInv, CloseFiles
  PROVE  IInv'
<1> USE ConstantsAssumption, MatrixFacts
<1>1. /\ pc = "eliminating" /\ pc' = "truncating" /\ at[1] = N /\ eliminated' = TRUE
      /\ metafile # NoMetaFile /\ metafile' = matrix
      /\ UNCHANGED <<matrix, offered, chunk, bit, at, answer, sent, disk, length, trimmed>>
  BY DEF IInv, WithoutMetafile, CloseFiles, Persist, adding, storage
<1>2. matrix = IdentityMatrix
  <2>1. /\ IsUpperTriangular(matrix)
        /\ \A k \in Chunks, l \in Chunks : l # k => k \notin matrix[l]
    BY <1>1 DEF IInv, Columns, Chunks
  <2>2. matrix \in Matrices
    BY DEF IInv, TypeOK
  <2>3. ASSUME NEW k \in Chunks
        PROVE  matrix[k] = {k}
    <3>1. matrix[k] \in Functionals /\ FirstBit(matrix[k]) = k
      BY <2>1, <2>2 DEF Matrices, IsUpperTriangular
    <3>2. k \in matrix[k]
      BY <3>1, FirstBitIsLeast DEF Chunks, NPos
    <3> QED
      BY <3>1, <3>2, <2>1 DEF Functionals
  <2> QED
    BY <2>2, <2>3 DEF Matrices, IdentityMatrix
<1>3. TypeOK'
  BY <1>1 DEF IInv, TypeOK
<1>4. RowsLead' /\ DataMatchesFunctional' /\ Reducing'
  BY <1>1 DEF IInv, RowsLead, DataMatchesFunctional, Reducing
<1>5. MetafileFollows' /\ MetafileLoadable' /\ WithoutMetafile' /\ Columns'
  BY <1>1 DEF IInv, TypeOK, MetafileFollows, MetafileLoadable, WithoutMetafile, Columns
<1>6. Eliminated' /\ Cut' /\ SentCurrent'
  BY <1>1, <1>2 DEF IInv, Eliminated, Cut, SentCurrent
<1> QED
  BY <1>3, <1>4, <1>5, <1>6 DEF IInv

\* completeFiles cuts off the padding.
LEMMA TruncateIInv ==
  ASSUME IInv, Truncate
  PROVE  IInv'
<1> USE ConstantsAssumption, MatrixFacts
<1>1. /\ pc = "truncating" /\ pc' = "deleting" /\ trimmed' = TRUE
      /\ UNCHANGED <<matrix, eliminated, offered, chunk, bit, at, answer, sent,
                     metafile, disk, length>>
  BY DEF Truncate, memory, adding
<1>2. matrix = IdentityMatrix /\ length > 0
  BY <1>1 DEF IInv, Eliminated, Cut
<1>3. disk = IdentityMatrix /\ metafile = IdentityMatrix
  BY <1>1, <1>2 DEF IInv, TypeOK, Matrices, DataMatchesFunctional, IdentityMatrix,
     MetafileFollows, WithoutMetafile
<1>4. TypeOK'
  BY <1>1 DEF IInv, TypeOK
<1>5. RowsLead' /\ DataMatchesFunctional' /\ Reducing'
  BY <1>1 DEF IInv, RowsLead, DataMatchesFunctional, Reducing
<1>6. MetafileFollows' /\ MetafileLoadable' /\ WithoutMetafile' /\ Columns'
  BY <1>1 DEF IInv, MetafileFollows, MetafileLoadable, WithoutMetafile, Columns
<1>7. Eliminated' /\ Cut' /\ SentCurrent'
  BY <1>1, <1>2, <1>3 DEF IInv, Eliminated, Cut, SentCurrent
<1> QED
  BY <1>4, <1>5, <1>6, <1>7 DEF IInv

\* The metafile's object goes.
LEMMA DeleteMetaFileIInv ==
  ASSUME IInv, DeleteMetaFile
  PROVE  IInv'
<1> USE ConstantsAssumption, MatrixFacts
<1>1. /\ pc = "deleting" /\ pc' = "unlinking" /\ metafile' = matrix
      /\ UNCHANGED <<matrix, eliminated, offered, chunk, bit, at, answer, sent,
                     disk, length, trimmed>>
  BY DEF DeleteMetaFile, memory, adding, storage
<1>2. TypeOK'
  BY <1>1 DEF IInv, TypeOK
<1>3. RowsLead' /\ DataMatchesFunctional' /\ Reducing'
  BY <1>1 DEF IInv, RowsLead, DataMatchesFunctional, Reducing
<1>4. MetafileFollows' /\ MetafileLoadable' /\ WithoutMetafile' /\ Columns'
  BY <1>1 DEF IInv, MetafileFollows, MetafileLoadable, WithoutMetafile, Columns
<1>5. Eliminated' /\ Cut' /\ SentCurrent'
  BY <1>1 DEF IInv, Eliminated, Cut, SentCurrent
<1> QED
  BY <1>2, <1>3, <1>4, <1>5 DEF IInv

\* The metafile goes, and putChunk returns.
LEMMA UnlinkIInv ==
  ASSUME IInv, Unlink
  PROVE  IInv'
<1> USE ConstantsAssumption, MatrixFacts
<1>1. /\ pc = "unlinking" /\ pc' = "idle" /\ metafile' = NoMetaFile
      /\ UNCHANGED <<matrix, eliminated, offered, chunk, bit, at, answer, sent,
                     disk, length, trimmed>>
  BY DEF Unlink, memory, adding, storage
<1>2. matrix = IdentityMatrix /\ trimmed /\ sent = NoChunk
  BY <1>1 DEF IInv, Eliminated, Cut, SentCurrent
<1>3. TypeOK'
  BY <1>1 DEF IInv, TypeOK
<1>4. RowsLead' /\ DataMatchesFunctional' /\ Reducing'
  BY <1>1 DEF IInv, RowsLead, DataMatchesFunctional, Reducing
<1>5. MetafileFollows' /\ MetafileLoadable' /\ WithoutMetafile' /\ Columns'
  BY <1>1, <1>2 DEF IInv, MetafileFollows, MetafileLoadable, WithoutMetafile, Columns
<1>6. Eliminated' /\ Cut' /\ SentCurrent'
  BY <1>1, <1>2 DEF IInv, Eliminated, Cut, SentCurrent
<1> QED
  BY <1>3, <1>4, <1>5, <1>6 DEF IInv

\* The XOR of some rows, no row at all excepted, has a bit: the place of the
\* first of them.
LEMMA CombinationNotBlank ==
  ASSUME NEW m \in Matrices, NEW R \in SUBSET Rows(m), R # {},
         \A i \in Rows(m) : FirstBit(m[i]) = i
  PROVE  Combination(m, R) # {}
<1> USE ConstantsAssumption
<1>1. R \subseteq Nat /\ R \subseteq Chunks
  BY DEF Rows, Chunks
<1>2. PICK i \in R : \A j \in R : i <= j
  BY <1>1, LeastNat
<1>3. \A j \in R : m[j] \in Functionals /\ FirstBit(m[j]) = j
  BY DEF Rows, Matrices
<1>4. i \in m[i]
  BY <1>1, <1>2, <1>3, FirstBitIsLeast DEF Chunks, NPos
<1>5. ASSUME NEW j \in R, j # i
      PROVE  i \notin m[j]
  <2>1. \A k \in m[j] : j <= k
    BY <1>3, FirstBitIsLeast
  <2>2. i < j
    BY <1>1, <1>2, <1>5
  <2>3. i \in Int /\ j \in Int
    BY <1>1
  <2> QED
    BY <2>1, <2>2, <2>3
<1>6. {j \in R : i \in m[j]} = {i}
  BY <1>2, <1>4, <1>5
<1>7. Cardinality({i}) = 1
  BY FS_Singleton
<1>8. i \in Combination(m, R)
  <2>1. Cardinality({j \in R : i \in m[j]}) % 2 = 1
    <3>1. Cardinality({j \in R : i \in m[j]}) = 1
      BY <1>6, <1>7, Zenon
    <3> QED
      BY <3>1
  <2>2. i \in Chunks
    BY <1>1, <1>2
  <2> QED
    BY <2>1, <2>2 DEF Combination
<1> QED
  BY <1>8

\* Generating a chunk reads rows and data.
LEMMA GetChunkIInv ==
  ASSUME IInv, GetChunk
  PROVE  IInv'
<1> USE ConstantsAssumption, MatrixFacts
<1>1. /\ pc = "idle"
      /\ UNCHANGED <<pc, matrix, eliminated, offered, chunk, bit, at, answer,
                     metafile, disk, length, trimmed>>
  BY DEF GetChunk, memory, adding, storage
<1>2. matrix \in Matrices /\ disk \in Matrices
  BY DEF IInv, TypeOK
<1>3. sent' \in Chunk /\ SentIsCombination'
  <2>1. CASE Rows(matrix) = {}
    <3>1. sent' = [func |-> {}, data |-> {}]
      BY <2>1 DEF GetChunk
    <3>2. {} \in Functionals /\ Rows(matrix') = {}
      BY <2>1, <1>1 DEF Functionals
    <3> QED
      BY <3>1, <3>2 DEF Chunk, SentIsCombination
  <2>2. CASE Rows(matrix) # {}
    <3> DEFINE n == Cardinality(Rows(matrix))
    <3>1. PICK R \in SUBSET Rows(matrix) :
            /\ Cardinality(R) \in CombinationSizes(n)
            /\ sent' = [func |-> Combination(matrix, R), data |-> Combination(disk, R)]
      BY <2>2 DEF GetChunk
    <3>2. n \in Nat /\ n > 0
      <4>1. IsFiniteSet(Chunks)
        BY FS_Interval DEF Chunks
      <4>2. IsFiniteSet(Rows(matrix))
        BY <4>1, FS_Subset DEF Rows
      <4> QED
        BY <4>2, <2>2, FS_CardinalityType, FS_EmptySet
    <3>3. R # {}
      <4> HIDE DEF n
      <4>1. \A c \in CombinationSizes(n) : c > 0
        <5> TAKE c \in CombinationSizes(n)
        <5>1. PICK k \in {2, 4, 8, 16} \cup 2 .. (n - 1), extra \in {0, 1} :
                c = ((k - 1 + extra) % n) + 1
          BY DEF CombinationSizes
        <5>2. k \in Nat
          BY <3>2
        <5>3. k - 1 + extra \in Int
          BY <5>2
        <5>4. (k - 1 + extra) % n \in 0 .. n - 1
          BY <5>3, <3>2
        <5> QED
          BY <5>1, <5>4, <3>2
      <4> QED
        BY <3>1, <4>1, FS_EmptySet
    <3>4. \A i \in R : disk[i] = matrix[i]
      BY DEF IInv, DataMatchesFunctional
    <3>5. Combination(disk, R) = Combination(matrix, R)
      <4>1. \A k \in Chunks : {i \in R : k \in disk[i]} = {i \in R : k \in matrix[i]}
        BY <3>4
      <4> QED
        BY <4>1 DEF Combination
    <3>6. Combination(matrix, R) # {}
      BY <1>2, <3>3, CombinationNotBlank DEF IInv, RowsLead
    <3>7. Combination(matrix, R) \in Functionals
      BY DEF Combination, Functionals
    <3>8. Rows(matrix') # {}
      BY <2>2, <1>1
    <3> QED
      BY <3>1, <3>5, <3>6, <3>7, <3>8 DEF Chunk, SentIsCombination
  <2> QED
    BY <2>1, <2>2
<1>4. TypeOK'
  BY <1>1, <1>3 DEF IInv, TypeOK
<1>5. RowsLead' /\ DataMatchesFunctional' /\ Reducing'
  BY <1>1 DEF IInv, RowsLead, DataMatchesFunctional, Reducing
<1>6. MetafileFollows' /\ MetafileLoadable' /\ WithoutMetafile' /\ Columns'
  BY <1>1 DEF IInv, MetafileFollows, MetafileLoadable, WithoutMetafile, Columns
<1>7. Eliminated' /\ Cut' /\ SentCurrent'
  BY <1>1, <1>3 DEF IInv, Eliminated, Cut, SentCurrent, IsDone
<1> QED
  BY <1>4, <1>5, <1>6, <1>7 DEF IInv

\* Saving the rows once more.
LEMMA SaveResumeDataIInv ==
  ASSUME IInv, SaveResumeData
  PROVE  IInv'
<1> USE ConstantsAssumption, MatrixFacts
<1>1. /\ pc = "idle"
      /\ metafile' = metafile
      /\ UNCHANGED <<pc, matrix, eliminated, offered, chunk, bit, at, answer, sent,
                     disk, length, trimmed>>
  BY DEF IInv, MetafileFollows, SaveResumeData, Persist, memory, adding, storage
<1>2. TypeOK'
  BY <1>1 DEF IInv, TypeOK
<1>3. RowsLead' /\ DataMatchesFunctional' /\ Reducing'
  BY <1>1 DEF IInv, RowsLead, DataMatchesFunctional, Reducing
<1>4. MetafileFollows' /\ MetafileLoadable' /\ WithoutMetafile'
  BY <1>1 DEF IInv, MetafileFollows, MetafileLoadable, WithoutMetafile
<1>5. Columns'
  BY <1>1 DEF Columns
<1>6. Eliminated'
  BY <1>1 DEF IInv, Eliminated, IsDone
<1>7. Cut' /\ SentCurrent'
  BY <1>1 DEF IInv, Cut, SentCurrent, SentIsCombination
<1> QED
  BY <1>2, <1>3, <1>4, <1>5, <1>6, <1>7 DEF IInv

\* The process ends, in order or not, while no row is eliminated: the
\* metafile's rows are on disk.
LEMMA DownIInv ==
  ASSUME IInv, ForgetMemory, UNCHANGED <<metafile, storage>>,
         pc \notin {"down", "failed", "eliminating"}
  PROVE  IInv'
<1> USE ConstantsAssumption, MatrixFacts
<1>1. pc \in {"idle", "reducing", "saving", "truncating", "deleting", "unlinking"}
  BY DEF IInv, TypeOK
<1>2. /\ pc' = "down" /\ matrix' = EmptyMatrix /\ eliminated' = FALSE
      /\ offered' = NoOffer /\ chunk' = NoChunk /\ bit' = NPos /\ at' = <<N, 0>>
      /\ answer' = "none" /\ sent' = NoChunk
      /\ UNCHANGED <<metafile, disk, length, trimmed>>
  BY DEF ForgetMemory, storage
<1>3. TypeOK'
  <2>1. at' \in (0 .. N) \X (0 .. N - 1)
    BY <1>2
  <2>2. bit' \in 0 .. NPos
    BY <1>2 DEF NPos
  <2> QED
    BY <1>2, <2>1, <2>2 DEF IInv, TypeOK
<1>4. RowsLead' /\ DataMatchesFunctional' /\ Reducing'
  BY <1>2 DEF RowsLead, DataMatchesFunctional, Reducing
<1>5. MetafileLoadable'
  <2> SUFFICES ASSUME metafile # NoMetaFile
               PROVE  /\ Rows(metafile) = Chunks => metafile = IdentityMatrix
                      /\ \A i \in Rows(metafile) :
                           FirstBit(metafile[i]) = i /\ disk[i] = metafile[i]
    BY <1>2 DEF MetafileLoadable
  <2>1. \A i \in Rows(metafile) : i \in Rows(matrix) /\ metafile[i] = matrix[i]
    BY <1>1 DEF IInv, MetafileFollows, Rows
  <2>2. \A i \in Rows(metafile) : FirstBit(metafile[i]) = i /\ disk[i] = metafile[i]
    BY <2>1 DEF IInv, RowsLead, DataMatchesFunctional
  <2>3. ASSUME Rows(metafile) = Chunks
        PROVE  metafile = IdentityMatrix
    <3>1. metafile = matrix
      BY <1>1, <2>3 DEF IInv, MetafileFollows
    <3>2. IsUpperTriangular(matrix)
      BY <2>3, <3>1, FullMeansTriangular DEF IInv, TypeOK, RowsLead
    <3> QED
      BY <1>1, <2>3, <3>1, <3>2 DEF IInv, MetafileFollows, Eliminated, Reducing, IsDone
  <2> QED
    BY <2>2, <2>3
<1>6. MetafileFollows' /\ WithoutMetafile'
  BY <1>1, <1>2 DEF IInv, MetafileFollows, WithoutMetafile
<1>7. Columns' /\ Eliminated' /\ SentCurrent'
  BY <1>2 DEF Columns, Eliminated, SentCurrent, IsDone
<1>8. Cut'
  BY <1>1, <1>2 DEF IInv, Cut
<1> QED
  BY <1>3, <1>4, <1>5, <1>6, <1>7, <1>8 DEF IInv

\* A step that changes nothing.
LEMMA StutterIInv ==
  ASSUME IInv, UNCHANGED vars
  PROVE  IInv'
<1>1. UNCHANGED <<pc, matrix, eliminated, offered, chunk, bit, at, answer, sent,
                  metafile, disk, length, trimmed>>
  BY DEF vars
<1>2. TypeOK' /\ RowsLead' /\ DataMatchesFunctional' /\ Reducing'
  BY <1>1 DEF IInv, TypeOK, RowsLead, DataMatchesFunctional, Reducing, IsDone
<1>3. MetafileFollows' /\ MetafileLoadable' /\ WithoutMetafile' /\ Columns'
  BY <1>1 DEF IInv, MetafileFollows, MetafileLoadable, WithoutMetafile, Columns
<1>4. Eliminated' /\ Cut' /\ SentCurrent'
  BY <1>1 DEF IInv, Eliminated, Cut, SentCurrent, SentIsCombination, IsDone
<1> QED
  BY <1>2, <1>3, <1>4 DEF IInv

-----------------------------------------------------------------------------
(***************************************************************************)
(* The theorems.                                                           *)
(***************************************************************************)

\* The inductive invariant holds of every behaviour in which no crash comes
\* while the rows are eliminated.
THEOREM Invariance ==
  ASSUME ~CrashInElimination
  PROVE  Spec => []IInv
<1>1. Init => IInv
  BY InitIInv
<1>2. IInv /\ [Next]_vars => IInv'
  <2> SUFFICES ASSUME IInv, [Next]_vars
               PROVE  IInv'
    OBVIOUS
  <2>1. CASE Open
    BY <2>1, OpenNewIInv, OpenCompleteIInv, OpenIncompleteIInv, OpenFailsIInv DEF Open
  <2>2. CASE Retry
    BY <2>2, OpenFailsIInv
  <2>3. CASE \E f \in Offers : Offer(f)
    BY <2>3, OfferIInv, ConstantsAssumption
  <2>4. CASE Reduce \/ Reject \/ Insert \/ Save
    BY <2>4, ReduceIInv, RejectIInv, InsertIInv, SaveIInv
  <2>5. CASE Eliminate \/ CloseFiles \/ Truncate \/ DeleteMetaFile \/ Unlink
    BY <2>5, EliminateIInv, CloseFilesIInv, TruncateIInv, DeleteMetaFileIInv, UnlinkIInv
  <2>6. CASE GetChunk
    BY <2>6, GetChunkIInv
  <2>7. CASE GetChunkDividesByZero
    BY <2>7, DownIInv DEF GetChunkDividesByZero
  <2>8. CASE SaveResumeData
    BY <2>8, SaveResumeDataIInv
  <2>9. CASE ShutDown
    <3>1. pc = "idle" /\ ForgetMemory /\ UNCHANGED storage
      BY <2>9 DEF ShutDown
    <3>2. UNCHANGED metafile
      BY <2>9 DEF ShutDown, Persist, IInv, MetafileFollows
    <3> QED
      BY <3>1, <3>2, DownIInv
  <2>10. CASE Crash
    BY <2>10, DownIInv DEF Crash
  <2>11. CASE UNCHANGED vars
    BY <2>11, StutterIInv
  <2> QED
    BY <2>1, <2>2, <2>3, <2>4, <2>5, <2>6, <2>7, <2>8, <2>9, <2>10, <2>11
    DEF Next, Continue
<1> QED
  BY <1>1, <1>2, PTL DEF Spec

\* Every variable stays within its type: no row, chunk or place of an
\* elimination, a reduction or a metafile leaves the file.
THEOREM TypeCorrect ==
  ASSUME ~CrashInElimination
  PROVE  Spec => []TypeOK
<1>1. IInv => TypeOK
  BY DEF IInv
<1> QED
  BY <1>1, Invariance, PTL

\* Every row starts at its own place, and a reduced chunk goes to an empty
\* one: the assertion of FileObject::putChunk cannot fail.
THEOREM RowsAlwaysLead ==
  ASSUME ~CrashInElimination
  PROVE  Spec => []RowsLead
<1>1. IInv => RowsLead
  BY DEF IInv
<1> QED
  BY <1>1, Invariance, PTL

\* The data on disk and in hand is what the functionals say, through every
\* reduction, elimination, crash and restart.
THEOREM DataAlwaysMatches ==
  ASSUME ~CrashInElimination
  PROVE  Spec => []DataMatchesFunctional
<1>1. IInv => DataMatchesFunctional
  BY DEF IInv
<1> QED
  BY <1>1, Invariance, PTL

\* A file that is done has every piece at its place.
THEOREM DoneIsDecoded ==
  ASSUME ~CrashInElimination
  PROVE  Spec => []DecodedWhenDone
<1>1. IInv => DecodedWhenDone
  <2> SUFFICES ASSUME IInv, pc = "idle", IsDone
               PROVE  disk = IdentityMatrix
    BY DEF DecodedWhenDone
  <2>1. matrix = IdentityMatrix
    BY DEF IInv, Eliminated
  <2> QED
    BY <2>1, MatrixFacts DEF IInv, TypeOK, Matrices, DataMatchesFunctional, IdentityMatrix
<1> QED
  BY <1>1, Invariance, PTL

\* A chunk that is sent is what its functional says, and it is blank only when
\* there are no rows, however many rows are combined and whichever.
THEOREM SentChunksAreCombinations ==
  ASSUME ~CrashInElimination
  PROVE  Spec => []SentIsCombination
<1>1. IInv => SentIsCombination
  BY DEF IInv, SentCurrent, SentIsCombination
<1> QED
  BY <1>1, Invariance, PTL

-----------------------------------------------------------------------------
(***************************************************************************)
(* XOR of functionals.                                                     *)
(***************************************************************************)

\* XOR is commutative and associative, {} is its zero, and it undoes itself.
LEMMA XorFacts ==
  /\ \A f : SymDiff(f, {}) = f /\ SymDiff({}, f) = f /\ SymDiff(f, f) = {}
  /\ \A f, g : SymDiff(f, g) = SymDiff(g, f) /\ SymDiff(f, SymDiff(f, g)) = g
  /\ \A f, g, h : SymDiff(f, SymDiff(g, h)) = SymDiff(SymDiff(f, g), h)
<1>1. ASSUME NEW f, NEW g, NEW h
      PROVE  SymDiff(f, SymDiff(g, h)) = SymDiff(SymDiff(f, g), h)
  BY DEF SymDiff
<1>2. ASSUME NEW f, NEW g
      PROVE  SymDiff(f, g) = SymDiff(g, f) /\ SymDiff(f, SymDiff(f, g)) = g
  BY DEF SymDiff
<1>3. ASSUME NEW f
      PROVE  SymDiff(f, {}) = f /\ SymDiff({}, f) = f /\ SymDiff(f, f) = {}
  BY DEF SymDiff
<1> QED BY <1>1, <1>2, <1>3

\* The operators that Knowledge takes from the library are PartialFile's.
LEMMA SameOperators ==
  /\ \A f, g : Abstract!SymDiff(f, g) = SymDiff(f, g)
  /\ \A S : Abstract!Cardinality(S) = Cardinality(S)
<1>1. ASSUME NEW f, NEW g PROVE Abstract!SymDiff(f, g) = SymDiff(f, g)
  BY DEF Abstract!SymDiff, SymDiff
<1>2. ASSUME NEW S PROVE Abstract!Cardinality(S) = Cardinality(S)
  BY DEF Abstract!Cardinality, Cardinality
<1> QED BY <1>1, <1>2

LEMMA Parity == \A n \in Nat : (n + 1) % 2 = 1 <=> ~(n % 2 = 1)
OBVIOUS

\* Sets of chunks and of functionals are finite.
LEMMA Finite ==
  /\ IsFiniteSet(Chunks) /\ IsFiniteSet(Functionals)
  /\ \A R \in SUBSET Chunks : IsFiniteSet(R) /\ Cardinality(R) \in Nat
  /\ \A S \in SUBSET Functionals : IsFiniteSet(S) /\ Cardinality(S) \in Nat
<1>1. IsFiniteSet(Chunks)
  BY FS_Interval, ConstantsAssumption DEF Chunks
<1>2. IsFiniteSet(Functionals)
  BY <1>1, FS_SUBSET DEF Functionals
<1> QED BY <1>1, <1>2, FS_Subset, FS_CardinalityType

-----------------------------------------------------------------------------
(***************************************************************************)
(* Combinations of rows.                                                   *)
(***************************************************************************)

\* One more row in a combination is one more XOR.
LEMMA CombinationStep ==
  ASSUME NEW m \in Matrices, NEW R \in SUBSET Chunks, NEW i \in Chunks \ R
  PROVE  Combination(m, R \cup {i}) = SymDiff(Combination(m, R), m[i])
<1> DEFINE A(k) == {j \in R : k \in m[j]}
           B(k) == {j \in R \cup {i} : k \in m[j]}
<1>1. ASSUME NEW k \in Chunks
      PROVE  Cardinality(B(k)) % 2 = 1 <=>
               IF k \in m[i] THEN ~(Cardinality(A(k)) % 2 = 1) ELSE Cardinality(A(k)) % 2 = 1
  <2>1. IsFiniteSet(A(k)) /\ Cardinality(A(k)) \in Nat
    BY Finite
  <2>2. CASE k \in m[i]
    <3>1. B(k) = A(k) \cup {i} /\ i \notin A(k)
      BY <2>2
    <3>2. Cardinality(B(k)) = Cardinality(A(k)) + 1
      BY <2>1, <3>1, FS_AddElement
    <3> QED BY <2>1, <2>2, <3>2, Parity
  <2>3. CASE k \notin m[i]
    <3>1. B(k) = A(k)
      BY <2>3
    <3> QED BY <2>3, <3>1
  <2> QED BY <2>2, <2>3
<1>2. \A k \in Chunks : k \in Combination(m, R) <=> Cardinality(A(k)) % 2 = 1
  BY DEF Combination
<1>3. \A k \in Chunks : k \in Combination(m, R \cup {i}) <=> Cardinality(B(k)) % 2 = 1
  BY DEF Combination
<1>4. /\ Combination(m, R) \subseteq Chunks
      /\ Combination(m, R \cup {i}) \subseteq Chunks
      /\ m[i] \subseteq Chunks
  BY DEF Combination, Matrices, Functionals
<1> HIDE DEF A, B
<1>5. \A k \in Chunks : k \in Combination(m, R \cup {i}) <=>
                          (k \in Combination(m, R) /\ k \notin m[i])
                          \/ (k \in m[i] /\ k \notin Combination(m, R))
  BY <1>1, <1>2, <1>3
<1> QED BY <1>4, <1>5 DEF SymDiff

\* A combination contains nothing that no row of it contains.
LEMMA CombinationType ==
  ASSUME NEW m, NEW R \in SUBSET Chunks
  PROVE  /\ Combination(m, R) \in Functionals
         /\ \A k \in Combination(m, R) : \E i \in R : k \in m[i]
         /\ Combination(m, {}) = {}
<1>1. Combination(m, R) \in Functionals
  BY DEF Combination, Functionals
<1>2. ASSUME NEW Q, NEW k \in Combination(m, Q), {i \in Q : k \in m[i]} = {} PROVE FALSE
  <2>1. Cardinality({i \in Q : k \in m[i]}) = 0
    BY <1>2, FS_EmptySet
  <2>2. Cardinality({i \in Q : k \in m[i]}) % 2 = 1
    BY DEF Combination
  <2> QED BY <2>1, <2>2
<1> QED BY <1>1, <1>2

-----------------------------------------------------------------------------
(***************************************************************************)
(* What the rows span.                                                     *)
(***************************************************************************)

\* The span has the blank chunk and every row, and XORing a row stays in it.
LEMMA SpanFacts ==
  ASSUME NEW m \in Matrices
  PROVE  /\ Span(m) \subseteq Functionals
         /\ {} \in Span(m)
         /\ \A g \in Span(m), i \in Chunks : SymDiff(g, m[i]) \in Span(m)
         /\ \A i \in Chunks : m[i] \in Span(m)
<1>0. Rows(m) \subseteq Chunks
  BY DEF Rows
<1>1. Span(m) \subseteq Functionals
  BY <1>0, CombinationType DEF Span
<1>2. {} \in Span(m)
  <2>1. Combination(m, {}) = {} /\ {} \in SUBSET Rows(m)
    BY CombinationType
  <2> QED BY <2>1 DEF Span
<1>3. ASSUME NEW g \in Span(m), NEW i \in Chunks PROVE SymDiff(g, m[i]) \in Span(m)
  <2>1. PICK R \in SUBSET Rows(m) : g = Combination(m, R)
    BY DEF Span
  <2>2. CASE m[i] = {}
    BY <2>2, XorFacts
  <2>3. CASE m[i] # {} /\ i \notin R
    <3>1. Combination(m, R \cup {i}) = SymDiff(g, m[i])
      BY <1>0, <2>1, <2>3, CombinationStep
    <3>2. R \cup {i} \in SUBSET Rows(m)
      BY <2>3 DEF Rows
    <3> QED BY <3>1, <3>2 DEF Span
  <2>4. CASE m[i] # {} /\ i \in R
    <3> DEFINE Q == R \ {i}
    <3>1. Q \in SUBSET Rows(m) /\ Q \in SUBSET Chunks /\ i \in Chunks \ Q /\ Q \cup {i} = R
      BY <1>0, <2>4
    <3> HIDE DEF Q
    <3>2. g = SymDiff(Combination(m, Q), m[i])
      BY <2>1, <3>1, CombinationStep
    <3>3. SymDiff(g, m[i]) = Combination(m, Q)
      BY <3>2, XorFacts
    <3> QED BY <3>1, <3>3 DEF Span
  <2> QED BY <2>2, <2>3, <2>4
<1>4. ASSUME NEW i \in Chunks PROVE m[i] \in Span(m)
  <2>1. SymDiff({}, m[i]) = m[i]
    BY XorFacts
  <2> QED BY <1>2, <1>3, <2>1
<1> QED BY <1>1, <1>2, <1>3, <1>4

\* Whatever has the blank chunk and stays the same when a row is XORed has
\* the whole span.
LEMMA SpanInduction ==
  ASSUME NEW m \in Matrices, NEW S, {} \in S,
         \A g \in S, i \in Chunks : SymDiff(g, m[i]) \in S
  PROVE  Span(m) \subseteq S
<1> DEFINE T == {n \in Nat : \A R \in SUBSET Chunks : (\A i \in R : i < n) => Combination(m, R) \in S}
<1>1. 0 \in T
  <2>1. ASSUME NEW R \in SUBSET Chunks, \A i \in R : i < 0 PROVE Combination(m, R) \in S
    <3>1. R = {}
      BY <2>1, ConstantsAssumption DEF Chunks
    <3> QED BY <3>1, CombinationType
  <2> QED BY <2>1
<1>2. ASSUME NEW n \in Nat, n \in T PROVE n + 1 \in T
  <2>1. ASSUME NEW R \in SUBSET Chunks, \A i \in R : i < n + 1 PROVE Combination(m, R) \in S
    <3>1. CASE n \notin R
      <4>1. \A i \in R : i < n
        BY <2>1, <3>1, ConstantsAssumption DEF Chunks
      <4> QED BY <1>2, <4>1
    <3>2. CASE n \in R
      <4> DEFINE Q == R \ {n}
      <4>1. /\ Q \in SUBSET Chunks /\ n \in Chunks \ Q /\ Q \cup {n} = R
            /\ \A i \in Q : i < n
        BY <2>1, <3>2, ConstantsAssumption DEF Chunks
      <4> HIDE DEF Q
      <4>2. Combination(m, Q) \in S
        BY <1>2, <4>1
      <4>3. Combination(m, R) = SymDiff(Combination(m, Q), m[n])
        BY <4>1, CombinationStep
      <4> QED BY <4>1, <4>2, <4>3
    <3> QED BY <3>1, <3>2
  <2>2. n + 1 \in Nat
    OBVIOUS
  <2> QED BY <2>1, <2>2
<1>3. N \in T
  <2> HIDE DEF T
  <2> QED BY <1>1, <1>2, SetInduction, ConstantsAssumption
<1>4. \A R \in SUBSET Chunks : \A i \in R : i < N
  BY ConstantsAssumption DEF Chunks
<1>5. \A R \in SUBSET Chunks : Combination(m, R) \in S
  BY <1>3, <1>4
<1> QED BY <1>5 DEF Span, Rows

\* The span is a space: XOR does not leave it.
LEMMA SpanIsSpace ==
  ASSUME NEW m \in Matrices
  PROVE  /\ Abstract!IsSpace(Span(m))
         /\ \A f, g \in Span(m) : SymDiff(f, g) \in Span(m)
<1>1. ASSUME NEW f \in Span(m), NEW g \in Span(m) PROVE SymDiff(f, g) \in Span(m)
  <2> DEFINE S == {h \in Functionals : SymDiff(f, h) \in Span(m)}
  <2>1. {} \in S
    BY XorFacts DEF Functionals
  <2>2. ASSUME NEW h \in S, NEW i \in Chunks PROVE SymDiff(h, m[i]) \in S
    <3>1. SymDiff(f, SymDiff(h, m[i])) = SymDiff(SymDiff(f, h), m[i])
      BY XorFacts
    <3>2. SymDiff(SymDiff(f, h), m[i]) \in Span(m)
      BY SpanFacts
    <3>3. SymDiff(h, m[i]) \in Functionals
      BY SymDiffFunctional DEF Matrices
    <3> QED BY <3>1, <3>2, <3>3
  <2> HIDE DEF S
  <2>3. Span(m) \subseteq S
    BY <2>1, <2>2, SpanInduction
  <2> QED BY <2>3 DEF S
<1> QED BY <1>1, SpanFacts, SameOperators DEF Abstract!IsSpace

\* Rows that another matrix can make add nothing to what it can make.
LEMMA RowsSpan ==
  ASSUME NEW a \in Matrices, NEW b \in Matrices, \A i \in Chunks : a[i] \in Span(b)
  PROVE  Span(a) \subseteq Span(b)
BY SpanFacts, SpanIsSpace, SpanInduction


\* The row of a chunk that was reduced by the rows adds what the chunk adds.
LEMMA InsertSpan ==
  ASSUME NEW m \in Matrices, NEW p \in Chunks, m[p] = {},
         NEW e \in Functionals, NEW f \in Functionals, SymDiff(f, e) \in Span(m)
  PROVE  /\ [m EXCEPT ![p] = e] \in Matrices
         /\ Span([m EXCEPT ![p] = e]) = Abstract!With(Span(m), f)
<1> DEFINE n == [m EXCEPT ![p] = e]
           W == Span(m) \cup {SymDiff(f, g) : g \in Span(m)}
<1>1. n \in Matrices /\ n[p] = e /\ \A i \in Chunks : i # p => n[i] = m[i]
  BY DEF Matrices
<1> HIDE DEF n
<1>2. Span(n) \subseteq W
  <2>1. {} \in W
    BY SpanFacts
  <2>2. ASSUME NEW g \in W, NEW i \in Chunks PROVE SymDiff(g, n[i]) \in W
    <3>1. CASE g \in Span(m) /\ i # p
      <4>1. SymDiff(g, n[i]) \in Span(m)
        BY <3>1, <1>1, SpanFacts
      <4> QED BY <4>1
    <3>2. CASE g \in Span(m) /\ i = p
      <4>1. SymDiff(g, SymDiff(f, e)) \in Span(m)
        BY <3>2, SpanIsSpace
      <4>2. SymDiff(f, SymDiff(g, SymDiff(f, e))) = SymDiff(g, e)
        BY DEF SymDiff
      <4> QED BY <3>2, <4>1, <4>2, <1>1
    <3>3. CASE g \notin Span(m) /\ i # p
      <4>1. PICK h \in Span(m) : g = SymDiff(f, h)
        BY <3>3
      <4>2. SymDiff(g, n[i]) = SymDiff(f, SymDiff(h, m[i]))
        BY <3>3, <4>1, <1>1, XorFacts
      <4>3. SymDiff(h, m[i]) \in Span(m)
        BY SpanFacts
      <4> QED BY <4>2, <4>3
    <3>4. CASE g \notin Span(m) /\ i = p
      <4>1. PICK h \in Span(m) : g = SymDiff(f, h)
        BY <3>4
      <4>2. SymDiff(SymDiff(f, h), e) = SymDiff(h, SymDiff(f, e))
        BY DEF SymDiff
      <4>3. SymDiff(h, SymDiff(f, e)) \in Span(m)
        BY SpanIsSpace
      <4> QED BY <3>4, <4>1, <4>2, <4>3, <1>1
    <3> QED BY <3>1, <3>2, <3>3, <3>4
  <2> HIDE DEF W
  <2> QED BY <2>1, <2>2, <1>1, SpanInduction
<1>3. W \subseteq Span(n)
  <2>1. \A i \in Chunks : m[i] \in Span(n)
    <3> TAKE i \in Chunks
    <3>1. CASE i = p
      BY <3>1, <1>1, SpanFacts
    <3>2. CASE i # p
      BY <3>2, <1>1, SpanFacts
    <3> QED BY <3>1, <3>2
  <2>2. Span(m) \subseteq Span(n)
    BY <2>1, <1>1, RowsSpan
  <2>3. e \in Span(n)
    BY <1>1, SpanFacts
  <2>4. SymDiff(SymDiff(f, e), e) \in Span(n)
    BY <1>1, <2>2, <2>3, SpanIsSpace
  <2>5. SymDiff(SymDiff(f, e), e) = f
    BY DEF SymDiff
  <2>6. \A g \in Span(m) : SymDiff(f, g) \in Span(n)
    BY <1>1, <2>2, <2>4, <2>5, SpanIsSpace
  <2> QED BY <2>2, <2>6
<1>4. Abstract!With(Span(m), f) = W
  BY SameOperators DEF Abstract!With
<1> QED BY <1>1, <1>2, <1>3, <1>4 DEF n

\* A row operation of the elimination changes nothing of what can be made.
LEMMA EliminateSpan ==
  ASSUME NEW m \in Matrices, NEW i \in Chunks, NEW j \in Chunks, i # j
  PROVE  /\ [m EXCEPT ![j] = SymDiff(m[j], m[i])] \in Matrices
         /\ Span([m EXCEPT ![j] = SymDiff(m[j], m[i])]) = Span(m)
<1> DEFINE e == SymDiff(m[j], m[i])
           n == [m EXCEPT ![j] = e]
<1>1. e \in Functionals
  BY SymDiffFunctional DEF Matrices
<1>2. n \in Matrices /\ n[j] = e /\ \A k \in Chunks : k # j => n[k] = m[k]
  BY <1>1 DEF Matrices
<1> HIDE DEF n
<1>3. \A k \in Chunks : n[k] \in Span(m)
  <2>1. e \in Span(m)
    BY SpanFacts, SpanIsSpace
  <2> QED BY <1>2, <2>1, SpanFacts
<1>4. \A k \in Chunks : m[k] \in Span(n)
  <2>1. SymDiff(n[j], n[i]) \in Span(n)
    BY <1>2, SpanFacts, SpanIsSpace
  <2>2. SymDiff(n[j], n[i]) = m[j]
    <3>1. SymDiff(SymDiff(m[j], m[i]), m[i]) = m[j]
      BY DEF SymDiff
    <3> QED BY <3>1, <1>2
  <2>3. ASSUME NEW k \in Chunks PROVE m[k] \in Span(n)
    <3>1. CASE k = j
      BY <3>1, <2>1, <2>2
    <3>2. CASE k # j
      BY <3>2, <1>2, SpanFacts
    <3> QED BY <3>1, <3>2
  <2> QED BY <2>3
<1>5. Span(n) \subseteq Span(m) /\ Span(m) \subseteq Span(n)
  BY <1>2, <1>3, <1>4, RowsSpan
<1> QED BY <1>2, <1>5 DEF n

\* One chunk at most doubles what is known.
LEMMA WithDoubles ==
  ASSUME NEW S \in SUBSET Functionals, NEW f \in Functionals
  PROVE  Cardinality(Abstract!With(S, f)) <= 2 * Cardinality(S)
<1> DEFINE T == {SymDiff(f, g) : g \in S}
           h == [g \in S |-> SymDiff(f, g)]
<1>1. IsFiniteSet(S) /\ Cardinality(S) \in Nat
  BY Finite
<1>2. h \in Surjection(S, T)
  BY DEF Surjection
<1>3. IsFiniteSet(T) /\ Cardinality(T) <= Cardinality(S)
  BY <1>1, <1>2, FS_Surjection
<1>4. /\ IsFiniteSet(S \cup T)
      /\ Cardinality(S \cup T) = Cardinality(S) + Cardinality(T) - Cardinality(S \cap T)
  BY <1>1, <1>3, FS_Union
<1>5. IsFiniteSet(S \cap T) /\ Cardinality(S \cap T) \in Nat /\ Cardinality(T) \in Nat
  BY <1>1, <1>3, FS_Intersection, FS_CardinalityType
<1>6. Abstract!With(S, f) = S \cup T
  BY SameOperators DEF Abstract!With
<1> QED BY <1>1, <1>3, <1>4, <1>5, <1>6

\* Where every row begins at its own place, so does everything they span.
LEMMA SpanLeads ==
  ASSUME NEW m \in Matrices, \A i \in Rows(m) : FirstBit(m[i]) = i,
         NEW g \in Span(m), g # {}
  PROVE  FirstBit(g) \in Rows(m)
<1>1. PICK R \in SUBSET Rows(m) : g = Combination(m, R)
  BY DEF Span
<1>2. R # {} /\ R \subseteq Nat /\ R \subseteq Chunks
  BY <1>1, CombinationType, ConstantsAssumption DEF Rows, Chunks
<1>3. PICK i \in R : \A j \in R : i <= j
  BY <1>2, LeastNat
<1>4. \A j \in R : m[j] \in Functionals /\ FirstBit(m[j]) = j
  BY DEF Rows, Matrices
<1>5. i \in m[i]
  BY <1>2, <1>3, <1>4, FirstBitIsLeast DEF Chunks, NPos
<1>6. \A j \in R : \A k \in m[j] : j <= k
  BY <1>4, FirstBitIsLeast
<1>7. ASSUME NEW j \in R, j # i PROVE i \notin m[j]
  <2>1. i \in Nat /\ j \in Nat /\ i <= j
    BY <1>2, <1>3
  <2>2. ~(j <= i)
    BY <2>1, <1>7
  <2> QED BY <2>2, <1>6
<1>8. i \in g
  <2>1. {j \in R : i \in m[j]} = {i}
    BY <1>3, <1>5, <1>7
  <2>2. Cardinality({i}) = 1
    BY FS_Singleton
  <2>3. Cardinality({j \in R : i \in m[j]}) = 1
    BY <2>1, <2>2, Zenon
  <2> QED BY <1>1, <1>2, <2>3 DEF Combination
<1>9. ASSUME NEW k \in g PROVE i <= k
  <2>1. PICK j \in R : k \in m[j]
    BY <1>1, <1>2, CombinationType
  <2>2. j <= k /\ i <= j
    BY <1>3, <1>6, <2>1
  <2>3. i \in Nat /\ j \in Nat /\ k \in Nat
    BY <1>2, <2>1, ConstantsAssumption DEF Matrices, Functionals, Chunks
  <2> QED BY <2>2, <2>3
<1>10. g \in Functionals
  BY SpanFacts
<1>11. FirstBit(g) = i
  BY <1>8, <1>9, <1>10, FirstBitUnique
<1> QED BY <1>3, <1>11

\* No rows make the blank chunk only; the unit matrix makes every chunk.
LEMMA SpanEnds ==
  /\ \A m \in Matrices : Rows(m) = {} => Span(m) = {{}}
  /\ Span(EmptyMatrix) = {{}}
  /\ Span(IdentityMatrix) = Functionals
<1>1. ASSUME NEW m \in Matrices, Rows(m) = {} PROVE Span(m) = {{}}
  <2>1. Span(m) = {Combination(m, {})}
    BY <1>1 DEF Span
  <2> QED BY <2>1, CombinationType
<1>2. Functionals \subseteq Span(IdentityMatrix)
  <2>1. ASSUME NEW f \in Functionals PROVE f \in Span(IdentityMatrix)
    <3>1. f \subseteq Chunks /\ Rows(IdentityMatrix) = Chunks
      BY MatrixFacts DEF Functionals
    <3>2. ASSUME NEW k \in Chunks
          PROVE  Cardinality({i \in f : k \in IdentityMatrix[i]}) % 2 = 1 <=> k \in f
      <4>1. {i \in f : k \in IdentityMatrix[i]} = f \cap {k}
        BY <3>1 DEF IdentityMatrix
      <4>2. CASE k \in f
        <5>1. f \cap {k} = {k}
          BY <4>2
        <5>2. Cardinality({k}) = 1
          BY FS_Singleton
        <5>3. Cardinality({i \in f : k \in IdentityMatrix[i]}) = 1
          BY <4>1, <5>1, <5>2, Zenon
        <5> QED BY <4>2, <5>3
      <4>3. CASE k \notin f
        <5>1. f \cap {k} = {}
          BY <4>3
        <5> QED BY <4>1, <4>3, <5>1, FS_EmptySet
      <4> QED BY <4>2, <4>3
    <3>3. Combination(IdentityMatrix, f) = f
      BY <3>1, <3>2 DEF Combination
    <3> QED BY <3>1, <3>3 DEF Span
  <2> QED BY <2>1
<1>3. Span(IdentityMatrix) \subseteq Functionals
  BY MatrixFacts, SpanFacts
<1> QED BY <1>1, <1>2, <1>3, MatrixFacts


-----------------------------------------------------------------------------
(***************************************************************************)
(* A file is done when everything can be made.                             *)
(***************************************************************************)

\* The rows that make every chunk on its own are all there.
LEMMA DoneSpans == IInv => DoneIffAllKnown
<1> SUFFICES ASSUME IInv, pc = "idle" PROVE IsDone <=> Span(matrix) = Functionals
  BY DEF DoneIffAllKnown
<1>1. ASSUME IsDone PROVE Span(matrix) = Functionals
  <2>1. matrix = IdentityMatrix
    BY <1>1 DEF IInv, Eliminated
  <2> QED BY <2>1, SpanEnds
<1>2. ASSUME Span(matrix) = Functionals PROVE IsDone
  <2>1. matrix \in Matrices /\ \A i \in Rows(matrix) : FirstBit(matrix[i]) = i
    BY DEF IInv, TypeOK, RowsLead
  <2>2. ASSUME NEW i \in Chunks PROVE i \in Rows(matrix)
    <3>1. {i} \in Functionals /\ i \in Int
      BY ConstantsAssumption DEF Functionals, Chunks
    <3>2. FirstBit({i}) = i
      BY <3>1, FirstBitUnique
    <3>3. FirstBit({i}) \in Rows(matrix)
      BY <1>2, <2>1, <3>1, SpanLeads
    <3> QED BY <3>2, <3>3
  <2>3. IsUpperTriangular(matrix)
    BY <2>1, <2>2 DEF IsUpperTriangular, Rows
  <2> QED BY <2>3 DEF IsDone
<1> QED BY <1>1, <1>2

-----------------------------------------------------------------------------
(***************************************************************************)
(* What the refinement needs beside IInv.                                  *)
(***************************************************************************)

\* The reduced functional differs from the offered one by rows.
OfferReduced ==
  IF pc = "reducing" THEN SymDiff(offered, chunk.func) \in Span(matrix)
                     ELSE offered = NoOffer

\* No row is older than the data file.
BlankFile ==
  length = 0 => Rows(matrix) = {} /\ (metafile # NoMetaFile => Rows(metafile) = {})

\* What was saved is one row behind the matrix, or none.
Behind(rows, m) ==
  /\ Span(rows) \subseteq Span(m)
  /\ Cardinality(Span(m)) <= 2 * Cardinality(Span(rows))

\* The metafile is one row behind the matrix while a row is saved: a crash
\* costs at most that.
Lag == pc = "saving" => Behind(metafile, matrix)

KnownInv == OfferReduced /\ BlankFile /\ Lag

FileInv == IInv /\ KnownInv

\* A matrix is behind the one that has a row more.
LEMMA OneRowBehind ==
  ASSUME NEW m \in Matrices, NEW n \in Matrices, NEW f \in Functionals,
         Span(n) = Abstract!With(Span(m), f)
  PROVE  Behind(m, n)
<1>1. Span(m) \in SUBSET Functionals /\ Cardinality(Span(m)) \in Nat
  BY SpanFacts, Finite
<1>2. Cardinality(Span(n)) <= 2 * Cardinality(Span(m))
  BY <1>1, WithDoubles
<1>3. Span(m) \subseteq Span(n)
  BY DEF Abstract!With
<1> QED BY <1>2, <1>3 DEF Behind

\* What the start will load is what KnownRows says.
LEMMA KnownRowsFacts ==
  ASSUME TypeOK
  PROVE  /\ pc \notin {"down", "failed"} => KnownRows = matrix
         /\ pc \in {"down", "failed"} /\ metafile # NoMetaFile => KnownRows = metafile
         /\ pc \in {"down", "failed"} /\ metafile = NoMetaFile =>
              KnownRows = IF trimmed THEN IdentityMatrix ELSE EmptyMatrix
         /\ KnownRows \in Matrices
BY MatrixFacts DEF KnownRows, TypeOK

\* A step that leaves what is known, the offer and the answer alone is none
\* of the abstract file's.
LEMMA Unseen ==
  ASSUME Span(KnownRows') = Span(KnownRows), offered' = offered, answer' = answer
  PROVE  UNCHANGED Abstract!vars
BY DEF Abstract!vars

-----------------------------------------------------------------------------
(***************************************************************************)
(* Every step keeps the invariant, and is a step of the abstract file or   *)
(* none.                                                                   *)
(***************************************************************************)

\* The constructor loads what KnownRows said it would.
LEMMA OpenKnown ==
  ASSUME FileInv, IInv', OpenNew \/ OpenComplete \/ OpenIncomplete
  PROVE  KnownInv' /\ UNCHANGED Abstract!vars
<1> USE ConstantsAssumption, MatrixFacts
<1>1. TypeOK /\ TypeOK'
  BY DEF FileInv, IInv
<1>2. /\ pc = "down" /\ pc' = "idle" /\ offered = NoOffer
      /\ UNCHANGED <<offered, answer, length, trimmed>>
      /\ matrix' \in Matrices
  BY <1>1 DEF OpenNew, OpenComplete, OpenIncomplete, Opened, storage, FileInv, KnownInv,
     OfferReduced, TypeOK
<1>3. KnownRows' = matrix'
  BY <1>2 DEF KnownRows
<1>4. CASE OpenNew
  <2>1. /\ matrix' = EmptyMatrix /\ metafile' = EmptyMatrix /\ length = 0
        /\ metafile # NoMetaFile => Rows(metafile) = {}
    BY <1>4 DEF OpenNew, Opened, FileInv, KnownInv, BlankFile
  <2>2. ~trimmed
    BY <2>1 DEF FileInv, IInv, Cut
  <2>3. Span(KnownRows) = {{}}
    <3>1. Rows(KnownRows) = {}
      BY <1>1, <1>2, <2>1, <2>2, KnownRowsFacts
    <3> QED BY <1>1, <3>1, KnownRowsFacts, SpanEnds
  <2>4. KnownInv'
    BY <1>2, <2>1 DEF KnownInv, OfferReduced, BlankFile, Lag
  <2> QED BY <1>2, <1>3, <2>1, <2>3, <2>4, SpanEnds, Unseen
<1>5. CASE OpenComplete
  <2>1. /\ matrix' = IdentityMatrix /\ length > 0
        /\ metafile # NoMetaFile => Rows(metafile) = Chunks
    BY <1>5 DEF OpenComplete, Opened, LooksComplete, IsComplete
  <2>2. KnownRows = IdentityMatrix
    BY <1>1, <1>2, <2>1, KnownRowsFacts DEF FileInv, IInv, MetafileLoadable, WithoutMetafile
  <2>3. KnownInv'
    BY <1>1, <1>2, <2>1 DEF KnownInv, OfferReduced, BlankFile, Lag, TypeOK
  <2> QED BY <1>2, <1>3, <2>1, <2>2, <2>3, Unseen
<1>6. CASE OpenIncomplete
  <2>1. matrix' = metafile /\ metafile # NoMetaFile /\ length > 0
    BY <1>6 DEF OpenIncomplete, Opened, HasRows
  <2>2. KnownRows = metafile
    BY <1>1, <1>2, <2>1, KnownRowsFacts
  <2>3. KnownInv'
    BY <1>1, <1>2, <2>1 DEF KnownInv, OfferReduced, BlankFile, Lag, TypeOK
  <2> QED BY <1>2, <1>3, <2>1, <2>2, <2>3, Unseen
<1> QED BY <1>4, <1>5, <1>6

\* A start that fails, and one more try.
LEMMA FailKnown ==
  ASSUME FileInv, OpenFails \/ Retry
  PROVE  KnownInv' /\ UNCHANGED Abstract!vars
<1>1. /\ pc \in {"down", "failed"} /\ pc' \in {"down", "failed"}
      /\ UNCHANGED <<matrix, offered, answer, metafile, length, trimmed>>
  BY DEF OpenFails, Retry, memory, adding, storage
<1>2. KnownRows' = KnownRows
  BY <1>1 DEF KnownRows
<1>3. KnownInv'
  BY <1>1 DEF FileInv, KnownInv, OfferReduced, BlankFile, Lag
<1> QED BY <1>1, <1>2, <1>3, Unseen

\* addChunk looks at a chunk.
LEMMA OfferKnown ==
  ASSUME FileInv, IInv', NEW f \in Functionals, Offer(f)
  PROVE  KnownInv' /\ Abstract!Next
<1> USE ConstantsAssumption, MatrixFacts
<1>1. /\ pc = "idle" /\ ~IsDone /\ pc' = "reducing"
      /\ offered' = f /\ chunk' = [func |-> f, data |-> f] /\ answer' = "none"
      /\ UNCHANGED <<matrix, metafile, length, trimmed>>
  BY DEF Offer, memory, storage
<1>2. matrix \in Matrices /\ offered = NoOffer
  BY <1>1 DEF FileInv, IInv, TypeOK, KnownInv, OfferReduced
<1>4. OfferReduced'
  <2>1. SymDiff(f, f) \in Span(matrix)
    BY <1>2, XorFacts, SpanFacts
  <2> QED BY <1>1, <2>1 DEF OfferReduced
<1>5. KnownInv'
  BY <1>1, <1>4 DEF FileInv, KnownInv, BlankFile, Lag
<1>6. KnownRows' = KnownRows
  BY <1>1 DEF KnownRows
<1>7. Abstract!Offer(f)
  BY <1>1, <1>2, <1>6 DEF Abstract!Offer
<1> QED BY <1>5, <1>7 DEF Abstract!Next, Functionals

\* A turn of semiReduce XORs a row.
LEMMA ReduceKnown ==
  ASSUME FileInv, IInv', Reduce
  PROVE  KnownInv' /\ UNCHANGED Abstract!vars
<1>1. /\ pc = "reducing" /\ bit # NPos
      /\ chunk'.func = SymDiff(chunk.func, matrix[bit])
      /\ UNCHANGED <<pc, matrix, offered, answer, metafile, length, trimmed>>
  BY DEF Reduce, memory, storage
<1>2. matrix \in Matrices /\ bit \in Chunks
  BY <1>1, ConstantsAssumption DEF FileInv, IInv, TypeOK, Chunks, NPos
<1>3. SymDiff(offered, chunk'.func) = SymDiff(SymDiff(offered, chunk.func), matrix[bit])
  BY <1>1, XorFacts
<1>4. OfferReduced'
  BY <1>1, <1>2, <1>3, SpanFacts DEF FileInv, KnownInv, OfferReduced
<1>5. KnownInv'
  BY <1>1, <1>4 DEF FileInv, KnownInv, BlankFile, Lag
<1>6. KnownRows' = KnownRows
  BY <1>1 DEF KnownRows
<1> QED BY <1>1, <1>5, <1>6, Unseen

\* Nothing is left of the chunk: it could have been made from the rows.
LEMMA RejectKnown ==
  ASSUME FileInv, IInv', Reject
  PROVE  KnownInv' /\ Abstract!Next
<1> USE ConstantsAssumption, MatrixFacts
<1>1. /\ pc = "reducing" /\ bit = NPos /\ pc' = AfterAdding
      /\ answer' = "useless" /\ offered' = NoOffer
      /\ UNCHANGED <<matrix, eliminated, metafile, length, trimmed>>
  BY DEF Reject, memory, storage
<1>2. /\ matrix \in Matrices /\ offered \in Functionals /\ chunk.func \in Functionals
      /\ FirstBit(chunk.func) = NPos /\ ~IsDone
  BY <1>1 DEF FileInv, IInv, TypeOK, Reducing, Chunk
<1>3. pc' = "idle"
  BY <1>1, <1>2 DEF AfterAdding, IsDone
<1>4. chunk.func = {}
  BY <1>2, FirstBitIsLeast
<1>5. offered \in Span(matrix)
  <2>1. SymDiff(offered, {}) \in Span(matrix)
    BY <1>1, <1>4 DEF FileInv, KnownInv, OfferReduced
  <2> QED BY <2>1, XorFacts
<1>6. Abstract!With(Span(matrix), offered) = Span(matrix)
  BY <1>2, <1>5, SpanIsSpace, SameOperators DEF Abstract!With
<1>7. KnownRows = matrix /\ KnownRows' = matrix
  BY <1>1, <1>3 DEF KnownRows
<1>8. offered # NoOffer
  BY <1>2 DEF NoOffer, Functionals, Chunks
<1>9. Abstract!Answer
  BY <1>1, <1>5, <1>6, <1>7, <1>8 DEF Abstract!Answer
<1>10. KnownInv'
  BY <1>1, <1>3 DEF FileInv, KnownInv, OfferReduced, BlankFile, Lag
<1> QED BY <1>9, <1>10 DEF Abstract!Next

\* The reduced chunk becomes a row: it could not have been made from the
\* others, and now everything that it adds can be.
LEMMA InsertKnown ==
  ASSUME FileInv, IInv', Insert
  PROVE  KnownInv' /\ Abstract!Next
<1> USE ConstantsAssumption, MatrixFacts
<1>1. /\ pc = "reducing" /\ bit # NPos /\ matrix[bit] = {} /\ pc' = "saving"
      /\ answer' = "helpful" /\ offered' = NoOffer
      /\ matrix' = [matrix EXCEPT ![Place(chunk.func)] = chunk.func]
      /\ UNCHANGED <<metafile, trimmed>>
  BY DEF Insert
<1>2. /\ matrix \in Matrices /\ offered \in Functionals /\ chunk.func \in Functionals
      /\ FirstBit(chunk.func) = bit /\ Place(chunk.func) = bit /\ bit \in Chunks
      /\ \A i \in Rows(matrix) : FirstBit(matrix[i]) = i
  BY <1>1 DEF FileInv, IInv, TypeOK, Reducing, RowsLead, Chunk, Chunks, NPos, Place
<1>3. SymDiff(offered, chunk.func) \in Span(matrix)
  BY <1>1 DEF FileInv, KnownInv, OfferReduced
<1>4. matrix' \in Matrices /\ Span(matrix') = Abstract!With(Span(matrix), offered)
  <2> DEFINE n == [matrix EXCEPT ![bit] = chunk.func]
  <2>0. matrix[bit] = {}
    BY <1>1
  <2>1. n \in Matrices /\ Span(n) = Abstract!With(Span(matrix), offered)
    BY <2>0, <1>2, <1>3, InsertSpan
  <2>2. matrix' = n
    BY <1>1, <1>2
  <2> HIDE DEF n
  <2> QED BY <2>1, <2>2
<1>5. offered \notin Span(matrix)
  <2> SUFFICES ASSUME offered \in Span(matrix) PROVE FALSE
    OBVIOUS
  <2>1. SymDiff(offered, SymDiff(offered, chunk.func)) \in Span(matrix)
    BY <1>2, <1>3, SpanIsSpace
  <2>2. chunk.func \in Span(matrix)
    BY <2>1, XorFacts
  <2>3. chunk.func # {}
    BY <1>1, <1>2, FirstBitIsLeast
  <2>4. bit \in Rows(matrix)
    BY <1>2, <2>2, <2>3, SpanLeads
  <2> QED BY <1>1, <2>4 DEF Rows
<1>6. KnownRows = matrix /\ KnownRows' = matrix'
  BY <1>1 DEF KnownRows
<1>7. offered # NoOffer
  BY <1>2 DEF NoOffer, Functionals, Chunks
<1>8. Abstract!Answer
  BY <1>1, <1>4, <1>5, <1>6, <1>7 DEF Abstract!Answer
<1>9. metafile = matrix
  BY <1>1 DEF FileInv, IInv, MetafileFollows, WithoutMetafile
<1>10. Behind(matrix, matrix')
  BY <1>2, <1>4, OneRowBehind
<1>11. length' > 0
  BY <1>1 DEF IInv, Cut
<1>12. KnownInv'
  BY <1>1, <1>2, <1>9, <1>10, <1>11 DEF KnownInv, OfferReduced, BlankFile, Lag
<1> QED BY <1>8, <1>12 DEF Abstract!Next


\* What persist() writes keeps up with the rows.
LEMMA SaveKnown ==
  ASSUME FileInv, IInv', Save \/ SaveResumeData
  PROVE  KnownInv' /\ UNCHANGED Abstract!vars
<1> USE ConstantsAssumption, MatrixFacts
<1>1. /\ UNCHANGED <<matrix, eliminated, offered, answer, length, trimmed>>
      /\ pc \in {"saving", "idle"} /\ Persist
      /\ pc = "idle" => pc' = "idle"
      /\ pc = "saving" => pc' = AfterAdding
  BY DEF Save, SaveResumeData, memory, adding, storage
<1>2. matrix \in Matrices /\ pc' \in {"idle", "eliminating"}
  BY <1>1 DEF FileInv, IInv, TypeOK, AfterAdding
<1>3. offered = NoOffer
  BY <1>1 DEF FileInv, KnownInv, OfferReduced
<1>4. KnownRows' = KnownRows
  BY <1>1, <1>2 DEF KnownRows
<1>5. metafile' \in {NoMetaFile, matrix}
  BY <1>1 DEF Persist
<1>6. KnownInv'
  BY <1>1, <1>2, <1>3, <1>5 DEF FileInv, KnownInv, OfferReduced, BlankFile, Lag
<1> QED BY <1>1, <1>4, <1>6, Unseen

\* Gaussian elimination neither adds nor loses a combination.
LEMMA EliminateKnown ==
  ASSUME FileInv, IInv', Eliminate
  PROVE  KnownInv' /\ UNCHANGED Abstract!vars
<1> USE ConstantsAssumption, MatrixFacts
<1> DEFINE i == at[1]
           j == at[2]
<1>1. /\ pc = "eliminating" /\ i \in Chunks /\ j \in Chunks /\ matrix \in Matrices
      /\ IsUpperTriangular(matrix) /\ length > 0
      /\ UNCHANGED <<pc, offered, answer, metafile, length, trimmed>>
  BY DEF FileInv, IInv, TypeOK, Columns, Cut, Eliminate, Chunks, adding
<1>2. /\ FirstBit(matrix[i]) = i /\ Place(matrix[i]) = i /\ matrix[i] \in Functionals
      /\ FirstBit(matrix[j]) = j /\ Place(matrix[j]) = j /\ matrix[j] \in Functionals
  BY <1>1 DEF IsUpperTriangular, Place, Matrices
<1> DEFINE e == SymDiff(matrix[j], matrix[i])
<1>3. matrix' = IF j # i /\ i \in matrix[j] THEN [matrix EXCEPT ![Place(e)] = e] ELSE matrix
  BY <1>2 DEF Eliminate
<1> HIDE DEF i, j
<1>4. Span(matrix') = Span(matrix)
  <2>1. CASE j # i /\ i \in matrix[j]
    <3>1. Place(e) = j
      BY <1>1, <1>2, <2>1, EliminateKeepsPlace DEF Place
    <3>2. Span([matrix EXCEPT ![j] = SymDiff(matrix[j], matrix[i])]) = Span(matrix)
      BY <1>1, <2>1, EliminateSpan
    <3>3. matrix' = [matrix EXCEPT ![j] = SymDiff(matrix[j], matrix[i])]
      BY <1>3, <2>1, <3>1
    <3> QED BY <3>2, <3>3
  <2>2. CASE ~(j # i /\ i \in matrix[j])
    BY <1>3, <2>2
  <2> QED BY <2>1, <2>2
<1>5. KnownRows = matrix /\ KnownRows' = matrix'
  BY <1>1 DEF KnownRows
<1>6. KnownInv'
  BY <1>1 DEF FileInv, KnownInv, OfferReduced, BlankFile, Lag
<1> QED BY <1>1, <1>4, <1>5, <1>6, Unseen

\* The rest of wrapUp is not seen from outside.
LEMMA WrapUpKnown ==
  ASSUME FileInv, IInv', CloseFiles \/ Truncate \/ DeleteMetaFile \/ Unlink
  PROVE  KnownInv' /\ UNCHANGED Abstract!vars
<1> USE ConstantsAssumption, MatrixFacts
<1>1. /\ UNCHANGED <<matrix, offered, answer, length>>
      /\ pc \in {"eliminating", "truncating", "deleting", "unlinking"}
      /\ pc' \in {"truncating", "deleting", "unlinking", "idle"}
  BY DEF CloseFiles, Truncate, DeleteMetaFile, Unlink, memory, adding, storage
<1>2. KnownRows' = KnownRows
  BY <1>1 DEF KnownRows
<1>3. length > 0 /\ length \in 0 .. N
  BY <1>1 DEF FileInv, IInv, Cut, TypeOK
<1>4. KnownInv'
  BY <1>1, <1>3 DEF FileInv, KnownInv, OfferReduced, BlankFile, Lag
<1> QED BY <1>1, <1>2, <1>4, Unseen

\* Making a chunk, or nothing.
LEMMA LookKnown ==
  ASSUME FileInv, GetChunk \/ UNCHANGED vars
  PROVE  KnownInv' /\ UNCHANGED Abstract!vars
<1>1. UNCHANGED <<pc, matrix, offered, chunk, answer, metafile, length, trimmed>>
  BY DEF GetChunk, vars, memory, adding, storage
<1>2. KnownRows' = KnownRows
  BY <1>1 DEF KnownRows
<1>3. KnownInv'
  BY <1>1 DEF FileInv, KnownInv, OfferReduced, BlankFile, Lag
<1> QED BY <1>1, <1>2, <1>3, Unseen

\* The process ends: what the metafile has is known still, and at most one
\* row is not in it.
LEMMA DownKnown ==
  ASSUME FileInv, IInv', ForgetMemory, UNCHANGED <<metafile, storage>>,
         pc \notin {"down", "failed", "eliminating"}
  PROVE  KnownInv' /\ Abstract!Next
<1> USE ConstantsAssumption, MatrixFacts
<1>1. /\ pc' = "down" /\ matrix' = EmptyMatrix /\ offered' = NoOffer /\ answer' = "none"
      /\ UNCHANGED <<metafile, length, trimmed>>
  BY DEF ForgetMemory, storage
<1>2. TypeOK /\ TypeOK' /\ matrix \in Matrices /\ KnownRows = matrix
  BY DEF FileInv, IInv, TypeOK, KnownRows
<1>3. /\ metafile # NoMetaFile => KnownRows' = metafile
      /\ metafile = NoMetaFile /\ trimmed => KnownRows' = IdentityMatrix
      /\ KnownRows' \in Matrices
  BY <1>1, <1>2 DEF KnownRows, TypeOK
<1>4. KnownInv'
  BY <1>1, <1>2 DEF FileInv, KnownInv, OfferReduced, BlankFile, Lag
<1> DEFINE Old == Span(matrix)
           Kept == Span(KnownRows')
<1>5. /\ Old \in SUBSET Functionals /\ Cardinality(Old) \in Nat
      /\ Kept \in SUBSET Functionals /\ Cardinality(Kept) \in Nat
  BY <1>2, <1>3, SpanFacts, Finite
<1>6. Kept \subseteq Old /\ Cardinality(Old) <= 2 * Cardinality(Kept)
  <2>1. CASE KnownRows' = matrix
    BY <1>5, <2>1
  <2>2. CASE pc = "saving"
    <3>1. metafile # NoMetaFile
      BY <2>2 DEF FileInv, IInv, WithoutMetafile
    <3> QED BY <1>3, <2>2, <3>1 DEF FileInv, KnownInv, Lag, Behind
  <2>3. CASE metafile = NoMetaFile
    <3>1. matrix = IdentityMatrix /\ trimmed
      BY <2>3 DEF FileInv, IInv, WithoutMetafile, Cut
    <3> QED BY <1>3, <2>1, <2>3, <3>1
  <2>4. CASE pc # "saving" /\ metafile # NoMetaFile
    <3>1. metafile = matrix
      BY <2>4 DEF FileInv, IInv, TypeOK, MetafileFollows
    <3> QED BY <1>3, <2>1, <2>4, <3>1
  <2> QED BY <2>2, <2>3, <2>4
<1>7. Abstract!IsSpace(Kept)
  BY <1>3, SpanIsSpace
<1>8. Abstract!Lose
  BY <1>1, <1>2, <1>6, <1>7, SameOperators DEF Abstract!Lose
<1> QED BY <1>4, <1>8 DEF Abstract!Next

-----------------------------------------------------------------------------
(***************************************************************************)
(* The theorems.                                                           *)
(***************************************************************************)

\* What is known and the rows together: the invariant holds at the start.
LEMMA KnownInit == Init => FileInv /\ Abstract!Init
<1> SUFFICES ASSUME Init PROVE FileInv /\ Abstract!Init
  OBVIOUS
<1> USE ConstantsAssumption, MatrixFacts
<1>1. IInv
  BY InitIInv
<1>2. KnownInv
  BY DEF Init, KnownInv, OfferReduced, BlankFile, Lag
<1>3. KnownRows = EmptyMatrix
  BY DEF Init, KnownRows
<1>4. Abstract!Init
  BY <1>3, SpanEnds DEF Init, Abstract!Init
<1> QED BY <1>1, <1>2, <1>4 DEF FileInv

\* Every step keeps the invariant, and maps to a step or to none.
LEMMA KnownStep ==
  ASSUME FileInv, IInv', ~CrashInElimination, [Next]_vars
  PROVE  FileInv' /\ [Abstract!Next]_(Abstract!vars)
<1> SUFFICES KnownInv' /\ (Abstract!Next \/ UNCHANGED Abstract!vars)
  BY DEF FileInv
<1>1. CASE Open
  BY <1>1, OpenKnown, FailKnown DEF Open
<1>2. CASE Retry
  BY <1>2, FailKnown
<1>3. CASE \E f \in Offers : Offer(f)
  BY <1>3, OfferKnown, ConstantsAssumption
<1>4. CASE Reduce \/ Reject \/ Insert \/ Save
  BY <1>4, ReduceKnown, RejectKnown, InsertKnown, SaveKnown
<1>5. CASE Eliminate
  BY <1>5, EliminateKnown
<1>6. CASE CloseFiles \/ Truncate \/ DeleteMetaFile \/ Unlink
  BY <1>6, WrapUpKnown
<1>7. CASE GetChunk \/ UNCHANGED vars
  BY <1>7, LookKnown
<1>8. CASE SaveResumeData
  BY <1>8, SaveKnown
<1>9. CASE GetChunkDividesByZero
  BY <1>9, DownKnown DEF GetChunkDividesByZero
<1>10. CASE ShutDown
  <2>1. pc = "idle" /\ ForgetMemory /\ UNCHANGED storage
    BY <1>10 DEF ShutDown
  <2>2. UNCHANGED metafile
    BY <1>10 DEF ShutDown, Persist, FileInv, IInv, MetafileFollows
  <2> QED BY <2>1, <2>2, DownKnown
<1>11. CASE Crash
  BY <1>11, DownKnown DEF Crash
<1> QED
  BY <1>1, <1>2, <1>3, <1>4, <1>5, <1>6, <1>7, <1>8, <1>9, <1>10, <1>11 DEF Next, Continue

\* The invariant of the refinement holds in every behaviour.
LEMMA KnownAlways ==
  ASSUME ~CrashInElimination
  PROVE  Spec => []FileInv
<1>1. FileInv /\ IInv' /\ [Next]_vars => FileInv'
  BY KnownStep
<1>2. Spec => []IInv
  BY Invariance
<1> QED
  BY KnownInit, <1>1, <1>2, PTL DEF Spec

\* isDone says that the file is complete exactly when every original chunk,
\* and so every combination, can be made from the rows.
THEOREM DoneExactlyWhenAllKnown ==
  ASSUME ~CrashInElimination
  PROVE  Spec => []DoneIffAllKnown
BY DoneSpans, Invariance, PTL

\* The file implements Knowledge: a chunk is called helpful exactly when it
\* could not be made, it then adds all that it makes possible, and a crash
\* costs at most one dimension, whatever reductions, eliminations, saves
\* and restarts come in between.
THEOREM FileImplementsKnowledge ==
  ASSUME ~CrashInElimination
  PROVE  Spec => ImplementsKnowledge
<1>1. FileInv /\ IInv' /\ [Next]_vars => [Abstract!Next]_(Abstract!vars)
  BY KnownStep
<1>2. Spec => []IInv
  BY Invariance
<1>3. Spec => []FileInv
  BY KnownAlways
<1> QED
  BY KnownInit, <1>1, <1>2, <1>3, PTL DEF Spec, ImplementsKnowledge, Abstract!Spec

=============================================================================

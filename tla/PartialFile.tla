----------------------------- MODULE PartialFile -----------------------------
(***************************************************************************)
(* The partly downloaded file of BP2P: FileHandler, PartialAlgorithm,       *)
(* FileObject and MetaFile (bp2p/src/betterp2p).                            *)
(*                                                                         *)
(* A chunk is an XOR of original pieces; its functional says of which.  A   *)
(* functional is a set of pieces, and so is the content of a chunk-sized    *)
(* piece of disk: the pieces whose XOR the bytes are ({} are zeros).  Row i *)
(* of the matrix is the functional of the chunk stored at place i, {} the   *)
(* empty functional.  When every row is there the matrix is eliminated, the *)
(* rows are XORed in place until place i holds piece i, the padding of the  *)
(* last piece is cut off and the metafile is deleted.                       *)
(*                                                                         *)
(* Every call runs under the storage's main mutex, so only a crash comes    *)
(* between the steps of one.  It is the process that dies, and not the      *)
(* machine: what has been written is there.  The data file is flushed after *)
(* each write, and performSave's archive syncs the metafile's stream when   *)
(* it goes out of scope.  A save is taken to be one write, so the metafile  *)
(* is the one before it or the one after it.  Single-file torrents only.    *)
(***************************************************************************)
EXTENDS Integers, FiniteSetsExt

CONSTANTS
  N,                   \* number of chunks of the file
  Aligned,             \* the file's size is a multiple of the chunk size
  CrashInElimination,  \* crashes also come while the rows are eliminated
  Offers,              \* the functionals of the chunks that peers send
  NoMetaFile           \* the metafile does not exist

Chunks      == 0 .. N - 1
Functionals == SUBSET Chunks
Matrices    == [Chunks -> Functionals]
NPos        == N

NoOffer == {N}                               \* no chunk is being added
NoChunk == [func |-> {N}, data |-> {N}]      \* nor combined or sent

ASSUME ConstantsAssumption ==
  /\ N \in Nat \ {0}
  /\ Aligned \in BOOLEAN
  /\ CrashInElimination \in BOOLEAN
  /\ Offers \subseteq Functionals
  /\ NoMetaFile \notin Matrices

VARIABLES
  pc,          \* what the process does, see TypeOK
  matrix,      \* chunkFunctionals
  eliminated,  \* m_wasEliminated
  offered,     \* addChunk: the functional of its argument
  chunk,       \* addChunk: the chunk, combined with the rows so far
  bit,         \* semiReduce: setbit
  at,          \* gaussElimination: <<i, j>>
  answer,      \* what the last addChunk returned
  sent,        \* the chunk getChunk made last
  metafile,    \* the matrix in the metafile on disk
  disk,        \* the content of the data file at each place
  length,      \* chunks from the start of the data file to its end
  trimmed      \* the data file is as long as fileSize

vars == <<pc, matrix, eliminated, offered, chunk, bit, at, answer, sent,
          metafile, disk, length, trimmed>>

memory  == <<matrix, eliminated>>
adding  == <<offered, chunk, bit>>
storage == <<disk, length, trimmed>>

EmptyMatrix    == [i \in Chunks |-> {}]
IdentityMatrix == [i \in Chunks |-> {i}]

-----------------------------------------------------------------------------
(* Functionals and matrices. *)

(* find_first and find_next of a bit vector. *)
NextBit(f, after) ==
  IF \E k \in f : k > after
  THEN CHOOSE k \in f : k > after /\ \A l \in f : l > after => k <= l
  ELSE NPos

FirstBit(f) == NextBit(f, -1)

(* calculateFunctionalIndex: the place of a chunk with this functional. *)
Place(f) == FirstBit(f)

Rows(m) == {i \in Chunks : m[i] # {}}

(* The XOR of the entries of m at the places in R. *)
Combination(m, R) == {k \in Chunks : Cardinality({i \in R : k \in m[i]}) % 2 = 1}

(* Every functional that can be made from the rows. *)
Span(m) == {Combination(m, R) : R \in SUBSET Rows(m)}

IsComplete(m) == Rows(m) = Chunks

(* Fault: complete only with the unit matrix. *)
IsUpperTriangularUnit(m) == \A i \in Chunks : m[i] = {i}

IsUpperTriangular(m) == \A i \in Chunks : m[i] # {} /\ FirstBit(m[i]) = i

IsDone == eliminated \/ IsUpperTriangular(matrix)

(* Fault: the last row is in and nobody wraps the file up. *)
AfterAddingIdle == "idle"

(* FileHandler::putChunk goes on to wrapUp when the last row is in. *)
AfterAdding == IF IsDone /\ ~eliminated THEN "eliminating" ELSE "idle"

LengthIsFileSize == trimmed \/ (Aligned /\ length = N)

(* Fault: the matrix is never saved again. *)
PersistNothing == UNCHANGED metafile

(* FileObject::persist and MetaFile::performSave. *)
Persist == metafile' = IF metafile = NoMetaFile THEN NoMetaFile ELSE matrix

(* The fields of the objects that are gone when the process is. *)
ForgetMemory ==
  /\ pc' = "down"
  /\ matrix' = EmptyMatrix
  /\ eliminated' = FALSE
  /\ offered' = NoOffer
  /\ chunk' = NoChunk
  /\ bit' = NPos
  /\ at' = <<N, 0>>
  /\ answer' = "none"
  /\ sent' = NoChunk

-----------------------------------------------------------------------------
Init ==
  /\ pc = "down"
  /\ matrix = EmptyMatrix
  /\ eliminated = FALSE
  /\ offered = NoOffer
  /\ chunk = NoChunk
  /\ bit = NPos
  /\ at = <<N, 0>>
  /\ answer = "none"
  /\ sent = NoChunk
  /\ metafile = NoMetaFile
  /\ disk = EmptyMatrix
  /\ length = 0
  /\ trimmed = FALSE

-----------------------------------------------------------------------------
(* FileObject's constructor with state UNKNOWN, as the storage calls it: the *)
(* state is guessed from the length of the data and from the metafile.      *)

Opened(rows) ==
  /\ pc = "down"
  /\ pc' = "idle"
  /\ matrix' = rows
  /\ UNCHANGED <<eliminated, offered, chunk, bit, at, answer, sent, storage>>

(* No data yet.  The metafile is written three times: when it is made, at   *)
(* the end of initializeMetaData (both with the caller's 0 rows) and, with  *)
(* N empty rows, at the end of the constructor.  A crash before the last of *)
(* them leaves no data, and so a new file again.                            *)
OpenNew ==
  /\ length = 0
  /\ Opened(EmptyMatrix)
  /\ metafile' = EmptyMatrix

(* MetaData::isComplete, of the metafile's rows or of the caller's 0 rows, *)
(* of which none is missing.                                               *)
LooksComplete ==
  /\ metafile # NoMetaFile => IsComplete(metafile)
  /\ LengthIsFileSize

OpenComplete ==
  /\ length > 0
  /\ LooksComplete
  /\ Opened(IdentityMatrix)
  /\ metafile' = IF metafile = NoMetaFile THEN NoMetaFile ELSE IdentityMatrix

HasRows == metafile # NoMetaFile /\ Rows(metafile) # {}

OpenIncomplete ==
  /\ length > 0
  /\ ~LooksComplete
  /\ HasRows
  /\ Opened(metafile)
  /\ UNCHANGED metafile

(* "could not determine file state": the torrent cannot be added. *)
OpenFails ==
  /\ pc = "down"
  /\ length > 0
  /\ ~LooksComplete
  /\ ~HasRows
  /\ pc' = "failed"
  /\ UNCHANGED <<memory, adding, at, answer, sent, metafile, storage>>

(* The user adds the torrent once more. *)
Retry ==
  /\ pc = "failed"
  /\ pc' = "down"
  /\ UNCHANGED <<memory, adding, at, answer, sent, metafile, storage>>

-----------------------------------------------------------------------------
(* FileHandler::putChunk.  The storage calls it while the file is not done. *)

Offer(f) ==
  /\ pc = "idle"
  /\ ~IsDone
  /\ pc' = "reducing"
  /\ offered' = f
  /\ chunk' = [func |-> f, data |-> f]
  /\ bit' = FirstBit(f)
  /\ answer' = "none"
  /\ sent' = NoChunk
  /\ UNCHANGED <<memory, at, metafile, storage>>

(* Fault: the next bit is that of the functional before the XOR. *)
ReduceStale ==
  /\ pc = "reducing"
  /\ bit # NPos
  /\ matrix[bit] # {}
  /\ chunk' = [func |-> SymDiff(chunk.func, matrix[bit]),
               data |-> SymDiff(chunk.data, disk[Place(matrix[bit])])]
  /\ bit' = NextBit(chunk.func, bit)
  /\ UNCHANGED <<pc, memory, offered, at, answer, sent, metafile, storage>>

(* semiReduce's loop; putCombinedChunks combines the data in the same order *)
(* when the loop is over, and nothing is written in between.                *)
Reduce ==
  /\ pc = "reducing"
  /\ bit # NPos
  /\ matrix[bit] # {}
  /\ chunk' = [func |-> SymDiff(chunk.func, matrix[bit]),
               data |-> SymDiff(chunk.data, disk[Place(matrix[bit])])]
  /\ bit' = NextBit(chunk'.func, bit)
  /\ UNCHANGED <<pc, memory, offered, at, answer, sent, metafile, storage>>

(* Nothing is left: the chunk depends on the rows. *)
Reject ==
  /\ pc = "reducing"
  /\ bit = NPos
  /\ pc' = AfterAdding
  /\ answer' = "useless"
  /\ at' = <<0, 0>>
  /\ offered' = NoOffer
  /\ chunk' = NoChunk
  /\ UNCHANGED <<memory, bit, sent, metafile, storage>>

(* FileObject::putChunk and writeChunkToFiles. *)
Insert ==
  /\ pc = "reducing"
  /\ bit # NPos
  /\ matrix[bit] = {}
  /\ pc' = "saving"
  /\ answer' = "helpful"
  /\ LET place == Place(chunk.func) IN
       /\ matrix' = [matrix EXCEPT ![place] = chunk.func]
       /\ disk' = [disk EXCEPT ![place] = chunk.data]
       /\ length' = IF place < length THEN length ELSE place + 1
  /\ offered' = NoOffer
  /\ chunk' = NoChunk
  /\ bit' = NPos
  /\ UNCHANGED <<eliminated, at, sent, metafile, trimmed>>

Save ==
  /\ pc = "saving"
  /\ Persist
  /\ pc' = AfterAdding
  /\ at' = <<0, 0>>
  /\ UNCHANGED <<memory, adding, answer, sent, storage>>

-----------------------------------------------------------------------------
(* PartialAlgorithm::wrapUp. *)

(* Fault: the inner loop runs once too often. *)
NextPairPast(i, j) == IF j = N THEN <<i + 1, 0>> ELSE <<i, j + 1>>

(* Fault: the outer loop never advances. *)
NextPairSameRow(i, j) == IF j = N - 1 THEN <<i, 0>> ELSE <<i, j + 1>>

NextPair(i, j) == IF j = N - 1 THEN <<i + 1, 0>> ELSE <<i, j + 1>>

(* Fault: the functional is replaced and the data is not. *)
EliminateRowsOnly ==
  /\ pc = "eliminating"
  /\ at[1] < N
  /\ LET i == at[1]
         j == at[2]
         func == SymDiff(matrix[j], matrix[i])
     IN /\ at' = NextPair(i, j)
        /\ matrix' = IF j # i /\ i \in matrix[j]
                     THEN [matrix EXCEPT ![Place(func)] = func] ELSE matrix
  /\ UNCHANGED <<pc, eliminated, adding, answer, sent, metafile, disk, length, trimmed>>

(* One turn of gaussElimination's loops: l[j] <- l[j] ^ l[i].  replaceChunk *)
(* does not persist the matrix.                                             *)
Eliminate ==
  /\ pc = "eliminating"
  /\ at[1] < N
  /\ LET i == at[1]
         j == at[2]
         a == Place(matrix[j])
         b == Place(matrix[i])
         func == SymDiff(matrix[a], matrix[b])
         data == SymDiff(disk[a], disk[b])
     IN /\ at' = NextPair(i, j)
        /\ IF j # i /\ i \in matrix[j]
           THEN /\ matrix' = [matrix EXCEPT ![Place(func)] = func]
                /\ disk' = [disk EXCEPT ![Place(func)] = data]
           ELSE UNCHANGED <<matrix, disk>>
  /\ UNCHANGED <<pc, eliminated, adding, answer, sent, metafile, length, trimmed>>

(* The loops are over; completeFiles closes the files, which persists. *)
CloseFiles ==
  /\ pc = "eliminating"
  /\ at[1] = N
  /\ eliminated' = TRUE
  /\ Persist
  /\ pc' = "truncating"
  /\ UNCHANGED <<matrix, adding, at, answer, sent, storage>>

Truncate ==
  /\ pc = "truncating"
  /\ trimmed' = TRUE
  /\ pc' = "deleting"
  /\ UNCHANGED <<memory, adding, at, answer, sent, metafile, disk, length>>

(* ~MetaFile saves once more. *)
DeleteMetaFile ==
  /\ pc = "deleting"
  /\ metafile' = matrix
  /\ pc' = "unlinking"
  /\ UNCHANGED <<memory, adding, at, answer, sent, storage>>

Unlink ==
  /\ pc = "unlinking"
  /\ metafile' = NoMetaFile
  /\ pc' = "idle"
  /\ UNCHANGED <<memory, adding, at, answer, sent, storage>>

-----------------------------------------------------------------------------
(* Fault: the number drawn may wrap to 0. *)
CombinationSizesFromZero(n) ==
  {(k - 1 + extra) % n : k \in {2, 4, 8, 16} \cup 2 .. (n - 1), extra \in {0, 1}}

(* PartialAlgorithm::getChunk: how many of n rows are combined.  The draw of *)
(* the last branch is from 2 .. n - 1.                                       *)
CombinationSizes(n) ==
  {((k - 1 + extra) % n) + 1 : k \in {2, 4, 8, 16} \cup 2 .. (n - 1), extra \in {0, 1}}

GetChunk ==
  /\ pc = "idle"
  /\ IF Rows(matrix) = {}
     THEN sent' = [func |-> {}, data |-> {}]
     ELSE \E R \in SUBSET Rows(matrix) :
            /\ Cardinality(R) \in CombinationSizes(Cardinality(Rows(matrix)))
            /\ sent' = [func |-> Combination(matrix, R),
                        data |-> Combination(disk, R)]
  /\ UNCHANGED <<pc, memory, adding, at, answer, metafile, storage>>

(* getRandom() % (maxChunks-2) with two rows: the process is killed. *)
GetChunkDividesByZero ==
  /\ pc = "idle"
  /\ Cardinality(Rows(matrix)) = 2
  /\ ForgetMemory
  /\ UNCHANGED <<metafile, storage>>

(* write_resume_data and release_files. *)
SaveResumeData ==
  /\ pc = "idle"
  /\ Persist
  /\ UNCHANGED <<pc, memory, adding, at, answer, sent, storage>>

(* ~FileObject. *)
ShutDown ==
  /\ pc = "idle"
  /\ Persist
  /\ ForgetMemory
  /\ UNCHANGED storage

Crash ==
  /\ pc \notin {"down", "failed"}
  /\ pc = "eliminating" => CrashInElimination
  /\ ForgetMemory
  /\ UNCHANGED <<metafile, storage>>

-----------------------------------------------------------------------------
Open == OpenNew \/ OpenComplete \/ OpenIncomplete \/ OpenFails

(* The steps of one call of putChunk after the first. *)
Continue ==
  \/ Reduce \/ Reject \/ Insert \/ Save
  \/ Eliminate \/ CloseFiles \/ Truncate \/ DeleteMetaFile \/ Unlink

Next ==
  \/ Open \/ Retry
  \/ \E f \in Offers : Offer(f)
  \/ Continue
  \/ GetChunk \/ GetChunkDividesByZero
  \/ SaveResumeData \/ ShutDown \/ Crash

(* A call that has begun runs on. *)
Spec == Init /\ [][Next]_vars /\ WF_vars(Continue)

-----------------------------------------------------------------------------
(***************************************************************************)
(* Properties.  The operators marked `Fault' are not part of Spec: each is *)
(* a slip in the code that one of these properties notices.                *)
(***************************************************************************)

Chunk == [func : Functionals, data : Functionals]

(* Every object is in the state that the place the process has come to in a *)
(* call leaves it in.                                                       *)
TypeOK ==
  /\ pc \in {"down", "failed", "idle", "reducing", "saving", "eliminating",
             "truncating", "deleting", "unlinking"}
  /\ matrix \in Matrices
  /\ eliminated \in BOOLEAN
  /\ offered \in Functionals \cup {NoOffer}
  /\ chunk \in Chunk \cup {NoChunk}
  /\ pc = "reducing" => chunk \in Chunk /\ offered \in Functionals
  /\ bit \in 0 .. NPos
  /\ at \in (0 .. N) \X (0 .. N - 1)
  /\ answer \in {"none", "helpful", "useless"}
  /\ sent \in Chunk \cup {NoChunk}
  /\ metafile \in Matrices \cup {NoMetaFile}
  /\ disk \in Matrices
  /\ length \in 0 .. N
  /\ trimmed \in BOOLEAN

(* Every row starts at its own place, and the row a chunk is reduced to     *)
(* starts at an empty one: the assertion of FileObject::putChunk holds.     *)
RowsLead ==
  /\ \A i \in Rows(matrix) : FirstBit(matrix[i]) = i
  /\ pc = "reducing" /\ bit # NPos => Place(chunk.func) = bit

(* What is on disk at a place is the chunk its row says: no step of a       *)
(* reduction, an elimination or a restart takes them apart.                 *)
DataMatchesFunctional ==
  /\ \A i \in Rows(matrix) : disk[i] = matrix[i]
  /\ pc = "reducing" => chunk.data = chunk.func

(* isDone says yes exactly when everything can be made from the rows. *)
DoneIffAllKnown == pc = "idle" => (IsDone <=> Span(matrix) = Functionals)

(* Once putChunk has returned with the file done, place i holds piece i. *)
DecodedWhenDone == pc = "idle" /\ IsDone => disk = IdentityMatrix

(* A generated chunk is what its functional says, and it is blank only when *)
(* there is nothing to send.                                                *)
SentIsCombination ==
  sent # NoChunk =>
    /\ sent.data = sent.func
    /\ sent.func = {} <=> Rows(matrix) = {}

(* putChunk ends, unless the process dies in it. *)
PutChunkReturns == pc \notin {"idle", "down", "failed"} ~> pc \in {"idle", "down"}

(* The rows the next start will find. *)
KnownRows ==
  IF pc \notin {"down", "failed"} THEN matrix
  ELSE IF metafile # NoMetaFile THEN metafile
  ELSE IF trimmed THEN IdentityMatrix ELSE EmptyMatrix

Abstract == INSTANCE Knowledge WITH known <- Span(KnownRows)

(* Seen from outside the file is a space of known functionals that helpful *)
(* chunks enlarge and a crash makes at most one dimension smaller.         *)
ImplementsKnowledge == Abstract!Spec

-----------------------------------------------------------------------------
(* "COMPLETE - all of the file exists on disk" (FileObject.h): a file the   *)
(* constructor takes for complete has every piece, each at its place.       *)
CompleteMeansWhole == [][OpenComplete => disk = IdentityMatrix]_vars

(* A restart finds on disk what the metafile says (MetaFile.h of persist:   *)
(* "Saves all data to file").                                               *)
LoadedRowsAreOnDisk ==
  [][OpenIncomplete => \A i \in Rows(metafile) : disk[i] = metafile[i]]_vars
=============================================================================

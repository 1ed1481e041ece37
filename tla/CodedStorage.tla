---------------------------- MODULE CodedStorage ----------------------------
(***************************************************************************)
(* How BP2P's storage hides coded chunks from libtorrent: the receiving     *)
(* half of StorageImpl and TorrentPlugin, between the network thread, which *)
(* collects pieces and their headers, and the disk thread, which writes the *)
(* pieces and hashes them (bp2p/src/libtorrent_plugin).                     *)
(*                                                                         *)
(* libtorrent asks for a piece s and may get a coded chunk for it: data     *)
(* with a marker, whose header came before in a message of its own.  The    *)
(* storage puts the chunk into the matrix and remembers slot s as verified; *)
(* hash_for_slot then answers with the hash libtorrent wants.               *)
(*                                                                         *)
(* The matrix is that of PartialFile, with a whole putChunk, wrapUp         *)
(* included, as one step: it runs under the storage's main mutex.  A row is *)
(* the content of its place on disk: the pieces whose XOR the bytes are,    *)
(* and Bad when some received bytes in that XOR were wrong.                 *)
(***************************************************************************)
EXTENDS Integers, FiniteSetsExt

CONSTANTS
  N,            \* number of pieces of the torrent
  Coded,        \* the coded chunks that peers send
  Marker,       \* the marker of each, unique for one sender only
  Func,         \* the functional of each
  Wrong,        \* those whose bytes are not what the functional says
  MaxInFlight,  \* bound: pieces between their last block and their verdict
  Restarts      \* the process is restarted, too

Pieces    == 0 .. N - 1
LastPiece == N - 1      \* shorter than the others: always sent as it is
Bad       == N
Markers   == {Marker[c] : c \in Coded}

(* What libtorrent has collected as piece s: the piece itself, one with     *)
(* wrong bytes, one that the cache flushes in parts, or a coded chunk.  A   *)
(* coded chunk is wrong when it was made of wrong rows, or when blocks of   *)
(* another chunk are in it under the same block tag, which is one byte:     *)
(* the chunk as it was sent and as it was collected are then two members of *)
(* Coded, of one marker and one functional.                                 *)
Regular == {"right", "corrupt"}
Bodies  == Regular \cup {"parts"} \cup Coded

Nothing   == "nothing"
NoEntry   == [kind |-> "nothing", chunk |-> Nothing, slot |-> 0]
Header(c) == [kind |-> "header", chunk |-> c, slot |-> 0]
Data(c, s) == [kind |-> "data", chunk |-> c, slot |-> s]

ASSUME CodedAssumption ==
  /\ N \in Nat \ {0, 1}
  /\ Coded \cap (Regular \cup {"parts", Nothing}) = {}
  /\ Func \in [Coded -> (SUBSET Pieces) \ {{}}]
  /\ DOMAIN Marker = Coded
  /\ MaxInFlight \in Nat \ {0}
  /\ Wrong \subseteq Coded
  /\ Restarts \in BOOLEAN

VARIABLES
  rows,       \* the matrix and the data file
  slots,      \* m_slots_written
  incoming,   \* m_incoming_chunk_datas
  hasher,     \* m_piece_hasher of the piece manager: slots with a hash of the bytes received
  phase,      \* how far libtorrent is with each piece
  body,       \* what it collected
  seen        \* coded chunks of which the header or some data came

vars == <<rows, slots, incoming, hasher, phase, body, seen>>

Have     == {s \in Pieces : phase[s] = "have"}
InFlight == {s \in Pieces : phase[s] \notin {"want", "have"}}

-----------------------------------------------------------------------------
(* The matrix. *)

Functional(d)    == d \ {Bad}
Lead(d)          == Min(Functional(d))
Rows             == {i \in Pieces : rows[i] # {}}
IsDone           == Rows = Pieces

(* semiReduce: while there is a row at the first bit, it is XORed in. *)
Reduced(d) ==
  LET reduced[e \in SUBSET (Pieces \cup {Bad})] ==
        IF Functional(e) # {} /\ Lead(e) \in Rows
        THEN reduced[SymDiff(e, rows[Lead(e)])] ELSE e
  IN reduced[d]

(* canAddFunctional: something is left. *)
IsHelpful(f) == Functional(Reduced(f)) # {}

(* The XOR of the entries of m at the places in R. *)
Combination(m, R) ==
  {k \in Pieces \cup {Bad} : Cardinality({i \in R : k \in m[i]}) % 2 = 1}

(* wrapUp: the data of every piece, made from the rows. *)
Decoded(m) ==
  LET span == {Combination(m, R) : R \in SUBSET Pieces}
  IN [i \in Pieces |-> CHOOSE d \in span : Functional(d) = {i}]

(* Fault: nobody wraps the file up. *)
PutOnly(d) ==
  LET e == Reduced(d)
  IN IF Functional(e) = {} THEN rows ELSE [rows EXCEPT ![Lead(e)] = e]

(* FileHandler::putChunk; the rows it leaves. *)
Put(d) ==
  LET e == Reduced(d)
      m == [rows EXCEPT ![Lead(e)] = e]
  IN IF Functional(e) = {} THEN rows
     ELSE IF \A i \in Pieces : m[i] # {} THEN Decoded(m) ELSE m

(* The chunk that data c makes with the first bytes of every block, which   *)
(* header h carries.                                                        *)
Restored(h, c) ==
  Func[c] \cup IF {h.chunk, c} \cap Wrong # {} THEN {Bad} ELSE {}

(* Fault: the functional of the data is not compared with the header's. *)
InsertUnchecked(h, c) ==
  Put(IF Func[h.chunk] = Func[c] THEN Restored(h, c) ELSE Func[h.chunk] \cup {Bad})

(* insertChunk: the rows after data c met header h.  Nobody checks the      *)
(* bytes: nothing is known that their hash could be compared with.          *)
Insert(h, c) == IF Func[h.chunk] = Func[c] THEN Put(Restored(h, c)) ELSE rows

-----------------------------------------------------------------------------
Init ==
  /\ rows = [i \in Pieces |-> {}]
  /\ slots = [s \in Pieces |-> "free"]
  /\ incoming = [m \in Markers |-> NoEntry]
  /\ hasher = {}
  /\ phase = [s \in Pieces |-> "want"]
  /\ body = [s \in Pieces |-> Nothing]
  /\ seen = {}

(* The last block of a piece comes in and its hash job is queued.  A piece  *)
(* that regular peers send is collected block by block like a coded one.    *)
Arrive(s, b) ==
  /\ phase[s] = "want"
  /\ Cardinality(InFlight) < MaxInFlight
  /\ s = LastPiece => b \notin Coded
  /\ phase' = [phase EXCEPT ![s] = "arrived"]
  /\ body' = [body EXCEPT ![s] = b]
  /\ seen' = seen \cup ({b} \cap Coded)
  /\ UNCHANGED <<rows, slots, incoming, hasher>>

(* The chunk of c's sender, in all the forms it is collected in. *)
SentAs(c) == {d \in Coded : Marker[d] = Marker[c] /\ Func[d] = Func[c]}

(* receiveChunk.  A sender makes one header for a chunk and sends it before *)
(* the first block; the chunk may be sent again, out of the sender's read   *)
(* cache, and has no header then.  Data that waits here is another sender's *)
(* for this reason.                                                         *)
(*                                                                         *)
(* What is judged as the functional is cut out of the header too early,     *)
(* where bytes of the chunk are: it may be any functional at all.           *)
(*                                                                         *)
(* An entry that is a header, of another sender's chunk, is taken for data  *)
(* without bytes and fits nothing.                                          *)
ReceiveHeader(c) ==
  LET entry == incoming[Marker[c]] IN
  /\ SentAs(c) \cap seen = {}
  /\ seen' = seen \cup {c}
  /\ \E judged \in SUBSET Pieces :
       IF ~IsHelpful(judged)
       THEN UNCHANGED <<rows, slots, incoming>>
       ELSE IF entry = NoEntry
       THEN /\ incoming' = [incoming EXCEPT ![Marker[c]] = Header(c)]
            /\ UNCHANGED <<rows, slots>>
       ELSE /\ incoming' = [incoming EXCEPT ![Marker[c]] = NoEntry]
            /\ IF entry.kind = "data" /\ Func[entry.chunk] = Func[c]
               THEN /\ rows' = Insert(Header(c), entry.chunk)
                    /\ slots' = [slots EXCEPT ![entry.slot] =
                                   IF rows' = rows THEN "free" ELSE "verified"]
               ELSE UNCHANGED <<rows, slots>>
  /\ UNCHANGED <<hasher, phase, body>>

(* tick: an entry's time is over. *)
Purge(m) ==
  /\ incoming[m] # NoEntry
  /\ incoming' = [incoming EXCEPT ![m] = NoEntry]
  /\ UNCHANGED <<rows, slots, hasher, phase, body, seen>>

-----------------------------------------------------------------------------
(* StorageImpl::write, called by the disk thread's flush, which ignores     *)
(* what it returns; piece_manager::write_impl keeps the hash of the bytes   *)
(* when it returns their size.                                              *)

(* The guard at the end: the last piece libtorrent lacks is refused when    *)
(* the matrix lacks a row.                                                  *)
IsRefused(m) == Cardinality(Have) + 1 = N /\ \E i \in Pieces : m[i] = {}

(* write returns with the slot in this state and these rows. *)
Written(s, state, m) ==
  /\ phase' = [phase EXCEPT ![s] = "written"]
  /\ rows' = m
  /\ slots' = [slots EXCEPT ![s] = IF IsRefused(m) THEN "free" ELSE state]
  /\ hasher' = IF state = "free" \/ IsRefused(m) THEN hasher ELSE hasher \cup {s}
  /\ UNCHANGED <<body, seen>>

(* Fault: returns without touching the slot. *)
WritePartsKeepingSlot(s) ==
  /\ phase[s] = "arrived"
  /\ body[s] = "parts"
  /\ phase' = [phase EXCEPT ![s] = "written"]
  /\ UNCHANGED <<rows, slots, incoming, hasher, body, seen>>

(* Not the whole piece. *)
WriteParts(s) ==
  /\ phase[s] = "arrived"
  /\ body[s] = "parts"
  /\ phase' = [phase EXCEPT ![s] = "written"]
  /\ slots' = [slots EXCEPT ![s] = "free"]
  /\ UNCHANGED <<rows, incoming, hasher, body, seen>>

(* The file is whole: any piece will do. *)
WriteWhenDone(s) ==
  /\ phase[s] = "arrived"
  /\ body[s] # "parts"
  /\ IsDone
  /\ Written(s, "verified", rows)
  /\ UNCHANGED incoming

(* The bytes go into the matrix before anybody has checked their hash. *)
WriteRegular(s) ==
  /\ phase[s] = "arrived"
  /\ body[s] \in Regular
  /\ ~IsDone
  /\ Written(s, "written", Put(IF body[s] = "right" THEN {s} ELSE {s, Bad}))
  /\ UNCHANGED incoming

(* Blocks under different tags (verifyChunkBlocks), whatever the           *)
(* functional, or bytes judged as a functional that adds nothing: they are  *)
(* cut out one byte too early here, at the block tag.                       *)
WriteUseless(s) ==
  /\ phase[s] = "arrived"
  /\ body[s] \in Coded
  /\ ~IsDone
  /\ Written(s, "free", rows)
  /\ UNCHANGED incoming

(* The guards of a coded chunk that is looked up by its marker: some bytes  *)
(* were judged to be a functional that helps.                               *)
LooksUp(s, kind) ==
  /\ phase[s] = "arrived"
  /\ body[s] \in Coded
  /\ ~IsDone
  /\ \E judged \in SUBSET Pieces : IsHelpful(judged)
  /\ incoming[Marker[body[s]]].kind = kind

(* Fault: the slot is verified whatever insertChunk answers. *)
WriteWithAnyHeader(s) ==
  /\ LooksUp(s, "header")
  /\ LET c == body[s]
     IN /\ incoming' = [incoming EXCEPT ![Marker[c]] = NoEntry]
        /\ Written(s, "verified", Insert(incoming[Marker[c]], c))

(* The header is there. *)
WriteWithHeader(s) ==
  /\ LooksUp(s, "header")
  /\ LET c == body[s]
         m == Insert(incoming[Marker[c]], c)
     IN /\ incoming' = [incoming EXCEPT ![Marker[c]] = NoEntry]
        /\ Written(s, IF m = rows THEN "free" ELSE "verified", m)

(* No header yet: the data waits for it, and the slot counts as verified. *)
WriteAndWait(s) ==
  /\ LooksUp(s, "nothing")
  /\ incoming' = [incoming EXCEPT ![Marker[body[s]]] = Data(body[s], s)]
  /\ Written(s, "verified", rows)

(* Data waits under this marker already and is taken for a header: the cut  *)
(* of the empty header throws, and the hash job ends with a disk error.     *)
WriteTwice(s) ==
  /\ LooksUp(s, "data")
  /\ phase' = [phase EXCEPT ![s] = "error"]
  /\ UNCHANGED <<rows, slots, incoming, hasher, body, seen>>

Write(s) ==
  \/ WriteParts(s) \/ WriteWhenDone(s) \/ WriteRegular(s) \/ WriteUseless(s)
  \/ WriteWithHeader(s) \/ WriteAndWait(s) \/ WriteTwice(s)

-----------------------------------------------------------------------------
(* The verdict. *)

(* hash_for_slot: a verified slot has the right hash; else it is that of    *)
(* the bytes received, if write took them, or of the place on disk.         *)
Passes(s) ==
  \/ slots[s] = "verified"
  \/ IF s \in hasher THEN body[s] = "right" ELSE rows[s] = {s}

(* Fault: the hash of the bytes stays behind. *)
HashKeepingHasher(s) ==
  /\ phase[s] = "written"
  /\ phase' = [phase EXCEPT ![s] = IF Passes(s) THEN "passed" ELSE "failed"]
  /\ UNCHANGED <<rows, slots, incoming, hasher, body, seen>>

Hash(s) ==
  /\ phase[s] = "written"
  /\ phase' = [phase EXCEPT ![s] = IF Passes(s) THEN "passed" ELSE "failed"]
  /\ hasher' = hasher \ {s}
  /\ UNCHANGED <<rows, slots, incoming, body, seen>>

(* piece_passed.  on_piece_passed_check of the plugin is not the name the   *)
(* torrent calls, so the slot stays what it is.                             *)
PiecePassed(s) ==
  /\ phase[s] = "passed"
  /\ phase' = [phase EXCEPT ![s] = "have"]
  /\ body' = [body EXCEPT ![s] = Nothing]
  /\ UNCHANGED <<rows, slots, incoming, hasher, seen>>

Restore(s) ==
  /\ phase' = [phase EXCEPT ![s] = "want"]
  /\ body' = [body EXCEPT ![s] = Nothing]
  /\ UNCHANGED <<rows, slots, incoming, hasher, seen>>

(* piece_failed, when on_piece_failed_check bails the senders out. *)
PieceExcused(s) ==
  /\ phase[s] = "failed"
  /\ slots[s] = "free"
  /\ Restore(s)

(* piece_failed to its end: a sole sender is banned. *)
PieceBlamed(s) ==
  /\ phase[s] = "failed"
  /\ slots[s] # "free"
  /\ Restore(s)

(* piece_finished with a disk error. *)
PieceLost(s) == phase[s] = "error" /\ Restore(s)

PieceFinished(s) == PiecePassed(s) \/ PieceExcused(s) \/ PieceBlamed(s) \/ PieceLost(s)

-----------------------------------------------------------------------------
(* The process ends, here or in a crash, and starts again: between two      *)
(* calls, or in one that has not saved the metafile, which leaves the rows  *)
(* of before.  A crash in the elimination is PartialFile's.                 *)

Restart(had, verified) ==
  /\ Restarts
  /\ slots' = [s \in Pieces |-> IF s \in verified THEN "verified" ELSE "free"]
  /\ incoming' = [m \in Markers |-> NoEntry]
  /\ hasher' = {}
  /\ phase' = [s \in Pieces |-> IF s \in had THEN "have" ELSE "want"]
  /\ body' = [s \in Pieces |-> Nothing]
  /\ UNCHANGED <<rows, seen>>

(* With resume data, saved when libtorrent had the pieces in had; a slot    *)
(* that was only written then was saved as free.  verify_resume_data takes  *)
(* the saved slots unless the file is whole.                                *)
Resume(had) ==
  /\ had \subseteq Have
  /\ Restart(had, {s \in had \cup InFlight : slots[s] = "verified" /\ ~IsDone})

(* Without: every place on disk is hashed. *)
FullCheck == Restart({i \in Pieces : rows[i] = {i}}, {})

-----------------------------------------------------------------------------
Next ==
  \/ \E s \in Pieces : \/ \E b \in Bodies : Arrive(s, b)
                       \/ Write(s) \/ Hash(s) \/ PieceFinished(s)
  \/ \E c \in Coded : ReceiveHeader(c)
  \/ \E m \in Markers : Purge(m)
  \/ \E had \in SUBSET Have : Resume(had)
  \/ FullCheck

Spec == Init /\ [][Next]_vars

-----------------------------------------------------------------------------
(***************************************************************************)
(* Properties.  The operators marked `Fault' are not part of Spec: each is *)
(* a slip in the code that one of these properties notices.                *)
(***************************************************************************)

Entry == {NoEntry} \cup {Header(c) : c \in Coded}
           \cup {Data(c, s) : c \in Coded, s \in Pieces \ {LastPiece}}

(* Every object is in a state that the calls leave it in; a waiting entry   *)
(* is under its own marker.                                                 *)
TypeOK ==
  /\ rows \in [Pieces -> SUBSET (Pieces \cup {Bad})]
  /\ slots \in [Pieces -> {"free", "written", "verified"}]
  /\ incoming \in [Markers -> Entry]
  /\ \A m \in Markers : incoming[m] # NoEntry => Marker[incoming[m].chunk] = m
  /\ hasher \subseteq {s \in Pieces : phase[s] = "written"}
  /\ phase \in [Pieces -> {"want", "arrived", "written", "error", "passed", "failed", "have"}]
  /\ body \in [Pieces -> Bodies \cup {Nothing}]
  /\ seen \subseteq Coded
  /\ Cardinality(InFlight) <= MaxInFlight

(* Only a piece with wrong bytes costs its sender trust: neither a chunk    *)
(* that adds nothing nor one the matrix refuses does, whatever the other    *)
(* thread did to the slot since the hash.                                   *)
HonestPeersNotBlamed ==
  \A s \in Pieces : phase[s] = "failed" /\ slots[s] # "free" => body[s] = "corrupt"

IsTainted == \E i \in Pieces : Bad \in rows[i]

(* Wrong bytes get into a sound file in two ways only: a corrupt regular    *)
(* piece, and a wrong coded chunk that met its own header.  A chunk that    *)
(* meets another sender's header never brings any, and right bytes never    *)
(* become wrong ones, however the rows are reduced, decoded and restored.   *)
TaintIsReceived ==
  [][~IsTainted /\ IsTainted' =>
       \E s \in Pieces :
         \/ WriteRegular(s) /\ body[s] = "corrupt"
         \/ /\ WriteWithHeader(s)
            /\ LET h == incoming[Marker[body[s]]].chunk
               IN h \in SentAs(body[s]) /\ {h, body[s]} \cap Wrong # {}]_vars

(* A slot becomes verified only for a chunk that the matrix gained, for one *)
(* that began to wait, or when there is nothing left to gain: two pieces    *)
(* are never counted for one row.                                           *)
VerifiedIsBacked ==
  [][\A s \in Pieces :
       slots[s] # "verified" /\ slots'[s] = "verified" =>
         \/ Cardinality(Rows') > Cardinality(Rows)
         \/ \E m \in Markers : incoming[m] = NoEntry /\ incoming'[m] # NoEntry
         \/ IsDone]_vars

(* Once every row is there and sound, libtorrent gets every piece it asked  *)
(* for, also one that was written as something else before the rows were.   *)
DonePiecesPass ==
  [][IsDone /\ ~IsTainted =>
       \A s \in Pieces : Hash(s) /\ body[s] # "corrupt" => phase'[s] = "passed"]_vars

-----------------------------------------------------------------------------
(* "if this is the last chunk, we need to verify that all the other chunks  *)
(* are actually here before we seal the deal" (StorageImpl.cc): libtorrent  *)
(* has every piece only when the matrix has every row.                      *)
SealedOnlyWhenDone == Have = Pieces => IsDone
=============================================================================

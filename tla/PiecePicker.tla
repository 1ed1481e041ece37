----------------------------- MODULE PiecePicker -----------------------------
(***************************************************************************)
(* libtorrent's piece_picker (src/piece_picker.cpp): which pieces there    *)
(* are to pick and in which order of priority, and the state of every      *)
(* block of the pieces being downloaded; with the way a torrent feeds it   *)
(* the pieces its peers announce (src/peer_connection.cpp, torrent.hpp).   *)
(*                                                                         *)
(* m_pieces is kept sorted by priority.  Here `bucket' gives, for a piece, *)
(* the priority of the range of m_pieces it is listed in (NotListed if it  *)
(* is in none).  While m_dirty is set the array is stale and not used; the *)
(* model then lists no piece.                                              *)
(*                                                                         *)
(* The operations on blocks are enabled when the asserts at their head     *)
(* hold: this is what the picker asks of its callers.  The order of the    *)
(* handlers is free, since they are called by peers, the disk thread's     *)
(* completions and the user in any order, all with the session mutex.      *)
(***************************************************************************)
EXTENDS Integers, SequencesExt, FiniteSets

CONSTANTS
  NumPieces,        \* m_piece_map.size()
  BlocksPerPiece,   \* m_blocks_per_piece
  BlocksInLast,     \* m_blocks_in_last_piece
  Peers,            \* the peers a torrent can be connected to
  Priorities,       \* the piece priorities the user sets
  Speeds,           \* piece_state_t without `none'
  LateBitfields,    \* whether a peer may send BITFIELD or HAVE_ALL again, or
                    \* after a HAVE
  MaxDownloads,     \* bound: partial pieces at a time
  MaxRequests       \* bound: peers a block is requested from at a time

MaxPeerCount == 1023   \* piece_pos::max_peer_count, the 10 bits of peer_count

ASSUME PickerAssumption ==
  /\ NumPieces \in Nat \ {0}
  /\ BlocksPerPiece \in Nat \ {0}
  /\ BlocksInLast \in 1..BlocksPerPiece
  /\ IsFiniteSet(Peers) /\ Cardinality(Peers) <= MaxPeerCount
  /\ Priorities \subseteq 0..7
  /\ "none" \notin Speeds
  /\ LateBitfields \in BOOLEAN
  /\ MaxDownloads \in Nat /\ MaxRequests \in Nat

VARIABLES
  peerCount,        \* piece_pos::peer_count
  downloading,      \* the pieces with piece_pos::downloading set
  priority,         \* piece_pos::piece_priority
  have,             \* the pieces whose index is we_have_index
  seeds,            \* m_seeds
  dirty,            \* m_dirty
  bucket,           \* where m_pieces lists each piece
  numHave,          \* m_num_have
  numFiltered,      \* m_num_filtered
  numHaveFiltered,  \* m_num_have_filtered
  cursor,           \* m_cursor
  reverseCursor,    \* m_reverse_cursor
  downloads,        \* m_downloads; `slot' stands for the info pointer
  blockInfo,        \* the blocks of each slot of m_block_info in use
  peerHas,          \* peer_connection::m_have_piece
  announced         \* the peers with m_bitfield_received set

vars == <<peerCount, downloading, priority, have, seeds, dirty, bucket, numHave,
          numFiltered, numHaveFiltered, cursor, reverseCursor, downloads,
          blockInfo, peerHas, announced>>

counterVars  == <<numHave, numFiltered, numHaveFiltered, cursor, reverseCursor>>
downloadVars == <<downloads, blockInfo>>
peerVars     == <<peerCount, seeds, peerHas, announced>>

Pieces == 0..(NumPieces - 1)

Filtered == {i \in Pieces : priority[i] = 0}

Wanted == Pieces \ Filtered

ToPick == Wanted \ have

\* torrent::is_seed: the torrent has no use for its picker and drops it.
IsSeed == have = Pieces

NotListed == -1

-----------------------------------------------------------------------------
(***************************************************************************)
(* The order of picking.                                                   *)
(***************************************************************************)

\* Fault: the user's priority is added, not subtracted.
PriorityAdded(i) ==
  IF i \notin ToPick \/ peerCount[i] + seeds = 0 THEN NotListed
  ELSE IF priority[i] = 7 THEN (IF i \in downloading THEN 0 ELSE 1)
  ELSE LET halved == priority[i] >= 4
           level  == 4 * (IF halved THEN peerCount[i] \div 2 ELSE peerCount[i])
       IN  IF i \in downloading THEN level
           ELSE level + (IF halved THEN priority[i] - 3 ELSE priority[i])

\* piece_pos::priority: the lower the earlier.  Priorities 4 to 6 count half
\* the availability; a partial piece goes before the others of its level.
Priority(i) ==
  LET halved == priority[i] >= 4
      level  == 4 * (IF halved THEN peerCount[i] \div 2 ELSE peerCount[i])
  IN  IF i \notin ToPick \/ peerCount[i] + seeds = 0 THEN NotListed
      ELSE IF priority[i] = 7 THEN (IF i \in downloading THEN 0 ELSE 1)
      ELSE IF i \in downloading THEN level
      ELSE level + 4 - (IF halved THEN priority[i] - 3 ELSE priority[i])

\* add(), remove() or update() of the pieces of S whose priority the step
\* changes; nothing while the list is dirty.
Relist(S) ==
  bucket' = [i \in Pieces |-> IF dirty' THEN NotListed
                              ELSE IF i \in S /\ Priority(i)' # Priority(i)
                              THEN Priority(i)' ELSE bucket[i]]

\* update_pieces(), which pick_pieces calls first when the list is dirty.
UpdatePieces ==
  /\ dirty /\ ~IsSeed
  /\ dirty' = FALSE
  /\ bucket' = [i \in Pieces |-> Priority(i)]
  /\ UNCHANGED <<downloading, priority, have, counterVars, downloadVars, peerVars>>

-----------------------------------------------------------------------------
(***************************************************************************)
(* m_cursor is the first piece left to pick and m_reverse_cursor follows   *)
(* the last; both are moved by hand as pieces come and go.                 *)
(***************************************************************************)

\* The cursors pass piece i, which is no longer left to pick; `left' is the
\* pieces still left.
PassCursors(i, left) ==
  IF cursor = i /\ reverseCursor = i + 1
  THEN cursor' = NumPieces /\ reverseCursor' = 0
  ELSE IF cursor = i
  THEN /\ cursor' = Min({j \in left : j > i} \cup {NumPieces})
       /\ UNCHANGED reverseCursor
  ELSE IF reverseCursor = i + 1
  THEN /\ reverseCursor' = Max({j + 1 : j \in {j \in left : j < i}} \cup {0})
       /\ UNCHANGED cursor
  ELSE UNCHANGED <<cursor, reverseCursor>>

\* Fault: only the first cursor comes back.
ReturnCursorOnly(i) ==
  /\ cursor' = IF i < cursor THEN i ELSE cursor
  /\ UNCHANGED reverseCursor

\* The cursors come back to piece i, which is to be picked again.
ReturnCursors(i) ==
  /\ cursor' = IF i < cursor THEN i ELSE cursor
  /\ reverseCursor' = IF i >= reverseCursor THEN i + 1 ELSE reverseCursor

-----------------------------------------------------------------------------
(***************************************************************************)
(* m_downloads and m_block_info.                                           *)
(***************************************************************************)

BlocksIn(i) == IF i = NumPieces - 1 THEN BlocksInLast ELSE BlocksPerPiece

Blocks(i) == 0..(BlocksIn(i) - 1)

FreshBlocks == [k \in 0..(BlocksPerPiece - 1) |-> [state |-> "none", peers |-> 0]]

Position(i) == CHOOSE n \in DOMAIN downloads : downloads[n].index = i

Entry(i) == downloads[Position(i)]

BlocksOf(i) == IF i \in downloading THEN blockInfo[Entry(i).slot] ELSE FreshBlocks

BlockState(i, k) == BlocksOf(i)[k].state

AllFinished(i) == \A k \in Blocks(i) : BlockState(i, k) = "finished"

Complete(d) == d.finished + d.writing

\* Fault: the entry stays where it is.
SortNothing(ds, n) == ds

\* sort_piece: the entry moves forward past those with fewer blocks complete.
SortPiece(ds, n) ==
  LET stop == Max({m \in 1..(n - 1) : Complete(ds[m]) >= Complete(ds[n])} \cup {0})
  IN  InsertAt(RemoveAt(ds, n), stop + 1, ds[n])

\* add_download_piece, with the block that is the reason for it.
AddDownload(i, k, block, speed, requested, finished) ==
  LET d  == [index |-> i, slot |-> Len(downloads) + 1, speed |-> speed,
             requested |-> requested, writing |-> 0, finished |-> finished]
      ds == Append(downloads, d)
  IN  /\ downloading' = downloading \cup {i}
      /\ downloads' = IF finished = 1 THEN SortPiece(ds, Len(ds)) ELSE ds
      /\ blockInfo' = Append(blockInfo, [FreshBlocks EXCEPT ![k] = block])

\* Fault: the last slot's blocks are not copied to the slot given up.
EraseDownloadUncopied(i) ==
  LET last  == Len(downloads)
      free  == Entry(i).slot
      moved == [n \in DOMAIN downloads |->
                  IF downloads[n].slot = last THEN [downloads[n] EXCEPT !.slot = free]
                  ELSE downloads[n]]
  IN  /\ downloading' = downloading \ {i}
      /\ downloads' = RemoveAt(moved, Position(i))
      /\ blockInfo' = SubSeq(blockInfo, 1, last - 1)

\* Fault: the entry of the last slot keeps pointing at the last slot.
EraseDownloadUnmoved(i) ==
  /\ downloading' = downloading \ {i}
  /\ downloads' = RemoveAt(downloads, Position(i))
  /\ blockInfo' = [blockInfo EXCEPT ![Entry(i).slot] = blockInfo[Len(downloads)]]

\* erase_download_piece: the last slot's blocks move to the slot given up, so
\* that the slots in use stay the first ones of m_block_info.
EraseDownload(i) ==
  LET last  == Len(downloads)
      free  == Entry(i).slot
      moved == [n \in DOMAIN downloads |->
                  IF downloads[n].slot = last THEN [downloads[n] EXCEPT !.slot = free]
                  ELSE downloads[n]]
  IN  /\ downloading' = downloading \ {i}
      /\ downloads' = RemoveAt(moved, Position(i))
      /\ blockInfo' = SubSeq([blockInfo EXCEPT ![free] = blockInfo[last]], 1, last - 1)

\* Block k of partial piece i and the entry of i take new values.
SetBlock(i, k, block, d) ==
  /\ blockInfo' = [blockInfo EXCEPT ![Entry(i).slot][k] = block]
  /\ downloads' = [downloads EXCEPT ![Position(i)] = d]

SetBlockAndSort(i, k, block, d) ==
  /\ blockInfo' = [blockInfo EXCEPT ![Entry(i).slot][k] = block]
  /\ downloads' = SortPiece([downloads EXCEPT ![Position(i)] = d], Position(i))

-----------------------------------------------------------------------------
(***************************************************************************)
(* What the peers have.                                                    *)
(***************************************************************************)

CountUp(n)   == (n + 1) % (MaxPeerCount + 1)
CountDown(n) == (n + MaxPeerCount) % (MaxPeerCount + 1)

\* incoming_have, a HAVE for a piece the peer did not have.
Have(p, i) ==
  /\ ~IsSeed
  /\ i \notin peerHas[p]
  /\ peerHas' = [peerHas EXCEPT ![p] = @ \cup {i}]
  /\ announced' = announced \cup {p}
  /\ peerCount' = [peerCount EXCEPT ![i] = CountUp(@)]
  /\ UNCHANGED <<downloading, priority, have, seeds, dirty, counterVars, downloadVars>>
  /\ Relist({i})

\* inc_refcount_all: only the first seed can make pieces available.
IncRefcountAll ==
  /\ seeds' = seeds + 1
  /\ dirty' = (dirty \/ seeds = 0)
  /\ UNCHANGED peerCount

\* Fault: the last seed leaves and the list is not marked dirty.
DecRefcountAllClean ==
  IF seeds > 0
  THEN seeds' = seeds - 1 /\ UNCHANGED <<peerCount, dirty>>
  ELSE /\ peerCount' = [i \in Pieces |-> CountDown(peerCount[i])]
       /\ dirty' = TRUE
       /\ UNCHANGED seeds

\* Fault: a seed that became one HAVE by HAVE is taken for one of m_seeds.
DecRefcountAllSeeds ==
  /\ seeds' = IF seeds > 0 THEN seeds - 1 ELSE seeds
  /\ dirty' = (dirty \/ seeds <= 1)
  /\ UNCHANGED peerCount

\* dec_refcount_all: a seed that became one HAVE by HAVE was counted piece by
\* piece, and any other seed is taken out of m_seeds in its place.
DecRefcountAll ==
  IF seeds > 0
  THEN /\ seeds' = seeds - 1
       /\ dirty' = (dirty \/ seeds = 1)
       /\ UNCHANGED peerCount
  ELSE /\ peerCount' = [i \in Pieces |-> CountDown(peerCount[i])]
       /\ dirty' = TRUE
       /\ UNCHANGED seeds

MayAnnounceAll(p) == ~IsSeed /\ (LateBitfields \/ p \notin announced)

\* incoming_have_all, and incoming_bitfield with every bit set.
HaveAll(p) ==
  /\ MayAnnounceAll(p)
  /\ peerHas' = [peerHas EXCEPT ![p] = Pieces]
  /\ announced' = announced \cup {p}
  /\ IncRefcountAll
  /\ UNCHANGED <<downloading, priority, have, counterVars, downloadVars>>
  /\ Relist({})

\* incoming_bitfield: every bit set is counted, also for a piece the peer was
\* known to have; then the pieces it no longer claims are taken off.
Bitfield(p, B) ==
  /\ MayAnnounceAll(p) /\ B # Pieces
  /\ peerHas' = [peerHas EXCEPT ![p] = B]
  /\ announced' = announced \cup {p}
  /\ peerCount' = [i \in Pieces |->
                     IF i \in B THEN CountUp(peerCount[i])
                     ELSE IF i \in peerHas[p] THEN CountDown(peerCount[i])
                     ELSE peerCount[i]]
  /\ dirty' = (dirty \/ B # {})
  /\ UNCHANGED <<downloading, priority, have, seeds, counterVars, downloadVars>>
  /\ Relist(peerHas[p] \ B)

\* torrent::remove_peer.
Leave(p) ==
  /\ ~IsSeed
  /\ p \in announced
  /\ peerHas' = [peerHas EXCEPT ![p] = {}]
  /\ announced' = announced \ {p}
  /\ IF peerHas[p] = Pieces THEN DecRefcountAll
     ELSE /\ peerCount' = [i \in Pieces |-> IF i \in peerHas[p] THEN CountDown(peerCount[i])
                                            ELSE peerCount[i]]
          /\ dirty' = (dirty \/ peerHas[p] # {})
          /\ UNCHANGED seeds
  /\ UNCHANGED <<downloading, priority, have, counterVars, downloadVars>>
  /\ Relist({})

-----------------------------------------------------------------------------
(***************************************************************************)
(* Pieces that are wanted and pieces that are done.                        *)
(***************************************************************************)

\* we_have: the piece passed its hash check, or resume data or the file check
\* found it on disk.
WeHave(i) ==
  /\ i \notin have /\ (i \in downloading => AllFinished(i))
  /\ have' = have \cup {i}
  /\ numHave' = numHave + 1
  /\ IF i \in Filtered
     THEN numFiltered' = numFiltered - 1 /\ numHaveFiltered' = numHaveFiltered + 1
     ELSE UNCHANGED <<numFiltered, numHaveFiltered>>
  /\ PassCursors(i, ToPick \ {i})
  /\ IF i \in downloading THEN EraseDownload(i) ELSE UNCHANGED <<downloading, downloadVars>>
  /\ UNCHANGED <<priority, dirty, peerVars>>
  /\ Relist({i})

\* we_dont_have: resume data lists the piece as unfinished too.
WeDontHave(i) ==
  /\ i \in have
  /\ have' = have \ {i}
  /\ numHave' = numHave - 1
  /\ IF i \in Filtered
     THEN /\ numFiltered' = numFiltered + 1
          /\ numHaveFiltered' = numHaveFiltered - 1
          /\ UNCHANGED <<cursor, reverseCursor>>
     ELSE ReturnCursors(i) /\ UNCHANGED <<numFiltered, numHaveFiltered>>
  /\ UNCHANGED <<downloading, priority, dirty, downloadVars, peerVars>>
  /\ Relist({i})

\* set_piece_priority to and from filter_priority.
CountFiltered(i) ==
  IF i \in have
  THEN numHaveFiltered' = numHaveFiltered + 1 /\ UNCHANGED <<numFiltered, cursor, reverseCursor>>
  ELSE /\ numFiltered' = numFiltered + 1
       /\ PassCursors(i, ToPick \ {i})
       /\ UNCHANGED numHaveFiltered

CountUnfiltered(i) ==
  IF i \in have
  THEN numHaveFiltered' = numHaveFiltered - 1 /\ UNCHANGED <<numFiltered, cursor, reverseCursor>>
  ELSE /\ numFiltered' = numFiltered - 1
       /\ ReturnCursors(i)
       /\ UNCHANGED numHaveFiltered

SetPiecePriority(i, pr) ==
  /\ ~IsSeed
  /\ pr # priority[i]
  /\ priority' = [priority EXCEPT ![i] = pr]
  /\ \/ pr = 0 /\ CountFiltered(i)
     \/ priority[i] = 0 /\ CountUnfiltered(i)
     \/ /\ pr # 0 /\ priority[i] # 0
        /\ UNCHANGED <<numFiltered, numHaveFiltered, cursor, reverseCursor>>
  /\ UNCHANGED <<downloading, have, dirty, numHave, downloadVars, peerVars>>
  /\ Relist({i})

\* restore_piece: the piece failed its hash check, or could not be read.
RestorePiece(i) ==
  /\ i \in downloading /\ AllFinished(i)
  /\ EraseDownload(i)
  /\ UNCHANGED <<priority, have, dirty, counterVars, peerVars>>
  /\ Relist({i})

-----------------------------------------------------------------------------
(***************************************************************************)
(* The blocks of a piece.                                                  *)
(***************************************************************************)

Requested(n) == [state |-> "requested", peers |-> n]
Settled(s)   == [state |-> s, peers |-> 0]

UnlistedVars == <<priority, have, dirty, counterVars, peerVars>>

\* mark_as_downloading: a request goes out.
MarkAsDownloading(i, k, speed) ==
  /\ i \notin have
  /\ \/ /\ i \notin downloading /\ Priority(i) >= 0 /\ Len(downloads) < MaxDownloads
        /\ AddDownload(i, k, Requested(1), speed, 1, 0)
     \/ /\ i \in downloading /\ BlockState(i, k) \in {"none", "requested"}
        /\ BlocksOf(i)[k].peers < MaxRequests
        /\ LET d == Entry(i)
           IN  SetBlock(i, k, Requested(BlocksOf(i)[k].peers + 1),
                        [d EXCEPT !.requested = IF BlockState(i, k) = "none" THEN @ + 1 ELSE @,
                                  !.speed = IF @ = "none" THEN speed ELSE @])
        /\ UNCHANGED downloading
  /\ UNCHANGED UnlistedVars
  /\ Relist({i})

\* mark_as_writing: the block has arrived and goes to the disk thread.
MarkAsWriting(i, k) ==
  /\ i \in downloading /\ BlockState(i, k) = "requested"
  /\ LET d == Entry(i)
     IN  SetBlockAndSort(i, k, Settled("writing"),
                         [d EXCEPT !.requested = @ - 1, !.writing = @ + 1,
                                   !.speed = IF d.requested = 1 THEN "none" ELSE @])
  /\ UNCHANGED <<downloading, bucket, UnlistedVars>>

\* write_failed: the entry is neither sorted again nor erased.
WriteFailed(i, k) ==
  /\ i \in downloading /\ BlockState(i, k) = "writing"
  /\ SetBlock(i, k, Settled("none"), [Entry(i) EXCEPT !.writing = @ - 1])
  /\ UNCHANGED <<downloading, bucket, UnlistedVars>>

\* mark_as_finished: the block is on disk; resume data says so of any block.
MarkAsFinished(i, k) ==
  /\ i \notin have
  /\ \/ /\ i \notin downloading /\ Len(downloads) < MaxDownloads
        /\ AddDownload(i, k, Settled("finished"), "none", 0, 1)
     \/ /\ i \in downloading /\ BlockState(i, k) = "writing"
        /\ SetBlock(i, k, Settled("finished"),
                    [Entry(i) EXCEPT !.finished = @ + 1, !.writing = @ - 1])
        /\ UNCHANGED downloading
     \/ /\ i \in downloading /\ BlockState(i, k) = "none"
        /\ SetBlockAndSort(i, k, Settled("finished"), [Entry(i) EXCEPT !.finished = @ + 1])
        /\ UNCHANGED downloading
  /\ UNCHANGED UnlistedVars
  /\ Relist({i})

\* Fault: a request is aborted whatever has become of its block.
MayAbortAny(i, k) == i \in downloading /\ BlockState(i, k) # "none"

\* Of a block that is being written or is finished nothing is aborted.
MayAbort(i, k) == i \in downloading /\ BlockState(i, k) = "requested"

\* Fault: the last peer of a block goes and the block stays counted.
AbortBlockUncounted(i, k) ==
  LET n == BlocksOf(i)[k].peers - 1
  IN  SetBlock(i, k, IF n > 0 THEN Requested(n) ELSE Settled("none"), Entry(i))

AbortBlock(i, k) ==
  LET n == BlocksOf(i)[k].peers - 1
      d == Entry(i)
  IN  IF n > 0 THEN SetBlock(i, k, Requested(n), d)
      ELSE SetBlock(i, k, Settled("none"),
                    [d EXCEPT !.requested = @ - 1,
                              !.speed = IF d.requested = 1 THEN "none" ELSE @])

\* abort_download: one peer less will send the block; a piece without any
\* block is no longer partial.
AbortDownload(i, k) ==
  /\ MayAbort(i, k)
  /\ IF BlocksOf(i)[k].peers = 1 /\ Entry(i).requested = 1 /\ Complete(Entry(i)) = 0
     THEN EraseDownload(i)
     ELSE AbortBlock(i, k) /\ UNCHANGED downloading
  /\ UNCHANGED UnlistedVars
  /\ Relist({i})

-----------------------------------------------------------------------------
(***************************************************************************)
(* The life of a picker.                                                   *)
(***************************************************************************)

FullPeers    == {p \in Peers : peerHas[p] = Pieces}
PeersWith(i) == {p \in Peers : i \in peerHas[p]}

Init ==
  /\ peerCount = [i \in Pieces |-> 0]
  /\ downloading = {}
  /\ priority = [i \in Pieces |-> 1]
  /\ have = {}
  /\ seeds = 0
  /\ dirty = TRUE
  /\ bucket = [i \in Pieces |-> NotListed]
  /\ numHave = 0
  /\ numFiltered = 0
  /\ numHaveFiltered = 0
  /\ cursor = 0
  /\ reverseCursor = NumPieces
  /\ downloads = <<>>
  /\ blockInfo = <<>>
  /\ peerHas = [p \in Peers |-> {}]
  /\ announced = {}

\* Fault: init() forgets to move the counters of the filtered pieces.
RecountNothing == UNCHANGED <<numFiltered, numHaveFiltered>>

\* init() keeps the priorities, and m_seeds as the peers leave it.
Recount ==
  /\ numFiltered' = numFiltered + numHaveFiltered
  /\ numHaveFiltered' = 0

\* force_recheck: every peer is disconnected and the picker starts again; a
\* torrent that had dropped its picker makes a new one.
Recheck ==
  /\ peerCount' = [i \in Pieces |-> 0]
  /\ downloading' = {}
  /\ have' = {}
  /\ dirty' = TRUE
  /\ numHave' = 0
  /\ downloads' = <<>>
  /\ blockInfo' = <<>>
  /\ peerHas' = [p \in Peers |-> {}]
  /\ announced' = {}
  /\ \/ /\ ~IsSeed
        /\ seeds' = Max({0, seeds - Cardinality(FullPeers)})
        /\ cursor' = Min(Wanted \cup {NumPieces})
        /\ reverseCursor' = Max({i + 1 : i \in Wanted} \cup {0})
        /\ Recount
        /\ UNCHANGED priority
     \/ /\ IsSeed
        /\ seeds' = 0
        /\ cursor' = 0
        /\ reverseCursor' = NumPieces
        /\ numFiltered' = 0
        /\ numHaveFiltered' = 0
        /\ priority' = [i \in Pieces |-> 1]
  /\ Relist({})

Announce(p) ==
  \/ \E i \in Pieces : Have(p, i)
  \/ HaveAll(p)
  \/ \E B \in SUBSET Pieces : Bitfield(p, B)

BlockStep(i, k) ==
  \/ \E speed \in Speeds : MarkAsDownloading(i, k, speed)
  \/ MarkAsWriting(i, k)
  \/ WriteFailed(i, k)
  \/ MarkAsFinished(i, k)
  \/ AbortDownload(i, k)

Next ==
  \/ UpdatePieces
  \/ \E p \in Peers : Announce(p)
  \/ \E p \in Peers : Leave(p)
  \/ \E i \in Pieces : WeHave(i)
  \/ \E i \in Pieces : WeDontHave(i)
  \/ \E i \in Pieces, pr \in Priorities : SetPiecePriority(i, pr)
  \/ \E i \in Pieces : RestorePiece(i)
  \/ \E i \in Pieces : \E k \in Blocks(i) : BlockStep(i, k)
  \/ Recheck

Spec == Init /\ [][Next]_vars

-----------------------------------------------------------------------------
(***************************************************************************)
(* Properties.  The operators marked `Fault' are not part of Spec: each is *)
(* a slip in the code that one of these properties notices.                *)
(***************************************************************************)

BlockType == [state : {"none", "requested", "writing", "finished"}, peers : Nat]

EntryType == [index : Pieces, slot : Nat \ {0}, speed : Speeds \cup {"none"},
              requested : Nat, writing : Nat, finished : Nat]

\* What the fields of the picker and of the peers can be: no count below 0 and
\* no cursor beyond the pieces.
TypeOK ==
  /\ peerCount \in [Pieces -> 0..MaxPeerCount]
  /\ downloading \subseteq Pieces
  /\ priority \in [Pieces -> 0..7]
  /\ have \subseteq Pieces
  /\ seeds \in Nat
  /\ dirty \in BOOLEAN
  /\ bucket \in [Pieces -> Int]
  /\ numHave \in Nat /\ numFiltered \in Nat /\ numHaveFiltered \in Nat
  /\ cursor \in 0..NumPieces /\ reverseCursor \in 0..NumPieces
  /\ downloads \in Seq(EntryType)
  /\ blockInfo \in Seq([0..(BlocksPerPiece - 1) -> BlockType])
  /\ peerHas \in [Peers -> SUBSET Pieces]
  /\ announced \subseteq Peers

\* While the list is not dirty every piece is in the range of its priority
\* (verify_priority, and the loop over m_piece_map in check_invariant):
\* peer_count, m_seeds, `downloading', the user's priority and have() all
\* enter it and change at different calls, some of which only mark the list.
BucketsCurrent == ~dirty => \A i \in Pieces : bucket[i] = Priority(i)

\* The cursors bracket exactly the pieces left to pick (check_invariant).
CursorsExact ==
  /\ cursor = Min(ToPick \cup {NumPieces})
  /\ reverseCursor = Max({i + 1 : i \in ToPick} \cup {0})

\* The three counters of pieces (check_invariant); is_finished() and the
\* transition to seeding are decided by them.
CountersExact ==
  /\ numHave = Cardinality(have)
  /\ numFiltered = Cardinality(Filtered \ have)
  /\ numHaveFiltered = Cardinality(Filtered \cap have)

\* get_availability: peer_count and m_seeds together count the peers that
\* have the piece, however each peer came to have it.
AvailabilityExact ==
  \A i \in Pieces : peerCount[i] + seeds = Cardinality(PeersWith(i))

\* The counts of a partial piece are those of its blocks, it has a speed only
\* while it has requests and a block has peers only while it is requested.
BlockCountsExact ==
  \A n \in DOMAIN downloads :
    LET d        == downloads[n]
        block    == blockInfo[d.slot]
        count(s) == Cardinality({k \in Blocks(d.index) : block[k].state = s})
    IN  /\ d.requested = count("requested")
        /\ d.writing = count("writing")
        /\ d.finished = count("finished")
        /\ (d.speed = "none") = (d.requested = 0)
        /\ \A k \in Blocks(d.index) : (block[k].peers > 0) = (block[k].state = "requested")

\* Every piece marked as downloading has one entry and a slot of its own, the
\* slots are the first of m_block_info, and no piece we have is among them.
SlotsExact ==
  /\ downloading = {downloads[n].index : n \in DOMAIN downloads}
  /\ \A m, n \in DOMAIN downloads : m # n => /\ downloads[m].index # downloads[n].index
                                             /\ downloads[m].slot # downloads[n].slot
  /\ \A n \in DOMAIN downloads : downloads[n].slot <= Len(downloads)
  /\ Len(blockInfo) = Len(downloads)
  /\ downloading \cap have = {}

\* An operation on a piece leaves the blocks of the others as they are, though
\* it sorts the entries and moves another piece's blocks to a free slot.
OtherPiecesUntouched ==
  [][\/ downloads' = <<>>
     \/ Cardinality({i \in Pieces : BlocksOf(i)' # BlocksOf(i)}) <= 1]_vars

\* Of two pieces with the same availability and as much downloaded, the one
\* with the higher number is not picked after the other.
NotLater(i, j) ==
  (priority[i] > priority[j] /\ peerCount[i] = peerCount[j]
     /\ (i \in downloading <=> j \in downloading)) => bucket[i] <= bucket[j]

\* The user's priorities work (manual: "higher number means higher priority")
\* for pieces that some peer other than a seed has.
HigherNumberNotLater ==
  ~dirty => \A i, j \in ToPick : peerCount[i] > 0 => NotLater(i, j)

\* m_downloads is in descending order of complete blocks (check_invariant).
DownloadsSorted ==
  \A n \in 1..(Len(downloads) - 1) : Complete(downloads[n]) >= Complete(downloads[n + 1])

\* Every operation keeps that order, except a failed write.
SortedUntilWriteFails ==
  [][\/ DownloadsSorted'
     \/ ~DownloadsSorted
     \/ \E i \in Pieces : \E k \in Blocks(i) : WriteFailed(i, k)]_vars
=============================================================================

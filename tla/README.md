# Deluge with BP2P in TLA+

Specifications of the parts of this repository that carry its own logic: the
libtorrent (rasterbar) library under `src/deluge/libtorrent`, and BP2P under
`src/deluge/bp2p`, a plugin that lets BitTorrent peers exchange XOR combinations
of pieces instead of the pieces themselves. Everything is written in plain
TLA+, checked with TLC and, where said so, proved with TLAPS.

    tlasany M.tla                        parse
    tlc -config X.cfg M                  check (the pairs are in PROJECT.json, "runs")
    tlapm M.tla                          prove (M: the modules of the last column)

Modules and configurations:

| component | specification | instances | proofs |
|---|---|---|---|
| half-open connection queue | `ConnectionQueue` | `MCConnectionQueue`, `ConnectionQueue.cfg`, `ConnectionQueueLive.cfg` | `ConnectionQueueProofs` |
| piece picker and the availability its torrent feeds it | `PiecePicker` | `MCPiecePicker`, `PickerAvailability.cfg`, `PickerBlocks.cfg`, `PickerLateBitfield.cfg` | `PickerPiecesProofs`, `PickerBlocksProofs` |
| way of a block from a peer's queue to a verified piece | `DownloadPipeline` | `MCDownloadPipeline`, `DownloadPipeline.cfg`, `DownloadPipelineRecheck.cfg` | `DownloadPipelineProofs`, `RequestsProofs` |
| partly downloaded BP2P file | `PartialFile`, abstractly `Knowledge` | `MCPartialFile`, `PartialFile.cfg`, `PartialFileComplete.cfg`, `PartialFileWrapUp.cfg` | `PartialFileProofs` |
| BP2P's storage and torrent plugins, receiving | `CodedStorage` | `MCCodedStorage`, `CodedStorage.cfg`, `CodedStorageSealed.cfg` | `CodedStorageProofs` |

`ProofFacts` has the lemmas on numbers, finite sets, sequences and folds that
several of the proofs use.

Operators whose comment begins with "Fault" are slips a programmer could make in
the code; no specification uses them, and `PROJECT.json` ("mutants") says which
property notices which.

## 1. The system

### 1.1 libtorrent

One network thread runs everything that asio calls back; a disk thread serves
a queue of jobs; user threads call in through `torrent_handle` and `session`.
`session_impl::m_mutex` is held by most handlers and by every user call.

| part | state | operations | meets | hard because |
|---|---|---|---|---|
| `connection_queue` | queue of entries (ticket, connecting, expires), count of half-open connections, limit, timer | `enqueue`, `done`, `close`, `limit`, `try_connect`, `on_timeout` | peer connections, http connections (through callbacks) | callbacks re-enter; `on_timeout` and `close` let go of the mutex; two mutexes |
| `piece_picker` | a record per piece, the pieces in picking order, two cursors, counters, the list of partial pieces and their blocks in a shared array | reference counts up and down, `we_have`, `restore_piece`, priorities, `mark_as_*`, `abort_download`, `write_failed`, `pick_pieces` | torrent, peer connections, disk completions | everything incremental: a dozen derived values kept by hand; no order of calls is guaranteed |
| `peer_connection`, `bt_peer_connection`, `web_peer_connection` | what the peer has, request and download queues, choke and interest, rates | a handler per message, `send_block_requests`, `cancel_request`, `disk_write_complete`, `disconnect` | picker, policy, disk thread, bandwidth manager | messages in any order; disk answers after the torrent has changed |
| `torrent` | metadata, picker, connections, trackers, state of checking | `piece_finished`, `piece_failed`, `completed`, `force_recheck`, resume data | all | long life with resets in it; results of jobs started before a reset |
| `policy` | known peers, who is connected, choking | `new_connection`, `connection_closed`, `unchoke` | connections | counts kept by hand |
| `session_impl` | torrents, connections, settings | `second_tick`, `abort`, `add_torrent` | all | order of the shutdown |
| `disk_io_thread` | job queue, cache of blocks | `add_job`, flush, read, write, hash | storage, torrents | lets go of its mutex around I/O and ignores results |
| `storage`, `file_pool` | slots of compact allocation; open files | `allocate_slots`, `move_slot`; `open_file` | disk thread | swaps of slots; shared files |
| `bandwidth_manager` | queue, history, limit | `request_bandwidth`, `hand_out_bandwidth`, `on_history_expire` | connections | lets go of the mutex in the middle of its loops |
| `tracker_manager` and its connections | announces in flight | `queue_request`, `abort_all_requests`, timeouts | torrents, connection queue | late answers against timeouts |
| `kademlia` | routing table, transactions, traversals | RPCs, refresh, announce | session | lost and late answers |
| `alert_manager` | bounded queue | `post`, `get`, `wait` | user | drops when full |
| extensions (smart ban, metadata, pex), UPnP, NAT-PMP, LSD, proxies, encryption, bencoding | | | | mostly formats and I/O |

### 1.2 BP2P

| part | state | operations | meets | hard because |
|---|---|---|---|---|
| `PartialAlgorithm`, `FileHandler` | (none of their own beside `m_wasEliminated`) | `addChunk`, `getChunk`, `wrapUp`; `putChunk` | `FileObject` | Gaussian elimination on data in place |
| `FileObject`, `MetaFile`, `MetaData` | the functionals of the chunks held, the data files, the metafile | `putChunk`, `replaceChunk`, `completeFiles`, `persist`, the constructor | disk | crashes: two files that must agree |
| `StorageImpl`, `TorrentPlugin` | slots free, written or verified; headers and data that wait for each other | `read`, `write`, `receiveChunk`, `on_piece_failed_check`, `tick` | `FileHandler` on the disk thread, peers on the network thread | state split over libtorrent's have-bits, the slots and the matrix |
| Python client and server | | | | a test bench |

### 1.3 Deluge

The Python daemon (`deluge/core`), its plugins and its user interfaces drive
libtorrent through the bindings. They hold settings and torrents by name.

### 1.4 What makes each modelled part correct

* Connection queue: the count of half-open connections is exact and within the
  limit; every attempt ends; nothing waits for ever while slots are free;
  a connection is never told of a timeout it did not have.
* Piece picker: the picking order, cursors, counters and block records are those
  that the pieces' own state implies; the availability is the number of peers
  that have the piece; work on one piece leaves the blocks of others alone.
* Partial file: a chunk is refused exactly when it is a combination of those
  held; the data on disk is always what the matrix says; with the last chunk the
  file decodes; a crash costs no more than the chunk being put and never makes
  the file lie.
* Coded storage: a slot is called verified only when the matrix gained something
  for it or its data still waits; no peer pays for a chunk that was merely useless
  or met the wrong header; only wrong bytes that a peer sent bring wrong bytes into
  the file, never the meeting of two sound chunks; once
  everything is there, every piece libtorrent asked for passes its hash.
* Download pipeline: a block is asked of exactly the peers whose queues it is in,
  is written once and hashed once, and blamed on the peer that sent it, whatever
  chokes, rejects, snubs, departures, disk errors and failed hashes come between.

## 2. ConnectionQueue

`src/connection_queue.cpp` whole, with the parts of `peer_connection.cpp` that
use it. A client is an object with a connection attempt (a `peer_connection` or
`http_connection`). The list `m_queue` is kept as `waiting` (in order) and the
set `connecting`; `left` is an entry's timeout, then the time left to it.

| action | code |
|---|---|
| `Enqueue`, `SetLimit`, `CloseBegin` ... `CloseEnd` | `enqueue`, `limit(int)`, `close` (its callbacks run without `m_mutex`) |
| `ConnectStarts`, `ConnectFails`, `ConnectOnClosed` | one `on_connect` call of `try_connect`: the socket starts to connect, fails at once (`disconnect`, hence `done`, inside the outer call), or belongs to a peer that was disconnected while it waited |
| `ConnectionComplete`, `Disconnect` | `on_connection_complete`; `disconnect` at any time |
| `OnTimeoutBegin`, `TimeoutCallback`, `OnTimeoutEnd` | `on_timeout` up to the unlock, its callbacks, and from the second lock on |
| `Tick`, `TimerExpires` | the clock, and the wait that ends whose handler is then queued |
| `Recycle` | a client object is used for another attempt |

`toConnect` is the stack of `on_connect` calls still to be made: `m_mutex` is held
while it is not empty, which the guard `MutexFree` says.

`ConnectionComplete` waits for `close()`, as `peer_connection::on_connection_complete`
does with the session's mutex, which it takes and `close()`'s caller holds. The
callbacks of `http_connection` do not take that mutex, so that a
tracker's connection could complete between two of `close()`'s callbacks and be
told of a timeout then; this case is left out, and `TimedOutStillConnecting` is a
claim about `peer_connection`s only.

Bounds: three clients, one with priority 1; timeouts of one and two ticks; a
limit of 0 (none) or 2, changed at any time; `MaxPosted` = 1 handler waiting in
the io_service. Three clients are the least with which two entries are connecting,
one is waiting, and a timeout takes one of the two; symmetry exchanges the two
clients of priority 0.
An entry that is one tick late stays so; only `expires < now` matters to the code.

| run | shows |
|---|---|
| `connection_queue` | `NumConnectingExact`, `SlotsWithinLimit`, `TimerCoversConnecting`, `NeverStalls`, `LiveAttemptIsTracked`, `TimedOutStillConnecting` under every interleaving of two threads |
| `connection_queue_live` | every attempt ends; every waiting one is started, unless the queue is closed (two clients of one priority). An attempt queued after `close()` is neither started nor timed out, and nothing in the code says it would be |

Fairness: weak fairness of the calls `try_connect` still has to make, of the clock
and of the timer, which the io_service and the operating system give. Strong
fairness of `on_timeout` and `close()`: both wait for mutexes that other threads
keep taking, and the assumption is that a thread that waits for a mutex gets it.
Nothing makes a peer answer or a user act. Entries of priority 1 go to the front
of the queue, so that a stream of them may hold up the others; the liveness run
therefore has one priority.

Proved (`ConnectionQueueProofs`, any finite or infinite set of clients, any
timeouts and limits): type correctness, `NumConnectingExact`,
`LiveAttemptIsTracked`, `TimedOutStillConnecting`, `TimerCoversConnecting` and
`NeverStalls` as invariants, `SlotsWithinLimit` as an action property. None of
the invariants but type correctness is inductive.
The inductive invariant adds that `waiting` has no repetitions and is disjoint
from the finite set `connecting`, whose size is the count (`QueueOK`), and
`Tracking`, which ties the state of a client's object to where its entry is. The
lemmas on `try_connect` are stated for any queue it is called with, since
`done`, `limit`, `enqueue` and `on_timeout` call it with different ones.
That the queue is always served (`TimerCoversConnecting`, `NeverStalls`) needs a second
invariant, `ServiceInv`: entries wait only behind others that are connecting, unless
the queue is closed or `on_timeout` is between its locks; and while something
connects the timer is armed, or its handler is posted, or `on_timeout` is about to
arm it (`Covered`).
Only model-checked: liveness.

## 3. PiecePicker

All of `piece_picker.cpp` that changes state. `bucket[i]` is the range of
`m_pieces` that lists piece `i` (the order inside a range is random in the code);
while `m_dirty` is set the array is stale and unused. `blockInfo` is
`m_block_info`, an entry's `slot` its `info` pointer; `EraseDownload` moves the
last slot into the gap like `erase_download_piece`.

The picker has no order of its own: the operations on blocks are
enabled when the assertions at their head hold, and peers announce (`Have`, `HaveAll`,
`Bitfield`), leave (`Leave`) and the user sets priorities (`SetPiecePriority`)
at any time. The actions `Have`, `HaveAll`, `Bitfield` and `Leave` are whole
handlers of `peer_connection` with the torrent's part in them. `Recheck` is what
`force_recheck` does to the picker. A torrent that has every piece drops its picker:
from then on only `Recheck`, which makes a new one, and `WeDontHave`, from resume data that
lists a piece as unfinished, bring pieces back.

Bounds: `PickerAvailability.cfg` has three pieces (the least with a piece strictly
between the cursors), two peers, priorities 0 (filtered), 2 and 5 (one on each side of the
formula's switch at 4), one block a piece and one partial piece;
`PickerBlocks.cfg` three pieces with two, two and one blocks, two partial pieces
at a time and up to two requests of a block.

| run | shows |
|---|---|
| `picker_availability` | `BucketsCurrent`, `CursorsExact`, `CountersExact`, `AvailabilityExact`, `HigherNumberNotLater` (for pieces that some peer other than a seed has: among those only seeds have, the formula can put a piece of priority 4 after one of priority 3) |
| `picker_blocks` | `BlockCountsExact`, `SlotsExact`, `OtherPiecesUntouched`, `SortedUntilWriteFails` (only until then: `write_failed` does not call `sort_piece`) |
| `picker_late_bitfield` | violated: the availability is the number of peers. A BITFIELD or HAVE_ALL after a HAVE of the same peer is accepted and counted again |

Proved, for any number of pieces, blocks, peers and partial pieces. In
`PickerPiecesProofs`: `CountersExact`, `CursorsExact`, `BucketsCurrent`,
`HigherNumberNotLater` and `AvailabilityExact`. The first three are inductive
together with the types of the fields they read (`PiecesInv`): a cursor moves
over pieces that the counters and the state of the piece decide, and whether a piece must
change its range depends on its availability, which `seeds` shifts for all pieces
at once. `AvailabilityExact` is proved under `~LateBitfields`, which
`picker_late_bitfield` shows to be needed; it rests on a peer that announced
nothing having nothing, and on `seeds` counting only peers that have everything
(`PeersInv`). In `PickerBlocksProofs`: `TypeOK`, `SlotsExact`, `BlockCountsExact`, and as
action properties `OtherPiecesUntouched` and `SortedUntilWriteFails`. Their invariant,
`EntriesOK`, is about any sequence of entries over any array of slots, so that it can be
said of `m_downloads` before and after `sort_piece`, which only permutes it, and
of the array with the last slot moved into the gap. `SortFacts` says where `sort_piece` leaves each entry.

## 4. Knowledge and PartialFile

A BP2P chunk has a functional, the set of pieces whose XOR it is; XOR of chunks is
symmetric difference of functionals. The content of a chunk-sized place of the
data file is represented the same way, as the set of pieces whose XOR
the bytes are. So "the data is right" is the formula `disk[i] = matrix[i]`.

| action | code |
|---|---|
| `OpenNew`, `OpenComplete`, `OpenIncomplete`, `OpenFails` | `FileObject`'s constructor, which guesses the state from the data's length and the metafile |
| `Offer`, `Reduce`, `Reject`, `Insert`, `Save` | `FileHandler::putChunk`: `addChunk`, each turn of `semiReduce`, the answer, `FileObject::putChunk`, `persist` |
| `Eliminate`, `CloseFiles`, `Truncate`, `DeleteMetaFile`, `Unlink` | `wrapUp`: each turn of the two loops of `gaussElimination`, and the steps of `completeFiles` |
| `GetChunk`, `GetChunkDividesByZero` | `PartialAlgorithm::getChunk` |
| `SaveResumeData`, `ShutDown`, `Crash`, `Retry` | `persist` on its own, the destructor, a crash, the user adding the torrent again |

All calls hold the storage's main mutex, so only a crash comes between the steps of one.
It is the process that dies, so that what has been written is there. The data
file is flushed with every write; a save of the metafile reaches the file too, since
`performSave` makes an archive whose destructor syncs the stream. A save is taken to be
one write: the metafile is the one before it or the one after it. So after a crash
the metafile lags behind the data only between the write of a chunk and the save that
follows (`Insert`, `Save`), and during the elimination, which saves at its end only.
`length` and `trimmed` are
the length of the data file in chunks, and whether it is exactly the torrent's;
`Aligned` says that the torrent's size is a multiple of the chunk size, so
that both are the same.

`Knowledge` is what a user of the file may rely on: it knows a space of functionals,
an offered chunk is helpful exactly when it is outside the space, then the space
grows by it, and a crash at most halves the space (the chunk being put is
lost). `ImplementsKnowledge` is its `Spec` under
`known <- Span(KnownRows)`, all XORs of the rows in memory or, when the process is
down, of the rows the next start will load.

| run | shows |
|---|---|
| `partial_file` | `RowsLead`, `DataMatchesFunctional`, `DoneIffAllKnown`, `DecodedWhenDone`, `SentIsCombination`, `PutChunkReturns` and the refinement `ImplementsKnowledge` |
| `partial_complete` | violated: a file that is opened as complete is complete (`Aligned`). Once the last row is saved, the metafile has every row and the data its full length; a crash in the elimination then leaves what looks complete, while the places hold combinations |
| `partial_wrap_up` | violated: the rows that a start loads are on disk (`CrashInElimination`). The elimination changes the data and not the metafile |

Bounds: `partial_file` has four chunks and seven offered functionals (single
pieces, overlapping combinations, one that depends on others): with four both the triangular matrix and the order
of elimination are non-trivial. Its file is not `Aligned`; nothing in it depends on
that, and the proofs do not assume it. The other runs offer every functional of three.

`GetChunkDividesByZero` is what `getChunk` does with exactly two rows: the number
of chunks to combine is drawn modulo 0, and the process dies.

Fairness: weak fairness of `Continue`, the rest of a call of `putChunk` that has
begun.

Proved (`PartialFileProofs`), for every number of chunks and all offers, under
`~CrashInElimination`: type correctness, `RowsLead`, `DataMatchesFunctional`,
`DecodedWhenDone` and `SentIsCombination`. The assumption is needed: it
excludes exactly what `partial_complete` and `partial_wrap_up` show. Crashes at any
other time are included, and so are files of every size. The inductive invariant `IInv` adds to the properties that
the bit `semiReduce` stands at is the first of the remaining functional
(`Reducing`); that the metafile, when it is there, is the matrix, or lacks the row
that is being saved (`MetafileFollows`); that what a start would load leads and is
on disk, and is the unit matrix if it is whole (`MetafileLoadable`); that the
metafile is missing only beside a file that is cut to length (`WithoutMetafile`); that the columns the
elimination has passed are those of the unit matrix (`Columns`), hence at the end
all of them (`Eliminated`); and that only a decoded file is cut to length (`Cut`).
`ReduceMovesOn` and `EliminateKeepsPlace` are the two facts about XOR and
first bits it rests on; `CombinationNotBlank` says that rows that lead are independent.

Proved too, under the same assumption: `DoneIffAllKnown`, and that
the file implements `Knowledge` (`ImplementsKnowledge`). The argument is linear algebra over GF(2),
where a functional is a vector. The lemmas: an XOR-closed set that has
the rows has their span (`SpanInduction`); a row put in its place extends the
span by exactly that vector (`InsertSpan`); a row operation of the
elimination leaves it alone (`EliminateSpan`); a new vector doubles the size
(`WithDoubles`); the rows' first bits tell whether a vector is in the span
(`SpanLeads`, `SpanEnds`). The last ones make `putChunk`'s answer right: `semiReduce`
ends in nothing exactly for a chunk that was known. The abstract step of a crash
wants more than the span, namely how far behind the saved rows are, so
`FileInv` adds to `IInv` that the metafile is at most one row behind the matrix
(`Lag`), that what is left of an offered chunk
differs from it by something known (`OfferReduced`), and that an empty data file has no rows
(`BlankFile`). Every action then is a step of `Knowledge` or leaves
`known` alone, action by action.
Only model-checked: `PutChunkReturns` (liveness).

A file whose first chunk was written and whose process died before the save has
data and no row; no start accepts it (`OpenFails`, "could not determine file
state"), although nothing but that chunk was lost.

Not modelled: a save that is torn by the crash, files constructed with an explicit state or from their name,
moving files, torrents of several files.

## 5. CodedStorage

The receiving half of `StorageImpl` and `TorrentPlugin`: how a coded chunk that
came in place of a piece gets past libtorrent's hash check. The matrix is that of
`PartialFile`, with a whole `putChunk` (and `wrapUp`) as one step, because it runs under
the storage's main mutex; a row is the content of its place on disk, with `Bad` in it
when wrong bytes are part of the XOR.

| state | code |
|---|---|
| `rows` | the matrix and the data file |
| `slots`, `incoming` | `m_slots_written` and `m_incoming_chunk_datas`, shared by the two threads |
| `hasher` | the slots with an entry in `m_piece_hasher` of the `piece_manager` |
| `phase`, `body` | how far libtorrent is with a piece, and what it collected as that piece |
| `seen` | chunks whose header has its only chance behind it |

| action | code |
|---|---|
| `Arrive` | the last block of a piece, from the network thread; the job goes to the disk thread |
| `ReceiveHeader`, `Purge` | `receiveChunk`, `tick` |
| `WriteParts` ... `WriteTwice` | `write`, one action for each of its ways out |
| `Hash` | `hash_for_slot` behind `piece_manager::hash_for_piece_impl` |
| `PiecePassed`, `PieceExcused`, `PieceBlamed`, `PieceLost` | `torrent::piece_finished` with the plugin's `on_piece_failed_check` |
| `Resume`, `FullCheck` | a restart with resume data, and one that hashes what is on disk |

Coded chunks may be wrong (`Wrong`): nobody can check the bytes of an XOR, so
`insertChunk` puts whatever met a header of the same functional. Their
sender may have made them of wrong rows, or their blocks may be of two chunks: the
tags that are to tell blocks apart have one byte. `Coded` then has both the chunk as it
was sent and as it was collected, with one marker and one functional (`SentAs`). A
corrupt regular piece gets into the matrix before its hash is checked, too.

Whether a functional helps is asked of the wrong bytes: `receiveChunk` cuts
the functional out of the header where bytes of the chunk are, and `write` cuts
it out of the data one byte early, with the block tag in front (both have it
right in `insertChunk`). What they judge is therefore any functional at all
(`judged`): helpful headers and data are dropped, useless ones are kept and found
out by `insertChunk`.

What is assumed of the surroundings. The header of a chunk is sent before its first
block or never: `on_disk_read_complete` calls the plugin before it writes the
piece. Two senders may give their chunks the same marker, which is a number of a
generator seeded with the time (`utility.cc:8`), but not to two chunks of the same
functional: those are taken for one sent chunk, so that a header never comes when data
of its marker and functional is there. (The code would take such a header for the data's
own, and could set a slot again that libtorrent has given up in the meantime.)
A header that finds another header under its marker takes it for data of
no bytes, which fits nothing. A chunk
is accepted in place of any piece but the last, which is shorter. A restart
finds the rows that were there; a crash inside a call leaves those of before it, and
one inside the elimination, which `partial_complete` and `partial_wrap_up` are about, is left
out here. The writes of the disk thread are ignored when they fail, as
`disk_io_thread::flush` does. `piece_passed` leaves the slot alone: the plugin's
`on_piece_passed_check` is not the name that the torrent calls.
Data that waits under a marker when data comes again is taken for an empty
header; cutting that throws, and the job ends as a disk error (`WriteTwice`).

| run | shows |
|---|---|
| `coded_storage` | `TypeOK`, `HonestPeersNotBlamed`, `TaintIsReceived`, `VerifiedIsBacked`, `DonePiecesPass`, with restarts |
| `coded_sealed` | violated: libtorrent has every piece only when the matrix has every row. The refusal of the last piece by `write` is ignored by the disk thread, and the piece passes because it lies on disk as it is |

Bounds: three pieces, of which one is the last; two chunks of the same marker and
different functionals, one of them wrong, for `coded_storage`, three chunks (two of one marker) for `coded_sealed`; at most
two pieces between their last block and their verdict (`MaxInFlight`). Two chunks under one
marker meet each other's header or data in every order; three pieces are the least
with which a row can be missing behind a last piece and another that passed.
There is no deadlock check because a torrent that is whole may stop.

Proved (`CodedStorageProofs`), for any number of pieces and any coded chunks and
markers, any of them wrong: `TypeOK`, `HonestPeersNotBlamed`, `TaintIsReceived`, `VerifiedIsBacked` and
`DonePiecesPass`. The inductive invariant is `StorageInv`: every row begins
with its own piece, and a whole matrix is wrapped up (`MatrixOK`); a waiting
header or data is under the marker of its own chunk, which has been seen
(`IncomingOK`), so a header that meets waiting data is another sender's; and for each slot, what it is
called, what libtorrent has collected for it, and whether its hash is being
kept go together (`PieceOK`). A piece that failed its hash and has a slot that is not
free had wrong bytes, which is why nobody else is blamed. `Reduced` is a
recursive function: that it is defined at all, and that it stops at a free place or at nothing, is proved
by induction on the first piece of the chunk, which every turn moves up
(`ReducesExists`, `ReducedFacts`). `DecodedFacts` and `WholeMatrixSpans` are
the linear algebra: a whole matrix decodes every piece. No restart is excluded.

## 6. DownloadPipeline

The composition of the peers' request queues, the policy's `request_a_block`, the
state of blocks in the picker, the disk thread's writes and hashes, and the
torrent's verdicts. `PiecePicker` shows that the picker's own bookkeeping is
consistent for any calls its assertions allow; this module has the callers, and
shows that their calls agree with each other.

| state | code |
|---|---|
| `blk` | `block_info`: state, number of peers, peer. `from`, whose bytes they are, is only in the model |
| `have`, `picker` | the picker's pieces; whether the torrent still has a picker |
| `rq`, `dq` | `m_request_queue`, `m_download_queue` (with the number of times an entry was skipped) |
| `choked`, `snubbed`, `desired`, `parole`, `banned`, `conn` | the members of that name of `peer_connection`, `policy::peer` and `torrent` |
| `writes`, `hashes`, `ahead` | jobs with the disk thread; the hashes queued before a recheck |
| `dead` | the process has followed a null picker or the end of `m_downloads` |

| action | code |
|---|---|
| `Connect`, `Disconnect` | `attach_peer`; `disconnect` with `remove_peer` |
| `Unchoke`, `Choke`, `RejectRequest` | `incoming_unchoke`, `on_choke` with `incoming_choke`, `incoming_reject_request` |
| `Piece`, `UnwantedPiece` | `incoming_piece`, for a block in the queue and one that is not |
| `SnubPeer`, `SecondTick` | `snub_peer`; the queue size of `second_tick` |
| `WriteComplete`, `WriteError` | `on_disk_write_complete` |
| `PiecePassed`, `PieceFailed`, `PieceWithheld`, `HashError` | `on_piece_verified` and `piece_finished` to their ends; `PieceWithheld` is BP2P's hook |
| `Pause`, `Resume`, `ForceRecheck`, `FilesChecked` | the user, and the end of a recheck |

A handler calls a dozen functions that change the same state. Each action
is one handler: `Now` is the state as a record, each operator (`Abort`, `Accept`,
`Ask`, `Close`, ...) is a function of the code from record to record, or to the
set of records it may leave when it chooses, and `Become` writes the
result back. What the picker picks is left open as far as its order of pieces is,
but not which blocks are eligible: `Free` and `Picks` have parole, the
preference for whole pieces and the number wanted, `Busy` the blocks asked for twice
at the end.

Disk answers come in any order; only a recheck is behind the jobs queued before it
(`ahead`). A single sender of a failed piece is banned; of several, any may be, in
place of the trust points. The order in which peers are visited is arbitrary. A
connection that is gone leaves its writes without a peer (`Nobody`).
No connection is made once the torrent is complete. With
`close_redundant_connections` a seed may leave a little earlier, to the same end.
A snub and the queue size last as long as the connection.

| run | shows |
|---|---|
| `download_pipeline` | `TypeOK`, `QueuesDistinct`, `RequestsExact`, `OneWrite`, `OneHash`, `BlameExact`, `NeverDies` when nobody forces a recheck |
| `download_recheck` | violated: `NeverDies`. `force_recheck` empties the picker while the verdict on a piece is on its way; `get_downloaders` or `restore_piece` then look the piece up and follow the end iterator |

`RequestsExact` is what `check_invariant` of `peer_connection` says of the picker's
`num_peers`. It holds through a failed hash because `restore_piece_state` counts the requests
of blocks that had overtaken copies on the way again. No CANCEL is ever sent to
the other peers asked for a block (`incoming_piece` marks the block before
`cancel_request` looks whether it is requested): `OneWrite` says that their copies are
dropped all the same.

Bounds: two peers, both with everything; two pieces, of two blocks and one;
`QueueSize` = 2. Two peers are the least with which a block is asked for twice, one
copy overtakes the other and blame has to be told apart; with three blocks one piece
is under way while the other waits for its verdict. Peer `p1` is a steady seed. Peer `p2`
does everything that is difficult: it may choke, reject, leave, be slow, answer out of order,
and prefers whole pieces, as BP2P's peers do (`Seeds`, `FastPeers`, `WholePeers`,
`Snubbable`, `Fickle`, `Disorderly` name the roles). Because the only peer that chokes
has the FAST extension, the choke without it, which equals that choke followed by the
reject of each request, is not met in this instance. Deadlock is not checked: a
complete or paused torrent stops.

Proved (`DownloadPipelineProofs`), for any finite set of peers in any of the roles
and any torrent, when nobody forces a recheck: `TypeOK`, `OneWrite`, `OneHash`,
`BlameExact`, `NeverDies`. A handler threads the record of the state through many calls,
some of them in folds over a queue or over all peers; the proof is about records
accordingly. `Sound` holds the good ones: they have `OneWrite`, `BlameExact`
and not `dead`; in addition the write of a block is noted for the sender
(`WriterNoted`), without which blame is not inductive, a piece that we have has no blocks
in `m_downloads`, and the picker goes only when everything is there. Most calls move
only requests about: they are *quiet* (`Quiet`), and a record that quiet calls make of a
sound one is sound (`QuietKeepsSound`). So each call, and each fold of calls, has
one lemma, that it is quiet, and quiet calls compose (`QuietIsTransitive`); only `Accept`,
`Written`, `EraseDownload`, `Restore` and a piece that passes are not, and have lemmas of their
own. `PipelineInv` is soundness of `Now` with `OneHash`. A fold is a recursive function
that its definition names with CHOOSE: that there is one, and what it keeps, are
inductions of their own (`FoldExists`, `FoldGraphExists`, `TraceInduction` and
`FoldTrace` in `ProofFacts`).

Proved (`RequestsProofs`), as generally: `RequestsExact` and `QueuesDistinct`. The first is
false between the calls of a handler. A choke empties the download queue and
gives the blocks back one after another; a block that is skipped too often leaves its
queue before `abort_download`; the hash that fails restores a piece whose blocks
may be in queues again. So the proof has accounts: who is counted for which block
(`Tables`), with one for what is in nobody's queue any more, and `Ledger`, which says that
`num_peers` is the number of accounts a block is on. `Owing(w, E)` holds the records
in which `w` is counted for the blocks `E` as well as for those in its queues, `Without(X)`
those in which nobody is counted for the blocks `X`, and `Balanced` those in which the
queues alone count. Each call has a lemma that says from which of these sets it leads to
which; a fold over a choked queue pays `E` back one block a turn, a restored
piece takes its blocks out of `X` one a turn. Every handler leads from `Balanced` to
`Balanced`, and the inductive invariant is `RequestsInv == PipelineInv /\ Now \in Balanced`.
`QueuesDistinct` has to be proved along with it: a block that could be twice in a queue would
be counted once and given back twice.

Left out: uploading, the allowed-fast set and suggestions, the speed classes of the
picker, requests that a web seed merges, and peers that have only some of the
pieces (`PiecePicker` has those). Not a run, but to be seen in the actions: after a
failed hash nobody is asked for the freed blocks until a peer sends
something, because `restore_piece` is not followed by `request_a_block`.

## 7. Findings

Each is a run that ends in a violation of what the repository itself says;
`PROJECT.json` quotes the line.

1. A late BITFIELD or HAVE_ALL inflates a piece's availability for good.
2. BP2P can take an incomplete file for a complete one after a crash.
3. BP2P's elimination is not crash-safe: matrix and data may disagree after a restart.
4. BP2P's guard against sealing a file too early does not hold it back.
5. A forced recheck while the hash of a piece is under way sends `piece_passed` or
   `piece_failed` into a picker that does not know the piece.

## 8. Plan

Written so far: `ConnectionQueue`, `PiecePicker`, `DownloadPipeline`, `PartialFile` over
`Knowledge`, and `CodedStorage`, all of them with proofs: every invariant that a passing run
checks is the statement of a theorem. In the order of importance, next:

1. `CodedSend` (`m_slots_read_normal`, the read cache, `getHeader`), and both halves
   composed for a small swarm with liveness.
2. `PieceLists`: the array `m_pieces` with its ranges, as a refinement of
   `bucket`; `PiecePicking`: `pick_pieces` against a reference definition.
3. `ConnectionQueueLocks`: the two mutexes taken in both orders.
4. `FileRanges`: `calculateFilesForIndex` against the byte-wise definition.
5. `BandwidthManager`, `DiskCache`, `StorageSlots`, `TrackerRequests`; then policy's list of
   peers, alerts, the file pool, the DHT's RPC manager.

Out of the prover's reach, and left to TLC: liveness (`EveryAttemptEnds`,
`WaitingIsServed`, `PutChunkReturns`) and `ENABLED`. No module that is
proved about uses a RECURSIVE operator; what a fold or a recursive function does is
proved by induction over a set of numbers (`SetInduction`), since the induction theorems
of the library take a formula as a parameter, which the provers do not.

### Not modelled

Components and hazards that no module covers are in `PROJECT.json` with the
reason. User interfaces, parsers, vendored code and plain I/O stay out: they have
no state whose interleavings or sequences could go wrong.

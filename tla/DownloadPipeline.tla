-------------------------- MODULE DownloadPipeline --------------------------
(***************************************************************************)
(* The way of a block from a peer's request queue to a verified piece:      *)
(* the two queues of every peer_connection, policy's request_a_block, the   *)
(* state of the blocks in the piece_picker, the writes and hashes handed to *)
(* the disk thread and what their answers do to the torrent                 *)
(* (src/peer_connection.cpp, policy.cpp, torrent.cpp, piece_picker.cpp).    *)
(*                                                                         *)
(* The handlers run on the network thread, one at a time and with the       *)
(* session mutex; the answers of peers and of the disk thread come in any   *)
(* order.  A handler makes many calls that change the same state: here it   *)
(* is one action, which threads a record of that state, s, through one      *)
(* operator per call.                                                      *)
(*                                                                         *)
(* Every peer has every piece.  PiecePicker has what is left out here: the  *)
(* order in which pieces are picked and the counters of a partial piece.    *)
(***************************************************************************)
EXTENDS Integers, SequencesExt, FiniteSetsExt

CONSTANTS
  Peers,         \* the peers of the torrent
  Nobody,        \* a null policy::peer
  Seeds,         \* those that are upload_only
  FastPeers,     \* those with the FAST extension: they reject by themselves
  WholePeers,    \* those with prefer_whole_pieces, as BP2P sets it
  NumBlocks,     \* blocks of the torrent
  BlocksPerPiece,  \* and of each piece but the last, which may have fewer
  QueueSize,     \* m_desired_queue_size of a peer that is not snubbed
  Snubbable,     \* those that may be slow
  Fickle,        \* those that may choke us or leave by themselves
  Disorderly     \* those that may answer a later request first

ASSUME PipelineAssumption ==
  /\ Nobody \notin Peers
  /\ Seeds \cup FastPeers \cup WholePeers \cup Snubbable \cup Fickle \cup Disorderly
       \subseteq Peers
  /\ IsFiniteSet(Peers)
  /\ NumBlocks \in Nat \ {0} /\ BlocksPerPiece \in Nat \ {0}
  /\ QueueSize \in Nat \ {0, 1}

Blocks      == 0 .. NumBlocks - 1
PieceOf(b)  == b \div BlocksPerPiece
Pieces      == 0 .. PieceOf(NumBlocks - 1)
BlocksOf(i) == {b \in Blocks : PieceOf(b) = i}

VARIABLES
  blk,       \* block_info of every block
  have,      \* the pieces the picker says we have
  picker,    \* m_picker is not null
  conn,      \* m_connections
  choked,    \* m_peer_choked
  parole,    \* policy::peer::on_parole
  rq,        \* m_request_queue
  dq,        \* m_download_queue
  writes,    \* the writes of each block with the disk thread: who sent it, or
             \* Nobody when that connection is gone
  dead,      \* the process has followed a null picker or an end iterator
  hashes,    \* how many hashes of each piece are with the disk thread
  snubbed,   \* m_snubbed
  desired,   \* m_desired_queue_size
  banned,    \* policy::peer::banned
  paused,    \* m_paused
  checking,  \* checking_resume_data or checking_files, after a recheck
  ahead      \* the pieces whose hash is in the disk queue before the check

vars == <<blk, have, picker, conn, choked, parole, rq, dq, writes, dead, hashes,
          snubbed, desired, banned, paused, checking, ahead>>

\* What most calls change, and the way back into the variables.
Now == [blk |-> blk, have |-> have, picker |-> picker, conn |-> conn,
        choked |-> choked, parole |-> parole, rq |-> rq, dq |-> dq,
        writes |-> writes, dead |-> dead, snubbed |-> snubbed, desired |-> desired]

Become(s) ==
  /\ blk' = s.blk /\ have' = s.have /\ picker' = s.picker /\ conn' = s.conn
  /\ choked' = s.choked /\ parole' = s.parole /\ rq' = s.rq /\ dq' = s.dq
  /\ writes' = s.writes /\ dead' = s.dead
  /\ snubbed' = s.snubbed /\ desired' = s.desired

torrentVars == <<banned, paused, checking, ahead>>
diskVars    == <<hashes, torrentVars>>

\* The record s with another state of block b.
SetBlock(s, b, info) == [s EXCEPT !.blk[b] = info]

Idle == [state |-> "none", peers |-> 0, peer |-> Nobody, from |-> Nobody]

Init ==
  /\ blk = [b \in Blocks |-> Idle] /\ have = {} /\ picker = TRUE
  /\ conn = {} /\ choked = Peers /\ parole = {}
  /\ rq = [p \in Peers |-> <<>>] /\ dq = [p \in Peers |-> <<>>]
  /\ writes = [b \in Blocks |-> <<>>] /\ dead = FALSE
  /\ hashes = [i \in Pieces |-> 0]
  /\ snubbed = {} /\ desired = [p \in Peers |-> QueueSize]
  /\ banned = {} /\ paused = FALSE /\ checking = FALSE /\ ahead = {}

-----------------------------------------------------------------------------
(***************************************************************************)
(* The picker's blocks.                                                    *)
(***************************************************************************)

IsSeed(s) == ~s.picker \/ s.have = Pieces

State(s, b) == s.blk[b].state

IsDownloaded(s, b) == PieceOf(b) \in s.have \/ State(s, b) \in {"writing", "finished"}

\* The piece is in m_downloads.  (write_failed may leave an entry without a
\* block; it offers the blocks a piece without an entry does.)
Downloading(s, i) == \E b \in BlocksOf(i) : State(s, b) # "none"

\* Fault: a block still being written counts as finished.
AllSent(s, i) == \A b \in BlocksOf(i) : State(s, b) \in {"writing", "finished"}

\* is_piece_finished.
AllFinished(s, i) == \A b \in BlocksOf(i) : State(s, b) = "finished"

QueueOf(s, p) == [n \in DOMAIN s.dq[p] |-> s.dq[p][n].block] \o s.rq[p]

\* Fault: the number of peers goes down whatever the state of the block is.
AbortInAnyState(s, b) ==
  IF ~s.picker THEN [s EXCEPT !.dead = TRUE]
  ELSE IF State(s, b) = "requested" /\ s.blk[b].peers = 1 THEN SetBlock(s, b, Idle)
  ELSE SetBlock(s, b, [s.blk[b] EXCEPT !.peers = @ - 1])

\* abort_download.  The block stays with the other peers asked for it, and
\* info.peer stays as it was.
Abort(s, b) ==
  IF ~s.picker THEN [s EXCEPT !.dead = TRUE]
  ELSE IF State(s, b) # "requested" THEN s
  ELSE IF s.blk[b].peers > 1 THEN SetBlock(s, b, [s.blk[b] EXCEPT !.peers = @ - 1])
  ELSE SetBlock(s, b, Idle)

AbortAll(s, queue) == FoldLeft(Abort, s, queue)

\* mark_as_downloading.
MarkAsDownloading(s, b, p) ==
  IF State(s, b) \in {"writing", "finished"} THEN s
  ELSE SetBlock(s, b, [s.blk[b] EXCEPT !.state = "requested", !.peers = @ + 1, !.peer = p])

\* Fault: the peer asked last stays noted.
MarkKeepingPeer(s, b, p) ==
  SetBlock(s, b, [state |-> "writing", peers |-> 0, peer |-> s.blk[b].peer, from |-> p])

\* mark_as_writing: `from' is not in the code, it says whose bytes these are.
MarkAsWriting(s, b, p) ==
  SetBlock(s, b, [state |-> "writing", peers |-> 0, peer |-> p, from |-> p])

\* mark_as_finished.
MarkAsFinished(s, b, p) ==
  SetBlock(s, b, [s.blk[b] EXCEPT !.state = "finished", !.peer = p])

\* write_failed.
WriteFailed(s, b) ==
  IF ~Downloading(s, PieceOf(b)) THEN [s EXCEPT !.dead = TRUE]
  ELSE SetBlock(s, b, [s.blk[b] EXCEPT !.state = "none", !.peer = Nobody, !.from = Nobody])

\* erase_download_piece.
EraseDownload(s, i) == [s EXCEPT !.blk = [b \in Blocks |-> IF PieceOf(b) = i THEN Idle ELSE s.blk[b]]]

-----------------------------------------------------------------------------
(***************************************************************************)
(* Asking a peer for blocks.                                               *)
(***************************************************************************)

\* requested_from: nobody else has sent or been asked for a block of i, and
\* nobody else is being asked for one.
Exclusive(s, p, i) ==
  \A b \in BlocksOf(i) : State(s, b) # "none" => s.blk[b].peer = p

ExclusiveActive(s, p, i) ==
  \A b \in BlocksOf(i) : State(s, b) = "requested" => s.blk[b].peer \in {p, Nobody}

Free(s, p) ==
  {b \in Blocks : /\ PieceOf(b) \notin s.have /\ State(s, b) = "none"
                  /\ p \in s.parole => Exclusive(s, p, PieceOf(b))}

\* The sets of free blocks pick_pieces may choose for n requests.  A peer
\* that prefers whole pieces gets all that is free of the pieces it has to
\* itself, more than n if need be, and fills up from the others.
Picks(s, p, n) ==
  LET free  == Free(s, p)
      Of(W) == {b \in free : PieceOf(b) \in W}
      own   == {i \in Pieces : ExclusiveActive(s, p, i)}
      Fill(T, m) == {T \cup G : G \in kSubset(Min({m, Cardinality(free \ T)}), free \ T)}
  IN  IF p \notin WholePeers THEN Fill({}, n)
      ELSE IF Cardinality(Of(own)) < n
      THEN Fill(Of(own), n - Cardinality(Of(own)))
      ELSE {Of(W) : W \in {W \in SUBSET own :
                             /\ Cardinality(Of(W)) >= n
                             /\ \E i \in W : Cardinality(Of(W \ {i})) < n}}

\* The orders in which a set of blocks may be picked: piece by piece.
PickOrders(F) ==
  {q \in SetToSeqs(F) :
     \A m, n \in DOMAIN q : (m < n /\ PieceOf(q[m]) = PieceOf(q[n])) => q[m] < q[n]}

AddRequest(s, b, p) ==
  IF State(s, b) \in {"writing", "finished"} THEN s
  ELSE [MarkAsDownloading(s, b, p) EXCEPT !.rq[p] = Append(@, b)]

\* Fault: a block already asked of this peer may be asked of it again.
BusyAlsoOwn(s, p) ==
  {b \in Blocks : State(s, b) = "requested" /\ s.blk[b].peer # p}

\* The blocks to ask for twice when there are no others: what was last asked
\* of another peer.
Busy(s, p) ==
  {b \in Blocks : /\ State(s, b) = "requested" /\ s.blk[b].peer # p
                  /\ b \notin ToSet(QueueOf(s, p))}

\* request_a_block, with room for d requests: what s may become.  A peer that
\* chokes us and has allowed no piece is asked for nothing.
RequestABlock(s, p, d) ==
  LET n    == d - Len(s.dq[p]) - Len(s.rq[p])
      busy == IF p \in s.parole THEN {} ELSE Busy(s, p)
      After(q) == FoldLeft(LAMBDA t, b : AddRequest(t, b, p), s, q)
      Again(t) == {AddRequest(t, b, p) :
                     b \in {b \in busy : \A c \in busy : t.blk[b].peers <= t.blk[c].peers}}
  IN  IF IsSeed(s) \/ n <= 0 \/ p \in s.choked THEN {s}
      ELSE UNION {IF Cardinality(F) >= n \/ busy = {} THEN {After(q) : q \in PickOrders(F)}
                  ELSE UNION {Again(After(q)) : q \in PickOrders(F)}
                    : F \in Picks(s, p, n)}

\* send_block_requests, with room for d requests.
SendBlockRequests(s, p, d) ==
  LET Pending(b)  == [block |-> b, skipped |-> 0]
      Useless(b)  == IsSeed(s) \/ IsDownloaded(s, b)
      Sent(t, b)  == IF Len(t.dq) >= d THEN [t EXCEPT !.rq = Append(@, b)]
                     ELSE IF Useless(b) THEN t
                     ELSE [t EXCEPT !.dq = Append(@, Pending(b))]
      t == FoldLeft(Sent, [dq |-> s.dq[p], rq |-> <<>>], s.rq[p])
  IN  [s EXCEPT !.dq[p] = t.dq, !.rq[p] = t.rq]

\* The two, as most handlers end.
Ask(s, p) == {SendBlockRequests(t, p, s.desired[p]) : t \in RequestABlock(s, p, s.desired[p])}

-----------------------------------------------------------------------------
(***************************************************************************)
(* Peers come and go.                                                      *)
(***************************************************************************)

\* The writes of p's connection, without it.
Unattributed(queue, p) == [n \in DOMAIN queue |-> IF queue[n] = p THEN Nobody ELSE queue[n]]

\* peer_connection::disconnect and torrent::remove_peer.  The writes of the
\* connection go on, without a policy::peer.
Close(s, p) ==
  LET t == IF s.picker THEN AbortAll(s, QueueOf(s, p)) ELSE s
  IN  [t EXCEPT !.conn = @ \ {p}, !.choked = @ \cup {p}, !.rq[p] = <<>>, !.dq[p] = <<>>,
                !.snubbed = @ \ {p}, !.desired[p] = QueueSize,
                !.writes = [b \in Blocks |-> Unattributed(s.writes[b], p)]]

CloseAll(s, P) == FoldLeft(Close, s, SetToSeq(P \cap s.conn))

\* A new connection, by either side.
Connect(p) ==
  /\ p \notin conn \cup banned /\ ~paused /\ ~checking /\ ~dead
  /\ ~IsSeed(Now)
  /\ Become([Now EXCEPT !.conn = @ \cup {p}]) /\ UNCHANGED diskVars

\* The peer or a timeout ends the connection.
Disconnect(p) ==
  /\ p \in conn \cap Fickle /\ ~dead
  /\ Become(Close(Now, p))
  /\ UNCHANGED diskVars

\* incoming_unchoke.
Unchoke(p) ==
  /\ p \in conn \cap choked /\ ~dead
  /\ \E s \in Ask([Now EXCEPT !.choked = @ \ {p}], p) : Become(s)
  /\ UNCHANGED diskVars

\* What becomes of a request that p rejects: on parole it is kept.
Rejected(s, p, b) ==
  IF p \in s.parole THEN [s EXCEPT !.rq[p] = <<b>> \o @]
  ELSE IF IsSeed(s) THEN s
  ELSE Abort(s, b)

\* Fault: the picker is asked also when the torrent has none any more.
GiveBackToAnyPicker(s, p) ==
  IF p \in s.parole THEN s
  ELSE [AbortAll(s, s.rq[p]) EXCEPT !.rq[p] = <<>>]

\* The blocks not sent for yet go back to the picker.
GiveBackRequests(s, p) ==
  IF p \in s.parole THEN s
  ELSE [(IF IsSeed(s) THEN s ELSE AbortAll(s, s.rq[p])) EXCEPT !.rq[p] = <<>>]

\* incoming_choke.  Without the FAST extension a choke rejects every request
\* sent (bt_peer_connection::on_choke).
Choke(p) ==
  /\ p \in (conn \ choked) \cap Fickle /\ ~dead
  /\ LET s == GiveBackRequests([Now EXCEPT !.choked = @ \cup {p}], p)
         All == FoldLeft(LAMBDA t, e : Rejected(t, p, e.block), [s EXCEPT !.dq[p] = <<>>], s.dq[p])
     IN  Become(IF p \in FastPeers THEN s ELSE All)
  /\ UNCHANGED diskVars

\* incoming_reject_request.
RejectRequest(p, n) ==
  /\ p \in conn \cap FastPeers /\ n \in DOMAIN dq[p] /\ ~dead
  /\ LET s == Rejected([Now EXCEPT !.dq[p] = RemoveAt(@, n)], p, dq[p][n].block)
     IN  IF s.rq[p] = <<>> /\ Len(s.dq[p]) < 2
         THEN \E t \in Ask(s, p) : Become(t)
         ELSE Become(s)
  /\ UNCHANGED diskVars

-----------------------------------------------------------------------------
(***************************************************************************)
(* A block arrives.                                                        *)
(***************************************************************************)

\* cancel_request: only a block still requested is given back (or cancelled
\* with a message, which changes nothing here).
CancelRequest(s, b, p) ==
  IF State(s, b) # "requested" \/ b \notin ToSet(s.rq[p]) THEN s
  ELSE [Abort(s, b) EXCEPT !.rq[p] = RemoveFirst(@, b)]

\* cancel_block.
CancelBlock(s, b) == FoldLeft(LAMBDA t, p : CancelRequest(t, b, p), s, SetToSeq(s.conn))

\* The requests before the n-th, which is answered first, have been skipped;
\* one skipped more often than there are requests is taken for dropped.
Skip(s, p, n) ==
  LET Overtake(t, e) ==
        IF e.skipped + 1 > s.desired[p] THEN Abort(t, e.block)
        ELSE [t EXCEPT !.dq[p] = Append(@, [e EXCEPT !.skipped = @ + 1])]
      t == FoldLeft(Overtake, [s EXCEPT !.dq[p] = <<>>], SubSeq(s.dq[p], 1, n - 1))
  IN  [t EXCEPT !.dq[p] = @ \o SubSeq(s.dq[p], n + 1, Len(s.dq[p]))]

\* async_write.
AsyncWrite(s, b, p) == [s EXCEPT !.writes[b] = Append(@, p)]

\* The n-th write of b is done.
Written(s, b, n) == [s EXCEPT !.writes[b] = RemoveAt(@, n)]

\* Fault: the block is written again when another peer's copy comes.
AcceptAgain(s, p, b) ==
  CancelBlock(MarkAsWriting(AsyncWrite(s, b, p), b, p), b)

\* incoming_piece, from async_write on, unless another copy came before.
Accept(s, p, b) ==
  IF IsDownloaded(s, b) THEN s
  ELSE LET t == MarkAsWriting(AsyncWrite(s, b, p), b, p)
       IN  IF s.blk[b].peers > 1 THEN CancelBlock(t, b) ELSE t

\* incoming_piece, for a block in the download queue.  A block that comes in
\* time ends the snub.
Piece(p, n) ==
  /\ p \in conn /\ n \in DOMAIN dq[p] /\ ~IsSeed(Now) /\ ~dead
  /\ n = 1 \/ p \in Disorderly
  /\ LET b == dq[p][n].block
         s == Skip(Now, p, n)
         InTime(t) == [t EXCEPT !.snubbed = @ \ {p}]
     IN  \E t \in Ask(Accept(s, p, b), p) :
           \/ Become(t)
           \/ p \in snubbed /\ ~IsDownloaded(s, b) /\ Become(InTime(t))
  /\ UNCHANGED diskVars

\* incoming_piece, for a block that is not (any more) in the download queue.
UnwantedPiece(p) ==
  /\ p \in conn /\ ~IsSeed(Now) /\ ~dead
  /\ \E s \in Ask(Now, p) : Become(s)
  /\ UNCHANGED diskVars

\* The block whose request times out: the last not sent for, else the last
\* sent for if nothing else of its piece is free.
TimesOut(s, p) ==
  LET b == Last(QueueOf(s, p))
  IN  /\ p \notin s.parole /\ s.picker
      /\ \/ s.rq[p] # <<>>
         \/ PieceOf(b) \in s.have
         \/ \A c \in BlocksOf(PieceOf(b)) : State(s, c) # "none"

\* snub_peer.  The request is given back after another was made in its place.
SnubPeer(p) ==
  /\ p \in conn \cap Snubbable /\ dq[p] # <<>> /\ ~dead
  /\ LET slow == [Now EXCEPT !.snubbed = @ \cup {p}, !.desired[p] = 1]
         b    == Last(QueueOf(Now, p))
         s    == IF rq[p] # <<>> THEN [slow EXCEPT !.rq[p] = Front(@)]
                                 ELSE [slow EXCEPT !.dq[p] = Front(@)]
     IN  IF TimesOut(Now, p)
         THEN \E t \in RequestABlock(s, p, 2) : Become(SendBlockRequests(Abort(t, b), p, 1))
         ELSE Become(slow)
  /\ UNCHANGED diskVars

\* second_tick: m_desired_queue_size anew.
SecondTick(p) ==
  /\ p \in conn \ snubbed /\ desired[p] # QueueSize /\ ~dead
  /\ Become([Now EXCEPT !.desired[p] = QueueSize]) /\ UNCHANGED diskVars

-----------------------------------------------------------------------------
(***************************************************************************)
(* The answers of the disk thread.                                         *)
(***************************************************************************)

\* on_disk_write_complete, for the n-th write of b.
WriteComplete(b, n) ==
  /\ n \in DOMAIN writes[b] /\ ~dead
  /\ LET p == writes[b][n]
         s == Written(Now, b, n)
         t == MarkAsFinished(s, b, p)
     IN  IF IsSeed(s) THEN Become(s) /\ UNCHANGED hashes
         ELSE /\ \E u \in (IF p = Nobody THEN {t} ELSE Ask(t, p)) : Become(u)
              /\ hashes' = IF AllFinished(t, PieceOf(b)) THEN [hashes EXCEPT ![PieceOf(b)] = @ + 1]
                           ELSE hashes
  /\ UNCHANGED torrentVars

\* The write failed: the torrent gets an error and pauses.
WriteError(b, n) ==
  /\ n \in DOMAIN writes[b] /\ ~dead
  /\ LET s == Written(Now, b, n)
         t == IF s.picker THEN WriteFailed(s, b) ELSE s
     IN  Become(CloseAll(t, Peers))
  /\ paused' = TRUE
  /\ UNCHANGED <<hashes, banned, checking, ahead>>

\* Fault: restore_piece_state looks at the requests sent and no others.
RestoreSent(s, i) ==
  LET Again(t, p) == FoldLeft(LAMBDA u, e : IF PieceOf(e.block) = i THEN MarkAsDownloading(u, e.block, p)
                                            ELSE u, t, t.dq[p])
  IN  {FoldLeft(Again, EraseDownload(s, i), order) : order \in SetToSeqs(s.conn)}

\* restore_piece and restore_piece_state: the requests that were overtaken
\* are requests again.  Peers are visited in the order of their addresses.
Restore(s, i) ==
  LET Again(t, p) == FoldLeft(LAMBDA u, b : IF PieceOf(b) = i THEN MarkAsDownloading(u, b, p) ELSE u,
                              t, QueueOf(t, p))
  IN  {FoldLeft(Again, EraseDownload(s, i), order) : order \in SetToSeqs(s.conn)}

\* get_downloaders: who sent the blocks of piece i, as far as is known.
Downloaders(s, i) == {s.blk[b].peer : b \in BlocksOf(i)}

\* The verdict on piece i has come back, and S is what its handler makes of it;
\* get_downloaders and restore_piece follow find_if's result unchecked.
Verdict(i, S) ==
  /\ hashes[i] > 0 /\ ~dead
  /\ \E t \in IF picker /\ Downloading(Now, i) THEN S ELSE {[Now EXCEPT !.dead = TRUE]} :
       Become(t)
  /\ hashes' = [hashes EXCEPT ![i] = @ - 1]
  /\ ahead' = ahead \ {i}
  /\ UNCHANGED checking

\* finished() and completed(): the picker goes before the seeds do.
Finished(s) == IF s.have = Pieces THEN CloseAll([s EXCEPT !.picker = FALSE], Seeds) ELSE s

\* piece_passed: we_have; every interesting peer is asked for more, once
\* before those who sent the piece come off parole and once after.
PiecePassed(i) ==
  LET s == [EraseDownload(Now, i) EXCEPT !.have = @ \cup {i}]
      Trusted(t)   == [t EXCEPT !.parole = @ \ Downloaders(Now, i)]
      AskEach(S, p) == UNION {Ask(t, p) : t \in S}
      AskAll(S, order) == FoldLeft(AskEach, S, order)
  IN  /\ Verdict(i, UNION {{Finished(u) : u \in AskAll({Trusted(t) : t \in AskAll({s}, order)}, order)}
                            : order \in SetToSeqs(conn)})
      /\ UNCHANGED <<banned, paused>>

\* piece_failed: those who sent the piece go on parole; whoever sent all of
\* it, or has used up its trust, is banned.
PieceFailed(i) ==
  LET from == Downloaders(Now, i)
      s    == [Now EXCEPT !.parole = @ \cup (from \cap conn)]
  IN  \E B \in SUBSET (from \ {Nobody}) :
        /\ Cardinality(from) = 1 => B = from \ {Nobody}
        /\ banned' = banned \cup B
        /\ Verdict(i, Restore(CloseAll(s, B), i))
        /\ UNCHANGED paused

\* piece_failed, when BP2P knows the piece for a chunk of its own that it
\* cannot use: TorrentPlugin restores it and nobody is to blame.
PieceWithheld(i) == Verdict(i, Restore(Now, i)) /\ UNCHANGED <<banned, paused>>

\* The piece could not be read: the torrent pauses, the piece is restored.
HashError(i) ==
  /\ Verdict(i, Restore(CloseAll(Now, Peers), i))
  /\ paused' = TRUE /\ UNCHANGED banned

-----------------------------------------------------------------------------
(***************************************************************************)
(* The user.                                                               *)
(***************************************************************************)

Pause ==
  /\ ~paused /\ ~dead
  /\ paused' = TRUE
  /\ Become(CloseAll(Now, Peers))
  /\ UNCHANGED <<hashes, banned, checking, ahead>>

Resume ==
  /\ paused /\ ~dead
  /\ paused' = FALSE
  /\ Become(Now) /\ UNCHANGED <<hashes, banned, checking, ahead>>

\* force_recheck: a picker that knows nothing, and a check at the end of the
\* disk thread's queue.
ForceRecheck ==
  /\ ~checking /\ ~dead
  /\ checking' = TRUE
  /\ ahead' = {i \in Pieces : hashes[i] > 0}
  /\ Become([CloseAll(Now, Peers) EXCEPT !.picker = TRUE, !.have = {},
                                         !.blk = [b \in Blocks |-> Idle]])
  /\ UNCHANGED <<hashes, banned, paused>>

\* The check comes after the jobs queued before it, and finds some pieces
\* (on_force_recheck, on_piece_checked, files_checked).
FilesChecked ==
  /\ checking /\ ahead = {} /\ ~dead
  /\ \A b \in Blocks : writes[b] = <<>>
  /\ checking' = FALSE
  /\ \E H \in SUBSET Pieces :
       Become(Finished(FoldLeft(EraseDownload, [Now EXCEPT !.have = @ \cup H], SetToSeq(H))))
  /\ UNCHANGED <<hashes, banned, paused, ahead>>

-----------------------------------------------------------------------------

PeersAct ==
  \/ \E p \in Peers : \/ Connect(p) \/ Disconnect(p) \/ Unchoke(p) \/ Choke(p)
                      \/ UnwantedPiece(p) \/ SnubPeer(p) \/ SecondTick(p)
  \/ \E p \in Peers : \E n \in DOMAIN dq[p] : RejectRequest(p, n) \/ Piece(p, n)

DiskAnswers ==
  \/ \E b \in Blocks : \E n \in DOMAIN writes[b] : WriteComplete(b, n)
  \/ \E i \in Pieces : PiecePassed(i) \/ PieceFailed(i) \/ PieceWithheld(i)

DiskFails ==
  \/ \E b \in Blocks : \E n \in DOMAIN writes[b] : WriteError(b, n)
  \/ \E i \in Pieces : HashError(i)

\* Nobody forces a recheck.
Next == PeersAct \/ DiskAnswers \/ DiskFails \/ Pause \/ Resume

Spec == Init /\ [][Next]_vars

\* The disk is sound, and a recheck may be forced.
SpecRecheck == Init /\ [][PeersAct \/ DiskAnswers \/ ForceRecheck \/ FilesChecked]_vars

-----------------------------------------------------------------------------
(***************************************************************************)
(* Properties.  The operators marked `Fault' are not part of Spec: each is *)
(* a slip in the code that one of these properties notices.                *)
(***************************************************************************)

BlockStates == {"none", "requested", "writing", "finished"}

\* The state is well-formed; no counter of peers or of hashes wraps below 0.
TypeOK ==
  /\ blk \in [Blocks -> [state : BlockStates, peers : Nat,
                         peer : Peers \cup {Nobody}, from : Peers \cup {Nobody}]]
  /\ have \subseteq Pieces /\ conn \subseteq Peers
  /\ choked \subseteq Peers /\ parole \subseteq Peers /\ snubbed \subseteq Peers
  /\ rq \in [Peers -> Seq(Blocks)]
  /\ writes \in [Blocks -> Seq(Peers \cup {Nobody})]
  /\ hashes \in [Pieces -> Nat]

\* No block is twice in the queues of one peer (asserted by add_request,
\* peer_connection.cpp:2153-2156), although blocks come to them from the
\* free ones, from the busy ones and, after a reject on parole, from the
\* peer's own queue.
QueuesDistinct == \A p \in Peers : IsInjective(QueueOf(Now, p))

RequestsOf(b) == Cardinality({p \in conn : b \in ToSet(QueueOf(Now, p))})

\* num_peers is the number of connections that have the block in a queue, as
\* check_invariant wants it (peer_connection.cpp:3948-3971), and a block is
\* requested exactly when it is not 0.  One too few and the block is asked of
\* somebody else, or freed, while it is under way; one too many and it is
\* never free again.  This has to survive chokes, rejects, skipped requests,
\* snubs, disconnects, and above all a failed hash: then the requests that
\* a faster copy had overtaken count again.
RequestsExact ==
  picker => \A b \in Blocks :
    ~IsDownloaded(Now, b) => /\ blk[b].peers = RequestsOf(b)
                             /\ (blk[b].peers > 0) = (State(Now, b) = "requested")

\* A block is with the disk thread once while it is marked as writing, and
\* else not at all.  The other peers asked for it are not told: incoming_piece
\* marks the block before it calls cancel_block, and cancel_request returns
\* when the block is not requested any more (2206).  So their copies come,
\* and must be dropped; also after a write error or a failed hash.
OneWrite ==
  \A b \in Blocks : Len(writes[b]) = IF State(Now, b) = "writing" THEN 1 ELSE 0

\* A hash of a piece is under way exactly while all its blocks are finished.
\* With two of them piece_passed would run twice, and the second time the
\* piece has left m_downloads; with none the piece would never be verified.
OneHash ==
  \A i \in Pieces :
    hashes[i] = IF \A b \in BlocksOf(i) : State(Now, b) = "finished" THEN 1 ELSE 0

\* The peer noted for a block that came is the one that sent it, or nobody
\* when that connection has gone.  piece_failed puts whom it finds there on
\* parole or bans them, so a note by one of the other peers that were asked
\* for the block would have the innocent banned.
BlameExact ==
  \A b \in Blocks : State(Now, b) \in {"writing", "finished"} =>
                      blk[b].peer \in {blk[b].from, Nobody}

\* No handler uses the picker after the torrent has let go of it, or looks in
\* m_downloads for a piece that is not there (asserted in piece_picker.cpp:792,
\* 2068 and 2149).  completed() drops the picker before the seeds, which have
\* requests, are disconnected, and the others are still to choke us.  It does
\* not hold with force_recheck, which empties the picker while the verdict on
\* a piece is under way.
NeverDies == ~dead
=============================================================================

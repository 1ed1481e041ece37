----------------------- MODULE DownloadPipelineProofs -----------------------
(***************************************************************************)
(* Proofs about DownloadPipeline, for any peers and any torrent: a block is *)
(* with the disk thread once while it is marked as writing and else not at  *)
(* all, a hash of a piece is under way exactly while all its blocks are     *)
(* finished, whom a block is blamed on sent it, and no handler uses a       *)
(* picker that is gone or a piece that is not in m_downloads.               *)
(*                                                                         *)
(* The handlers thread the record of the state through many calls, so the   *)
(* proof is about records.  Sound is the set of the good ones.  Most calls  *)
(* are `quiet': they move requests about, but no block enters or leaves     *)
(* the states writing and finished, no piece is had or lost, and writes     *)
(* lose at most their sender.  Near(s) holds what s may become by quiet     *)
(* calls; a record near a sound one is sound (QuietKeepsSound), so that all *)
(* there is to prove of a call, or of a fold of calls, is that it is quiet. *)
(* Only a few calls are not: they have lemmas of their own.                 *)
(***************************************************************************)
EXTENDS DownloadPipeline, ProofFacts

Writers == Peers \cup {Nobody}
Infos   == [state : BlockStates, peers : Nat, peer : Writers, from : Writers]
Pending == [block : Blocks, skipped : Nat]

\* The type of the record.
Shapes == [blk : [Blocks -> Infos], have : SUBSET Pieces, picker : BOOLEAN,
           conn : SUBSET Peers, choked : SUBSET Peers, parole : SUBSET Peers,
           rq : [Peers -> Seq(Blocks)], dq : [Peers -> Seq(Pending)],
           writes : [Blocks -> Seq(Writers)], dead : BOOLEAN,
           snubbed : SUBSET Peers, desired : [Peers -> Nat]]

\* A piece that we have has left m_downloads.
NoBlocksOfHave(s) == \A b \in Blocks : PieceOf(b) \in s.have => State(s, b) = "none"
\* The picker is let go of only when every piece is there.
PickerUntilDone(s) == ~s.picker => s.have = Pieces
\* OneWrite, of a record.
WrittenOnce(s) == \A b \in Blocks : Len(s.writes[b]) = IF State(s, b) = "writing" THEN 1 ELSE 0
\* BlameExact, of a record.
SenderNoted(s) == \A b \in Blocks : State(s, b) \in {"writing", "finished"} =>
                                      s.blk[b].peer \in {s.blk[b].from, Nobody}
\* BlameExact rests on it: a write is noted for the sender of the block, as
\* long as its connection lasts.
WriterNoted(s) == \A b \in Blocks : State(s, b) = "writing" =>
                                      s.writes[b][1] \in {s.blk[b].from, Nobody}

\* The good records.
Sound == {s \in Shapes : /\ NoBlocksOfHave(s) /\ PickerUntilDone(s) /\ WrittenOnce(s)
                         /\ SenderNoted(s) /\ WriterNoted(s) /\ ~s.dead}

\* Block b is there to be asked for.
Loose(s, b) == PieceOf(b) \notin s.have /\ State(s, b) \in {"none", "requested"}

\* Between s and t there were only quiet calls.
Quiet(s, t) ==
  /\ t.have = s.have /\ t.picker = s.picker /\ t.dead = s.dead
  /\ \A b \in Blocks : t.blk[b] = s.blk[b] \/ (Loose(s, b) /\ Loose(t, b))
  /\ \A b \in Blocks : /\ Len(t.writes[b]) = Len(s.writes[b])
                       /\ \A n \in DOMAIN s.writes[b] : t.writes[b][n] \in {s.writes[b][n], Nobody}

\* What s may become by quiet calls.
Near(s) == {t \in Shapes : Quiet(s, t)}

-----------------------------------------------------------------------------
(***************************************************************************)
(* Pieces, and records near each other.                                     *)
(***************************************************************************)

\* Every block is of a piece of the torrent,
LEMMA PieceOfBlock ==
  ASSUME NEW b \in Blocks
  PROVE  PieceOf(b) \in Pieces
BY PipelineAssumption DEF Blocks, PieceOf, Pieces

\* and every piece has a block.
LEMMA PieceHasBlock ==
  ASSUME NEW i \in Pieces
  PROVE  \E b \in Blocks : PieceOf(b) = i
<1> DEFINE b == i * BlocksPerPiece
<1>1. b \in Blocks /\ PieceOf(b) = i
  BY PipelineAssumption DEF Blocks, PieceOf, Pieces
<1> QED BY <1>1

\* Two quiet calls are quiet.
LEMMA QuietIsTransitive ==
  ASSUME NEW s \in Shapes, NEW t \in Near(s)
  PROVE  Near(t) \subseteq Near(s)
<1> SUFFICES ASSUME NEW u \in Near(t) PROVE Quiet(s, u)
  BY DEF Near
<1>1. Quiet(s, t) /\ Quiet(t, u) /\ t \in Shapes /\ u \in Shapes
  BY DEF Near
<1>2. u.have = s.have /\ u.picker = s.picker /\ u.dead = s.dead
  BY <1>1 DEF Quiet
<1>3. ASSUME NEW b \in Blocks PROVE u.blk[b] = s.blk[b] \/ (Loose(s, b) /\ Loose(u, b))
  <2>1. t.blk[b] = s.blk[b] \/ (Loose(s, b) /\ Loose(t, b))
    BY <1>1 DEF Quiet
  <2>2. u.blk[b] = t.blk[b] \/ (Loose(t, b) /\ Loose(u, b))
    BY <1>1 DEF Quiet
  <2> QED BY <1>1, <1>2, <2>1, <2>2 DEF Loose, State, Quiet
<1>4. ASSUME NEW b \in Blocks
      PROVE /\ Len(u.writes[b]) = Len(s.writes[b])
            /\ \A n \in DOMAIN s.writes[b] : u.writes[b][n] \in {s.writes[b][n], Nobody}
  <2>1. /\ Len(t.writes[b]) = Len(s.writes[b]) /\ Len(u.writes[b]) = Len(t.writes[b])
        /\ s.writes[b] \in Seq(Writers) /\ t.writes[b] \in Seq(Writers)
    BY <1>1 DEF Quiet, Shapes
  <2>2. DOMAIN s.writes[b] = DOMAIN t.writes[b]
    BY <2>1
  <2> QED BY <1>1, <2>1, <2>2 DEF Quiet
<1> QED BY <1>2, <1>3, <1>4 DEF Quiet

\* To call nothing is quiet.
LEMMA QuietIsReflexive ==
  ASSUME NEW s \in Shapes
  PROVE  s \in Near(s)
BY DEF Near, Quiet, Shapes

\* What quiet calls make of a sound record is sound.
LEMMA QuietKeepsSound ==
  ASSUME NEW s \in Sound, NEW t \in Near(s)
  PROVE  t \in Sound
<1>1. s \in Shapes /\ t \in Shapes /\ Quiet(s, t)
  BY DEF Sound, Near
<1>2. NoBlocksOfHave(t) /\ PickerUntilDone(t) /\ ~t.dead
  BY <1>1 DEF Sound, Quiet, NoBlocksOfHave, PickerUntilDone, Loose, State
<1>3. ASSUME NEW b \in Blocks
      PROVE /\ Len(t.writes[b]) = IF State(t, b) = "writing" THEN 1 ELSE 0
            /\ State(t, b) \in {"writing", "finished"} => t.blk[b].peer \in {t.blk[b].from, Nobody}
            /\ State(t, b) = "writing" => t.writes[b][1] \in {t.blk[b].from, Nobody}
  <2>1. /\ Len(s.writes[b]) = IF State(s, b) = "writing" THEN 1 ELSE 0
        /\ State(s, b) \in {"writing", "finished"} => s.blk[b].peer \in {s.blk[b].from, Nobody}
        /\ State(s, b) = "writing" => s.writes[b][1] \in {s.blk[b].from, Nobody}
        /\ s.writes[b] \in Seq(Writers)
    BY <1>1 DEF Sound, WrittenOnce, SenderNoted, WriterNoted, Shapes
  <2>2. /\ t.blk[b] = s.blk[b] \/ (Loose(s, b) /\ Loose(t, b))
        /\ Len(t.writes[b]) = Len(s.writes[b])
        /\ \A n \in DOMAIN s.writes[b] : t.writes[b][n] \in {s.writes[b][n], Nobody}
    BY <1>1 DEF Quiet
  <2>3. State(s, b) = "writing" => 1 \in DOMAIN s.writes[b]
    BY <2>1
  <2> QED BY <2>1, <2>2, <2>3 DEF Loose, State
<1> QED BY <1>1, <1>2, <1>3 DEF Sound, WrittenOnce, SenderNoted, WriterNoted

\* The two together, as the folds need them.
LEMMA QuietFrom ==
  ASSUME NEW s \in Sound, NEW t \in Near(s), NEW u \in Near(t)
  PROVE  t \in Sound /\ u \in Near(s)
BY QuietKeepsSound, QuietIsTransitive DEF Sound

-----------------------------------------------------------------------------
(***************************************************************************)
(* The calls of the picker and of request_a_block are quiet.                *)
(***************************************************************************)

\* A block that may be asked for may become requested or free.
LEMMA LooseBlock ==
  ASSUME NEW s \in Sound, NEW b \in Blocks, NEW info \in Infos,
         Loose(s, b), info.state \in {"none", "requested"}
  PROVE  SetBlock(s, b, info) \in Near(s)
<1>1. s \in Shapes
  BY DEF Sound
<1> DEFINE t == SetBlock(s, b, info)
<1>2. t \in Shapes
  BY <1>1 DEF Shapes, SetBlock
<1>3. /\ t.have = s.have /\ t.picker = s.picker /\ t.dead = s.dead /\ t.writes = s.writes
      /\ \A c \in Blocks : t.blk[c] = IF c = b THEN info ELSE s.blk[c]
  BY <1>1 DEF Shapes, SetBlock
<1> HIDE DEF t
<1>4. \A c \in Blocks : t.blk[c] = s.blk[c] \/ (Loose(s, c) /\ Loose(t, c))
  BY <1>3 DEF Loose, State
<1>5. \A c \in Blocks : /\ Len(t.writes[c]) = Len(s.writes[c])
                       /\ \A n \in DOMAIN s.writes[c] : t.writes[c][n] \in {s.writes[c][n], Nobody}
  BY <1>3
<1> QED BY <1>2, <1>3, <1>4, <1>5, Zenon DEF Near, Quiet, t

\* abort_download gives a request back and touches no other block.
LEMMA AbortQuiet ==
  ASSUME NEW s \in Sound, s.picker, NEW b \in Blocks
  PROVE  Abort(s, b) \in Near(s)
<1>1. s \in Shapes /\ s.blk[b] \in Infos
  BY DEF Sound, Shapes
<1>2. CASE State(s, b) # "requested"
  BY <1>1, <1>2, QuietIsReflexive DEF Abort
<1>3. CASE State(s, b) = "requested"
  <2>1. Loose(s, b)
    BY <1>3 DEF Sound, NoBlocksOfHave, Loose
  <2>2. Idle \in Infos /\ Idle.state = "none"
    BY DEF Idle, Infos, BlockStates, Writers
  <2>3. CASE s.blk[b].peers > 1
    <3> DEFINE info == [s.blk[b] EXCEPT !.peers = @ - 1]
    <3>1. info \in Infos /\ info.state = "requested"
      BY <1>1, <1>3, <2>3 DEF Infos, State
    <3> QED BY <1>3, <2>1, <2>3, <3>1, LooseBlock DEF Abort
  <2>4. CASE ~ (s.blk[b].peers > 1)
    BY <1>3, <2>1, <2>2, <2>4, LooseBlock DEF Abort
  <2> QED BY <2>3, <2>4
<1> QED BY <1>2, <1>3

\* So does a loop of them.
LEMMA AbortAllRuns ==
  ASSUME NEW s \in Sound, s.picker, NEW q \in Seq(Blocks)
  PROVE  \E r \in [0..Len(q) -> Near(s)] :
           /\ r[0] = s /\ r[Len(q)] = AbortAll(s, q)
           /\ \A k \in 1..Len(q) : r[k] = Abort(r[k-1], q[k])
<1> DEFINE n == Len(q)
           C == Near(s)
           F == [x \in C \X (1..n) |-> Abort(x[1], q[x[2]])]
           H(h) == h = [x \in SUBSET (DOMAIN q) |->
                          IF x = {} THEN s ELSE Abort(h[x \ {Max(x)}], q[Max(x)])]
           h == CHOOSE h : H(h)
<1>1. n \in Nat /\ DOMAIN q = 1..n /\ s \in C /\ \A k \in 1..n : q[k] \in Blocks
  BY QuietIsReflexive, LenProperties, ElementOfSeq DEF Sound
<1>2. ASSUME NEW t \in C, NEW k \in 1..n PROVE Abort(t, q[k]) \in C
  <2>1. t \in Sound /\ t.picker
    BY QuietKeepsSound DEF Near, Quiet
  <2> QED BY <1>1, <2>1, AbortQuiet, QuietFrom
<1>3. AbortAll(s, q) = h[DOMAIN q]
  BY DEF AbortAll, FoldLeft, MapThenFoldSet
<1>4. F \in [C \X (1..n) -> C]
  BY <1>2
<1> HIDE DEF n, C
<1>5. PICK g : FoldGraph(g, s, C, n, F)
  <2> HIDE DEF F
  <2> QED BY <1>1, <1>4, FoldGraphExists
<1>6. H(g)
  BY <1>1, <1>5, Zenon DEF FoldGraph
<1>7. H(h)
  <2> HIDE DEF H
  <2> QED BY <1>6
<1> HIDE DEF h
<1>8. PICK r \in [0..n -> C] : Follows(r, h, n)
  <2>1. ASSUME NEW x \in SUBSET (1..n), x # {}, Max(x) \in 1..n, h[x \ {Max(x)}] \in C
        PROVE  h[x] \in C
    BY <1>1, <1>2, <1>7, <2>1
  <2>2. h[{}] \in C
    BY <1>1, <1>7
  <2> QED BY <1>1, <2>1, <2>2, FoldTrace
<1>9. ASSUME NEW k \in 1..n PROVE r[k] = Abort(r[k-1], q[k])
  <2>1. PICK x \in SUBSET (1..n) : x # {} /\ Max(x) = k /\ r[k] = h[x] /\ r[k-1] = h[x \ {Max(x)}]
    BY <1>8 DEF Follows
  <2>2. h[x] = Abort(h[x \ {Max(x)}], q[Max(x)])
    BY <1>1, <1>7, <2>1
  <2> QED BY <2>1, <2>2
<1>10. r[0] = s /\ r[n] = h[DOMAIN q]
  BY <1>1, <1>7, <1>8 DEF Follows
<1> QED BY <1>3, <1>8, <1>9, <1>10 DEF C, n

\* So the loop is quiet.
LEMMA AbortAllQuiet ==
  ASSUME NEW s \in Sound, s.picker, NEW q \in Seq(Blocks)
  PROVE  AbortAll(s, q) \in Near(s)
<1>1. Len(q) \in 0..Len(q)
  BY LenProperties
<1> QED BY <1>1, AbortAllRuns

\* A call that changes only queues and flags of connections is quiet.
LEMMA Aside ==
  ASSUME NEW s \in Sound, NEW t \in Shapes,
         t.blk = s.blk, t.have = s.have, t.picker = s.picker, t.dead = s.dead,
         t.writes = s.writes
  PROVE  t \in Near(s) /\ t \in Sound
<1>1. s \in Shapes /\ s \in Near(s)
  BY QuietIsReflexive DEF Sound
<1>2. t \in Near(s)
  BY <1>1 DEF Near, Quiet, Loose, State
<1> QED BY <1>2, QuietKeepsSound

\* The type of a block that was asked for.
LEMMA RequestedInfo ==
  ASSUME NEW i \in Infos, NEW p \in Writers
  PROVE  LET j == [i EXCEPT !.state = "requested", !.peers = @ + 1, !.peer = p]
         IN  j \in Infos /\ j.state = "requested"
<1> DEFINE j == [i EXCEPT !.state = "requested"]
           k == [j EXCEPT !.peers = i.peers + 1]
           l == [k EXCEPT !.peer = p]
<1>1. j \in Infos /\ j.state = "requested"
  BY DEF Infos, BlockStates
<1> HIDE DEF j
<1>2. k \in Infos /\ k.state = "requested"
  BY <1>1 DEF Infos
<1> HIDE DEF k
<1>3. l \in Infos /\ l.state = "requested"
  BY <1>2 DEF Infos
<1>4. l = [i EXCEPT !.state = "requested", !.peers = @ + 1, !.peer = p]
  BY DEF j, k
<1> QED BY <1>3, <1>4

\* mark_as_downloading, for a block of a piece that we do not have.
LEMMA MarkQuiet ==
  ASSUME NEW s \in Sound, NEW b \in Blocks, PieceOf(b) \notin s.have, NEW p \in Peers
  PROVE  MarkAsDownloading(s, b, p) \in Near(s)
<1>1. s \in Shapes /\ s.blk[b] \in Infos /\ State(s, b) = s.blk[b].state
  BY DEF Sound, Shapes, State
<1>2. CASE State(s, b) \in {"writing", "finished"}
  BY <1>1, <1>2, QuietIsReflexive DEF MarkAsDownloading
<1>3. CASE State(s, b) \notin {"writing", "finished"}
  <2> DEFINE info == [s.blk[b] EXCEPT !.state = "requested", !.peers = @ + 1, !.peer = p]
  <2>1. info \in Infos /\ info.state = "requested"
    <3>1. p \in Writers
      BY DEF Writers
    <3> QED BY <1>1, <3>1, RequestedInfo, Zenon
  <2>2. Loose(s, b)
    BY <1>1, <1>3 DEF Loose, Infos, BlockStates
  <2> QED BY <1>3, <2>1, <2>2, LooseBlock DEF MarkAsDownloading
<1> QED BY <1>2, <1>3

\* add_request.
LEMMA AddRequestQuiet ==
  ASSUME NEW s \in Sound, NEW b \in Blocks, PieceOf(b) \notin s.have, NEW p \in Peers
  PROVE  AddRequest(s, b, p) \in Near(s)
<1>1. s \in Shapes
  BY DEF Sound
<1> DEFINE t == MarkAsDownloading(s, b, p)
           u == [t EXCEPT !.rq[p] = Append(@, b)]
<1>2. t \in Near(s) /\ t \in Sound /\ t \in Shapes
  BY MarkQuiet, QuietKeepsSound DEF Sound
<1> HIDE DEF t
<1>3. Append(t.rq[p], b) \in Seq(Blocks)
  BY <1>2 DEF Shapes
<1>4. u \in Shapes /\ u.blk = t.blk /\ u.have = t.have /\ u.picker = t.picker
      /\ u.dead = t.dead /\ u.writes = t.writes
  BY <1>2, <1>3 DEF Shapes
<1> HIDE DEF u
<1>5. u \in Near(s)
  BY <1>2, <1>4, Aside, QuietFrom
<1> QED BY <1>1, <1>5, QuietIsReflexive DEF AddRequest, t, u

\* What both queues of a peer hold.
LEMMA QueueIsBlocks ==
  ASSUME NEW s \in Shapes, NEW p \in Peers
  PROVE  QueueOf(s, p) \in Seq(Blocks)
<1> DEFINE q == s.dq[p]
           f == [n \in DOMAIN q |-> q[n].block]
<1>1. q \in Seq(Pending) /\ s.rq[p] \in Seq(Blocks)
  BY DEF Shapes
<1>2. Len(q) \in Nat /\ DOMAIN q = 1..Len(q) /\ \A n \in 1..Len(q) : q[n] \in Pending
  BY <1>1, LenProperties, ElementOfSeq
<1>3. f \in [1..Len(q) -> Blocks]
  BY <1>2 DEF Pending
<1>4. f \in Seq(Blocks)
  BY <1>2, <1>3
<1> HIDE DEF f
<1>5. f \o s.rq[p] \in Seq(Blocks)
  BY <1>1, <1>4
<1> QED BY <1>5 DEF QueueOf, f

\* The loop over the picked blocks.
AddAll(s, p, q) == FoldLeft(LAMBDA t, b : AddRequest(t, b, p), s, q)

\* A loop of add_request.
LEMMA AddAllRuns ==
  ASSUME NEW s \in Sound, NEW p \in Peers, NEW q \in Seq(Blocks),
         \A k \in DOMAIN q : PieceOf(q[k]) \notin s.have
  PROVE  \E r \in [0..Len(q) -> Near(s)] :
           /\ r[0] = s /\ r[Len(q)] = AddAll(s, p, q)
           /\ \A k \in 1..Len(q) : r[k] = AddRequest(r[k-1], q[k], p)
<1> DEFINE n == Len(q)
           C == Near(s)
           F == [x \in C \X (1..n) |-> AddRequest(x[1], q[x[2]], p)]
           H(h) == h = [x \in SUBSET (DOMAIN q) |->
                          IF x = {} THEN s ELSE AddRequest(h[x \ {Max(x)}], q[Max(x)], p)]
           h == CHOOSE h : H(h)
<1>1. n \in Nat /\ DOMAIN q = 1..n /\ s \in C /\ \A k \in 1..n : q[k] \in Blocks
  BY QuietIsReflexive, LenProperties, ElementOfSeq DEF Sound
<1>2. ASSUME NEW t \in C, NEW k \in 1..n PROVE AddRequest(t, q[k], p) \in C
  <2>1. t \in Sound /\ t.have = s.have
    BY QuietKeepsSound DEF Near, Quiet
  <2> QED BY <1>1, <2>1, AddRequestQuiet, QuietFrom
<1>3. AddAll(s, p, q) = h[DOMAIN q]
  BY DEF AddAll, FoldLeft, MapThenFoldSet
<1>4. F \in [C \X (1..n) -> C]
  BY <1>2
<1> HIDE DEF n, C
<1>5. PICK g : FoldGraph(g, s, C, n, F)
  <2> HIDE DEF F
  <2> QED BY <1>1, <1>4, FoldGraphExists
<1>6. H(g)
  BY <1>1, <1>5, Zenon DEF FoldGraph
<1>7. H(h)
  <2> HIDE DEF H
  <2> QED BY <1>6
<1> HIDE DEF h
<1>8. PICK r \in [0..n -> C] : Follows(r, h, n)
  <2>1. ASSUME NEW x \in SUBSET (1..n), x # {}, Max(x) \in 1..n, h[x \ {Max(x)}] \in C
        PROVE  h[x] \in C
    BY <1>1, <1>2, <1>7, <2>1
  <2>2. h[{}] \in C
    BY <1>1, <1>7
  <2> QED BY <1>1, <2>1, <2>2, FoldTrace
<1>9. ASSUME NEW k \in 1..n PROVE r[k] = AddRequest(r[k-1], q[k], p)
  <2>1. PICK x \in SUBSET (1..n) : x # {} /\ Max(x) = k /\ r[k] = h[x] /\ r[k-1] = h[x \ {Max(x)}]
    BY <1>8 DEF Follows
  <2>2. h[x] = AddRequest(h[x \ {Max(x)}], q[Max(x)], p)
    BY <1>1, <1>7, <2>1
  <2> QED BY <2>1, <2>2
<1>10. r[0] = s /\ r[n] = h[DOMAIN q]
  BY <1>1, <1>7, <1>8 DEF Follows
<1> QED BY <1>3, <1>8, <1>9, <1>10 DEF C, n

\* So the loop is quiet.
LEMMA AddAllQuiet ==
  ASSUME NEW s \in Sound, NEW p \in Peers, NEW q \in Seq(Blocks),
         \A k \in DOMAIN q : PieceOf(q[k]) \notin s.have
  PROVE  FoldLeft(LAMBDA t, b : AddRequest(t, b, p), s, q) \in Near(s)
<1>1. Len(q) \in 0..Len(q)
  BY LenProperties
<1>2. PICK r \in [0..Len(q) -> Near(s)] : r[Len(q)] = AddAll(s, p, q)
  BY AddAllRuns
<1>3. AddAll(s, p, q) \in Near(s)
  BY <1>1, <1>2
<1> QED BY <1>3 DEF AddAll

\* pick_pieces picks free blocks.
LEMMA PicksAreFree ==
  ASSUME NEW s, NEW p, NEW n, NEW F \in Picks(s, p, n)
  PROVE  F \subseteq Free(s, p)
<1> DEFINE free == Free(s, p)
           Of(W) == {b \in free : PieceOf(b) \in W}
           own   == {i \in Pieces : ExclusiveActive(s, p, i)}
           Fill(T, m) == {T \cup G : G \in kSubset(Min({m, Cardinality(free \ T)}), free \ T)}
           Whole == {Of(W) : W \in {W \in SUBSET own :
                             /\ Cardinality(Of(W)) >= n
                             /\ \E i \in W : Cardinality(Of(W \ {i})) < n}}
<1>1. \A W : Of(W) \subseteq free
  OBVIOUS
<1> HIDE DEF free, own
<1>2. \A T, m : T \subseteq free => \A G \in Fill(T, m) : G \subseteq free
  BY DEF kSubset
<1>3. \A G \in Whole : G \subseteq free
  BY <1>1
<1>4. F \in Fill({}, n) \/ F \in Fill(Of(own), n - Cardinality(Of(own))) \/ F \in Whole
  BY Zenon DEF Picks, free, own
<1> HIDE DEF Fill, Whole, Of
<1> QED BY <1>1, <1>2, <1>3, <1>4 DEF free

\* There are finitely many blocks.
LEMMA FiniteBlocks ==
  ASSUME NEW F \in SUBSET Blocks
  PROVE  IsFiniteSet(F) /\ Cardinality(F) \in Nat
<1>1. 0 \in Int /\ NumBlocks - 1 \in Int
  BY PipelineAssumption
<1>2. IsFiniteSet(Blocks)
  BY <1>1, FS_Interval DEF Blocks
<1>3. IsFiniteSet(F)
  BY <1>2, FS_Subset
<1> QED BY <1>3, FS_CardinalityType

\* request_a_block.
LEMMA RequestQuiet ==
  ASSUME NEW s \in Sound, NEW p \in Peers, NEW d \in Int, NEW u \in RequestABlock(s, p, d)
  PROVE  u \in Near(s)
<1> DEFINE n    == d - Len(s.dq[p]) - Len(s.rq[p])
           busy == IF p \in s.parole THEN {} ELSE Busy(s, p)
           Asked(q) == FoldLeft(LAMBDA t, b : AddRequest(t, b, p), s, q)
           Again(t) == {AddRequest(t, b, p) :
                          b \in {b \in busy : \A c \in busy : t.blk[b].peers <= t.blk[c].peers}}
<1>1. ASSUME NEW F \in Picks(s, p, n), NEW q \in PickOrders(F) PROVE Asked(q) \in Near(s)
  <2> HIDE DEF n
  <2>1. F \subseteq Free(s, p) /\ F \in SUBSET Blocks
    BY PicksAreFree DEF Free
  <2>2. Cardinality(F) \in Nat
    BY <2>1, FiniteBlocks
  <2>3. q \in [1..Cardinality(F) -> F]
    BY DEF PickOrders, SetToSeqs
  <2>4. q \in Seq(Blocks) /\ \A k \in DOMAIN q : q[k] \in F
    <3> DEFINE m == Cardinality(F)
    <3>1. m \in Nat /\ q \in [1..m -> F]
      BY <2>2, <2>3
    <3> HIDE DEF m
    <3> QED BY <2>1, <3>1
  <2>5. \A k \in DOMAIN q : PieceOf(q[k]) \notin s.have
    BY <2>1, <2>4 DEF Free
  <2> QED BY <2>4, <2>5, AddAllQuiet
<1>2. ASSUME NEW t \in Near(s), NEW v \in Again(t) PROVE v \in Near(s)
  <2>1. PICK b \in busy : v = AddRequest(t, b, p)
    BY <1>2
  <2>2. b \in Blocks /\ State(s, b) = "requested"
    BY <2>1 DEF Busy
  <2>3. PieceOf(b) \notin s.have
    BY <2>2 DEF Sound, NoBlocksOfHave
  <2>4. t \in Sound /\ t.have = s.have
    BY QuietKeepsSound DEF Near, Quiet
  <2>5. v \in Near(t)
    BY <2>1, <2>2, <2>3, <2>4, AddRequestQuiet
  <2> QED BY <2>5, QuietFrom
<1>3. CASE u = s
  BY <1>3, QuietIsReflexive DEF Sound
<1>4. CASE u # s
  <2>1. u \in UNION {IF Cardinality(F) >= n \/ busy = {} THEN {Asked(q) : q \in PickOrders(F)}
                     ELSE UNION {Again(Asked(q)) : q \in PickOrders(F)}
                       : F \in Picks(s, p, n)}
    BY <1>4, Zenon DEF RequestABlock
  <2> HIDE DEF n, busy, Asked, Again
  <2>2. PICK F \in Picks(s, p, n) :
           u \in IF Cardinality(F) >= n \/ busy = {} THEN {Asked(q) : q \in PickOrders(F)}
                 ELSE UNION {Again(Asked(q)) : q \in PickOrders(F)}
    BY <2>1, Zenon
  <2>3. PICK q \in PickOrders(F) : u = Asked(q) \/ u \in Again(Asked(q))
    BY <2>2
  <2> QED BY <1>1, <1>2, <2>3
<1> QED BY <1>3, <1>4

\* What send_block_requests makes of the two queues, and one turn of its loop.
Queues == [dq : Seq(Pending), rq : Seq(Blocks)]

SendNext(s, d, t, b) ==
  IF Len(t.dq) >= d THEN [t EXCEPT !.rq = Append(@, b)]
  ELSE IF IsSeed(s) \/ IsDownloaded(s, b) THEN t
  ELSE [t EXCEPT !.dq = Append(@, [block |-> b, skipped |-> 0])]

\* send_block_requests moves blocks from one queue to the other.
LEMMA SendRuns ==
  ASSUME NEW s \in Sound, NEW p \in Peers, NEW d \in Int
  PROVE  LET q == s.rq[p]
         IN  \E r \in [0..Len(q) -> Queues] :
           /\ Len(q) \in Nat /\ r[0] = [dq |-> s.dq[p], rq |-> <<>>]
           /\ SendBlockRequests(s, p, d) = [s EXCEPT !.dq[p] = r[Len(q)].dq, !.rq[p] = r[Len(q)].rq]
           /\ \A k \in 1..Len(q) : r[k] = SendNext(s, d, r[k-1], q[k])
<1> DEFINE q == s.rq[p]
           n == Len(q)
           C == Queues
           base == [dq |-> s.dq[p], rq |-> <<>>]
           Step(t, b) == SendNext(s, d, t, b)
           F == [x \in C \X (1..n) |-> Step(x[1], q[x[2]])]
           H(h) == h = [x \in SUBSET (DOMAIN q) |->
                          IF x = {} THEN base ELSE Step(h[x \ {Max(x)}], q[Max(x)])]
           h == CHOOSE h : H(h)
<1>1. /\ s \in Shapes /\ q \in Seq(Blocks) /\ n \in Nat /\ DOMAIN q = 1..n
      /\ base \in C /\ \A k \in 1..n : q[k] \in Blocks
  <2>1. s \in Shapes /\ q \in Seq(Blocks) /\ base \in C
    BY DEF Sound, Shapes, Queues
  <2> QED BY <2>1, LenProperties, ElementOfSeq
<1>2. ASSUME NEW t \in C, NEW k \in 1..n PROVE Step(t, q[k]) \in C
  <2> DEFINE b == q[k]
  <2>1. b \in Blocks
    BY <1>1
  <2> HIDE DEF b
  <2>2. Append(t.rq, b) \in Seq(Blocks) /\ Append(t.dq, [block |-> b, skipped |-> 0]) \in Seq(Pending)
    BY <2>1 DEF Pending, Queues
  <2>3. Step(t, b) \in C
    BY <2>2 DEF SendNext, Queues
  <2> QED BY <2>3 DEF b
<1>3. SendBlockRequests(s, p, d) = [s EXCEPT !.dq[p] = h[DOMAIN q].dq, !.rq[p] = h[DOMAIN q].rq]
  BY DEF SendBlockRequests, SendNext, FoldLeft, MapThenFoldSet
<1> HIDE DEF Step
<1>4. F \in [C \X (1..n) -> C]
  BY <1>2
<1> HIDE DEF n, C, q, base
<1>5. PICK g : FoldGraph(g, base, C, n, F)
  <2> HIDE DEF F
  <2> QED BY <1>1, <1>4, FoldGraphExists
<1>6. H(g)
  BY <1>1, <1>5, Zenon DEF FoldGraph
<1>7. H(h)
  <2> HIDE DEF H
  <2> QED BY <1>6
<1> HIDE DEF h
<1>8. PICK r \in [0..n -> C] : Follows(r, h, n)
  <2>1. ASSUME NEW x \in SUBSET (1..n), x # {}, Max(x) \in 1..n, h[x \ {Max(x)}] \in C
        PROVE  h[x] \in C
    BY <1>1, <1>2, <1>7, <2>1
  <2>2. h[{}] \in C
    BY <1>1, <1>7
  <2> QED BY <1>1, <2>1, <2>2, FoldTrace
<1>9. ASSUME NEW k \in 1..n PROVE r[k] = Step(r[k-1], q[k])
  <2>1. PICK x \in SUBSET (1..n) : x # {} /\ Max(x) = k /\ r[k] = h[x] /\ r[k-1] = h[x \ {Max(x)}]
    BY <1>8 DEF Follows
  <2>2. h[x] = Step(h[x \ {Max(x)}], q[Max(x)])
    BY <1>1, <1>7, <2>1
  <2> QED BY <2>1, <2>2
<1>10. r[0] = base /\ r[n] = h[DOMAIN q]
  BY <1>1, <1>7, <1>8 DEF Follows
<1> QED BY <1>1, <1>3, <1>8, <1>9, <1>10 DEF C, n, q, base, Step

\* So it is quiet.
LEMMA SendQuiet ==
  ASSUME NEW s \in Sound, NEW p \in Peers, NEW d \in Int
  PROVE  SendBlockRequests(s, p, d) \in Near(s)
<1> DEFINE q == s.rq[p]
<1>1. PICK r \in [0..Len(q) -> Queues] :
           /\ Len(q) \in Nat /\ r[0] = [dq |-> s.dq[p], rq |-> <<>>]
           /\ SendBlockRequests(s, p, d) = [s EXCEPT !.dq[p] = r[Len(q)].dq, !.rq[p] = r[Len(q)].rq]
           /\ \A k \in 1..Len(q) : r[k] = SendNext(s, d, r[k-1], q[k])
  BY SendRuns, Zenon
<1> DEFINE t == r[Len(q)]
           u == [s EXCEPT !.dq[p] = t.dq, !.rq[p] = t.rq]
<1>2. t \in Queues
  BY <1>1
<1>3. t.dq \in Seq(Pending) /\ t.rq \in Seq(Blocks)
  BY <1>2 DEF Queues
<1> HIDE DEF t
<1>4. u \in Shapes /\ u.blk = s.blk /\ u.have = s.have /\ u.picker = s.picker /\ u.dead = s.dead
      /\ u.writes = s.writes
  BY <1>3 DEF Sound, Shapes
<1> HIDE DEF u
<1>5. u \in Near(s)
  BY <1>4, Aside
<1> QED BY <1>1, <1>5 DEF u, t

\* The two, as most handlers end.
LEMMA AskQuiet ==
  ASSUME NEW s \in Sound, NEW p \in Peers, NEW u \in Ask(s, p)
  PROVE  u \in Near(s)
<1>1. s.desired[p] \in Int
  BY DEF Sound, Shapes
<1>2. PICK t \in RequestABlock(s, p, s.desired[p]) : u = SendBlockRequests(t, p, s.desired[p])
  BY Zenon DEF Ask
<1>3. t \in Near(s) /\ t \in Sound
  BY <1>1, RequestQuiet, QuietKeepsSound
<1> QED BY <1>1, <1>2, <1>3, SendQuiet, QuietFrom

-----------------------------------------------------------------------------
(***************************************************************************)
(* Connections that end, chokes and rejects.                                *)
(***************************************************************************)

\* The writes of a connection go on without it.
LEMMA UnattributedFacts ==
  ASSUME NEW w \in Seq(Writers), NEW p
  PROVE  /\ Unattributed(w, p) \in Seq(Writers) /\ Len(Unattributed(w, p)) = Len(w)
         /\ \A n \in DOMAIN w : Unattributed(w, p)[n] \in {w[n], Nobody}
<1> DEFINE u == [n \in DOMAIN w |-> IF w[n] = p THEN Nobody ELSE w[n]]
<1>1. Len(w) \in Nat /\ DOMAIN w = 1..Len(w) /\ \A n \in 1..Len(w) : w[n] \in Writers
  BY LenProperties, ElementOfSeq
<1>2. u \in [1..Len(w) -> Writers]
  BY <1>1 DEF Writers
<1>3. u \in Seq(Writers) /\ Len(u) = Len(w)
  BY <1>1, <1>2
<1>4. \A n \in DOMAIN w : u[n] \in {w[n], Nobody}
  OBVIOUS
<1> QED BY <1>3, <1>4 DEF Unattributed

\* disconnect gives back the requests of the connection, when there is a
\* picker to give them to.
LEMMA CloseQuiet ==
  ASSUME NEW s \in Sound, NEW p \in Peers
  PROVE  Close(s, p) \in Near(s)
<1> DEFINE t == IF s.picker THEN AbortAll(s, QueueOf(s, p)) ELSE s
           w == [b \in Blocks |-> Unattributed(s.writes[b], p)]
           u == [t EXCEPT !.conn = @ \ {p}, !.choked = @ \cup {p}, !.rq[p] = <<>>, !.dq[p] = <<>>,
                          !.snubbed = @ \ {p}, !.desired[p] = QueueSize, !.writes = w]
<1>1. s \in Shapes /\ QueueOf(s, p) \in Seq(Blocks)
  BY QueueIsBlocks DEF Sound
<1>2. t \in Near(s) /\ t \in Shapes
  BY <1>1, AbortAllQuiet, QuietIsReflexive DEF Near
<1>3. \A b \in Blocks : /\ w[b] \in Seq(Writers) /\ Len(w[b]) = Len(s.writes[b])
                        /\ \A n \in DOMAIN s.writes[b] : w[b][n] \in {s.writes[b][n], Nobody}
  BY <1>1, UnattributedFacts DEF Shapes
<1>4. w \in [Blocks -> Seq(Writers)] /\ QueueSize \in Nat
  BY <1>3, PipelineAssumption
<1>5. Close(s, p) = u
  BY DEF Close
<1> HIDE DEF t, w
<1>6. u \in Shapes /\ u.blk = t.blk /\ u.have = t.have /\ u.picker = t.picker /\ u.dead = t.dead
      /\ u.writes = w
  <2> DEFINE v == [t EXCEPT !.conn = @ \ {p}, !.choked = @ \cup {p}]
             e == <<>>
             x == [v EXCEPT !.rq[p] = e, !.dq[p] = e]
             y == [x EXCEPT !.snubbed = @ \ {p}, !.desired[p] = QueueSize]
             z == [y EXCEPT !.writes = w]
  <2>1. v \in Shapes /\ v.blk = t.blk /\ v.have = t.have /\ v.picker = t.picker /\ v.dead = t.dead
        /\ v.snubbed = t.snubbed /\ v.desired = t.desired /\ v.rq = t.rq /\ v.dq = t.dq
    BY <1>2 DEF Shapes
  <2>2. u = z
    BY <2>1
  <2> HIDE DEF v
  <2>6. e \in Seq(Blocks) /\ e \in Seq(Pending)
    OBVIOUS
  <2> HIDE DEF e
  <2>3. x \in Shapes /\ x.blk = t.blk /\ x.have = t.have /\ x.picker = t.picker /\ x.dead = t.dead
    BY <2>1, <2>6 DEF Shapes
  <2> HIDE DEF x
  <2>4. y \in Shapes /\ y.blk = t.blk /\ y.have = t.have /\ y.picker = t.picker /\ y.dead = t.dead
    BY <1>4, <2>3 DEF Shapes
  <2> HIDE DEF y
  <2>5. z \in Shapes /\ z.blk = t.blk /\ z.have = t.have /\ z.picker = t.picker /\ z.dead = t.dead
        /\ z.writes = w
    BY <1>4, <2>4 DEF Shapes
  <2> HIDE DEF z, u
  <2> QED BY <2>2, <2>5
<1> HIDE DEF u
<1>7. \A b \in Blocks : u.blk[b] = s.blk[b] \/ (Loose(s, b) /\ Loose(u, b))
  BY <1>2, <1>6 DEF Near, Quiet, Loose, State
<1>8. u.have = s.have /\ u.picker = s.picker /\ u.dead = s.dead
  BY <1>2, <1>6 DEF Near, Quiet
<1>9. Quiet(s, u)
  BY <1>3, <1>6, <1>7, <1>8, Zenon DEF Quiet
<1> QED BY <1>5, <1>6, <1>9 DEF Near

\* disconnect_all, for some of the peers.
LEMMA CloseAllRuns ==
  ASSUME NEW s \in Sound, NEW P
  PROVE  LET q == SetToSeq(P \cap s.conn)
         IN  \E r \in [0..Len(q) -> Near(s)] :
           /\ Len(q) \in Nat /\ r[0] = s /\ r[Len(q)] = CloseAll(s, P)
           /\ \A k \in 1..Len(q) : r[k] = Close(r[k-1], q[k])
<1> DEFINE q == SetToSeq(P \cap s.conn)
           n == Len(q)
           C == Near(s)
           F == [x \in C \X (1..n) |-> Close(x[1], q[x[2]])]
           H(h) == h = [x \in SUBSET (DOMAIN q) |->
                          IF x = {} THEN s ELSE Close(h[x \ {Max(x)}], q[Max(x)])]
           h == CHOOSE h : H(h)
<1>1. n \in Nat /\ DOMAIN q = 1..n /\ s \in C /\ \A k \in 1..n : q[k] \in Peers
  <2>1. s \in Shapes /\ P \cap s.conn \subseteq Peers
    BY DEF Sound, Shapes
  <2>2. q \in Seq(P \cap s.conn)
    BY <2>1, PipelineAssumption, FS_Subset, ListOfSet
  <2> QED BY <2>1, <2>2, QuietIsReflexive, LenProperties, ElementOfSeq
<1>2. ASSUME NEW t \in C, NEW k \in 1..n PROVE Close(t, q[k]) \in C
  <2>1. t \in Sound
    BY QuietKeepsSound
  <2> QED BY <1>1, <2>1, CloseQuiet, QuietFrom
<1>3. CloseAll(s, P) = h[DOMAIN q]
  BY DEF CloseAll, FoldLeft, MapThenFoldSet
<1>4. F \in [C \X (1..n) -> C]
  BY <1>2
<1> HIDE DEF n, C
<1>5. PICK g : FoldGraph(g, s, C, n, F)
  <2> HIDE DEF F
  <2> QED BY <1>1, <1>4, FoldGraphExists
<1>6. H(g)
  BY <1>1, <1>5, Zenon DEF FoldGraph
<1>7. H(h)
  <2> HIDE DEF H
  <2> QED BY <1>6
<1> HIDE DEF h
<1>8. PICK r \in [0..n -> C] : Follows(r, h, n)
  <2>1. ASSUME NEW x \in SUBSET (1..n), x # {}, Max(x) \in 1..n, h[x \ {Max(x)}] \in C
        PROVE  h[x] \in C
    BY <1>1, <1>2, <1>7, <2>1
  <2>2. h[{}] \in C
    BY <1>1, <1>7
  <2> QED BY <1>1, <2>1, <2>2, FoldTrace
<1>9. ASSUME NEW k \in 1..n PROVE r[k] = Close(r[k-1], q[k])
  <2>1. PICK x \in SUBSET (1..n) : x # {} /\ Max(x) = k /\ r[k] = h[x] /\ r[k-1] = h[x \ {Max(x)}]
    BY <1>8 DEF Follows
  <2>2. h[x] = Close(h[x \ {Max(x)}], q[Max(x)])
    BY <1>1, <1>7, <2>1
  <2> QED BY <2>1, <2>2
<1>10. r[0] = s /\ r[n] = h[DOMAIN q]
  BY <1>1, <1>7, <1>8 DEF Follows
<1> QED BY <1>1, <1>3, <1>8, <1>9, <1>10 DEF C, n, q

\* So it is quiet.
LEMMA CloseAllQuiet ==
  ASSUME NEW s \in Sound, NEW P
  PROVE  CloseAll(s, P) \in Near(s)
<1> DEFINE q == SetToSeq(P \cap s.conn)
<1>1. PICK r \in [0..Len(q) -> Near(s)] : Len(q) \in Nat /\ r[Len(q)] = CloseAll(s, P)
  BY CloseAllRuns
<1>2. Len(q) \in 0..Len(q)
  BY <1>1
<1> QED BY <1>1, <1>2

\* incoming_reject_request gives the block back, unless the torrent is done.
LEMMA RejectedQuiet ==
  ASSUME NEW s \in Sound, NEW p \in Peers, NEW b \in Blocks
  PROVE  Rejected(s, p, b) \in Near(s)
<1> DEFINE t == [s EXCEPT !.rq[p] = <<b>> \o @]
<1>1. s \in Shapes /\ <<b>> \o s.rq[p] \in Seq(Blocks)
  BY DEF Sound, Shapes
<1>2. t \in Near(s)
  <2>1. t \in Shapes /\ t.blk = s.blk /\ t.have = s.have /\ t.picker = s.picker
        /\ t.dead = s.dead /\ t.writes = s.writes
    BY <1>1 DEF Shapes
  <2> HIDE DEF t
  <2> QED BY <2>1, Aside
<1>3. IsSeed(s) \/ Abort(s, b) \in Near(s)
  BY AbortQuiet DEF IsSeed
<1> QED BY <1>1, <1>2, <1>3, QuietIsReflexive DEF Rejected

\* incoming_choke gives back the requests not sent for yet.
LEMMA GiveBackQuiet ==
  ASSUME NEW s \in Sound, NEW p \in Peers
  PROVE  GiveBackRequests(s, p) \in Near(s)
<1> DEFINE e == <<>>
           t == IF IsSeed(s) THEN s ELSE AbortAll(s, s.rq[p])
           u == [t EXCEPT !.rq[p] = e]
<1>1. s \in Shapes /\ s.rq[p] \in Seq(Blocks) /\ e \in Seq(Blocks)
  BY DEF Sound, Shapes
<1>2. t \in Near(s) /\ t \in Sound
  <2>1. t \in Near(s)
    BY <1>1, AbortAllQuiet, QuietIsReflexive DEF IsSeed
  <2> QED BY <2>1, QuietKeepsSound
<1> HIDE DEF t, e
<1>3. u \in Shapes /\ u.blk = t.blk /\ u.have = t.have /\ u.picker = t.picker
      /\ u.dead = t.dead /\ u.writes = t.writes
  BY <1>1, <1>2 DEF Sound, Shapes
<1> HIDE DEF u
<1>4. u \in Near(s)
  BY <1>2, <1>3, Aside, QuietFrom
<1> QED BY <1>1, <1>4, QuietIsReflexive DEF GiveBackRequests, u, t, e

\* The loop over the requests sent to p.
RejectAll(s, p, q) == FoldLeft(LAMBDA t, e : Rejected(t, p, e.block), s, q)

\* A choke that rejects the requests sent for.
LEMMA RejectAllRuns ==
  ASSUME NEW s \in Sound, NEW p \in Peers, NEW q \in Seq(Pending)
  PROVE  \E r \in [0..Len(q) -> Near(s)] :
           /\ r[0] = s /\ r[Len(q)] = RejectAll(s, p, q)
           /\ \A k \in 1..Len(q) : r[k] = Rejected(r[k-1], p, q[k].block)
<1> DEFINE n == Len(q)
           C == Near(s)
           F == [x \in C \X (1..n) |-> Rejected(x[1], p, q[x[2]].block)]
           H(h) == h = [x \in SUBSET (DOMAIN q) |->
                          IF x = {} THEN s ELSE Rejected(h[x \ {Max(x)}], p, q[Max(x)].block)]
           h == CHOOSE h : H(h)
<1>1. n \in Nat /\ DOMAIN q = 1..n /\ s \in C /\ \A k \in 1..n : q[k].block \in Blocks
  <2>1. \A k \in 1..n : q[k] \in Pending
    BY ElementOfSeq
  <2> QED BY <2>1, QuietIsReflexive, LenProperties DEF Sound, Pending
<1>2. ASSUME NEW t \in C, NEW k \in 1..n PROVE Rejected(t, p, q[k].block) \in C
  <2>1. t \in Sound
    BY QuietKeepsSound
  <2> QED BY <1>1, <2>1, RejectedQuiet, QuietFrom
<1>3. RejectAll(s, p, q) = h[DOMAIN q]
  BY DEF RejectAll, FoldLeft, MapThenFoldSet
<1>4. F \in [C \X (1..n) -> C]
  BY <1>2
<1> HIDE DEF n, C
<1>5. PICK g : FoldGraph(g, s, C, n, F)
  <2> HIDE DEF F
  <2> QED BY <1>1, <1>4, FoldGraphExists
<1>6. H(g)
  BY <1>1, <1>5, Zenon DEF FoldGraph
<1>7. H(h)
  <2> HIDE DEF H
  <2> QED BY <1>6
<1> HIDE DEF h
<1>8. PICK r \in [0..n -> C] : Follows(r, h, n)
  <2>1. ASSUME NEW x \in SUBSET (1..n), x # {}, Max(x) \in 1..n, h[x \ {Max(x)}] \in C
        PROVE  h[x] \in C
    BY <1>1, <1>2, <1>7, <2>1
  <2>2. h[{}] \in C
    BY <1>1, <1>7
  <2> QED BY <1>1, <2>1, <2>2, FoldTrace
<1>9. ASSUME NEW k \in 1..n PROVE r[k] = Rejected(r[k-1], p, q[k].block)
  <2>1. PICK x \in SUBSET (1..n) : x # {} /\ Max(x) = k /\ r[k] = h[x] /\ r[k-1] = h[x \ {Max(x)}]
    BY <1>8 DEF Follows
  <2>2. h[x] = Rejected(h[x \ {Max(x)}], p, q[Max(x)].block)
    BY <1>1, <1>7, <2>1
  <2> QED BY <2>1, <2>2
<1>10. r[0] = s /\ r[n] = h[DOMAIN q]
  BY <1>1, <1>7, <1>8 DEF Follows
<1> QED BY <1>3, <1>8, <1>9, <1>10 DEF C, n

\* So the loop is quiet.
LEMMA RejectAllQuiet ==
  ASSUME NEW s \in Sound, NEW p \in Peers, NEW q \in Seq(Pending)
  PROVE  FoldLeft(LAMBDA t, e : Rejected(t, p, e.block), s, q) \in Near(s)
<1>1. Len(q) \in 0..Len(q)
  BY LenProperties
<1>2. PICK r \in [0..Len(q) -> Near(s)] : r[Len(q)] = RejectAll(s, p, q)
  BY RejectAllRuns
<1>3. RejectAll(s, p, q) \in Near(s)
  BY <1>1, <1>2
<1> QED BY <1>3 DEF RejectAll

\* cancel_request gives back only what is requested still.
LEMMA CancelRequestQuiet ==
  ASSUME NEW s \in Sound, NEW b \in Blocks, NEW p \in Peers
  PROVE  CancelRequest(s, b, p) \in Near(s)
<1> DEFINE t == Abort(s, b)
           q == RemoveFirst(t.rq[p], b)
           u == [t EXCEPT !.rq[p] = q]
<1>1. CASE State(s, b) # "requested" \/ b \notin ToSet(s.rq[p])
  BY <1>1, QuietIsReflexive DEF CancelRequest, Sound
<1>2. CASE ~ (State(s, b) # "requested" \/ b \notin ToSet(s.rq[p]))
  <2>1. s.picker
    <3>1. PieceOf(b) \notin s.have
      BY <1>2 DEF Sound, NoBlocksOfHave
    <3>2. PieceOf(b) \in Pieces
      BY PieceOfBlock
    <3> QED BY <3>1, <3>2 DEF Sound, PickerUntilDone
  <2>2. t \in Near(s) /\ t \in Sound
    BY <2>1, AbortQuiet, QuietKeepsSound
  <2> HIDE DEF t
  <2>3. q \in Seq(Blocks)
    BY <2>2, RemoveFirstFacts DEF Sound, Shapes
  <2> HIDE DEF q
  <2>4. u \in Shapes /\ u.blk = t.blk /\ u.have = t.have /\ u.picker = t.picker
        /\ u.dead = t.dead /\ u.writes = t.writes
    BY <2>2, <2>3 DEF Sound, Shapes
  <2>5. CancelRequest(s, b, p) = u
    BY <1>2 DEF CancelRequest, t, q
  <2> HIDE DEF u
  <2> QED BY <2>2, <2>4, <2>5, Aside, QuietFrom
<1> QED BY <1>1, <1>2

\* cancel_block.
LEMMA CancelBlockRuns ==
  ASSUME NEW s \in Sound, NEW b \in Blocks
  PROVE  LET q == SetToSeq(s.conn)
         IN  \E r \in [0..Len(q) -> Near(s)] :
           /\ Len(q) \in Nat /\ r[0] = s /\ r[Len(q)] = CancelBlock(s, b)
           /\ \A k \in 1..Len(q) : r[k] = CancelRequest(r[k-1], b, q[k])
<1> DEFINE q == SetToSeq(s.conn)
           n == Len(q)
           C == Near(s)
           F == [x \in C \X (1..n) |-> CancelRequest(x[1], b, q[x[2]])]
           H(h) == h = [x \in SUBSET (DOMAIN q) |->
                          IF x = {} THEN s ELSE CancelRequest(h[x \ {Max(x)}], b, q[Max(x)])]
           h == CHOOSE h : H(h)
<1>1. n \in Nat /\ DOMAIN q = 1..n /\ s \in C /\ \A k \in 1..n : q[k] \in Peers
  <2>1. s \in Shapes /\ s.conn \subseteq Peers
    BY DEF Sound, Shapes
  <2>2. q \in Seq(s.conn)
    BY <2>1, PipelineAssumption, FS_Subset, ListOfSet
  <2> QED BY <2>1, <2>2, QuietIsReflexive, LenProperties, ElementOfSeq
<1>2. ASSUME NEW t \in C, NEW k \in 1..n PROVE CancelRequest(t, b, q[k]) \in C
  <2>1. t \in Sound
    BY QuietKeepsSound
  <2> QED BY <1>1, <2>1, CancelRequestQuiet, QuietFrom
<1>3. CancelBlock(s, b) = h[DOMAIN q]
  BY DEF CancelBlock, FoldLeft, MapThenFoldSet
<1>4. F \in [C \X (1..n) -> C]
  BY <1>2
<1> HIDE DEF n, C
<1>5. PICK g : FoldGraph(g, s, C, n, F)
  <2> HIDE DEF F
  <2> QED BY <1>1, <1>4, FoldGraphExists
<1>6. H(g)
  BY <1>1, <1>5, Zenon DEF FoldGraph
<1>7. H(h)
  <2> HIDE DEF H
  <2> QED BY <1>6
<1> HIDE DEF h
<1>8. PICK r \in [0..n -> C] : Follows(r, h, n)
  <2>1. ASSUME NEW x \in SUBSET (1..n), x # {}, Max(x) \in 1..n, h[x \ {Max(x)}] \in C
        PROVE  h[x] \in C
    BY <1>1, <1>2, <1>7, <2>1
  <2>2. h[{}] \in C
    BY <1>1, <1>7
  <2> QED BY <1>1, <2>1, <2>2, FoldTrace
<1>9. ASSUME NEW k \in 1..n PROVE r[k] = CancelRequest(r[k-1], b, q[k])
  <2>1. PICK x \in SUBSET (1..n) : x # {} /\ Max(x) = k /\ r[k] = h[x] /\ r[k-1] = h[x \ {Max(x)}]
    BY <1>8 DEF Follows
  <2>2. h[x] = CancelRequest(h[x \ {Max(x)}], b, q[Max(x)])
    BY <1>1, <1>7, <2>1
  <2> QED BY <2>1, <2>2
<1>10. r[0] = s /\ r[n] = h[DOMAIN q]
  BY <1>1, <1>7, <1>8 DEF Follows
<1> QED BY <1>1, <1>3, <1>8, <1>9, <1>10 DEF C, n, q

\* So it is quiet.
LEMMA CancelBlockQuiet ==
  ASSUME NEW s \in Sound, NEW b \in Blocks
  PROVE  CancelBlock(s, b) \in Near(s)
<1> DEFINE q == SetToSeq(s.conn)
<1>1. PICK r \in [0..Len(q) -> Near(s)] : Len(q) \in Nat /\ r[Len(q)] = CancelBlock(s, b)
  BY CancelBlockRuns
<1>2. Len(q) \in 0..Len(q)
  BY <1>1
<1> QED BY <1>1, <1>2

\* One request that was overtaken.
Overtake(s, p, t, e) ==
  IF e.skipped + 1 > s.desired[p] THEN Abort(t, e.block)
  ELSE [t EXCEPT !.dq[p] = Append(@, [e EXCEPT !.skipped = @ + 1])]

\* The requests that an answer overtook: kept, or taken for dropped.
LEMMA SkipRuns ==
  ASSUME NEW s \in Sound, s.picker, NEW p \in Peers, NEW n \in 1..Len(s.dq[p])
  PROVE  LET front == SubSeq(s.dq[p], 1, n - 1)
             rest  == SubSeq(s.dq[p], n + 1, Len(s.dq[p]))
         IN  /\ front \in Seq(Pending) /\ rest \in Seq(Pending) /\ Len(front) = n - 1
             /\ \E r \in [0..Len(front) -> Near(s)] :
                  /\ r[0] = [s EXCEPT !.dq[p] = <<>>]
                  /\ Skip(s, p, n) = [r[Len(front)] EXCEPT !.dq[p] = @ \o rest]
                  /\ \A k \in 1..Len(front) : r[k] = Overtake(s, p, r[k-1], front[k])
<1> DEFINE none == <<>>
           base == [s EXCEPT !.dq[p] = none]
           front == SubSeq(s.dq[p], 1, n - 1)
           rest == SubSeq(s.dq[p], n + 1, Len(s.dq[p]))
           Step(t, e) == Overtake(s, p, t, e)
           F == [x \in Near(s) \X (1..Len(front)) |-> Step(x[1], front[x[2]])]
           H(h) == h = [x \in SUBSET (DOMAIN front) |->
                          IF x = {} THEN base ELSE Step(h[x \ {Max(x)}], front[Max(x)])]
           h == CHOOSE h : H(h)
           m == Len(front)
           C == Near(s)
<1>0. s \in Shapes /\ s.dq[p] \in Seq(Pending) /\ Len(s.dq[p]) \in Nat /\ none \in Seq(Pending)
  BY DEF Sound, Shapes
<1>1. /\ front \in Seq(Pending) /\ rest \in Seq(Pending) /\ m \in Nat /\ DOMAIN front = 1..m
      /\ m = n - 1
      /\ \A k \in 1..m : front[k] \in Pending
  <2>1. n - 1 \in 0..Len(s.dq[p]) /\ n \in 0..Len(s.dq[p])
    BY <1>0
  <2>2. front \in Seq(Pending) /\ rest \in Seq(Pending) /\ m = n - 1
    BY <1>0, <2>1, PrefixFacts
  <2> HIDE DEF front
  <2> QED BY <2>2, LenProperties, ElementOfSeq
<1>2. base \in C
  <2> HIDE DEF none
  <2>1. base \in Shapes /\ base.blk = s.blk /\ base.have = s.have /\ base.picker = s.picker
        /\ base.dead = s.dead /\ base.writes = s.writes
    BY <1>0 DEF Shapes
  <2> HIDE DEF base
  <2> QED BY <2>1, Aside
<1>3. ASSUME NEW t \in C, NEW e \in Pending PROVE Step(t, e) \in C
  <2>1. t \in Sound /\ t.picker /\ t \in Shapes
    BY QuietKeepsSound DEF Near, Quiet
  <2>2. e.block \in Blocks /\ e.skipped \in Nat
    BY DEF Pending
  <2>3. CASE e.skipped + 1 > s.desired[p]
    BY <2>1, <2>2, <2>3, AbortQuiet, QuietFrom DEF Overtake
  <2>4. CASE ~ (e.skipped + 1 > s.desired[p])
    <3> DEFINE f == [e EXCEPT !.skipped = @ + 1]
               a == Append(t.dq[p], f)
               u == [t EXCEPT !.dq[p] = a]
    <3>1. f \in Pending
      BY <2>2 DEF Pending
    <3> HIDE DEF f
    <3>2. a \in Seq(Pending)
      BY <2>1, <3>1 DEF Shapes
    <3> HIDE DEF a
    <3>3. u \in Shapes /\ u.blk = t.blk /\ u.have = t.have /\ u.picker = t.picker
          /\ u.dead = t.dead /\ u.writes = t.writes
      BY <2>1, <3>2 DEF Shapes
    <3> HIDE DEF u
    <3>4. u \in C
      BY <2>1, <3>3, Aside, QuietFrom
    <3>5. Step(t, e) = u
      BY <2>4 DEF u, a, f, Overtake
    <3> QED BY <3>4, <3>5
  <2> QED BY <2>3, <2>4
<1>4. Skip(s, p, n) = [h[DOMAIN front] EXCEPT !.dq[p] = @ \o rest]
  BY DEF Skip, Overtake, FoldLeft, MapThenFoldSet
<1> HIDE DEF Step
<1>5. F \in [C \X (1..m) -> C]
  BY <1>1, <1>3
<1> HIDE DEF m, C, base, front
<1>6. PICK g : FoldGraph(g, base, C, m, F)
  <2> HIDE DEF F
  <2> QED BY <1>1, <1>2, <1>5, FoldGraphExists
<1>7. H(g)
  BY <1>1, <1>6, Zenon DEF FoldGraph, C, m
<1>8. H(h)
  <2> HIDE DEF H
  <2> QED BY <1>7
<1> HIDE DEF h
<1>9. PICK r \in [0..m -> C] : Follows(r, h, m)
  <2>1. ASSUME NEW x \in SUBSET (1..m), x # {}, Max(x) \in 1..m, h[x \ {Max(x)}] \in C
        PROVE  h[x] \in C
    BY <1>1, <1>3, <1>8, <2>1
  <2>2. h[{}] \in C
    BY <1>1, <1>2, <1>8
  <2> QED BY <1>1, <2>1, <2>2, FoldTrace
<1>10. ASSUME NEW k \in 1..m PROVE r[k] = Step(r[k-1], front[k])
  <2>1. PICK x \in SUBSET (1..m) : x # {} /\ Max(x) = k /\ r[k] = h[x] /\ r[k-1] = h[x \ {Max(x)}]
    BY <1>9 DEF Follows
  <2>2. h[x] = Step(h[x \ {Max(x)}], front[Max(x)])
    BY <1>1, <1>8, <2>1
  <2> QED BY <2>1, <2>2
<1>11. r[0] = base /\ r[m] = h[DOMAIN front]
  BY <1>1, <1>8, <1>9 DEF Follows
<1> QED BY <1>1, <1>4, <1>9, <1>10, <1>11 DEF C, m, front, base, Step

\* So it is quiet.
LEMMA SkipQuiet ==
  ASSUME NEW s \in Sound, s.picker, NEW p \in Peers, NEW n \in 1..Len(s.dq[p])
  PROVE  Skip(s, p, n) \in Near(s)
<1> DEFINE front == SubSeq(s.dq[p], 1, n - 1)
           rest == SubSeq(s.dq[p], n + 1, Len(s.dq[p]))
<1>0. front \in Seq(Pending) /\ rest \in Seq(Pending)
  BY SkipRuns, Zenon
<1>1. PICK r \in [0..Len(front) -> Near(s)] :
        /\ r[0] = [s EXCEPT !.dq[p] = <<>>]
        /\ Skip(s, p, n) = [r[Len(front)] EXCEPT !.dq[p] = @ \o rest]
        /\ \A k \in 1..Len(front) : r[k] = Overtake(s, p, r[k-1], front[k])
  BY SkipRuns, ZenonT(30)
<1> HIDE DEF front, rest
<1> DEFINE t == r[Len(front)]
           a == t.dq[p] \o rest
           u == [t EXCEPT !.dq[p] = a]
<1>2. Len(front) \in 0..Len(front)
  BY <1>0, LenProperties
<1>3. t \in Near(s) /\ t \in Sound /\ t \in Shapes
  BY <1>1, <1>2, QuietKeepsSound DEF Sound
<1> HIDE DEF t
<1>4. a \in Seq(Pending)
  BY <1>0, <1>3 DEF Shapes
<1> HIDE DEF a
<1>5. u \in Shapes /\ u.blk = t.blk /\ u.have = t.have /\ u.picker = t.picker
       /\ u.dead = t.dead /\ u.writes = t.writes
  BY <1>3, <1>4 DEF Shapes
<1>6. Skip(s, p, n) = u
  BY <1>1 DEF t, a
<1> HIDE DEF u
<1> QED BY <1>3, <1>5, <1>6, Aside, QuietFrom

-----------------------------------------------------------------------------
(***************************************************************************)
(* The calls that are not quiet.                                            *)
(***************************************************************************)

\* What restore_piece_state does for the requests to one peer.
RestorePeer(s, i, p) ==
  FoldLeft(LAMBDA u, b : IF PieceOf(b) = i THEN MarkAsDownloading(u, b, p) ELSE u, s, QueueOf(s, p))

\* They are for a piece that we do not have.
LEMMA RestorePeerRuns ==
  ASSUME NEW s \in Sound, NEW i \in Pieces, i \notin s.have, NEW p \in Peers
  PROVE  LET q == QueueOf(s, p)
         IN  \E r \in [0..Len(q) -> Near(s)] :
           /\ Len(q) \in Nat /\ r[0] = s /\ r[Len(q)] = RestorePeer(s, i, p)
           /\ \A k \in 1..Len(q) : r[k] = IF PieceOf(q[k]) = i THEN MarkAsDownloading(r[k-1], q[k], p)
                                                  ELSE r[k-1]
<1> DEFINE q == QueueOf(s, p)
           n == Len(q)
           C == Near(s)
           Step(u, b) == IF PieceOf(b) = i THEN MarkAsDownloading(u, b, p) ELSE u
           F == [x \in C \X (1..n) |-> Step(x[1], q[x[2]])]
           H(h) == h = [x \in SUBSET (DOMAIN q) |->
                          IF x = {} THEN s ELSE Step(h[x \ {Max(x)}], q[Max(x)])]
           h == CHOOSE h : H(h)
<1>1. n \in Nat /\ DOMAIN q = 1..n /\ s \in C /\ \A k \in 1..n : q[k] \in Blocks
  <2>1. q \in Seq(Blocks) /\ s \in C
    BY QueueIsBlocks, QuietIsReflexive DEF Sound
  <2> HIDE DEF q
  <2> QED BY <2>1, LenProperties, ElementOfSeq
<1>2. ASSUME NEW t \in C, NEW k \in 1..n PROVE Step(t, q[k]) \in C
  <2>1. t \in Sound /\ t.have = s.have
    BY QuietKeepsSound DEF Near, Quiet
  <2> QED BY <1>1, <2>1, MarkQuiet, QuietFrom
<1>3. RestorePeer(s, i, p) = h[DOMAIN q]
  BY DEF RestorePeer, FoldLeft, MapThenFoldSet
<1> HIDE DEF Step
<1>4. F \in [C \X (1..n) -> C]
  BY <1>2
<1> HIDE DEF n, C
<1>5. PICK g : FoldGraph(g, s, C, n, F)
  <2> HIDE DEF F
  <2> QED BY <1>1, <1>4, FoldGraphExists
<1>6. H(g)
  BY <1>1, <1>5, Zenon DEF FoldGraph
<1>7. H(h)
  <2> HIDE DEF H
  <2> QED BY <1>6
<1> HIDE DEF h
<1>8. PICK r \in [0..n -> C] : Follows(r, h, n)
  <2>1. ASSUME NEW x \in SUBSET (1..n), x # {}, Max(x) \in 1..n, h[x \ {Max(x)}] \in C
        PROVE  h[x] \in C
    BY <1>1, <1>2, <1>7, <2>1
  <2>2. h[{}] \in C
    BY <1>1, <1>7
  <2> QED BY <1>1, <2>1, <2>2, FoldTrace
<1>9. ASSUME NEW k \in 1..n PROVE r[k] = Step(r[k-1], q[k])
  <2>1. PICK x \in SUBSET (1..n) : x # {} /\ Max(x) = k /\ r[k] = h[x] /\ r[k-1] = h[x \ {Max(x)}]
    BY <1>8 DEF Follows
  <2>2. h[x] = Step(h[x \ {Max(x)}], q[Max(x)])
    BY <1>1, <1>7, <2>1
  <2> QED BY <2>1, <2>2
<1>10. r[0] = s /\ r[n] = h[DOMAIN q]
  BY <1>1, <1>7, <1>8 DEF Follows
<1> QED BY <1>1, <1>3, <1>8, <1>9, <1>10 DEF C, n, q, Step

\* So the loop is quiet.
LEMMA RestorePeerQuiet ==
  ASSUME NEW s \in Sound, NEW i \in Pieces, i \notin s.have, NEW p \in Peers
  PROVE  RestorePeer(s, i, p) \in Near(s)
<1> DEFINE q == QueueOf(s, p)
<1>1. PICK r \in [0..Len(q) -> Near(s)] : Len(q) \in Nat /\ r[Len(q)] = RestorePeer(s, i, p)
  BY RestorePeerRuns
<1>2. Len(q) \in 0..Len(q)
  BY <1>1
<1> QED BY <1>1, <1>2

\* And for the peers in some order.
RestoreAll(s, i, q) == FoldLeft(LAMBDA t, p : RestorePeer(t, i, p), s, q)

\* The same for every peer.
LEMMA RestoreAllRuns ==
  ASSUME NEW s \in Sound, NEW i \in Pieces, i \notin s.have, NEW q \in Seq(Peers)
  PROVE  \E r \in [0..Len(q) -> Near(s)] :
           /\ r[0] = s /\ r[Len(q)] = RestoreAll(s, i, q)
           /\ \A k \in 1..Len(q) : r[k] = RestorePeer(r[k-1], i, q[k])
<1> DEFINE n == Len(q)
           C == Near(s)
           F == [x \in C \X (1..n) |-> RestorePeer(x[1], i, q[x[2]])]
           H(h) == h = [x \in SUBSET (DOMAIN q) |->
                          IF x = {} THEN s ELSE RestorePeer(h[x \ {Max(x)}], i, q[Max(x)])]
           h == CHOOSE h : H(h)
<1>1. n \in Nat /\ DOMAIN q = 1..n /\ s \in C /\ \A k \in 1..n : q[k] \in Peers
  BY QuietIsReflexive, LenProperties, ElementOfSeq DEF Sound
<1>2. ASSUME NEW t \in C, NEW k \in 1..n PROVE RestorePeer(t, i, q[k]) \in C
  <2>1. t \in Sound /\ t.have = s.have
    BY QuietKeepsSound DEF Near, Quiet
  <2> QED BY <1>1, <2>1, RestorePeerQuiet, QuietFrom
<1>3. RestoreAll(s, i, q) = h[DOMAIN q]
  BY DEF RestoreAll, FoldLeft, MapThenFoldSet
<1>4. F \in [C \X (1..n) -> C]
  BY <1>2
<1> HIDE DEF n, C
<1>5. PICK g : FoldGraph(g, s, C, n, F)
  <2> HIDE DEF F
  <2> QED BY <1>1, <1>4, FoldGraphExists
<1>6. H(g)
  BY <1>1, <1>5, Zenon DEF FoldGraph
<1>7. H(h)
  <2> HIDE DEF H
  <2> QED BY <1>6
<1> HIDE DEF h
<1>8. PICK r \in [0..n -> C] : Follows(r, h, n)
  <2>1. ASSUME NEW x \in SUBSET (1..n), x # {}, Max(x) \in 1..n, h[x \ {Max(x)}] \in C
        PROVE  h[x] \in C
    BY <1>1, <1>2, <1>7, <2>1
  <2>2. h[{}] \in C
    BY <1>1, <1>7
  <2> QED BY <1>1, <2>1, <2>2, FoldTrace
<1>9. ASSUME NEW k \in 1..n PROVE r[k] = RestorePeer(r[k-1], i, q[k])
  <2>1. PICK x \in SUBSET (1..n) : x # {} /\ Max(x) = k /\ r[k] = h[x] /\ r[k-1] = h[x \ {Max(x)}]
    BY <1>8 DEF Follows
  <2>2. h[x] = RestorePeer(h[x \ {Max(x)}], i, q[Max(x)])
    BY <1>1, <1>7, <2>1
  <2> QED BY <2>1, <2>2
<1>10. r[0] = s /\ r[n] = h[DOMAIN q]
  BY <1>1, <1>7, <1>8 DEF Follows
<1> QED BY <1>3, <1>8, <1>9, <1>10 DEF C, n

\* So the loop is quiet.
LEMMA RestoreAllQuiet ==
  ASSUME NEW s \in Sound, NEW i \in Pieces, i \notin s.have, NEW q \in Seq(Peers)
  PROVE  FoldLeft(LAMBDA t, p : RestorePeer(t, i, p), s, q) \in Near(s)
<1>1. Len(q) \in 0..Len(q)
  BY LenProperties
<1>2. PICK r \in [0..Len(q) -> Near(s)] : r[Len(q)] = RestoreAll(s, i, q)
  BY RestoreAllRuns
<1>3. RestoreAll(s, i, q) \in Near(s)
  BY <1>1, <1>2
<1> QED BY <1>3 DEF RestoreAll

\* The same blocks are finished.
SameFinished(s, t) ==
  \A b \in Blocks : (State(s, b) = "finished") <=> (State(t, b) = "finished")

\* No quiet call finishes a block.
LEMMA NearSameFinished ==
  ASSUME NEW s \in Sound, NEW t \in Near(s)
  PROVE  SameFinished(s, t)
BY DEF SameFinished, Near, Quiet, Loose, State

\* t has given up the blocks of piece i, and no other finished one.
GaveUp(s, t, i) ==
  \A b \in Blocks : (State(t, b) = "finished") <=> (State(s, b) = "finished" /\ PieceOf(b) # i)

\* erase_download_piece, when the blocks are all finished: nothing of the
\* piece is with the disk thread.
LEMMA ErasedSound ==
  ASSUME NEW s \in Sound, NEW i \in Pieces, \A b \in BlocksOf(i) : State(s, b) = "finished"
  PROVE  /\ EraseDownload(s, i) \in Sound /\ EraseDownload(s, i).have = s.have
         /\ EraseDownload(s, i).picker = s.picker
         /\ GaveUp(s, EraseDownload(s, i), i)
         /\ \A b \in Blocks : PieceOf(b) = i => State(EraseDownload(s, i), b) = "none"
<1> DEFINE f == [b \in Blocks |-> IF PieceOf(b) = i THEN Idle ELSE s.blk[b]]
           t == [s EXCEPT !.blk = f]
<1>1. s \in Shapes /\ t = EraseDownload(s, i)
  BY DEF Sound, EraseDownload
<1>2. Idle \in Infos /\ Idle.state = "none"
  BY DEF Idle, Infos, BlockStates, Writers
<1>3. f \in [Blocks -> Infos]
  BY <1>1, <1>2 DEF Shapes
<1>4. \A b \in Blocks : f[b] = IF PieceOf(b) = i THEN Idle ELSE s.blk[b]
  OBVIOUS
<1> HIDE DEF f
<1>5. t \in Shapes /\ t.blk = f /\ t.have = s.have /\ t.picker = s.picker /\ t.dead = s.dead
      /\ t.writes = s.writes
  BY <1>1, <1>3 DEF Shapes
<1> HIDE DEF t
<1>6. ASSUME NEW b \in Blocks
      PROVE  /\ PieceOf(b) = i => State(t, b) = "none" /\ Len(s.writes[b]) = 0
             /\ PieceOf(b) # i => t.blk[b] = s.blk[b] /\ State(t, b) = State(s, b)
  <2>1. PieceOf(b) = i => Len(s.writes[b]) = 0
    BY DEF Sound, WrittenOnce, BlocksOf
  <2> QED BY <1>2, <1>4, <1>5, <2>1 DEF State
<1>7. NoBlocksOfHave(t) /\ PickerUntilDone(t) /\ ~t.dead
  BY <1>5, <1>6 DEF Sound, NoBlocksOfHave, PickerUntilDone
<1>8. WrittenOnce(t) /\ SenderNoted(t) /\ WriterNoted(t)
  BY <1>5, <1>6 DEF Sound, WrittenOnce, SenderNoted, WriterNoted
<1>9. GaveUp(s, t, i)
  BY <1>6 DEF GaveUp
<1> QED BY <1>1, <1>5, <1>6, <1>7, <1>8, <1>9 DEF Sound

\* SetToSeqs lists a set of peers.
LEMMA OrderOfPeers ==
  ASSUME NEW P \in SUBSET Peers, NEW q \in SetToSeqs(P)
  PROVE  q \in Seq(Peers)
<1>1. Cardinality(P) \in Nat
  BY PipelineAssumption, FS_Subset, FS_CardinalityType
<1>2. q \in [1..Cardinality(P) -> P]
  BY DEF SetToSeqs
<1> QED BY <1>1, <1>2

\* restore_piece and restore_piece_state.
LEMMA RestoreSound ==
  ASSUME NEW s \in Sound, NEW i \in Pieces, i \notin s.have,
         \A b \in BlocksOf(i) : State(s, b) = "finished",
         NEW u \in Restore(s, i)
  PROVE  u \in Sound /\ GaveUp(s, u, i)
<1> DEFINE e == EraseDownload(s, i)
<1>1. e \in Sound /\ e.have = s.have /\ GaveUp(s, e, i)
  BY ErasedSound
<1>2. PICK order \in SetToSeqs(s.conn) : u = FoldLeft(LAMBDA t, p : RestorePeer(t, i, p), e, order)
  BY DEF Restore, RestorePeer
<1> HIDE DEF e
<1>3. order \in Seq(Peers)
  BY <1>2, OrderOfPeers DEF Sound, Shapes
<1>4. u \in Near(e)
  BY <1>1, <1>2, <1>3, RestoreAllQuiet
<1>5. u \in Sound /\ SameFinished(e, u)
  BY <1>1, <1>4, QuietKeepsSound, NearSameFinished
<1> QED BY <1>1, <1>5 DEF GaveUp, SameFinished

\* A round of requests by every peer, from any of the states S.
AskAll(S, q) == FoldLeft(LAMBDA T, p : UNION {Ask(t, p) : t \in T}, S, q)

\* There is a trace of it.
LEMMA AskEachRuns ==
  ASSUME NEW s \in Sound, NEW S \in SUBSET Near(s), NEW q \in Seq(Peers)
  PROVE  \E r \in [0..Len(q) -> SUBSET Near(s)] :
           /\ r[0] = S /\ r[Len(q)] = AskAll(S, q)
           /\ \A k \in 1..Len(q) : \A u \in r[k] : \E t \in r[k-1] : u \in Ask(t, q[k])
<1> DEFINE n == Len(q)
           C == SUBSET Near(s)
           Step(T, p) == UNION {Ask(t, p) : t \in T}
           F == [x \in C \X (1..n) |-> Step(x[1], q[x[2]])]
           H(h) == h = [x \in SUBSET (DOMAIN q) |->
                          IF x = {} THEN S ELSE Step(h[x \ {Max(x)}], q[Max(x)])]
           h == CHOOSE h : H(h)
<1>1. n \in Nat /\ DOMAIN q = 1..n /\ S \in C /\ \A k \in 1..n : q[k] \in Peers
  BY LenProperties, ElementOfSeq
<1>2. ASSUME NEW T \in C, NEW k \in 1..n PROVE Step(T, q[k]) \in C
  <2>1. ASSUME NEW t \in T, NEW u \in Ask(t, q[k]) PROVE u \in Near(s)
    <3>1. t \in Near(s) /\ t \in Sound
      BY QuietKeepsSound
    <3> QED BY <1>1, <2>1, <3>1, AskQuiet, QuietFrom
  <2> QED BY <2>1
<1>3. AskAll(S, q) = h[DOMAIN q]
  BY DEF AskAll, FoldLeft, MapThenFoldSet
<1> HIDE DEF Step
<1>4. F \in [C \X (1..n) -> C]
  BY <1>2
<1> HIDE DEF n, C
<1>5. PICK g : FoldGraph(g, S, C, n, F)
  <2> HIDE DEF F
  <2> QED BY <1>1, <1>4, FoldGraphExists
<1>6. H(g)
  BY <1>1, <1>5, Zenon DEF FoldGraph
<1>7. H(h)
  <2> HIDE DEF H
  <2> QED BY <1>6
<1> HIDE DEF h
<1>8. PICK r \in [0..n -> C] : Follows(r, h, n)
  <2>1. ASSUME NEW x \in SUBSET (1..n), x # {}, Max(x) \in 1..n, h[x \ {Max(x)}] \in C
        PROVE  h[x] \in C
    BY <1>1, <1>2, <1>7, <2>1
  <2>2. h[{}] \in C
    BY <1>1, <1>7
  <2> QED BY <1>1, <2>1, <2>2, FoldTrace
<1>9. ASSUME NEW k \in 1..n PROVE r[k] = Step(r[k-1], q[k])
  <2>1. PICK x \in SUBSET (1..n) : x # {} /\ Max(x) = k /\ r[k] = h[x] /\ r[k-1] = h[x \ {Max(x)}]
    BY <1>8 DEF Follows
  <2>2. h[x] = Step(h[x \ {Max(x)}], q[Max(x)])
    BY <1>1, <1>7, <2>1
  <2> QED BY <2>1, <2>2
<1>10. r[0] = S /\ r[n] = h[DOMAIN q]
  BY <1>1, <1>7, <1>8 DEF Follows
<1>11. \A k \in 1..n : \A u \in r[k] : \E t \in r[k-1] : u \in Ask(t, q[k])
  BY <1>9 DEF Step
<1> QED BY <1>3, <1>8, <1>10, <1>11 DEF C, n

\* So the loop is quiet.
LEMMA AskEachQuiet ==
  ASSUME NEW s \in Sound, NEW S \in SUBSET Near(s), NEW q \in Seq(Peers)
  PROVE  FoldLeft(LAMBDA T, p : UNION {Ask(t, p) : t \in T}, S, q) \subseteq Near(s)
<1>1. Len(q) \in 0..Len(q)
  BY LenProperties
<1>2. PICK r \in [0..Len(q) -> SUBSET Near(s)] :
           /\ r[0] = S /\ r[Len(q)] = AskAll(S, q)
           /\ \A k \in 1..Len(q) : \A u \in r[k] : \E t \in r[k-1] : u \in Ask(t, q[k])
  BY AskEachRuns, ZenonT(30)
<1> QED BY <1>1, <1>2 DEF AskAll

\* finished() drops the picker, and then disconnects seeds that have requests.
LEMMA FinishedSound ==
  ASSUME NEW s \in Sound
  PROVE  Finished(s) \in Sound /\ SameFinished(s, Finished(s))
<1> DEFINE t == [s EXCEPT !.picker = FALSE]
<1>1. CASE s.have = Pieces
  <2>1. t \in Shapes /\ t.blk = s.blk /\ t.have = s.have /\ t.picker = FALSE
        /\ t.dead = s.dead /\ t.writes = s.writes
    BY DEF Sound, Shapes
  <2>2. CloseAll(t, Seeds) = Finished(s)
    BY <1>1 DEF Finished
  <2> HIDE DEF t
  <2>3. t \in Sound
    BY <1>1, <2>1 DEF Sound, NoBlocksOfHave, PickerUntilDone, WrittenOnce, SenderNoted, WriterNoted, State
  <2>4. CloseAll(t, Seeds) \in Near(t)
    BY <2>3, CloseAllQuiet
  <2>5. CloseAll(t, Seeds) \in Sound /\ SameFinished(t, CloseAll(t, Seeds))
    BY <2>3, <2>4, QuietKeepsSound, NearSameFinished
  <2> QED BY <2>1, <2>2, <2>5 DEF SameFinished, State
<1>2. CASE s.have # Pieces
  BY <1>2 DEF Finished, SameFinished
<1> QED BY <1>1, <1>2

\* cancel_block gives back only what is still requested.
LEMMA CancelNothing ==
  ASSUME NEW s \in Sound, NEW b \in Blocks, State(s, b) # "requested"
  PROVE  CancelBlock(s, b) = s
<1> DEFINE q == SetToSeq(s.conn)
           n == Len(q)
           C == [k \in 0..n |-> {s}]
<1>1. PICK r \in [0..n -> Near(s)] :
           /\ n \in Nat /\ r[0] = s /\ r[n] = CancelBlock(s, b)
           /\ \A k \in 1..n : r[k] = CancelRequest(r[k-1], b, q[k])
  BY CancelBlockRuns, Zenon
<1> HIDE DEF n, q
<1>2. r[0] \in C[0]
  BY <1>1
<1>3. ASSUME NEW k \in 1..n, r[k-1] \in C[k-1] PROVE r[k] \in C[k]
  <2>1. k - 1 \in 0..n /\ k \in 0..n
    BY <1>1
  <2>2. r[k-1] = s /\ r[k] = CancelRequest(r[k-1], b, q[k])
    BY <1>1, <1>3, <2>1
  <2>3. r[k] = s
    BY <2>2 DEF CancelRequest
  <2> QED BY <2>1, <2>3
<1>4. \A k \in 0..n : r[k] \in C[k]
  <2> HIDE DEF C
  <2> QED BY <1>1, <1>2, <1>3, TraceInduction
<1>5. n \in 0..n
  BY <1>1
<1> QED BY <1>1, <1>4, <1>5

\* async_write and mark_as_writing, for a block that has not come before.
LEMMA WritingSound ==
  ASSUME NEW s \in Sound, NEW p \in Peers, NEW b \in Blocks, ~IsDownloaded(s, b)
  PROVE  LET t == MarkAsWriting(AsyncWrite(s, b, p), b, p)
         IN  /\ t \in Sound /\ SameFinished(s, t)
             /\ t.have = s.have /\ t.rq = s.rq /\ t.dq = s.dq /\ t.conn = s.conn
             /\ t.choked = s.choked /\ State(t, b) = "writing" /\ t.blk[b].peers = 0
             /\ \A c \in Blocks : c # b => t.blk[c] = s.blk[c]
<1> DEFINE w == [s.writes EXCEPT ![b] = Append(@, p)]
           a == [s EXCEPT !.writes = w]
           info == [state |-> "writing", peers |-> 0, peer |-> p, from |-> p]
           f == [s.blk EXCEPT ![b] = info]
           t == [a EXCEPT !.blk = f]
<1>1. s \in Shapes /\ State(s, b) \in {"none", "requested"} /\ PieceOf(b) \notin s.have
      /\ s.writes[b] \in Seq(Writers) /\ Len(s.writes[b]) = 0
  BY DEF IsDownloaded, Sound, Shapes, Infos, BlockStates, State, WrittenOnce
<1>2. Append(s.writes[b], p) \in Seq(Writers) /\ Len(Append(s.writes[b], p)) = 1
      /\ Append(s.writes[b], p)[1] = p
  BY <1>1 DEF Writers
<1>3. w \in [Blocks -> Seq(Writers)] /\ Len(w[b]) = 1 /\ w[b][1] = p
      /\ \A c \in Blocks : c # b => w[c] = s.writes[c]
  BY <1>1, <1>2 DEF Shapes
<1>4. f \in [Blocks -> Infos] /\ f[b] = info /\ \A c \in Blocks : c # b => f[c] = s.blk[c]
  BY <1>1 DEF Shapes, Infos, BlockStates, Writers
<1>5. t = MarkAsWriting(AsyncWrite(s, b, p), b, p)
  <2>1. a.blk = s.blk
    BY <1>1 DEF Shapes
  <2>2. a = AsyncWrite(s, b, p)
    BY DEF AsyncWrite
  <2> HIDE DEF a
  <2>3. MarkAsWriting(a, b, p) = [a EXCEPT !.blk = [a.blk EXCEPT ![b] = info]]
    BY DEF MarkAsWriting, SetBlock
  <2> QED BY <2>1, <2>2, <2>3
<1> HIDE DEF w, f
<1>6. t \in Shapes /\ t.blk = f /\ t.have = s.have /\ t.picker = s.picker
      /\ t.dead = s.dead /\ t.writes = w /\ t.rq = s.rq /\ t.dq = s.dq /\ t.conn = s.conn
      /\ t.choked = s.choked
  BY <1>1, <1>3, <1>4 DEF Shapes
<1> HIDE DEF t
<1>7. State(t, b) = "writing" /\ t.blk[b].peer = p /\ t.blk[b].from = p /\ t.blk[b].peers = 0
      /\ \A c \in Blocks : c # b => t.blk[c] = s.blk[c] /\ State(t, c) = State(s, c)
  BY <1>4, <1>6 DEF State
<1>8. t \in Sound
  <2>1. NoBlocksOfHave(t) /\ PickerUntilDone(t) /\ ~t.dead
    BY <1>1, <1>6, <1>7 DEF Sound, NoBlocksOfHave, PickerUntilDone
  <2>2. WrittenOnce(t)
    BY <1>3, <1>6, <1>7 DEF Sound, WrittenOnce
  <2>3. SenderNoted(t) /\ WriterNoted(t)
    BY <1>3, <1>6, <1>7, SMTT(30) DEF Sound, SenderNoted, WriterNoted
  <2> QED BY <1>6, <2>1, <2>2, <2>3 DEF Sound
<1>9. SameFinished(s, t)
  BY <1>1, <1>7 DEF SameFinished
<1> QED BY <1>5, <1>6, <1>7, <1>8, <1>9

\* incoming_piece ends with the block marked: cancel_block is called after
\* that, and finds nothing to give back.
LEMMA AcceptMarks ==
  ASSUME NEW s \in Sound, NEW p \in Peers, NEW b \in Blocks, ~IsDownloaded(s, b)
  PROVE  Accept(s, p, b) = MarkAsWriting(AsyncWrite(s, b, p), b, p)
<1> DEFINE t == MarkAsWriting(AsyncWrite(s, b, p), b, p)
<1>1. t \in Sound /\ State(t, b) = "writing"
  BY WritingSound, Zenon
<1>2. Accept(s, p, b) = t \/ Accept(s, p, b) = CancelBlock(t, b)
  BY DEF Accept
<1> HIDE DEF t
<1>3. CancelBlock(t, b) = t
  BY <1>1, CancelNothing
<1> QED BY <1>2, <1>3 DEF t

\* incoming_piece, of any block of the torrent.
LEMMA AcceptSound ==
  ASSUME NEW s \in Sound, NEW p \in Peers, NEW b \in Blocks
  PROVE  Accept(s, p, b) \in Sound /\ SameFinished(s, Accept(s, p, b))
<1> DEFINE t == Accept(s, p, b)
           m == MarkAsWriting(AsyncWrite(s, b, p), b, p)
<1>1. CASE IsDownloaded(s, b)
  BY <1>1 DEF Accept, SameFinished
<1>2. CASE ~IsDownloaded(s, b)
  <2>1. m \in Sound /\ SameFinished(s, m)
    BY <1>2, WritingSound, Zenon
  <2>2. t = m
    BY <1>2, AcceptMarks
  <2> HIDE DEF m, t
  <2>3. t \in Sound /\ SameFinished(s, t)
    BY <2>1, <2>2
  <2> QED BY <2>3 DEF t
<1> QED BY <1>1, <1>2

-----------------------------------------------------------------------------
(***************************************************************************)
(* The steps that peers cause.                                              *)
(***************************************************************************)

\* OneHash, of a record and the hashes under way.
HashExact(s, h) ==
  /\ h \in [Pieces -> Nat]
  /\ \A i \in Pieces : h[i] = IF \A b \in BlocksOf(i) : State(s, b) = "finished" THEN 1 ELSE 0

\* The inductive invariant.
PipelineInv == Now \in Sound /\ HashExact(Now, hashes)

\* The record of the next state.
LEMMA BecomeNow ==
  ASSUME NEW s \in Shapes, Become(s)
  PROVE  Now' = s
<1>1. s = [blk |-> s.blk, have |-> s.have, picker |-> s.picker, conn |-> s.conn,
           choked |-> s.choked, parole |-> s.parole, rq |-> s.rq, dq |-> s.dq,
           writes |-> s.writes, dead |-> s.dead, snubbed |-> s.snubbed, desired |-> s.desired]
  BY DEF Shapes
<1>2. Now' = [blk |-> blk', have |-> have', picker |-> picker', conn |-> conn',
              choked |-> choked', parole |-> parole', rq |-> rq', dq |-> dq',
              writes |-> writes', dead |-> dead', snubbed |-> snubbed', desired |-> desired']
  BY DEF Now
<1> QED BY <1>1, <1>2 DEF Become

\* A step to a sound record in which the same blocks are finished.
LEMMA SoundStep ==
  ASSUME PipelineInv, NEW s \in Sound, SameFinished(Now, s), Become(s), hashes' = hashes
  PROVE  PipelineInv'
<1>1. Now' = s
  BY BecomeNow DEF Sound
<1>2. HashExact(s, hashes)
  BY DEF PipelineInv, HashExact, SameFinished, BlocksOf
<1>3. HashExact(Now, hashes)' = HashExact(Now', hashes')
  BY DEF HashExact, State
<1> QED BY <1>1, <1>2, <1>3 DEF PipelineInv

\* A step of quiet calls.
LEMMA NearStep ==
  ASSUME PipelineInv, NEW s \in Near(Now), Become(s), hashes' = hashes
  PROVE  PipelineInv'
<1>1. s \in Sound /\ SameFinished(Now, s)
  BY QuietKeepsSound, NearSameFinished DEF PipelineInv
<1> QED BY <1>1, SoundStep

\* The record of the present state.
LEMMA NowFields ==
  ASSUME PipelineInv
  PROVE  /\ Now \in Sound /\ Now \in Shapes /\ HashExact(Now, hashes)
         /\ Now.blk = blk /\ Now.have = have /\ Now.picker = picker /\ Now.conn = conn
         /\ Now.choked = choked /\ Now.parole = parole /\ Now.rq = rq /\ Now.dq = dq
         /\ Now.writes = writes /\ Now.dead = dead /\ Now.snubbed = snubbed
         /\ Now.desired = desired
<1>1. Now \in Sound /\ Now \in Shapes /\ HashExact(Now, hashes)
  BY DEF PipelineInv, Sound
<1>2. /\ Now.blk = blk /\ Now.have = have /\ Now.picker = picker /\ Now.conn = conn
      /\ Now.choked = choked /\ Now.parole = parole /\ Now.rq = rq /\ Now.dq = dq
      /\ Now.writes = writes /\ Now.dead = dead /\ Now.snubbed = snubbed
      /\ Now.desired = desired
  BY DEF Now
<1> QED BY <1>1, <1>2

\* A torrent starts with nothing asked for.
LEMMA InitPipeline == ASSUME Init PROVE PipelineInv
<1>1. Now \in Shapes
  <2>1. blk \in [Blocks -> Infos]
    BY DEF Init, Infos, Idle, BlockStates, Writers
  <2>2. rq \in [Peers -> Seq(Blocks)] /\ dq \in [Peers -> Seq(Pending)]
        /\ writes \in [Blocks -> Seq(Writers)] /\ desired \in [Peers -> Nat]
    BY PipelineAssumption DEF Init
  <2>3. have \in SUBSET Pieces /\ picker \in BOOLEAN /\ conn \in SUBSET Peers
        /\ choked \in SUBSET Peers /\ parole \in SUBSET Peers /\ dead \in BOOLEAN
        /\ snubbed \in SUBSET Peers
    BY DEF Init
  <2> QED BY <2>1, <2>2, <2>3 DEF Now, Shapes
<1>2. Now \in Sound
  <2>1. Now.have = {} /\ Now.picker = TRUE /\ Now.dead = FALSE
        /\ \A b \in Blocks : State(Now, b) = "none" /\ Now.writes[b] = <<>>
    BY DEF Init, Now, State, Idle
  <2>2. \A b \in Blocks : Len(Now.writes[b]) = 0
    BY <2>1
  <2> QED BY <1>1, <2>1, <2>2 DEF Sound, NoBlocksOfHave, PickerUntilDone, WrittenOnce, SenderNoted, WriterNoted
<1>3. HashExact(Now, hashes)
  <2>1. \A b \in Blocks : State(Now, b) = "none"
    BY DEF Init, Now, State, Idle
  <2>2. \A i \in Pieces : \E b \in BlocksOf(i) : State(Now, b) = "none"
    BY <2>1, PieceHasBlock DEF BlocksOf
  <2> QED BY <2>2 DEF Init, HashExact
<1> QED BY <1>2, <1>3 DEF PipelineInv

\* The handlers of a peer's messages start no hash.
LEMMA DiskVarsSame == ASSUME UNCHANGED diskVars PROVE hashes' = hashes
BY DEF diskVars

\* A new connection has no requests.
LEMMA ConnectStep ==
  ASSUME PipelineInv, NEW p \in Peers, Connect(p)
  PROVE  PipelineInv'
<1> DEFINE s == [Now EXCEPT !.conn = @ \cup {p}]
<1>1. s \in Shapes /\ s.blk = Now.blk /\ s.have = Now.have /\ s.picker = Now.picker
      /\ s.dead = Now.dead /\ s.writes = Now.writes
  BY NowFields DEF Shapes
<1>2. Become(s) /\ hashes' = hashes
  BY DiskVarsSame DEF Connect
<1> HIDE DEF s
<1> QED BY <1>1, <1>2, NowFields, Aside, NearStep

\* A connection that ends gives back its requests.
LEMMA DisconnectStep ==
  ASSUME PipelineInv, NEW p \in Peers, Disconnect(p)
  PROVE  PipelineInv'
<1>1. Become(Close(Now, p)) /\ hashes' = hashes
  BY DiskVarsSame DEF Disconnect
<1> QED BY <1>1, NowFields, CloseQuiet, NearStep

\* An unchoke asks for blocks.
LEMMA UnchokeStep ==
  ASSUME PipelineInv, NEW p \in Peers, Unchoke(p)
  PROVE  PipelineInv'
<1> DEFINE s == [Now EXCEPT !.choked = @ \ {p}]
<1>1. s \in Shapes /\ s.blk = Now.blk /\ s.have = Now.have /\ s.picker = Now.picker
      /\ s.dead = Now.dead /\ s.writes = Now.writes
  BY NowFields DEF Shapes
<1>2. PICK t \in Ask(s, p) : Become(t) /\ hashes' = hashes
  BY DiskVarsSame DEF Unchoke
<1> HIDE DEF s
<1>3. s \in Near(Now) /\ s \in Sound
  BY <1>1, NowFields, Aside
<1>4. t \in Near(Now)
  BY <1>2, <1>3, NowFields, AskQuiet, QuietFrom
<1> QED BY <1>2, <1>4, NearStep

\* A choke gives requests back.
LEMMA ChokeStep ==
  ASSUME PipelineInv, NEW p \in Peers, Choke(p)
  PROVE  PipelineInv'
<1> DEFINE none == <<>>
           a == [Now EXCEPT !.choked = @ \cup {p}]
           s == GiveBackRequests(a, p)
           b == [s EXCEPT !.dq[p] = none]
           All == FoldLeft(LAMBDA t, e : Rejected(t, p, e.block), b, s.dq[p])
<1>1. a \in Shapes /\ a.blk = Now.blk /\ a.have = Now.have /\ a.picker = Now.picker
      /\ a.dead = Now.dead /\ a.writes = Now.writes
  BY NowFields DEF Shapes
<1>2. Become(IF p \in FastPeers THEN s ELSE All) /\ hashes' = hashes
  BY DiskVarsSame DEF Choke
<1>3. none \in Seq(Pending)
  OBVIOUS
<1> HIDE DEF a, none
<1>4. a \in Near(Now) /\ a \in Sound
  BY <1>1, NowFields, Aside
<1>5. s \in Near(Now) /\ s \in Sound
  BY <1>4, NowFields, GiveBackQuiet, QuietFrom, QuietKeepsSound
<1> HIDE DEF s
<1>6. b \in Shapes /\ b.blk = s.blk /\ b.have = s.have /\ b.picker = s.picker
      /\ b.dead = s.dead /\ b.writes = s.writes /\ s.dq[p] \in Seq(Pending)
  BY <1>3, <1>5 DEF Sound, Shapes
<1> HIDE DEF b
<1>7. b \in Near(Now) /\ b \in Sound
  BY <1>5, <1>6, NowFields, Aside, QuietFrom
<1>8. All \in Near(Now)
  BY <1>6, <1>7, NowFields, RejectAllQuiet, QuietFrom
<1> HIDE DEF All
<1> QED BY <1>2, <1>5, <1>8, NearStep

\* A reject gives one back.
LEMMA RejectRequestStep ==
  ASSUME PipelineInv, NEW p \in Peers, NEW n, RejectRequest(p, n)
  PROVE  PipelineInv'
<1> DEFINE q == RemoveAt(Now.dq[p], n)
           a == [Now EXCEPT !.dq[p] = q]
           s == Rejected(a, p, dq[p][n].block)
<1>1. dq[p] \in Seq(Pending) /\ n \in 1..Len(dq[p])
  BY NowFields DEF RejectRequest, Shapes
<1>2. dq[p][n].block \in Blocks /\ q \in Seq(Pending)
  <2>1. dq[p][n] \in Pending
    BY <1>1, ElementOfSeq
  <2> QED BY <1>1, <2>1, NowFields, RemoveAtFacts DEF Pending
<1>3. hashes' = hashes /\ (Become(s) \/ \E t \in Ask(s, p) : Become(t))
  BY DiskVarsSame DEF RejectRequest
<1> HIDE DEF q
<1>4. a \in Shapes /\ a.blk = Now.blk /\ a.have = Now.have /\ a.picker = Now.picker
      /\ a.dead = Now.dead /\ a.writes = Now.writes
  BY <1>2, NowFields DEF Shapes
<1> HIDE DEF a
<1>5. a \in Near(Now) /\ a \in Sound
  BY <1>4, NowFields, Aside
<1>6. s \in Near(Now) /\ s \in Sound
  BY <1>2, <1>5, NowFields, RejectedQuiet, QuietFrom, QuietKeepsSound
<1> HIDE DEF s
<1>7. \A t \in Ask(s, p) : t \in Near(Now)
  BY <1>6, NowFields, AskQuiet, QuietFrom
<1> QED BY <1>3, <1>6, <1>7, NearStep

\* A torrent that is no seed has a picker.
LEMMA PickerUnlessSeed == ASSUME NEW s, s.picker \in BOOLEAN, ~IsSeed(s) PROVE s.picker
BY DEF IsSeed

\* A block is accepted unless it came before.
LEMMA PieceStep ==
  ASSUME PipelineInv, NEW p \in Peers, NEW n, Piece(p, n)
  PROVE  PipelineInv'
<1> DEFINE b == dq[p][n].block
           s == Skip(Now, p, n)
           a == Accept(s, p, b)
<1>1. dq[p] \in Seq(Pending) /\ n \in 1..Len(dq[p]) /\ Now.dq[p] = dq[p] /\ Now.picker
  BY NowFields DEF Piece, Shapes, IsSeed
<1>2. b \in Blocks
  <2>1. dq[p][n] \in Pending
    BY <1>1, ElementOfSeq
  <2> QED BY <2>1 DEF Pending
<1>3. s \in Near(Now) /\ s \in Sound
  BY <1>1, NowFields, SkipQuiet, QuietKeepsSound
<1>4. a \in Sound /\ SameFinished(Now, a)
  <2> HIDE DEF s, b
  <2>1. a \in Sound /\ SameFinished(s, a) /\ SameFinished(Now, s)
    BY <1>2, <1>3, AcceptSound, NowFields, NearSameFinished
  <2> QED BY <2>1 DEF SameFinished
<1>5. PICK t \in Ask(a, p) : Become(t) \/ Become([t EXCEPT !.snubbed = @ \ {p}])
  BY DEF Piece
<1>6. hashes' = hashes
  BY DiskVarsSame DEF Piece
<1> HIDE DEF a
<1>7. t \in Sound /\ SameFinished(Now, t)
  <2>1. t \in Near(a) /\ t \in Sound /\ SameFinished(a, t)
    BY <1>4, AskQuiet, QuietKeepsSound, NearSameFinished
  <2> QED BY <1>4, <2>1 DEF SameFinished
<1> DEFINE u == [t EXCEPT !.snubbed = @ \ {p}]
<1>8. u \in Shapes /\ u.blk = t.blk /\ u.have = t.have /\ u.picker = t.picker
      /\ u.dead = t.dead /\ u.writes = t.writes
  BY <1>7 DEF Sound, Shapes
<1>9. Become(t) \/ Become(u)
  BY <1>5
<1> HIDE DEF u
<1>10. u \in Sound /\ SameFinished(Now, u)
  BY <1>7, <1>8, Aside DEF SameFinished, State
<1> QED BY <1>6, <1>7, <1>9, <1>10, SoundStep

\* A block that was not asked for is not looked at.
LEMMA UnwantedPieceStep ==
  ASSUME PipelineInv, NEW p \in Peers, UnwantedPiece(p)
  PROVE  PipelineInv'
<1>1. PICK s \in Ask(Now, p) : Become(s) /\ hashes' = hashes
  BY DiskVarsSame DEF UnwantedPiece
<1>2. s \in Near(Now)
  BY NowFields, AskQuiet
<1> QED BY <1>1, <1>2, NearStep

\* The length of the queue is nothing to the blocks.
LEMMA SecondTickStep ==
  ASSUME PipelineInv, NEW p \in Peers, SecondTick(p)
  PROVE  PipelineInv'
<1> DEFINE s == [Now EXCEPT !.desired[p] = QueueSize]
<1>1. s \in Shapes /\ s.blk = Now.blk /\ s.have = Now.have /\ s.picker = Now.picker
      /\ s.dead = Now.dead /\ s.writes = Now.writes
  BY NowFields, PipelineAssumption DEF Shapes
<1>2. Become(s) /\ hashes' = hashes
  BY DiskVarsSame DEF SecondTick
<1> HIDE DEF s
<1> QED BY <1>1, <1>2, NowFields, Aside, NearStep

\* A request that times out is given back after another was made.
LEMMA SnubPeerStep ==
  ASSUME PipelineInv, NEW p \in Peers, SnubPeer(p)
  PROVE  PipelineInv'
<1> DEFINE slow == [Now EXCEPT !.snubbed = @ \cup {p}, !.desired[p] = 1]
           b    == Last(QueueOf(Now, p))
           r    == [slow EXCEPT !.rq[p] = Front(@)]
           d    == [slow EXCEPT !.dq[p] = Front(@)]
           s    == IF rq[p] # <<>> THEN r ELSE d
<1>1. slow \in Shapes /\ slow.blk = Now.blk /\ slow.have = Now.have /\ slow.picker = Now.picker
      /\ slow.dead = Now.dead /\ slow.writes = Now.writes /\ slow.rq = rq /\ slow.dq = dq
  BY NowFields DEF Shapes
<1>2. /\ hashes' = hashes /\ dq[p] # <<>>
      /\ \/ TimesOut(Now, p) /\ \E t \in RequestABlock(s, p, 2) : Become(SendBlockRequests(Abort(t, b), p, 1))
         \/ Become(slow)
  BY DiskVarsSame DEF SnubPeer
<1> HIDE DEF slow
<1>3. slow \in Near(Now) /\ slow \in Sound
  BY <1>1, NowFields, Aside
<1>4. b \in Blocks
  <2> DEFINE q == QueueOf(Now, p)
  <2>1. q \in Seq(Blocks)
    BY NowFields, QueueIsBlocks
  <2>2. q # <<>>
    <3> DEFINE f == [m \in DOMAIN dq[p] |-> dq[p][m].block]
    <3>1. dq[p] \in Seq(Pending) /\ rq[p] \in Seq(Blocks) /\ dq[p] # <<>>
      BY <1>2, NowFields DEF Shapes
    <3>2. /\ Len(dq[p]) \in Nat /\ DOMAIN dq[p] = 1..Len(dq[p]) /\ Len(dq[p]) # 0
          /\ \A m \in 1..Len(dq[p]) : dq[p][m] \in Pending
      BY <3>1, LenProperties, EmptySeq, ElementOfSeq
    <3>3. f \in [1..Len(dq[p]) -> Blocks]
      BY <3>2 DEF Pending
    <3>4. f \in Seq(Blocks) /\ Len(f) = Len(dq[p])
      BY <3>2, <3>3
    <3>5. q = f \o rq[p]
      BY NowFields DEF QueueOf
    <3> HIDE DEF f, q
    <3>6. Len(q) = Len(f) + Len(rq[p]) /\ Len(rq[p]) \in Nat
      BY <3>1, <3>4, <3>5, ConcatProperties, LenProperties
    <3>8. Len(f) \in Nat /\ Len(f) # 0
      BY <3>2, <3>4
    <3>7. Len(q) # 0
      BY <3>6, <3>8
    <3> QED BY <3>7
  <2> HIDE DEF q
  <2>3. Last(q) \in Blocks
    BY <2>1, <2>2, FrontOfSeq
  <2> QED BY <2>3 DEF q
<1>5. s \in Near(Now) /\ s \in Sound
  <2>1. CASE rq[p] # <<>>
    <3> DEFINE q == Front(slow.rq[p])
               u == [slow EXCEPT !.rq[p] = q]
    <3>1. q \in Seq(Blocks)
      BY <1>1, <2>1, FrontOfSeq DEF Shapes
    <3>2. s = u
      BY <2>1
    <3> HIDE DEF q, s
    <3>3. u \in Shapes /\ u.blk = slow.blk /\ u.have = slow.have /\ u.picker = slow.picker
          /\ u.dead = slow.dead /\ u.writes = slow.writes
      BY <1>1, <3>1 DEF Shapes
    <3> HIDE DEF u
    <3> QED BY <1>3, <3>2, <3>3, NowFields, Aside, QuietFrom
  <2>2. CASE ~ (rq[p] # <<>>)
    <3> DEFINE q == Front(slow.dq[p])
               u == [slow EXCEPT !.dq[p] = q]
    <3>1. q \in Seq(Pending)
      BY <1>1, <1>2, FrontOfSeq DEF Shapes
    <3>2. s = u
      BY <2>2
    <3> HIDE DEF q, s
    <3>3. u \in Shapes /\ u.blk = slow.blk /\ u.have = slow.have /\ u.picker = slow.picker
          /\ u.dead = slow.dead /\ u.writes = slow.writes
      BY <1>1, <3>1 DEF Shapes
    <3> HIDE DEF u
    <3> QED BY <1>3, <3>2, <3>3, NowFields, Aside, QuietFrom
  <2> QED BY <2>1, <2>2
<1> HIDE DEF s, b
<1>6. ASSUME TimesOut(Now, p), NEW t \in RequestABlock(s, p, 2)
      PROVE  SendBlockRequests(Abort(t, b), p, 1) \in Near(Now)
  <2>1. t \in Near(Now) /\ t \in Sound
    BY <1>5, NowFields, RequestQuiet, QuietFrom, QuietKeepsSound
  <2>2. t.picker
    BY <1>6, <2>1 DEF TimesOut, Near, Quiet
  <2>3. Abort(t, b) \in Near(Now) /\ Abort(t, b) \in Sound
    BY <1>4, <2>1, <2>2, NowFields, AbortQuiet, QuietFrom, QuietKeepsSound
  <2> QED BY <2>3, NowFields, SendQuiet, QuietFrom
<1> QED BY <1>2, <1>3, <1>6, NearStep

-----------------------------------------------------------------------------
(***************************************************************************)
(* The steps of the disk thread and of the user.                            *)
(***************************************************************************)

\* A write is of a block marked as writing, of a piece that we do not have.
LEMMA BeingWritten ==
  ASSUME PipelineInv, NEW b \in Blocks, NEW n \in DOMAIN writes[b]
  PROVE  /\ State(Now, b) = "writing" /\ n = 1 /\ Len(writes[b]) = 1
         /\ writes[b] \in Seq(Writers) /\ writes[b][1] \in Writers
         /\ writes[b][1] \in {blk[b].from, Nobody}
         /\ PieceOf(b) \in Pieces /\ PieceOf(b) \notin have /\ picker
         /\ blk[b] \in Infos
<1>1. writes[b] \in Seq(Writers) /\ blk[b] \in Infos /\ PieceOf(b) \in Pieces
  BY NowFields, PieceOfBlock DEF Shapes
<1>2. Len(writes[b]) \in Nat /\ DOMAIN writes[b] = 1..Len(writes[b])
  BY <1>1, LenProperties
<1>3. Len(writes[b]) = IF State(Now, b) = "writing" THEN 1 ELSE 0
  BY NowFields DEF Sound, WrittenOnce
<1>4. State(Now, b) = "writing" /\ Len(writes[b]) = 1 /\ n = 1
  BY <1>2, <1>3
<1>5. writes[b][1] \in Writers
  BY <1>1, <1>4, ElementOfSeq
<1>6. writes[b][1] \in {blk[b].from, Nobody}
  BY <1>4, NowFields DEF Sound, WriterNoted
<1>7. PieceOf(b) \notin have
  BY <1>4, NowFields DEF Sound, NoBlocksOfHave
<1>8. picker
  BY <1>1, <1>7, NowFields DEF Sound, PickerUntilDone, Shapes
<1> QED BY <1>1, <1>4, <1>5, <1>6, <1>7, <1>8

\* When it is done or has failed the block is finished or free.
LEMMA AfterWrite ==
  ASSUME PipelineInv, NEW b \in Blocks, NEW n \in DOMAIN writes[b], NEW info \in Infos,
         info.state = "none" \/ (info.state = "finished" /\ info.peer \in {info.from, Nobody})
  PROVE  LET t == SetBlock(Written(Now, b, n), b, info)
         IN  /\ t \in Sound /\ t.blk[b] = info
             /\ \A c \in Blocks : c # b => t.blk[c] = blk[c]
<1> DEFINE q == RemoveAt(writes[b], n)
           w == [writes EXCEPT ![b] = q]
           s == [Now EXCEPT !.writes = w]
           f == [blk EXCEPT ![b] = info]
           t == [s EXCEPT !.blk = f]
<1>1. q \in Seq(Writers) /\ Len(q) = 0
  BY BeingWritten, RemoveAtFacts
<1>2. /\ writes \in [Blocks -> Seq(Writers)] /\ blk \in [Blocks -> Infos]
      /\ s = Written(Now, b, n) /\ s.blk = blk
  BY NowFields DEF Shapes, Written
<1>3. t = SetBlock(Written(Now, b, n), b, info)
  <2> HIDE DEF s
  <2> QED BY <1>2 DEF SetBlock
<1> HIDE DEF q
<1>4. w \in [Blocks -> Seq(Writers)] /\ w[b] = q /\ \A c \in Blocks : c # b => w[c] = writes[c]
  BY <1>1, <1>2
<1>5. f \in [Blocks -> Infos] /\ f[b] = info /\ \A c \in Blocks : c # b => f[c] = blk[c]
  BY <1>2
<1> HIDE DEF w, f
<1>6. t \in Shapes /\ t.blk = f /\ t.have = have /\ t.picker = picker
      /\ t.dead = dead /\ t.writes = w
  BY <1>4, <1>5, NowFields DEF Shapes
<1> HIDE DEF t
<1>7. State(t, b) = info.state
      /\ \A c \in Blocks : c # b => t.blk[c] = blk[c] /\ State(t, c) = State(Now, c)
  BY <1>5, <1>6, NowFields DEF State
<1>8. NoBlocksOfHave(t) /\ PickerUntilDone(t) /\ ~t.dead
  BY <1>6, <1>7, NowFields, BeingWritten DEF Sound, NoBlocksOfHave, PickerUntilDone
<1>9. WrittenOnce(t)
  BY <1>1, <1>4, <1>6, <1>7, NowFields DEF Sound, WrittenOnce
<1>10. SenderNoted(Now) /\ WriterNoted(Now)
  BY NowFields DEF Sound
<1>11. SenderNoted(t)
  <2>1. \A c \in Blocks \ {b} : t.blk[c] = Now.blk[c] /\ State(t, c) = State(Now, c)
    BY <1>7, NowFields
  <2>2. t.blk[b] = info /\ State(t, b) = info.state
    BY <1>5, <1>6, <1>7
  <2> QED BY <1>10, <2>1, <2>2 DEF SenderNoted
<1>12. WriterNoted(t)
  <2>1. \A c \in Blocks \ {b} :
          t.blk[c] = Now.blk[c] /\ t.writes[c] = Now.writes[c] /\ State(t, c) = State(Now, c)
    BY <1>4, <1>6, <1>7, NowFields
  <2>2. State(t, b) # "writing"
    BY <1>7
  <2> QED BY <1>10, <2>1, <2>2 DEF WriterNoted
<1> QED BY <1>3, <1>5, <1>6, <1>7, <1>8, <1>9, <1>11, <1>12 DEF Sound

\* Taking the write from the disk's queue changes no block.
LEMMA WrittenFields ==
  ASSUME PipelineInv, NEW b, NEW n
  PROVE  /\ Written(Now, b, n).blk = blk /\ Written(Now, b, n).have = have
         /\ Written(Now, b, n).picker = picker
BY DEF Written, Now

\* on_disk_write_complete starts the hash when this was the last block.
LEMMA WriteCompleteStep ==
  ASSUME PipelineInv, NEW b \in Blocks, NEW n \in DOMAIN writes[b], WriteComplete(b, n)
  PROVE  PipelineInv'
<1> DEFINE p == writes[b][n]
           i == PieceOf(b)
           s == Written(Now, b, n)
           t == MarkAsFinished(s, b, p)
           info == [blk[b] EXCEPT !.state = "finished", !.peer = p]
<1>1. /\ State(Now, b) = "writing" /\ p \in Writers /\ p \in {blk[b].from, Nobody}
      /\ i \in Pieces /\ i \notin have /\ picker /\ blk[b] \in Infos
  BY BeingWritten
<1> HIDE DEF p
<1>2. info \in Infos /\ info.state = "finished" /\ info.peer = p /\ info.from = blk[b].from
  <2> DEFINE j == [blk[b] EXCEPT !.state = "finished"]
             k == [j EXCEPT !.peer = p]
  <2>1. j \in Infos /\ j.state = "finished" /\ j.from = blk[b].from
    BY <1>1 DEF Infos, BlockStates
  <2>2. info = k
    OBVIOUS
  <2> HIDE DEF j, info
  <2>3. k \in Infos /\ k.state = "finished" /\ k.peer = p /\ k.from = blk[b].from
    BY <1>1, <2>1 DEF Infos
  <2> QED BY <2>2, <2>3
<1>3. t = SetBlock(s, b, info)
  BY WrittenFields DEF MarkAsFinished
<1>4. ~IsSeed(s)
  BY <1>1, WrittenFields DEF IsSeed
<1> HIDE DEF info, s
<1>5. t \in Sound /\ t.blk[b] = info /\ \A c \in Blocks : c # b => t.blk[c] = blk[c]
  BY <1>1, <1>2, <1>3, AfterWrite DEF s
<1>6. PICK u \in (IF p = Nobody THEN {t} ELSE Ask(t, p)) :
         /\ Become(u)
         /\ hashes' = IF AllFinished(t, i) THEN [hashes EXCEPT ![i] = @ + 1] ELSE hashes
  BY <1>4 DEF WriteComplete, s, p
<1> HIDE DEF t
<1>7. u \in Sound /\ SameFinished(t, u)
  <2>1. CASE p = Nobody
    BY <1>5, <1>6, <2>1 DEF SameFinished
  <2>2. CASE p # Nobody
    <3>1. p \in Peers /\ u \in Ask(t, p)
      BY <1>1, <1>6, <2>2 DEF Writers
    <3> QED BY <1>5, <3>1, AskQuiet, QuietKeepsSound, NearSameFinished
  <2> QED BY <2>1, <2>2
<1>8. \A c \in Blocks : (State(u, c) = "finished") <=> (c = b \/ State(Now, c) = "finished")
  BY <1>2, <1>5, <1>7, NowFields DEF SameFinished, State
<1>9. AllFinished(t, i) <=> \A c \in BlocksOf(i) : State(u, c) = "finished"
  BY <1>7 DEF AllFinished, SameFinished, BlocksOf
<1>10. hashes \in [Pieces -> Nat] /\ hashes[i] = 0
  BY <1>1, NowFields DEF HashExact, BlocksOf
<1>11. hashes' \in [Pieces -> Nat]
  BY <1>1, <1>6, <1>10
<1>12. ASSUME NEW k \in Pieces
       PROVE  hashes'[k] = IF \A c \in BlocksOf(k) : State(u, c) = "finished" THEN 1 ELSE 0
  <2>1. CASE k = i
    <3>1. hashes'[i] = IF AllFinished(t, i) THEN 1 ELSE 0
      BY <1>1, <1>6, <1>10
    <3> QED BY <1>9, <2>1, <3>1
  <2>2. CASE k # i
    <3>1. hashes'[k] = hashes[k]
      BY <1>6, <1>10, <2>2
    <3>2. \A c \in BlocksOf(k) : (State(u, c) = "finished") <=> (State(Now, c) = "finished")
      BY <1>8, <2>2 DEF BlocksOf
    <3> QED BY <3>1, <3>2, NowFields DEF HashExact
  <2> QED BY <2>1, <2>2
<1>13. HashExact(u, hashes')
  BY <1>11, <1>12 DEF HashExact
<1>14. Now' = u
  BY <1>6, <1>7, BecomeNow DEF Sound
<1>15. HashExact(Now, hashes)' = HashExact(Now', hashes')
  BY DEF HashExact, State
<1> QED BY <1>7, <1>13, <1>14, <1>15 DEF PipelineInv

\* A write that failed frees its block, which is in m_downloads.
LEMMA WriteErrorStep ==
  ASSUME PipelineInv, NEW b \in Blocks, NEW n \in DOMAIN writes[b], WriteError(b, n)
  PROVE  PipelineInv'
<1> DEFINE s == Written(Now, b, n)
           t == IF s.picker THEN WriteFailed(s, b) ELSE s
           info == [blk[b] EXCEPT !.state = "none", !.peer = Nobody, !.from = Nobody]
<1>1. State(Now, b) = "writing" /\ picker /\ blk[b] \in Infos
  BY BeingWritten
<1>2. info \in Infos /\ info.state = "none"
  <2> DEFINE j == [blk[b] EXCEPT !.state = "none"]
             k == [j EXCEPT !.peer = Nobody]
             l == [k EXCEPT !.from = Nobody]
  <2>1. j \in Infos /\ j.state = "none"
    BY <1>1 DEF Infos, BlockStates
  <2>2. info = l
    OBVIOUS
  <2> HIDE DEF j, info
  <2>3. k \in Infos /\ k.state = "none"
    BY <2>1 DEF Infos, Writers
  <2> HIDE DEF k
  <2>4. l \in Infos /\ l.state = "none"
    BY <2>3 DEF Infos, Writers
  <2> QED BY <2>2, <2>4
<1>3. Downloading(s, PieceOf(b))
  <2>1. State(s, b) = "writing"
    BY <1>1, WrittenFields, NowFields DEF State
  <2> HIDE DEF s
  <2> QED BY <2>1 DEF Downloading, BlocksOf
<1>4. t = SetBlock(s, b, info)
  BY <1>1, <1>3, WrittenFields DEF WriteFailed
<1> HIDE DEF info
<1>5. t \in Sound /\ t.blk[b] = info /\ \A c \in Blocks : c # b => t.blk[c] = blk[c]
  BY <1>2, <1>4, AfterWrite
<1>6. SameFinished(Now, t)
  BY <1>1, <1>2, <1>5, NowFields DEF SameFinished, State
<1>7. Become(CloseAll(t, Peers)) /\ hashes' = hashes
  BY DEF WriteError
<1> HIDE DEF t
<1>8. CloseAll(t, Peers) \in Sound /\ SameFinished(t, CloseAll(t, Peers))
  BY <1>5, CloseAllQuiet, QuietKeepsSound, NearSameFinished
<1>9. SameFinished(Now, CloseAll(t, Peers))
  BY <1>6, <1>8 DEF SameFinished
<1> QED BY <1>7, <1>8, <1>9, SoundStep

\* Pausing closes every connection.
LEMMA PauseStep == ASSUME PipelineInv, Pause PROVE PipelineInv'
<1>1. Become(CloseAll(Now, Peers)) /\ hashes' = hashes
  BY DEF Pause
<1> QED BY <1>1, NowFields, CloseAllQuiet, NearStep

\* Resuming changes no block.
LEMMA ResumeStep == ASSUME PipelineInv, Resume PROVE PipelineInv'
<1>1. Become(Now) /\ hashes' = hashes
  BY DEF Resume
<1> QED BY <1>1, NowFields, QuietIsReflexive, NearStep

\* A verdict comes for a piece in m_downloads with all blocks finished.
LEMMA VerdictDue ==
  ASSUME PipelineInv, NEW i \in Pieces, hashes[i] > 0
  PROVE  /\ picker /\ Downloading(Now, i) /\ i \notin have /\ hashes[i] = 1
         /\ \A b \in BlocksOf(i) : State(Now, b) = "finished"
<1>1. hashes[i] = 1 /\ \A b \in BlocksOf(i) : State(Now, b) = "finished"
  BY NowFields DEF HashExact
<1>2. PICK b \in Blocks : PieceOf(b) = i
  BY PieceHasBlock
<1>3. b \in BlocksOf(i) /\ State(Now, b) = "finished"
  BY <1>1, <1>2 DEF BlocksOf
<1>4. i \notin have
  BY <1>2, <1>3, NowFields DEF Sound, NoBlocksOfHave
<1>5. picker
  BY <1>4, NowFields DEF Sound, PickerUntilDone, Shapes
<1>6. Downloading(Now, i)
  BY <1>3 DEF Downloading
<1> QED BY <1>1, <1>4, <1>5, <1>6

\* It uses up the hash, and gives up the blocks of the piece.
LEMMA VerdictStep ==
  ASSUME PipelineInv, NEW i \in Pieces, NEW S, Verdict(i, S),
         \A t \in S : t \in Sound /\ GaveUp(Now, t, i)
  PROVE  PipelineInv'
<1>1. hashes[i] > 0 /\ hashes' = [hashes EXCEPT ![i] = @ - 1]
  BY DEF Verdict
<1>2. picker /\ Downloading(Now, i) /\ hashes[i] = 1
  BY <1>1, VerdictDue
<1>3. PICK t \in S : Become(t)
  BY <1>2 DEF Verdict
<1>4. t \in Sound /\ GaveUp(Now, t, i) /\ Now' = t
  BY <1>3, BecomeNow DEF Sound
<1>5. hashes \in [Pieces -> Nat]
  BY NowFields DEF HashExact
<1>6. hashes' \in [Pieces -> Nat]
  BY <1>1, <1>2, <1>5
<1>7. ASSUME NEW k \in Pieces
      PROVE  hashes'[k] = IF \A c \in BlocksOf(k) : State(t, c) = "finished" THEN 1 ELSE 0
  <2>1. CASE k = i
    <3>1. hashes'[k] = 0
      BY <1>1, <1>2, <1>5, <2>1
    <3>2. PICK b \in Blocks : PieceOf(b) = i
      BY PieceHasBlock
    <3>3. b \in BlocksOf(k) /\ State(t, b) # "finished"
      BY <1>4, <2>1, <3>2 DEF GaveUp, BlocksOf
    <3> QED BY <3>1, <3>3
  <2>2. CASE k # i
    <3>1. hashes'[k] = hashes[k]
      BY <1>1, <1>5, <2>2
    <3>2. \A c \in BlocksOf(k) : (State(t, c) = "finished") <=> (State(Now, c) = "finished")
      BY <1>4, <2>2 DEF BlocksOf, GaveUp
    <3> QED BY <3>1, <3>2, NowFields DEF HashExact
  <2> QED BY <2>1, <2>2
<1>8. HashExact(t, hashes')
  BY <1>6, <1>7 DEF HashExact
<1>9. HashExact(Now, hashes)' = HashExact(Now', hashes')
  BY DEF HashExact, State
<1> QED BY <1>4, <1>8, <1>9 DEF PipelineInv

\* Restoring the piece after quiet calls.
LEMMA RestoreNear ==
  ASSUME PipelineInv, NEW i \in Pieces, hashes[i] > 0, NEW s \in Near(Now), NEW u \in Restore(s, i)
  PROVE  u \in Sound /\ GaveUp(Now, u, i)
<1>1. s \in Sound /\ SameFinished(Now, s) /\ s.have = have
  BY NowFields, QuietKeepsSound, NearSameFinished DEF Near, Quiet
<1>2. i \notin s.have /\ \A b \in BlocksOf(i) : State(s, b) = "finished"
  BY <1>1, VerdictDue DEF SameFinished, BlocksOf
<1>3. u \in Sound /\ GaveUp(s, u, i)
  BY <1>1, <1>2, RestoreSound
<1> QED BY <1>1, <1>3 DEF GaveUp, SameFinished

\* BP2P has the piece restored.
LEMMA PieceWithheldStep ==
  ASSUME PipelineInv, NEW i \in Pieces, PieceWithheld(i)
  PROVE  PipelineInv'
<1>1. Verdict(i, Restore(Now, i)) /\ hashes[i] > 0
  BY DEF PieceWithheld, Verdict
<1>2. \A u \in Restore(Now, i) : u \in Sound /\ GaveUp(Now, u, i)
  BY <1>1, NowFields, QuietIsReflexive, RestoreNear
<1> QED BY <1>1, <1>2, VerdictStep

\* The piece could not be read: restored, with every connection closed.
LEMMA HashErrorStep ==
  ASSUME PipelineInv, NEW i \in Pieces, HashError(i)
  PROVE  PipelineInv'
<1>1. Verdict(i, Restore(CloseAll(Now, Peers), i)) /\ hashes[i] > 0
  BY DEF HashError, Verdict
<1>2. \A u \in Restore(CloseAll(Now, Peers), i) : u \in Sound /\ GaveUp(Now, u, i)
  BY <1>1, NowFields, CloseAllQuiet, RestoreNear
<1> QED BY <1>1, <1>2, VerdictStep

\* The piece is restored after some of the senders were banned.
LEMMA PieceFailedStep ==
  ASSUME PipelineInv, NEW i \in Pieces, PieceFailed(i)
  PROVE  PipelineInv'
<1> DEFINE from == Downloaders(Now, i)
           s == [Now EXCEPT !.parole = @ \cup (from \cap conn)]
<1>1. PICK B \in SUBSET (from \ {Nobody}) : Verdict(i, Restore(CloseAll(s, B), i))
  BY DEF PieceFailed
<1> HIDE DEF from
<1>2. hashes[i] > 0
  BY <1>1 DEF Verdict
<1>3. s \in Shapes /\ s.blk = Now.blk /\ s.have = Now.have /\ s.picker = Now.picker
      /\ s.dead = Now.dead /\ s.writes = Now.writes
  BY NowFields DEF Shapes
<1> HIDE DEF s
<1>4. s \in Near(Now) /\ s \in Sound
  BY <1>3, NowFields, Aside
<1>5. CloseAll(s, B) \in Near(Now)
  BY <1>4, NowFields, CloseAllQuiet, QuietFrom
<1>6. \A u \in Restore(CloseAll(s, B), i) : u \in Sound /\ GaveUp(Now, u, i)
  BY <1>2, <1>5, RestoreNear
<1> QED BY <1>1, <1>6, VerdictStep

\* we_have: the piece leaves m_downloads as we get it.
LEMMA PieceGained ==
  ASSUME PipelineInv, NEW i \in Pieces, hashes[i] > 0
  PROVE  LET s == [EraseDownload(Now, i) EXCEPT !.have = @ \cup {i}]
         IN  /\ s \in Sound /\ s \in Shapes /\ GaveUp(Now, s, i)
             /\ s.blk = EraseDownload(Now, i).blk /\ s.have = have \cup {i}
             /\ s.picker = picker /\ s.parole = parole
             /\ s.rq = rq /\ s.dq = dq /\ s.conn = conn /\ s.choked = choked
<1> DEFINE e == EraseDownload(Now, i)
           s == [e EXCEPT !.have = @ \cup {i}]
<1>1. i \notin have /\ picker /\ \A b \in BlocksOf(i) : State(Now, b) = "finished"
  BY VerdictDue
<1>2. /\ e \in Sound /\ e.have = have /\ e.picker = picker /\ GaveUp(Now, e, i)
      /\ \A b \in Blocks : PieceOf(b) = i => State(e, b) = "none"
  BY <1>1, NowFields, ErasedSound
<1>3. e.rq = rq /\ e.dq = dq /\ e.conn = conn /\ e.choked = choked /\ e.parole = parole
  BY NowFields DEF EraseDownload, Shapes
<1> HIDE DEF e
<1>4. s \in Shapes /\ s.blk = e.blk /\ s.have = have \cup {i} /\ s.picker = e.picker
      /\ s.dead = e.dead /\ s.writes = e.writes
  BY <1>2 DEF Sound, Shapes
<1>5. s.rq = e.rq /\ s.dq = e.dq /\ s.conn = e.conn /\ s.choked = e.choked /\ s.parole = e.parole
  BY <1>2 DEF Sound, Shapes
<1> HIDE DEF s
<1>6. NoBlocksOfHave(s) /\ PickerUntilDone(s) /\ ~s.dead
  BY <1>1, <1>2, <1>4 DEF Sound, NoBlocksOfHave, PickerUntilDone, State
<1>7. WrittenOnce(s) /\ SenderNoted(s) /\ WriterNoted(s)
  BY <1>2, <1>4 DEF Sound, WrittenOnce, SenderNoted, WriterNoted, State
<1>8. GaveUp(Now, s, i)
  BY <1>2, <1>4 DEF GaveUp, State
<1>9. s \in Sound
  BY <1>4, <1>6, <1>7 DEF Sound
<1> QED BY <1>2, <1>3, <1>4, <1>5, <1>8, <1>9 DEF s, e

\* Then requests are made twice, and perhaps the torrent is done.
LEMMA PiecePassedStep ==
  ASSUME PipelineInv, NEW i \in Pieces, PiecePassed(i)
  PROVE  PipelineInv'
<1> DEFINE s == [EraseDownload(Now, i) EXCEPT !.have = @ \cup {i}]
           Trusted(t) == [t EXCEPT !.parole = @ \ Downloaders(Now, i)]
           S == UNION {{Finished(u) : u \in AskAll({Trusted(t) : t \in AskAll({s}, order)}, order)}
                         : order \in SetToSeqs(conn)}
<1>1. Verdict(i, S)
  BY DEF PiecePassed, AskAll
<1>2. hashes[i] > 0
  BY <1>1 DEF Verdict
<1>3. s \in Sound /\ s \in Shapes /\ GaveUp(Now, s, i)
  BY <1>2, PieceGained
<1> HIDE DEF s
<1>4. ASSUME NEW order \in SetToSeqs(conn),
             NEW u \in AskAll({Trusted(t) : t \in AskAll({s}, order)}, order)
      PROVE  Finished(u) \in Sound /\ GaveUp(Now, Finished(u), i)
  <2>1. order \in Seq(Peers)
    BY NowFields, OrderOfPeers DEF Shapes
  <2>2. AskAll({s}, order) \subseteq Near(s)
    <3>1. {s} \subseteq Near(s)
      BY <1>3, QuietIsReflexive
    <3> QED BY <1>3, <2>1, <3>1, AskEachQuiet DEF AskAll
  <2>3. ASSUME NEW t \in Near(s) PROVE Trusted(t) \in Near(s)
    <3>1. t \in Sound /\ t \in Shapes
      BY <1>3, QuietKeepsSound DEF Sound
    <3>2. /\ Trusted(t) \in Shapes /\ Trusted(t).blk = t.blk /\ Trusted(t).have = t.have
          /\ Trusted(t).picker = t.picker /\ Trusted(t).dead = t.dead
          /\ Trusted(t).writes = t.writes
      BY <3>1 DEF Shapes
    <3> HIDE DEF Trusted
    <3> QED BY <1>3, <3>1, <3>2, Aside, QuietFrom
  <2>4. {Trusted(t) : t \in AskAll({s}, order)} \subseteq Near(s)
    BY <2>2, <2>3
  <2>5. u \in Near(s)
    <3> DEFINE T == {Trusted(t) : t \in AskAll({s}, order)}
    <3>1. T \in SUBSET Near(s) /\ u \in AskAll(T, order)
      BY <1>4, <2>4
    <3> HIDE DEF T
    <3> QED BY <1>3, <2>1, <3>1, AskEachQuiet DEF AskAll
  <2>6. u \in Sound /\ SameFinished(s, u)
    BY <1>3, <2>5, QuietKeepsSound, NearSameFinished
  <2>7. Finished(u) \in Sound /\ SameFinished(u, Finished(u))
    BY <2>6, FinishedSound
  <2> QED BY <1>3, <2>6, <2>7 DEF SameFinished, GaveUp
<1>5. \A t \in S : t \in Sound /\ GaveUp(Now, t, i)
  <2> HIDE DEF Trusted
  <2> DEFINE T(order) == AskAll({Trusted(t) : t \in AskAll({s}, order)}, order)
  <2>1. \A order \in SetToSeqs(conn) : \A u \in T(order) :
          Finished(u) \in Sound /\ GaveUp(Now, Finished(u), i)
    BY <1>4
  <2> HIDE DEF T
  <2>2. S = UNION {{Finished(u) : u \in T(order)} : order \in SetToSeqs(conn)}
    BY DEF T
  <2> HIDE DEF S
  <2> QED BY <2>1, <2>2
<1> HIDE DEF S
<1> QED BY <1>1, <1>5, VerdictStep

-----------------------------------------------------------------------------
(***************************************************************************)
(* The theorems.                                                            *)
(***************************************************************************)

\* Every step keeps the invariant.
LEMMA PipelineStep == ASSUME PipelineInv, [Next]_vars PROVE PipelineInv'
<1>1. CASE PeersAct
  <2>1. ASSUME NEW p \in Peers,
               Connect(p) \/ Disconnect(p) \/ Unchoke(p) \/ Choke(p)
               \/ UnwantedPiece(p) \/ SnubPeer(p) \/ SecondTick(p)
        PROVE  PipelineInv'
    BY <2>1, ConnectStep, DisconnectStep, UnchokeStep, ChokeStep, UnwantedPieceStep,
       SnubPeerStep, SecondTickStep
  <2>2. ASSUME NEW p \in Peers, NEW n \in DOMAIN dq[p], RejectRequest(p, n) \/ Piece(p, n)
        PROVE  PipelineInv'
    BY <2>2, RejectRequestStep, PieceStep
  <2> QED BY <1>1, <2>1, <2>2 DEF PeersAct
<1>2. CASE DiskAnswers
  <2>1. ASSUME NEW b \in Blocks, NEW n \in DOMAIN writes[b], WriteComplete(b, n)
        PROVE  PipelineInv'
    BY <2>1, WriteCompleteStep
  <2>2. ASSUME NEW i \in Pieces, PiecePassed(i) \/ PieceFailed(i) \/ PieceWithheld(i)
        PROVE  PipelineInv'
    BY <2>2, PiecePassedStep, PieceFailedStep, PieceWithheldStep
  <2> QED BY <1>2, <2>1, <2>2 DEF DiskAnswers
<1>3. CASE DiskFails
  <2>1. ASSUME NEW b \in Blocks, NEW n \in DOMAIN writes[b], WriteError(b, n)
        PROVE  PipelineInv'
    BY <2>1, WriteErrorStep
  <2>2. ASSUME NEW i \in Pieces, HashError(i) PROVE PipelineInv'
    BY <2>2, HashErrorStep
  <2> QED BY <1>3, <2>1, <2>2 DEF DiskFails
<1>4. CASE Pause \/ Resume
  BY <1>4, PauseStep, ResumeStep
<1>5. CASE UNCHANGED vars
  BY <1>5 DEF vars, PipelineInv, Now, HashExact, State
<1> QED BY <1>1, <1>2, <1>3, <1>4, <1>5 DEF Next

\* What the invariant says of the properties.
LEMMA PipelineInvImplies ==
  ASSUME PipelineInv
  PROVE  TypeOK /\ OneWrite /\ OneHash /\ BlameExact /\ NeverDies
<1>1. TypeOK
  BY NowFields DEF TypeOK, Shapes, HashExact, Infos, Writers
<1>2. OneWrite
  BY NowFields DEF OneWrite, Sound, WrittenOnce
<1>3. OneHash
  BY NowFields DEF OneHash, HashExact
<1>4. BlameExact
  BY NowFields DEF BlameExact, Sound, SenderNoted
<1>5. NeverDies
  BY NowFields DEF NeverDies, Sound
<1> QED BY <1>1, <1>2, <1>3, <1>4, <1>5

\* The invariant holds.
LEMMA PipelineAlways == Spec => []PipelineInv
<1>1. Init => PipelineInv
  BY InitPipeline
<1>2. PipelineInv /\ [Next]_vars => PipelineInv'
  BY PipelineStep
<1> QED BY <1>1, <1>2, PTL DEF Spec

\* The state is well-formed in every state, and no counter of peers or of
\* hashes wraps below 0.
THEOREM PipelineTypeCorrect == Spec => []TypeOK
<1>1. PipelineInv => TypeOK
  BY PipelineInvImplies
<1> QED BY <1>1, PipelineAlways, PTL

\* A block is with the disk thread once while it is marked as writing, and else
\* not at all: the copies that other peers send, because incoming_piece marks
\* the block before cancel_block looks at it, are dropped.
THEOREM BlockWrittenOnce == Spec => []OneWrite
<1>1. PipelineInv => OneWrite
  BY PipelineInvImplies
<1> QED BY <1>1, PipelineAlways, PTL

\* A hash of a piece is under way exactly while all its blocks are finished, so
\* that piece_passed and piece_failed run once for each time it was filled.
THEOREM PieceHashedOnce == Spec => []OneHash
<1>1. PipelineInv => OneHash
  BY PipelineInvImplies
<1> QED BY <1>1, PipelineAlways, PTL

\* piece_failed puts on parole, or bans, only who sent the block.
THEOREM BlameAlwaysExact == Spec => []BlameExact
<1>1. PipelineInv => BlameExact
  BY PipelineInvImplies
<1> QED BY <1>1, PipelineAlways, PTL

\* No handler asks a picker that is gone, or looks in m_downloads for a piece
\* that is not there, whatever chokes, rejects, snubs, disconnects, disk errors
\* and failed hashes come in between.
THEOREM HandlersNeverDie == Spec => []NeverDies
<1>1. PipelineInv => NeverDies
  BY PipelineInvImplies
<1> QED BY <1>1, PipelineAlways, PTL
=============================================================================

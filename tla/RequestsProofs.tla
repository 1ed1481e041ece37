--------------------------- MODULE RequestsProofs ---------------------------
(***************************************************************************)
(* Proofs about DownloadPipeline, for any peers and any torrent: num_peers  *)
(* of a block is the number of connections that have it in a queue, and no  *)
(* block is twice in the queues of one peer.                               *)
(*                                                                         *)
(* Both hold between the handlers and not within them: a block has left one *)
(* queue before it is given back, is put into the other or comes to be      *)
(* written.  So there is a table of who is counted for which block.  Owing  *)
(* (w, E) holds the records in which w is counted for the blocks E besides  *)
(* those in its queues, Without(X) those in which nobody is counted for X;  *)
(* Balanced are those in which the queues alone count.  Each call, and each *)
(* fold of calls, has a lemma that says from which of these sets it leads   *)
(* to which, and every handler leads from Balanced to Balanced.            *)
(***************************************************************************)
EXTENDS DownloadPipelineProofs

-----------------------------------------------------------------------------
(***************************************************************************)
(* Whom the requests of a block belong to.  In the middle of a handler that *)
(* need not be what the queues say: a table A has the blocks that every     *)
(* peer is counted for, and Nobody for what is owed back without being in a *)
(* queue.                                                                  *)
(***************************************************************************)

\* The blocks asked of a peer.
Asked(s, p) == ToSet(QueueOf(s, p))

Tables == [Writers -> SUBSET Blocks]

\* Those who are counted for block b.
Claims(A, b) == {w \in Writers : b \in A[w]}

\* num_peers of every block that has not come yet.
Ledger(s, A) ==
  \A b \in Blocks : ~IsDownloaded(s, b) => s.blk[b].peers = Cardinality(Claims(A, b))

\* A block is requested exactly when somebody is counted for it.
Meant(s) == \A b \in Blocks : (s.blk[b].peers > 0) <=> (State(s, b) = "requested")

\* There are finitely many peers.
LEMMA FiniteClaims ==
  ASSUME NEW A, NEW b
  PROVE  IsFiniteSet(Claims(A, b)) /\ Cardinality(Claims(A, b)) \in Nat
<1>1. IsFiniteSet(Writers)
  BY PipelineAssumption, FS_AddElement DEF Writers
<1>2. IsFiniteSet(Claims(A, b))
  BY <1>1, FS_Subset DEF Claims
<1> QED BY <1>2, FS_CardinalityType

\* One more block on somebody's account, or one less.
LEMMA ClaimFacts ==
  ASSUME NEW A \in Tables, NEW w \in Writers, NEW b \in Blocks
  PROVE  LET more == [A EXCEPT ![w] = @ \cup {b}]
             less == [A EXCEPT ![w] = @ \ {b}]
         IN  /\ more \in Tables /\ less \in Tables
             /\ \A c \in Blocks : c # b => Claims(more, c) = Claims(A, c)
             /\ \A c \in Blocks : c # b => Claims(less, c) = Claims(A, c)
             /\ b \notin A[w] => Cardinality(Claims(more, b)) = Cardinality(Claims(A, b)) + 1
             /\ b \in A[w] => Cardinality(Claims(less, b)) = Cardinality(Claims(A, b)) - 1
             /\ b \notin A[w] => less = A
<1> DEFINE more == [A EXCEPT ![w] = @ \cup {b}]
           less == [A EXCEPT ![w] = @ \ {b}]
<1>1. more \in Tables /\ less \in Tables /\ (b \notin A[w] => less = A)
  BY DEF Tables
<1>2. Claims(more, b) = Claims(A, b) \cup {w} /\ Claims(less, b) = Claims(A, b) \ {w}
  BY DEF Claims, Tables
<1>3. \A c \in Blocks : c # b => Claims(more, c) = Claims(A, c) /\ Claims(less, c) = Claims(A, c)
  BY DEF Claims, Tables
<1>4. w \in Claims(A, b) <=> b \in A[w]
  BY DEF Claims
<1>5. b \notin A[w] => Cardinality(Claims(more, b)) = Cardinality(Claims(A, b)) + 1
  BY <1>2, <1>4, FiniteClaims, FS_AddElement
<1>6. b \in A[w] => Cardinality(Claims(less, b)) = Cardinality(Claims(A, b)) - 1
  BY <1>2, <1>4, FiniteClaims, FS_RemoveElement
<1> QED BY <1>1, <1>3, <1>5, <1>6

\* The queues are nothing to the ledger, and a table may say what it likes of
\* blocks that have come.
LEMMA LedgerAgrees ==
  ASSUME NEW s, NEW t, t.blk = s.blk, t.have = s.have, NEW A, NEW B, Ledger(s, A),
         \A b \in Blocks : ~IsDownloaded(s, b) => \A w \in Writers : b \in A[w] <=> b \in B[w]
  PROVE  Ledger(t, B)
<1> SUFFICES ASSUME NEW b \in Blocks, ~IsDownloaded(t, b)
             PROVE  t.blk[b].peers = Cardinality(Claims(B, b))
  BY DEF Ledger
<1>1. ~IsDownloaded(s, b)
  BY DEF IsDownloaded, State
<1>2. Claims(A, b) = Claims(B, b)
  BY <1>1 DEF Claims
<1> QED BY <1>1, <1>2 DEF Ledger

\* Nobody is counted for a free block, and a block that nobody is counted for
\* is not requested.
LEMMA Unclaimed ==
  ASSUME NEW s \in Sound, Meant(s), NEW A, Ledger(s, A), NEW b \in Blocks
  PROVE  /\ ~IsDownloaded(s, b) /\ State(s, b) # "requested" => Claims(A, b) = {}
         /\ State(s, b) = "requested" => Claims(A, b) # {} /\ ~IsDownloaded(s, b)
<1>1. s.blk[b].peers \in Nat
  BY DEF Sound, Shapes, Infos
<1>2. State(s, b) = "requested" => ~IsDownloaded(s, b)
  BY DEF Sound, NoBlocksOfHave, IsDownloaded
<1>3. ~IsDownloaded(s, b) => s.blk[b].peers = Cardinality(Claims(A, b))
  BY DEF Ledger
<1>4. s.blk[b].peers > 0 <=> State(s, b) = "requested"
  BY DEF Meant
<1>5. Cardinality(Claims(A, b)) = 0 <=> Claims(A, b) = {}
  BY FiniteClaims, FS_EmptySet
<1> QED BY <1>1, <1>2, <1>3, <1>4, <1>5

\* abort_download takes the block off the account of one who is counted for it.
LEMMA LedgerAbort ==
  ASSUME NEW s \in Sound, s.picker, Meant(s), NEW A \in Tables, Ledger(s, A),
         NEW w \in Writers, NEW b \in Blocks, b \in A[w] \/ Claims(A, b) = {}
  PROVE  LET t == Abort(s, b)
         IN  /\ Meant(t) /\ Ledger(t, [A EXCEPT ![w] = @ \ {b}])
             /\ \A c \in Blocks : c # b => t.blk[c] = s.blk[c]
<1> DEFINE B == [A EXCEPT ![w] = @ \ {b}]
           t == Abort(s, b)
<1>1. /\ \A c \in Blocks : c # b => Claims(B, c) = Claims(A, c)
      /\ b \in A[w] => Cardinality(Claims(B, b)) = Cardinality(Claims(A, b)) - 1
      /\ b \notin A[w] => B = A
  BY ClaimFacts, Zenon
<1> HIDE DEF B
<1>2. CASE State(s, b) # "requested"
  <2>1. t = s
    BY <1>2 DEF Abort
  <2>2. ~IsDownloaded(s, b) => b \notin A[w]
    BY <1>2, Unclaimed DEF Claims
  <2>3. Ledger(s, B)
    <3> SUFFICES ASSUME NEW c \in Blocks, ~IsDownloaded(s, c)
                 PROVE  s.blk[c].peers = Cardinality(Claims(B, c))
      BY DEF Ledger
    <3>1. Claims(B, c) = Claims(A, c)
      BY <1>1, <2>2
    <3> QED BY <3>1 DEF Ledger
  <2> HIDE DEF t
  <2> QED BY <2>1, <2>3 DEF B, t
<1>3. CASE State(s, b) = "requested"
  <2>1. b \in A[w] /\ s.blk[b].peers = Cardinality(Claims(A, b)) /\ s.blk[b].peers > 0
    BY <1>3, Unclaimed DEF Ledger, Meant
  <2> DEFINE info == IF s.blk[b].peers > 1 THEN [s.blk[b] EXCEPT !.peers = @ - 1] ELSE Idle
  <2>2. s \in Shapes /\ s.blk[b] \in Infos /\ t = SetBlock(s, b, info)
    BY <1>3 DEF Abort, Sound, Shapes
  <2>3. /\ info.peers = s.blk[b].peers - 1
        /\ info.peers > 0 <=> info.state = "requested"
    BY <1>3, <2>1, <2>2 DEF Infos, Idle, State
  <2> HIDE DEF info
  <2>4. t.have = s.have /\ t.blk[b] = info /\ \A c \in Blocks : c # b => t.blk[c] = s.blk[c]
    BY <2>2 DEF SetBlock, Shapes
  <2> HIDE DEF t
  <2>5. Meant(t)
    BY <2>3, <2>4 DEF Meant, State
  <2>6. Ledger(t, B)
    <3> SUFFICES ASSUME NEW c \in Blocks, ~IsDownloaded(t, c)
                 PROVE  t.blk[c].peers = Cardinality(Claims(B, c))
      BY DEF Ledger
    <3>1. CASE c = b
      BY <1>1, <2>1, <2>3, <2>4, <3>1
    <3>2. CASE c # b
      BY <1>1, <2>4, <3>2 DEF Ledger, IsDownloaded, State
    <3> QED BY <3>1, <3>2
  <2> QED BY <2>4, <2>5, <2>6 DEF B, t
<1> QED BY <1>2, <1>3

\* mark_as_downloading puts it on the account of one who is not.
LEMMA LedgerMark ==
  ASSUME NEW s \in Sound, Meant(s), NEW A \in Tables, Ledger(s, A),
         NEW p \in Peers, NEW b \in Blocks, b \notin A[p]
  PROVE  LET t == MarkAsDownloading(s, b, p)
         IN  /\ Meant(t) /\ Ledger(t, [A EXCEPT ![p] = @ \cup {b}])
             /\ \A c \in Blocks : c # b => t.blk[c] = s.blk[c]
<1> DEFINE B == [A EXCEPT ![p] = @ \cup {b}]
           t == MarkAsDownloading(s, b, p)
<1>0. p \in Writers
  BY DEF Writers
<1>1. /\ \A c \in Blocks : c # b => Claims(B, c) = Claims(A, c)
      /\ Cardinality(Claims(B, b)) = Cardinality(Claims(A, b)) + 1
  BY <1>0, ClaimFacts, ZenonT(30)
<1> HIDE DEF B
<1>2. CASE State(s, b) \in {"writing", "finished"}
  <2>1. t = s /\ IsDownloaded(s, b)
    BY <1>2 DEF MarkAsDownloading, IsDownloaded
  <2>2. Ledger(s, B)
    BY <1>1, <2>1 DEF Ledger
  <2> HIDE DEF t
  <2> QED BY <2>1, <2>2 DEF B, t
<1>3. CASE State(s, b) \notin {"writing", "finished"}
  <2> DEFINE info == [s.blk[b] EXCEPT !.state = "requested", !.peers = @ + 1, !.peer = p]
  <2>2. s \in Shapes /\ s.blk[b] \in Infos /\ t = SetBlock(s, b, info)
    BY <1>3 DEF MarkAsDownloading, Sound, Shapes
  <2>3. /\ info.peers = s.blk[b].peers + 1 /\ s.blk[b].peers \in Nat
        /\ info.state = "requested"
    BY <2>2 DEF Infos
  <2> HIDE DEF info
  <2>4. t.have = s.have /\ t.blk[b] = info /\ \A c \in Blocks : c # b => t.blk[c] = s.blk[c]
    BY <2>2 DEF SetBlock, Shapes
  <2> HIDE DEF t
  <2>5. Meant(t)
    BY <2>3, <2>4 DEF Meant, State
  <2>6. Ledger(t, B)
    <3> SUFFICES ASSUME NEW c \in Blocks, ~IsDownloaded(t, c)
                 PROVE  t.blk[c].peers = Cardinality(Claims(B, c))
      BY DEF Ledger
    <3>1. CASE c = b
      <4>1. ~IsDownloaded(s, b)
        BY <1>3, <2>4, <3>1 DEF IsDownloaded
      <4> QED BY <1>1, <2>3, <2>4, <3>1, <4>1 DEF Ledger
    <3>2. CASE c # b
      BY <1>1, <2>4, <3>2 DEF Ledger, IsDownloaded, State
    <3> QED BY <3>1, <3>2
  <2> QED BY <2>4, <2>5, <2>6 DEF B, t
<1> QED BY <1>2, <1>3

-----------------------------------------------------------------------------
(***************************************************************************)
(* The queues, and what they say of the accounts.                           *)
(***************************************************************************)

\* The blocks of requests that were sent.
BlocksIn(q) == [n \in DOMAIN q |-> q[n].block]

\* They are a sequence of blocks as long as that of the requests.
LEMMA BlocksInFacts ==
  ASSUME NEW q \in Seq(Pending)
  PROVE  /\ BlocksIn(q) \in Seq(Blocks) /\ Len(BlocksIn(q)) = Len(q)
         /\ \A n \in 1..Len(q) : BlocksIn(q)[n] = q[n].block
         /\ \A r \in Seq(Pending) : BlocksIn(q \o r) = BlocksIn(q) \o BlocksIn(r)
<1>1. ASSUME NEW r \in Seq(Pending)
      PROVE  /\ BlocksIn(r) \in Seq(Blocks) /\ Len(BlocksIn(r)) = Len(r)
             /\ DOMAIN r = 1..Len(r) /\ Len(r) \in Nat
             /\ \A n \in 1..Len(r) : BlocksIn(r)[n] = r[n].block
  <2>1. Len(r) \in Nat /\ DOMAIN r = 1..Len(r) /\ \A n \in 1..Len(r) : r[n] \in Pending
    BY LenProperties, ElementOfSeq
  <2>2. BlocksIn(r) \in [1..Len(r) -> Blocks]
    BY <2>1 DEF BlocksIn, Pending
  <2>3. BlocksIn(r) \in Seq(Blocks) /\ Len(BlocksIn(r)) = Len(r)
    BY <2>1, <2>2
  <2> QED BY <2>1, <2>3 DEF BlocksIn
<1>2. ASSUME NEW r \in Seq(Pending) PROVE BlocksIn(q \o r) = BlocksIn(q) \o BlocksIn(r)
  <2> DEFINE f == BlocksIn(q)
             g == BlocksIn(r)
             h == BlocksIn(q \o r)
             m == Len(q) + Len(r)
  <2>1. /\ q \o r \in Seq(Pending) /\ Len(q \o r) = m
        /\ \A n \in 1..m : (q \o r)[n] = IF n <= Len(q) THEN q[n] ELSE r[n - Len(q)]
    BY ConcatProperties
  <2>2. h \in Seq(Blocks) /\ Len(h) = m /\ \A n \in 1..m : h[n] = (q \o r)[n].block
    BY <1>1, <2>1
  <2>3. /\ f \o g \in Seq(Blocks) /\ Len(f \o g) = m
        /\ \A n \in 1..m : (f \o g)[n] = IF n <= Len(q) THEN f[n] ELSE g[n - Len(q)]
    <3> HIDE DEF f, g
    <3>1. f \in Seq(Blocks) /\ g \in Seq(Blocks) /\ Len(f) = Len(q) /\ Len(g) = Len(r)
      BY <1>1 DEF f, g
    <3>2. /\ f \o g \in Seq(Blocks) /\ Len(f \o g) = Len(f) + Len(g)
          /\ \A n \in 1..(Len(f) + Len(g)) :
               (f \o g)[n] = IF n <= Len(f) THEN f[n] ELSE g[n - Len(f)]
      BY <3>1, ConcatProperties
    <3> QED BY <3>1, <3>2
  <2>4. ASSUME NEW n \in 1..m PROVE h[n] = (f \o g)[n]
    <3>1. CASE n <= Len(q)
      <4>1. n \in 1..Len(q)
        BY <1>1, <3>1
      <4> QED BY <1>1, <2>1, <2>2, <2>3, <3>1, <4>1
    <3>2. CASE ~(n <= Len(q))
      <4>1. n - Len(q) \in 1..Len(r)
        BY <1>1, <3>2
      <4> QED BY <1>1, <2>1, <2>2, <2>3, <3>2, <4>1
    <3> QED BY <3>1, <3>2
  <2> HIDE DEF h, f, g
  <2>5. h = f \o g
    BY <2>2, <2>3, <2>4, SeqEqual
  <2> QED BY <2>5 DEF h, f, g
<1> QED BY <1>1, <1>2

\* A block is asked of a peer in one queue or the other.
LEMMA QueueFacts ==
  ASSUME NEW s \in Shapes, NEW p \in Peers
  PROVE  LET d == BlocksIn(s.dq[p])
         IN  /\ d \in Seq(Blocks) /\ s.rq[p] \in Seq(Blocks) /\ s.dq[p] \in Seq(Pending)
             /\ QueueOf(s, p) \in Seq(Blocks) /\ QueueOf(s, p) = d \o s.rq[p]
             /\ Asked(s, p) = ToSet(d) \cup ToSet(s.rq[p]) /\ Asked(s, p) \in SUBSET Blocks
             /\ IsInjective(QueueOf(s, p)) <=>
                   IsInjective(d) /\ IsInjective(s.rq[p]) /\ ToSet(d) \cap ToSet(s.rq[p]) = {}
<1> DEFINE d == BlocksIn(s.dq[p])
           q == s.rq[p]
<1>1. s.dq[p] \in Seq(Pending) /\ q \in Seq(Blocks)
  BY DEF Shapes
<1>2. d \in Seq(Blocks)
  BY <1>1, BlocksInFacts
<1>3. QueueOf(s, p) = d \o q
  BY DEF QueueOf, BlocksIn
<1>4. QueueOf(s, p) \in Seq(Blocks)
  BY QueueIsBlocks
<1> HIDE DEF d, q
<1>5. /\ ToSet(d \o q) = ToSet(d) \cup ToSet(q)
      /\ IsInjective(d \o q) <=> IsInjective(d) /\ IsInjective(q) /\ ToSet(d) \cap ToSet(q) = {}
  BY <1>1, <1>2, ConcatFacts
<1>6. ToSet(QueueOf(s, p)) \in SUBSET Blocks
  <2> DEFINE z == QueueOf(s, p)
  <2>1. z \in Seq(Blocks)
    BY <1>4
  <2> HIDE DEF z
  <2>2. ToSet(z) \in SUBSET Blocks
    BY <2>1 DEF ToSet
  <2> QED BY <2>2 DEF z
<1> QED BY <1>1, <1>2, <1>3, <1>4, <1>5, <1>6 DEF Asked, d, q

\* QueuesDistinct, of a record.
Distinct(s) == \A p \in Peers : IsInjective(QueueOf(s, p))
\* Who is not connected chokes us and has no requests.
Away(s) == \A p \in Peers \ s.conn : p \in s.choked /\ s.rq[p] = <<>> /\ s.dq[p] = <<>>

\* The sound records with both, whatever they count.
Fair == {s \in Sound : Meant(s) /\ Distinct(s) /\ Away(s)}

\* Every peer is counted for the blocks asked of it, those in X excepted.
Accounts(s, X) == [w \in Writers |-> IF w = Nobody THEN {} ELSE Asked(s, w) \ X]

\* The same, with the blocks E that w is counted for although they have left
\* its queues.
Overdrawn(s, w, E) == [Accounts(s, {}) EXCEPT ![w] = @ \cup E]

\* The records in which nobody is counted for the blocks X, and those in which w
\* is counted for E as well.
Without(X)   == {s \in Fair : Ledger(s, Accounts(s, X))}
Owing(w, E)  == {s \in Fair : Ledger(s, Overdrawn(s, w, E))}

\* RequestsExact, of a record, with what it rests on.
Balanced == Without({})

\* These are tables.
LEMMA AccountFacts ==
  ASSUME NEW s \in Shapes, NEW X
  PROVE  /\ Accounts(s, X) \in Tables /\ Accounts(s, X)[Nobody] = {}
         /\ \A p \in Peers : p \in Writers /\ p # Nobody /\ Accounts(s, X)[p] = Asked(s, p) \ X
         /\ \A w \in Writers : \A E \in SUBSET Blocks :
              /\ Overdrawn(s, w, E) \in Tables
              /\ \A v \in Writers :
                    Overdrawn(s, w, E)[v] = (IF v = Nobody THEN {} ELSE Asked(s, v))
                                              \cup (IF v = w THEN E ELSE {})
<1>1. \A p \in Peers : p \in Writers /\ p # Nobody /\ Asked(s, p) \in SUBSET Blocks
  BY QueueFacts, PipelineAssumption DEF Writers
<1>2. Nobody \in Writers /\ \A w \in Writers : w # Nobody => w \in Peers
  BY DEF Writers
<1>3. \A Y : Accounts(s, Y) \in Tables
  BY <1>1, <1>2 DEF Accounts, Tables
<1>4. \A w \in Writers : Accounts(s, {})[w] = IF w = Nobody THEN {} ELSE Asked(s, w)
  BY DEF Accounts
<1>5. ASSUME NEW w \in Writers, NEW E \in SUBSET Blocks
      PROVE  /\ Overdrawn(s, w, E) \in Tables
             /\ \A v \in Writers :
                    Overdrawn(s, w, E)[v] = (IF v = Nobody THEN {} ELSE Asked(s, v))
                                              \cup (IF v = w THEN E ELSE {})
  <2> DEFINE A == Accounts(s, {})
             B == [A EXCEPT ![w] = @ \cup E]
  <2>1. A \in Tables /\ B = Overdrawn(s, w, E)
    BY <1>3 DEF Overdrawn
  <2> HIDE DEF A
  <2>2. B \in Tables /\ \A v \in Writers : B[v] = A[v] \cup (IF v = w THEN E ELSE {})
    BY <2>1 DEF Tables
  <2> HIDE DEF B
  <2> QED BY <1>4, <2>1, <2>2 DEF A
<1> QED BY <1>1, <1>2, <1>3, <1>5 DEF Accounts

\* Nothing owed.
LEMMA NothingOwed ==
  ASSUME NEW w \in Writers
  PROVE  Owing(w, {}) = Balanced
<1>1. ASSUME NEW s \in Fair PROVE Overdrawn(s, w, {}) = Accounts(s, {})
  <2>1. Accounts(s, {}) \in Tables
    BY AccountFacts DEF Fair, Sound
  <2> QED BY <2>1 DEF Overdrawn, Tables
<1> QED BY <1>1 DEF Owing, Balanced, Without

\* Queues that lie as they did.
LEMMA SameQueues ==
  ASSUME NEW s, NEW t, NEW p, t.rq[p] = s.rq[p], t.dq[p] = s.dq[p]
  PROVE  QueueOf(t, p) = QueueOf(s, p) /\ Asked(t, p) = Asked(s, p)
<1>1. QueueOf(t, p) = QueueOf(s, p)
  BY DEF QueueOf
<1> QED BY <1>1 DEF Asked

\* A call that changes the queues of one peer that is connected.
LEMMA QueueChange ==
  ASSUME NEW s \in Fair, NEW t \in Sound, Meant(t), NEW p \in s.conn,
         t.conn = s.conn, t.choked = s.choked,
         \A v \in Peers : v # p => t.rq[v] = s.rq[v] /\ t.dq[v] = s.dq[v],
         IsInjective(QueueOf(t, p))
  PROVE  t \in Fair /\ \A v \in Peers : v # p => Asked(t, v) = Asked(s, v)
<1>1. ASSUME NEW v \in Peers, v # p
      PROVE  Asked(t, v) = Asked(s, v) /\ IsInjective(QueueOf(t, v))
  <2>1. QueueOf(t, v) = QueueOf(s, v) /\ Asked(t, v) = Asked(s, v)
    BY <1>1, SameQueues
  <2>2. IsInjective(QueueOf(s, v))
    BY DEF Fair, Distinct
  <2> QED BY <2>1, <2>2
<1>2. Distinct(t)
  BY <1>1 DEF Distinct
<1>3. Away(t)
  BY DEF Fair, Away
<1> QED BY <1>1, <1>2, <1>3 DEF Fair

\* A call that changes nothing but flags.
LEMMA FlagChange ==
  ASSUME NEW s \in Fair, NEW t \in Sound, t.blk = s.blk, t.have = s.have,
         t.rq = s.rq, t.dq = s.dq, Away(t)
  PROVE  /\ t \in Fair
         /\ \A w \in Writers : \A E \in SUBSET Blocks : s \in Owing(w, E) => t \in Owing(w, E)
         /\ \A X : s \in Without(X) => t \in Without(X)
<1>1. \A p \in Peers : QueueOf(t, p) = QueueOf(s, p) /\ Asked(t, p) = Asked(s, p)
  BY SameQueues
<1>2. t \in Fair
  BY <1>1 DEF Fair, Meant, Distinct, State
<1>3. \A X : Accounts(t, X) = Accounts(s, X)
  BY <1>1 DEF Accounts, Writers
<1>4. \A w \in Writers : \A E \in SUBSET Blocks : Overdrawn(t, w, E) = Overdrawn(s, w, E)
  BY <1>3 DEF Overdrawn
<1>5. ASSUME NEW A, Ledger(s, A) PROVE Ledger(t, A)
  BY <1>5, LedgerAgrees
<1> QED BY <1>2, <1>3, <1>4, <1>5 DEF Owing, Without

\* The accounts after such a call, when A is a table for what it made of the
\* blocks and w is still counted for F.
LEMMA Recount ==
  ASSUME NEW s \in Fair, NEW t \in Sound, Meant(t), NEW p \in s.conn,
         t.conn = s.conn, t.choked = s.choked,
         \A v \in Peers : v # p => t.rq[v] = s.rq[v] /\ t.dq[v] = s.dq[v],
         IsInjective(QueueOf(t, p)),
         NEW w \in Writers, NEW F \in SUBSET Blocks, NEW A, Ledger(t, A),
         \A b \in Blocks : ~IsDownloaded(t, b) =>
           /\ \A v \in Peers : v # p => (b \in A[v] <=> b \in Asked(s, v) \/ (v = w /\ b \in F))
           /\ b \in A[p] <=> b \in Asked(t, p) \/ (p = w /\ b \in F)
           /\ b \in A[Nobody] <=> (Nobody = w /\ b \in F)
  PROVE  t \in Owing(w, F)
<1> DEFINE B == Overdrawn(t, w, F)
<1>1. t \in Fair /\ \A v \in Peers : v # p => Asked(t, v) = Asked(s, v)
  BY QueueChange
<1>2. \A v \in Writers : B[v] = (IF v = Nobody THEN {} ELSE Asked(t, v))
                                   \cup (IF v = w THEN F ELSE {})
  <2>1. t \in Shapes
    BY DEF Sound
  <2>2. \A x \in Writers : \A E \in SUBSET Blocks :
          /\ Overdrawn(t, x, E) \in Tables
          /\ \A v \in Writers :
                    Overdrawn(t, x, E)[v] = (IF v = Nobody THEN {} ELSE Asked(t, v))
                                              \cup (IF v = x THEN E ELSE {})
    BY <2>1, AccountFacts, Zenon
  <2> QED BY <2>2
<1> HIDE DEF B
<1>3. ASSUME NEW b \in Blocks, ~IsDownloaded(t, b), NEW v \in Writers
      PROVE  b \in A[v] <=> b \in B[v]
  <2>1. CASE v = Nobody
    BY <1>2, <1>3, <2>1
  <2>2. CASE v # Nobody
    <3>1. v \in Peers
      BY <2>2 DEF Writers
    <3>2. b \in B[v] <=> b \in Asked(t, v) \/ (v = w /\ b \in F)
      BY <1>2, <2>2
    <3> QED BY <1>1, <1>3, <3>1, <3>2
  <2> QED BY <2>1, <2>2
<1>4. Ledger(t, B)
  BY <1>3, LedgerAgrees
<1> QED BY <1>1, <1>4 DEF Owing, B

\* The accounts, block by block.
LEMMA Overdraft ==
  ASSUME NEW w \in Writers, NEW E \in SUBSET Blocks, NEW s \in Owing(w, E)
  PROVE  LET A == Overdrawn(s, w, E)
         IN  /\ s \in Fair /\ s \in Sound /\ s \in Shapes /\ Meant(s)
             /\ A \in Tables /\ Ledger(s, A)
             /\ \A v \in Peers : /\ v \in Writers /\ v # Nobody
                                 /\ IsInjective(QueueOf(s, v)) /\ Asked(s, v) \in SUBSET Blocks
             /\ \A v \in Peers : \A b : b \in A[v] <=> b \in Asked(s, v) \/ (v = w /\ b \in E)
             /\ \A b : b \in A[Nobody] <=> (Nobody = w /\ b \in E)
<1> DEFINE A == Overdrawn(s, w, E)
<1>1. s \in Fair /\ s \in Sound /\ s \in Shapes /\ Meant(s) /\ Ledger(s, A)
  BY DEF Owing, Fair, Sound
<1>2. \A v \in Peers : v \in Writers /\ v # Nobody /\ IsInjective(QueueOf(s, v))
                      /\ Asked(s, v) \in SUBSET Blocks
  <2>1. \A v \in Peers : v \in Writers /\ v # Nobody
    BY PipelineAssumption DEF Writers
  <2>2. \A v \in Peers : Asked(s, v) \in SUBSET Blocks
    BY <1>1, QueueFacts
  <2> QED BY <1>1, <2>1, <2>2 DEF Fair, Distinct
<1>3. /\ A \in Tables
      /\ \A v \in Writers : A[v] = (IF v = Nobody THEN {} ELSE Asked(s, v))
                                      \cup (IF v = w THEN E ELSE {})
  <2>1. \A x \in Writers : \A F \in SUBSET Blocks :
          /\ Overdrawn(s, x, F) \in Tables
          /\ \A v \in Writers :
                    Overdrawn(s, x, F)[v] = (IF v = Nobody THEN {} ELSE Asked(s, v))
                                              \cup (IF v = x THEN F ELSE {})
    BY <1>1, AccountFacts, Zenon
  <2> QED BY <2>1
<1>4. Nobody \in Writers
  BY DEF Writers
<1> HIDE DEF A
<1> QED BY <1>1, <1>2, <1>3, <1>4 DEF A

-----------------------------------------------------------------------------
(***************************************************************************)
(* To ask for blocks keeps the ledger, while E is owed back.                *)
(***************************************************************************)

\* add_request, for a block not asked of the peer yet.
LEMMA AddRequestKeeps ==
  ASSUME NEW E \in SUBSET Blocks, NEW s \in Owing(Nobody, E), NEW p \in s.conn, NEW b \in Blocks,
         PieceOf(b) \notin s.have, b \notin Asked(s, p)
  PROVE  LET t == AddRequest(s, b, p)
         IN  t \in Owing(Nobody, E) /\ t.conn = s.conn /\ Asked(t, p) \subseteq Asked(s, p) \cup {b}
<1> DEFINE t == AddRequest(s, b, p)
           m == MarkAsDownloading(s, b, p)
           q == Append(s.rq[p], b)
           A == Overdrawn(s, Nobody, E)
           B == [A EXCEPT ![p] = @ \cup {b}]
<1>0. Nobody \in Writers
  BY DEF Writers
<1>1. /\ s \in Fair /\ s \in Sound /\ s \in Shapes /\ Meant(s) /\ A \in Tables /\ Ledger(s, A)
      /\ \A v \in Peers : v \in Writers /\ v # Nobody /\ IsInjective(QueueOf(s, v))
      /\ \A v \in Peers : \A c : c \in A[v] <=> c \in Asked(s, v)
      /\ \A c : c \in A[Nobody] <=> c \in E
  BY <1>0, Overdraft
<1>2. p \in Peers
  BY <1>1 DEF Shapes
<1>3. CASE State(s, b) \in {"writing", "finished"}
  BY <1>3 DEF AddRequest
<1>4. CASE State(s, b) \notin {"writing", "finished"}
  <2>1. Meant(m) /\ Ledger(m, B)
    BY <1>1, <1>2, LedgerMark
  <2>2. t = [m EXCEPT !.rq[p] = Append(@, b)]
    BY <1>4 DEF AddRequest
  <2>3. m \in Shapes /\ m.have = s.have /\ m.rq = s.rq /\ m.dq = s.dq
        /\ m.conn = s.conn /\ m.choked = s.choked
    <3>1. m \in Near(s)
      BY <1>1, <1>2, MarkQuiet
    <3> QED BY <1>1, <3>1 DEF Near, Quiet, MarkAsDownloading, SetBlock, Shapes
  <2>4. t \in Sound
    BY <1>1, <1>2, AddRequestQuiet, QuietKeepsSound
  <2>5. q \in Seq(Blocks) /\ ToSet(q) = ToSet(s.rq[p]) \cup {b}
        /\ (IsInjective(q) <=> IsInjective(s.rq[p]) /\ b \notin ToSet(s.rq[p]))
    <3> DEFINE f == s.rq[p]
    <3>1. f \in Seq(Blocks)
      BY <1>1, <1>2 DEF Shapes
    <3> HIDE DEF f
    <3>2. /\ Append(f, b) \in Seq(Blocks) /\ ToSet(Append(f, b)) = ToSet(f) \cup {b}
          /\ IsInjective(Append(f, b)) <=> IsInjective(f) /\ b \notin ToSet(f)
      BY <3>1, AppendElement
    <3> QED BY <3>2 DEF f
  <2> HIDE DEF m, q, A
  <2>6. t.blk = m.blk /\ t.have = s.have /\ t.rq[p] = q /\ t.dq = s.dq /\ t.conn = s.conn
        /\ t.choked = s.choked /\ \A v \in Peers : v # p => t.rq[v] = s.rq[v]
    BY <1>2, <2>2, <2>3 DEF Shapes, q
  <2> HIDE DEF t
  <2>7. Asked(t, p) = Asked(s, p) \cup {b} /\ IsInjective(QueueOf(t, p))
    <3> DEFINE d == BlocksIn(s.dq[p])
    <3>1. /\ Asked(s, p) = ToSet(d) \cup ToSet(s.rq[p])
          /\ IsInjective(d) /\ IsInjective(s.rq[p]) /\ ToSet(d) \cap ToSet(s.rq[p]) = {}
      BY <1>1, <1>2, QueueFacts
    <3>2. /\ Asked(t, p) = ToSet(d) \cup ToSet(q)
          /\ IsInjective(QueueOf(t, p)) <=>
               IsInjective(d) /\ IsInjective(q) /\ ToSet(d) \cap ToSet(q) = {}
      BY <1>2, <2>4, <2>6, QueueFacts DEF Sound
    <3> HIDE DEF d
    <3> QED BY <2>5, <3>1, <3>2
  <2>8. Meant(t) /\ Ledger(t, B)
    <3> HIDE DEF B
    <3>1. Meant(t)
      BY <2>1, <2>6 DEF Meant, State
    <3>2. Ledger(t, B)
      BY <2>1, <2>3, <2>6, LedgerAgrees
    <3> QED BY <3>1, <3>2
  <2>9. /\ \A v \in Writers : v # p => B[v] = A[v]
        /\ B[p] = A[p] \cup {b}
    BY <1>1, <1>2 DEF Tables
  <2> HIDE DEF B
  <2>10. /\ \A v \in Peers : v # p => \A c : c \in B[v] <=> c \in Asked(s, v)
         /\ \A c : c \in B[p] <=> c \in Asked(t, p)
         /\ \A c : c \in B[Nobody] <=> c \in E
    BY <1>0, <1>1, <1>2, <2>7, <2>9 DEF A
  <2>11. t \in Owing(Nobody, E)
    BY <1>0, <1>1, <1>2, <2>4, <2>6, <2>7, <2>8, <2>10, Recount
  <2> QED BY <2>6, <2>7, <2>11 DEF t
<1> QED BY <1>3, <1>4

\* Nobody is asked for a free block.
LEMMA FreeNotAsked ==
  ASSUME NEW E \in SUBSET Blocks, NEW s \in Owing(Nobody, E), NEW p, NEW b \in Free(s, p),
         NEW v \in Peers
  PROVE  b \notin Asked(s, v)
<1> DEFINE A == Overdrawn(s, Nobody, E)
<1>0. Nobody \in Writers
  BY DEF Writers
<1>1. /\ s \in Sound /\ Meant(s) /\ Ledger(s, A) /\ v \in Writers
      /\ b \in A[v] <=> b \in Asked(s, v) \/ (v = Nobody /\ b \in E)
  BY <1>0, Overdraft
<1> HIDE DEF A
<1>2. b \in Blocks /\ ~IsDownloaded(s, b) /\ State(s, b) # "requested"
  BY DEF Free, IsDownloaded
<1>3. Claims(A, b) = {}
  BY <1>1, <1>2, Unclaimed
<1> QED BY <1>1, <1>3 DEF Claims

\* A loop of add_request, for free blocks.
LEMMA AddAllKeeps ==
  ASSUME NEW E \in SUBSET Blocks, NEW s \in Owing(Nobody, E), NEW p \in s.conn,
         NEW q \in Seq(Blocks), IsInjective(q), \A k \in DOMAIN q : q[k] \in Free(s, p)
  PROVE  LET t == AddAll(s, p, q)
         IN  /\ t \in Owing(Nobody, E) /\ t.conn = s.conn /\ t.have = s.have
             /\ Asked(t, p) \subseteq Asked(s, p) \cup ToSet(q)
<1> DEFINE n == Len(q)
           C == [k \in 0..n |->
                  {t \in Owing(Nobody, E) : /\ t.conn = s.conn /\ t.have = s.have
                                            /\ Asked(t, p) \subseteq Asked(s, p) \cup {q[j] : j \in 1..k}}]
<1>1. n \in Nat /\ DOMAIN q = 1..n /\ \A k \in 1..n : q[k] \in Blocks
  BY LenProperties, ElementOfSeq
<1>2. s \in Sound /\ p \in Peers
  <2>1. s \in Sound
    BY DEF Owing, Fair
  <2> QED BY <2>1 DEF Sound, Shapes
<1>3. \A k \in 1..n : PieceOf(q[k]) \notin s.have /\ q[k] \notin Asked(s, p)
  BY <1>1, <1>2, FreeNotAsked DEF Free
<1>4. PICK r \in [0..n -> Near(s)] :
           /\ r[0] = s /\ r[n] = AddAll(s, p, q)
           /\ \A k \in 1..n : r[k] = AddRequest(r[k-1], q[k], p)
  BY <1>1, <1>2, <1>3, AddAllRuns, Zenon
<1>5. r[0] \in C[0]
  BY <1>1, <1>4
<1>6. ASSUME NEW k \in 1..n, r[k-1] \in C[k-1] PROVE r[k] \in C[k]
  <2> DEFINE t == r[k-1]
  <2>1. k - 1 \in 0..n /\ k \in 0..n
    BY <1>1
  <2>2. t \in Owing(Nobody, E) /\ t.conn = s.conn /\ t.have = s.have
        /\ Asked(t, p) \subseteq Asked(s, p) \cup {q[j] : j \in 1..(k-1)}
    BY <1>6, <2>1
  <2>3. q[k] \notin Asked(t, p)
    <3>1. ASSUME NEW j \in 1..(k-1) PROVE q[j] # q[k]
      <4>1. j \in 1..n /\ j # k
        BY <2>1
      <4> QED BY <1>1, <4>1 DEF IsInjective
    <3> QED BY <1>3, <2>2, <3>1
  <2>4. r[k] = AddRequest(t, q[k], p) /\ r[k].have = s.have
    BY <1>4, <2>1 DEF Near, Quiet
  <2> HIDE DEF t
  <2>5. r[k] \in Owing(Nobody, E) /\ r[k].conn = t.conn
        /\ Asked(r[k], p) \subseteq Asked(t, p) \cup {q[k]}
    BY <1>1, <1>3, <2>2, <2>3, <2>4, AddRequestKeeps
  <2>6. Asked(r[k], p) \subseteq Asked(s, p) \cup {q[j] : j \in 1..k}
    <3>1. {q[j] : j \in 1..(k-1)} \cup {q[k]} \subseteq {q[j] : j \in 1..k}
      BY <2>1
    <3> QED BY <2>2, <2>5, <3>1
  <2> QED BY <2>1, <2>2, <2>4, <2>5, <2>6
<1>7. r[n] \in C[n]
  <2> HIDE DEF C
  <2>1. \A k \in 0..n : r[k] \in C[k]
    BY <1>1, <1>5, <1>6, TraceInduction
  <2> QED BY <1>1, <2>1
<1>8. {q[j] : j \in 1..n} = ToSet(q)
  BY <1>1 DEF ToSet
<1>9. n \in 0..n
  BY <1>1
<1> QED BY <1>4, <1>7, <1>8, <1>9

\* SetToSeqs lists a set of blocks.
LEMMA OrderOfBlocks ==
  ASSUME NEW F \in SUBSET Blocks, NEW q \in SetToSeqs(F)
  PROVE  q \in Seq(Blocks) /\ IsInjective(q) /\ \A k \in DOMAIN q : q[k] \in F
<1> DEFINE m == Cardinality(F)
<1>1. m \in Nat
  BY FiniteBlocks
<1>2. q \in [1..m -> F] /\ \A i, j \in 1..m : i # j => q[i] # q[j]
  BY DEF SetToSeqs
<1> HIDE DEF m
<1> QED BY <1>1, <1>2 DEF IsInjective

\* request_a_block.
LEMMA RequestKeeps ==
  ASSUME NEW E \in SUBSET Blocks, NEW s \in Owing(Nobody, E), NEW p \in Peers, NEW d \in Int,
         NEW u \in RequestABlock(s, p, d)
  PROVE  u \in Owing(Nobody, E)
<1> DEFINE n    == d - Len(s.dq[p]) - Len(s.rq[p])
           busy == IF p \in s.parole THEN {} ELSE Busy(s, p)
           After(q) == FoldLeft(LAMBDA t, b : AddRequest(t, b, p), s, q)
           Again(t) == {AddRequest(t, b, p) :
                          b \in {b \in busy : \A c \in busy : t.blk[b].peers <= t.blk[c].peers}}
<1>1. s \in Sound /\ Away(s)
  BY DEF Owing, Fair
<1>2. ASSUME p \in s.conn, NEW F \in Picks(s, p, n), NEW q \in PickOrders(F)
      PROVE  LET t == After(q)
             IN  /\ t \in Owing(Nobody, E) /\ t.conn = s.conn /\ t.have = s.have
                 /\ Asked(t, p) \subseteq Asked(s, p) \cup Free(s, p)
  <2> HIDE DEF n
  <2>1. F \subseteq Free(s, p) /\ F \in SUBSET Blocks
    BY PicksAreFree DEF Free
  <2>2. q \in SetToSeqs(F)
    BY DEF PickOrders
  <2>3. q \in Seq(Blocks) /\ IsInjective(q) /\ \A k \in DOMAIN q : q[k] \in F
    BY <2>1, <2>2, OrderOfBlocks
  <2>4. \A k \in DOMAIN q : q[k] \in Free(s, p)
    BY <2>1, <2>3
  <2>5. LET t == AddAll(s, p, q)
        IN  /\ t \in Owing(Nobody, E) /\ t.conn = s.conn /\ t.have = s.have
            /\ Asked(t, p) \subseteq Asked(s, p) \cup ToSet(q)
    BY <1>2, <2>3, <2>4, AddAllKeeps
  <2>6. ToSet(q) \subseteq Free(s, p)
    BY <2>4 DEF ToSet
  <2> QED BY <2>5, <2>6 DEF AddAll
<1>3. ASSUME p \in s.conn, NEW t \in Owing(Nobody, E), t.conn = s.conn, t.have = s.have,
             Asked(t, p) \subseteq Asked(s, p) \cup Free(s, p), NEW v \in Again(t)
      PROVE  v \in Owing(Nobody, E)
  <2>1. PICK b \in busy : v = AddRequest(t, b, p)
    BY <1>3
  <2>2. b \in Blocks /\ State(s, b) = "requested" /\ b \notin Asked(s, p)
    BY <2>1 DEF Busy, Asked
  <2>3. PieceOf(b) \notin s.have /\ b \notin Free(s, p)
    BY <1>1, <2>2 DEF Sound, NoBlocksOfHave, Free
  <2>4. b \notin Asked(t, p)
    BY <1>3, <2>2, <2>3
  <2> HIDE DEF busy
  <2> QED BY <1>3, <2>1, <2>2, <2>3, <2>4, AddRequestKeeps
<1>4. CASE u = s
  BY <1>4
<1>5. CASE u # s
  <2>1. /\ p \notin s.choked
        /\ u \in UNION {IF Cardinality(F) >= n \/ busy = {} THEN {After(q) : q \in PickOrders(F)}
                        ELSE UNION {Again(After(q)) : q \in PickOrders(F)}
                          : F \in Picks(s, p, n)}
    BY <1>5, Zenon DEF RequestABlock
  <2>2. p \in s.conn
    BY <1>1, <2>1 DEF Away
  <2> HIDE DEF n, busy, After, Again
  <2>3. PICK F \in Picks(s, p, n) :
           u \in IF Cardinality(F) >= n \/ busy = {} THEN {After(q) : q \in PickOrders(F)}
                 ELSE UNION {Again(After(q)) : q \in PickOrders(F)}
    BY <2>1, Zenon
  <2>4. PICK q \in PickOrders(F) : u = After(q) \/ u \in Again(After(q))
    BY <2>3
  <2> QED BY <1>2, <1>3, <2>2, <2>4
<1> QED BY <1>4, <1>5

\* send_block_requests loses only what nobody has to be asked for any more.
LEMMA SendKeeps ==
  ASSUME NEW E \in SUBSET Blocks, NEW s \in Owing(Nobody, E), NEW p \in Peers, NEW d \in Int
  PROVE  SendBlockRequests(s, p, d) \in Owing(Nobody, E)
<1> DEFINE q == s.rq[p]
           n == Len(q)
           d0 == BlocksIn(s.dq[p])
           A == Overdrawn(s, Nobody, E)
<1>0. Nobody \in Writers
  BY DEF Writers
<1>1. /\ s \in Fair /\ s \in Sound /\ s \in Shapes /\ Meant(s) /\ A \in Tables /\ Ledger(s, A)
      /\ \A v \in Peers : v \in Writers /\ v # Nobody /\ IsInjective(QueueOf(s, v))
      /\ \A v \in Peers : \A c : c \in A[v] <=> c \in Asked(s, v)
      /\ \A c : c \in A[Nobody] <=> c \in E
  BY <1>0, Overdraft
<1>2. PICK r \in [0..n -> Queues] :
           /\ n \in Nat /\ r[0] = [dq |-> s.dq[p], rq |-> <<>>]
           /\ SendBlockRequests(s, p, d) = [s EXCEPT !.dq[p] = r[n].dq, !.rq[p] = r[n].rq]
           /\ \A k \in 1..n : r[k] = SendNext(s, d, r[k-1], q[k])
  BY <1>1, SendRuns, ZenonT(30)
<1>3. /\ d0 \in Seq(Blocks) /\ q \in Seq(Blocks) /\ Asked(s, p) = ToSet(d0) \cup ToSet(q)
      /\ IsInjective(d0) /\ IsInjective(q) /\ ToSet(d0) \cap ToSet(q) = {}
  BY <1>1, QueueFacts
<1>4. DOMAIN q = 1..n /\ \A k \in 1..n : q[k] \in Blocks
  BY <1>3, LenProperties, ElementOfSeq
<1> DEFINE Seen(k) == ToSet(d0) \cup {q[j] : j \in 1..k}
           Held(t) == ToSet(BlocksIn(t.dq)) \cup ToSet(t.rq)
           C == [k \in 0..n |->
                  {t \in Queues : /\ IsInjective(BlocksIn(t.dq)) /\ IsInjective(t.rq)
                                  /\ ToSet(BlocksIn(t.dq)) \cap ToSet(t.rq) = {}
                                  /\ Held(t) \subseteq Seen(k)
                                  /\ \A b \in Seen(k) : b \notin Held(t) => IsDownloaded(s, b)}]
<1>5. r[0] \in C[0]
  <2>1. r[0].dq = s.dq[p] /\ r[0].rq = <<>> /\ r[0] \in Queues
    BY <1>2
  <2>2. ToSet(<<>>) = {} /\ IsInjective(<<>>)
    BY DEF ToSet, IsInjective
  <2> QED BY <1>2, <1>3, <2>1, <2>2
<1>6. ASSUME NEW k \in 1..n, r[k-1] \in C[k-1] PROVE r[k] \in C[k]
  <2> DEFINE t == r[k-1]
             b == q[k]
             e == [block |-> b, skipped |-> 0]
             x == BlocksIn(t.dq)
             y == t.rq
  <2>1. k - 1 \in 0..n /\ k \in 0..n /\ b \in Blocks
    BY <1>2, <1>4
  <2>2. /\ t \in Queues /\ IsInjective(x) /\ IsInjective(y) /\ ToSet(x) \cap ToSet(y) = {}
        /\ ToSet(x) \cup ToSet(y) \subseteq Seen(k-1)
        /\ \A c \in Seen(k-1) : c \notin ToSet(x) \cup ToSet(y) => IsDownloaded(s, c)
    BY <1>6, <2>1
  <2>3. t.dq \in Seq(Pending) /\ y \in Seq(Blocks) /\ x \in Seq(Blocks) /\ e \in Pending
    <3>1. t.dq \in Seq(Pending) /\ y \in Seq(Blocks) /\ e \in Pending
      BY <2>1, <2>2 DEF Queues, Pending
    <3> QED BY <3>1, BlocksInFacts
  <2>4. b \notin Seen(k-1)
    <3>1. ASSUME NEW j \in 1..(k-1) PROVE q[j] # q[k]
      <4>1. j \in 1..n /\ j # k
        BY <2>1
      <4> QED BY <1>3, <1>4, <4>1 DEF IsInjective
    <3>2. b \notin ToSet(d0)
      BY <1>3, <1>4 DEF ToSet
    <3> QED BY <3>1, <3>2
  <2>5. \A c : c \in Seen(k) <=> c \in Seen(k-1) \/ c = b
    <3>1. \A j : j \in 1..k <=> j \in 1..(k-1) \/ j = k
      BY <2>1
    <3> QED BY <3>1
  <2>6. r[k] = SendNext(s, d, t, b) /\ r[k] \in Queues
    BY <1>2, <2>1
  <2> HIDE DEF Seen, t, b, x, y
  <2>7. CASE Len(t.dq) >= d
    <3> DEFINE z == Append(y, b)
    <3>1. /\ z \in Seq(Blocks) /\ \A c : c \in ToSet(z) <=> c \in ToSet(y) \/ c = b
          /\ IsInjective(z) <=> IsInjective(y) /\ b \notin ToSet(y)
      BY <2>1, <2>3, AppendElement
    <3>2. r[k].dq = t.dq /\ r[k].rq = z
      BY <2>2, <2>6, <2>7 DEF SendNext, Queues, y
    <3> HIDE DEF z
    <3> QED BY <2>1, <2>2, <2>4, <2>5, <2>6, <3>1, <3>2 DEF x
  <2>8. CASE ~(Len(t.dq) >= d) /\ (IsSeed(s) \/ IsDownloaded(s, b))
    <3>1. r[k] = t
      BY <2>6, <2>8 DEF SendNext
    <3>2. IsDownloaded(s, b)
      <4>1. PieceOf(b) \in Pieces
        BY <2>1, PieceOfBlock
      <4> QED BY <1>1, <2>8, <4>1 DEF IsSeed, IsDownloaded, Sound, PickerUntilDone
    <3> QED BY <2>1, <2>2, <2>5, <3>1, <3>2 DEF x, y
  <2>9. CASE ~(Len(t.dq) >= d) /\ ~(IsSeed(s) \/ IsDownloaded(s, b))
    <3> DEFINE a == Append(t.dq, e)
               z == BlocksIn(a)
    <3>1. z = Append(x, b)
      <4>1. <<e>> \in Seq(Pending) /\ a = t.dq \o <<e>> /\ BlocksIn(<<e>>) = <<b>>
        BY <2>3, SMTT(30) DEF BlocksIn
      <4>2. z = x \o BlocksIn(<<e>>)
        BY <2>3, <4>1, BlocksInFacts DEF x
      <4>3. Append(x, b) = x \o <<b>>
        BY <2>1, <2>3
      <4> QED BY <4>1, <4>2, <4>3, Zenon
    <3> DEFINE o == Append(x, b)
    <3>2. /\ o \in Seq(Blocks) /\ \A c : c \in ToSet(o) <=> c \in ToSet(x) \/ c = b
          /\ IsInjective(o) <=> IsInjective(x) /\ b \notin ToSet(x)
      BY <2>1, <2>3, AppendElement
    <3>5. z = o
      BY <3>1
    <3>3. r[k].dq = a /\ r[k].rq = y
      BY <2>2, <2>6, <2>9 DEF SendNext, Queues, y
    <3> HIDE DEF z, a, o
    <3>4. BlocksIn(r[k].dq) = o
      BY <3>3, <3>5 DEF z
    <3> QED BY <2>1, <2>2, <2>4, <2>5, <2>6, <3>2, <3>3, <3>4
  <2> QED BY <2>7, <2>8, <2>9
<1>7. r[n] \in C[n]
  <2> HIDE DEF C
  <2>1. \A k \in 0..n : r[k] \in C[k]
    BY <1>2, <1>5, <1>6, TraceInduction
  <2> QED BY <1>2, <2>1
<1> DEFINE u == SendBlockRequests(s, p, d)
<1>8. /\ IsInjective(BlocksIn(r[n].dq)) /\ IsInjective(r[n].rq)
      /\ ToSet(BlocksIn(r[n].dq)) \cap ToSet(r[n].rq) = {}
      /\ Held(r[n]) \subseteq Asked(s, p)
      /\ \A b \in Asked(s, p) : b \notin Held(r[n]) => IsDownloaded(s, b)
  <2>1. Seen(n) = Asked(s, p)
    BY <1>3, <1>4 DEF ToSet
  <2>2. n \in 0..n
    BY <1>2
  <2> HIDE DEF Seen, Held
  <2> QED BY <1>7, <2>1, <2>2
<1>9. u \in Sound /\ u.blk = s.blk /\ u.have = s.have /\ u.conn = s.conn /\ u.choked = s.choked
      /\ u.dq[p] = r[n].dq /\ u.rq[p] = r[n].rq
      /\ \A v \in Peers : v # p => u.rq[v] = s.rq[v] /\ u.dq[v] = s.dq[v]
  <2>1. u \in Sound
    BY <1>1, SendQuiet, QuietKeepsSound
  <2> QED BY <1>1, <1>2, <2>1 DEF Shapes
<1> HIDE DEF u, A
<1>10. CASE p \in s.conn
  <2>1. Asked(u, p) = Held(r[n]) /\ IsInjective(QueueOf(u, p))
    <3>1. u \in Shapes
      BY <1>9 DEF Sound
    <3>2. /\ Asked(u, p) = ToSet(BlocksIn(u.dq[p])) \cup ToSet(u.rq[p])
          /\ IsInjective(QueueOf(u, p)) <=>
               /\ IsInjective(BlocksIn(u.dq[p])) /\ IsInjective(u.rq[p])
               /\ ToSet(BlocksIn(u.dq[p])) \cap ToSet(u.rq[p]) = {}
      BY <3>1, QueueFacts
    <3> QED BY <1>8, <1>9, <3>2
  <2>2. Meant(u) /\ Ledger(u, A)
    BY <1>1, <1>9, LedgerAgrees DEF Meant, State
  <2>3. \A b : IsDownloaded(u, b) <=> IsDownloaded(s, b)
    BY <1>9 DEF IsDownloaded, State
  <2> HIDE DEF Held, C, n, q, d0
  <2>4. \A b \in Blocks : ~IsDownloaded(u, b) => (b \in A[p] <=> b \in Asked(u, p))
    BY <1>1, <1>8, <2>1, <2>3
  <2>5. u \in Owing(Nobody, E)
    BY <1>0, <1>1, <1>9, <1>10, <2>1, <2>2, <2>4, Recount
  <2> QED BY <2>5 DEF u
<1>11. CASE p \notin s.conn
  <2>1. q = <<>> /\ n = 0
    BY <1>1, <1>11 DEF Fair, Away
  <2>2. u.rq[p] = s.rq[p] /\ u.dq[p] = s.dq[p]
    BY <1>2, <1>9, <2>1
  <2>3. u.rq = s.rq /\ u.dq = s.dq
    <3>1. u \in Shapes
      BY <1>9 DEF Sound
    <3>2. \A v \in Peers : u.rq[v] = s.rq[v] /\ u.dq[v] = s.dq[v]
      BY <1>9, <2>2
    <3> QED BY <1>1, <3>1, <3>2 DEF Shapes
  <2>4. Away(u)
    BY <1>1, <1>9, <2>3 DEF Fair, Away
  <2>5. u \in Owing(Nobody, E)
    BY <1>0, <1>1, <1>9, <2>3, <2>4, FlagChange
  <2> QED BY <2>5 DEF u
<1> QED BY <1>10, <1>11

\* The two, as most handlers end.
LEMMA AskKeeps ==
  ASSUME NEW s \in Balanced, NEW p \in Peers, NEW u \in Ask(s, p)
  PROVE  u \in Balanced
<1>1. s \in Owing(Nobody, {}) /\ Balanced = Owing(Nobody, {})
  BY NothingOwed DEF Writers
<1>2. s.desired[p] \in Int
  BY DEF Balanced, Without, Fair, Sound, Shapes
<1>3. PICK t \in RequestABlock(s, p, s.desired[p]) : u = SendBlockRequests(t, p, s.desired[p])
  BY Zenon DEF Ask
<1>4. t \in Owing(Nobody, {})
  BY <1>1, <1>2, RequestKeeps
<1>5. u \in Owing(Nobody, {})
  BY <1>2, <1>3, <1>4, SendKeeps
<1> QED BY <1>1, <1>5

-----------------------------------------------------------------------------
(***************************************************************************)
(* Requests that are given back.                                            *)
(***************************************************************************)

\* abort_download changes neither the queues nor the flags of a connection.
Untouched(s, t) ==
  /\ t.rq = s.rq /\ t.dq = s.dq /\ t.conn = s.conn /\ t.choked = s.choked
  /\ t.have = s.have /\ t.picker = s.picker

\* Whatever the block is.
LEMMA AbortUntouched ==
  ASSUME NEW s \in Sound, s.picker, NEW b
  PROVE  Untouched(s, Abort(s, b))
BY DEF Sound, Shapes, Abort, SetBlock, Untouched

\* A loop of abort_download, over blocks that w is counted for or nobody is.
LEMMA AbortAllKeeps ==
  ASSUME NEW s \in Sound, s.picker, Meant(s), NEW A \in Tables, Ledger(s, A), NEW w \in Writers,
         NEW q \in Seq(Blocks), IsInjective(q),
         \A k \in DOMAIN q : q[k] \in A[w] \/ Claims(A, q[k]) = {}
  PROVE  LET t == AbortAll(s, q)
         IN  /\ t \in Sound /\ Meant(t) /\ Ledger(t, [A EXCEPT ![w] = @ \ ToSet(q)])
             /\ Untouched(s, t)
<1> DEFINE n == Len(q)
           B(k) == [A EXCEPT ![w] = @ \ {q[j] : j \in 1..k}]
           C == [k \in 0..n |-> {t \in Sound : Meant(t) /\ Ledger(t, B(k)) /\ Untouched(s, t)}]
<1>1. n \in Nat /\ DOMAIN q = 1..n /\ \A k \in 1..n : q[k] \in Blocks
  BY LenProperties, ElementOfSeq
<1>2. PICK r \in [0..n -> Near(s)] :
           /\ r[0] = s /\ r[n] = AbortAll(s, q)
           /\ \A k \in 1..n : r[k] = Abort(r[k-1], q[k])
  BY AbortAllRuns, Zenon
<1>3. r[0] \in C[0]
  <2>1. B(0) = A
    BY DEF Tables
  <2>2. 0 \in 0..n
    BY <1>1
  <2> QED BY <1>2, <2>1, <2>2 DEF Untouched
<1>4. ASSUME NEW k \in 1..n, r[k-1] \in C[k-1] PROVE r[k] \in C[k]
  <2> DEFINE t == r[k-1]
             b == q[k]
             D == B(k-1)
  <2>1. k - 1 \in 0..n /\ k \in 0..n /\ b \in Blocks
    BY <1>1
  <2>2. t \in Sound /\ Meant(t) /\ Ledger(t, D) /\ Untouched(s, t) /\ r[k] = Abort(t, b)
    BY <1>2, <1>4, <2>1
  <2>3. D \in Tables /\ D[w] = A[w] \ {q[j] : j \in 1..(k-1)}
        /\ \A v \in Writers : D[v] \subseteq A[v]
    BY DEF Tables
  <2>4. b \in D[w] \/ Claims(D, b) = {}
    <3>1. \A j \in 1..(k-1) : q[j] # b
      <4> SUFFICES ASSUME NEW j \in 1..(k-1) PROVE q[j] # q[k]
        OBVIOUS
      <4>1. j \in 1..n /\ j # k
        BY <2>1
      <4> QED BY <1>1, <4>1 DEF IsInjective
    <3> QED BY <1>1, <2>3, <3>1 DEF Claims
  <2>5. [D EXCEPT ![w] = @ \ {b}] = B(k)
    <3>1. \A j : j \in 1..k <=> j \in 1..(k-1) \/ j = k
      BY <2>1
    <3>2. {q[j] : j \in 1..(k-1)} \cup {b} = {q[j] : j \in 1..k}
      BY <3>1
    <3> QED BY <3>2 DEF Tables
  <2> HIDE DEF t, b, D, B
  <2>6. Meant(r[k]) /\ Ledger(r[k], B(k))
    <3>1. t.picker
      BY <2>2 DEF Untouched
    <3> QED BY <2>1, <2>2, <2>3, <2>4, <2>5, <3>1, LedgerAbort
  <2>7. r[k] \in Sound /\ Untouched(s, r[k])
    <3>1. Untouched(t, Abort(t, b))
      BY <2>2, AbortUntouched DEF Untouched
    <3>2. r[k] \in Sound
      BY <1>2, <2>1, QuietKeepsSound
    <3> QED BY <2>2, <3>1, <3>2 DEF Untouched
  <2> QED BY <2>1, <2>6, <2>7
<1>5. r[n] \in C[n]
  <2> HIDE DEF C
  <2>1. \A k \in 0..n : r[k] \in C[k]
    BY <1>1, <1>3, <1>4, TraceInduction
  <2> QED BY <1>1, <2>1
<1>6. B(n) = [A EXCEPT ![w] = @ \ ToSet(q)]
  BY <1>1 DEF ToSet
<1>7. n \in 0..n
  BY <1>1
<1> QED BY <1>2, <1>5, <1>6, <1>7

\* The record after disconnect.
LEMMA CloseFields ==
  ASSUME NEW s \in Sound, NEW p \in Peers, NEW t \in Shapes,
         t = IF s.picker THEN AbortAll(s, QueueOf(s, p)) ELSE s, Untouched(s, t)
  PROVE  LET u == Close(s, p)
         IN  /\ u.blk = t.blk /\ u.have = s.have /\ u.picker = s.picker
             /\ u.conn = s.conn \ {p} /\ u.choked = s.choked \cup {p}
             /\ u.rq[p] = <<>> /\ u.dq[p] = <<>>
             /\ \A v \in Peers : v # p => u.rq[v] = s.rq[v] /\ u.dq[v] = s.dq[v]
<1> DEFINE none == <<>>
           w == [b \in Blocks |-> Unattributed(s.writes[b], p)]
           u == [t EXCEPT !.conn = @ \ {p}, !.choked = @ \cup {p}, !.rq[p] = none, !.dq[p] = none,
                          !.snubbed = @ \ {p}, !.desired[p] = QueueSize, !.writes = w]
<1>1. Close(s, p) = u
  BY DEF Close
<1> HIDE DEF none, w
<1>2. /\ u.blk = t.blk /\ u.have = t.have /\ u.picker = t.picker
      /\ u.conn = t.conn \ {p} /\ u.choked = t.choked \cup {p}
      /\ u.rq = [t.rq EXCEPT ![p] = none] /\ u.dq = [t.dq EXCEPT ![p] = none]
  BY DEF Shapes
<1> HIDE DEF u
<1>3. t.rq \in [Peers -> Seq(Blocks)] /\ t.dq \in [Peers -> Seq(Pending)]
  BY DEF Shapes
<1>4. /\ u.rq[p] = none /\ u.dq[p] = none
      /\ \A v \in Peers : v # p => u.rq[v] = t.rq[v] /\ u.dq[v] = t.dq[v]
  BY <1>2, <1>3
<1> QED BY <1>1, <1>2, <1>4 DEF Untouched, none

\* Nothing is asked of a peer with empty queues.
LEMMA EmptyQueues ==
  ASSUME NEW s, NEW p, s.rq[p] = <<>>, s.dq[p] = <<>>
  PROVE  IsInjective(QueueOf(s, p)) /\ Asked(s, p) = {}
<1>1. QueueOf(s, p) = <<>>
  BY DEF QueueOf
<1> QED BY <1>1 DEF Asked, IsInjective, ToSet

\* disconnect.  Nobody needs to be counted for the blocks X.
LEMMA CloseKeeps ==
  ASSUME NEW X, NEW s \in Without(X), NEW p \in Peers
  PROVE  Close(s, p) \in Without(X) /\ Close(s, p).conn = s.conn \ {p}
<1> DEFINE u == Close(s, p)
           A == Accounts(s, X)
           q == QueueOf(s, p)
           t == IF s.picker THEN AbortAll(s, q) ELSE s
           B == IF s.picker THEN [A EXCEPT ![p] = @ \ ToSet(q)] ELSE A
<1>1. s \in Fair /\ s \in Sound /\ s \in Shapes /\ Meant(s) /\ Ledger(s, A) /\ p \in Writers
  BY DEF Without, Fair, Sound, Writers
<1>2. /\ A \in Tables /\ A[Nobody] = {}
      /\ \A v \in Peers : v \in Writers /\ v # Nobody /\ A[v] = Asked(s, v) \ X
  BY <1>1, AccountFacts, Zenon
<1>3. q \in Seq(Blocks) /\ IsInjective(q) /\ Asked(s, p) = ToSet(q)
  BY <1>1, QueueFacts DEF Fair, Distinct, Asked
<1>4. t \in Sound /\ Meant(t) /\ Ledger(t, B) /\ Untouched(s, t)
  <2>1. CASE s.picker
    <3>1. \A k \in DOMAIN q : q[k] \in A[p] \/ Claims(A, q[k]) = {}
      <4> SUFFICES ASSUME NEW k \in DOMAIN q, q[k] \notin A[p] PROVE Claims(A, q[k]) = {}
        OBVIOUS
      <4>1. q[k] \in X
        BY <1>2, <1>3 DEF ToSet
      <4> QED BY <1>2, <4>1 DEF Claims, Writers
    <3> HIDE DEF q, A
    <3> QED BY <1>1, <1>2, <1>3, <2>1, <3>1, AbortAllKeeps
  <2>2. CASE ~s.picker
    BY <1>1, <2>2 DEF Untouched
  <2> QED BY <2>1, <2>2
<1>5. /\ u.blk = t.blk /\ u.have = s.have /\ u.picker = s.picker
      /\ u.conn = s.conn \ {p} /\ u.choked = s.choked \cup {p}
      /\ u.rq[p] = <<>> /\ u.dq[p] = <<>>
      /\ \A v \in Peers : v # p => u.rq[v] = s.rq[v] /\ u.dq[v] = s.dq[v]
  <2>1. t \in Shapes /\ t = IF s.picker THEN AbortAll(s, QueueOf(s, p)) ELSE s
    BY <1>4 DEF Sound
  <2> HIDE DEF t
  <2> QED BY <1>1, <1>4, <2>1, CloseFields
<1>6. u \in Sound /\ u \in Shapes
  BY <1>1, CloseQuiet, QuietKeepsSound DEF Sound
<1>7. s.picker => /\ B[Nobody] = {} /\ B[p] = {}
                  /\ \A v \in Peers : v # p => B[v] = Asked(s, v) \ X
  <2> SUFFICES ASSUME s.picker
               PROVE  /\ B[Nobody] = {} /\ B[p] = {}
                      /\ \A v \in Peers : v # p => B[v] = Asked(s, v) \ X
    OBVIOUS
  <2> DEFINE Z == A[p] \ ToSet(q)
  <2>1. A[p] \subseteq ToSet(q)
    BY <1>2, <1>3
  <2>2. Z = {}
    BY <2>1
  <2>3. B = [A EXCEPT ![p] = Z]
    OBVIOUS
  <2> HIDE DEF Z, A, B
  <2>4. B[p] = {} /\ \A v \in Writers : v # p => B[v] = A[v]
    BY <1>1, <1>2, <2>2, <2>3 DEF Tables
  <2>5. Nobody # p /\ Nobody \in Writers
    BY PipelineAssumption DEF Writers
  <2> QED BY <1>2, <2>4, <2>5
<1> HIDE DEF u, t, A, B, q
<1>8. IsInjective(QueueOf(u, p)) /\ Asked(u, p) = {}
  BY <1>5, EmptyQueues
<1>9. ASSUME NEW v \in Peers, v # p
      PROVE  QueueOf(u, v) = QueueOf(s, v) /\ Asked(u, v) = Asked(s, v)
  BY <1>5, <1>9, SameQueues
<1>10. Distinct(u)
  BY <1>1, <1>8, <1>9 DEF Fair, Distinct
<1>11. Away(u)
  BY <1>1, <1>5 DEF Fair, Away
<1>12. Meant(u)
  BY <1>4, <1>5 DEF Meant, State
<1>13. Ledger(u, Accounts(u, X))
  <2>1. CASE s.picker
    <3>1. \A b : ~IsDownloaded(t, b) => \A v \in Writers : b \in B[v] <=> b \in Accounts(u, X)[v]
      <4>1. Accounts(u, X)[Nobody] = {} /\ \A v \in Peers : Accounts(u, X)[v] = Asked(u, v) \ X
        BY <1>6, AccountFacts, Zenon
      <4> QED BY <1>7, <1>8, <1>9, <2>1, <4>1 DEF Writers
    <3>2. u.have = t.have
      BY <1>4, <1>5 DEF Untouched
    <3> QED BY <1>4, <1>5, <3>1, <3>2, LedgerAgrees
  <2>2. CASE ~s.picker
    <3>1. u.have = Pieces
      BY <1>1, <1>5, <2>2 DEF Sound, PickerUntilDone
    <3> QED BY <3>1, PieceOfBlock DEF Ledger, IsDownloaded
  <2> QED BY <2>1, <2>2
<1>14. u \in Without(X)
  BY <1>6, <1>10, <1>11, <1>12, <1>13 DEF Without, Fair
<1> QED BY <1>5, <1>14 DEF u

-----------------------------------------------------------------------------
(***************************************************************************)
(* Chokes and rejects: requests that left a queue are owed back one by one.*)
(***************************************************************************)

\* A torrent that has every piece counts nothing.
LEMMA NoLedger ==
  ASSUME NEW s, s.have = Pieces, NEW A
  PROVE  Ledger(s, A) /\ \A b \in Blocks : IsDownloaded(s, b)
BY PieceOfBlock DEF Ledger, IsDownloaded

\* A seed's picker has nothing to give out.
LEMMA SeedHasAll == ASSUME NEW s \in Sound, IsSeed(s) PROVE s.have = Pieces
BY DEF Sound, PickerUntilDone, IsSeed

\* disconnect_all.
LEMMA CloseAllKeeps ==
  ASSUME NEW X, NEW s \in Without(X), NEW P
  PROVE  CloseAll(s, P) \in Without(X) /\ CloseAll(s, P).conn = s.conn \ P
<1> DEFINE S == P \cap s.conn
           q == SetToSeq(S)
           n == Len(q)
           C == [k \in 0..n |-> {t \in Without(X) : t.conn = s.conn \ {q[j] : j \in 1..k}}]
<1>1. s \in Sound /\ s.conn \subseteq Peers
  BY DEF Without, Fair, Sound, Shapes
<1>2. PICK r \in [0..n -> Near(s)] :
           /\ n \in Nat /\ r[0] = s /\ r[n] = CloseAll(s, P)
           /\ \A k \in 1..n : r[k] = Close(r[k-1], q[k])
  BY <1>1, CloseAllRuns, ZenonT(40)
<1>3. n = Cardinality(S) /\ q \in [1..n -> S] /\ {q[j] : j \in 1..n} = S
  <2>1. IsFiniteSet(S)
    BY <1>1, PipelineAssumption, FS_Subset
  <2>2. Cardinality(S) \in Nat /\ q \in [1..Cardinality(S) -> S] /\ IsInjective(q)
    BY <2>1, ListOfSet
  <2> HIDE DEF S, q
  <2>3. n = Cardinality(S)
    BY <2>2
  <2> QED BY <2>1, <2>2, <2>3, ListIsWhole
<1> HIDE DEF q, n
<1>4. r[0] \in C[0]
  BY <1>2
<1>5. ASSUME NEW k \in 1..n, r[k-1] \in C[k-1] PROVE r[k] \in C[k]
  <2> DEFINE t == r[k-1]
  <2>0. q[k] \in S
    BY <1>3
  <2>1. k - 1 \in 0..n /\ k \in 0..n /\ q[k] \in Peers
    BY <1>1, <1>2, <2>0
  <2>2. t \in Without(X) /\ t.conn = s.conn \ {q[j] : j \in 1..(k-1)} /\ r[k] = Close(t, q[k])
    BY <1>2, <1>5, <2>1
  <2> HIDE DEF t
  <2>3. r[k] \in Without(X) /\ r[k].conn = t.conn \ {q[k]}
    BY <2>1, <2>2, CloseKeeps
  <2>4. \A j : j \in 1..k <=> j \in 1..(k-1) \/ j = k
    BY <2>1
  <2>5. r[k].conn = s.conn \ {q[j] : j \in 1..k}
    BY <2>2, <2>3, <2>4
  <2> QED BY <2>1, <2>3, <2>5
<1>6. r[n] \in C[n]
  <2> HIDE DEF C
  <2>1. \A k \in 0..n : r[k] \in C[k]
    BY <1>2, <1>4, <1>5, TraceInduction
  <2> QED BY <1>2, <2>1
<1>7. n \in 0..n
  BY <1>2
<1>8. s.conn \ S = s.conn \ P
  OBVIOUS
<1> HIDE DEF S
<1> QED BY <1>2, <1>3, <1>6, <1>7, <1>8

\* incoming_choke gives back what was not sent for yet.
LEMMA GiveBackKeeps ==
  ASSUME NEW s \in Balanced, NEW p \in s.conn
  PROVE  LET t == GiveBackRequests(s, p)
         IN  t \in Balanced /\ t.conn = s.conn /\ t.choked = s.choked /\ t.dq = s.dq
<1> DEFINE t == GiveBackRequests(s, p)
           q == s.rq[p]
           d == BlocksIn(s.dq[p])
           A == Overdrawn(s, Nobody, {})
           m == IF IsSeed(s) THEN s ELSE AbortAll(s, q)
           B == IF IsSeed(s) THEN A ELSE [A EXCEPT ![p] = @ \ ToSet(q)]
           none == <<>>
<1>0. Nobody \in Writers /\ Balanced = Owing(Nobody, {})
  BY NothingOwed DEF Writers
<1>1. /\ s \in Fair /\ s \in Sound /\ s \in Shapes /\ Meant(s) /\ A \in Tables /\ Ledger(s, A)
      /\ \A v \in Peers : v \in Writers /\ v # Nobody /\ IsInjective(QueueOf(s, v))
      /\ \A v \in Peers : \A c : c \in A[v] <=> c \in Asked(s, v)
      /\ \A c : c \in A[Nobody] <=> c \in {}
  BY <1>0, Overdraft
<1>2. p \in Peers
  BY <1>1 DEF Shapes
<1>3. CASE p \in s.parole
  BY <1>3 DEF GiveBackRequests
<1>4. CASE p \notin s.parole
  <2>1. t = [m EXCEPT !.rq[p] = none]
    BY <1>4 DEF GiveBackRequests
  <2>2. /\ d \in Seq(Blocks) /\ q \in Seq(Blocks) /\ Asked(s, p) = ToSet(d) \cup ToSet(q)
        /\ IsInjective(d) /\ IsInjective(q) /\ ToSet(d) \cap ToSet(q) = {}
    BY <1>1, <1>2, QueueFacts
  <2> HIDE DEF A, q, d
  <2>3. m \in Sound /\ Meant(m) /\ Untouched(s, m) /\ Ledger(m, B)
    <3>1. CASE IsSeed(s)
      BY <1>1, <3>1 DEF Untouched
    <3>2. CASE ~IsSeed(s)
      <4>1. s.picker
        BY <1>1, <3>2 DEF IsSeed, Shapes
      <4>2. \A k \in DOMAIN q : q[k] \in A[p] \/ Claims(A, q[k]) = {}
        BY <1>1, <1>2, <2>2 DEF ToSet
      <4> QED BY <1>1, <1>2, <2>2, <3>2, <4>1, <4>2, AbortAllKeeps
    <3> QED BY <3>1, <3>2
  <2>4. t.blk = m.blk /\ t.have = s.have /\ t.conn = s.conn /\ t.choked = s.choked
        /\ t.dq = s.dq /\ t.rq[p] = none /\ \A v \in Peers : v # p => t.rq[v] = s.rq[v]
    <3> HIDE DEF t, m
    <3> QED BY <1>2, <2>1, <2>3 DEF Untouched, Sound, Shapes
  <2>5. t \in Sound
    BY <1>1, <1>2, GiveBackQuiet, QuietKeepsSound
  <2> HIDE DEF t, m
  <2>6. Asked(t, p) = ToSet(d) /\ IsInjective(QueueOf(t, p))
    <3>1. ToSet(none) = {} /\ IsInjective(none)
      BY DEF ToSet, IsInjective
    <3> HIDE DEF none
    <3>2. t \in Shapes /\ BlocksIn(t.dq[p]) = d /\ t.rq[p] = none
      BY <2>4, <2>5 DEF Sound, d
    <3>3. LET e == BlocksIn(t.dq[p])
          IN  /\ Asked(t, p) = ToSet(e) \cup ToSet(t.rq[p])
              /\ IsInjective(QueueOf(t, p)) <=>
                   IsInjective(e) /\ IsInjective(t.rq[p]) /\ ToSet(e) \cap ToSet(t.rq[p]) = {}
      BY <1>2, <3>2, QueueFacts
    <3> QED BY <2>2, <3>1, <3>2, <3>3
  <2>7. Meant(t) /\ Ledger(t, B)
    <3> HIDE DEF B
    <3>1. m.have = t.have
      BY <2>3, <2>4 DEF Untouched
    <3> QED BY <2>3, <2>4, <3>1, LedgerAgrees DEF Meant, State
  <2>8. ASSUME NEW b \in Blocks, ~IsDownloaded(t, b)
        PROVE  /\ \A v \in Peers : v # p => (b \in B[v] <=> b \in Asked(s, v))
               /\ b \in B[p] <=> b \in Asked(t, p)
               /\ b \notin B[Nobody]
    <3>1. ~IsSeed(s)
      <4>1. PieceOf(b) \notin s.have /\ PieceOf(b) \in Pieces
        BY <2>4, <2>8, PieceOfBlock DEF IsDownloaded
      <4> QED BY <1>1, <4>1, SeedHasAll
    <3>2. B[p] = A[p] \ ToSet(q) /\ \A v \in Writers : v # p => B[v] = A[v]
      BY <1>1, <1>2, <3>1 DEF Tables
    <3> HIDE DEF B
    <3> QED BY <1>0, <1>1, <1>2, <2>2, <2>6, <3>2
  <2> HIDE DEF B
  <2> DEFINE E == {}
  <2>9. E \in SUBSET Blocks /\ \A b : b \notin E
    OBVIOUS
  <2> HIDE DEF E
  <2>10. \A b \in Blocks : ~IsDownloaded(t, b) =>
           /\ \A v \in Peers : v # p => (b \in B[v] <=> b \in Asked(s, v) \/ (v = Nobody /\ b \in E))
           /\ b \in B[p] <=> b \in Asked(t, p) \/ (p = Nobody /\ b \in E)
           /\ b \in B[Nobody] <=> (Nobody = Nobody /\ b \in E)
    BY <2>8, <2>9
  <2>11. \A v \in Peers : v # p => t.rq[v] = s.rq[v] /\ t.dq[v] = s.dq[v]
    BY <2>4
  <2>12. t \in Owing(Nobody, E)
    BY <1>0, <1>1, <2>4, <2>5, <2>6, <2>7, <2>9, <2>10, <2>11, Recount
  <2> QED BY <1>0, <2>4, <2>12 DEF t, E
<1> QED BY <1>3, <1>4

\* Blocks that leave the queues of p and are owed back, or return to them.
LEMMA Requeue ==
  ASSUME NEW p \in Peers, NEW E \in SUBSET Blocks, NEW s \in Owing(p, E), p \in s.conn,
         NEW t \in Sound, t.blk = s.blk, t.have = s.have, t.conn = s.conn, t.choked = s.choked,
         \A v \in Peers : v # p => t.rq[v] = s.rq[v] /\ t.dq[v] = s.dq[v],
         IsInjective(QueueOf(t, p)), NEW F \in SUBSET Blocks,
         \A c \in Blocks : c \in Asked(s, p) \/ c \in E <=> c \in Asked(t, p) \/ c \in F
  PROVE  t \in Owing(p, F)
<1> DEFINE A == Overdrawn(s, p, E)
<1>0. p \in Writers /\ p # Nobody
  BY PipelineAssumption DEF Writers
<1>1. /\ s \in Fair /\ Meant(s) /\ A \in Tables /\ Ledger(s, A)
      /\ \A v \in Peers : \A c : c \in A[v] <=> c \in Asked(s, v) \/ (v = p /\ c \in E)
      /\ \A c : c \in A[Nobody] <=> (Nobody = p /\ c \in E)
  BY <1>0, Overdraft
<1> HIDE DEF A
<1>2. Meant(t) /\ Ledger(t, A)
  BY <1>1, LedgerAgrees DEF Meant, State
<1>3. \A b \in Blocks : ~IsDownloaded(t, b) =>
        /\ \A v \in Peers : v # p => (b \in A[v] <=> b \in Asked(s, v) \/ (v = p /\ b \in F))
        /\ b \in A[p] <=> b \in Asked(t, p) \/ (p = p /\ b \in F)
        /\ b \in A[Nobody] <=> (Nobody = p /\ b \in F)
  BY <1>0, <1>1
<1> QED BY <1>0, <1>1, <1>2, <1>3, Recount

\* abort_download pays a debt.
LEMMA Refund ==
  ASSUME NEW w \in Writers, NEW E \in SUBSET Blocks, NEW s \in Owing(w, E), s.picker,
         NEW b \in E, w \in Peers => b \notin Asked(s, w)
  PROVE  Abort(s, b) \in Owing(w, E \ {b}) /\ Untouched(s, Abort(s, b))
<1> DEFINE A == Overdrawn(s, w, E)
           F == E \ {b}
           B == [A EXCEPT ![w] = @ \ {b}]
           t == Abort(s, b)
           D == Overdrawn(t, w, F)
<1>1. /\ s \in Fair /\ s \in Sound /\ Meant(s) /\ A \in Tables /\ Ledger(s, A)
      /\ \A v \in Peers : v \in Writers /\ v # Nobody
      /\ \A v \in Peers : \A c : c \in A[v] <=> c \in Asked(s, v) \/ (v = w /\ c \in E)
      /\ \A c : c \in A[Nobody] <=> (Nobody = w /\ c \in E)
  BY Overdraft
<1> HIDE DEF A
<1>2. b \in Blocks /\ b \in A[w]
  BY <1>1 DEF Writers
<1>3. Meant(t) /\ Ledger(t, B)
  BY <1>1, <1>2, LedgerAbort
<1>4. t \in Sound /\ t \in Shapes
  BY <1>1, <1>2, AbortQuiet, QuietKeepsSound DEF Sound
<1>5. Untouched(s, t)
  BY <1>1, AbortUntouched
<1> HIDE DEF t
<1>6. \A v \in Peers : QueueOf(t, v) = QueueOf(s, v) /\ Asked(t, v) = Asked(s, v)
  BY <1>5, SameQueues DEF Untouched
<1>7. t \in Fair
  <2>1. Distinct(t) /\ Away(t)
    BY <1>1, <1>5, <1>6 DEF Fair, Distinct, Away, Untouched
  <2> QED BY <1>3, <1>4, <2>1 DEF Fair
<1>8. \A v \in Writers : B[v] = IF v = w THEN A[w] \ {b} ELSE A[v]
  BY <1>1 DEF Tables
<1> HIDE DEF B
<1>9. \A v \in Writers : D[v] = (IF v = Nobody THEN {} ELSE Asked(t, v))
                                   \cup (IF v = w THEN F ELSE {})
  <2>1. F \in SUBSET Blocks
    OBVIOUS
  <2>2. \A x \in Writers : \A G \in SUBSET Blocks :
          /\ Overdrawn(t, x, G) \in Tables
          /\ \A v \in Writers :
                    Overdrawn(t, x, G)[v] = (IF v = Nobody THEN {} ELSE Asked(t, v))
                                              \cup (IF v = x THEN G ELSE {})
    BY <1>4, AccountFacts, Zenon
  <2> HIDE DEF F
  <2> QED BY <2>1, <2>2
<1> HIDE DEF D
<1>10. ASSUME NEW c, NEW v \in Writers PROVE c \in B[v] <=> c \in D[v]
  <2>1. CASE v = Nobody
    BY <1>1, <1>8, <1>9, <2>1
  <2>2. CASE v # Nobody
    <3>1. v \in Peers /\ Asked(t, v) = Asked(s, v)
      BY <1>6, <2>2 DEF Writers
    <3> QED BY <1>1, <1>8, <1>9, <2>2, <3>1
  <2> QED BY <2>1, <2>2
<1>11. Ledger(t, D)
  BY <1>3, <1>10, LedgerAgrees
<1> QED BY <1>5, <1>7, <1>11 DEF Owing, D, t

\* A request that was rejected.
LEMMA RejectedKeeps ==
  ASSUME NEW p \in Peers, NEW E \in SUBSET Blocks, NEW s \in Owing(p, E), p \in s.conn,
         NEW b \in E, b \notin Asked(s, p)
  PROVE  LET t == Rejected(s, p, b)
         IN  /\ t \in Owing(p, E \ {b}) /\ t.conn = s.conn
             /\ Asked(t, p) \subseteq Asked(s, p) \cup {b}
<1> DEFINE t == Rejected(s, p, b)
           F == E \ {b}
<1>1. s \in Fair /\ s \in Sound /\ s \in Shapes /\ p \in Writers /\ F \in SUBSET Blocks
  BY DEF Owing, Fair, Sound, Writers
<1>2. CASE p \in s.parole
  <2> DEFINE f == s.rq[p]
             q == <<b>> \o f
             d == BlocksIn(s.dq[p])
  <2>1. t = [s EXCEPT !.rq[p] = q]
    BY <1>2 DEF Rejected
  <2>2. t \in Sound
    BY <1>1, RejectedQuiet, QuietKeepsSound
  <2>3. /\ f \in Seq(Blocks) /\ d \in Seq(Blocks) /\ Asked(s, p) = ToSet(d) \cup ToSet(f)
        /\ IsInjective(d) /\ IsInjective(f) /\ ToSet(d) \cap ToSet(f) = {}
    BY <1>1, QueueFacts DEF Fair, Distinct
  <2> HIDE DEF f, d
  <2>4. /\ q \in Seq(Blocks) /\ \A x : x \in ToSet(q) <=> x \in ToSet(f) \/ x = b
        /\ IsInjective(q) <=> IsInjective(f) /\ b \notin ToSet(f)
    BY <2>3, AppendElement
  <2> HIDE DEF q, t
  <2>5. t.blk = s.blk /\ t.have = s.have /\ t.conn = s.conn /\ t.choked = s.choked
        /\ t.dq = s.dq /\ t.rq[p] = q /\ \A v \in Peers : v # p => t.rq[v] = s.rq[v]
    BY <1>1, <2>1 DEF Shapes
  <2>6. IsInjective(QueueOf(t, p)) /\ \A x : x \in Asked(t, p) <=> x \in Asked(s, p) \/ x = b
    <3>1. t \in Shapes /\ BlocksIn(t.dq[p]) = d
      BY <2>2, <2>5 DEF Sound, d
    <3>2. LET e == BlocksIn(t.dq[p])
          IN  /\ Asked(t, p) = ToSet(e) \cup ToSet(t.rq[p])
              /\ IsInjective(QueueOf(t, p)) <=>
                   IsInjective(e) /\ IsInjective(t.rq[p]) /\ ToSet(e) \cap ToSet(t.rq[p]) = {}
      BY <3>1, QueueFacts
    <3> QED BY <2>3, <2>4, <2>5, <3>1, <3>2
  <2>7. \A c \in Blocks : c \in Asked(s, p) \/ c \in E <=> c \in Asked(t, p) \/ c \in F
    BY <2>6
  <2>8. t \in Owing(p, F)
    BY <1>1, <2>2, <2>5, <2>6, <2>7, Requeue
  <2> QED BY <2>5, <2>6, <2>8 DEF t
<1>3. CASE p \notin s.parole /\ IsSeed(s)
  <2>1. t = s
    BY <1>3 DEF Rejected
  <2>2. Ledger(s, Overdrawn(s, p, F))
    BY <1>1, <1>3, SeedHasAll, NoLedger
  <2>3. s \in Owing(p, F)
    BY <1>1, <2>2 DEF Owing
  <2> QED BY <2>1, <2>3
<1>4. CASE p \notin s.parole /\ ~IsSeed(s)
  <2>1. t = Abort(s, b)
    BY <1>4 DEF Rejected
  <2>2. s.picker
    BY <1>1, <1>4 DEF IsSeed, Shapes
  <2>3. t \in Owing(p, F) /\ Untouched(s, t)
    BY <1>1, <2>1, <2>2, Refund
  <2>4. Asked(t, p) = Asked(s, p)
    BY <2>3, SameQueues DEF Untouched
  <2> QED BY <2>3, <2>4 DEF Untouched
<1> QED BY <1>2, <1>3, <1>4

\* A handler that goes through requests that left the queue of p, and pays for
\* each or puts it back.
LEMMA SettleTrace ==
  ASSUME NEW p \in Peers, NEW q \in Seq(Blocks), IsInjective(q), NEW G \in SUBSET Blocks,
         NEW r, r[0] \in Owing(p, ToSet(q) \cup G), p \in r[0].conn,
         \A k \in 1..Len(q) : q[k] \notin Asked(r[0], p) /\ q[k] \notin G,
         \A k \in 1..Len(q) : \A E \in SUBSET Blocks :
           r[k-1] \in Owing(p, E) /\ p \in r[k-1].conn /\ q[k] \in E /\ q[k] \notin Asked(r[k-1], p)
             => /\ r[k] \in Owing(p, E \ {q[k]}) /\ r[k].conn = r[k-1].conn
                /\ Asked(r[k], p) \subseteq Asked(r[k-1], p) \cup {q[k]}
  PROVE  /\ r[Len(q)] \in Owing(p, G) /\ r[Len(q)].conn = r[0].conn
         /\ Asked(r[Len(q)], p) \subseteq Asked(r[0], p) \cup ToSet(q)
<1> DEFINE n == Len(q)
           Left(k) == {q[j] : j \in (k+1)..n} \cup G
           Held(k) == Asked(r[0], p) \cup {q[j] : j \in 1..k}
           C == [k \in 0..n |-> {t \in Owing(p, Left(k)) : t.conn = r[0].conn /\ Asked(t, p) \subseteq Held(k)}]
<1>1. n \in Nat /\ DOMAIN q = 1..n /\ \A k \in 1..n : q[k] \in Blocks
  BY LenProperties, ElementOfSeq
<1>2. \A i, j \in 1..n : q[i] = q[j] => i = j
  BY <1>1 DEF IsInjective
<1>3. r[0] \in C[0]
  <2>1. Left(0) = ToSet(q) \cup G
    BY <1>1 DEF ToSet
  <2>2. 0 \in 0..n
    BY <1>1
  <2> HIDE DEF Left
  <2> QED BY <2>1, <2>2
<1>4. ASSUME NEW k \in 1..n, r[k-1] \in C[k-1] PROVE r[k] \in C[k]
  <2> DEFINE E == Left(k-1)
  <2>1. k - 1 \in 0..n /\ k \in 0..n /\ q[k] \in Blocks /\ (k - 1) + 1 = k
    BY <1>1
  <2>2. r[k-1] \in Owing(p, E) /\ r[k-1].conn = r[0].conn /\ Asked(r[k-1], p) \subseteq Held(k-1)
    BY <1>4, <2>1
  <2>3. E \in SUBSET Blocks /\ q[k] \in E
    <3>1. \A j \in ((k-1)+1)..n : j \in 1..n
      BY <2>1
    <3>2. k \in ((k-1)+1)..n
      BY <1>1, <2>1
    <3> QED BY <1>1, <3>1, <3>2
  <2>4. q[k] \notin Held(k-1)
    <3>1. \A j \in 1..(k-1) : j \in 1..n /\ j # k
      BY <2>1
    <3> QED BY <1>2, <3>1
  <2>5. E \ {q[k]} = Left(k)
    <3>1. \A j : j \in ((k-1)+1)..n <=> j = k \/ j \in (k+1)..n
      BY <1>1, <2>1
    <3>2. \A j \in (k+1)..n : j \in 1..n /\ j # k
      BY <1>1, <2>1
    <3>3. {q[j] : j \in ((k-1)+1)..n} \ {q[k]} = {q[j] : j \in (k+1)..n}
      BY <1>2, <3>1, <3>2
    <3> QED BY <3>3
  <2> HIDE DEF E
  <2>6. /\ r[k] \in Owing(p, E \ {q[k]}) /\ r[k].conn = r[k-1].conn
        /\ Asked(r[k], p) \subseteq Asked(r[k-1], p) \cup {q[k]}
    <3>1. p \in r[k-1].conn /\ q[k] \notin Asked(r[k-1], p)
      BY <2>2, <2>4
    <3> QED BY <2>2, <2>3, <3>1, Zenon
  <2>7. Held(k-1) \cup {q[k]} = Held(k)
    <3>1. \A j : j \in 1..k <=> j \in 1..(k-1) \/ j = k
      BY <2>1
    <3> QED BY <3>1
  <2> HIDE DEF Left, Held
  <2> QED BY <2>1, <2>2, <2>5, <2>6, <2>7
<1>5. r[n] \in C[n]
  <2> HIDE DEF C
  <2>1. \A k \in 0..n : r[k] \in C[k]
    BY <1>1, <1>3, <1>4, TraceInduction
  <2> QED BY <1>1, <2>1
<1>6. Left(n) = G /\ Held(n) = Asked(r[0], p) \cup ToSet(q) /\ n \in 0..n
  <2>1. (n+1)..n = {}
    BY <1>1
  <2> QED BY <1>1, <2>1 DEF ToSet
<1> HIDE DEF Left, Held
<1> QED BY <1>5, <1>6

\* The download queue of p is taken to go through it.
LEMMA TakeQueue ==
  ASSUME NEW s \in Balanced, NEW p \in s.conn
  PROVE  LET e == [s EXCEPT !.dq[p] = <<>>]
             d == BlocksIn(s.dq[p])
         IN  /\ e \in Owing(p, ToSet(d)) /\ e \in Sound /\ e.conn = s.conn
             /\ Asked(e, p) = ToSet(s.rq[p])
             /\ s.dq[p] \in Seq(Pending) /\ d \in Seq(Blocks) /\ s.rq[p] \in Seq(Blocks)
             /\ IsInjective(d) /\ ToSet(d) \cap ToSet(s.rq[p]) = {}
<1> DEFINE d == BlocksIn(s.dq[p])
           none == <<>>
           e == [s EXCEPT !.dq[p] = none]
<1>0. p \in Writers /\ Nobody \in Writers /\ p \in Peers /\ s \in Fair /\ s \in Sound /\ s \in Shapes
  BY DEF Balanced, Without, Fair, Sound, Shapes, Writers
<1>1. /\ s.dq[p] \in Seq(Pending) /\ d \in Seq(Blocks) /\ Asked(s, p) = ToSet(d) \cup ToSet(s.rq[p])
      /\ s.rq[p] \in Seq(Blocks) /\ Asked(s, p) \in SUBSET Blocks
      /\ IsInjective(d) /\ IsInjective(s.rq[p]) /\ ToSet(d) \cap ToSet(s.rq[p]) = {}
  BY <1>0, QueueFacts DEF Fair, Distinct
<1>2. none \in Seq(Pending) /\ ToSet(none) = {} /\ IsInjective(none) /\ BlocksIn(none) = none
  BY DEF BlocksIn, ToSet, IsInjective
<1> HIDE DEF d, none
<1>3. e \in Shapes /\ e.blk = s.blk /\ e.have = s.have /\ e.picker = s.picker /\ e.dead = s.dead
      /\ e.writes = s.writes /\ e.conn = s.conn
      /\ e.choked = s.choked /\ e.rq = s.rq /\ e.dq[p] = none
      /\ \A v \in Peers : v # p => e.dq[v] = s.dq[v]
  BY <1>0, <1>2 DEF Shapes
<1> HIDE DEF e
<1>4. e \in Sound
  BY <1>0, <1>3, Aside
<1>5. Asked(e, p) = ToSet(e.rq[p]) /\ IsInjective(QueueOf(e, p))
  <2>1. LET z == BlocksIn(e.dq[p])
        IN  /\ Asked(e, p) = ToSet(z) \cup ToSet(e.rq[p])
            /\ IsInjective(QueueOf(e, p)) <=>
                 IsInjective(z) /\ IsInjective(e.rq[p]) /\ ToSet(z) \cap ToSet(e.rq[p]) = {}
    BY <1>0, <1>3, QueueFacts
  <2> QED BY <1>1, <1>2, <1>3, <2>1
<1> DEFINE F == ToSet(d)
           N == {}
<1>6. F \in SUBSET Blocks /\ N \in SUBSET Blocks /\ \A c : c \notin N
  BY <1>1
<1> HIDE DEF N
<1>7. s \in Owing(p, N)
  BY <1>0, NothingOwed DEF N
<1>8. \A c \in Blocks : c \in Asked(s, p) \/ c \in N <=> c \in Asked(e, p) \/ c \in F
  BY <1>1, <1>3, <1>5, <1>6
<1> HIDE DEF F
<1>9. e \in Owing(p, F)
  BY <1>0, <1>3, <1>4, <1>5, <1>6, <1>7, <1>8, Requeue
<1> QED BY <1>1, <1>3, <1>4, <1>5, <1>9 DEF F, d, e, none

\* A choke that rejects the requests sent.
LEMMA RejectAllKeeps ==
  ASSUME NEW s \in Balanced, NEW p \in s.conn
  PROVE  LET u == RejectAll([s EXCEPT !.dq[p] = <<>>], p, s.dq[p])
         IN  u \in Balanced /\ u.conn = s.conn
<1> DEFINE q == s.dq[p]
           d == BlocksIn(q)
           n == Len(q)
           e == [s EXCEPT !.dq[p] = <<>>]
           N == {}
<1>0. p \in Writers /\ p \in Peers
  BY DEF Balanced, Without, Fair, Sound, Shapes, Writers
<1>1. /\ e \in Owing(p, ToSet(d)) /\ e \in Sound /\ e.conn = s.conn
      /\ Asked(e, p) = ToSet(s.rq[p])
      /\ q \in Seq(Pending) /\ d \in Seq(Blocks) /\ s.rq[p] \in Seq(Blocks)
      /\ IsInjective(d) /\ ToSet(d) \cap ToSet(s.rq[p]) = {}
  BY TakeQueue, Zenon
<1>2. n \in Nat /\ Len(d) = n /\ \A k \in 1..n : d[k] = q[k].block
  BY <1>1, BlocksInFacts, LenProperties
<1> HIDE DEF e
<1>3. PICK r \in [0..n -> Near(e)] :
           /\ r[0] = e /\ r[n] = RejectAll(e, p, q)
           /\ \A k \in 1..n : r[k] = Rejected(r[k-1], p, q[k].block)
  BY <1>0, <1>1, RejectAllRuns, ZenonT(30)
<1> HIDE DEF q, d, n
<1>4. ASSUME NEW k \in 1..Len(d), NEW E \in SUBSET Blocks,
             r[k-1] \in Owing(p, E), p \in r[k-1].conn, d[k] \in E, d[k] \notin Asked(r[k-1], p)
      PROVE  /\ r[k] \in Owing(p, E \ {d[k]}) /\ r[k].conn = r[k-1].conn
             /\ Asked(r[k], p) \subseteq Asked(r[k-1], p) \cup {d[k]}
  <2>1. r[k] = Rejected(r[k-1], p, d[k])
    BY <1>2, <1>3
  <2> QED BY <1>0, <1>4, <2>1, RejectedKeeps
<1>5. N \in SUBSET Blocks /\ ToSet(d) \cup N = ToSet(d) /\ \A c : c \notin N
  OBVIOUS
<1> HIDE DEF N
<1>6. \A k \in 1..Len(d) : d[k] \notin Asked(r[0], p) /\ d[k] \notin N
  <2> SUFFICES ASSUME NEW k \in 1..Len(d) PROVE d[k] \notin Asked(r[0], p) /\ d[k] \notin N
    OBVIOUS
  <2>1. d[k] \in ToSet(d)
    BY <1>1 DEF ToSet
  <2> QED BY <1>1, <1>3, <1>5, <2>1
<1>7. r[0] \in Owing(p, ToSet(d) \cup N) /\ p \in r[0].conn
  BY <1>1, <1>3, <1>5
<1>8. r[Len(d)] \in Owing(p, N) /\ r[Len(d)].conn = r[0].conn
  <2>1. \A k \in 1..Len(d) : \A E \in SUBSET Blocks :
           r[k-1] \in Owing(p, E) /\ p \in r[k-1].conn /\ d[k] \in E /\ d[k] \notin Asked(r[k-1], p)
             => /\ r[k] \in Owing(p, E \ {d[k]}) /\ r[k].conn = r[k-1].conn
                /\ Asked(r[k], p) \subseteq Asked(r[k-1], p) \cup {d[k]}
    BY <1>4
  <2> QED BY <1>0, <1>1, <1>5, <1>6, <1>7, <2>1, SettleTrace, Zenon
<1>9. r[n] \in Balanced
  BY <1>0, <1>2, <1>8, NothingOwed DEF N
<1> QED BY <1>1, <1>2, <1>3, <1>8, <1>9 DEF q, e

-----------------------------------------------------------------------------
(***************************************************************************)
(* A block arrives, out of order perhaps.                                  *)
(***************************************************************************)

\* incoming_piece pays for the block that came.
LEMMA AcceptKeeps ==
  ASSUME NEW p \in Peers, NEW b \in Blocks, NEW s \in Owing(p, {b})
  PROVE  LET u == Accept(s, p, b)
         IN  u \in Balanced /\ u.conn = s.conn
<1> DEFINE E == {b}
           A == Overdrawn(s, p, E)
           u == Accept(s, p, b)
           B == Accounts(u, {})
<1>0. p \in Writers /\ E \in SUBSET Blocks /\ s \in Owing(p, E) /\ \A c : c \in E <=> c = b
  BY DEF Writers
<1> HIDE DEF E
<1>1. /\ s \in Fair /\ s \in Sound /\ Meant(s) /\ A \in Tables /\ Ledger(s, A)
      /\ \A v \in Peers : v \in Writers /\ v # Nobody
      /\ \A v \in Peers : \A c : c \in A[v] <=> c \in Asked(s, v) \/ (v = p /\ c \in E)
      /\ \A c : c \in A[Nobody] <=> (Nobody = p /\ c \in E)
  BY <1>0, Overdraft
<1> HIDE DEF A
<1>2. /\ u \in Sound /\ u.have = s.have /\ u.rq = s.rq /\ u.dq = s.dq /\ u.conn = s.conn
      /\ u.choked = s.choked /\ IsDownloaded(u, b)
      /\ u.blk[b] = s.blk[b] \/ (u.blk[b].peers = 0 /\ State(u, b) = "writing")
      /\ \A c \in Blocks : c # b => u.blk[c] = s.blk[c]
  <2>1. CASE IsDownloaded(s, b)
    <3>1. u = s
      BY <2>1 DEF Accept
    <3> HIDE DEF u
    <3> QED BY <1>1, <2>1, <3>1
  <2>2. CASE ~IsDownloaded(s, b)
    <3> DEFINE t == MarkAsWriting(AsyncWrite(s, b, p), b, p)
    <3>1. /\ t \in Sound /\ SameFinished(s, t)
          /\ t.have = s.have /\ t.rq = s.rq /\ t.dq = s.dq /\ t.conn = s.conn
          /\ t.choked = s.choked /\ State(t, b) = "writing" /\ t.blk[b].peers = 0
          /\ \A c \in Blocks : c # b => t.blk[c] = s.blk[c]
      BY <1>1, <2>2, WritingSound, Zenon
    <3>2. u = t
      BY <1>1, <2>2, AcceptMarks
    <3> HIDE DEF t, u
    <3> QED BY <3>1, <3>2 DEF IsDownloaded
  <2> QED BY <2>1, <2>2
<1> HIDE DEF u
<1>3. Meant(u)
  BY <1>1, <1>2 DEF Meant, State
<1>4. \A v \in Peers : QueueOf(u, v) = QueueOf(s, v) /\ Asked(u, v) = Asked(s, v)
  BY <1>2, SameQueues
<1>5. u \in Fair
  <2>1. Distinct(u) /\ Away(u)
    BY <1>1, <1>2, <1>4 DEF Fair, Distinct, Away
  <2> QED BY <1>2, <1>3, <2>1 DEF Fair
<1>6. B[Nobody] = {} /\ \A v \in Peers : B[v] = Asked(u, v)
  <2>1. u \in Shapes
    BY <1>2 DEF Sound
  <2>2. /\ B \in Tables /\ B[Nobody] = {}
        /\ \A v \in Peers : v \in Writers /\ v # Nobody /\ B[v] = Asked(u, v) \ {}
    BY <2>1, AccountFacts, Zenon
  <2>3. \A v : Asked(u, v) \ {} = Asked(u, v)
    OBVIOUS
  <2> HIDE DEF B
  <2> QED BY <2>2, <2>3
<1> HIDE DEF B
<1>7. Ledger(u, B)
  <2> SUFFICES ASSUME NEW c \in Blocks, ~IsDownloaded(u, c)
               PROVE  u.blk[c].peers = Cardinality(Claims(B, c))
    BY DEF Ledger
  <2>1. c # b /\ u.blk[c] = s.blk[c] /\ ~IsDownloaded(s, c)
    BY <1>2 DEF IsDownloaded, State
  <2>2. \A v \in Peers : c \in B[v] <=> c \in A[v]
    BY <1>0, <1>1, <1>4, <1>6, <2>1
  <2>3. c \notin A[Nobody] /\ c \notin B[Nobody]
    BY <1>0, <1>1, <1>6, <2>1
  <2>4. Claims(B, c) = Claims(A, c)
    BY <2>2, <2>3 DEF Claims, Writers
  <2> QED BY <1>1, <2>1, <2>4 DEF Ledger
<1> QED BY <1>2, <1>5, <1>7 DEF Balanced, Without, B, u

\* A request that was overtaken.
LEMMA OvertakeKeeps ==
  ASSUME NEW p \in Peers, NEW E \in SUBSET Blocks, NEW s \in Owing(p, E), p \in s.conn, s.picker,
         NEW e \in Pending, e.block \in E, e.block \notin Asked(s, p), NEW first, first.desired[p] \in Nat
  PROVE  LET t == Overtake(first, p, s, e)
         IN  /\ t \in Owing(p, E \ {e.block}) /\ t.conn = s.conn
             /\ Asked(t, p) \subseteq Asked(s, p) \cup {e.block}
<1> DEFINE t == Overtake(first, p, s, e)
           b == e.block
           F == E \ {b}
<1>1. s \in Fair /\ s \in Sound /\ s \in Shapes /\ p \in Writers /\ F \in SUBSET Blocks
      /\ b \in Blocks /\ e.skipped \in Nat
  BY DEF Owing, Fair, Sound, Writers, Pending
<1>2. CASE e.skipped + 1 > first.desired[p]
  <2>1. t = Abort(s, b)
    BY <1>2 DEF Overtake
  <2> HIDE DEF t
  <2>2. t \in Owing(p, F) /\ Untouched(s, t)
    BY <1>1, <2>1, Refund
  <2>3. Asked(t, p) = Asked(s, p)
    BY <2>2, SameQueues DEF Untouched
  <2> QED BY <2>2, <2>3 DEF Untouched, t
<1>3. CASE ~(e.skipped + 1 > first.desired[p])
  <2> DEFINE f == [e EXCEPT !.skipped = @ + 1]
             q == s.dq[p]
             o == <<f>>
             a == Append(q, f)
             d == BlocksIn(q)
             z == Append(d, b)
  <2>1. f \in Pending /\ f.block = b
    BY <1>1 DEF Pending
  <2>2. t = [s EXCEPT !.dq[p] = a]
    BY <1>3 DEF Overtake
  <2> HIDE DEF f
  <2>3. /\ d \in Seq(Blocks) /\ s.rq[p] \in Seq(Blocks) /\ q \in Seq(Pending)
        /\ Asked(s, p) = ToSet(d) \cup ToSet(s.rq[p])
        /\ IsInjective(d) /\ IsInjective(s.rq[p]) /\ ToSet(d) \cap ToSet(s.rq[p]) = {}
    BY <1>1, QueueFacts DEF Fair, Distinct
  <2> HIDE DEF q
  <2>4. a \in Seq(Pending) /\ o \in Seq(Pending) /\ a = q \o o
    <3> HIDE DEF b, d
    <3>1. a \in Seq(Pending) /\ o \in Seq(Pending)
      BY <2>1, <2>3
    <3>2. a = q \o o
      BY <2>1, <2>3
    <3> QED BY <3>1, <3>2
  <2>5. BlocksIn(a) = z
    <3>1. BlocksIn(o) = <<b>>
      BY <2>1 DEF BlocksIn
    <3>2. BlocksIn(q \o o) = d \o BlocksIn(o)
      <4> HIDE DEF o
      <4> QED BY <2>3, <2>4, BlocksInFacts
    <3>3. z = d \o <<b>>
      <4> HIDE DEF d
      <4> QED BY <1>1, <2>3
    <3> HIDE DEF o, z, d
    <3> QED BY <2>4, <3>1, <3>2, <3>3
  <2> HIDE DEF d
  <2>6. /\ z \in Seq(Blocks) /\ \A x : x \in ToSet(z) <=> x \in ToSet(d) \/ x = b
        /\ IsInjective(z) <=> IsInjective(d) /\ b \notin ToSet(d)
    <3> HIDE DEF b
    <3> QED BY <1>1, <2>3, AppendElement
  <2> HIDE DEF t, a, z, o
  <2>7. t \in Shapes /\ t.blk = s.blk /\ t.have = s.have /\ t.picker = s.picker /\ t.dead = s.dead
        /\ t.writes = s.writes /\ t.conn = s.conn /\ t.choked = s.choked
        /\ t.rq = s.rq /\ t.dq[p] = a /\ \A v \in Peers : v # p => t.dq[v] = s.dq[v]
    BY <1>1, <2>2, <2>4 DEF Shapes
  <2>8. t \in Sound
    BY <1>1, <2>7, Aside
  <2>9. IsInjective(QueueOf(t, p)) /\ \A x : x \in Asked(t, p) <=> x \in Asked(s, p) \/ x = b
    <3>1. LET y == BlocksIn(t.dq[p])
          IN  /\ Asked(t, p) = ToSet(y) \cup ToSet(t.rq[p])
              /\ IsInjective(QueueOf(t, p)) <=>
                   IsInjective(y) /\ IsInjective(t.rq[p]) /\ ToSet(y) \cap ToSet(t.rq[p]) = {}
      BY <2>7, QueueFacts
    <3> QED BY <2>3, <2>5, <2>6, <2>7, <3>1
  <2>10. \A c \in Blocks : c \in Asked(s, p) \/ c \in E <=> c \in Asked(t, p) \/ c \in F
    BY <2>9
  <2>11. t \in Owing(p, F)
    BY <1>1, <2>7, <2>8, <2>9, <2>10, Requeue
  <2> QED BY <2>7, <2>9, <2>11 DEF t
<1> QED BY <1>2, <1>3

\* incoming_piece, for the n-th request sent: those before it were overtaken.
LEMMA SkipKeeps ==
  ASSUME NEW s \in Balanced, s.picker, NEW p \in s.conn, NEW n \in 1..Len(s.dq[p])
  PROVE  LET t == Skip(s, p, n)
         IN  t \in Owing(p, {s.dq[p][n].block}) /\ t.conn = s.conn
<1> DEFINE q == s.dq[p]
           d == BlocksIn(q)
           front == SubSeq(q, 1, n - 1)
           rest == SubSeq(q, n + 1, Len(q))
           f == BlocksIn(front)
           g == BlocksIn(rest)
           m == Len(front)
           e == [s EXCEPT !.dq[p] = <<>>]
           t == Skip(s, p, n)
           b == d[n]
           F == {b}
           G == ToSet(g) \cup F
<1>0. p \in Writers /\ p \in Peers /\ s \in Sound /\ s.desired[p] \in Nat
  BY DEF Balanced, Without, Fair, Sound, Shapes, Writers
<1>1. /\ e \in Owing(p, ToSet(d)) /\ e \in Sound /\ e.conn = s.conn
      /\ Asked(e, p) = ToSet(s.rq[p])
      /\ q \in Seq(Pending) /\ d \in Seq(Blocks) /\ s.rq[p] \in Seq(Blocks)
      /\ IsInjective(d) /\ ToSet(d) \cap ToSet(s.rq[p]) = {}
  BY TakeQueue, Zenon
<1>2. /\ front \in Seq(Pending) /\ rest \in Seq(Pending) /\ m = n - 1
      /\ \E r \in [0..m -> Near(s)] :
           /\ r[0] = e
           /\ t = [r[m] EXCEPT !.dq[p] = @ \o rest]
           /\ \A k \in 1..m : r[k] = Overtake(s, p, r[k-1], front[k])
  BY <1>0, SkipRuns, ZenonT(30)
<1>3. PICK r \in [0..m -> Near(s)] :
           /\ r[0] = e
           /\ t = [r[m] EXCEPT !.dq[p] = @ \o rest]
           /\ \A k \in 1..m : r[k] = Overtake(s, p, r[k-1], front[k])
  BY <1>2, Zenon
<1>4. Len(q) \in Nat /\ n \in 1..Len(q) /\ Len(d) = Len(q) /\ \A k \in 1..Len(q) : d[k] = q[k].block
  BY <1>1, BlocksInFacts, LenProperties
<1>5. /\ \A i \in 1..(n-1) : front[i] = q[i]
      /\ Len(rest) = Len(q) - n /\ \A i \in 1..(Len(q)-n) : rest[i] = q[n+i]
  <2> HIDE DEF q
  <2>1. n - 1 \in 0..Len(q) /\ n \in 0..Len(q)
    BY <1>4
  <2>2. \A i \in 1..(n-1) : front[i] = q[i]
    <3> DEFINE j == n - 1
    <3>1. j \in 0..Len(q)
      BY <2>1
    <3> HIDE DEF j
    <3>2. \A i \in 1..j : SubSeq(q, 1, j)[i] = q[i]
      BY <1>1, <3>1, PrefixFacts, SMTT(30)
    <3> QED BY <3>2 DEF j
  <2> QED BY <1>1, <2>1, <2>2, PrefixFacts, SMTT(30)
<1> HIDE DEF e, front, rest, t
<1>6. /\ f \in Seq(Blocks) /\ Len(f) = m /\ \A i \in 1..m : f[i] = front[i].block
      /\ g \in Seq(Blocks) /\ Len(g) = Len(rest) /\ \A i \in 1..Len(rest) : g[i] = rest[i].block
      /\ \A z \in Seq(Pending) : BlocksIn(z \o rest) = BlocksIn(z) \o g
  BY <1>2, BlocksInFacts
<1> HIDE DEF d, f, g, q, m
<1>7. /\ IsInjective(f) /\ IsInjective(g) /\ ToSet(f) \cap ToSet(g) = {}
      /\ b \notin ToSet(f) /\ b \notin ToSet(g)
      /\ \A x : x \in ToSet(d) <=> x \in ToSet(f) \/ x \in ToSet(g) \/ x = b
  <2>1. \A i \in 1..(n-1) : f[i] = d[i]
    <3> SUFFICES ASSUME NEW i \in 1..(n-1) PROVE f[i] = d[i]
      OBVIOUS
    <3>1. i \in 1..m /\ i \in 1..Len(q)
      BY <1>2, <1>4
    <3> QED BY <1>4, <1>5, <1>6, <3>1
  <2>2. \A i \in 1..(Len(d)-n) : g[i] = d[n+i]
    <3> SUFFICES ASSUME NEW i \in 1..(Len(d)-n) PROVE g[i] = d[n+i]
      OBVIOUS
    <3>1. i \in 1..Len(rest) /\ n + i \in 1..Len(q)
      BY <1>4, <1>5
    <3> QED BY <1>4, <1>5, <1>6, <3>1
  <2>3. n \in 1..Len(d) /\ Len(f) = n - 1 /\ Len(g) = Len(d) - n
    BY <1>2, <1>4, <1>5, <1>6
  <2> QED BY <1>1, <1>6, <2>1, <2>2, <2>3, CutFacts
<1>8. b \in Blocks /\ b = q[n].block /\ b \in ToSet(d)
  <2>1. b \in ToSet(d) /\ b = q[n].block
    BY <1>4, <1>7
  <2>2. b \in Blocks
    BY <1>1, <1>4, ElementOfSeq
  <2> QED BY <2>1, <2>2
<1> HIDE DEF b
<1>9. F \in SUBSET Blocks /\ G \in SUBSET Blocks /\ (\A c : c \in F <=> c = b)
      /\ (\A c : c \in G <=> c \in ToSet(g) \/ c = b) /\ ToSet(f) \cup G = ToSet(d)
  <2>1. ToSet(g) \in SUBSET Blocks
    BY <1>6 DEF ToSet
  <2> QED BY <1>7, <1>8, <2>1
<1> HIDE DEF F, G
<1>10. ASSUME NEW k \in 1..Len(f), NEW E \in SUBSET Blocks,
             r[k-1] \in Owing(p, E), p \in r[k-1].conn, f[k] \in E, f[k] \notin Asked(r[k-1], p)
      PROVE  /\ r[k] \in Owing(p, E \ {f[k]}) /\ r[k].conn = r[k-1].conn
             /\ Asked(r[k], p) \subseteq Asked(r[k-1], p) \cup {f[k]}
  <2> DEFINE x == r[k-1]
  <2>1. k - 1 \in 0..m /\ k \in 1..m /\ m \in Nat
    BY <1>2, <1>4, <1>6
  <2>2. front[k] \in Pending /\ front[k].block = f[k] /\ r[k] = Overtake(s, p, x, front[k])
    BY <1>2, <1>3, <1>6, <2>1, ElementOfSeq DEF m
  <2>3. x.picker
    <3>1. x \in Near(s)
      BY <2>1
    <3> QED BY <3>1 DEF Near, Quiet
  <2> DEFINE o == front[k]
             u == Overtake(s, p, x, o)
  <2>4. x \in Owing(p, E) /\ p \in x.conn /\ o \in Pending /\ o.block \in E /\ o.block \notin Asked(x, p)
    BY <1>10, <2>2
  <2> HIDE DEF x, o
  <2>5. /\ u \in Owing(p, E \ {o.block}) /\ u.conn = x.conn
        /\ Asked(u, p) \subseteq Asked(x, p) \cup {o.block}
    BY <1>0, <2>3, <2>4, OvertakeKeeps
  <2> QED BY <2>2, <2>5 DEF x, o
<1>11. \A k \in 1..Len(f) : f[k] \notin Asked(r[0], p) /\ f[k] \notin G
  <2> SUFFICES ASSUME NEW k \in 1..Len(f) PROVE f[k] \notin Asked(r[0], p) /\ f[k] \notin G
    OBVIOUS
  <2>1. f[k] \in ToSet(f)
    BY <1>6, SMTT(30) DEF ToSet
  <2> QED BY <1>1, <1>3, <1>7, <1>9, <2>1
<1> DEFINE y == r[m]
<1>12. y \in Owing(p, G) /\ y.conn = s.conn /\ Asked(y, p) \subseteq ToSet(s.rq[p]) \cup ToSet(f)
  <2>1. r[0] \in Owing(p, ToSet(f) \cup G) /\ p \in r[0].conn
    BY <1>1, <1>3, <1>9
  <2>2. \A k \in 1..Len(f) : \A E \in SUBSET Blocks :
           r[k-1] \in Owing(p, E) /\ p \in r[k-1].conn /\ f[k] \in E /\ f[k] \notin Asked(r[k-1], p)
             => /\ r[k] \in Owing(p, E \ {f[k]}) /\ r[k].conn = r[k-1].conn
                /\ Asked(r[k], p) \subseteq Asked(r[k-1], p) \cup {f[k]}
    BY <1>10
  <2>3. /\ r[Len(f)] \in Owing(p, G) /\ r[Len(f)].conn = r[0].conn
        /\ Asked(r[Len(f)], p) \subseteq Asked(r[0], p) \cup ToSet(f)
    BY <1>0, <1>6, <1>7, <1>9, <1>11, <2>1, <2>2, SettleTrace, Zenon
  <2> QED BY <1>1, <1>3, <1>6, <2>3
<1>13. t = [y EXCEPT !.dq[p] = @ \o rest]
  BY <1>3
<1> HIDE DEF y
<1> DEFINE v == y.dq[p]
           z == v \o rest
           x == BlocksIn(v)
<1>14. y \in Fair /\ y \in Sound /\ y \in Shapes
  BY <1>12 DEF Owing, Fair, Sound
<1>15. /\ v \in Seq(Pending) /\ x \in Seq(Blocks) /\ y.rq[p] \in Seq(Blocks)
       /\ Asked(y, p) = ToSet(x) \cup ToSet(y.rq[p])
       /\ IsInjective(x) /\ IsInjective(y.rq[p]) /\ ToSet(x) \cap ToSet(y.rq[p]) = {}
  BY <1>0, <1>14, QueueFacts DEF Fair, Distinct
<1>16. z \in Seq(Pending) /\ BlocksIn(z) = x \o g
  BY <1>2, <1>6, <1>15, ConcatProperties
<1> HIDE DEF x, v, z
<1>17. ToSet(x \o g) = ToSet(x) \cup ToSet(g)
       /\ (IsInjective(x \o g) <=> IsInjective(x) /\ IsInjective(g) /\ ToSet(x) \cap ToSet(g) = {})
  BY <1>6, <1>15, ConcatFacts
<1>18. t \in Shapes /\ t.blk = y.blk /\ t.have = y.have /\ t.picker = y.picker /\ t.dead = y.dead
       /\ t.writes = y.writes /\ t.conn = y.conn /\ t.choked = y.choked
       /\ t.rq = y.rq /\ t.dq[p] = z /\ \A w \in Peers : w # p => t.dq[w] = y.dq[w]
  <2>1. t = [y EXCEPT !.dq[p] = z]
    BY <1>13 DEF z, v
  <2> QED BY <1>0, <1>14, <1>16, <2>1 DEF Shapes
<1>19. t \in Sound
  BY <1>14, <1>18, Aside
<1>20. ASSUME NEW c PROVE c \in ToSet(g) => c \notin Asked(y, p)
  BY <1>1, <1>7, <1>12
<1>21. IsInjective(QueueOf(t, p)) /\ \A c : c \in Asked(t, p) <=> c \in Asked(y, p) \/ c \in ToSet(g)
  <2>1. LET o == BlocksIn(t.dq[p])
        IN  /\ Asked(t, p) = ToSet(o) \cup ToSet(t.rq[p])
            /\ IsInjective(QueueOf(t, p)) <=>
                 IsInjective(o) /\ IsInjective(t.rq[p]) /\ ToSet(o) \cap ToSet(t.rq[p]) = {}
    BY <1>0, <1>18, QueueFacts
  <2>2. IsInjective(x \o g)
    BY <1>7, <1>15, <1>17, <1>20
  <2>3. ToSet(x \o g) \cap ToSet(y.rq[p]) = {}
    BY <1>15, <1>17, <1>20
  <2> QED BY <1>15, <1>16, <1>17, <1>18, <2>1, <2>2, <2>3
<1>22. \A c \in Blocks : c \in Asked(y, p) \/ c \in G <=> c \in Asked(t, p) \/ c \in F
  BY <1>9, <1>21
<1>23. t \in Owing(p, F)
  BY <1>0, <1>9, <1>12, <1>18, <1>19, <1>21, <1>22, Requeue
<1> QED BY <1>8, <1>12, <1>18, <1>23 DEF F, t, q

-----------------------------------------------------------------------------
(***************************************************************************)
(* The handlers of the peers' messages.                                    *)
(***************************************************************************)

\* A call that changes flags and nothing that the ledger is about.
LEMMA FlagBalanced ==
  ASSUME NEW s \in Balanced, NEW t \in Shapes, t.blk = s.blk, t.have = s.have,
         t.picker = s.picker, t.dead = s.dead, t.writes = s.writes,
         t.rq = s.rq, t.dq = s.dq, Away(t)
  PROVE  t \in Balanced /\ t \in Sound
<1> DEFINE N == {}
<1>1. s \in Fair /\ s \in Sound /\ s \in Without(N)
  BY DEF Balanced, Without, Fair
<1>2. t \in Sound
  BY <1>1, Aside
<1> HIDE DEF N
<1>3. t \in Without(N)
  BY <1>1, <1>2, FlagChange
<1> QED BY <1>2, <1>3 DEF Balanced, N

\* The inductive invariant.
RequestsInv == PipelineInv /\ Now \in Balanced

\* What the invariant says of the state.
LEMMA NowBalanced ==
  ASSUME RequestsInv
  PROVE  PipelineInv /\ Now \in Balanced /\ Now \in Fair /\ Away(Now)
BY DEF RequestsInv, Balanced, Without, Fair

\* A handler whose calls leave a balanced record.
LEMMA BalancedStep ==
  ASSUME NEW s \in Balanced, Become(s)
  PROVE  Now' \in Balanced
<1>1. s \in Shapes
  BY DEF Balanced, Without, Fair, Sound
<1> QED BY <1>1, BecomeNow

\* A new connection has no requests.
LEMMA ConnectKeeps ==
  ASSUME RequestsInv, NEW p \in Peers, Connect(p)
  PROVE  Now' \in Balanced
<1> DEFINE s == [Now EXCEPT !.conn = @ \cup {p}]
<1>1. PipelineInv /\ Now \in Balanced /\ Away(Now)
  BY NowBalanced
<1>2. s \in Shapes /\ s.blk = Now.blk /\ s.have = Now.have /\ s.picker = Now.picker
      /\ s.dead = Now.dead /\ s.writes = Now.writes /\ s.rq = Now.rq /\ s.dq = Now.dq
      /\ s.choked = Now.choked /\ s.conn = Now.conn \cup {p}
  BY <1>1, NowFields DEF Shapes
<1>3. Become(s)
  BY DEF Connect
<1> HIDE DEF s
<1>4. Away(s)
  BY <1>1, <1>2 DEF Away
<1> QED BY <1>1, <1>2, <1>3, <1>4, FlagBalanced, BalancedStep

\* A connection that ends gives back what was asked of it.
LEMMA DisconnectKeeps ==
  ASSUME RequestsInv, NEW p \in Peers, Disconnect(p)
  PROVE  Now' \in Balanced
<1>1. Become(Close(Now, p)) /\ Now \in Balanced
  BY NowBalanced DEF Disconnect
<1>2. Close(Now, p) \in Balanced
  BY <1>1, CloseKeeps DEF Balanced
<1> QED BY <1>1, <1>2, BalancedStep

\* An unchoke asks for blocks.
LEMMA UnchokeKeeps ==
  ASSUME RequestsInv, NEW p \in Peers, Unchoke(p)
  PROVE  Now' \in Balanced
<1> DEFINE s == [Now EXCEPT !.choked = @ \ {p}]
<1>1. PipelineInv /\ Now \in Balanced /\ Away(Now) /\ p \in Now.conn
  BY NowBalanced, NowFields DEF Unchoke
<1>2. s \in Shapes /\ s.blk = Now.blk /\ s.have = Now.have /\ s.picker = Now.picker
      /\ s.dead = Now.dead /\ s.writes = Now.writes /\ s.rq = Now.rq /\ s.dq = Now.dq
      /\ s.choked = Now.choked \ {p} /\ s.conn = Now.conn
  BY <1>1, NowFields DEF Shapes
<1>3. PICK t \in Ask(s, p) : Become(t)
  BY DEF Unchoke
<1> HIDE DEF s
<1>4. Away(s)
  BY <1>1, <1>2 DEF Away
<1>5. s \in Balanced
  BY <1>1, <1>2, <1>4, FlagBalanced
<1> QED BY <1>3, <1>5, AskKeeps, BalancedStep

\* A choke gives requests back, or all of them.
LEMMA ChokeKeeps ==
  ASSUME RequestsInv, NEW p \in Peers, Choke(p)
  PROVE  Now' \in Balanced
<1> DEFINE a == [Now EXCEPT !.choked = @ \cup {p}]
           s == GiveBackRequests(a, p)
           e == [s EXCEPT !.dq[p] = <<>>]
           u == RejectAll(e, p, s.dq[p])
<1>1. PipelineInv /\ Now \in Balanced /\ Away(Now) /\ p \in Now.conn
  BY NowBalanced, NowFields DEF Choke
<1>2. a \in Shapes /\ a.blk = Now.blk /\ a.have = Now.have /\ a.picker = Now.picker
      /\ a.dead = Now.dead /\ a.writes = Now.writes /\ a.rq = Now.rq /\ a.dq = Now.dq
      /\ a.choked = Now.choked \cup {p} /\ a.conn = Now.conn
  BY <1>1, NowFields DEF Shapes
<1>3. Become(IF p \in FastPeers THEN s ELSE u)
  BY DEF Choke, RejectAll
<1> HIDE DEF a
<1>4. Away(a)
  BY <1>1, <1>2 DEF Away
<1>5. a \in Balanced /\ p \in a.conn
  BY <1>1, <1>2, <1>4, FlagBalanced
<1>6. s \in Balanced /\ p \in s.conn
  BY <1>5, GiveBackKeeps
<1> HIDE DEF s
<1>7. u \in Balanced
  BY <1>6, RejectAllKeeps
<1> HIDE DEF u
<1> QED BY <1>3, <1>6, <1>7, BalancedStep

\* A block that was not asked for is not looked at.
LEMMA UnwantedPieceKeeps ==
  ASSUME RequestsInv, NEW p \in Peers, UnwantedPiece(p)
  PROVE  Now' \in Balanced
<1>1. PICK s \in Ask(Now, p) : Become(s)
  BY DEF UnwantedPiece
<1> QED BY <1>1, NowBalanced, AskKeeps, BalancedStep

\* The length of the queue is a flag.
LEMMA SecondTickKeeps ==
  ASSUME RequestsInv, NEW p \in Peers, SecondTick(p)
  PROVE  Now' \in Balanced
<1> DEFINE s == [Now EXCEPT !.desired[p] = QueueSize]
<1>1. PipelineInv /\ Now \in Balanced /\ Away(Now)
  BY NowBalanced
<1>2. s \in Shapes /\ s.blk = Now.blk /\ s.have = Now.have /\ s.picker = Now.picker
      /\ s.dead = Now.dead /\ s.writes = Now.writes /\ s.rq = Now.rq /\ s.dq = Now.dq
      /\ s.choked = Now.choked /\ s.conn = Now.conn
  BY <1>1, NowFields, PipelineAssumption DEF Shapes
<1>3. Become(s)
  BY DEF SecondTick
<1> HIDE DEF s
<1>4. Away(s)
  BY <1>1, <1>2 DEF Away
<1> QED BY <1>1, <1>2, <1>3, <1>4, FlagBalanced, BalancedStep

\* Pausing closes every connection.
LEMMA PauseKeeps == ASSUME RequestsInv, Pause PROVE Now' \in Balanced
<1>1. Become(CloseAll(Now, Peers)) /\ Now \in Balanced
  BY NowBalanced DEF Pause
<1>2. CloseAll(Now, Peers) \in Balanced
  BY <1>1, CloseAllKeeps DEF Balanced
<1> QED BY <1>1, <1>2, BalancedStep

\* Resuming changes no request.
LEMMA ResumeKeeps == ASSUME RequestsInv, Resume PROVE Now' \in Balanced
<1>1. Become(Now) /\ Now \in Balanced
  BY NowBalanced DEF Resume
<1> QED BY <1>1, BalancedStep

\* incoming_piece: the block is paid for, the others overtaken or given back.
LEMMA PieceKeeps ==
  ASSUME RequestsInv, NEW p \in Peers, NEW n, Piece(p, n)
  PROVE  Now' \in Balanced
<1> DEFINE b == dq[p][n].block
           s == Skip(Now, p, n)
           a == Accept(s, p, b)
<1>1. PipelineInv /\ Now \in Balanced /\ p \in Now.conn
  BY NowBalanced, NowFields DEF Piece
<1>2. dq[p] \in Seq(Pending) /\ n \in 1..Len(Now.dq[p]) /\ Now.dq[p] = dq[p] /\ Now.picker
      /\ n \in 1..Len(dq[p])
  BY <1>1, NowFields DEF Piece, Shapes, IsSeed
<1>3. b \in Blocks
  <2>1. dq[p][n] \in Pending
    BY <1>2, ElementOfSeq
  <2> QED BY <2>1 DEF Pending
<1>4. s \in Owing(p, {b})
  BY <1>1, <1>2, SkipKeeps
<1>5. PICK t \in Ask(a, p) : Become(t) \/ Become([t EXCEPT !.snubbed = @ \ {p}])
  BY DEF Piece
<1> HIDE DEF s, b
<1>6. a \in Balanced
  BY <1>3, <1>4, AcceptKeeps
<1> HIDE DEF a
<1>7. t \in Balanced
  BY <1>5, <1>6, AskKeeps
<1> DEFINE u == [t EXCEPT !.snubbed = @ \ {p}]
<1>8. t \in Shapes /\ Away(t)
  BY <1>7 DEF Balanced, Without, Fair, Sound
<1>9. u \in Shapes /\ u.blk = t.blk /\ u.have = t.have /\ u.picker = t.picker
      /\ u.dead = t.dead /\ u.writes = t.writes /\ u.rq = t.rq /\ u.dq = t.dq
      /\ u.choked = t.choked /\ u.conn = t.conn
  BY <1>8 DEF Shapes
<1>10. Become(t) \/ Become(u)
  BY <1>5
<1> HIDE DEF u
<1>11. Away(u)
  BY <1>8, <1>9 DEF Away
<1>12. u \in Balanced
  BY <1>7, <1>9, <1>11, FlagBalanced
<1> QED BY <1>7, <1>10, <1>12, BalancedStep

\* A request that was sent leaves the queue.
LEMMA SentLeaves ==
  ASSUME NEW s \in Balanced, NEW p \in s.conn, NEW n \in 1..Len(s.dq[p]),
         NEW q \in Seq(Pending), Len(q) = Len(s.dq[p]) - 1,
         \A i \in 1..(Len(s.dq[p])-1) : q[i] = IF i < n THEN s.dq[p][i] ELSE s.dq[p][i+1],
         NEW t \in Shapes, t.rq = s.rq, t.dq[p] = q
  PROVE  LET b == s.dq[p][n].block
         IN  /\ b \in Blocks /\ b \in Asked(s, p) /\ IsInjective(QueueOf(t, p))
             /\ \A c : c \in Asked(t, p) <=> c \in Asked(s, p) /\ c # b
             /\ Len(s.rq[p]) = 0 => b = Last(QueueOf(s, p)) \/ n # Len(s.dq[p])
<1> DEFINE o == s.dq[p]
           d == BlocksIn(o)
           f == BlocksIn(q)
           r == s.rq[p]
<1>0. p \in Peers /\ s \in Fair /\ s \in Shapes
  BY DEF Balanced, Without, Fair, Sound, Shapes
<1>1. /\ o \in Seq(Pending) /\ r \in Seq(Blocks) /\ d \in Seq(Blocks) /\ QueueOf(s, p) = d \o r
      /\ Asked(s, p) = ToSet(d) \cup ToSet(r) /\ Asked(s, p) \in SUBSET Blocks
      /\ IsInjective(d) /\ IsInjective(r) /\ ToSet(d) \cap ToSet(r) = {}
  BY <1>0, QueueFacts DEF Fair, Distinct
<1>2. /\ Len(d) = Len(o) /\ Len(o) \in Nat /\ \A i \in 1..Len(o) : d[i] = o[i].block
      /\ f \in Seq(Blocks) /\ Len(f) = Len(q) /\ \A i \in 1..Len(q) : f[i] = q[i].block
  BY <1>1, BlocksInFacts, LenProperties
<1>3. /\ Asked(t, p) = ToSet(f) \cup ToSet(r)
      /\ IsInjective(QueueOf(t, p)) <=> IsInjective(f) /\ IsInjective(r) /\ ToSet(f) \cap ToSet(r) = {}
  <2>1. LET e == BlocksIn(t.dq[p])
        IN  /\ Asked(t, p) = ToSet(e) \cup ToSet(t.rq[p])
            /\ IsInjective(QueueOf(t, p)) <=>
                 IsInjective(e) /\ IsInjective(t.rq[p]) /\ ToSet(e) \cap ToSet(t.rq[p]) = {}
    BY <1>0, QueueFacts
  <2> QED BY <2>1
<1>4. n \in 1..Len(o) /\ Len(q) = Len(o) - 1
      /\ \A i \in 1..(Len(o)-1) : q[i] = IF i < n THEN o[i] ELSE o[i+1]
  OBVIOUS
<1> HIDE DEF d, f, o, r
<1>5. n \in 1..Len(d) /\ Len(f) = Len(d) - 1 /\ d[n] = o[n].block
  BY <1>2, <1>4
<1>6. \A i \in 1..(Len(d)-1) : f[i] = IF i < n THEN d[i] ELSE d[i+1]
  <2> SUFFICES ASSUME NEW i \in 1..(Len(d)-1) PROVE f[i] = IF i < n THEN d[i] ELSE d[i+1]
    OBVIOUS
  <2>1. i \in 1..Len(o) /\ i + 1 \in 1..Len(o) /\ i \in 1..Len(q) /\ i \in 1..(Len(o)-1)
    BY <1>2, <1>4
  <2>2. q[i] = IF i < n THEN o[i] ELSE o[i+1]
    BY <1>4, <2>1
  <2>3. f[i] = q[i].block /\ d[i] = o[i].block /\ d[i+1] = o[i+1].block
    BY <1>2, <2>1
  <2> QED BY <2>2, <2>3
<1>7. /\ IsInjective(f) /\ d[n] \in ToSet(d)
      /\ \A x : x \in ToSet(f) <=> x \in ToSet(d) /\ x # d[n]
  BY <1>1, <1>2, <1>5, <1>6, RemoveFacts
<1>8. ASSUME Len(r) = 0, n = Len(o) PROVE d[n] = Last(QueueOf(s, p))
  <2>1. QueueOf(s, p) = d
    <3>1. r = <<>>
      BY <1>1, <1>8
    <3> QED BY <1>1, <3>1
  <2> QED BY <1>2, <1>8, <2>1 DEF Last
<1> DEFINE b == d[n]
<1>9. b = o[n].block /\ b \in ToSet(d) /\ \A x : x \in ToSet(f) <=> x \in ToSet(d) /\ x # b
  BY <1>5, <1>7
<1>10. (Len(r) = 0 => b = Last(QueueOf(s, p)) \/ n # Len(o))
  BY <1>8
<1> HIDE DEF b
<1> QED BY <1>1, <1>3, <1>7, <1>9, <1>10 DEF o, r

\* incoming_reject_request.
LEMMA RejectRequestKeeps ==
  ASSUME RequestsInv, NEW p \in Peers, NEW n, RejectRequest(p, n)
  PROVE  Now' \in Balanced
<1> DEFINE q == RemoveAt(Now.dq[p], n)
           a == [Now EXCEPT !.dq[p] = q]
           b == Now.dq[p][n].block
           s == Rejected(a, p, b)
           N == {}
           E == {b}
<1>0. PipelineInv /\ Now \in Balanced /\ p \in Now.conn /\ p \in Writers
  BY NowBalanced, NowFields DEF RejectRequest, Writers
<1>1. Now.dq[p] \in Seq(Pending) /\ n \in 1..Len(Now.dq[p])
  BY <1>0, NowFields DEF RejectRequest, Shapes
<1>2. /\ q \in Seq(Pending) /\ Len(q) = Len(Now.dq[p]) - 1
      /\ \A i \in 1..(Len(Now.dq[p])-1) : q[i] = IF i < n THEN Now.dq[p][i] ELSE Now.dq[p][i+1]
  <2> DEFINE d == Now.dq[p]
  <2>1. d \in Seq(Pending) /\ n \in 1..Len(d) /\ q = RemoveAt(d, n)
    BY <1>1
  <2> HIDE DEF d
  <2> QED BY <2>1, RemoveAtFacts DEF d
<1>3. Become(s) \/ \E t \in Ask(s, p) : Become(t)
  BY <1>0, NowFields DEF RejectRequest
<1> HIDE DEF q
<1>4. a \in Shapes /\ a.blk = Now.blk /\ a.have = Now.have /\ a.picker = Now.picker
      /\ a.dead = Now.dead /\ a.writes = Now.writes /\ a.rq = Now.rq /\ a.dq[p] = q
      /\ a.conn = Now.conn /\ a.choked = Now.choked
      /\ \A v \in Peers : v # p => a.dq[v] = Now.dq[v]
  BY <1>0, <1>2, NowFields DEF Shapes
<1> HIDE DEF a
<1>5. a \in Sound
  BY <1>0, <1>4, NowFields, Aside
<1>6. /\ b \in Blocks /\ b \in Asked(Now, p) /\ IsInjective(QueueOf(a, p))
      /\ \A c : c \in Asked(a, p) <=> c \in Asked(Now, p) /\ c # b
  BY <1>0, <1>1, <1>2, <1>4, SentLeaves
<1> HIDE DEF b
<1>7. N \in SUBSET Blocks /\ E \in SUBSET Blocks /\ (\A c : c \notin N) /\ (\A c : c \in E <=> c = b)
      /\ E \ {b} = N
  BY <1>6
<1> HIDE DEF N, E
<1>8. Now \in Owing(p, N)
  BY <1>0, NothingOwed DEF N
<1>9. a \in Owing(p, E)
  <2>1. \A c \in Blocks : c \in Asked(Now, p) \/ c \in N <=> c \in Asked(a, p) \/ c \in E
    BY <1>6, <1>7
  <2> QED BY <1>0, <1>4, <1>5, <1>6, <1>7, <1>8, <2>1, Requeue
<1>10. s \in Owing(p, N)
  <2>1. s \in Owing(p, E \ {b})
    BY <1>0, <1>4, <1>6, <1>7, <1>9, RejectedKeeps
  <2> QED BY <1>7, <2>1
<1>11. s \in Balanced
  BY <1>0, <1>10, NothingOwed DEF N
<1> HIDE DEF s
<1> QED BY <1>3, <1>11, AskKeeps, BalancedStep

\* One more block on somebody's account.
LEMMA OneMore ==
  ASSUME NEW A, NEW w \in Writers, NEW b, b \notin A[w], NEW B,
         \A v \in Writers : \A c : c \in B[v] <=> c \in A[v] \/ (v = w /\ c = b)
  PROVE  /\ \A c : c # b => Claims(B, c) = Claims(A, c)
         /\ Cardinality(Claims(B, b)) = Cardinality(Claims(A, b)) + 1
<1>1. Claims(B, b) = Claims(A, b) \cup {w} /\ w \notin Claims(A, b)
  BY DEF Claims
<1>2. \A c : c # b => Claims(B, c) = Claims(A, c)
  BY DEF Claims
<1> QED BY <1>1, <1>2, FiniteClaims, FS_AddElement

\* A request leaves the queue of p and is owed back by nobody in particular.
LEMMA PopKeeps ==
  ASSUME NEW s \in Balanced, NEW p \in s.conn, NEW t \in Sound,
         t.blk = s.blk, t.have = s.have, t.conn = s.conn, t.choked = s.choked,
         \A v \in Peers : v # p => t.rq[v] = s.rq[v] /\ t.dq[v] = s.dq[v],
         IsInjective(QueueOf(t, p)), NEW b \in Blocks, b \in Asked(s, p),
         \A c : c \in Asked(t, p) <=> c \in Asked(s, p) /\ c # b
  PROVE  t \in Owing(Nobody, {b})
<1> DEFINE N == {}
           E == {b}
           A == Overdrawn(s, Nobody, N)
           B == [A EXCEPT ![p] = @ \ {b}]
           D == [B EXCEPT ![Nobody] = @ \cup {b}]
<1>0. /\ Nobody \in Writers /\ Balanced = Owing(Nobody, N) /\ N \in SUBSET Blocks /\ E \in SUBSET Blocks
      /\ (\A c : c \notin N) /\ (\A c : c \in E <=> c = b)
  BY NothingOwed DEF Writers
<1> HIDE DEF N, E
<1>1. /\ s \in Fair /\ s \in Sound /\ s \in Shapes /\ Meant(s) /\ A \in Tables /\ Ledger(s, A)
      /\ \A v \in Peers : v \in Writers /\ v # Nobody
      /\ \A v \in Peers : \A c : c \in A[v] <=> c \in Asked(s, v) \/ (v = Nobody /\ c \in N)
      /\ \A c : c \in A[Nobody] <=> (Nobody = Nobody /\ c \in N)
  BY <1>0, Overdraft
<1> HIDE DEF A
<1>2. p \in Peers /\ p \in Writers /\ p # Nobody /\ b \in A[p] /\ b \notin A[Nobody]
  BY <1>0, <1>1 DEF Shapes
<1>3. B \in Tables /\ B[p] = A[p] \ {b} /\ \A v \in Writers : v # p => B[v] = A[v]
  BY <1>1, <1>2 DEF Tables
<1>4. D[Nobody] = B[Nobody] \cup {b} /\ \A v \in Writers : v # Nobody => D[v] = B[v]
  <2> HIDE DEF B
  <2> QED BY <1>0, <1>3 DEF Tables
<1> HIDE DEF B, D
<1>5. b \notin B[p] /\ b \notin B[Nobody]
  BY <1>0, <1>2, <1>3
<1>6. (\A c : c # b => Claims(A, c) = Claims(B, c))
      /\ Cardinality(Claims(A, b)) = Cardinality(Claims(B, b)) + 1
  <2>1. \A v \in Writers : \A c : c \in A[v] <=> c \in B[v] \/ (v = p /\ c = b)
    BY <1>2, <1>3
  <2> QED BY <1>2, <1>5, <2>1, OneMore
<1>7. (\A c : c # b => Claims(D, c) = Claims(B, c))
      /\ Cardinality(Claims(D, b)) = Cardinality(Claims(B, b)) + 1
  <2>1. \A v \in Writers : \A c : c \in D[v] <=> c \in B[v] \/ (v = Nobody /\ c = b)
    BY <1>4
  <2> QED BY <1>0, <1>5, <2>1, OneMore
<1>8. \A c \in Blocks : Cardinality(Claims(D, c)) = Cardinality(Claims(A, c))
  <2>1. Cardinality(Claims(D, b)) = Cardinality(Claims(A, b))
    BY <1>6, <1>7
  <2> QED BY <1>6, <1>7, <2>1
<1>9. Meant(t) /\ Ledger(t, D)
  BY <1>1, <1>8 DEF Meant, Ledger, IsDownloaded, State
<1>10. \A c \in Blocks : ~IsDownloaded(t, c) =>
         /\ \A v \in Peers : v # p => (c \in D[v] <=> c \in Asked(s, v) \/ (v = Nobody /\ c \in E))
         /\ c \in D[p] <=> c \in Asked(t, p) \/ (p = Nobody /\ c \in E)
         /\ c \in D[Nobody] <=> (Nobody = Nobody /\ c \in E)
  BY <1>0, <1>1, <1>2, <1>3, <1>4
<1>11. t \in Owing(Nobody, E)
  BY <1>0, <1>1, <1>9, <1>10, Recount
<1> QED BY <1>11 DEF E

\* A request that was not sent leaves the end of the queue.
LEMMA LastLeaves ==
  ASSUME NEW s \in Balanced, NEW p \in s.conn, s.rq[p] # <<>>,
         NEW t \in Shapes, t.rq[p] = Front(s.rq[p]), t.dq = s.dq
  PROVE  LET b == Last(QueueOf(s, p))
         IN  /\ Front(s.rq[p]) \in Seq(Blocks)
             /\ b \in Blocks /\ b \in Asked(s, p) /\ IsInjective(QueueOf(t, p))
             /\ \A c : c \in Asked(t, p) <=> c \in Asked(s, p) /\ c # b
<1> DEFINE r == s.rq[p]
           d == BlocksIn(s.dq[p])
           f == Front(r)
           n == Len(r)
           b == r[n]
<1>0. p \in Peers /\ s \in Fair /\ s \in Shapes
  BY DEF Balanced, Without, Fair, Sound, Shapes
<1>1. /\ r \in Seq(Blocks) /\ d \in Seq(Blocks) /\ QueueOf(s, p) = d \o r
      /\ Asked(s, p) = ToSet(d) \cup ToSet(r) /\ Asked(s, p) \in SUBSET Blocks
      /\ IsInjective(d) /\ IsInjective(r) /\ ToSet(d) \cap ToSet(r) = {}
  BY <1>0, QueueFacts DEF Fair, Distinct
<1>2. /\ Asked(t, p) = ToSet(d) \cup ToSet(f)
      /\ IsInjective(QueueOf(t, p)) <=> IsInjective(d) /\ IsInjective(f) /\ ToSet(d) \cap ToSet(f) = {}
  <2>1. LET e == BlocksIn(t.dq[p])
        IN  /\ Asked(t, p) = ToSet(e) \cup ToSet(t.rq[p])
            /\ IsInjective(QueueOf(t, p)) <=>
                 IsInjective(e) /\ IsInjective(t.rq[p]) /\ ToSet(e) \cap ToSet(t.rq[p]) = {}
    BY <1>0, QueueFacts
  <2> QED BY <2>1
<1>3. r # <<>>
  OBVIOUS
<1> HIDE DEF d, r
<1>4. n \in Nat /\ n \in 1..n /\ n - 1 \in 0..n
  <2>1. Len(r) \in Nat /\ Len(r) # 0
    BY <1>1, <1>3, LenProperties, EmptySeq
  <2> QED BY <2>1
<1>5. f \in Seq(Blocks) /\ Len(f) = n - 1 /\ \A i \in 1..(n-1) : f[i] = r[i]
  <2> DEFINE j == n - 1
  <2>1. j \in 0..Len(r) /\ f = SubSeq(r, 1, j)
    BY <1>4 DEF Front
  <2> HIDE DEF j, f
  <2>2. f \in Seq(Blocks) /\ Len(f) = j /\ \A i \in 1..j : f[i] = r[i]
    BY <1>1, <2>1, PrefixFacts
  <2> QED BY <2>2 DEF j
<1> HIDE DEF f
<1>6. \A i \in 1..(Len(r)-1) : f[i] = IF i < n THEN r[i] ELSE r[i+1]
  BY <1>4, <1>5
<1>7. /\ IsInjective(f) /\ b \in ToSet(r)
      /\ \A x : x \in ToSet(f) <=> x \in ToSet(r) /\ x # b
  BY <1>1, <1>4, <1>5, <1>6, RemoveFacts
<1>8. Last(QueueOf(s, p)) = b
  <2> DEFINE o == Len(d)
             z == d \o r
  <2>1. o \in Nat
    BY <1>1, LenProperties
  <2>2. /\ z \in Seq(Blocks) /\ Len(z) = o + n
        /\ \A i \in 1..(o + n) : z[i] = IF i <= o THEN d[i] ELSE r[i - o]
    BY <1>1, ConcatProperties
  <2> HIDE DEF o, n, z
  <2>3. o + n \in 1..(o + n) /\ ~(o + n <= o) /\ (o + n) - o = n
    BY <1>4, <2>1
  <2>4. z[o + n] = r[n]
    BY <2>2, <2>3
  <2> QED BY <1>1, <2>2, <2>4 DEF Last, z, n
<1> HIDE DEF b
<1> QED BY <1>1, <1>2, <1>5, <1>7, <1>8 DEF f, r

\* snub_peer.
LEMMA SnubPeerKeeps ==
  ASSUME RequestsInv, NEW p \in Peers, SnubPeer(p)
  PROVE  Now' \in Balanced
<1> DEFINE slow == [Now EXCEPT !.snubbed = @ \cup {p}, !.desired[p] = 1]
           b    == Last(QueueOf(Now, p))
           r    == [slow EXCEPT !.rq[p] = Front(@)]
           d    == [slow EXCEPT !.dq[p] = Front(@)]
           s    == IF rq[p] # <<>> THEN r ELSE d
           N    == {}
           E    == {b}
<1>0. PipelineInv /\ Now \in Balanced /\ p \in Now.conn /\ Away(Now) /\ Nobody \in Writers
      /\ Balanced = Owing(Nobody, N) /\ Nobody \notin Peers
  BY NowBalanced, NowFields, NothingOwed, PipelineAssumption DEF SnubPeer, Writers
<1>1. slow \in Shapes /\ slow.blk = Now.blk /\ slow.have = Now.have /\ slow.picker = Now.picker
      /\ slow.dead = Now.dead /\ slow.writes = Now.writes /\ slow.rq = Now.rq /\ slow.dq = Now.dq
      /\ slow.conn = Now.conn /\ slow.choked = Now.choked
  BY <1>0, NowFields DEF Shapes
<1>2. /\ Now.dq[p] # <<>>
      /\ \/ TimesOut(Now, p) /\ \E t \in RequestABlock(s, p, 2) : Become(SendBlockRequests(Abort(t, b), p, 1))
         \/ Become(slow)
  BY <1>0, NowFields DEF SnubPeer
<1> HIDE DEF slow
<1>3. Away(slow)
  BY <1>0, <1>1 DEF Away
<1>4. slow \in Balanced /\ slow \in Sound
  BY <1>0, <1>1, <1>3, FlagBalanced
<1>5. QueueOf(slow, p) = QueueOf(Now, p) /\ Asked(slow, p) = Asked(Now, p)
  BY <1>1, SameQueues
<1>6. s \in Owing(Nobody, E) /\ b \in Blocks /\ s.picker = Now.picker
  <2>1. CASE rq[p] # <<>>
    <3> DEFINE q == Front(slow.rq[p])
               u == [slow EXCEPT !.rq[p] = q]
    <3>1. q \in Seq(Blocks) /\ slow.rq[p] # <<>>
      BY <1>0, <1>1, <2>1, NowFields, FrontOfSeq DEF Shapes
    <3>2. s = u
      BY <2>1
    <3> HIDE DEF q, s
    <3>3. u \in Shapes /\ u.blk = slow.blk /\ u.have = slow.have /\ u.picker = slow.picker
          /\ u.dead = slow.dead /\ u.writes = slow.writes /\ u.conn = slow.conn /\ u.choked = slow.choked
          /\ u.dq = slow.dq /\ u.rq[p] = q /\ \A v \in Peers : v # p => u.rq[v] = slow.rq[v]
      BY <1>1, <3>1 DEF Shapes
    <3> HIDE DEF u
    <3>4. u \in Sound
      BY <1>4, <3>3, Aside
    <3>5. /\ b \in Blocks /\ b \in Asked(slow, p) /\ IsInjective(QueueOf(u, p))
          /\ \A c : c \in Asked(u, p) <=> c \in Asked(slow, p) /\ c # b
      BY <1>0, <1>1, <1>4, <1>5, <3>1, <3>3, LastLeaves DEF q
    <3> HIDE DEF b
    <3>6. u \in Owing(Nobody, {b})
      BY <1>0, <1>1, <1>4, <3>3, <3>4, <3>5, PopKeeps
    <3> QED BY <1>1, <3>2, <3>3, <3>5, <3>6
  <2>2. CASE ~(rq[p] # <<>>)
    <3> DEFINE o == slow.dq[p]
               q == Front(o)
               n == Len(o)
               u == [slow EXCEPT !.dq[p] = q]
    <3>1. o \in Seq(Pending) /\ o # <<>> /\ slow.rq[p] = <<>>
      BY <1>0, <1>1, <1>2, <2>2, NowFields DEF Shapes
    <3>2. s = u
      BY <2>2
    <3> HIDE DEF o
    <3>3. n \in Nat /\ n \in 1..n /\ n - 1 \in 0..n
      <4>1. Len(o) \in Nat /\ Len(o) # 0
        BY <3>1, LenProperties, EmptySeq
      <4> QED BY <4>1
    <3>4. q \in Seq(Pending) /\ Len(q) = n - 1 /\ \A i \in 1..(n-1) : q[i] = o[i]
      BY <3>1, <3>3, PrefixFacts DEF Front
    <3> HIDE DEF q, s
    <3>5. u \in Shapes /\ u.blk = slow.blk /\ u.have = slow.have /\ u.picker = slow.picker
          /\ u.dead = slow.dead /\ u.writes = slow.writes /\ u.conn = slow.conn /\ u.choked = slow.choked
          /\ u.rq = slow.rq /\ u.dq[p] = q /\ \A v \in Peers : v # p => u.dq[v] = slow.dq[v]
      BY <1>1, <3>4 DEF Shapes
    <3> HIDE DEF u
    <3>6. u \in Sound
      BY <1>4, <3>5, Aside
    <3>7. \A i \in 1..(n-1) : q[i] = IF i < n THEN o[i] ELSE o[i+1]
      BY <3>3, <3>4
    <3> DEFINE a == o[n].block
    <3>8. /\ a \in Blocks /\ a \in Asked(slow, p) /\ IsInjective(QueueOf(u, p))
          /\ \A c : c \in Asked(u, p) <=> c \in Asked(slow, p) /\ c # a
          /\ Len(slow.rq[p]) = 0 => a = Last(QueueOf(slow, p)) \/ n # Len(slow.dq[p])
      <4>1. slow \in Balanced /\ p \in slow.conn /\ n \in 1..Len(slow.dq[p])
            /\ q \in Seq(Pending) /\ Len(q) = Len(slow.dq[p]) - 1
            /\ \A i \in 1..(Len(slow.dq[p])-1) : q[i] = IF i < n THEN slow.dq[p][i] ELSE slow.dq[p][i+1]
        BY <1>0, <1>1, <1>4, <3>3, <3>4, <3>7 DEF o
      <4>2. u \in Shapes /\ u.rq = slow.rq /\ u.dq[p] = q /\ a = slow.dq[p][n].block
        BY <3>5 DEF o
      <4> HIDE DEF n, a
      <4> QED BY <4>1, <4>2, SentLeaves
    <3> HIDE DEF a
    <3>9. a = b
      <4>1. Len(slow.rq[p]) = 0
        BY <3>1
      <4> QED BY <1>5, <3>8, <4>1 DEF o
    <3> HIDE DEF b
    <3>10. u \in Owing(Nobody, {a})
      BY <1>0, <1>1, <1>4, <3>5, <3>6, <3>8, PopKeeps
    <3> QED BY <1>1, <3>2, <3>5, <3>8, <3>9, <3>10
  <2> QED BY <2>1, <2>2
<1> HIDE DEF s, b
<1>7. E \in SUBSET Blocks /\ b \in E /\ E \ {b} = N /\ N \in SUBSET Blocks
  BY <1>6
<1> HIDE DEF E, N
<1>8. ASSUME TimesOut(Now, p), NEW t \in RequestABlock(s, p, 2)
      PROVE  SendBlockRequests(Abort(t, b), p, 1) \in Balanced
  <2>1. t \in Owing(Nobody, E)
    BY <1>6, <1>7, <1>8, RequestKeeps
  <2>2. t.picker
    <3>1. s \in Sound
      BY <1>6 DEF Owing, Fair
    <3>2. t \in Near(s)
      BY <1>8, <3>1, RequestQuiet
    <3> QED BY <1>6, <1>8, <3>2 DEF TimesOut, Near, Quiet
  <2>3. Abort(t, b) \in Owing(Nobody, E \ {b})
    BY <1>0, <1>7, <2>1, <2>2, Refund
  <2>4. Abort(t, b) \in Owing(Nobody, N)
    BY <1>7, <2>3
  <2> DEFINE a == Abort(t, b)
  <2> HIDE DEF a
  <2>5. SendBlockRequests(a, p, 1) \in Owing(Nobody, N)
    BY <1>7, <2>4, SendKeeps DEF a
  <2> QED BY <1>0, <2>5 DEF a
<1> QED BY <1>2, <1>4, <1>8, BalancedStep

-----------------------------------------------------------------------------
(***************************************************************************)
(* The disk's answers.                                                     *)
(***************************************************************************)

\* Blocks that nobody asks for any more are on nobody's account, or have come.
LEMMA BlocksChange ==
  ASSUME NEW s \in Balanced, NEW t \in Sound, t.rq = s.rq, t.dq = s.dq, t.conn = s.conn,
         t.choked = s.choked, NEW D \in SUBSET Blocks,
         \A c \in D : t.blk[c].peers = 0 /\ State(t, c) # "requested",
         \A c \in Blocks \ D : /\ t.blk[c] = s.blk[c]
                               /\ IsDownloaded(s, c) => IsDownloaded(t, c)
  PROVE  /\ t \in Without(D)
         /\ (\A c \in D : IsDownloaded(t, c)) => t \in Balanced
<1> DEFINE N == {}
           A == Accounts(s, N)
<1>1. s \in Fair /\ s \in Shapes /\ Meant(s) /\ Ledger(s, A) /\ t \in Shapes
  BY DEF Balanced, Without, Fair, Sound
<1>2. \A p \in Peers : QueueOf(t, p) = QueueOf(s, p) /\ Asked(t, p) = Asked(s, p)
  BY SameQueues
<1>3. t \in Fair
  <2>1. Meant(t)
    BY <1>1 DEF Meant, State
  <2>2. Distinct(t) /\ Away(t)
    BY <1>1, <1>2 DEF Fair, Distinct, Away
  <2> QED BY <2>1, <2>2 DEF Fair
<1>4. \A c : c \notin N
  OBVIOUS
<1> HIDE DEF N
<1>5. /\ A[Nobody] = {} /\ \A p \in Peers : A[p] = Asked(s, p) \ N
      /\ \A X : Accounts(t, X)[Nobody] = {} /\ \A p \in Peers : Accounts(t, X)[p] = Asked(s, p) \ X
  <2>1. /\ A \in Tables /\ A[Nobody] = {}
        /\ \A p \in Peers : p \in Writers /\ p # Nobody /\ A[p] = Asked(s, p) \ N
    BY <1>1, AccountFacts, Zenon
  <2>2. ASSUME NEW X
        PROVE  /\ Accounts(t, X) \in Tables /\ Accounts(t, X)[Nobody] = {}
               /\ \A p \in Peers : p \in Writers /\ p # Nobody /\ Accounts(t, X)[p] = Asked(t, p) \ X
    BY <1>1, AccountFacts, Zenon
  <2> QED BY <1>2, <2>1, <2>2
<1> HIDE DEF A
<1>6. ASSUME NEW X, NEW c \in Blocks, c \notin D, ~IsDownloaded(t, c), c \notin X
      PROVE  t.blk[c].peers = Cardinality(Claims(Accounts(t, X), c))
  <2>1. t.blk[c] = s.blk[c] /\ ~IsDownloaded(s, c)
    BY <1>6
  <2>2. Claims(A, c) = Claims(Accounts(t, X), c)
    BY <1>4, <1>5, <1>6 DEF Claims, Writers
  <2> QED BY <1>1, <2>1, <2>2 DEF Ledger
<1>7. Ledger(t, Accounts(t, D))
  <2> SUFFICES ASSUME NEW c \in Blocks, ~IsDownloaded(t, c)
               PROVE  t.blk[c].peers = Cardinality(Claims(Accounts(t, D), c))
    BY DEF Ledger
  <2>1. CASE c \in D
    <3>1. Claims(Accounts(t, D), c) = {}
      BY <1>5, <2>1 DEF Claims, Writers
    <3> QED BY <2>1, <3>1, FS_EmptySet
  <2> QED BY <1>6, <2>1
<1>8. (\A c \in D : IsDownloaded(t, c)) => Ledger(t, Accounts(t, N))
  BY <1>4, <1>6 DEF Ledger
<1> QED BY <1>3, <1>7, <1>8 DEF Balanced, Without, N

\* Without connections nobody is asked for anything.
LEMMA NobodyAsked ==
  ASSUME NEW X, NEW s \in Without(X), s.conn = {}
  PROVE  s \in Balanced
<1>1. s \in Fair /\ s \in Shapes /\ Ledger(s, Accounts(s, X))
  BY DEF Without, Fair, Sound
<1>2. \A p \in Peers : Asked(s, p) = {}
  BY <1>1, EmptyQueues DEF Fair, Away
<1>3. Accounts(s, X) = Accounts(s, {})
  BY <1>2 DEF Accounts, Writers
<1> QED BY <1>1, <1>3 DEF Balanced, Without

\* Taking a write from the disk's queue and changing a block moves no request.
LEMMA WriteFields ==
  ASSUME NEW b, NEW n, NEW info
  PROVE  LET t == SetBlock(Written(Now, b, n), b, info)
         IN  /\ t.rq = Now.rq /\ t.dq = Now.dq /\ t.conn = Now.conn /\ t.choked = Now.choked
             /\ t.have = Now.have
BY DEF SetBlock, Written, Now

\* on_disk_write_complete.
LEMMA WriteCompleteKeeps ==
  ASSUME RequestsInv, NEW b \in Blocks, NEW n \in DOMAIN writes[b], WriteComplete(b, n)
  PROVE  Now' \in Balanced
<1> DEFINE p == writes[b][n]
           s == Written(Now, b, n)
           t == MarkAsFinished(s, b, p)
           info == [blk[b] EXCEPT !.state = "finished", !.peer = p]
           E == {b}
<1>0. PipelineInv /\ Now \in Balanced /\ Meant(Now)
  BY NowBalanced DEF Fair
<1>1. /\ State(Now, b) = "writing" /\ p \in Writers /\ p \in {blk[b].from, Nobody}
      /\ PieceOf(b) \in Pieces /\ PieceOf(b) \notin have /\ picker /\ blk[b] \in Infos
  BY <1>0, BeingWritten
<1> HIDE DEF p
<1>2. info \in Infos /\ info.state = "finished" /\ info.peer = p /\ info.from = blk[b].from
      /\ info.peers = blk[b].peers
  <2> DEFINE j == [blk[b] EXCEPT !.state = "finished"]
             k == [j EXCEPT !.peer = p]
  <2>1. j \in Infos /\ j.state = "finished" /\ j.from = blk[b].from /\ j.peers = blk[b].peers
    BY <1>1 DEF Infos, BlockStates
  <2>2. info = k
    OBVIOUS
  <2> HIDE DEF j, info
  <2>3. k \in Infos /\ k.state = "finished" /\ k.peer = p /\ k.from = blk[b].from
        /\ k.peers = blk[b].peers
    BY <1>1, <2>1 DEF Infos
  <2> QED BY <2>2, <2>3
<1>3. blk[b].peers = 0
  BY <1>0, <1>1, NowFields DEF Meant, Infos
<1>4. t = SetBlock(s, b, info) /\ ~IsSeed(s)
  BY <1>0, <1>1, WrittenFields DEF MarkAsFinished, IsSeed
<1> HIDE DEF info, s
<1>5. t \in Sound /\ t.blk[b] = info /\ \A c \in Blocks : c # b => t.blk[c] = blk[c]
  BY <1>0, <1>1, <1>2, <1>4, AfterWrite DEF s
<1>6. t.rq = Now.rq /\ t.dq = Now.dq /\ t.conn = Now.conn /\ t.choked = Now.choked /\ t.have = Now.have
  BY <1>4, WriteFields DEF s
<1>7. PICK u \in (IF p = Nobody THEN {t} ELSE Ask(t, p)) : Become(u)
  BY <1>4 DEF WriteComplete, s, p
<1> HIDE DEF t
<1>8. t \in Balanced
  <2>1. E \in SUBSET Blocks /\ \A c : c \in E <=> c = b
    OBVIOUS
  <2> HIDE DEF E
  <2>2. State(t, b) = "finished" /\ t.blk[b].peers = 0
    BY <1>2, <1>3, <1>5 DEF State
  <2>3. \A c \in Blocks \ E : t.blk[c] = Now.blk[c] /\ (IsDownloaded(Now, c) => IsDownloaded(t, c))
    BY <1>0, <1>5, <1>6, <2>1, NowFields DEF IsDownloaded, State
  <2>4. \A c \in E : /\ t.blk[c].peers = 0 /\ State(t, c) # "requested"
                     /\ IsDownloaded(t, c)
    BY <2>1, <2>2 DEF IsDownloaded
  <2> QED BY <1>0, <1>5, <1>6, <2>1, <2>3, <2>4, BlocksChange
<1>9. CASE p = Nobody
  BY <1>7, <1>8, <1>9, BalancedStep
<1>10. CASE p # Nobody
  <2>1. p \in Peers /\ u \in Ask(t, p)
    BY <1>1, <1>7, <1>10 DEF Writers
  <2> QED BY <1>7, <1>8, <2>1, AskKeeps, BalancedStep
<1> QED BY <1>9, <1>10

\* A write that failed: the block is free, and nobody is connected any more.
LEMMA WriteErrorKeeps ==
  ASSUME RequestsInv, NEW b \in Blocks, NEW n \in DOMAIN writes[b], WriteError(b, n)
  PROVE  Now' \in Balanced
<1> DEFINE s == Written(Now, b, n)
           t == IF s.picker THEN WriteFailed(s, b) ELSE s
           info == [blk[b] EXCEPT !.state = "none", !.peer = Nobody, !.from = Nobody]
           E == {b}
           u == CloseAll(t, Peers)
<1>0. PipelineInv /\ Now \in Balanced /\ Meant(Now)
  BY NowBalanced DEF Fair
<1>1. State(Now, b) = "writing" /\ picker /\ blk[b] \in Infos
  BY <1>0, BeingWritten
<1>2. info \in Infos /\ info.state = "none" /\ info.peers = blk[b].peers
  <2> DEFINE j == [blk[b] EXCEPT !.state = "none"]
             k == [j EXCEPT !.peer = Nobody]
             l == [k EXCEPT !.from = Nobody]
  <2>1. j \in Infos /\ j.state = "none" /\ j.peers = blk[b].peers
    BY <1>1 DEF Infos, BlockStates
  <2>2. info = l
    OBVIOUS
  <2> HIDE DEF j, info
  <2>3. k \in Infos /\ k.state = "none" /\ k.peers = blk[b].peers
    BY <2>1 DEF Infos, Writers
  <2> HIDE DEF k
  <2>4. l \in Infos /\ l.state = "none" /\ l.peers = blk[b].peers
    BY <2>3 DEF Infos, Writers
  <2> QED BY <2>2, <2>4
<1>3. blk[b].peers = 0
  BY <1>0, <1>1, NowFields DEF Meant, Infos
<1>4. t = SetBlock(s, b, info)
  <2>1. State(s, b) = "writing"
    BY <1>0, <1>1, WrittenFields, NowFields DEF State
  <2>2. s.picker /\ s.blk = blk
    BY <1>0, <1>1, WrittenFields
  <2> HIDE DEF s
  <2>3. Downloading(s, PieceOf(b))
    BY <2>1 DEF Downloading, BlocksOf
  <2> QED BY <2>2, <2>3 DEF WriteFailed
<1> HIDE DEF info
<1>5. t \in Sound /\ t.blk[b] = info /\ \A c \in Blocks : c # b => t.blk[c] = blk[c]
  BY <1>0, <1>2, <1>4, AfterWrite
<1>6. t.rq = Now.rq /\ t.dq = Now.dq /\ t.conn = Now.conn /\ t.choked = Now.choked /\ t.have = Now.have
  BY <1>4, WriteFields
<1>7. Become(u)
  BY DEF WriteError
<1> HIDE DEF t
<1>8. t \in Without(E)
  <2>1. E \in SUBSET Blocks /\ \A c : c \in E <=> c = b
    OBVIOUS
  <2> HIDE DEF E
  <2>2. State(t, b) = "none" /\ t.blk[b].peers = 0
    BY <1>2, <1>3, <1>5 DEF State
  <2>3. \A c \in Blocks \ E : t.blk[c] = Now.blk[c] /\ (IsDownloaded(Now, c) => IsDownloaded(t, c))
    BY <1>0, <1>5, <1>6, <2>1, NowFields DEF IsDownloaded, State
  <2>4. \A c \in E : t.blk[c].peers = 0 /\ State(t, c) # "requested"
    BY <2>1, <2>2
  <2> QED BY <1>0, <1>5, <1>6, <2>1, <2>3, <2>4, BlocksChange
<1> HIDE DEF E
<1>9. u \in Without(E) /\ u.conn = {}
  <2>1. u \in Without(E) /\ u.conn = t.conn \ Peers
    BY <1>8, CloseAllKeeps
  <2>2. t.conn \subseteq Peers
    BY <1>5 DEF Sound, Shapes
  <2> QED BY <2>1, <2>2
<1> HIDE DEF u
<1> QED BY <1>7, <1>9, NobodyAsked, BalancedStep

\* completed() closes the seeds, when there is no picker any more.
LEMMA FinishedKeeps ==
  ASSUME NEW s \in Balanced
  PROVE  Finished(s) \in Balanced
<1> DEFINE t == [s EXCEPT !.picker = FALSE]
           N == {}
<1>1. CASE s.have # Pieces
  BY <1>1 DEF Finished
<1>2. CASE s.have = Pieces
  <2>1. s \in Fair /\ s \in Sound /\ s \in Shapes /\ s \in Without(N)
    BY DEF Balanced, Without, Fair, Sound
  <2>2. t \in Shapes /\ t.blk = s.blk /\ t.have = s.have /\ t.dead = s.dead /\ t.writes = s.writes
        /\ t.rq = s.rq /\ t.dq = s.dq /\ t.conn = s.conn /\ t.choked = s.choked
    BY <2>1 DEF Shapes
  <2>3. Finished(s) = CloseAll(t, Seeds)
    BY <1>2 DEF Finished
  <2> HIDE DEF t, N
  <2>4. t \in Sound
    BY <1>2, <2>1, <2>2
       DEF Sound, NoBlocksOfHave, PickerUntilDone, WrittenOnce, SenderNoted, WriterNoted, State
  <2>5. Away(t)
    BY <2>1, <2>2 DEF Fair, Away
  <2>6. t \in Without(N)
    BY <2>1, <2>2, <2>4, <2>5, FlagChange
  <2>7. CloseAll(t, Seeds) \in Without(N)
    BY <2>6, CloseAllKeeps
  <2> QED BY <2>3, <2>7 DEF Balanced, N
<1> QED BY <1>1, <1>2

-----------------------------------------------------------------------------
(***************************************************************************)
(* The requests of a piece that is restored.                                *)
(***************************************************************************)

\* mark_as_downloading leaves the queues alone as well.
LEMMA MarkUntouched ==
  ASSUME NEW s \in Sound, NEW b, NEW p
  PROVE  Untouched(s, MarkAsDownloading(s, b, p))
BY DEF Sound, Shapes, MarkAsDownloading, SetBlock, Untouched

\* restore_piece_state for one peer: it is counted again for what it is asked
\* for of piece i.
LEMMA RestorePeerKeeps ==
  ASSUME NEW s \in Sound, Meant(s), NEW A \in Tables, Ledger(s, A), NEW i \in Pieces,
         i \notin s.have, NEW p \in Peers, IsInjective(QueueOf(s, p)),
         \A c \in Asked(s, p) : PieceOf(c) = i => c \notin A[p],
         NEW B, \A v \in Writers : \A c : c \in B[v] <=>
                  c \in A[v] \/ (v = p /\ c \in Asked(s, p) /\ PieceOf(c) = i)
  PROVE  LET t == RestorePeer(s, i, p)
         IN  t \in Sound /\ Meant(t) /\ Ledger(t, B) /\ Untouched(s, t)
<1> DEFINE q == QueueOf(s, p)
           n == Len(q)
           Of(k) == {c \in Blocks : PieceOf(c) = i /\ \E j \in 1..k : c = q[j]}
           D(k) == [A EXCEPT ![p] = @ \cup Of(k)]
           C == [k \in 0..n |-> {t \in Sound : Meant(t) /\ Ledger(t, D(k)) /\ Untouched(s, t)}]
<1>1. q \in Seq(Blocks) /\ s \in Shapes
  BY QueueFacts DEF Sound
<1>2. PICK r \in [0..n -> Near(s)] :
           /\ n \in Nat /\ r[0] = s /\ r[n] = RestorePeer(s, i, p)
           /\ \A k \in 1..n : r[k] = IF PieceOf(q[k]) = i THEN MarkAsDownloading(r[k-1], q[k], p)
                                                  ELSE r[k-1]
  BY RestorePeerRuns
<1>3. /\ p \in Writers /\ DOMAIN q = 1..n /\ \A k \in 1..n : q[k] \in Blocks
      /\ Asked(s, p) = ToSet(q) /\ \A j, k \in 1..n : q[j] = q[k] => j = k
  <2> HIDE DEF q
  <2>1. Asked(s, p) = ToSet(q) /\ IsInjective(q)
    BY DEF q, Asked
  <2>2. DOMAIN q = 1..n /\ \A k \in 1..n : q[k] \in Blocks
    BY <1>1, LenProperties, ElementOfSeq
  <2> QED BY <2>1, <2>2 DEF IsInjective, Writers
<1> HIDE DEF q, n
<1>4. \A k \in 0..n : /\ D(k) \in Tables /\ D(k)[p] = A[p] \cup Of(k)
                      /\ \A v \in Writers : v # p => D(k)[v] = A[v]
  BY <1>3 DEF Tables
<1>5. r[0] \in C[0]
  <2>1. D(0) = A /\ 0 \in 0..n
    <3>1. Of(0) = {}
      OBVIOUS
    <3> HIDE DEF Of
    <3> QED BY <1>2, <3>1 DEF Tables
  <2> HIDE DEF D
  <2> QED BY <1>2, <2>1 DEF Untouched
<1>6. ASSUME NEW k \in 1..n, r[k-1] \in C[k-1] PROVE r[k] \in C[k]
  <2> DEFINE t == r[k-1]
             b == q[k]
             T == D(k-1)
  <2>1. k - 1 \in 0..n /\ k \in 0..n /\ b \in Blocks
    BY <1>2, <1>3
  <2>2. t \in Sound /\ Meant(t) /\ Ledger(t, T) /\ Untouched(s, t)
        /\ r[k] = IF PieceOf(b) = i THEN MarkAsDownloading(t, b, p) ELSE t
    BY <1>2, <1>6, <2>1
  <2>3. T \in Tables /\ T[p] = A[p] \cup Of(k-1)
    BY <1>4, <2>1
  <2>4. \A j : j \in 1..k <=> j \in 1..(k-1) \/ j = k
    BY <2>1
  <2>5. CASE PieceOf(b) # i
    <3>1. Of(k) = Of(k-1)
      BY <2>4, <2>5
    <3>2. D(k) = T
      BY <3>1
    <3> HIDE DEF D
    <3> QED BY <2>1, <2>2, <2>5, <3>2
  <2>6. CASE PieceOf(b) = i
    <3>1. b \notin T[p]
      <4>1. b \in Asked(s, p)
        BY <1>3 DEF ToSet
      <4>2. b \notin A[p]
        BY <2>6, <4>1
      <4>3. ASSUME NEW j \in 1..(k-1) PROVE q[j] # b
        <5>1. j \in 1..n /\ j # k
          BY <1>2, <2>1
        <5> QED BY <1>3, <5>1
      <4> QED BY <2>3, <4>2, <4>3
    <3>2. Of(k) = Of(k-1) \cup {b}
      BY <2>1, <2>4, <2>6
    <3>3. [T EXCEPT ![p] = @ \cup {b}] = D(k)
      BY <1>3, <3>2 DEF Tables
    <3> HIDE DEF T, D, Of, t, b
    <3>4. r[k] = MarkAsDownloading(t, b, p)
      BY <2>2, <2>6
    <3>5. Meant(r[k]) /\ Ledger(r[k], D(k))
      BY <2>1, <2>2, <2>3, <3>1, <3>3, <3>4, LedgerMark
    <3>6. Untouched(t, r[k])
      BY <2>2, <3>4, MarkUntouched
    <3>7. r[k] \in Sound /\ Untouched(s, r[k])
      BY <1>2, <2>1, <2>2, <3>6, QuietKeepsSound DEF Untouched
    <3> QED BY <2>1, <3>5, <3>7
  <2> QED BY <2>5, <2>6
<1>7. r[n] \in C[n]
  <2> HIDE DEF C
  <2>1. \A k \in 0..n : r[k] \in C[k]
    BY <1>2, <1>5, <1>6, TraceInduction
  <2> QED BY <1>2, <2>1
<1>8. r[n] \in Sound /\ Meant(r[n]) /\ Ledger(r[n], D(n)) /\ Untouched(s, r[n])
  BY <1>2, <1>7
<1>9. \A c \in Blocks : \A v \in Writers : c \in D(n)[v] <=> c \in B[v]
  <2> SUFFICES ASSUME NEW c \in Blocks, NEW v \in Writers PROVE c \in D(n)[v] <=> c \in B[v]
    OBVIOUS
  <2>1. c \in Of(n) <=> c \in Asked(s, p) /\ PieceOf(c) = i
    BY <1>3 DEF ToSet
  <2>2. n \in 0..n
    BY <1>2
  <2> HIDE DEF Of, D
  <2> QED BY <1>4, <2>1, <2>2 DEF Of, D
<1> HIDE DEF D
<1>10. Ledger(r[n], B)
  BY <1>8, <1>9, LedgerAgrees
<1> QED BY <1>2, <1>8, <1>10

\* erase_download_piece: nobody is counted any more for the blocks of the piece,
\* although they may still be asked for.
LEMMA EraseKeeps ==
  ASSUME NEW s \in Balanced, NEW i \in Pieces, \A b \in BlocksOf(i) : State(s, b) = "finished"
  PROVE  LET e == EraseDownload(s, i)
         IN  /\ e \in Without(BlocksOf(i)) /\ e \in Sound /\ e.have = s.have
             /\ e.rq = s.rq /\ e.dq = s.dq /\ e.conn = s.conn /\ e.choked = s.choked
             /\ \A c \in BlocksOf(i) : e.blk[c].peers = 0 /\ State(e, c) = "none"
             /\ \A c \in Blocks \ BlocksOf(i) : e.blk[c] = s.blk[c]
<1> DEFINE e == EraseDownload(s, i)
           D == BlocksOf(i)
<1>1. s \in Sound /\ s \in Shapes /\ D \in SUBSET Blocks
  BY DEF Balanced, Without, Fair, Sound, BlocksOf
<1>2. e \in Sound /\ e.have = s.have
  BY <1>1, ErasedSound
<1>3. e.rq = s.rq /\ e.dq = s.dq /\ e.conn = s.conn /\ e.choked = s.choked
  BY <1>1 DEF EraseDownload, Shapes
<1>4. \A c \in D : e.blk[c] = Idle
  BY <1>1 DEF EraseDownload, Shapes, BlocksOf
<1>5. \A c \in Blocks \ D : e.blk[c] = s.blk[c]
  BY <1>1 DEF EraseDownload, Shapes, BlocksOf
<1> HIDE DEF e, D
<1>6. \A c \in D : e.blk[c].peers = 0 /\ State(e, c) = "none"
  BY <1>4 DEF Idle, State
<1>7. \A c \in Blocks \ D : e.blk[c] = s.blk[c] /\ (IsDownloaded(s, c) => IsDownloaded(e, c))
  BY <1>2, <1>5 DEF IsDownloaded, State
<1>8. \A c \in D : e.blk[c].peers = 0 /\ State(e, c) # "requested"
  BY <1>6
<1>9. e \in Without(D)
  BY <1>1, <1>2, <1>3, <1>7, <1>8, BlocksChange
<1> QED BY <1>2, <1>3, <1>6, <1>7, <1>9 DEF e, D

\* restore_piece and restore_piece_state: whom the blocks of the piece are still
\* asked of, although another copy has come, is counted for them again.
LEMMA RestoreKeeps ==
  ASSUME NEW s \in Balanced, NEW i \in Pieces, i \notin s.have,
         \A b \in BlocksOf(i) : State(s, b) = "finished", NEW u \in Restore(s, i)
  PROVE  u \in Balanced
<1> DEFINE e == EraseDownload(s, i)
           D == BlocksOf(i)
<1>1. /\ e \in Without(D) /\ e \in Sound /\ e.have = s.have
      /\ e.rq = s.rq /\ e.dq = s.dq /\ e.conn = s.conn /\ e.choked = s.choked
  BY EraseKeeps
<1>2. PICK q \in SetToSeqs(s.conn) : u = RestoreAll(e, i, q)
  BY DEF Restore, RestorePeer, RestoreAll
<1>3. \A c \in Blocks : c \in D <=> PieceOf(c) = i
  BY DEF BlocksOf
<1> HIDE DEF e, D
<1> DEFINE m == Cardinality(s.conn)
<1>4. e.conn \subseteq Peers /\ IsFiniteSet(s.conn) /\ m \in Nat
  <2>1. e.conn \subseteq Peers
    BY <1>1 DEF Sound, Shapes
  <2> QED BY <1>1, <2>1, PipelineAssumption, FS_Subset, FS_CardinalityType
<1>5. q \in [1..m -> s.conn] /\ \A j, k \in 1..m : j # k => q[j] # q[k]
  BY <1>2 DEF SetToSeqs
<1>6. s.conn = {q[j] : j \in 1..m}
  <2>1. IsInjective(q)
    BY <1>5 DEF IsInjective
  <2> QED BY <1>4, <1>5, <2>1, ListIsWhole
<1>7. q \in Seq(Peers) /\ Len(q) = m
  BY <1>1, <1>4, <1>5
<1> HIDE DEF m
<1>8. PICK r \in [0..m -> Near(e)] :
           /\ r[0] = e /\ r[m] = u
           /\ \A k \in 1..m : r[k] = RestorePeer(r[k-1], i, q[k])
  <2>1. PICK r \in [0..Len(q) -> Near(e)] :
           /\ r[0] = e /\ r[Len(q)] = RestoreAll(e, i, q)
           /\ \A k \in 1..Len(q) : r[k] = RestorePeer(r[k-1], i, q[k])
    BY <1>1, <1>7, RestoreAllRuns
  <2> QED BY <1>2, <1>7, <2>1
<1> DEFINE Asks(w) == IF w = Nobody THEN {} ELSE Asked(e, w)
           Part(k) == [w \in Writers |->
                         {c \in Asks(w) : c \in D => \E j \in 1..k : q[j] = w}]
           C == [k \in 0..m |-> {t \in Sound : Meant(t) /\ Ledger(t, Part(k)) /\ Untouched(e, t)}]
<1>9. /\ e \in Fair /\ e \in Shapes /\ Meant(e) /\ Ledger(e, Accounts(e, D))
      /\ \A p \in Peers : /\ p \in Writers /\ p # Nobody /\ IsInjective(QueueOf(e, p))
                          /\ Asked(e, p) \in SUBSET Blocks
  <2>1. e \in Fair /\ e \in Shapes /\ Meant(e) /\ Ledger(e, Accounts(e, D)) /\ Distinct(e)
    BY <1>1 DEF Without, Fair, Sound
  <2>2. \A p \in Peers : p \in Writers /\ p # Nobody
    BY PipelineAssumption DEF Writers
  <2>3. \A p \in Peers : Asked(e, p) \in SUBSET Blocks
    BY <2>1, QueueFacts
  <2> QED BY <2>1, <2>2, <2>3 DEF Distinct
<1>10. \A w \in Writers : Asks(w) \in SUBSET Blocks
  BY <1>9 DEF Writers
<1>11. \A k : /\ Part(k) \in Tables
              /\ \A w \in Writers : \A c : c \in Part(k)[w] <=>
                   c \in Asks(w) /\ (c \in D => \E j \in 1..k : q[j] = w)
  BY <1>10 DEF Tables
<1>12. r[0] \in C[0]
  <2>1. \A c \in Blocks : \A w \in Writers : c \in Accounts(e, D)[w] <=> c \in Part(0)[w]
    <3> SUFFICES ASSUME NEW c \in Blocks, NEW w \in Writers
                 PROVE  c \in Accounts(e, D)[w] <=> c \in Part(0)[w]
      OBVIOUS
    <3>1. Accounts(e, D)[w] = IF w = Nobody THEN {} ELSE Asked(e, w) \ D
      BY DEF Accounts
    <3> HIDE DEF Part
    <3> QED BY <1>11, <3>1
  <2> HIDE DEF Part
  <2>2. Ledger(e, Part(0))
    BY <1>9, <2>1, LedgerAgrees
  <2>3. Untouched(e, e) /\ 0 \in 0..m
    BY <1>4 DEF Untouched
  <2> QED BY <1>1, <1>8, <1>9, <2>2, <2>3
<1>13. ASSUME NEW k \in 1..m, r[k-1] \in C[k-1] PROVE r[k] \in C[k]
  <2> DEFINE t == r[k-1]
             p == q[k]
             A == Part(k-1)
             B == Part(k)
  <2>1. k - 1 \in 0..m /\ k \in 0..m /\ p \in Peers
    BY <1>1, <1>4, <1>5
  <2>2. t \in Sound /\ Meant(t) /\ Ledger(t, A) /\ Untouched(e, t)
    BY <1>13, <2>1
  <2>3. r[k] = RestorePeer(t, i, p)
    BY <1>8
  <2>4. A \in Tables
    <3> HIDE DEF Part
    <3> QED BY <1>11
  <2>5. QueueOf(t, p) = QueueOf(e, p) /\ Asked(t, p) = Asked(e, p) /\ i \notin t.have
    BY <1>1, <2>2, SameQueues DEF Untouched
  <2>6. \A j : j \in 1..k <=> j \in 1..(k-1) \/ j = k
    BY <2>1
  <2>7. \A j \in 1..(k-1) : q[j] # p
    <3> SUFFICES ASSUME NEW j \in 1..(k-1) PROVE q[j] # q[k]
      OBVIOUS
    <3>1. j \in 1..m /\ j # k
      BY <1>4
    <3> QED BY <1>5, <3>1
  <2>8. p \in Writers /\ p # Nobody /\ IsInjective(QueueOf(t, p)) /\ Asked(e, p) \in SUBSET Blocks
    BY <1>9, <2>1, <2>5
  <2>9. \A c \in Asked(t, p) : PieceOf(c) = i => c \notin A[p]
    <3> HIDE DEF A, Part, t, p
    <3>1. \A c : c \in A[p] => (c \in D => \E j \in 1..(k-1) : q[j] = p)
      BY <1>11, <2>8 DEF A
    <3> QED BY <1>3, <2>5, <2>7, <2>8, <3>1
  <2>10. \A v \in Writers : \A c : c \in B[v] <=>
                  c \in A[v] \/ (v = p /\ c \in Asked(t, p) /\ PieceOf(c) = i)
    <3> SUFFICES ASSUME NEW v \in Writers, NEW c
                 PROVE  c \in B[v] <=> c \in A[v] \/ (v = p /\ c \in Asked(t, p) /\ PieceOf(c) = i)
      OBVIOUS
    <3>1. c \in B[v] <=> c \in Asks(v) /\ (c \in D => \E j \in 1..k : q[j] = v)
      BY <1>11
    <3>2. c \in A[v] <=> c \in Asks(v) /\ (c \in D => \E j \in 1..(k-1) : q[j] = v)
      BY <1>11
    <3>3. (\E j \in 1..k : q[j] = v) <=> (\E j \in 1..(k-1) : q[j] = v) \/ v = p
      BY <2>6
    <3>4. v = p => Asks(v) = Asked(t, p)
      BY <2>5, <2>8
    <3>5. c \in Asks(v) => (c \in D <=> PieceOf(c) = i)
      BY <1>3, <1>10
    <3> HIDE DEF A, B, Part, t, p, Asks
    <3> QED BY <3>1, <3>2, <3>3, <3>4, <3>5
  <2> HIDE DEF t, p, A, B, Part
  <2>11. /\ r[k] \in Sound /\ Meant(r[k]) /\ Ledger(r[k], B) /\ Untouched(t, r[k])
    BY <2>1, <2>2, <2>3, <2>4, <2>5, <2>8, <2>9, <2>10, RestorePeerKeeps
  <2>12. Untouched(e, r[k])
    BY <2>2, <2>11 DEF Untouched
  <2> QED BY <2>1, <2>11, <2>12 DEF B
<1>14. r[m] \in C[m]
  <2> HIDE DEF C
  <2>1. \A k \in 0..m : r[k] \in C[k]
    BY <1>4, <1>12, <1>13, TraceInduction
  <2> QED BY <1>4, <2>1
<1>15. u \in Sound /\ Meant(u) /\ Ledger(u, Part(m)) /\ Untouched(e, u)
  BY <1>4, <1>8, <1>14
<1>16. \A p \in Peers : QueueOf(u, p) = QueueOf(e, p) /\ Asked(u, p) = Asked(e, p)
  BY <1>15, SameQueues DEF Untouched
<1>17. u \in Fair
  <2>1. Distinct(u) /\ Away(u)
    BY <1>9, <1>15, <1>16 DEF Fair, Distinct, Away, Untouched
  <2> QED BY <1>15, <2>1 DEF Fair
<1> DEFINE N == {}
<1>18. \A c \in Blocks : \A w \in Writers : c \in Part(m)[w] <=> c \in Accounts(u, N)[w]
  <2> SUFFICES ASSUME NEW c \in Blocks, NEW w \in Writers
               PROVE  c \in Part(m)[w] <=> c \in Accounts(u, N)[w]
    OBVIOUS
  <2>1. Accounts(u, N)[w] = IF w = Nobody THEN {} ELSE Asked(u, w)
    BY DEF Accounts
  <2>2. c \in Part(m)[w] <=> c \in Asks(w) /\ (c \in D => \E j \in 1..m : q[j] = w)
    BY <1>11
  <2> HIDE DEF Part, N
  <2>3. CASE w = Nobody
    BY <2>1, <2>2, <2>3
  <2>4. CASE w # Nobody /\ w \in s.conn
    BY <1>1, <1>4, <1>6, <1>16, <2>1, <2>2, <2>4
  <2>5. CASE w # Nobody /\ w \notin s.conn
    <3>1. w \in Peers
      BY <2>5 DEF Writers
    <3>2. e.rq[w] = <<>> /\ e.dq[w] = <<>>
      BY <1>1, <1>9, <2>5, <3>1 DEF Fair, Away
    <3>3. Asked(e, w) = {}
      BY <3>2, EmptyQueues
    <3> QED BY <1>16, <2>1, <2>2, <2>5, <3>1, <3>3
  <2> QED BY <2>3, <2>4, <2>5
<1> HIDE DEF Part, N
<1>19. Ledger(u, Accounts(u, N))
  BY <1>15, <1>18, LedgerAgrees
<1> QED BY <1>17, <1>19 DEF Balanced, Without, N

-----------------------------------------------------------------------------
(***************************************************************************)
(* The verdicts.                                                            *)
(***************************************************************************)

\* A verdict whose handler leaves balanced records.
LEMMA VerdictKeeps ==
  ASSUME PipelineInv, NEW i \in Pieces, NEW S, Verdict(i, S), \A t \in S : t \in Balanced
  PROVE  Now' \in Balanced
<1>1. hashes[i] > 0
  BY DEF Verdict
<1>2. picker /\ Downloading(Now, i)
  BY <1>1, VerdictDue
<1>3. PICK t \in S : Become(t)
  BY <1>2 DEF Verdict
<1> QED BY <1>3, BalancedStep

\* Restoring the piece after quiet calls that keep the ledger.
LEMMA RestoreAfter ==
  ASSUME PipelineInv, NEW i \in Pieces, hashes[i] > 0, NEW s \in Near(Now), s \in Balanced,
         NEW u \in Restore(s, i)
  PROVE  u \in Balanced
<1>1. SameFinished(Now, s) /\ s.have = have
  BY NowFields, NearSameFinished DEF Near, Quiet
<1>2. i \notin s.have /\ \A b \in BlocksOf(i) : State(s, b) = "finished"
  BY <1>1, VerdictDue DEF SameFinished, BlocksOf
<1> QED BY <1>2, RestoreKeeps

\* BP2P has the piece restored.
LEMMA PieceWithheldKeeps ==
  ASSUME RequestsInv, NEW i \in Pieces, PieceWithheld(i)
  PROVE  Now' \in Balanced
<1>1. Verdict(i, Restore(Now, i)) /\ hashes[i] > 0
  BY DEF PieceWithheld, Verdict
<1>2. PipelineInv /\ Now \in Balanced /\ Now \in Near(Now)
  BY NowBalanced, NowFields, QuietIsReflexive
<1>3. \A u \in Restore(Now, i) : u \in Balanced
  BY <1>1, <1>2, RestoreAfter
<1> QED BY <1>1, <1>2, <1>3, VerdictKeeps

\* The piece could not be read: restored, with every connection closed.
LEMMA HashErrorKeeps ==
  ASSUME RequestsInv, NEW i \in Pieces, HashError(i)
  PROVE  Now' \in Balanced
<1> DEFINE s == CloseAll(Now, Peers)
<1>1. Verdict(i, Restore(s, i)) /\ hashes[i] > 0
  BY DEF HashError, Verdict
<1>2. PipelineInv /\ Now \in Balanced
  BY NowBalanced
<1>3. s \in Near(Now) /\ s \in Balanced
  BY <1>2, NowFields, CloseAllQuiet, CloseAllKeeps DEF Balanced
<1> HIDE DEF s
<1>4. \A u \in Restore(s, i) : u \in Balanced
  BY <1>1, <1>2, <1>3, RestoreAfter
<1> QED BY <1>1, <1>2, <1>4, VerdictKeeps

\* The piece is restored after some of the senders were banned.
LEMMA PieceFailedKeeps ==
  ASSUME RequestsInv, NEW i \in Pieces, PieceFailed(i)
  PROVE  Now' \in Balanced
<1> DEFINE from == Downloaders(Now, i)
           s == [Now EXCEPT !.parole = @ \cup (from \cap conn)]
<1>1. PICK P \in SUBSET (from \ {Nobody}) : Verdict(i, Restore(CloseAll(s, P), i))
  BY DEF PieceFailed
<1> HIDE DEF from
<1>2. PipelineInv /\ Now \in Balanced /\ Away(Now) /\ hashes[i] > 0
  BY <1>1, NowBalanced DEF Verdict
<1>3. s \in Shapes /\ s.blk = Now.blk /\ s.have = Now.have /\ s.picker = Now.picker
      /\ s.dead = Now.dead /\ s.writes = Now.writes /\ s.rq = Now.rq /\ s.dq = Now.dq
      /\ s.choked = Now.choked /\ s.conn = Now.conn
  BY <1>2, NowFields DEF Shapes
<1> DEFINE t == CloseAll(s, P)
<1>4. Verdict(i, Restore(t, i))
  BY <1>1
<1> HIDE DEF s
<1>5. s \in Near(Now) /\ s \in Sound
  BY <1>2, <1>3, NowFields, Aside
<1>6. Away(s)
  BY <1>2, <1>3 DEF Away
<1>7. s \in Balanced
  BY <1>2, <1>3, <1>6, FlagBalanced
<1>8. t \in Near(Now) /\ t \in Balanced
  <2>1. t \in Near(Now)
    BY <1>2, <1>5, NowFields, CloseAllQuiet, QuietFrom
  <2>2. t \in Balanced
    BY <1>7, CloseAllKeeps DEF Balanced
  <2> QED BY <2>1, <2>2
<1> HIDE DEF t
<1>9. \A u \in Restore(t, i) : u \in Balanced
  BY <1>2, <1>8, RestoreAfter
<1> QED BY <1>2, <1>4, <1>9, VerdictKeeps

\* A round of requests keeps the ledger.
LEMMA AskEachKeeps ==
  ASSUME NEW s \in Sound, NEW S \in SUBSET Near(s), S \subseteq Balanced, NEW q \in Seq(Peers)
  PROVE  AskAll(S, q) \subseteq Near(s) /\ AskAll(S, q) \subseteq Balanced
<1> DEFINE n == Len(q)
           C == [k \in 0..n |-> SUBSET Balanced]
<1>1. n \in Nat /\ n \in 0..n /\ \A k \in 1..n : q[k] \in Peers
  BY LenProperties, ElementOfSeq
<1>2. PICK r \in [0..n -> SUBSET Near(s)] :
           /\ r[0] = S /\ r[n] = AskAll(S, q)
           /\ \A k \in 1..n : \A u \in r[k] : \E t \in r[k-1] : u \in Ask(t, q[k])
  BY AskEachRuns, ZenonT(30)
<1> HIDE DEF n
<1>3. r[0] \in C[0]
  BY <1>1, <1>2
<1>4. ASSUME NEW k \in 1..n, r[k-1] \in C[k-1] PROVE r[k] \in C[k]
  <2>1. k - 1 \in 0..n /\ k \in 0..n
    BY <1>1
  <2>2. r[k-1] \in SUBSET Balanced
    BY <1>4, <2>1
  <2>3. ASSUME NEW u \in r[k] PROVE u \in Balanced
    <3>1. PICK t \in r[k-1] : u \in Ask(t, q[k])
      BY <1>2, <2>3
    <3> QED BY <1>1, <2>2, <3>1, AskKeeps
  <2> QED BY <2>1, <2>3
<1>5. \A k \in 0..n : r[k] \in C[k]
  <2> HIDE DEF C
  <2> QED BY <1>1, <1>3, <1>4, TraceInduction
<1> QED BY <1>1, <1>2, <1>5

\* Nobody is counted for the blocks of a piece that we get, and requests are
\* made from there.
LEMMA PiecePassedKeeps ==
  ASSUME RequestsInv, NEW i \in Pieces, PiecePassed(i)
  PROVE  Now' \in Balanced
<1> DEFINE e == EraseDownload(Now, i)
           s == [e EXCEPT !.have = @ \cup {i}]
           Trusted(t) == [t EXCEPT !.parole = @ \ Downloaders(Now, i)]
           T(order) == {Trusted(t) : t \in AskAll({s}, order)}
           S == UNION {{Finished(u) : u \in AskAll(T(order), order)} : order \in SetToSeqs(conn)}
           D == BlocksOf(i)
<1>1. Verdict(i, S)
  BY DEF PiecePassed, AskAll
<1>2. PipelineInv /\ Now \in Balanced /\ hashes[i] > 0
  BY <1>1, NowBalanced DEF Verdict
<1>3. \A b \in D : State(Now, b) = "finished"
  BY <1>2, VerdictDue
<1>4. /\ s \in Sound /\ s.blk = e.blk /\ s.have = have \cup {i}
      /\ s.rq = rq /\ s.dq = dq /\ s.conn = conn /\ s.choked = choked
  BY <1>2, PieceGained
<1>5. /\ \A c \in D : e.blk[c].peers = 0 /\ State(e, c) = "none"
      /\ \A c \in Blocks \ D : e.blk[c] = Now.blk[c]
  BY <1>2, <1>3, EraseKeeps
<1> HIDE DEF e, s
<1>6. s \in Balanced
  <2>1. D \in SUBSET Blocks
    BY DEF BlocksOf
  <2>2. \A c \in D : s.blk[c].peers = 0 /\ State(s, c) # "requested" /\ IsDownloaded(s, c)
    BY <1>4, <1>5 DEF BlocksOf, State, IsDownloaded
  <2>3. \A c \in Blocks \ D : s.blk[c] = Now.blk[c] /\ (IsDownloaded(Now, c) => IsDownloaded(s, c))
    BY <1>2, <1>4, <1>5, NowFields DEF IsDownloaded, State
  <2>4. s.rq = Now.rq /\ s.dq = Now.dq /\ s.conn = Now.conn /\ s.choked = Now.choked
    BY <1>2, <1>4, NowFields
  <2> HIDE DEF D
  <2> QED BY <1>2, <1>4, <2>1, <2>2, <2>3, <2>4, BlocksChange
<1>7. ASSUME NEW t \in Near(s), t \in Balanced
      PROVE  Trusted(t) \in Near(s) /\ Trusted(t) \in Balanced
  <2>1. t \in Sound /\ t \in Shapes /\ Away(t)
    BY <1>7 DEF Balanced, Without, Fair, Sound
  <2>2. /\ Trusted(t) \in Shapes /\ Trusted(t).blk = t.blk /\ Trusted(t).have = t.have
        /\ Trusted(t).picker = t.picker /\ Trusted(t).dead = t.dead
        /\ Trusted(t).writes = t.writes /\ Trusted(t).rq = t.rq /\ Trusted(t).dq = t.dq
        /\ Trusted(t).choked = t.choked /\ Trusted(t).conn = t.conn
    BY <2>1 DEF Shapes
  <2> DEFINE u == Trusted(t)
  <2> HIDE DEF u
  <2>3. u \in Shapes /\ u.blk = t.blk /\ u.have = t.have /\ u.picker = t.picker /\ u.dead = t.dead
        /\ u.writes = t.writes /\ u.rq = t.rq /\ u.dq = t.dq /\ u.choked = t.choked /\ u.conn = t.conn
    BY <2>2 DEF u
  <2>4. u \in Near(s)
    BY <1>4, <2>1, <2>3, Aside, QuietFrom
  <2>5. Away(u)
    BY <2>1, <2>3 DEF Away
  <2>6. u \in Balanced
    BY <1>7, <2>3, <2>5, FlagBalanced
  <2> QED BY <2>4, <2>6 DEF u
<1>8. ASSUME NEW order \in SetToSeqs(conn), NEW u \in AskAll(T(order), order)
      PROVE  Finished(u) \in Balanced
  <2> HIDE DEF Trusted
  <2>1. order \in Seq(Peers)
    BY <1>2, NowFields, OrderOfPeers DEF Shapes
  <2> DEFINE one == {s}
             U == T(order)
  <2>2. one \in SUBSET Near(s) /\ one \subseteq Balanced
    <3>1. s \in Shapes
      BY <1>4 DEF Sound
    <3> QED BY <1>6, <3>1, QuietIsReflexive
  <2>3. U = {Trusted(t) : t \in AskAll(one, order)} /\ u \in AskAll(U, order)
    BY <1>8
  <2> HIDE DEF one, U
  <2>4. AskAll(one, order) \subseteq Near(s) /\ AskAll(one, order) \subseteq Balanced
    BY <1>4, <2>1, <2>2, AskEachKeeps
  <2>5. U \in SUBSET Near(s) /\ U \subseteq Balanced
    BY <1>7, <2>3, <2>4
  <2>6. AskAll(U, order) \subseteq Balanced
    BY <1>4, <2>1, <2>5, AskEachKeeps
  <2> QED BY <2>3, <2>6, FinishedKeeps
<1>9. \A t \in S : t \in Balanced
  <2> DEFINE V(order) == AskAll(T(order), order)
  <2>1. \A order \in SetToSeqs(conn) : \A u \in V(order) : Finished(u) \in Balanced
    BY <1>8
  <2>2. S = UNION {{Finished(u) : u \in V(order)} : order \in SetToSeqs(conn)}
    OBVIOUS
  <2> HIDE DEF V, S, T
  <2> QED BY <2>1, <2>2
<1> HIDE DEF S
<1> QED BY <1>1, <1>2, <1>9, VerdictKeeps

-----------------------------------------------------------------------------
(***************************************************************************)
(* The theorems.                                                           *)
(***************************************************************************)

\* Nothing is asked for at first.
LEMMA InitRequests == ASSUME Init PROVE RequestsInv
<1> DEFINE s == Now
           N == {}
<1>1. PipelineInv
  BY InitPipeline
<1>2. /\ s \in Sound /\ s.conn = {} /\ s.choked = Peers
      /\ \A p \in Peers : s.rq[p] = <<>> /\ s.dq[p] = <<>>
      /\ \A b \in Blocks : s.blk[b].peers = 0 /\ State(s, b) = "none"
  BY <1>1 DEF PipelineInv, Init, Now, Idle, State
<1> HIDE DEF s
<1>3. \A p \in Peers : IsInjective(QueueOf(s, p)) /\ Asked(s, p) = {}
  BY <1>2, EmptyQueues
<1>4. s \in Fair
  <2>1. Meant(s)
    BY <1>2 DEF Meant
  <2>2. Distinct(s) /\ Away(s)
    BY <1>2, <1>3 DEF Distinct, Away
  <2> QED BY <1>2, <2>1, <2>2 DEF Fair
<1>5. Ledger(s, Accounts(s, N))
  <2> SUFFICES ASSUME NEW b \in Blocks
               PROVE  s.blk[b].peers = Cardinality(Claims(Accounts(s, N), b))
    BY DEF Ledger
  <2>1. \A w \in Writers : Accounts(s, N)[w] = {}
    BY <1>3 DEF Accounts, Writers
  <2>2. Claims(Accounts(s, N), b) = {}
    BY <2>1 DEF Claims
  <2> QED BY <1>2, <2>2, FS_EmptySet
<1>6. s \in Balanced
  BY <1>4, <1>5 DEF Balanced, Without, N
<1> QED BY <1>1, <1>6 DEF RequestsInv, s

\* Every step keeps the ledger.
LEMMA RequestsStep == ASSUME RequestsInv, [Next]_vars PROVE RequestsInv'
<1>1. PipelineInv'
  BY PipelineStep DEF RequestsInv
<1>2. CASE PeersAct
  <2>1. ASSUME NEW p \in Peers,
               Connect(p) \/ Disconnect(p) \/ Unchoke(p) \/ Choke(p)
               \/ UnwantedPiece(p) \/ SnubPeer(p) \/ SecondTick(p)
        PROVE  Now' \in Balanced
    BY <2>1, ConnectKeeps, DisconnectKeeps, UnchokeKeeps, ChokeKeeps, UnwantedPieceKeeps,
       SnubPeerKeeps, SecondTickKeeps
  <2>2. ASSUME NEW p \in Peers, NEW n \in DOMAIN dq[p], RejectRequest(p, n) \/ Piece(p, n)
        PROVE  Now' \in Balanced
    BY <2>2, RejectRequestKeeps, PieceKeeps
  <2> QED BY <1>1, <1>2, <2>1, <2>2 DEF PeersAct, RequestsInv
<1>3. CASE DiskAnswers
  <2>1. ASSUME NEW b \in Blocks, NEW n \in DOMAIN writes[b], WriteComplete(b, n)
        PROVE  Now' \in Balanced
    BY <2>1, WriteCompleteKeeps
  <2>2. ASSUME NEW i \in Pieces, PiecePassed(i) \/ PieceFailed(i) \/ PieceWithheld(i)
        PROVE  Now' \in Balanced
    BY <2>2, PiecePassedKeeps, PieceFailedKeeps, PieceWithheldKeeps
  <2> QED BY <1>1, <1>3, <2>1, <2>2 DEF DiskAnswers, RequestsInv
<1>4. CASE DiskFails
  <2>1. ASSUME NEW b \in Blocks, NEW n \in DOMAIN writes[b], WriteError(b, n)
        PROVE  Now' \in Balanced
    BY <2>1, WriteErrorKeeps
  <2>2. ASSUME NEW i \in Pieces, HashError(i) PROVE Now' \in Balanced
    BY <2>2, HashErrorKeeps
  <2> QED BY <1>1, <1>4, <2>1, <2>2 DEF DiskFails, RequestsInv
<1>5. CASE Pause \/ Resume
  BY <1>1, <1>5, PauseKeeps, ResumeKeeps DEF RequestsInv
<1>6. CASE UNCHANGED vars
  <2>1. Now' = Now
    BY <1>6 DEF vars, Now
  <2> QED BY <1>1, <2>1, NowBalanced DEF RequestsInv
<1> QED BY <1>2, <1>3, <1>4, <1>5, <1>6 DEF Next

\* What the ledger says of the properties.
LEMMA RequestsInvImplies ==
  ASSUME RequestsInv
  PROVE  RequestsExact /\ QueuesDistinct
<1> DEFINE N == {}
           A == Accounts(Now, N)
<1>1. PipelineInv /\ Now \in Fair /\ Now \in Balanced /\ Away(Now)
  BY NowBalanced
<1>2. QueuesDistinct
  BY <1>1 DEF Fair, Distinct, QueuesDistinct
<1>3. Ledger(Now, A) /\ Meant(Now)
  BY <1>1 DEF Balanced, Without, Fair
<1>4. ASSUME NEW b \in Blocks
      PROVE  Claims(A, b) = {p \in conn : b \in ToSet(QueueOf(Now, p))}
  <2>1. \A w \in Writers : A[w] = IF w = Nobody THEN {} ELSE Asked(Now, w)
    BY DEF Accounts
  <2>2. conn \subseteq Peers /\ Now.conn = conn
    BY <1>1, NowFields DEF Shapes
  <2>3. \A p \in Peers : p \in Writers /\ p # Nobody
    BY PipelineAssumption DEF Writers
  <2>4. ASSUME NEW w \in Writers, w # Nobody, w \notin conn PROVE Asked(Now, w) = {}
    <3>1. w \in Peers
      BY <2>4 DEF Writers
    <3>2. Now.rq[w] = <<>> /\ Now.dq[w] = <<>>
      BY <1>1, <2>2, <2>4, <3>1 DEF Away
    <3> QED BY <3>2, EmptyQueues
  <2>5. \A p : Asked(Now, p) = ToSet(QueueOf(Now, p))
    BY DEF Asked
  <2> HIDE DEF A
  <2>6. \A w : w \in Claims(A, b) <=> w \in Writers /\ b \in A[w]
    BY DEF Claims
  <2>7. \A w : w \in Claims(A, b) <=> w \in conn /\ b \in ToSet(QueueOf(Now, w))
    <3> SUFFICES ASSUME NEW w
                 PROVE  w \in Claims(A, b) <=> w \in conn /\ b \in ToSet(QueueOf(Now, w))
      OBVIOUS
    <3>1. CASE w \in conn
      BY <2>1, <2>2, <2>3, <2>5, <2>6, <3>1
    <3>2. CASE w \notin conn
      BY <2>1, <2>4, <2>6, <3>2
    <3> QED BY <3>1, <3>2
  <2> QED BY <2>7
<1> HIDE DEF A
<1>5. RequestsExact
  <2> SUFFICES ASSUME NEW b \in Blocks, ~IsDownloaded(Now, b)
               PROVE  /\ blk[b].peers = RequestsOf(b)
                      /\ (blk[b].peers > 0) = (State(Now, b) = "requested")
    BY DEF RequestsExact
  <2>1. blk[b].peers = Cardinality(Claims(A, b))
    BY <1>1, <1>3, NowFields DEF Ledger
  <2>2. RequestsOf(b) = Cardinality({p \in conn : b \in ToSet(QueueOf(Now, p))})
    BY DEF RequestsOf
  <2>3. blk[b].peers = RequestsOf(b)
    BY <1>4, <2>1, <2>2
  <2>4. (blk[b].peers > 0) <=> (State(Now, b) = "requested")
    BY <1>1, <1>3, NowFields DEF Meant
  <2> QED BY <2>3, <2>4
<1> QED BY <1>2, <1>5

\* The ledger holds.
LEMMA RequestsAlways == Spec => []RequestsInv
<1>1. Init => RequestsInv
  BY InitRequests
<1>2. RequestsInv /\ [Next]_vars => RequestsInv'
  BY RequestsStep
<1> QED BY <1>1, <1>2, PTL DEF Spec

\* num_peers of every block that has not come is the number of connections that
\* have it in a queue, and a block is requested exactly when it is not 0, after
\* whatever chokes, rejects, skips, snubs, disconnects and failed hashes.
THEOREM RequestsAlwaysExact == Spec => []RequestsExact
<1>1. RequestsInv => RequestsExact
  BY RequestsInvImplies
<1> QED BY <1>1, RequestsAlways, PTL

\* No block is twice in the queues of one peer, as add_request asserts.
THEOREM QueuesAlwaysDistinct == Spec => []QueuesDistinct
<1>1. RequestsInv => QueuesDistinct
  BY RequestsInvImplies
<1> QED BY <1>1, RequestsAlways, PTL
=============================================================================

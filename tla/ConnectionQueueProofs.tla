------------------------ MODULE ConnectionQueueProofs ------------------------
(***************************************************************************)
(* Proofs about ConnectionQueue, for any set of clients and any timeouts   *)
(* and limits: type correctness, the slot count of check_invariant, the    *)
(* half-open limit, the tracking of the attempts in progress, and that     *)
(* while entries wait something connects and the timer watches it.         *)
(***************************************************************************)
EXTENDS ConnectionQueue, FiniteSetTheorems, SequenceTheorems,
        WellFoundedInduction, TLAPS

-----------------------------------------------------------------------------
(***************************************************************************)
(* Sequences without repetition, and the minimum of a set of numbers.      *)
(***************************************************************************)

Injective(s) == \A i, j \in 1..Len(s) : s[i] = s[j] => i = j

\* A sequence without repetition has as many elements as it is long.
LEMMA ToSetCardinality ==
  ASSUME NEW S, NEW s \in Seq(S), Injective(s)
  PROVE  IsFiniteSet(ToSet(s)) /\ Cardinality(ToSet(s)) = Len(s)
<1>1. Len(s) \in Nat /\ DOMAIN s = 1..Len(s)
  BY LenProperties
<1>2. s \in Bijection(1..Len(s), ToSet(s))
  BY <1>1 DEF Bijection, Injection, Surjection, IsInjective, Injective, ToSet
<1>3. IsFiniteSet(1..Len(s)) /\ Cardinality(1..Len(s)) = Len(s)
  BY <1>1, FS_Interval
<1> QED
  BY <1>2, <1>3, FS_Bijection DEF ExistsBijection

\* Disjoint finite sets: the size of a union is the sum of the sizes.
LEMMA UnionCardinality ==
  ASSUME NEW S, NEW T, IsFiniteSet(S), IsFiniteSet(T), S \cap T = {}
  PROVE  /\ IsFiniteSet(S \cup T)
         /\ Cardinality(S \cup T) = Cardinality(S) + Cardinality(T)
<1>1. S \cap T = {} /\ Cardinality(S) \in Nat /\ Cardinality(T) \in Nat
  BY FS_CardinalityType
<1>2. Cardinality(S \cap T) = 0
  BY <1>1, FS_EmptySet
<1>3. /\ IsFiniteSet(S \cup T)
      /\ Cardinality(S \cup T) = Cardinality(S) + Cardinality(T) - Cardinality(S \cap T)
  BY FS_Union, Zenon
<1> QED
  BY <1>1, <1>2, <1>3

\* What SubSeq takes out of a sequence.
LEMMA SubSeqFacts ==
  ASSUME NEW S, NEW s \in Seq(S), NEW m \in Int, NEW k \in Int,
         1 <= m, m <= k + 1, k <= Len(s)
  PROVE  /\ SubSeq(s, m, k) \in Seq(S)
         /\ Len(SubSeq(s, m, k)) = k - m + 1
         /\ DOMAIN SubSeq(s, m, k) = 1..(k - m + 1)
         /\ \A i \in 1..(k - m + 1) : SubSeq(s, m, k)[i] = s[m + i - 1]
<1>1. Len(s) \in Nat /\ \A i \in m..k : s[i] \in S
  BY LenProperties, ElementOfSeq
<1>2. /\ SubSeq(s, m, k) \in Seq(S)
      /\ Len(SubSeq(s, m, k)) = IF m <= k THEN k - m + 1 ELSE 0
      /\ \A i \in 1..(k - m + 1) : SubSeq(s, m, k)[i] = s[m + i - 1]
  BY <1>1, SubSeqProperties
<1>3. (IF m <= k THEN k - m + 1 ELSE 0) = k - m + 1
  OBVIOUS
<1>4. Len(SubSeq(s, m, k)) = k - m + 1
  BY <1>2, <1>3, Zenon
<1> QED
  BY <1>2, <1>4, LenProperties, Zenon

\* Splitting a sequence without repetition into a front and a rest.
LEMMA SplitSeq ==
  ASSUME NEW S, NEW s \in Seq(S), Injective(s), NEW n \in 0..Len(s)
  PROVE  LET front == SubSeq(s, 1, n)
             rest  == SubSeq(s, n + 1, Len(s))
         IN  /\ front \in Seq(S) /\ Injective(front) /\ Len(front) = n
             /\ rest \in Seq(S) /\ Injective(rest)
             /\ ToSet(front) \cap ToSet(rest) = {}
             /\ ToSet(front) \cup ToSet(rest) = ToSet(s)
<1> DEFINE m     == n + 1
           front == SubSeq(s, 1, n)
           rest  == SubSeq(s, m, Len(s))
<1>1. Len(s) \in Nat /\ DOMAIN s = 1..Len(s) /\ m \in Int
  BY LenProperties
<1>2. /\ front \in Seq(S) /\ Len(front) = n /\ DOMAIN front = 1..n
      /\ \A i \in 1..n : front[i] = s[i]
  <2>1. /\ front \in Seq(S) /\ Len(front) = n - 1 + 1 /\ DOMAIN front = 1..(n - 1 + 1)
        /\ \A i \in 1..(n - 1 + 1) : front[i] = s[1 + i - 1]
    BY <1>1, SubSeqFacts
  <2> HIDE DEF front
  <2>2. n - 1 + 1 = n /\ \A i \in 1..n : 1 + i - 1 = i
    BY <1>1
  <2> QED BY <2>1, <2>2
<1>3. /\ rest \in Seq(S) /\ DOMAIN rest = 1..(Len(s) - n) /\ Len(rest) = Len(s) - n
      /\ \A i \in 1..(Len(s) - n) : rest[i] = s[n + i]
  <2>1. 1 <= m /\ m <= Len(s) + 1 /\ Len(s) <= Len(s)
    BY <1>1
  <2> HIDE DEF m
  <2>2. /\ rest \in Seq(S)
        /\ DOMAIN rest = 1..(Len(s) - m + 1) /\ Len(rest) = Len(s) - m + 1
        /\ \A i \in 1..(Len(s) - m + 1) : rest[i] = s[m + i - 1]
    BY <1>1, <2>1, SubSeqFacts
  <2>3. Len(s) - m + 1 = Len(s) - n /\ \A i \in 1..(Len(s) - n) : m + i - 1 = n + i
    BY <1>1 DEF m
  <2> HIDE DEF rest
  <2> QED BY <2>2, <2>3
<1> HIDE DEF front, rest
<1>4. Injective(front) /\ Injective(rest)
  <2>1. Injective(front)
    BY <1>1, <1>2 DEF Injective
  <2>2. ASSUME NEW i \in 1..Len(rest), NEW j \in 1..Len(rest), rest[i] = rest[j]
        PROVE  i = j
    <3>1. n + i \in 1..Len(s) /\ n + j \in 1..Len(s) /\ s[n + i] = s[n + j]
      BY <1>1, <1>3, <2>2
    <3>2. n + i = n + j
      BY <3>1 DEF Injective
    <3> QED BY <3>2, <1>1, <1>3
  <2> QED BY <2>1, <2>2 DEF Injective
<1>5. ToSet(front) \cap ToSet(rest) = {}
  BY <1>1, <1>2, <1>3 DEF Injective, ToSet
<1>6. ToSet(s) \subseteq ToSet(front) \cup ToSet(rest)
  <2> SUFFICES ASSUME NEW i \in 1..Len(s)
               PROVE  s[i] \in ToSet(front) \cup ToSet(rest)
    BY <1>1 DEF ToSet
  <2>1. CASE i <= n
    BY <2>1, <1>1, <1>2 DEF ToSet
  <2>2. CASE i > n
    <3>1. i - n \in 1..(Len(s) - n) /\ n + (i - n) = i
      BY <2>2, <1>1
    <3> QED BY <3>1, <1>3 DEF ToSet
  <2> QED BY <2>1, <2>2, <1>1
<1>7. ToSet(front) \subseteq ToSet(s)
  BY <1>1, <1>2 DEF ToSet
<1>8. ToSet(rest) \subseteq ToSet(s)
  <2>1. \A i \in 1..(Len(s) - n) : n + i \in 1..Len(s)
    BY <1>1
  <2> QED BY <2>1, <1>1, <1>3 DEF ToSet
<1> QED
  BY <1>2, <1>3, <1>4, <1>5, <1>6, <1>7, <1>8 DEF front, rest, m

\* A concatenation has no other elements than its parts.
LEMMA ConcatToSet ==
  ASSUME NEW S, NEW s \in Seq(S), NEW t \in Seq(S)
  PROVE  s \o t \in Seq(S) /\ ToSet(s \o t) \subseteq ToSet(s) \cup ToSet(t)
<1> DEFINE u == s \o t
<1>1. /\ Len(s) \in Nat /\ DOMAIN s = 1..Len(s)
      /\ Len(t) \in Nat /\ DOMAIN t = 1..Len(t)
  BY LenProperties
<1>2. /\ u \in Seq(S) /\ Len(u) = Len(s) + Len(t)
      /\ \A i \in 1..(Len(s) + Len(t)) :
           u[i] = IF i <= Len(s) THEN s[i] ELSE t[i - Len(s)]
  BY ConcatProperties
<1> HIDE DEF u
<1>3. DOMAIN u = 1..(Len(s) + Len(t))
  BY <1>2, LenProperties
<1>4. ASSUME NEW i \in 1..(Len(s) + Len(t))
      PROVE  u[i] \in ToSet(s) \cup ToSet(t)
  <2>1. CASE i <= Len(s)
    BY <2>1, <1>1, <1>2 DEF ToSet
  <2>2. CASE i > Len(s)
    <3>1. i - Len(s) \in 1..Len(t) /\ u[i] = t[i - Len(s)]
      BY <2>2, <1>1, <1>2
    <3> QED BY <3>1, <1>1 DEF ToSet
  <2> QED BY <2>1, <2>2, <1>1
<1>5. ToSet(u) \subseteq ToSet(s) \cup ToSet(t)
  BY <1>3, <1>4 DEF ToSet
<1> QED
  BY <1>2, <1>5 DEF u

\* Every non-empty set of natural numbers has a least element.
LEMMA LeastNat ==
  ASSUME NEW T \in SUBSET Nat, T # {}
  PROVE  \E t \in T : \A u \in T : t <= u
<1> DEFINE R == OpToRel(<, Nat)
<1>1. R = {p \in Nat \X Nat : p[1] < p[2]}
  BY DEF OpToRel
<1>2. IsWellFoundedOn(R, Nat)
  BY NatLessThanWellFounded
<1> HIDE DEF R
<1>3. PICK t \in T : \A u \in T : ~(<<u, t>> \in R)
  BY <1>2, WFMin, Zenon
<1>4. ASSUME NEW u \in T
      PROVE  t <= u
  <2>1. <<u, t>> \in Nat \X Nat /\ <<u, t>> \notin R
    BY <1>3
  <2> QED BY <2>1, <1>1
<1> QED
  BY <1>4

-----------------------------------------------------------------------------
(***************************************************************************)
(* The inductive invariant.  The slot count is exact only because an entry *)
(* is queued once and is either waiting or started, which in turn rests on *)
(* a client being reused only when nothing refers to it any more.          *)
(***************************************************************************)

QueueOK(w, conn, num) ==
  /\ w \in Seq(Clients) /\ Injective(w)
  /\ conn \subseteq Clients /\ IsFiniteSet(conn)
  /\ ToSet(w) \cap conn = {}
  /\ num = Cardinality(conn)

Tracking ==
  /\ \A c \in ToSet(waiting) : client[c] \in {"queued", "closed"}
  /\ \A c \in connecting : client[c] \in {"queued", "connecting", "closed"}
  /\ \A c \in ToSet(toConnect) : client[c] = "queued" => c \in connecting
  /\ handler # "callbacks" => timedOut = {}
  /\ ~closing => closed = {}
  /\ \A c, d \in closed : c = d

IInv ==
  /\ TypeOK
  /\ QueueOK(waiting, connecting, numConnecting)
  /\ Tracking
  /\ LiveAttemptIsTracked
  /\ TimedOutStillConnecting

\* The count of a consistent queue is a natural number.
LEMMA QueueOKCount ==
  ASSUME NEW w, NEW conn, NEW num, QueueOK(w, conn, num)
  PROVE  num \in Nat
BY FS_CardinalityType DEF QueueOK

\* try_connect keeps the queue in order, moves entries but loses none, and
\* counts up only within the limit.
LEMMA TryConnectOK ==
  ASSUME NEW w, NEW conn, NEW num, QueueOK(w, conn, num),
         NEW tl \in [Clients -> Nat \cup {-1}],
         NEW tm \in Nat \cup {Off}, NEW outer \in Seq(Clients), limit \in Nat,
         TryConnect(w, conn, num, tl, tm, outer)
  PROVE  /\ QueueOK(waiting', connecting', numConnecting')
         /\ Queued' = ToSet(w) \cup conn
         /\ conn \subseteq connecting'
         /\ ToSet(waiting') \subseteq ToSet(w)
         /\ ToSet(toConnect') \subseteq connecting' \cup ToSet(outer)
         /\ timer' \in Nat \cup {Off}
         /\ toConnect' \in Seq(Clients)
         /\ numConnecting' # num => limit = 0 \/ numConnecting' <= limit
<1> DEFINE n     == BatchSize(w, num)
           batch == SubSeq(w, 1, n)
           rest  == SubSeq(w, n + 1, Len(w))
<1>1. num \in Nat /\ num = Cardinality(conn)
  BY QueueOKCount DEF QueueOK
<1>2. w \in Seq(Clients) /\ Injective(w) /\ Len(w) \in Nat
  BY LenProperties DEF QueueOK
<1>3. CASE \E t \in Nat \cup {Off} : StartNothing(w, conn, num, t, outer)
  BY <1>3 DEF StartNothing, QueueOK, Queued
<1>4. CASE /\ ~AtLimit(num) /\ w # <<>>
           /\ StartBatch(w, conn, num, tl, tm, outer)
  <2>1. n \in 1..Len(w) /\ (limit = 0 \/ num + n <= limit)
    BY <1>1, <1>2, <1>4, EmptySeq DEF AtLimit, BatchSize
  <2>2. /\ waiting' = rest /\ connecting' = conn \cup ToSet(batch)
        /\ numConnecting' = num + n /\ toConnect' = batch \o outer
        /\ timer' = TimerAfterStart(num, tm, tl, batch)
    BY <1>4 DEF StartBatch
  <2> HIDE DEF n
  <2>3. /\ batch \in Seq(Clients) /\ Injective(batch) /\ Len(batch) = n
        /\ rest \in Seq(Clients) /\ Injective(rest)
        /\ ToSet(batch) \cap ToSet(rest) = {}
        /\ ToSet(batch) \cup ToSet(rest) = ToSet(w)
    BY <1>2, <2>1, SplitSeq
  <2> HIDE DEF batch, rest
  <2>4. /\ IsFiniteSet(ToSet(batch)) /\ Cardinality(ToSet(batch)) = n
        /\ ToSet(batch) \subseteq Clients
    <3>1. IsFiniteSet(ToSet(batch)) /\ Cardinality(ToSet(batch)) = n
      BY <2>3, ToSetCardinality
    <3>2. ToSet(batch) \subseteq Clients
      BY <2>3, LenProperties DEF ToSet
    <3> QED BY <3>1, <3>2
  <2>5. /\ IsFiniteSet(conn \cup ToSet(batch))
        /\ Cardinality(conn \cup ToSet(batch)) = num + n
    <3>1. IsFiniteSet(conn) /\ conn \cap ToSet(batch) = {}
      BY <2>3 DEF QueueOK
    <3>2. /\ IsFiniteSet(conn \cup ToSet(batch))
          /\ Cardinality(conn \cup ToSet(batch)) = Cardinality(conn) + Cardinality(ToSet(batch))
      BY <2>4, <3>1, UnionCardinality, Zenon
    <3> QED BY <1>1, <2>4, <3>2
  <2>6. QueueOK(waiting', connecting', numConnecting')
    BY <2>2, <2>3, <2>4, <2>5 DEF QueueOK
  <2>7. toConnect' \in Seq(Clients) /\ ToSet(toConnect') \subseteq ToSet(batch) \cup ToSet(outer)
    BY <2>2, <2>3, ConcatToSet
  <2>8. timer' \in Nat \cup {Off}
    <3>1. batch # <<>>
      BY <2>1, <2>3, EmptySeq
    <3>2. Head(batch) \in Clients
      BY <2>3, <3>1, HeadTailProperties
    <3>3. tl[Head(batch)] \in Nat \cup {Off}
      BY <3>2 DEF Off
    <3> QED BY <2>2, <3>3 DEF TimerAfterStart
  <2>9. Queued' = ToSet(w) \cup conn
    BY <2>2, <2>3 DEF Queued
  <2> QED BY <2>1, <2>2, <2>3, <2>6, <2>7, <2>8, <2>9
<1> QED
  <2>1. tm \in Nat \cup {Off} /\ Off \in Nat \cup {Off}
    OBVIOUS
  <2> QED BY <1>3, <1>4, <2>1 DEF TryConnect

\* done() frees a slot and try_connect may fill it: the queue loses at most
\* the entry of the caller.
LEMMA DoneOK ==
  ASSUME QueueOK(waiting, connecting, numConnecting), limit \in Nat,
         left \in [Clients -> Nat \cup {-1}], timer \in Nat \cup {Off},
         NEW c, NEW outer \in Seq(Clients), Done(c, outer)
  PROVE  /\ QueueOK(waiting', connecting', numConnecting')
         /\ Queued' = Queued \ ({c} \cap connecting)
         /\ connecting \ {c} \subseteq connecting'
         /\ ToSet(waiting') \subseteq ToSet(waiting)
         /\ ToSet(toConnect') \subseteq connecting' \cup ToSet(outer)
         /\ timer' \in Nat \cup {Off}
         /\ toConnect' \in Seq(Clients)
         /\ numConnecting' > numConnecting => limit = 0 \/ numConnecting' <= limit
<1>1. CASE c \in connecting
  <2> DEFINE conn == connecting \ {c}
  <2>1. QueueOK(waiting, conn, numConnecting - 1)
    <3>1. IsFiniteSet(conn) /\ Cardinality(conn) = numConnecting - 1
      BY <1>1, FS_RemoveElement DEF QueueOK
    <3> QED BY <3>1 DEF QueueOK
  <2>2. TryConnect(waiting, conn, numConnecting - 1, left, timer, outer)
    BY <1>1 DEF Done
  <2> HIDE DEF conn
  <2>3. /\ QueueOK(waiting', connecting', numConnecting')
        /\ Queued' = ToSet(waiting) \cup conn
        /\ conn \subseteq connecting'
        /\ ToSet(waiting') \subseteq ToSet(waiting)
        /\ ToSet(toConnect') \subseteq connecting' \cup ToSet(outer)
        /\ timer' \in Nat \cup {Off}
        /\ toConnect' \in Seq(Clients)
        /\ numConnecting' # numConnecting - 1 => limit = 0 \/ numConnecting' <= limit
    BY <2>1, <2>2, TryConnectOK
  <2>4. ToSet(waiting) \cup conn = Queued \ ({c} \cap connecting)
    BY <1>1 DEF conn, Queued, QueueOK
  <2>5. numConnecting \in Nat
    BY QueueOKCount
  <2>6. numConnecting' \in Nat
    BY <2>3, QueueOKCount, Zenon
  <2>7. numConnecting' > numConnecting => numConnecting' # numConnecting - 1
    BY <2>5, <2>6
  <2> QED BY <2>3, <2>4, <2>7 DEF conn
<1>2. CASE c \notin connecting
  <2>1. UNCHANGED <<waiting, connecting, numConnecting, timer>> /\ toConnect' = outer
    BY <1>2 DEF Done, StartNothing
  <2>2. numConnecting \in Nat
    BY QueueOKCount
  <2> QED BY <1>2, <2>1, <2>2 DEF Queued, QueueOK
<1> QED BY <1>1, <1>2

\* The two ways enqueue() adds an entry, to the back and to the front.
LEMMA AddEntry ==
  ASSUME QueueOK(waiting, connecting, numConnecting), NEW c \in Clients,
         c \notin Queued,
         NEW w \in {Append(waiting, c), <<c>> \o waiting}
  PROVE  QueueOK(w, connecting, numConnecting) /\ ToSet(w) = ToSet(waiting) \cup {c}
<1> DEFINE k == Len(waiting)
<1>1. /\ k \in Nat /\ DOMAIN waiting = 1..k /\ waiting \in Seq(Clients)
      /\ Injective(waiting) /\ \A i \in 1..k : waiting[i] # c
  BY LenProperties DEF QueueOK, Queued, ToSet
<1>2. CASE w = Append(waiting, c)
  <2>1. /\ w \in Seq(Clients) /\ DOMAIN w = 1..(k + 1) /\ Len(w) = k + 1
        /\ \A i \in 1..k : w[i] = waiting[i]
        /\ w[k + 1] = c
    BY <1>1, <1>2, AppendProperties, LenProperties
  <2> HIDE DEF k
  <2>2. Injective(w)
    BY <1>1, <2>1 DEF Injective, k
  <2>3. ToSet(w) = ToSet(waiting) \cup {c}
    BY <1>1, <2>1 DEF ToSet
  <2> QED BY <2>1, <2>2, <2>3 DEF QueueOK, Queued
<1>3. CASE w = <<c>> \o waiting
  <2>1. /\ w \in Seq(Clients) /\ DOMAIN w = 1..(k + 1) /\ Len(w) = k + 1
        /\ \A i \in 1..(k + 1) : w[i] = IF i = 1 THEN c ELSE waiting[i - 1]
    <3>1. <<c>> \in Seq(Clients) /\ Len(<<c>>) = 1 /\ <<c>>[1] = c
      OBVIOUS
    <3>2. /\ w \in Seq(Clients) /\ Len(w) = 1 + k
          /\ \A i \in 1..(1 + k) : w[i] = IF i <= 1 THEN <<c>>[i] ELSE waiting[i - 1]
      BY <1>1, <1>3, <3>1, ConcatProperties
    <3> HIDE DEF k
    <3>3. Len(w) = k + 1 /\ DOMAIN w = 1..(k + 1)
      BY <1>1, <3>2, LenProperties
    <3>4. \A i \in 1..(k + 1) : w[i] = IF i = 1 THEN c ELSE waiting[i - 1]
      BY <1>1, <3>1, <3>2
    <3> QED BY <3>2, <3>3, <3>4
  <2> HIDE DEF k
  <2>2. Injective(w)
    BY <1>1, <2>1 DEF Injective, k
  <2>3. ToSet(w) = ToSet(waiting) \cup {c}
    <3>1. ASSUME NEW i \in 1..k PROVE w[i + 1] = waiting[i] /\ i + 1 \in 1..(k + 1)
      BY <1>1, <2>1
    <3>2. w[1] = c /\ 1 \in 1..(k + 1)
      BY <1>1, <2>1
    <3>3. ASSUME NEW i \in 1..(k + 1), i # 1
          PROVE  i - 1 \in 1..k /\ w[i] = waiting[i - 1]
      BY <1>1, <2>1, <3>3
    <3>4. ToSet(waiting) \cup {c} \subseteq ToSet(w)
      <4>1. ASSUME NEW j \in 1..(k + 1) PROVE w[j] \in ToSet(w)
        BY <2>1 DEF ToSet
      <4>2. ASSUME NEW i \in 1..k PROVE waiting[i] \in ToSet(w)
        BY <3>1, <4>1
      <4> QED BY <1>1, <3>2, <4>1, <4>2 DEF ToSet
    <3>5. ToSet(w) \subseteq ToSet(waiting) \cup {c}
      BY <1>1, <2>1, <3>2, <3>3, ZenonT(30) DEF ToSet
    <3> QED BY <3>4, <3>5
  <2> QED BY <2>1, <2>2, <2>3 DEF QueueOK, Queued
<1> QED BY <1>2, <1>3

\* The next expiry on_timeout finds is a time, or none.
LEMMA EarliestType ==
  ASSUME NEW S, S \subseteq Clients, left \in [Clients -> Nat \cup {-1}],
         \A c \in S : left[c] >= 0
  PROVE  Earliest(S) \in Nat \cup {Off} /\ (S # {} => Earliest(S) # Off)
<1>1. CASE S = {}
  BY <1>1 DEF Earliest
<1>2. CASE S # {}
  <2> DEFINE T == {left[c] : c \in S}
  <2>1. T \in SUBSET Nat /\ T # {}
    BY <1>2
  <2>2. \E t \in T : \A u \in T : t <= u
    <3> HIDE DEF T
    <3> QED BY <2>1, LeastNat
  <2>3. \E t \in T : \A c \in S : t <= left[c]
    BY <2>2
  <2>4. Earliest(S) = CHOOSE t \in T : \A c \in S : t <= left[c]
    BY <1>2 DEF Earliest
  <2> HIDE DEF T
  <2>5. Earliest(S) \in T
    BY <2>3, <2>4
  <2>6. \A t \in Nat : t # Off
    BY DEF Off
  <2> QED BY <2>1, <2>5, <2>6
<1> QED BY <1>1, <1>2

-----------------------------------------------------------------------------
(***************************************************************************)
(* The invariant holds initially and every action preserves it.            *)
(***************************************************************************)

\* The empty queue satisfies the invariant.
LEMMA InitIInv == Init => IInv
<1> SUFFICES ASSUME Init PROVE IInv
  OBVIOUS
<1>1. IsFiniteSet({}) /\ Cardinality({}) = 0
  BY FS_EmptySet
<1>2. <<>> \in Seq(Clients) /\ Len(<<>>) = 0 /\ ToSet(<<>>) = {}
  BY DEF ToSet
<1>3. TypeOK
  <2>1. waiting \in Seq(Clients) /\ toConnect \in Seq(Clients)
    BY <1>2 DEF Init
  <2>2. left \in [Clients -> Nat \cup {-1}] /\ client \in [Clients -> ClientStates]
    BY DEF Init, ClientStates
  <2>3. posted \in 0..MaxPosted
    BY ConstantsAssumption DEF Init
  <2> QED
    BY <2>1, <2>2, <2>3 DEF Init, TypeOK
<1>4. QueueOK(waiting, connecting, numConnecting)
  BY <1>1, <1>2 DEF Init, QueueOK, Injective
<1> QED
  BY <1>2, <1>3, <1>4
  DEF Init, IInv, Tracking, LiveAttemptIsTracked, TimedOutStillConnecting

\* An object queues an attempt, in front or at the back.
LEMMA EnqueueIInv ==
  ASSUME IInv, NEW c \in Clients, NEW t \in Timeouts, Enqueue(c, t)
  PROVE  IInv'
<1> USE DEF IInv
<1> DEFINE w == IF c \in HighPriority THEN <<c>> \o waiting ELSE Append(waiting, c)
<1>1. limit \in Nat /\ t \in Nat
  BY ConstantsAssumption DEF TypeOK
<1>2. client[c] = "idle" /\ client' = [client EXCEPT ![c] = "queued"]
      /\ left' = [left EXCEPT ![c] = t] /\ toConnect = <<>> /\ ~closing
      /\ UNCHANGED <<limit, aborted, posted, handlerVars, closeVars>>
  BY DEF Enqueue, MutexFree
<1>3. c \notin Queued /\ c \notin timedOut \cup closed
  BY <1>2 DEF Tracking, Queued, TimedOutStillConnecting
<1>4. QueueOK(w, connecting, numConnecting) /\ ToSet(w) = ToSet(waiting) \cup {c}
  <2>1. w \in {Append(waiting, c), <<c>> \o waiting}
    OBVIOUS
  <2> HIDE DEF w
  <2> QED BY <2>1, <1>3, AddEntry
<1>5. left' \in [Clients -> Nat \cup {-1}] /\ <<>> \in Seq(Clients) /\ ToSet(<<>>) = {}
  BY <1>1, <1>2 DEF TypeOK, ToSet
<1>6. TryConnect(w, connecting, numConnecting, left', timer, <<>>)
  BY DEF Enqueue
<1> HIDE DEF w
<1>7. /\ QueueOK(waiting', connecting', numConnecting')
      /\ Queued' = ToSet(w) \cup connecting
      /\ connecting \subseteq connecting'
      /\ ToSet(waiting') \subseteq ToSet(w)
      /\ ToSet(toConnect') \subseteq connecting' \cup ToSet(<<>>)
      /\ timer' \in Nat \cup {Off}
      /\ toConnect' \in Seq(Clients)
  BY <1>1, <1>4, <1>5, <1>6, TryConnectOK DEF TypeOK
<1>8. TypeOK'
  <2>1. numConnecting' \in Nat
    BY <1>7, QueueOKCount, Zenon
  <2> QED
    BY <2>1, <1>2, <1>5, <1>7
    DEF TypeOK, QueueOK, handlerVars, closeVars, ClientStates
<1>9. Tracking'
  BY <1>2, <1>3, <1>4, <1>5, <1>7
  DEF Tracking, TypeOK, QueueOK, Queued, handlerVars, closeVars
<1>10. LiveAttemptIsTracked' /\ TimedOutStillConnecting'
  BY <1>2, <1>3, <1>7
  DEF TypeOK, LiveAttemptIsTracked, TimedOutStillConnecting, handlerVars, closeVars
<1> QED
  BY <1>7, <1>8, <1>9, <1>10

\* An object is disconnected, in whatever state; done() may start others.
LEMMA DisconnectIInv ==
  ASSUME IInv, NEW c \in Clients, Disconnect(c)
  PROVE  IInv'
<1> USE DEF IInv
<1>1. /\ client[c] \in {"queued", "connecting", "connected"} /\ ~closing
      /\ client' = [client EXCEPT ![c] = "closed"]
      /\ UNCHANGED <<left, limit, aborted, posted, handlerVars, closeVars>>
  BY DEF Disconnect
<1>2. limit \in Nat /\ <<>> \in Seq(Clients) /\ ToSet(<<>>) = {}
  BY ConstantsAssumption DEF TypeOK, ToSet
<1>3. /\ QueueOK(waiting', connecting', numConnecting')
      /\ Queued \ {c} \subseteq Queued' /\ Queued' \subseteq Queued
      /\ connecting \ {c} \subseteq connecting'
      /\ ToSet(waiting') \subseteq ToSet(waiting)
      /\ ToSet(toConnect') \subseteq connecting' \cup ToSet(toConnect)
      /\ timer' \in Nat \cup {Off}
      /\ toConnect' \in Seq(Clients)
  <2>1. CASE client[c] = "connecting"
    <3>1. toConnect = <<>> /\ Done(c, <<>>)
      BY <2>1 DEF Disconnect, MutexFree
    <3>2. /\ QueueOK(waiting', connecting', numConnecting')
          /\ Queued' = Queued \ ({c} \cap connecting)
          /\ connecting \ {c} \subseteq connecting'
          /\ ToSet(waiting') \subseteq ToSet(waiting)
          /\ ToSet(toConnect') \subseteq connecting' \cup ToSet(<<>>)
          /\ timer' \in Nat \cup {Off}
          /\ toConnect' \in Seq(Clients)
      BY <1>2, <3>1, DoneOK DEF TypeOK
    <3> QED BY <1>2, <3>2
  <2>2. CASE client[c] # "connecting"
    <3>1. UNCHANGED queueVars
      BY <2>2 DEF Disconnect
    <3> QED BY <3>1 DEF queueVars, TypeOK, QueueOK, Queued
  <2> QED BY <2>1, <2>2
<1>4. TypeOK'
  <2>1. numConnecting' \in Nat
    BY <1>3, QueueOKCount, Zenon
  <2> QED
    BY <2>1, <1>1, <1>3 DEF TypeOK, QueueOK, handlerVars, closeVars, ClientStates
<1>5. Tracking'
  <2>1. \A d \in connecting' : client'[d] \in {"queued", "connecting", "closed"}
    BY <1>1, <1>3 DEF Tracking, TypeOK, QueueOK, Queued
  <2>2. \A d \in ToSet(toConnect') : client'[d] = "queued" => d \in connecting'
    BY <1>1, <1>3 DEF Tracking, TypeOK, QueueOK
  <2> QED
    BY <1>1, <1>3, <2>1, <2>2 DEF Tracking, TypeOK, handlerVars, closeVars
<1>6. LiveAttemptIsTracked' /\ TimedOutStillConnecting'
  BY <1>1, <1>3
  DEF TypeOK, LiveAttemptIsTracked, TimedOutStillConnecting, handlerVars, closeVars
<1> QED
  BY <1>3, <1>4, <1>5, <1>6

\* An object nothing refers to is used again.
LEMMA RecycleIInv ==
  ASSUME IInv, NEW c \in Clients, Recycle(c)
  PROVE  IInv'
<1> USE DEF IInv
<1>1. /\ client[c] = "closed" /\ c \notin Queued \cup timedOut \cup closed
      /\ client' = [client EXCEPT ![c] = "idle"]
      /\ UNCHANGED <<waiting, connecting, left, numConnecting, limit, aborted, timer,
                     posted, toConnect, handler, timedOut, nextExpire, closing, closed>>
  BY DEF Recycle, queueVars, handlerVars, closeVars
<1>2. TypeOK' /\ QueueOK(waiting', connecting', numConnecting')
  BY <1>1 DEF TypeOK, QueueOK, ClientStates
<1>3. Tracking'
  BY <1>1 DEF Tracking, TypeOK, Queued
<1>4. LiveAttemptIsTracked' /\ TimedOutStillConnecting'
  BY <1>1 DEF TypeOK, LiveAttemptIsTracked, TimedOutStillConnecting
<1> QED
  BY <1>2, <1>3, <1>4

\* The head of the batch is a client, and the rest of it is in the batch.
LEMMA BatchHead ==
  ASSUME TypeOK, toConnect # <<>>
  PROVE  /\ Head(toConnect) \in Clients /\ Head(toConnect) \in ToSet(toConnect)
         /\ Tail(toConnect) \in Seq(Clients)
         /\ ToSet(Tail(toConnect)) \subseteq ToSet(toConnect)
<1> DEFINE s == toConnect
<1>1. s \in Seq(Clients) /\ s # <<>> /\ Len(s) \in Nat \ {0} /\ DOMAIN s = 1..Len(s)
  BY EmptySeq, LenProperties DEF TypeOK
<1>2. Head(s) = s[1] /\ Head(s) \in Clients
  BY <1>1
<1>3. /\ Tail(s) \in Seq(Clients) /\ Len(Tail(s)) = Len(s) - 1
      /\ \A i \in 1..(Len(s) - 1) : Tail(s)[i] = s[i + 1]
  BY <1>1
<1>4. DOMAIN Tail(s) = 1..(Len(s) - 1)
  BY <1>1, <1>3, LenProperties
<1>5. \A i \in 1..(Len(s) - 1) : i + 1 \in 1..Len(s)
  BY <1>1
<1> QED
  BY <1>1, <1>2, <1>3, <1>4, <1>5 DEF ToSet

\* A socket starts to connect.
LEMMA ConnectStartsIInv ==
  ASSUME IInv, ConnectStarts
  PROVE  IInv'
<1> USE DEF IInv
<1> DEFINE c == Head(toConnect)
<1>1. /\ c \in Clients /\ c \in ToSet(toConnect)
      /\ toConnect' \in Seq(Clients) /\ ToSet(toConnect') \subseteq ToSet(toConnect)
  BY BatchHead DEF ConnectStarts
<1>2. /\ client[c] = "queued"
      /\ client' = [client EXCEPT ![c] = "connecting"]
      /\ handler' = IF handler = "starting" /\ toConnect' = <<>> THEN "idle" ELSE handler
      /\ UNCHANGED <<waiting, connecting, left, numConnecting, limit, aborted, timer,
                     posted, timedOut, nextExpire, closing, closed>>
  BY DEF ConnectStarts, BatchDone, closeVars
<1> HIDE DEF c
<1>3. c \in connecting
  BY <1>1, <1>2 DEF Tracking
<1>4. TypeOK' /\ QueueOK(waiting', connecting', numConnecting')
  BY <1>1, <1>2 DEF TypeOK, QueueOK, ClientStates
<1>5. Tracking'
  BY <1>1, <1>2, <1>3 DEF Tracking, TypeOK, QueueOK
<1>6. LiveAttemptIsTracked' /\ TimedOutStillConnecting'
  BY <1>1, <1>2, <1>3 DEF TypeOK, LiveAttemptIsTracked, TimedOutStillConnecting
<1> QED
  BY <1>4, <1>5, <1>6

\* The started entry belongs to an object that is closed already.
LEMMA ConnectOnClosedIInv ==
  ASSUME IInv, ConnectOnClosed
  PROVE  IInv'
<1> USE DEF IInv
<1>1. toConnect' \in Seq(Clients) /\ ToSet(toConnect') \subseteq ToSet(toConnect)
  BY BatchHead DEF ConnectOnClosed
<1>2. /\ handler' = IF handler = "starting" /\ toConnect' = <<>> THEN "idle" ELSE handler
      /\ UNCHANGED <<waiting, connecting, left, numConnecting, limit, aborted, timer,
                     posted, timedOut, nextExpire, closing, closed, client>>
  BY DEF ConnectOnClosed, BatchDone, closeVars
<1>3. TypeOK' /\ QueueOK(waiting', connecting', numConnecting')
  BY <1>1, <1>2 DEF TypeOK, QueueOK
<1>4. Tracking'
  BY <1>1, <1>2 DEF Tracking
<1>5. LiveAttemptIsTracked' /\ TimedOutStillConnecting'
  BY <1>2 DEF LiveAttemptIsTracked, TimedOutStillConnecting
<1> QED
  BY <1>3, <1>4, <1>5

\* The socket fails at once and done() re-enters try_connect.
LEMMA ConnectFailsIInv ==
  ASSUME IInv, ConnectFails
  PROVE  IInv'
<1> USE DEF IInv
<1> DEFINE c == Head(toConnect)
           outer == Tail(toConnect)
<1>1. /\ c \in Clients /\ c \in ToSet(toConnect)
      /\ outer \in Seq(Clients) /\ ToSet(outer) \subseteq ToSet(toConnect)
  BY BatchHead DEF ConnectFails
<1>2. /\ client[c] = "queued" /\ Done(c, outer)
      /\ client' = [client EXCEPT ![c] = "closed"]
      /\ handler' = IF handler = "starting" /\ toConnect' = <<>> THEN "idle" ELSE handler
      /\ UNCHANGED <<left, limit, aborted, posted, timedOut, nextExpire, closing, closed>>
  BY DEF ConnectFails, BatchDone, closeVars
<1> HIDE DEF c, outer
<1>3. limit \in Nat
  BY ConstantsAssumption DEF TypeOK
<1>4. /\ QueueOK(waiting', connecting', numConnecting')
      /\ Queued' = Queued \ ({c} \cap connecting)
      /\ connecting \ {c} \subseteq connecting'
      /\ ToSet(waiting') \subseteq ToSet(waiting)
      /\ ToSet(toConnect') \subseteq connecting' \cup ToSet(outer)
      /\ timer' \in Nat \cup {Off}
      /\ toConnect' \in Seq(Clients)
  BY <1>1, <1>2, <1>3, DoneOK DEF TypeOK
<1>5. TypeOK'
  <2>1. numConnecting' \in Nat
    BY <1>4, QueueOKCount, Zenon
  <2> QED
    BY <2>1, <1>1, <1>2, <1>4 DEF TypeOK, QueueOK, ClientStates
<1>6. Tracking'
  <2>1. \A d \in connecting' : client'[d] \in {"queued", "connecting", "closed"}
    BY <1>2, <1>4 DEF Tracking, TypeOK, QueueOK, Queued
  <2>2. \A d \in ToSet(toConnect') : client'[d] = "queued" => d \in connecting'
    BY <1>1, <1>2, <1>4 DEF Tracking, TypeOK, QueueOK
  <2> QED
    BY <1>2, <1>4, <2>1, <2>2 DEF Tracking, TypeOK
<1>7. LiveAttemptIsTracked' /\ TimedOutStillConnecting'
  BY <1>1, <1>2, <1>4 DEF TypeOK, LiveAttemptIsTracked, TimedOutStillConnecting
<1> QED
  BY <1>4, <1>5, <1>6, <1>7

\* An attempt ends in a connection or in a closed object.
LEMMA ConnectionCompleteIInv ==
  ASSUME IInv, NEW c \in Clients, NEW o \in {"connected", "closed"},
         ConnectionComplete(c, o)
  PROVE  IInv'
<1> USE DEF IInv
<1>1. /\ client[c] = "connecting" /\ Done(c, <<>>) /\ ~closing /\ handler = "idle"
      /\ client' = [client EXCEPT ![c] = o]
      /\ UNCHANGED <<left, limit, aborted, posted, handler, timedOut, nextExpire,
                     closing, closed>>
  BY DEF ConnectionComplete, handlerVars, closeVars
<1>2. limit \in Nat /\ <<>> \in Seq(Clients) /\ ToSet(<<>>) = {}
  BY ConstantsAssumption DEF TypeOK, ToSet
<1>3. c \in connecting /\ timedOut = {} /\ closed = {}
  BY <1>1 DEF LiveAttemptIsTracked, Tracking
<1>4. /\ QueueOK(waiting', connecting', numConnecting')
      /\ Queued' = Queued \ ({c} \cap connecting)
      /\ connecting \ {c} \subseteq connecting'
      /\ ToSet(waiting') \subseteq ToSet(waiting)
      /\ ToSet(toConnect') \subseteq connecting' \cup ToSet(<<>>)
      /\ timer' \in Nat \cup {Off}
      /\ toConnect' \in Seq(Clients)
  BY <1>1, <1>2, DoneOK DEF TypeOK
<1>5. TypeOK'
  <2>1. numConnecting' \in Nat
    BY <1>4, QueueOKCount, Zenon
  <2> QED
    BY <2>1, <1>1, <1>4 DEF TypeOK, QueueOK, ClientStates
<1>6. Tracking'
  <2>1. c \notin connecting' /\ c \notin ToSet(waiting')
    BY <1>3, <1>4 DEF Queued
  <2>2. \A d \in connecting' : client'[d] \in {"queued", "connecting", "closed"}
    BY <2>1, <1>1, <1>4 DEF Tracking, TypeOK, QueueOK, Queued
  <2> QED
    BY <1>1, <1>2, <1>4, <2>1, <2>2 DEF Tracking, TypeOK
<1>7. LiveAttemptIsTracked' /\ TimedOutStillConnecting'
  BY <1>1, <1>3, <1>4 DEF TypeOK, LiveAttemptIsTracked, TimedOutStillConnecting
<1> QED
  BY <1>4, <1>5, <1>6, <1>7

\* on_timeout takes the late entries out.
LEMMA OnTimeoutBeginIInv ==
  ASSUME IInv, OnTimeoutBegin
  PROVE  IInv'
<1> USE DEF IInv
<1> DEFINE conn == connecting \ LateEntries
<1>1. /\ toConnect = <<>> /\ handler = "idle" /\ posted > 0 /\ posted' = posted - 1
      /\ handler' = "callbacks" /\ timedOut' = LateEntries /\ connecting' = conn
      /\ numConnecting' = numConnecting - Cardinality(LateEntries)
      /\ nextExpire' = Earliest(conn)
      /\ UNCHANGED <<waiting, left, limit, aborted, timer, toConnect, closing, closed, client>>
  BY DEF OnTimeoutBegin, MutexFree, closeVars
<1>2. /\ LateEntries \subseteq connecting /\ connecting \cap LateEntries = LateEntries
      /\ conn \subseteq Clients /\ \A c \in conn : left[c] >= 0
  BY DEF LateEntries, TypeOK
<1>3. Earliest(conn) \in Nat \cup {Off}
  BY <1>2, EarliestType DEF TypeOK
<1>4. IsFiniteSet(conn) /\ Cardinality(conn) = numConnecting - Cardinality(LateEntries)
  <2>1. /\ IsFiniteSet(connecting \ LateEntries)
        /\ Cardinality(connecting \ LateEntries) =
             Cardinality(connecting) - Cardinality(connecting \cap LateEntries)
    BY FS_Difference DEF QueueOK
  <2> QED BY <2>1, <1>2 DEF QueueOK
<1>5. Cardinality(conn) \in Nat
  BY <1>4, FS_CardinalityType
<1> HIDE DEF conn
<1>6. TypeOK'
  <2>1. posted' \in 0..MaxPosted
    BY <1>1, ConstantsAssumption DEF TypeOK
  <2>2. timedOut' \subseteq Clients /\ connecting' \subseteq Clients
    BY <1>1, <1>2 DEF TypeOK
  <2> QED
    BY <1>1, <1>3, <1>4, <1>5, <2>1, <2>2 DEF TypeOK
<1>7. QueueOK(waiting', connecting', numConnecting')
  BY <1>1, <1>2, <1>4 DEF QueueOK, conn
<1>8. Tracking'
  BY <1>1 DEF Tracking, conn, ToSet
<1>9. LiveAttemptIsTracked' /\ TimedOutStillConnecting'
  <2>1. timedOut = {}
    BY <1>1 DEF Tracking
  <2>2. \A c \in LateEntries : client[c] \notin {"idle", "connected"}
    BY <1>2 DEF Tracking
  <2> QED
    BY <1>1, <2>1, <2>2 DEF LiveAttemptIsTracked, TimedOutStillConnecting, conn
<1> QED
  BY <1>6, <1>7, <1>8, <1>9

\* on_timeout tells an object, without the mutex.
LEMMA TimeoutCallbackIInv ==
  ASSUME IInv, NEW c \in Clients, TimeoutCallback(c)
  PROVE  IInv'
<1> USE DEF IInv
<1>1. /\ handler = "callbacks" /\ toConnect = <<>> /\ timedOut' = timedOut \ {c}
      /\ client' = [client EXCEPT ![c] = "closed"]
      /\ UNCHANGED <<waiting, connecting, left, numConnecting, limit, aborted, timer,
                     posted, toConnect, handler, nextExpire, closing, closed>>
  BY DEF TimeoutCallback, MutexFree, queueVars, closeVars
<1>2. TypeOK' /\ QueueOK(waiting', connecting', numConnecting')
  BY <1>1 DEF TypeOK, QueueOK, ClientStates
<1>3. Tracking'
  BY <1>1 DEF Tracking, TypeOK, ToSet
<1>4. LiveAttemptIsTracked' /\ TimedOutStillConnecting'
  BY <1>1 DEF TypeOK, LiveAttemptIsTracked, TimedOutStillConnecting
<1> QED
  BY <1>2, <1>3, <1>4

\* on_timeout arms the timer again and starts others.
LEMMA OnTimeoutEndIInv ==
  ASSUME IInv, OnTimeoutEnd
  PROVE  IInv'
<1> USE DEF IInv
<1> DEFINE tm == IF nextExpire = Off THEN timer ELSE nextExpire
<1>1. /\ timedOut = {} /\ nextExpire' = Off
      /\ TryConnect(waiting, connecting, numConnecting, left, tm, <<>>)
      /\ handler' \in {"idle", "starting"}
      /\ UNCHANGED <<left, limit, aborted, posted, timedOut, closing, closed, client>>
  BY DEF OnTimeoutEnd, closeVars
<1>2. limit \in Nat /\ <<>> \in Seq(Clients) /\ ToSet(<<>>) = {} /\ tm \in Nat \cup {Off}
  BY ConstantsAssumption DEF TypeOK, ToSet
<1> HIDE DEF tm
<1>3. /\ QueueOK(waiting', connecting', numConnecting')
      /\ Queued' = Queued
      /\ connecting \subseteq connecting'
      /\ ToSet(waiting') \subseteq ToSet(waiting)
      /\ ToSet(toConnect') \subseteq connecting' \cup ToSet(<<>>)
      /\ timer' \in Nat \cup {Off}
      /\ toConnect' \in Seq(Clients)
  BY <1>1, <1>2, TryConnectOK DEF TypeOK, Queued
<1>4. TypeOK'
  <2>1. numConnecting' \in Nat
    BY <1>3, QueueOKCount, Zenon
  <2> QED
    BY <2>1, <1>1, <1>3 DEF TypeOK, QueueOK
<1>5. Tracking'
  BY <1>1, <1>2, <1>3 DEF Tracking, TypeOK, QueueOK, Queued
<1>6. LiveAttemptIsTracked' /\ TimedOutStillConnecting'
  BY <1>1, <1>3 DEF LiveAttemptIsTracked, TimedOutStillConnecting
<1> QED
  BY <1>3, <1>4, <1>5, <1>6

\* close() sets m_abort.
LEMMA CloseBeginIInv ==
  ASSUME IInv, CloseBegin
  PROVE  IInv'
<1> USE DEF IInv
<1>1. /\ ~closing /\ aborted' = TRUE /\ closing' = TRUE /\ timer' = Off
      /\ UNCHANGED <<waiting, connecting, left, numConnecting, limit, posted, toConnect,
                     handler, timedOut, nextExpire, closed, client>>
  BY DEF CloseBegin, handlerVars
<1>2. TypeOK' /\ QueueOK(waiting', connecting', numConnecting')
  BY <1>1 DEF TypeOK, QueueOK
<1>3. Tracking' /\ LiveAttemptIsTracked' /\ TimedOutStillConnecting'
  BY <1>1 DEF Tracking, LiveAttemptIsTracked, TimedOutStillConnecting
<1> QED
  BY <1>2, <1>3

\* Taking the front entry off a sequence without repetition.
LEMMA PopFront ==
  ASSUME NEW s \in Seq(Clients), s # <<>>, Injective(s)
  PROVE  /\ Tail(s) \in Seq(Clients) /\ Injective(Tail(s))
         /\ ToSet(Tail(s)) \subseteq ToSet(s)
         /\ Head(s) \in ToSet(s) /\ Head(s) \notin ToSet(Tail(s))
         /\ ToSet(s) = ToSet(Tail(s)) \cup {Head(s)}
<1>1. Len(s) \in Nat \ {0} /\ DOMAIN s = 1..Len(s) /\ Head(s) = s[1]
  BY EmptySeq, LenProperties
<1>2. /\ Tail(s) \in Seq(Clients) /\ Len(Tail(s)) = Len(s) - 1
      /\ \A i \in 1..(Len(s) - 1) : Tail(s)[i] = s[i + 1]
  OBVIOUS
<1>3. DOMAIN Tail(s) = 1..(Len(s) - 1)
  BY <1>1, <1>2, LenProperties
<1>4. \A i \in 1..(Len(s) - 1) : i + 1 \in 1..Len(s) /\ i + 1 # 1
  BY <1>1
<1>5. Injective(Tail(s))
  BY <1>1, <1>2, <1>4 DEF Injective
<1>6. ToSet(Tail(s)) \subseteq ToSet(s) /\ Head(s) \in ToSet(s)
  BY <1>1, <1>2, <1>3, <1>4 DEF ToSet
<1>7. Head(s) \notin ToSet(Tail(s))
  BY <1>1, <1>2, <1>3, <1>4 DEF ToSet, Injective
<1>8. ToSet(s) \subseteq ToSet(Tail(s)) \cup {Head(s)}
  <2>1. ASSUME NEW i \in 1..Len(s), i # 1
        PROVE  i - 1 \in 1..(Len(s) - 1) /\ s[i] = Tail(s)[i - 1]
    BY <2>1, <1>1, <1>2
  <2>2. \A i \in 1..(Len(s) - 1) : Tail(s)[i] \in ToSet(Tail(s))
    BY <1>3 DEF ToSet
  <2>3. ASSUME NEW i \in 1..Len(s), i # 1
        PROVE  s[i] \in ToSet(Tail(s))
    BY <2>1, <2>2, <2>3
  <2> QED BY <2>3, <1>1 DEF ToSet
<1> QED
  BY <1>2, <1>5, <1>6, <1>7, <1>8

\* close() takes an entry out.
LEMMA ClosePopIInv ==
  ASSUME IInv, NEW c \in Clients, ClosePop(c)
  PROVE  IInv'
<1> USE DEF IInv
<1>1. /\ closing /\ toConnect = <<>> /\ closed = {} /\ closed' = {c}
      /\ UNCHANGED <<left, limit, aborted, timer, posted, toConnect, handler, timedOut,
                     nextExpire, closing, client>>
  BY DEF ClosePop, MutexFree, handlerVars
<1>2. /\ QueueOK(waiting', connecting', numConnecting')
      /\ ToSet(waiting') \subseteq ToSet(waiting) /\ connecting' \subseteq connecting
      /\ connecting \ {c} \subseteq connecting'
      /\ client[c] \notin {"idle", "connected"}
  <2>1. CASE c \in connecting
    <3>1. /\ connecting' = connecting \ {c} /\ numConnecting' = numConnecting - 1
          /\ waiting' = waiting
      BY <2>1 DEF ClosePop
    <3>2. IsFiniteSet(connecting') /\ Cardinality(connecting') = numConnecting - 1
      BY <2>1, <3>1, FS_RemoveElement DEF QueueOK
    <3> QED BY <2>1, <3>1, <3>2 DEF QueueOK, Tracking
  <2>2. CASE c \notin connecting
    <3>1. /\ waiting # <<>> /\ c = Head(waiting) /\ waiting' = Tail(waiting)
          /\ UNCHANGED <<connecting, numConnecting>>
      BY <2>2 DEF ClosePop
    <3>2. /\ waiting' \in Seq(Clients) /\ Injective(waiting')
          /\ ToSet(waiting') \subseteq ToSet(waiting) /\ c \in ToSet(waiting)
      BY <3>1, PopFront DEF QueueOK
    <3> QED BY <3>1, <3>2 DEF QueueOK, Tracking
  <2> QED BY <2>1, <2>2
<1>3. TypeOK'
  <2>1. numConnecting' \in Nat
    BY <1>2, QueueOKCount, Zenon
  <2> QED BY <2>1, <1>1, <1>2 DEF TypeOK, QueueOK
<1>4. Tracking'
  BY <1>1, <1>2 DEF Tracking, ToSet
<1>5. LiveAttemptIsTracked' /\ TimedOutStillConnecting'
  BY <1>1, <1>2 DEF LiveAttemptIsTracked, TimedOutStillConnecting
<1> QED
  BY <1>2, <1>3, <1>4, <1>5

\* close() tells the object.
LEMMA CloseCallbackIInv ==
  ASSUME IInv, NEW c \in Clients, CloseCallback(c)
  PROVE  IInv'
<1> USE DEF IInv
<1>1. /\ toConnect = <<>> /\ c \in closed /\ closed' = {}
      /\ client' = [client EXCEPT ![c] = "closed"]
      /\ UNCHANGED <<waiting, connecting, left, numConnecting, limit, aborted, timer,
                     posted, toConnect, handler, timedOut, nextExpire, closing>>
  BY DEF CloseCallback, MutexFree, queueVars, handlerVars
<1>2. TypeOK' /\ QueueOK(waiting', connecting', numConnecting')
  BY <1>1 DEF TypeOK, QueueOK, ClientStates
<1>3. Tracking'
  BY <1>1 DEF Tracking, TypeOK, ToSet
<1>4. closed = {c}
  BY <1>1 DEF Tracking
<1>5. LiveAttemptIsTracked' /\ TimedOutStillConnecting'
  BY <1>1, <1>4 DEF TypeOK, LiveAttemptIsTracked, TimedOutStillConnecting
<1> QED
  BY <1>2, <1>3, <1>5

\* Time passes, for the entries, the timer and next_expire.
LEMMA TickIInv ==
  ASSUME IInv, Tick
  PROVE  IInv'
<1> USE DEF IInv
<1>1. /\ left' = [c \in Clients |->
                    IF c \in connecting THEN Before(left[c], -1) ELSE left[c]]
      /\ timer' = Before(timer, 0) /\ nextExpire' = Before(nextExpire, 0)
      /\ UNCHANGED <<waiting, connecting, numConnecting, limit, aborted, posted,
                     toConnect, handler, timedOut, closing, closed, client>>
  BY DEF Tick, closeVars
<1>2. \A n \in Nat \cup {-1} : Before(n, -1) \in Nat \cup {-1}
  BY DEF Before
<1>3. \A n \in Nat \cup {Off} : Before(n, 0) \in Nat \cup {Off}
  BY DEF Before, Off
<1>4. left' \in [Clients -> Nat \cup {-1}]
  BY <1>1, <1>2 DEF TypeOK
<1>5. timer' \in Nat \cup {Off} /\ nextExpire' \in Nat \cup {Off}
  BY <1>1, <1>3 DEF TypeOK
<1>6. TypeOK' /\ QueueOK(waiting', connecting', numConnecting')
  BY <1>1, <1>4, <1>5 DEF TypeOK, QueueOK
<1>7. Tracking' /\ LiveAttemptIsTracked' /\ TimedOutStillConnecting'
  BY <1>1 DEF Tracking, LiveAttemptIsTracked, TimedOutStillConnecting
<1> QED
  BY <1>6, <1>7

\* The steps that touch neither the queue nor a client.
LEMMA QuietIInv ==
  ASSUME IInv, \/ \E n \in Limits : SetLimit(n)
               \/ CloseEnd
               \/ TimerExpires
               \/ UNCHANGED vars
  PROVE  IInv'
<1> USE DEF IInv
<1>1. /\ UNCHANGED <<waiting, connecting, left, numConnecting, aborted, toConnect,
                     handler, timedOut, nextExpire, closed, client>>
      /\ limit' \in Limits /\ timer' \in {timer, Off} /\ posted' \in 0..MaxPosted
      /\ closing' \in BOOLEAN /\ (~closing' => closed = {})
  <2>1. CASE \E n \in Limits : SetLimit(n)
    BY <2>1 DEF SetLimit, queueVars, handlerVars, closeVars, TypeOK, Tracking
  <2>2. CASE CloseEnd
    BY <2>2 DEF CloseEnd, queueVars, handlerVars, TypeOK
  <2>3. CASE TimerExpires
    BY <2>3, ConstantsAssumption DEF TimerExpires, handlerVars, closeVars, TypeOK, Tracking
  <2>4. CASE UNCHANGED vars
    BY <2>4 DEF vars, TypeOK, Tracking
  <2> QED BY <2>1, <2>2, <2>3, <2>4
<1>2. TypeOK' /\ QueueOK(waiting', connecting', numConnecting')
  BY <1>1 DEF TypeOK, QueueOK
<1>3. Tracking' /\ LiveAttemptIsTracked' /\ TimedOutStillConnecting'
  BY <1>1 DEF Tracking, LiveAttemptIsTracked, TimedOutStillConnecting
<1> QED
  BY <1>2, <1>3

\* The invariant is inductive and holds in every reachable state.
THEOREM Invariance == Spec => []IInv
<1>1. IInv /\ [Next]_vars => IInv'
  <2> SUFFICES ASSUME IInv, [Next]_vars PROVE IInv'
    OBVIOUS
  <2>1. CASE \E c \in Clients, t \in Timeouts : Enqueue(c, t)
    BY <2>1, EnqueueIInv
  <2>2. CASE \E c \in Clients : Disconnect(c)
    BY <2>2, DisconnectIInv
  <2>3. CASE \E c \in Clients : Recycle(c)
    BY <2>3, RecycleIInv
  <2>4. CASE Callbacks
    BY <2>4, ConnectStartsIInv, ConnectFailsIInv, ConnectOnClosedIInv DEF Callbacks
  <2>5. CASE \E c \in Clients, o \in {"connected", "closed"} : ConnectionComplete(c, o)
    BY <2>5, ConnectionCompleteIInv
  <2>6. CASE OnTimeout
    BY <2>6, OnTimeoutBeginIInv, OnTimeoutEndIInv, TimeoutCallbackIInv DEF OnTimeout
  <2>7. CASE CloseBegin
    BY <2>7, CloseBeginIInv
  <2>8. CASE \E c \in Clients : ClosePop(c) \/ CloseCallback(c)
    BY <2>8, ClosePopIInv, CloseCallbackIInv
  <2>9. CASE Tick
    BY <2>9, TickIInv
  <2>10. CASE \/ \E n \in Limits : SetLimit(n)
              \/ CloseEnd
              \/ TimerExpires
              \/ UNCHANGED vars
    BY <2>10, QuietIInv
  <2> QED
    BY <2>1, <2>2, <2>3, <2>4, <2>5, <2>6, <2>7, <2>8, <2>9, <2>10 DEF Next, CloseStep
<1> QED
  BY <1>1, InitIInv, PTL DEF Spec

\* Every variable keeps its type, for any clients, timeouts and limits.
THEOREM TypeCorrect == Spec => []TypeOK
<1>1. IInv => TypeOK
  BY DEF IInv
<1> QED BY <1>1, Invariance, PTL

\* m_num_connecting is the number of started entries whatever the two threads
\* do between the locks of on_timeout, of close() and of nested calls.
THEOREM NumConnectingCorrect == Spec => []NumConnectingExact
<1>1. IInv => NumConnectingExact
  BY DEF IInv, QueueOK, NumConnectingExact
<1> QED BY <1>1, Invariance, PTL

\* No half-open socket escapes the limit and the timeout.
THEOREM LiveAttemptsTracked == Spec => []LiveAttemptIsTracked
<1>1. IInv => LiveAttemptIsTracked
  BY DEF IInv
<1> QED BY <1>1, Invariance, PTL

\* timed_out() finds the connection it was promised.
THEOREM TimedOutConnecting == Spec => []TimedOutStillConnecting
<1>1. IInv => TimedOutStillConnecting
  BY DEF IInv
<1> QED BY <1>1, Invariance, PTL

-----------------------------------------------------------------------------
\* No step of any thread takes a slot beyond the limit in force.
THEOREM LimitRespected == Spec => SlotsWithinLimit
<1> DEFINE Within == numConnecting' > numConnecting => limit = 0 \/ numConnecting' <= limit
<1>1. IInv /\ [Next]_vars => Within \/ UNCHANGED vars
  <2> SUFFICES ASSUME IInv, Next PROVE Within
    OBVIOUS
  <2> USE DEF IInv
  <2>1. limit \in Nat /\ numConnecting \in Nat
    BY ConstantsAssumption DEF TypeOK
  <2>2. <<>> \in Seq(Clients)
    OBVIOUS
  <2>3. ASSUME NEW c, NEW outer \in Seq(Clients), Done(c, outer)
        PROVE  Within
    BY <2>1, <2>3, DoneOK DEF TypeOK
  <2>4. ASSUME NEW c \in Clients, NEW t \in Timeouts, Enqueue(c, t)
        PROVE  Within
    <3> DEFINE w == IF c \in HighPriority THEN <<c>> \o waiting ELSE Append(waiting, c)
    <3>1. w \in {Append(waiting, c), <<c>> \o waiting}
      OBVIOUS
    <3>2. TryConnect(w, connecting, numConnecting, left', timer, <<>>)
      BY <2>4 DEF Enqueue
    <3> HIDE DEF w
    <3>3. c \notin Queued
      BY <2>4 DEF Enqueue, Tracking, Queued
    <3>4. QueueOK(w, connecting, numConnecting)
      BY <3>1, <3>3, AddEntry
    <3>5. left' \in [Clients -> Nat \cup {-1}]
      BY <2>4, ConstantsAssumption DEF Enqueue, TypeOK
    <3>6. timer \in Nat \cup {Off}
      BY DEF TypeOK
    <3>7. numConnecting' # numConnecting => limit = 0 \/ numConnecting' <= limit
      BY <2>1, <2>2, <3>2, <3>4, <3>5, <3>6, TryConnectOK
    <3> QED BY <2>1, <3>7
  <2>5. ASSUME NEW c \in Clients, Disconnect(c) PROVE Within
    <3>1. Done(c, <<>>) \/ UNCHANGED queueVars
      BY <2>5 DEF Disconnect
    <3>2. UNCHANGED queueVars => Within
      BY <2>1 DEF queueVars
    <3> HIDE DEF Within
    <3> QED BY <2>2, <2>3, <3>1, <3>2
  <2>6. CASE Callbacks
    <3>1. ConnectFails => Within
      BY <2>3, BatchHead DEF ConnectFails
    <3> QED BY <2>1, <2>6, <3>1 DEF Callbacks, ConnectStarts, ConnectOnClosed
  <2>7. ASSUME NEW c \in Clients, NEW o \in {"connected", "closed"}, ConnectionComplete(c, o)
        PROVE  Within
    BY <2>2, <2>3, <2>7 DEF ConnectionComplete
  <2>8. CASE OnTimeoutBegin
    <3>1. IsFiniteSet(LateEntries)
      BY FS_Subset DEF QueueOK, LateEntries
    <3>2. Cardinality(LateEntries) \in Nat
      BY <3>1, FS_CardinalityType
    <3> QED BY <2>1, <2>8, <3>2 DEF OnTimeoutBegin
  <2>9. CASE OnTimeoutEnd
    <3> DEFINE tm == IF nextExpire = Off THEN timer ELSE nextExpire
    <3>1. TryConnect(waiting, connecting, numConnecting, left, tm, <<>>) /\ tm \in Nat \cup {Off}
      BY <2>9 DEF OnTimeoutEnd, TypeOK
    <3> HIDE DEF tm
    <3>2. QueueOK(waiting, connecting, numConnecting) /\ left \in [Clients -> Nat \cup {-1}]
      BY DEF TypeOK
    <3>3. numConnecting' # numConnecting => limit = 0 \/ numConnecting' <= limit
      BY <2>1, <2>2, <3>1, <3>2, TryConnectOK
    <3> QED BY <2>1, <3>3
  <2>10. CASE CloseStep
    BY <2>1, <2>10 DEF CloseStep, CloseEnd, ClosePop, CloseCallback, queueVars
  <2>11. CASE \/ \E c \in Clients : Recycle(c) \/ TimeoutCallback(c)
              \/ \E n \in Limits : SetLimit(n)
              \/ CloseBegin \/ Tick \/ TimerExpires
    BY <2>1, <2>11
    DEF Recycle, TimeoutCallback, SetLimit, CloseBegin, Tick, TimerExpires, queueVars
  <2> QED
    BY <2>4, <2>5, <2>6, <2>7, <2>8, <2>9, <2>10, <2>11 DEF Next, OnTimeout
<1> QED
  BY <1>1, Invariance, PTL DEF Spec, SlotsWithinLimit

-----------------------------------------------------------------------------
(***************************************************************************)
(* The service of the queue.  Between its locks on_timeout owes the queue a *)
(* try_connect and the timer its next_expire; at any other time entries     *)
(* wait only behind an attempt in progress, and the timer covers it.  The   *)
(* timer of the first entry is armed with its timeout, which is not over    *)
(* while the entry waits.                                                  *)
(***************************************************************************)

Covered == posted > 0 \/ (handler = "callbacks" /\ nextExpire # Off)

ServiceInv ==
  /\ closing => aborted
  /\ \A c \in ToSet(waiting) : left[c] # Off
  /\ waiting # <<>> /\ ~aborted /\ handler # "callbacks" => connecting # {}
  /\ connecting # {} /\ ~aborted => timer # Off \/ Covered

\* try_connect leaves entries waiting only behind others, and the timer armed
\* when it was or when it starts the first entry.
LEMMA TryConnectServes ==
  ASSUME NEW w, NEW conn, NEW num, QueueOK(w, conn, num),
         NEW tl \in [Clients -> Nat \cup {-1}],
         NEW tm \in Nat \cup {Off}, NEW outer \in Seq(Clients), limit \in Nat,
         TryConnect(w, conn, num, tl, tm, outer), ~aborted,
         \A c \in ToSet(w) : tl[c] # Off,
         NEW P \in BOOLEAN, conn # {} => tm # Off \/ P
  PROVE  /\ waiting' # <<>> => connecting' # {}
         /\ connecting' # {} => timer' # Off \/ P
<1>1. num \in Nat /\ (num = 0 <=> conn = {})
  BY QueueOKCount, FS_EmptySet DEF QueueOK
<1>2. w \in Seq(Clients) /\ Injective(w) /\ Len(w) \in Nat
  BY LenProperties DEF QueueOK
<1>3. CASE AtLimit(num)
  BY <1>1, <1>3 DEF TryConnect, StartNothing, AtLimit
<1>4. CASE ~AtLimit(num) /\ w = <<>>
  BY <1>4 DEF TryConnect, StartNothing
<1>5. CASE ~AtLimit(num) /\ w # <<>>
  <2> DEFINE n     == BatchSize(w, num)
             batch == SubSeq(w, 1, n)
  <2>1. n \in 1..Len(w)
    BY <1>1, <1>2, <1>5, EmptySeq DEF AtLimit, BatchSize
  <2>2. connecting' = conn \cup ToSet(batch) /\ timer' = TimerAfterStart(num, tm, tl, batch)
    BY <1>5 DEF TryConnect, StartBatch
  <2> HIDE DEF n
  <2>3. batch \in Seq(Clients) /\ Len(batch) = n /\ ToSet(batch) \subseteq ToSet(w)
    BY <1>2, <2>1, SplitSeq
  <2> HIDE DEF batch
  <2>4. batch # <<>> /\ Head(batch) = batch[1] /\ 1 \in DOMAIN batch
    BY <2>1, <2>3, EmptySeq, LenProperties, HeadTailProperties
  <2>5. Head(batch) \in ToSet(batch)
    BY <2>4 DEF ToSet
  <2>6. tl[Head(batch)] # Off
    BY <2>3, <2>5
  <2> QED BY <1>1, <2>2, <2>5, <2>6 DEF TimerAfterStart
<1> QED BY <1>3, <1>4, <1>5

LEMMA ServiceInit == Init => ServiceInv
<1> SUFFICES ASSUME Init PROVE ServiceInv
  OBVIOUS
<1>1. waiting = <<>> /\ connecting = {} /\ closing = FALSE
  BY DEF Init
<1>2. ToSet(waiting) = {}
  BY <1>1 DEF ToSet
<1> QED BY <1>1, <1>2 DEF ServiceInv

\* A step that calls try_connect.
LEMMA TryServiceStep ==
  ASSUME NEW w, NEW conn, NEW num, QueueOK(w, conn, num), limit \in Nat,
         left' \in [Clients -> Nat \cup {-1}],
         NEW tm \in Nat \cup {Off}, NEW outer \in Seq(Clients),
         TryConnect(w, conn, num, left', tm, outer),
         closing => aborted, UNCHANGED <<closing, aborted>>,
         \A c \in ToSet(w) : left'[c] # Off,
         conn # {} /\ ~aborted => tm # Off \/ Covered'
  PROVE  ServiceInv'
<1>1. ToSet(waiting') \subseteq ToSet(w)
  BY TryConnectOK
<1>2. CASE aborted
  BY <1>1, <1>2 DEF ServiceInv
<1>3. CASE ~aborted
  <2>1. Covered' \in BOOLEAN
    BY DEF Covered
  <2>2. /\ waiting' # <<>> => connecting' # {}
        /\ connecting' # {} => timer' # Off \/ Covered'
    BY <1>3, <2>1, TryConnectServes
  <2> QED BY <1>1, <2>2 DEF ServiceInv
<1> QED BY <1>2, <1>3

\* A step that leaves the queue and the timer alone.
LEMMA QuietServiceStep ==
  ASSUME ServiceInv,
         UNCHANGED <<waiting, connecting, left, timer, aborted, closing, posted, nextExpire>>,
         handler' = "callbacks" <=> handler = "callbacks"
  PROVE  ServiceInv'
BY DEF ServiceInv, Covered

\* A step that calls done(): a slot that comes free is filled.
LEMMA DoneServiceStep ==
  ASSUME IInv, ServiceInv, NEW c, NEW outer \in Seq(Clients), Done(c, outer),
         UNCHANGED <<left, aborted, closing, posted, nextExpire>>,
         handler' = "callbacks" <=> handler = "callbacks"
  PROVE  ServiceInv'
<1>1. /\ limit \in Nat /\ left \in [Clients -> Nat \cup {-1}] /\ timer \in Nat \cup {Off}
      /\ QueueOK(waiting, connecting, numConnecting)
  BY ConstantsAssumption DEF IInv, TypeOK
<1>2. CASE c \in connecting
  <2> DEFINE conn == connecting \ {c}
             num  == numConnecting - 1
  <2>1. IsFiniteSet(conn) /\ Cardinality(conn) = num
    BY <1>1, <1>2, FS_RemoveElement DEF QueueOK
  <2>2. QueueOK(waiting, conn, num)
    BY <1>1, <2>1 DEF QueueOK
  <2>3. TryConnect(waiting, conn, num, left', timer, outer)
    BY <1>2 DEF Done
  <2>4. conn # {} /\ ~aborted => timer # Off \/ Covered'
    BY DEF ServiceInv, Covered
  <2>5. (closing => aborted) /\ \A d \in ToSet(waiting) : left'[d] # Off
    BY DEF ServiceInv
  <2> HIDE DEF conn, num
  <2> QED BY <1>1, <2>2, <2>3, <2>4, <2>5, TryServiceStep
<1>3. CASE c \notin connecting
  <2>1. UNCHANGED <<waiting, connecting, timer>>
    BY <1>3 DEF Done, StartNothing
  <2> QED BY <2>1, QuietServiceStep
<1> QED BY <1>2, <1>3

LEMMA ServiceStep ==
  ASSUME IInv, ServiceInv, [Next]_vars
  PROVE  ServiceInv'
<1>1. /\ limit \in Nat /\ left \in [Clients -> Nat \cup {-1}] /\ timer \in Nat \cup {Off}
      /\ QueueOK(waiting, connecting, numConnecting) /\ nextExpire \in Nat \cup {Off}
      /\ posted \in Nat /\ <<>> \in Seq(Clients)
  BY ConstantsAssumption DEF IInv, TypeOK
<1>2. ASSUME NEW c \in Clients, NEW t \in Timeouts, Enqueue(c, t) PROVE ServiceInv'
  <2> DEFINE w == IF c \in HighPriority THEN <<c>> \o waiting ELSE Append(waiting, c)
  <2>1. w \in {Append(waiting, c), <<c>> \o waiting}
    OBVIOUS
  <2>2. /\ TryConnect(w, connecting, numConnecting, left', timer, <<>>)
        /\ left' = [left EXCEPT ![c] = t]
        /\ UNCHANGED <<aborted, closing, posted, handler, nextExpire>>
    BY <1>2 DEF Enqueue, handlerVars, closeVars
  <2> HIDE DEF w
  <2>3. c \notin Queued
    BY <1>2 DEF Enqueue, IInv, Tracking, Queued
  <2>4. QueueOK(w, connecting, numConnecting) /\ ToSet(w) = ToSet(waiting) \cup {c}
    BY <1>1, <2>1, <2>3, AddEntry
  <2>5. t \in Nat /\ t # Off
    BY ConstantsAssumption DEF Off
  <2>6. left' \in [Clients -> Nat \cup {-1}]
    BY <1>1, <2>2, <2>5
  <2>7. \A d \in ToSet(w) : left'[d] # Off
    BY <1>1, <2>2, <2>4, <2>5 DEF ServiceInv
  <2>8. (closing => aborted) /\ (connecting # {} /\ ~aborted => timer # Off \/ Covered')
    BY <2>2 DEF ServiceInv, Covered
  <2> QED BY <1>1, <2>2, <2>4, <2>6, <2>7, <2>8, TryServiceStep
<1>3. ASSUME NEW c \in Clients, Disconnect(c) PROVE ServiceInv'
  <2>1. UNCHANGED <<left, aborted, closing, posted, handler, nextExpire>>
    BY <1>3 DEF Disconnect, handlerVars, closeVars
  <2>2. CASE Done(c, <<>>)
    BY <1>1, <2>1, <2>2, DoneServiceStep
  <2>3. CASE UNCHANGED queueVars
    BY <2>1, <2>3, QuietServiceStep DEF queueVars
  <2> QED BY <1>3, <2>2, <2>3 DEF Disconnect
<1>4. ASSUME NEW c \in Clients, NEW o \in {"connected", "closed"}, ConnectionComplete(c, o)
      PROVE  ServiceInv'
  BY <1>1, <1>4, DoneServiceStep DEF ConnectionComplete, handlerVars, closeVars
<1>5. CASE ConnectFails
  <2>1. Tail(toConnect) \in Seq(Clients)
    BY <1>5, BatchHead DEF ConnectFails, IInv
  <2>2. /\ Done(Head(toConnect), Tail(toConnect))
        /\ UNCHANGED <<left, aborted, closing, posted, nextExpire>>
        /\ handler' = "callbacks" <=> handler = "callbacks"
    BY <1>5 DEF ConnectFails, BatchDone, closeVars
  <2> QED BY <2>1, <2>2, DoneServiceStep
<1>6. CASE OnTimeoutBegin
  <2> DEFINE S == connecting \ LateEntries
  <2>1. /\ connecting' = S /\ handler' = "callbacks" /\ nextExpire' = Earliest(S)
        /\ UNCHANGED <<waiting, left, aborted, closing>>
    BY <1>6 DEF OnTimeoutBegin, closeVars
  <2>2. S \subseteq Clients /\ \A c \in S : left[c] >= 0
    BY <1>1 DEF LateEntries, QueueOK
  <2> HIDE DEF S
  <2>3. S # {} => Earliest(S) # Off
    BY <1>1, <2>2, EarliestType
  <2> QED BY <2>1, <2>3 DEF ServiceInv, Covered
<1>7. CASE OnTimeoutEnd
  <2> DEFINE tm == IF nextExpire = Off THEN timer ELSE nextExpire
  <2>1. /\ TryConnect(waiting, connecting, numConnecting, left', tm, <<>>)
        /\ UNCHANGED <<left, posted, aborted, closing>>
    BY <1>7 DEF OnTimeoutEnd, closeVars
  <2>2. tm \in Nat \cup {Off}
    BY <1>1
  <2>3. connecting # {} /\ ~aborted => tm # Off \/ Covered'
    BY <2>1 DEF ServiceInv, Covered
  <2>4. (closing => aborted) /\ \A c \in ToSet(waiting) : left'[c] # Off
    BY <2>1 DEF ServiceInv
  <2> HIDE DEF tm
  <2> QED BY <1>1, <2>1, <2>2, <2>3, <2>4, TryServiceStep
<1>8. CASE CloseBegin
  BY <1>8 DEF CloseBegin, ServiceInv
<1>9. ASSUME NEW c \in Clients, ClosePop(c) PROVE ServiceInv'
  <2>1. closing /\ UNCHANGED <<left, aborted, closing>>
    BY <1>9 DEF ClosePop
  <2>2. waiting' = waiting \/ (waiting # <<>> /\ waiting' = Tail(waiting))
    BY <1>9 DEF ClosePop
  <2>3. ToSet(waiting') \subseteq ToSet(waiting)
    BY <1>1, <2>2, PopFront DEF QueueOK
  <2> QED BY <2>1, <2>3 DEF ServiceInv
<1>10. CASE Tick
  <2>1. /\ \A c \in ToSet(waiting) : left'[c] = left[c]
        /\ UNCHANGED <<waiting, connecting, aborted, closing, posted, handler>>
    <3>1. ToSet(waiting) \subseteq Clients
      BY <1>1, LenProperties DEF QueueOK, ToSet
    <3> QED BY <1>1, <1>10, <3>1 DEF Tick, QueueOK, closeVars
  <2>2. (timer # Off => timer' # Off) /\ (nextExpire # Off => nextExpire' # Off)
    BY <1>1, <1>10 DEF Tick, Before, Off
  <2> QED BY <2>1, <2>2 DEF ServiceInv, Covered
<1>11. CASE TimerExpires
  <2>1. posted' > 0 /\ UNCHANGED <<waiting, connecting, left, aborted, closing, handler>>
    BY <1>1, <1>11 DEF TimerExpires, handlerVars, closeVars
  <2> QED BY <2>1 DEF ServiceInv, Covered
<1>12. ASSUME \/ \E c \in Clients : Recycle(c) \/ TimeoutCallback(c) \/ CloseCallback(c)
              \/ \E n \in Limits : SetLimit(n)
              \/ ConnectStarts \/ ConnectOnClosed \/ UNCHANGED vars
       PROVE  ServiceInv'
  <2>1. /\ UNCHANGED <<waiting, connecting, left, timer, aborted, closing, posted, nextExpire>>
        /\ handler' = "callbacks" <=> handler = "callbacks"
    BY <1>12 DEF Recycle, TimeoutCallback, CloseCallback, SetLimit, ConnectStarts,
                 ConnectOnClosed, BatchDone, vars, queueVars, handlerVars, closeVars
  <2> QED BY <2>1, QuietServiceStep
<1>13. CASE CloseEnd
  BY <1>13 DEF CloseEnd, ServiceInv, Covered, queueVars, handlerVars
<1> QED
  BY <1>2, <1>3, <1>4, <1>5, <1>6, <1>7, <1>8, <1>9, <1>10, <1>11, <1>12, <1>13
  DEF Next, Callbacks, OnTimeout, CloseStep

LEMMA ServiceAlways == Spec => []ServiceInv
<1>1. IInv /\ ServiceInv /\ [Next]_vars => ServiceInv'
  BY ServiceStep
<1> QED BY <1>1, ServiceInit, Invariance, PTL DEF Spec

\* Entries of m_queue wait only while an attempt is in progress, whose end
\* calls try_connect again, whatever limit() has set in between.
THEOREM QueueNeverStalls == Spec => []NeverStalls
<1>1. ServiceInv => NeverStalls
  BY DEF ServiceInv, NeverStalls
<1> QED BY <1>1, ServiceAlways, PTL

\* While an attempt is in progress m_timer is armed or its handler posted, so
\* on_timeout will look at it, also when entries came and went between the
\* two locks of an earlier on_timeout.
THEOREM TimerAlwaysCovers == Spec => []TimerCoversConnecting
<1>1. ServiceInv => TimerCoversConnecting
  BY DEF ServiceInv, Covered, TimerCoversConnecting
<1> QED BY <1>1, ServiceAlways, PTL
=============================================================================

--------------------------- MODULE ConnectionQueue ---------------------------
(***************************************************************************)
(* libtorrent's connection_queue: the half-open connection limiter that    *)
(* every outgoing TCP connection waits in (src/connection_queue.cpp), with *)
(* the peer_connections that use it (connect, on_connection_complete,      *)
(* timed_out and disconnect in src/peer_connection.cpp).                   *)
(*                                                                         *)
(* m_queue is split by the `connecting' flag of its entries: `waiting'     *)
(* keeps the order of those not started, `connecting' is the set of the    *)
(* started ones.  An entry is named by the client that queued it; a client *)
(* is reused (Recycle) only when nothing refers to it any more, which is   *)
(* what the ever increasing ticket gives the code.                         *)
(*                                                                         *)
(* Two threads act: the network thread runs on_timeout and the completion  *)
(* handlers, a user thread queues, disconnects, changes the limit and      *)
(* closes.  m_mutex is held from a call of try_connect until the last      *)
(* on_connect of its batch returns, i.e. while toConnect is not empty.     *)
(* close() keeps the session's mutex for as long as it runs.               *)
(***************************************************************************)
EXTENDS Integers, SequencesExt, FiniteSets

CONSTANTS
  Clients,       \* the objects that queue a connection attempt
  HighPriority,  \* those that queue with priority 1: pushed to the front
  Timeouts,      \* the timeouts an attempt is queued with, in ticks
  Limits,        \* the values limit() is called with; 0 is no limit
  MaxPosted      \* bound: timer handlers waiting in the io_service

ASSUME ConstantsAssumption ==
  /\ HighPriority \subseteq Clients
  /\ Timeouts \subseteq Nat \ {0}
  /\ Limits \subseteq Nat
  /\ MaxPosted \in Nat \ {0}

VARIABLES
  waiting,        \* entries of m_queue with connecting == false, in order
  connecting,     \* entries of m_queue with connecting == true
  left,           \* waiting: the entry's timeout; connecting: expires - now
  numConnecting,  \* m_num_connecting
  limit,          \* m_half_open_limit
  aborted,        \* m_abort
  timer,          \* time until m_timer expires, Off when nothing waits on it
  posted,         \* expired waits of m_timer whose handler has not run yet
  toConnect,      \* on_connect calls still to make, m_mutex held
  handler,        \* on_timeout: "idle", "callbacks" (between its two locks)
                  \* or "starting" (its try_connect makes toConnect's calls)
  timedOut,       \* on_timeout: entries whose on_timeout is still to be called
  nextExpire,     \* on_timeout: next_expire - now, Off for max_time
  closing,        \* close() runs and holds the session mutex
  closed,         \* close(): the popped entry whose callback comes next, if any
  client          \* the state of each client's connection object

vars == <<waiting, connecting, left, numConnecting, limit, aborted, timer,
          posted, toConnect, handler, timedOut, nextExpire, closing, closed,
          client>>

queueVars   == <<waiting, connecting, left, numConnecting, timer, toConnect>>
handlerVars == <<handler, timedOut, nextExpire>>
closeVars   == <<closing, closed>>

Off == -1

Queued == ToSet(waiting) \cup connecting

MutexFree == toConnect = <<>>

ClientStates == {"idle", "queued", "connecting", "connected", "closed"}

-----------------------------------------------------------------------------
(***************************************************************************)
(* try_connect.  The arguments are m_queue as the caller leaves it (w and  *)
(* conn), the timeouts tl of the waiting entries, m_num_connecting, the    *)
(* timer, and the on_connect calls an outer try_connect has still to make: *)
(* a callback may re-enter through done(), whose batch is called first.    *)
(***************************************************************************)

AtLimit(num) == limit > 0 /\ num >= limit

\* Fault: the loop of try_connect does not stop at the limit.
BatchSizeUnlimited(w, num) == Len(w)

BatchSize(w, num) ==
  IF limit = 0 \/ limit - num > Len(w) THEN Len(w) ELSE limit - num

\* Only an entry that finds nothing connecting arms the timer.
TimerAfterStart(num, tm, tl, batch) == IF num = 0 THEN tl[Head(batch)] ELSE tm

StartBatch(w, conn, num, tl, tm, outer) ==
  LET n == BatchSize(w, num)
      batch == SubSeq(w, 1, n)
  IN  /\ waiting' = SubSeq(w, n + 1, Len(w))
      /\ connecting' = conn \cup ToSet(batch)
      /\ numConnecting' = num + n
      /\ timer' = TimerAfterStart(num, tm, tl, batch)
      /\ toConnect' = batch \o outer

StartNothing(w, conn, num, tm, outer) ==
  /\ waiting' = w
  /\ connecting' = conn
  /\ numConnecting' = num
  /\ timer' = tm
  /\ toConnect' = outer

TryConnect(w, conn, num, tl, tm, outer) ==
  IF aborted \/ AtLimit(num) THEN StartNothing(w, conn, num, tm, outer)
  ELSE IF w = <<>>
  THEN StartNothing(w, conn, num, IF conn = {} THEN Off ELSE tm, outer)
  ELSE StartBatch(w, conn, num, tl, tm, outer)

\* Fault: done() counts down without looking for the entry.
DoneUnchecked(c, outer) ==
  TryConnect(waiting, connecting \ {c}, numConnecting - 1, left, timer, outer)

\* Fault: done() erases the entry and forgets m_num_connecting.
DoneUncounted(c, outer) ==
  IF c \in connecting
  THEN TryConnect(waiting, connecting \ {c}, numConnecting, left, timer, outer)
  ELSE StartNothing(waiting, connecting, numConnecting, timer, outer)

\* done(ticket); an entry on_timeout or close() took out is not found.
Done(c, outer) ==
  IF c \in connecting
  THEN TryConnect(waiting, connecting \ {c}, numConnecting - 1, left, timer, outer)
  ELSE StartNothing(waiting, connecting, numConnecting, timer, outer)

-----------------------------------------------------------------------------
Init ==
  /\ waiting = <<>>
  /\ connecting = {}
  /\ left = [c \in Clients |-> 0]
  /\ numConnecting = 0
  /\ limit \in Limits
  /\ aborted = FALSE
  /\ timer = Off
  /\ posted = 0
  /\ toConnect = <<>>
  /\ handler = "idle"
  /\ timedOut = {}
  /\ nextExpire = Off
  /\ closing = FALSE
  /\ closed = {}
  /\ client = [c \in Clients |-> "idle"]

-----------------------------------------------------------------------------
(***************************************************************************)
(* Both threads, through the session: each of these holds the session      *)
(* mutex and, where it touches the queue, m_mutex.                         *)
(***************************************************************************)

\* torrent::connect_to_peer ends in enqueue().
Enqueue(c, t) ==
  /\ MutexFree /\ ~closing
  /\ client[c] = "idle"
  /\ client' = [client EXCEPT ![c] = "queued"]
  /\ left' = [left EXCEPT ![c] = t]
  /\ LET w == IF c \in HighPriority THEN <<c>> \o waiting ELSE Append(waiting, c)
     IN  TryConnect(w, connecting, numConnecting, left', timer, <<>>)
  /\ UNCHANGED <<limit, aborted, posted, handlerVars, closeVars>>

\* disconnect(): done() only when connect() has given the client its ticket.
\* An on_connect batch excludes it, except on_timeout's, which is run without
\* the session mutex.
Disconnect(c) ==
  /\ ~closing
  /\ MutexFree \/ handler = "starting"
  /\ client[c] \in {"queued", "connecting", "connected"}
  /\ client' = [client EXCEPT ![c] = "closed"]
  /\ IF client[c] = "connecting"
     THEN MutexFree /\ Done(c, <<>>)
     ELSE UNCHANGED queueVars
  /\ UNCHANGED <<left, limit, aborted, posted, handlerVars, closeVars>>

\* limit() only stores the value; it takes no lock and starts nothing.
SetLimit(n) ==
  /\ n # limit
  /\ limit' = n
  /\ UNCHANGED <<queueVars, left, aborted, posted, handlerVars, closeVars, client>>

\* The last reference to a closed connection goes and its object with it.
Recycle(c) ==
  /\ client[c] = "closed"
  /\ c \notin Queued \cup timedOut \cup closed
  /\ client' = [client EXCEPT ![c] = "idle"]
  /\ UNCHANGED <<queueVars, left, limit, aborted, posted, handlerVars, closeVars>>

-----------------------------------------------------------------------------
(***************************************************************************)
(* The on_connect callbacks of try_connect, in whichever thread called it. *)
(***************************************************************************)

BatchDone ==
  handler' = IF handler = "starting" /\ toConnect' = <<>> THEN "idle" ELSE handler

\* peer_connection::connect on a live peer: the socket starts to connect.
ConnectStarts ==
  /\ toConnect # <<>>
  /\ client[Head(toConnect)] = "queued"
  /\ client' = [client EXCEPT ![Head(toConnect)] = "connecting"]
  /\ toConnect' = Tail(toConnect)
  /\ BatchDone
  /\ UNCHANGED <<waiting, connecting, left, numConnecting, limit, aborted,
                 timer, posted, timedOut, nextExpire, closeVars>>

\* The socket cannot be opened or bound: disconnect(), so done(), at once.
ConnectFails ==
  /\ toConnect # <<>>
  /\ client[Head(toConnect)] = "queued"
  /\ client' = [client EXCEPT ![Head(toConnect)] = "closed"]
  /\ Done(Head(toConnect), Tail(toConnect))
  /\ BatchDone
  /\ UNCHANGED <<left, limit, aborted, posted, timedOut, nextExpire, closeVars>>

\* A peer disconnected while it was queued has no torrent; its second
\* disconnect() returns before done(), and the slot stays taken.
ConnectOnClosed ==
  /\ toConnect # <<>>
  /\ client[Head(toConnect)] = "closed"
  /\ toConnect' = Tail(toConnect)
  /\ BatchDone
  /\ UNCHANGED <<waiting, connecting, left, numConnecting, limit, aborted,
                 timer, posted, timedOut, nextExpire, closeVars, client>>

-----------------------------------------------------------------------------
(***************************************************************************)
(* The network thread.                                                     *)
(***************************************************************************)

\* Fault: on_connection_complete does not lock the session.
ConnectionCompleteUnlocked(c, outcome) ==
  /\ MutexFree /\ handler = "idle"
  /\ client[c] = "connecting"
  /\ client' = [client EXCEPT ![c] = outcome]
  /\ Done(c, <<>>)
  /\ UNCHANGED <<left, limit, aborted, posted, handlerVars, closeVars>>

\* on_connection_complete: m_connecting is cleared before done(), so the
\* disconnect() of a failed attempt does not call it again.  It holds the
\* session's mutex, so it waits for close(); the callbacks of http_connection,
\* which do not hold it, are not among these.
ConnectionComplete(c, outcome) ==
  /\ MutexFree /\ ~closing /\ handler = "idle"
  /\ client[c] = "connecting"
  /\ client' = [client EXCEPT ![c] = outcome]
  /\ Done(c, <<>>)
  /\ UNCHANGED <<left, limit, aborted, posted, handlerVars, closeVars>>

LateEntries == {c \in connecting : left[c] < 0}

Earliest(S) ==
  IF S = {} THEN Off
  ELSE CHOOSE t \in {left[c] : c \in S} : \A c \in S : t <= left[c]

\* Fault: on_timeout removes the late entries and calls none of them.
OnTimeoutBeginSilent ==
  /\ MutexFree /\ handler = "idle" /\ posted > 0
  /\ posted' = posted - 1
  /\ handler' = "callbacks"
  /\ connecting' = connecting \ LateEntries
  /\ numConnecting' = numConnecting - Cardinality(LateEntries)
  /\ nextExpire' = Earliest(connecting \ LateEntries)
  /\ UNCHANGED <<waiting, left, limit, aborted, timer, toConnect, timedOut,
                 closeVars, client>>

\* on_timeout up to the unlock.
OnTimeoutBegin ==
  /\ MutexFree /\ handler = "idle" /\ posted > 0
  /\ posted' = posted - 1
  /\ handler' = "callbacks"
  /\ timedOut' = LateEntries
  /\ connecting' = connecting \ LateEntries
  /\ numConnecting' = numConnecting - Cardinality(LateEntries)
  /\ nextExpire' = Earliest(connecting \ LateEntries)
  /\ UNCHANGED <<waiting, left, limit, aborted, timer, toConnect, closeVars, client>>

\* on_timeout without the lock: timed_out(), so disconnect(), whose done()
\* finds no entry.  disconnect() waits for the session mutex.
TimeoutCallback(c) ==
  /\ handler = "callbacks" /\ c \in timedOut /\ ~closing /\ MutexFree
  /\ timedOut' = timedOut \ {c}
  /\ client' = [client EXCEPT ![c] = "closed"]
  /\ UNCHANGED <<queueVars, left, limit, aborted, posted, handler, nextExpire, closeVars>>

\* Fault: on_timeout does not wait for the entries that are not late.
OnTimeoutEndUnarmed ==
  /\ MutexFree /\ handler = "callbacks" /\ timedOut = {}
  /\ nextExpire' = Off
  /\ TryConnect(waiting, connecting, numConnecting, left, timer, <<>>)
  /\ handler' = IF toConnect' = <<>> THEN "idle" ELSE "starting"
  /\ UNCHANGED <<left, limit, aborted, posted, timedOut, closeVars, client>>

\* Fault: on_timeout frees slots and starts nothing in them.
OnTimeoutEndNoStart ==
  /\ MutexFree /\ handler = "callbacks" /\ timedOut = {}
  /\ nextExpire' = Off
  /\ timer' = IF nextExpire = Off THEN timer ELSE nextExpire
  /\ handler' = "idle"
  /\ UNCHANGED <<waiting, connecting, numConnecting, toConnect, left, limit,
                 aborted, posted, timedOut, closeVars, client>>

\* on_timeout from the second lock on: wait for the next_expire it found
\* before the callbacks, and start what the timeouts made room for.
OnTimeoutEnd ==
  /\ MutexFree /\ handler = "callbacks" /\ timedOut = {}
  /\ nextExpire' = Off
  /\ TryConnect(waiting, connecting, numConnecting, left,
                IF nextExpire = Off THEN timer ELSE nextExpire, <<>>)
  /\ handler' = IF toConnect' = <<>> THEN "idle" ELSE "starting"
  /\ UNCHANGED <<left, limit, aborted, posted, timedOut, closeVars, client>>

-----------------------------------------------------------------------------
(***************************************************************************)
(* close(), called once from session_impl::abort with the session mutex.   *)
(***************************************************************************)

CloseBegin ==
  /\ MutexFree /\ ~closing /\ ~aborted
  /\ aborted' = TRUE
  /\ closing' = TRUE
  /\ timer' = Off
  /\ UNCHANGED <<waiting, connecting, left, numConnecting, limit, posted,
                 toConnect, handlerVars, closed, client>>

\* Pop the first entry of m_queue; the lock is given up before its callback.
ClosePop(c) ==
  /\ closing /\ MutexFree /\ closed = {}
  /\ c \in connecting \/ (waiting # <<>> /\ c = Head(waiting))
  /\ closed' = {c}
  /\ IF c \in connecting
     THEN /\ connecting' = connecting \ {c}
          /\ numConnecting' = numConnecting - 1
          /\ UNCHANGED waiting
     ELSE /\ waiting' = Tail(waiting)
          /\ UNCHANGED <<connecting, numConnecting>>
  /\ UNCHANGED <<left, limit, aborted, timer, posted, toConnect, handlerVars,
                 closing, client>>

CloseCallback(c) ==
  /\ closing /\ MutexFree /\ c \in closed
  /\ closed' = {}
  /\ client' = [client EXCEPT ![c] = "closed"]
  /\ UNCHANGED <<queueVars, left, limit, aborted, posted, handlerVars, closing>>

CloseEnd ==
  /\ closing /\ MutexFree /\ closed = {} /\ Queued = {}
  /\ closing' = FALSE
  /\ UNCHANGED <<queueVars, left, limit, aborted, posted, handlerVars, closed, client>>

-----------------------------------------------------------------------------
(***************************************************************************)
(* Time and the deadline timer.  A wait that has expired is a handler in   *)
(* the io_service, which a later expires_at or cancel no longer reaches.   *)
(***************************************************************************)

Before(t, floor) == IF t > floor THEN t - 1 ELSE t

\* Every stored expiry comes one tick closer; only `expires < now' and the
\* order of expiries matter, so an entry stops at one tick late.
Tick ==
  /\ left' = [c \in Clients |-> IF c \in connecting THEN Before(left[c], -1) ELSE left[c]]
  /\ timer' = Before(timer, 0)
  /\ nextExpire' = Before(nextExpire, 0)
  /\ UNCHANGED <<waiting, connecting, numConnecting, limit, aborted, posted,
                 toConnect, handler, timedOut, closeVars, client>>

TimerExpires ==
  /\ timer = 0 /\ posted < MaxPosted
  /\ timer' = Off
  /\ posted' = posted + 1
  /\ UNCHANGED <<waiting, connecting, left, numConnecting, limit, aborted,
                 toConnect, handlerVars, closeVars, client>>

-----------------------------------------------------------------------------
Callbacks == ConnectStarts \/ ConnectFails \/ ConnectOnClosed

CloseStep == \/ CloseEnd
             \/ \E c \in Clients : ClosePop(c) \/ CloseCallback(c)

OnTimeout == \/ OnTimeoutBegin
             \/ OnTimeoutEnd
             \/ \E c \in Clients : TimeoutCallback(c)

Next ==
  \/ \E c \in Clients, t \in Timeouts : Enqueue(c, t)
  \/ \E c \in Clients : Disconnect(c)
  \/ \E c \in Clients : Recycle(c)
  \/ \E n \in Limits : SetLimit(n)
  \/ Callbacks
  \/ \E c \in Clients, o \in {"connected", "closed"} : ConnectionComplete(c, o)
  \/ OnTimeout
  \/ CloseBegin
  \/ CloseStep
  \/ Tick
  \/ TimerExpires

\* What the threads and the clock do by themselves.  Nothing forces a peer
\* to answer, a user to act or the session to close.  on_timeout and close()
\* wait for mutexes that other calls keep taking and giving back: strong
\* fairness is the promise that a thread waiting for a mutex gets it.
Fairness ==
  /\ WF_vars(Callbacks)
  /\ SF_vars(OnTimeout)
  /\ SF_vars(CloseStep)
  /\ WF_vars(Tick)
  /\ WF_vars(TimerExpires)

Spec == Init /\ [][Next]_vars /\ Fairness

-----------------------------------------------------------------------------
(***************************************************************************)
(* Properties.  The operators marked `Fault' are not part of Spec: each is *)
(* a slip in the code that one of these properties notices.                *)
(***************************************************************************)

\* What the fields of the queue, of its threads and of its clients can be.
TypeOK ==
  /\ waiting \in Seq(Clients)
  /\ connecting \subseteq Clients
  /\ left \in [Clients -> Nat \cup {-1}]
  /\ numConnecting \in Nat
  /\ limit \in Limits
  /\ aborted \in BOOLEAN
  /\ timer \in Nat \cup {Off}
  /\ posted \in 0..MaxPosted
  /\ toConnect \in Seq(Clients)
  /\ handler \in {"idle", "callbacks", "starting"}
  /\ timedOut \subseteq Clients
  /\ nextExpire \in Nat \cup {Off}
  /\ closing \in BOOLEAN
  /\ closed \subseteq Clients
  /\ client \in [Clients -> ClientStates]

\* m_num_connecting is the number of started entries (check_invariant), also
\* between the locks of on_timeout and of close() and inside re-entrant calls.
NumConnectingExact == numConnecting = Cardinality(connecting)

\* No step takes a slot beyond the limit in force, whoever calls try_connect
\* and however many calls of it are nested.
SlotsWithinLimit ==
  [][numConnecting' > numConnecting => limit = 0 \/ numConnecting' <= limit]_vars

\* While an attempt is in progress the timer will call on_timeout: only the
\* entry that finds none arms it, and on_timeout re-arms it with a
\* next_expire read before its callbacks ran.
TimerCoversConnecting ==
  (connecting # {} /\ ~aborted /\ handler = "idle") => timer # Off \/ posted > 0

\* Entries wait only while an attempt is in progress, whose end calls
\* try_connect again: the queue cannot stall with free slots.
NeverStalls ==
  (waiting # <<>> /\ ~aborted /\ handler = "idle") => connecting # {}

\* A live attempt is counted, or about to be told it timed out: no half-open
\* socket escapes the limit and the timeout.
LiveAttemptIsTracked ==
  \A c \in Clients : client[c] = "connecting" => c \in connecting \cup timedOut \cup closed

\* timed_out() asserts m_connecting: a client whose entry has been taken out
\* for its timeout callback cannot become connected before the callback.
TimedOutStillConnecting ==
  \A c \in timedOut \cup closed : client[c] \notin {"idle", "connected"}

\* Every started attempt gives its slot back, also the one of a peer that was
\* disconnected in the queue and never calls done().
EveryAttemptEnds ==
  \A c \in Clients : c \in connecting ~> c \notin connecting

\* Every queued attempt is started, until the queue is closed.
WaitingIsServed ==
  \A c \in Clients : c \in ToSet(waiting) ~> (c \notin ToSet(waiting) \/ aborted)
=============================================================================

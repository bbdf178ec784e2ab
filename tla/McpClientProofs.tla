--------------------------- MODULE McpClientProofs ---------------------------
(***************************************************************************)
(* The calls of WSClient get their own replies, and connections follow one *)
(* another, for any number of calls and connections.                       *)
(***************************************************************************)
EXTENDS McpClient, FiniteSetTheorems, TLAPS

Submitted == {k \in Calls : call[k].id # 0}

(* Ids are given once, in the order of the requests.                       *)
IdsTrue ==
    /\ nextId = Cardinality(Submitted) + 1
    /\ \A k \in Calls :
          /\ call[k].id < nextId
          /\ call[k].at \in {"idle", "locking", "connecting"} => call[k].id = 0
          /\ call[k].at \in {"sending", "waiting"} => call[k].id # 0
    /\ \A j, k \in Calls : call[j].id = call[k].id /\ call[j].id # 0 => j = k

(* A future that is done was given out, and is no longer in the table, but *)
(* for that of a call dropped by its caller.                               *)
FuturesTrue ==
    \A k \in Calls :
        call[k].fut \in {"set", "cancelled"} => call[k].id \notin pending /\ call[k].id # 0

(* The server answers only what was sent.                                  *)
AnswersTrue ==
    /\ served \subseteq Submitted
    /\ wire \in [Sockets -> Seq(Submitted)]

(* A connection that is there has had a reader, which goes on while it is  *)
(* open, and every request has one of them.                                *)
ReadersTrue ==
    /\ \A s \in Sockets : /\ sock[s].state = "none" <=> sock[s].reader = "none"
                          /\ sock[s].state = "open" => sock[s].reader = "reading" \/ overlapped
    /\ ws # 0 => sock[ws].state # "none"
    /\ \A k \in Submitted : call[k].sock # 0 /\ sock[call[k].sock].state # "none"

(* Who connects is alone, and nothing is open behind his back.             *)
LockTrue ==
    \A k \in Calls : call[k].at = "connecting" => lock = {k} /\ ~ IsOpen

(* Unless a reader outlived its connection, there is one of either.        *)
OneReader ==
    overlapped \/ \A s, t \in Sockets :
                     sock[s].reader = "reading" /\ sock[t].reader = "reading" => s = t

OpenIsCurrent == overlapped \/ \A s \in Sockets : sock[s].state = "open" => s = ws

CallType == [at : {"idle", "locking", "connecting", "sending", "waiting",
                   "reply", "timeout", "cancelled", "failed", "unreachable", "dropped"},
             id : Ids \cup {0}, sock : Sockets \cup {0},
             fut : {"open", "set", "cancelled", "dropped"}, got : SUBSET Calls]

SockType == [state : {"none", "open", "closing", "closed"},
             clean : BOOLEAN, reader : {"none", "reading", "done"}]

Typed ==
    /\ sock \in [Sockets -> SockType] /\ ws \in Sockets \cup {0}
    /\ lock \subseteq Calls /\ Cardinality(lock) <= 1
    /\ call \in [Calls -> CallType]
    /\ pending \subseteq Ids /\ served \subseteq Calls /\ leaked \subseteq Ids
    /\ nextId \in 1 .. Cardinality(Calls) + 1
    /\ wire \in [Sockets -> Seq(Calls)]
    /\ shut \in BOOLEAN /\ overlapped \in BOOLEAN

PendingTrue ==
    \A id \in pending :
        \/ \E k \in Calls : call[k].id = id /\ call[k].at \in {"sending", "waiting"}
        \/ id \in leaked

ClientInv ==
    /\ Typed /\ IdsTrue /\ FuturesTrue /\ AnswersTrue
    /\ OwnReply /\ PendingTrue
    /\ ReadersTrue /\ LockTrue /\ OneReader /\ OpenIsCurrent /\ CancelledForCause

LEMMA Numbers ==
    /\ IsFiniteSet(Calls) /\ Cardinality(Calls) \in Nat
    /\ 0 \notin Ids /\ 0 \notin Sockets
  BY ClientAssumption, FS_CardinalityType DEF Ids, Sockets

LEMMA ClientStarts == Init => ClientInv
  <1> SUFFICES ASSUME Init PROVE ClientInv
    OBVIOUS
  <1>1. Submitted = {}
    BY DEF Init, Idle, Submitted
  <1>2. Cardinality(Submitted) = 0 /\ Cardinality({}) = 0
    BY <1>1, FS_EmptySet
  <1>3. Typed
    <2>1. Idle \in CallType
      BY Numbers DEF Idle, CallType
    <2>2. call \in [Calls -> CallType] /\ nextId \in 1 .. Cardinality(Calls) + 1
      BY <2>1, Numbers DEF Init
    <2>3. sock \in [Sockets -> SockType] /\ ws \in Sockets \cup {0}
      BY DEF Init, SockType
    <2>4. wire \in [Sockets -> Seq(Calls)]
      BY DEF Init
    <2>5. lock = {} /\ Cardinality(lock) <= 1
      BY <1>2 DEF Init
    <2> QED
      BY <2>2, <2>3, <2>4, <2>5 DEF Init, Typed
  <1>4. IdsTrue /\ FuturesTrue /\ OwnReply /\ CancelledForCause /\ LockTrue
    BY <1>2, Numbers DEF Init, Idle, IdsTrue, FuturesTrue, OwnReply, CancelledForCause, LockTrue
  <1>5. AnswersTrue /\ PendingTrue
    BY <1>1 DEF Init, AnswersTrue, PendingTrue
  <1>6. ReadersTrue /\ OneReader /\ OpenIsCurrent
    BY <1>1 DEF Init, ReadersTrue, OneReader, OpenIsCurrent
  <1> QED
    BY <1>3, <1>4, <1>5, <1>6 DEF ClientInv
-----------------------------------------------------------------------------
(* What a request disturbs, when call k makes it on a connection that is   *)
(* there.                                                                  *)
LEMMA SubmitKeeps ==
    ASSUME ClientInv, NEW k \in Calls, NEW s \in Sockets, Submit(k, s), call[k].id = 0,
           UNCHANGED wire, UNCHANGED leaked
    PROVE  /\ call' \in [Calls -> CallType] /\ pending' \subseteq Ids /\ served' \subseteq Calls
           /\ nextId' \in 1 .. Cardinality(Calls) + 1
           /\ Submitted' = Submitted \cup {k}
           /\ IdsTrue' /\ FuturesTrue' /\ AnswersTrue' /\ OwnReply' /\ PendingTrue'
           /\ \A j \in Calls : j # k => call'[j] = call[j]
           /\ call'[k].at = "sending" /\ call'[k].fut = "open" /\ call'[k].sock = s
  <1> DEFINE new == [at |-> "sending", id |-> nextId, sock |-> s, fut |-> "open", got |-> {}]
  <1>1. /\ call \in [Calls -> CallType] /\ nextId \in 1 .. Cardinality(Calls) + 1
        /\ pending \subseteq Ids /\ served \subseteq Calls /\ leaked \subseteq Ids
    BY DEF ClientInv, Typed
  <1>2. /\ call' = [call EXCEPT ![k] = new] /\ nextId' = nextId + 1
        /\ pending' = pending \cup {nextId} /\ served' = served \cup {k}
    BY DEF Submit
  <1>3. nextId \in Ids
    <2>1. Submitted \subseteq Calls \ {k}
      BY DEF Submitted
    <2>2. IsFiniteSet(Calls \ {k}) /\ Cardinality(Calls \ {k}) = Cardinality(Calls) - 1
      BY Numbers, FS_RemoveElement
    <2>3. Cardinality(Submitted) <= Cardinality(Calls) - 1 /\ Cardinality(Submitted) \in Nat
      BY <2>1, <2>2, FS_Subset, FS_CardinalityType
    <2> QED
      BY <1>1, <2>3, Numbers DEF ClientInv, IdsTrue, Ids
  <1>4. new \in CallType /\ new.at = "sending" /\ new.id = nextId /\ new.fut = "open" /\ new.sock = s
    BY <1>3 DEF CallType
  <1> HIDE DEF new
  <1>5. /\ call' \in [Calls -> CallType] /\ call'[k] = new
        /\ \A j \in Calls : j # k => call'[j] = call[j]
    BY <1>1, <1>2, <1>4
  <1>6. nextId # 0 /\ nextId \in Nat /\ nextId' \in 1 .. Cardinality(Calls) + 1
    BY <1>2, <1>3, Numbers DEF Ids
  <1>7. Submitted' = Submitted \cup {k} /\ k \notin Submitted
    BY <1>4, <1>5, <1>6 DEF Submitted
  <1>8. Cardinality(Submitted') = Cardinality(Submitted) + 1 /\ Cardinality(Submitted) \in Nat
    <2>1. IsFiniteSet(Submitted)
      BY Numbers, FS_Subset DEF Submitted
    <2> QED
      BY <1>7, <2>1, FS_AddElement, FS_CardinalityType
  <1>9. \A j \in Calls : call[j].id \in Nat /\ call[j].id < nextId
    BY <1>1, Numbers DEF ClientInv, IdsTrue, CallType, Ids
  <1>10. IdsTrue'
    <2>1. nextId' = Cardinality(Submitted') + 1
      BY <1>2, <1>8 DEF ClientInv, IdsTrue
    <2>2. \A j \in Calls : /\ call'[j].id < nextId'
                           /\ call'[j].at \in {"idle", "locking", "connecting"} => call'[j].id = 0
                           /\ call'[j].at \in {"sending", "waiting"} => call'[j].id # 0
      BY <1>2, <1>4, <1>5, <1>6, <1>9 DEF ClientInv, IdsTrue
    <2>3. \A i, j \in Calls : call'[i].id = call'[j].id /\ call'[i].id # 0 => i = j
      BY <1>4, <1>5, <1>6, <1>9 DEF ClientInv, IdsTrue
    <2> QED
      BY <2>1, <2>2, <2>3 DEF IdsTrue
  <1>11. FuturesTrue'
    BY <1>2, <1>4, <1>5, <1>6, <1>9 DEF ClientInv, FuturesTrue
  <1>12. AnswersTrue'
    <2>1. wire' = wire /\ wire \in [Sockets -> Seq(Submitted)] /\ Submitted \subseteq Submitted'
      BY <1>7 DEF ClientInv, AnswersTrue
    <2>2. wire' \in [Sockets -> Seq(Submitted')]
      BY <2>1
    <2> QED
      BY <1>2, <1>7, <2>2 DEF ClientInv, AnswersTrue
  <1>13. OwnReply'
    BY <1>4, <1>5 DEF ClientInv, OwnReply
  <1>14. PendingTrue'
    <2>1. \A id \in pending :
             \/ \E j \in Calls : call[j].id = id /\ call[j].at \in {"sending", "waiting"}
             \/ id \in leaked
      BY DEF ClientInv, PendingTrue
    <2>2. ASSUME NEW id \in pending
          PROVE  \/ \E j \in Calls : call'[j].id = id /\ call'[j].at \in {"sending", "waiting"}
                 \/ id \in leaked
      <3>1. id # 0
        BY <1>1, Numbers
      <3> QED
        BY <1>5, <2>1, <3>1
    <2>3. call'[k].id = nextId /\ call'[k].at \in {"sending", "waiting"}
      BY <1>4, <1>5
    <2> QED
      BY <1>2, <2>2, <2>3 DEF PendingTrue
  <1> QED
    BY <1>2, <1>3, <1>4, <1>5, <1>6, <1>7, <1>10, <1>11, <1>12, <1>13, <1>14, <1>1
-----------------------------------------------------------------------------
(* Steps that change no id: those of calls that await something, and those *)
(* of the reader.                                                          *)
LEMMA SameIds ==
    ASSUME ClientInv, call' \in [Calls -> CallType], nextId' = nextId,
           \A k \in Calls : call'[k].id = call[k].id
    PROVE  /\ Submitted' = Submitted
           /\ nextId' = Cardinality(Submitted') + 1
           /\ \A k \in Calls : call'[k].id < nextId'
           /\ \A j, k \in Calls : call'[j].id = call'[k].id /\ call'[j].id # 0 => j = k
  <1>1. Submitted' = Submitted
    BY DEF Submitted
  <1> QED
    BY <1>1 DEF ClientInv, IdsTrue

(* A call that gives up or comes back keeps what it had, or its lock.      *)
LEMMA CallMoves ==
    ASSUME ClientInv, NEW k \in Calls, NEW to \in {"waiting", "reply", "timeout", "cancelled",
                                                  "failed", "unreachable"},
           call' = [call EXCEPT ![k].at = to],
           call[k].at \in {"sending", "waiting", "connecting"},
           call[k].at = "connecting" => to = "unreachable",
           nextId' = nextId, lock' \in {lock, lock \ {k}},
           call[k].at # "connecting" => lock' = lock,
           call[k].at = "connecting" => lock' = lock \ {k},
           UNCHANGED <<sock, ws, served, wire, shut, overlapped>>,
           pending' \subseteq pending, leaked' \subseteq Ids,
           leaked \subseteq leaked',
           to # "waiting" => call[k].id \notin pending' \/ call[k].id \in leaked'
    PROVE  ClientInv'
  <1>1. Typed
    BY DEF ClientInv
  <1>2. /\ call' \in [Calls -> CallType]
        /\ \A j \in Calls : /\ call'[j].id = call[j].id /\ call'[j].sock = call[j].sock
                            /\ call'[j].fut = call[j].fut /\ call'[j].got = call[j].got
                            /\ j # k => call'[j].at = call[j].at
        /\ call'[k].at = to
    BY <1>1 DEF Typed, CallType
  <1>3. /\ Submitted' = Submitted
        /\ nextId' = Cardinality(Submitted') + 1
        /\ \A j \in Calls : call'[j].id < nextId'
        /\ \A i, j \in Calls : call'[i].id = call'[j].id /\ call'[i].id # 0 => i = j
    BY <1>2, SameIds
  <1>4. lock' \subseteq Calls /\ Cardinality(lock') <= 1
    <2>1. CASE lock' = lock
      BY <1>1, <2>1 DEF Typed
    <2>2. CASE call[k].at = "connecting"
      <3>1. lock' = {}
        BY <2>2 DEF ClientInv, LockTrue
      <3> QED
        BY <3>1, FS_EmptySet
    <2> QED
      BY <2>1, <2>2
  <1>5. Typed'
    BY <1>1, <1>2, <1>4 DEF Typed
  <1>6. IdsTrue'
    BY <1>2, <1>3 DEF ClientInv, IdsTrue
  <1>7. FuturesTrue' /\ OwnReply' /\ CancelledForCause'
    BY <1>2 DEF ClientInv, FuturesTrue, OwnReply, CancelledForCause
  <1>8. AnswersTrue' /\ ReadersTrue' /\ OneReader' /\ OpenIsCurrent'
    BY <1>2, <1>3 DEF ClientInv, AnswersTrue, ReadersTrue, OneReader, OpenIsCurrent, Submitted
  <1>9. PendingTrue'
    <2> SUFFICES ASSUME NEW id \in pending', id \notin leaked'
                 PROVE  \E j \in Calls : call'[j].id = id /\ call'[j].at \in {"sending", "waiting"}
      BY DEF PendingTrue
    <2>1. PICK j \in Calls : call[j].id = id /\ call[j].at \in {"sending", "waiting"}
      BY DEF ClientInv, PendingTrue
    <2> QED
      BY <1>2, <2>1
  <1>10. LockTrue'
    <2>1. IsOpen' = IsOpen
      BY DEF IsOpen
    <2> QED
      BY <1>2, <2>1 DEF ClientInv, LockTrue
  <1> QED
    BY <1>5, <1>6, <1>7, <1>8, <1>9, <1>10 DEF ClientInv

(* A call asks for the lock, or gets it and starts to connect.             *)
LEMMA CallQueues ==
    ASSUME ClientInv, NEW k \in Calls, NEW to \in {"locking", "connecting"},
           call' = [call EXCEPT ![k].at = to], call[k].at \in {"idle", "locking"},
           UNCHANGED <<nextId, pending, served, sock, ws, wire, shut, leaked, overlapped>>,
           to = "locking" => lock' = lock,
           to = "connecting" => lock = {} /\ lock' = {k} /\ ~ IsOpen
    PROVE  ClientInv'
  <1>1. Typed
    BY DEF ClientInv
  <1>2. /\ call' \in [Calls -> CallType]
        /\ \A j \in Calls : /\ call'[j].id = call[j].id /\ call'[j].sock = call[j].sock
                            /\ call'[j].fut = call[j].fut /\ call'[j].got = call[j].got
                            /\ j # k => call'[j].at = call[j].at
        /\ call'[k].at = to
    BY <1>1 DEF Typed, CallType
  <1>3. /\ Submitted' = Submitted
        /\ nextId' = Cardinality(Submitted') + 1
        /\ \A j \in Calls : call'[j].id < nextId'
        /\ \A i, j \in Calls : call'[i].id = call'[j].id /\ call'[i].id # 0 => i = j
    BY <1>2, SameIds
  <1>4. lock' \subseteq Calls /\ Cardinality(lock') <= 1
    <2>1. CASE to = "locking"
      BY <1>1, <2>1 DEF Typed
    <2>2. CASE to = "connecting"
      <3>1. lock' = {k} /\ Cardinality({k}) = 1
        BY <2>2, FS_Singleton
      <3> QED
        BY <3>1
    <2> QED
      BY <2>1, <2>2
  <1>5. Typed' /\ IdsTrue'
    BY <1>1, <1>2, <1>3, <1>4 DEF Typed, IdsTrue, ClientInv
  <1>6. LockTrue'
    <2>1. IsOpen' = IsOpen
      BY DEF IsOpen
    <2> QED
      BY <1>2, <2>1 DEF ClientInv, LockTrue
  <1>7. FuturesTrue' /\ OwnReply' /\ CancelledForCause' /\ PendingTrue'
    BY <1>2 DEF ClientInv, FuturesTrue, OwnReply, CancelledForCause, PendingTrue
  <1>8. AnswersTrue' /\ ReadersTrue' /\ OneReader' /\ OpenIsCurrent'
    BY <1>2, <1>3 DEF ClientInv, AnswersTrue, ReadersTrue, OneReader, OpenIsCurrent, Submitted
  <1> QED
    BY <1>5, <1>6, <1>7, <1>8 DEF ClientInv

(* A request on the connection that is open.                               *)
LEMMA CallSubmits ==
    ASSUME ClientInv, NEW k \in Calls, call[k].id = 0, IsOpen, Submit(k, ws),
           UNCHANGED <<sock, ws, lock, wire, shut, leaked, overlapped>>
    PROVE  ClientInv'
  <1>1. Typed /\ ws \in Sockets /\ sock[ws].state = "open"
    BY DEF ClientInv, IsOpen, Typed
  <1>2. /\ call' \in [Calls -> CallType] /\ pending' \subseteq Ids /\ served' \subseteq Calls
        /\ nextId' \in 1 .. Cardinality(Calls) + 1
        /\ Submitted' = Submitted \cup {k}
        /\ IdsTrue' /\ FuturesTrue' /\ AnswersTrue' /\ OwnReply' /\ PendingTrue'
        /\ \A j \in Calls : j # k => call'[j] = call[j]
        /\ call'[k].at = "sending" /\ call'[k].fut = "open" /\ call'[k].sock = ws
    BY <1>1, SubmitKeeps
  <1>3. Typed'
    BY <1>1, <1>2 DEF Typed
  <1>4. ReadersTrue'
    BY <1>1, <1>2, Numbers DEF ClientInv, ReadersTrue, Submitted
  <1>5. LockTrue' /\ OneReader' /\ OpenIsCurrent' /\ CancelledForCause'
    BY <1>2 DEF ClientInv, LockTrue, OneReader, OpenIsCurrent, CancelledForCause, IsOpen
  <1> QED
    BY <1>2, <1>3, <1>4, <1>5 DEF ClientInv
-----------------------------------------------------------------------------
(* One lemma for each action.                                              *)
LEMMA StepCall ==
    ASSUME ClientInv, NEW k \in Calls, Call(k)
    PROVE  ClientInv'
  <1>1. call[k].id = 0
    BY DEF ClientInv, IdsTrue, Call
  <1>2. CASE IsOpen
    BY <1>1, <1>2, CallSubmits DEF Call
  <1>3. CASE ~ IsOpen
    BY <1>3, CallQueues DEF Call
  <1> QED
    BY <1>2, <1>3

LEMMA StepLock ==
    ASSUME ClientInv, NEW k \in Calls, Lock(k)
    PROVE  ClientInv'
  <1>1. call[k].id = 0
    BY DEF ClientInv, IdsTrue, Lock
  <1>2. CASE IsOpen
    BY <1>1, <1>2, CallSubmits DEF Lock
  <1>3. CASE ~ IsOpen
    BY <1>3, CallQueues DEF Lock
  <1> QED
    BY <1>2, <1>3

LEMMA StepConnected ==
    ASSUME ClientInv, NEW k \in Calls, NEW s \in Sockets, Connected(k, s)
    PROVE  ClientInv'
  <1>1. /\ Typed /\ call[k].id = 0 /\ UNCHANGED wire /\ UNCHANGED leaked /\ Submit(k, s)
        /\ lock = {k} /\ ~ IsOpen /\ sock[s].state = "none" /\ sock[s].reader = "none"
    BY DEF ClientInv, IdsTrue, LockTrue, ReadersTrue, Connected, NewSocket
  <1>2. /\ call' \in [Calls -> CallType] /\ pending' \subseteq Ids /\ served' \subseteq Calls
        /\ nextId' \in 1 .. Cardinality(Calls) + 1
        /\ Submitted' = Submitted \cup {k}
        /\ IdsTrue' /\ FuturesTrue' /\ AnswersTrue' /\ OwnReply' /\ PendingTrue'
        /\ \A j \in Calls : j # k => call'[j] = call[j]
        /\ call'[k].at = "sending" /\ call'[k].fut = "open" /\ call'[k].sock = s
    BY <1>1, SubmitKeeps
  <1>3. /\ sock' = [sock EXCEPT ![s] = [state |-> "open", clean |-> FALSE, reader |-> "reading"]]
        /\ ws' = s /\ lock' = {} /\ shut' = shut
        /\ overlapped' = (overlapped \/ \E r \in Sockets : Orphan(r))
    BY <1>1 DEF Connected
  <1>4. /\ sock' \in [Sockets -> SockType]
        /\ sock'[s].state = "open" /\ sock'[s].reader = "reading"
        /\ \A r \in Sockets : r # s => sock'[r] = sock[r]
    BY <1>1, <1>3 DEF Typed, SockType
  <1>5. Typed'
    <2>1. Cardinality(lock') <= 1
      BY <1>3, FS_EmptySet
    <2> QED
      BY <1>1, <1>2, <1>3, <1>4, <2>1 DEF Typed
  <1>6. ReadersTrue'
    <2>1. \A r \in Sockets : /\ sock'[r].state = "none" <=> sock'[r].reader = "none"
                             /\ sock'[r].state = "open" => sock'[r].reader = "reading" \/ overlapped'
      <3>1. overlapped => overlapped'
        BY <1>3
      <3> QED
        BY <1>4, <3>1 DEF ClientInv, ReadersTrue
    <2>2. ws' # 0 /\ sock'[ws'].state # "none"
      BY <1>3, <1>4, Numbers
    <2>3. \A j \in Submitted' : call'[j].sock # 0 /\ sock'[call'[j].sock].state # "none"
      <3> SUFFICES ASSUME NEW j \in Submitted'
                   PROVE  call'[j].sock # 0 /\ sock'[call'[j].sock].state # "none"
        OBVIOUS
      <3>1. CASE j = k
        BY <1>2, <1>4, <3>1, Numbers
      <3>2. CASE j # k
        <4>1. j \in Submitted /\ j \in Calls /\ call'[j] = call[j]
          BY <1>2, <3>2 DEF Submitted
        <4>2. call[j].sock \in Sockets /\ sock[call[j].sock].state # "none"
          BY <1>1, <4>1 DEF ClientInv, ReadersTrue, Typed, CallType
        <4> QED
          BY <1>1, <1>4, <4>1, <4>2, Numbers
      <3> QED
        BY <3>1, <3>2
    <2> QED
      BY <2>1, <2>2, <2>3 DEF ReadersTrue
  <1>7. LockTrue'
    BY <1>1, <1>2, <1>3 DEF ClientInv, LockTrue
  <1>8. ~ overlapped' => \A r \in Sockets : sock[r].reader # "reading" /\ sock[r].state # "open"
    <2> SUFFICES ASSUME ~ overlapped', NEW r \in Sockets
                 PROVE  sock[r].reader # "reading" /\ sock[r].state # "open"
      OBVIOUS
    <2>1. ~ overlapped /\ ~ Orphan(r)
      BY <1>3
    <2>2. sock[r].state # "open"
      BY <1>1, <2>1, Numbers DEF ClientInv, OpenIsCurrent, IsOpen
    <2> QED
      BY <2>1, <2>2 DEF Orphan
  <1>9. OneReader' /\ OpenIsCurrent'
    BY <1>3, <1>4, <1>8 DEF OneReader, OpenIsCurrent
  <1>10. CancelledForCause'
    <2> SUFFICES ASSUME NEW j \in Calls, call'[j].fut = "cancelled", ~ overlapped'
                 PROVE  sock'[call'[j].sock].reader = "done"
      BY DEF CancelledForCause
    <2>1. j # k /\ call'[j] = call[j]
      BY <1>2
    <2>2. sock[call[j].sock].reader = "done"
      BY <1>3, <2>1 DEF ClientInv, CancelledForCause
    <2>3. call[j].sock \in Sockets
      BY <1>1, <2>1 DEF ClientInv, FuturesTrue, ReadersTrue, Submitted, Typed, CallType
    <2> QED
      BY <1>1, <1>4, <2>1, <2>2, <2>3
  <1> QED
    BY <1>2, <1>5, <1>6, <1>7, <1>9, <1>10 DEF ClientInv

LEMMA StepConnectTimesOut ==
    ASSUME ClientInv, NEW k \in Calls, ConnectTimesOut(k)
    PROVE  ClientInv'
  <1>1. call[k].id = 0 /\ pending \subseteq Ids /\ leaked \subseteq Ids
    BY DEF ClientInv, IdsTrue, ConnectTimesOut, Typed
  <1> QED
    BY <1>1, CallMoves, Numbers DEF ConnectTimesOut

LEMMA StepSent ==
    ASSUME ClientInv, NEW k \in Calls, Sent(k)
    PROVE  ClientInv'
  <1>1. leaked \subseteq Ids
    BY DEF ClientInv, Typed
  <1> QED
    BY <1>1, CallMoves DEF Sent

LEMMA StepSendFails ==
    ASSUME ClientInv, NEW k \in Calls, SendFails(k)
    PROVE  ClientInv'
  <1>1. leaked' \subseteq Ids
    BY DEF ClientInv, Typed, CallType, IdsTrue, SendFails
  <1> QED
    BY <1>1, CallMoves DEF SendFails

LEMMA StepReturn ==
    ASSUME ClientInv, NEW k \in Calls, Return(k)
    PROVE  ClientInv'
  <1>1. leaked \subseteq Ids /\ call[k].id \notin pending
    BY DEF ClientInv, Typed, FuturesTrue, Return
  <1> QED
    BY <1>1, CallMoves DEF Return

LEMMA StepTimeout ==
    ASSUME ClientInv, NEW k \in Calls, Timeout(k)
    PROVE  ClientInv'
  <1>1. leaked \subseteq Ids
    BY DEF ClientInv, Typed
  <1> QED
    BY <1>1, CallMoves DEF Timeout

(* A call that is dropped leaves its future behind, or had none yet.       *)
LEMMA StepAbandon ==
    ASSUME ClientInv, NEW k \in Calls, Abandon(k)
    PROVE  ClientInv'
  <1>1. Typed
    BY DEF ClientInv
  <1>2. /\ lock' = lock \ {k} /\ leaked' = leaked \cup ({call[k].id} \cap pending)
        /\ UNCHANGED <<sock, ws, pending, nextId, served, wire, shut, overlapped>>
    BY DEF Abandon
  <1>3. /\ call' \in [Calls -> CallType]
        /\ \A j \in Calls : /\ call'[j].id = call[j].id /\ call'[j].sock = call[j].sock
                            /\ call'[j].got = call[j].got
                            /\ call'[j].fut \in {call[j].fut, "dropped"}
                            /\ j # k => call'[j].at = call[j].at
        /\ call'[k].at = "dropped"
    <2>1. call[k] \in CallType
      BY <1>1 DEF Typed
    <2>2. PICK fut \in {call[k].fut, "dropped"} :
             call' = [call EXCEPT ![k].at = "dropped", ![k].fut = fut]
      BY DEF Abandon
    <2> QED
      BY <1>1, <2>1, <2>2 DEF Typed, CallType
  <1>4. /\ Submitted' = Submitted
        /\ nextId' = Cardinality(Submitted') + 1
        /\ \A j \in Calls : call'[j].id < nextId'
        /\ \A i, j \in Calls : call'[i].id = call'[j].id /\ call'[i].id # 0 => i = j
    BY <1>2, <1>3, SameIds
  <1>5. lock' \subseteq Calls /\ Cardinality(lock') <= 1
    <2>1. lock \subseteq Calls /\ Cardinality(lock) <= 1 /\ IsFiniteSet(lock)
      BY <1>1, Numbers, FS_Subset DEF Typed
    <2>2. Cardinality(lock') <= Cardinality(lock)
          /\ Cardinality(lock') \in Nat /\ Cardinality(lock) \in Nat
      BY <1>2, <2>1, FS_Subset, FS_CardinalityType
    <2> QED
      BY <1>2, <2>1, <2>2
  <1>6. Typed'
    BY <1>1, <1>2, <1>3, <1>5 DEF Typed
  <1>7. IdsTrue'
    BY <1>3, <1>4 DEF ClientInv, IdsTrue
  <1>8. FuturesTrue' /\ OwnReply' /\ CancelledForCause'
    BY <1>2, <1>3 DEF ClientInv, FuturesTrue, OwnReply, CancelledForCause
  <1>9. AnswersTrue' /\ ReadersTrue' /\ OneReader' /\ OpenIsCurrent'
    BY <1>2, <1>3, <1>4
       DEF ClientInv, AnswersTrue, ReadersTrue, OneReader, OpenIsCurrent, Submitted
  <1>10. PendingTrue'
    <2> SUFFICES ASSUME NEW id \in pending, id \notin leaked'
                 PROVE  \E j \in Calls : call'[j].id = id /\ call'[j].at \in {"sending", "waiting"}
      BY <1>2 DEF PendingTrue
    <2>1. PICK j \in Calls : call[j].id = id /\ call[j].at \in {"sending", "waiting"}
      BY <1>2 DEF ClientInv, PendingTrue
    <2>2. j # k
      BY <1>2, <2>1
    <2> QED
      BY <1>3, <2>1, <2>2
  <1>11. LockTrue'
    <2>1. IsOpen' = IsOpen
      BY <1>2 DEF IsOpen
    <2> QED
      BY <1>2, <1>3, <2>1 DEF ClientInv, LockTrue
  <1> QED
    BY <1>6, <1>7, <1>8, <1>9, <1>10, <1>11 DEF ClientInv

(* The answer to j resolves the future of j or none.                       *)
LEMMA StepReceive ==
    ASSUME ClientInv, NEW s \in Sockets, Receive(s)
    PROVE  ClientInv'
  <1> DEFINE j == Head(wire[s])
  <1>1. Typed /\ wire \in [Sockets -> Seq(Submitted)]
    BY DEF ClientInv, AnswersTrue
  <1>2. /\ wire[s] # <<>> /\ wire' = [wire EXCEPT ![s] = Tail(wire[s])]
        /\ call' = Resolved(j) /\ pending' = pending \ {call[j].id}
        /\ UNCHANGED <<sock, ws, lock, nextId, served, shut, leaked, overlapped>>
    BY DEF Receive
  <1>3. j \in Submitted /\ Tail(wire[s]) \in Seq(Submitted)
    BY <1>1, <1>2
  <1>4. j \in Calls /\ call[j].id # 0
    BY <1>3 DEF Submitted
  <1> HIDE DEF j
  <1>5. \A k \in Calls :
           \/ call'[k] = call[k]
           \/ k = j /\ call[j].fut = "open" /\ call'[k] = [call[j] EXCEPT !.fut = "set", !.got = {j}]
    BY <1>2, <1>4 DEF Resolved, Owners, ClientInv, IdsTrue
  <1>6. /\ call' \in [Calls -> CallType]
        /\ \A k \in Calls : /\ call'[k].id = call[k].id /\ call'[k].sock = call[k].sock
                            /\ call'[k].at = call[k].at
                            /\ \/ call'[k].fut = call[k].fut /\ call'[k].got = call[k].got
                               \/ k = j /\ call'[k].fut = "set" /\ call'[k].got = {j}
    <2>1. call' = [k \in Calls |-> call'[k]]
      BY <1>2 DEF Resolved
    <2>2. \A k \in Calls : call[k] \in CallType
      BY <1>1 DEF Typed
    <2>3. [call[j] EXCEPT !.fut = "set", !.got = {j}] \in CallType
      <3>1. call[j] \in CallType /\ {j} \in SUBSET Calls
        BY <1>4, <2>2
      <3>2. \A c \in CallType, got \in SUBSET Calls :
               [c EXCEPT !.fut = "set", !.got = got] \in CallType
        BY DEF CallType
      <3> QED
        BY <3>1, <3>2
    <2>4. \A k \in Calls : call'[k] \in CallType
      BY <1>5, <2>2, <2>3
    <2>5. call' \in [Calls -> CallType]
      BY <2>1, <2>4
    <2>6. /\ [call[j] EXCEPT !.fut = "set", !.got = {j}].id = call[j].id
          /\ [call[j] EXCEPT !.fut = "set", !.got = {j}].sock = call[j].sock
          /\ [call[j] EXCEPT !.fut = "set", !.got = {j}].at = call[j].at
          /\ [call[j] EXCEPT !.fut = "set", !.got = {j}].fut = "set"
          /\ [call[j] EXCEPT !.fut = "set", !.got = {j}].got = {j}
      BY <1>4, <2>2 DEF CallType
    <2> QED
      BY <1>5, <2>5, <2>6
  <1>7. /\ Submitted' = Submitted
        /\ nextId' = Cardinality(Submitted') + 1
        /\ \A k \in Calls : call'[k].id < nextId'
        /\ \A i, k \in Calls : call'[i].id = call'[k].id /\ call'[i].id # 0 => i = k
    BY <1>2, <1>6, SameIds
  <1>8. wire' \in [Sockets -> Seq(Submitted)] /\ wire' \in [Sockets -> Seq(Calls)]
    <2>1. wire' \in [Sockets -> Seq(Submitted)]
      BY <1>1, <1>2, <1>3
    <2>2. Submitted \subseteq Calls
      BY DEF Submitted
    <2> QED
      BY <2>1, <2>2
  <1>9. Typed'
    BY <1>1, <1>2, <1>6, <1>8 DEF Typed
  <1>10. IdsTrue'
    BY <1>6, <1>7 DEF ClientInv, IdsTrue
  <1>11. FuturesTrue' /\ OwnReply'
    BY <1>2, <1>4, <1>6 DEF ClientInv, FuturesTrue, OwnReply
  <1>12. PendingTrue'
    BY <1>2, <1>6 DEF ClientInv, PendingTrue
  <1>13. AnswersTrue' /\ ReadersTrue' /\ OneReader' /\ OpenIsCurrent'
    BY <1>2, <1>6, <1>7, <1>8
       DEF ClientInv, AnswersTrue, ReadersTrue, OneReader, OpenIsCurrent, Submitted
  <1>14. LockTrue' /\ CancelledForCause'
    BY <1>2, <1>6 DEF ClientInv, LockTrue, CancelledForCause, IsOpen
  <1> QED
    BY <1>9, <1>10, <1>11, <1>12, <1>13, <1>14 DEF ClientInv

(* A step of the sockets alone.                                            *)
LEMMA SocketMoves ==
    ASSUME ClientInv, NEW s \in Sockets, sock[s].state # "none",
           NEW to \in {"closing", "closed"}, NEW clean \in BOOLEAN,
           sock' = [sock EXCEPT ![s].state = to, ![s].clean = clean],
           UNCHANGED <<ws, lock, call, pending, nextId, served, wire, shut, leaked, overlapped>>
    PROVE  ClientInv'
  <1>1. Typed
    BY DEF ClientInv
  <1>2. /\ sock' \in [Sockets -> SockType]
        /\ \A r \in Sockets : /\ sock'[r].reader = sock[r].reader
                              /\ r # s => sock'[r].state = sock[r].state
        /\ sock'[s].state = to
    BY <1>1 DEF Typed, SockType
  <1>3. Typed'
    BY <1>1, <1>2 DEF Typed
  <1>4. IdsTrue' /\ FuturesTrue' /\ OwnReply' /\ PendingTrue' /\ AnswersTrue' /\ Submitted' = Submitted
    BY DEF ClientInv, IdsTrue, FuturesTrue, OwnReply, PendingTrue, AnswersTrue, Submitted
  <1>5. ReadersTrue'
    <2>1. \A k \in Submitted : call[k].sock \in Sockets
      BY <1>1 DEF ClientInv, ReadersTrue, Submitted, Typed, CallType
    <2> QED
      BY <1>1, <1>2, <1>4, <2>1 DEF ClientInv, ReadersTrue, Typed
  <1>6. LockTrue' /\ OneReader' /\ OpenIsCurrent'
    BY <1>1, <1>2 DEF ClientInv, LockTrue, OneReader, OpenIsCurrent, IsOpen, Typed
  <1>7. CancelledForCause'
    <2>1. \A k \in Calls : call[k].fut = "cancelled" => call[k].sock \in Sockets
      BY <1>1 DEF ClientInv, FuturesTrue, ReadersTrue, Submitted, Typed, CallType
    <2> QED
      BY <1>2, <2>1 DEF ClientInv, CancelledForCause
  <1> QED
    BY <1>3, <1>4, <1>5, <1>6, <1>7 DEF ClientInv

LEMMA StepLose ==
    ASSUME ClientInv, NEW s \in Sockets, NEW clean \in BOOLEAN, Lose(s, clean)
    PROVE  ClientInv'
  BY SocketMoves DEF Lose

LEMMA StepLost ==
    ASSUME ClientInv, NEW s \in Sockets, Lost(s)
    PROVE  ClientInv'
  <1>1. sock \in [Sockets -> SockType] /\ sock[s].clean \in BOOLEAN
    BY DEF ClientInv, Typed, SockType
  <1>2. sock' = [sock EXCEPT ![s].state = "closed", ![s].clean = sock[s].clean]
    BY <1>1 DEF Lost, SockType
  <1> QED
    BY <1>1, <1>2, SocketMoves DEF Lost

(* The reader of s gives up what is pending: requests of s, for it is the  *)
(* only reader there is.                                                   *)
LEMMA StepReaderEnds ==
    ASSUME ClientInv, NEW s \in Sockets, ReaderEnds(s)
    PROVE  ClientInv'
  <1>1. Typed /\ sock[s].reader = "reading" /\ sock[s].state = "closed"
    BY DEF ClientInv, ReaderEnds
  <1>2. /\ sock' = [sock EXCEPT ![s].reader = "done"]
        /\ UNCHANGED <<lock, nextId, served, wire, shut, leaked, overlapped>>
    BY DEF ReaderEnds
  <1>3. /\ sock' \in [Sockets -> SockType]
        /\ \A r \in Sockets : /\ sock'[r].state = sock[r].state
                              /\ r # s => sock'[r].reader = sock[r].reader
        /\ sock'[s].reader = "done"
    BY <1>1, <1>2 DEF Typed, SockType
  <1>4. /\ ws' \in {ws, 0} /\ pending' \in {pending, {}}
        /\ \A k \in Calls :
              \/ call'[k] = call[k]
              \/ /\ call[k].id \in pending /\ pending' = {} /\ call[k].fut = "open"
                 /\ call'[k] = [call[k] EXCEPT !.fut = "cancelled"]
        /\ call' = [k \in Calls |-> call'[k]]
    <2>1. CASE sock[s].clean
      BY <1>1, <2>1 DEF ReaderEnds, Typed
    <2>2. CASE ~ sock[s].clean
      BY <2>2 DEF ReaderEnds
    <2> QED
      BY <2>1, <2>2
  <1>5. /\ call' \in [Calls -> CallType]
        /\ \A k \in Calls : /\ call'[k].id = call[k].id /\ call'[k].sock = call[k].sock
                            /\ call'[k].at = call[k].at /\ call'[k].got = call[k].got
                            /\ \/ call'[k].fut = call[k].fut
                               \/ /\ call'[k].fut = "cancelled" /\ call[k].id \in pending
                                  /\ pending' = {}
    <2>1. \A k \in Calls : call[k] \in CallType
      BY <1>1 DEF Typed
    <2>2. \A k \in Calls :
             LET gone == [call[k] EXCEPT !.fut = "cancelled"] IN
             /\ gone \in CallType /\ gone.id = call[k].id /\ gone.sock = call[k].sock
             /\ gone.at = call[k].at /\ gone.got = call[k].got /\ gone.fut = "cancelled"
      BY <2>1 DEF CallType
    <2>3. \A k \in Calls : call'[k] \in CallType
      BY <1>4, <2>1, <2>2
    <2> QED
      BY <1>4, <2>2, <2>3
  <1>6. /\ Submitted' = Submitted
        /\ nextId' = Cardinality(Submitted') + 1
        /\ \A k \in Calls : call'[k].id < nextId'
        /\ \A i, k \in Calls : call'[i].id = call'[k].id /\ call'[i].id # 0 => i = k
    BY <1>2, <1>5, SameIds
  <1>7. Typed'
    BY <1>1, <1>2, <1>3, <1>4, <1>5 DEF Typed
  <1>8. IdsTrue' /\ OwnReply' /\ AnswersTrue'
    <2>1. IdsTrue'
      BY <1>5, <1>6 DEF ClientInv, IdsTrue
    <2>2. OwnReply'
      BY <1>5 DEF ClientInv, OwnReply
    <2> QED
      BY <1>2, <1>6, <2>1, <2>2 DEF ClientInv, AnswersTrue
  <1>9. FuturesTrue' /\ PendingTrue'
    <2>1. FuturesTrue'
      BY <1>1, <1>4, <1>5, Numbers DEF ClientInv, FuturesTrue, Typed
    <2>2. PendingTrue'
      BY <1>2, <1>4, <1>5 DEF ClientInv, PendingTrue
    <2> QED
      BY <2>1, <2>2
  <1>10. ReadersTrue'
    <2>1. \A k \in Submitted : call[k].sock \in Sockets
      BY <1>1 DEF ClientInv, ReadersTrue, Submitted, Typed, CallType
    <2>2. \A r \in Sockets : /\ sock'[r].state = "none" <=> sock'[r].reader = "none"
                             /\ sock'[r].state = "open" => sock'[r].reader = "reading" \/ overlapped
      BY <1>1, <1>3 DEF ClientInv, ReadersTrue
    <2>3. ws' # 0 => sock'[ws'].state # "none"
      BY <1>1, <1>3, <1>4 DEF ClientInv, ReadersTrue, Typed
    <2>4. \A k \in Submitted' : call'[k].sock # 0 /\ sock'[call'[k].sock].state # "none"
      BY <1>3, <1>5, <1>6, <2>1 DEF ClientInv, ReadersTrue, Submitted
    <2> QED
      BY <1>2, <2>2, <2>3, <2>4 DEF ReadersTrue
  <1>11. LockTrue'
    BY <1>1, <1>2, <1>3, <1>4, <1>5 DEF ClientInv, LockTrue, IsOpen, Typed
  <1>12. OneReader' /\ OpenIsCurrent'
    <2> SUFFICES ASSUME ~ overlapped PROVE OneReader' /\ OpenIsCurrent'
      BY <1>2 DEF OneReader, OpenIsCurrent
    <2>1. \A r \in Sockets : r # s => sock[r].reader # "reading" /\ sock[r].state # "open"
      BY <1>1 DEF ClientInv, OneReader, ReadersTrue
    <2> QED
      BY <1>1, <1>3, <2>1 DEF OneReader, OpenIsCurrent
  <1>13. CancelledForCause'
    <2> SUFFICES ASSUME ~ overlapped, NEW k \in Calls, call'[k].fut = "cancelled"
                 PROVE  sock'[call'[k].sock].reader = "done"
      BY <1>2 DEF CancelledForCause
    <2>1. call[k].id # 0
      <3>1. CASE call[k].fut = "cancelled"
        BY <3>1 DEF ClientInv, FuturesTrue
      <3>2. CASE call[k].id \in pending
        BY <1>1, <3>2, Numbers DEF Typed
      <3> QED
        BY <1>5, <3>1, <3>2
    <2>2. call[k].sock \in Sockets /\ sock[call[k].sock].state # "none"
      BY <1>1, <2>1 DEF ClientInv, ReadersTrue, Submitted, Typed, CallType
    <2>3. call[k].sock = s \/ sock[call[k].sock].reader # "reading"
      BY <1>1, <2>2 DEF ClientInv, OneReader
    <2>4. sock[call[k].sock] \in SockType /\ sock[call[k].sock].reader # "none"
      BY <1>1, <2>2 DEF ClientInv, ReadersTrue, Typed
    <2>5. call[k].sock = s \/ sock[call[k].sock].reader = "done"
      BY <2>3, <2>4 DEF SockType
    <2> QED
      BY <1>3, <1>5, <2>2, <2>5
  <1> QED
    BY <1>7, <1>8, <1>9, <1>10, <1>11, <1>12, <1>13 DEF ClientInv

LEMMA StepClose ==
    ASSUME ClientInv, Close
    PROVE  ClientInv'
  <1>1. Typed /\ \A k \in Calls : call[k].at # "connecting"
    BY DEF ClientInv, Close, UnderWay
  <1>2. /\ ws' = 0 /\ shut' = TRUE
        /\ UNCHANGED <<lock, call, pending, nextId, served, wire, leaked, overlapped>>
    BY DEF Close
  <1>3. sock' = [s \in Sockets |->
                   [state  |-> IF s = ws THEN "closed" ELSE sock[s].state,
                    clean  |-> sock[s].clean \/ (s = ws /\ IsOpen),
                    reader |-> IF ReaderTask(s) THEN "done" ELSE sock[s].reader]]
    BY DEF Close
  <1>4. /\ sock' \in [Sockets -> SockType]
        /\ \A s \in Sockets :
              /\ sock'[s].state = IF s = ws THEN "closed" ELSE sock[s].state
              /\ \/ sock'[s].reader = sock[s].reader
                 \/ sock'[s].reader = "done" /\ sock[s].reader # "none"
    <2>1. \A s \in Sockets :
             /\ sock'[s].state = IF s = ws THEN "closed" ELSE sock[s].state
             /\ sock'[s].clean = (sock[s].clean \/ (s = ws /\ IsOpen))
             /\ sock'[s].reader = IF ReaderTask(s) THEN "done" ELSE sock[s].reader
      BY <1>3
    <2>2. \A s \in Sockets :
             /\ (IF s = ws THEN "closed" ELSE sock[s].state) \in {"none", "open", "closing", "closed"}
             /\ (sock[s].clean \/ (s = ws /\ IsOpen)) \in BOOLEAN
             /\ (IF ReaderTask(s) THEN "done" ELSE sock[s].reader) \in {"none", "reading", "done"}
      BY <1>1 DEF Typed, SockType
    <2>3. \A s \in Sockets : sock'[s] \in SockType
      BY <1>3, <2>2 DEF SockType
    <2> QED
      BY <1>3, <2>1, <2>3 DEF ReaderTask
  <1>5. Typed'
    BY <1>1, <1>2, <1>4 DEF Typed
  <1>6. IdsTrue' /\ FuturesTrue' /\ OwnReply' /\ PendingTrue' /\ AnswersTrue' /\ LockTrue'
    BY <1>1, <1>2
       DEF ClientInv, IdsTrue, FuturesTrue, OwnReply, PendingTrue, AnswersTrue, LockTrue, Submitted
  <1>7. ReadersTrue'
    <2>1. \A k \in Submitted : call[k].sock \in Sockets
      BY <1>1 DEF ClientInv, ReadersTrue, Submitted, Typed, CallType
    <2>2. Submitted' = Submitted
      BY <1>2 DEF Submitted
    <2>3. \A s \in Sockets : /\ sock'[s].state = "none" <=> sock'[s].reader = "none"
                             /\ sock'[s].state = "open" => overlapped
      <3> SUFFICES ASSUME NEW s \in Sockets
                   PROVE  /\ sock'[s].state = "none" <=> sock'[s].reader = "none"
                          /\ sock'[s].state = "open" => overlapped
        OBVIOUS
      <3>1. sock[s].state = "none" <=> sock[s].reader = "none"
        BY DEF ClientInv, ReadersTrue
      <3>2. s = ws => sock[s].state # "none"
        BY Numbers DEF ClientInv, ReadersTrue
      <3>3. sock[s].state = "open" => overlapped \/ s = ws
        BY DEF ClientInv, OpenIsCurrent
      <3> QED
        BY <1>4, <3>1, <3>2, <3>3
    <2>4. \A k \in Submitted : call[k].sock # 0 /\ sock'[call[k].sock].state # "none"
      BY <1>4, <2>1 DEF ClientInv, ReadersTrue
    <2> QED
      BY <1>2, <2>2, <2>3, <2>4 DEF ReadersTrue
  <1>8. OneReader' /\ OpenIsCurrent'
    BY <1>2, <1>4 DEF ClientInv, OneReader, OpenIsCurrent
  <1>9. CancelledForCause'
    <2>1. \A k \in Calls : call[k].fut = "cancelled" => call[k].sock \in Sockets
      BY <1>1 DEF ClientInv, FuturesTrue, ReadersTrue, Submitted, Typed, CallType
    <2> QED
      BY <1>2, <1>4, <2>1 DEF ClientInv, CancelledForCause
  <1> QED
    BY <1>5, <1>6, <1>7, <1>8, <1>9 DEF ClientInv

LEMMA StepAnswer ==
    ASSUME ClientInv, NEW k \in Calls, Answer(k)
    PROVE  ClientInv'
  <1>1. /\ Typed /\ k \in served /\ served' = served \ {k}
        /\ UNCHANGED <<sock, ws, lock, call, pending, nextId, shut, leaked, overlapped>>
        /\ wire' = wire \/ \E s \in Sockets : wire' = [wire EXCEPT ![s] = Append(wire[s], k)]
    BY DEF ClientInv, Answer
  <1>2. Submitted' = Submitted /\ k \in Submitted /\ Submitted \subseteq Calls
    BY <1>1 DEF Submitted, ClientInv, AnswersTrue
  <1>3. wire' \in [Sockets -> Seq(Submitted)]
    <2>1. wire \in [Sockets -> Seq(Submitted)]
      BY DEF ClientInv, AnswersTrue
    <2> QED
      BY <1>1, <1>2, <2>1
  <1>4. wire' \in [Sockets -> Seq(Calls)]
    BY <1>2, <1>3
  <1>5. Typed' /\ AnswersTrue'
    BY <1>1, <1>2, <1>3, <1>4 DEF Typed, AnswersTrue, ClientInv
  <1>6. IdsTrue' /\ FuturesTrue' /\ OwnReply' /\ PendingTrue'
    BY <1>1, <1>2 DEF ClientInv, IdsTrue, FuturesTrue, OwnReply, PendingTrue
  <1>7. ReadersTrue' /\ LockTrue' /\ OneReader' /\ OpenIsCurrent' /\ CancelledForCause'
    BY <1>1, <1>2
       DEF ClientInv, ReadersTrue, LockTrue, OneReader, OpenIsCurrent, CancelledForCause, IsOpen
  <1> QED
    BY <1>5, <1>6, <1>7 DEF ClientInv

LEMMA ClientStep == ClientInv /\ [Next]_vars => ClientInv'
  <1> SUFFICES ASSUME ClientInv, [Next]_vars PROVE ClientInv'
    OBVIOUS
  <1>1. ASSUME NEW k \in Calls,
               \/ Call(k) \/ Lock(k) \/ ConnectTimesOut(k)
               \/ \E s \in Sockets : Connected(k, s)
               \/ Sent(k) \/ SendFails(k) \/ Return(k) \/ Timeout(k) \/ Abandon(k) \/ Answer(k)
        PROVE  ClientInv'
    BY <1>1, StepCall, StepLock, StepConnectTimesOut, StepConnected, StepSent, StepSendFails,
       StepReturn, StepTimeout, StepAbandon, StepAnswer
  <1>2. ASSUME NEW s \in Sockets,
               Receive(s) \/ ReaderEnds(s) \/ Lose(s, TRUE) \/ Lose(s, FALSE) \/ Lost(s)
        PROVE  ClientInv'
    BY <1>2, StepReceive, StepReaderEnds, StepLose, StepLost
  <1>3. CASE Close
    BY <1>3, StepClose
  <1>4. CASE UNCHANGED vars
    <2> USE <1>4 DEF vars
    <2>1. Typed' /\ IdsTrue' /\ FuturesTrue' /\ AnswersTrue' /\ Submitted' = Submitted
      BY DEF ClientInv, Typed, IdsTrue, FuturesTrue, AnswersTrue, Submitted
    <2>2. OwnReply' /\ PendingTrue' /\ ReadersTrue' /\ LockTrue'
      BY <2>1 DEF ClientInv, OwnReply, PendingTrue, ReadersTrue, LockTrue, IsOpen
    <2>3. OneReader' /\ OpenIsCurrent' /\ CancelledForCause'
      BY DEF ClientInv, OneReader, OpenIsCurrent, CancelledForCause
    <2> QED
      BY <2>1, <2>2, <2>3 DEF ClientInv
  <1> QED
    BY <1>1, <1>2, <1>3, <1>4 DEF Next
-----------------------------------------------------------------------------
LEMMA InvServes == ClientInv => PendingServes
  <1>1. Typed => TypeOK
    BY DEF Typed, TypeOK, CallType, SockType
  <1>2. PendingTrue => PendingIsAwaited
    BY DEF PendingTrue, PendingIsAwaited, Owners
  <1> QED
    BY <1>1, <1>2 DEF ClientInv, PendingServes

LEMMA InvFollows == ClientInv => ConnectionsFollow
  <1> SUFFICES ASSUME ClientInv, ~ overlapped
               PROVE  Cardinality({s \in Sockets : sock[s].state = "open"}) <= 1
    BY DEF ClientInv, ConnectionsFollow, OneConnection
  <1>1. {s \in Sockets : sock[s].state = "open"} \subseteq {ws}
    BY DEF ClientInv, OpenIsCurrent
  <1>2. IsFiniteSet({ws}) /\ Cardinality({ws}) = 1
    BY FS_Singleton
  <1> QED
    BY <1>1, <1>2, FS_Subset

(* For any number of concurrent calls and of connections: a call that      *)
(* returns has got the answer to its own request, and the table of futures *)
(* holds nothing nobody waits for, but for a send that failed or a call    *)
(* that its caller cancelled.                                              *)
THEOREM AlwaysServes == Spec => []PendingServes
  BY ClientStarts, ClientStep, InvServes, PTL DEF Spec

(* For any number of calls and connections: unless a reader has outlived   *)
(* its connection, there is one connection at a time, and a call is given  *)
(* up only by the reader of its own.                                       *)
THEOREM AlwaysFollow == Spec => []ConnectionsFollow
  BY ClientStarts, ClientStep, InvFollows, PTL DEF Spec
=============================================================================

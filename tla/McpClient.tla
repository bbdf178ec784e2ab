------------------------------ MODULE McpClient -----------------------------
(***************************************************************************)
(* WSClient of testbridge-mcp: concurrent calls over one connection, their *)
(* replies, timeouts, a reader task per connection, and the reconnection   *)
(* when the connection is found closed.  One asyncio loop: a step runs     *)
(* from one await to the next.                                             *)
(*                                                                         *)
(* The server answers requests in any order, or not at all, and as         *)
(* TestBridge does it sends a late answer to whichever connection is there.*)
(* Connections are numbered as they are made; a connection is closing from *)
(* the first close frame until the transport is gone, and only then does   *)
(* its reader learn of it.                                                 *)
(***************************************************************************)
EXTENDS Integers, Sequences, FiniteSets

CONSTANTS
    Calls,       \* calls of WSClient.call, each made once
    MaxSockets   \* bound: connections made

ASSUME ClientAssumption == IsFiniteSet(Calls) /\ MaxSockets \in Nat \ {0}

Sockets == 1 .. MaxSockets
Ids     == 1 .. Cardinality(Calls)

VARIABLES
    sock,     \* the connections: their state, whether the close was normal, the reader
    ws,       \* self._ws, 0 for None
    lock,     \* calls that hold _connect_lock
    call,     \* where each call is, its id, its connection, its future
    pending,  \* keys of _pending
    nextId,
    served,   \* calls whose request the server has yet to answer
    wire,     \* replies on each connection
    shut,     \* close was called
    \* history
    leaked,     \* ids whose send failed, or whose call was dropped by its caller
    overlapped  \* a connection was made while the reader of a lost one still ran

vars == <<sock, ws, lock, call, pending, nextId, served, wire, shut, leaked, overlapped>>

Idle == [at |-> "idle", id |-> 0, sock |-> 0, fut |-> "open", got |-> {}]

TypeOK ==
    /\ sock \in [Sockets -> [state : {"none", "open", "closing", "closed"},
                             clean : BOOLEAN, reader : {"none", "reading", "done"}]]
    /\ ws \in Sockets \cup {0}
    /\ lock \subseteq Calls /\ Cardinality(lock) <= 1
    /\ call \in [Calls -> [at : {"idle", "locking", "connecting", "sending", "waiting",
                                 "reply", "timeout", "cancelled", "failed", "unreachable",
                                 "dropped"},
                           id : Ids \cup {0}, sock : Sockets \cup {0},
                           fut : {"open", "set", "cancelled", "dropped"}, got : SUBSET Calls]]
    /\ pending \subseteq Ids /\ served \subseteq Calls /\ leaked \subseteq Ids
    /\ nextId \in 1 .. Cardinality(Calls) + 1
    /\ wire \in [Sockets -> Seq(Calls)]
    /\ {shut, overlapped} \subseteq BOOLEAN

Init ==
    /\ sock = [s \in Sockets |-> [state |-> "none", clean |-> FALSE, reader |-> "none"]]
    /\ ws = 0 /\ lock = {} /\ call = [k \in Calls |-> Idle]
    /\ pending = {} /\ nextId = 1 /\ served = {} /\ wire = [s \in Sockets |-> <<>>]
    /\ shut = FALSE /\ leaked = {} /\ overlapped = FALSE
-----------------------------------------------------------------------------
IsOpen == ws # 0 /\ sock[ws].state = "open"

(* The id, the future and the frame; then the await of send.               *)
Submit(k, s) ==
    /\ call' = [call EXCEPT ![k] = [at |-> "sending", id |-> nextId, sock |-> s,
                                    fut |-> "open", got |-> {}]]
    /\ nextId' = nextId + 1
    /\ pending' = pending \cup {nextId}
    /\ served' = served \cup {k}

(* call, and _ensure_connected up to the lock.                             *)
Call(k) ==
    /\ call[k].at = "idle" /\ ~ shut
    /\ IF IsOpen
       THEN Submit(k, ws)
       ELSE /\ call' = [call EXCEPT ![k].at = "locking"]
            /\ UNCHANGED <<nextId, pending, served>>
    /\ UNCHANGED <<sock, ws, lock, wire, shut, leaked, overlapped>>

LockUnchecked(k) ==    \* mutant: the connection is not looked at again
    /\ call[k].at = "locking" /\ lock = {}
    /\ lock' = {k}
    /\ call' = [call EXCEPT ![k].at = "connecting"]
    /\ UNCHANGED <<sock, ws, pending, nextId, served, wire, shut, leaked, overlapped>>

(* async with self._connect_lock.                                          *)
Lock(k) ==
    /\ call[k].at = "locking" /\ lock = {}
    /\ IF IsOpen
       THEN Submit(k, ws) /\ UNCHANGED lock
       ELSE /\ lock' = {k}
            /\ call' = [call EXCEPT ![k].at = "connecting"]
            /\ UNCHANGED <<nextId, pending, served>>
    /\ UNCHANGED <<sock, ws, wire, shut, leaked, overlapped>>

Orphan(s) == sock[s].reader = "reading" /\ sock[s].state # "open"

NewSocket(s) ==
    sock[s].state = "none" /\ \A r \in Sockets : r < s => sock[r].state # "none"

ConnectedAnew(k, s) ==    \* mutant: ids start again with the connection
    /\ call[k].at = "connecting" /\ NewSocket(s)
    /\ sock' = [sock EXCEPT ![s] = [state |-> "open", clean |-> FALSE,
                                    reader |-> "reading"]]
    /\ ws' = s
    /\ lock' = lock \ {k}
    /\ overlapped' = (overlapped \/ \E r \in Sockets : Orphan(r))
    /\ call' = [call EXCEPT ![k] = [at |-> "sending", id |-> 1, sock |-> s,
                                    fut |-> "open", got |-> {}]]
    /\ nextId' = 2 /\ pending' = pending \cup {1} /\ served' = served \cup {k}
    /\ UNCHANGED <<wire, shut, leaked>>

(* _connect succeeds, after any number of attempts.                        *)
Connected(k, s) ==
    /\ call[k].at = "connecting" /\ NewSocket(s)
    /\ sock' = [sock EXCEPT ![s] = [state |-> "open", clean |-> FALSE,
                                    reader |-> "reading"]]
    /\ ws' = s
    /\ lock' = lock \ {k}
    /\ overlapped' = (overlapped \/ \E r \in Sockets : Orphan(r))
    /\ Submit(k, s)
    /\ UNCHANGED <<wire, shut, leaked>>

(* The deadline of _connect.                                               *)
ConnectTimesOut(k) ==
    /\ call[k].at = "connecting"
    /\ lock' = lock \ {k}
    /\ call' = [call EXCEPT ![k].at = "unreachable"]
    /\ UNCHANGED <<sock, ws, pending, nextId, served, wire, shut, leaked, overlapped>>

(* send returns, or raises because the connection was lost meanwhile; the  *)
(* future then stays in _pending.                                          *)
Sent(k) ==
    /\ call[k].at = "sending"
    /\ call' = [call EXCEPT ![k].at = "waiting"]
    /\ UNCHANGED <<sock, ws, lock, pending, nextId, served, wire, shut, leaked, overlapped>>

SendFails(k) ==
    /\ call[k].at = "sending" /\ sock[call[k].sock].state # "open"
    /\ call' = [call EXCEPT ![k].at = "failed"]
    /\ leaked' = leaked \cup {call[k].id}
    /\ UNCHANGED <<sock, ws, lock, pending, nextId, served, wire, shut, overlapped>>

(* wait_for.                                                               *)
Return(k) ==
    /\ call[k].at = "waiting" /\ call[k].fut \in {"set", "cancelled"}
    /\ call' = [call EXCEPT ![k].at = IF call[k].fut = "set" THEN "reply" ELSE "cancelled"]
    /\ UNCHANGED <<sock, ws, lock, pending, nextId, served, wire, shut, leaked, overlapped>>

TimeoutWhileOpen(k) ==    \* mutant: a closed connection is relied on to cancel
    /\ call[k].at = "waiting" /\ call[k].fut = "open" /\ sock[call[k].sock].state = "open"
    /\ call' = [call EXCEPT ![k].at = "timeout"]
    /\ pending' = pending \ {call[k].id}
    /\ UNCHANGED <<sock, ws, lock, nextId, served, wire, shut, leaked, overlapped>>

Timeout(k) ==
    /\ call[k].at = "waiting" /\ call[k].fut = "open"
    /\ call' = [call EXCEPT ![k].at = "timeout"]
    /\ pending' = pending \ {call[k].id}
    /\ UNCHANGED <<sock, ws, lock, nextId, served, wire, shut, leaked, overlapped>>

UnderWay(k) == call[k].at \in {"locking", "connecting", "sending", "waiting"}

(* The caller cancels the task that awaits call.  The lock is released and *)
(* the future of wait_for cancelled, but only a timeout takes it out of    *)
(* _pending.                                                               *)
Abandon(k) ==
    /\ UnderWay(k)
    /\ call' = [call EXCEPT ![k].at = "dropped",
                            ![k].fut = IF call[k].at = "waiting" /\ @ = "open"
                                       THEN "dropped" ELSE @]
    /\ lock' = lock \ {k}
    /\ leaked' = leaked \cup ({call[k].id} \cap pending)
    /\ UNCHANGED <<sock, ws, pending, nextId, served, wire, shut, overlapped>>
-----------------------------------------------------------------------------
(* The reader task of connection s.                                        *)

Owners(id) == {k \in Calls : call[k].id = id /\ call[k].at \in {"sending", "waiting"}}

Resolved(j) ==    \* by the answer to call j
    [k \in Calls |-> IF call[j].id \in pending /\ k \in Owners(call[j].id)
                           /\ call[k].fut = "open"
                     THEN [call[k] EXCEPT !.fut = "set", !.got = {j}] ELSE call[k]]

Receive(s) ==
    /\ sock[s].reader = "reading" /\ wire[s] # <<>>
    /\ wire' = [wire EXCEPT ![s] = Tail(@)]
    /\ call' = Resolved(Head(wire[s]))
    /\ pending' = pending \ {call[Head(wire[s])].id}
    /\ UNCHANGED <<sock, ws, lock, nextId, served, shut, leaked, overlapped>>

(* A normal close ends the iteration without an exception, and with it     *)
(* nothing happens; ConnectionClosed gives up whatever is pending.         *)
ReaderEnds(s) ==
    /\ sock[s].reader = "reading" /\ sock[s].state = "closed" /\ wire[s] = <<>>
    /\ sock' = [sock EXCEPT ![s].reader = "done"]
    /\ IF sock[s].clean
       THEN UNCHANGED <<ws, call, pending>>
       ELSE /\ ws' = 0
            /\ call' = [k \in Calls |->
                          IF call[k].id \in pending /\ call[k].fut = "open"
                          THEN [call[k] EXCEPT !.fut = "cancelled"] ELSE call[k]]
            /\ pending' = {}
    /\ UNCHANGED <<lock, nextId, served, wire, shut, leaked, overlapped>>

(* self._reader_task: of the connection made last, whatever became of it.  *)
ReaderTask(s) ==
    sock[s].reader # "none" /\ \A r \in Sockets : r > s => sock[r].reader = "none"

(* close, when no call is under way: the reader is cancelled, and the      *)
(* connection closed if there is one.                                      *)
Close ==
    /\ ~ shut /\ \A k \in Calls : ~ UnderWay(k)
    /\ shut' = TRUE
    /\ ws' = 0
    /\ sock' = [s \in Sockets |->
                  [state  |-> IF s = ws THEN "closed" ELSE sock[s].state,
                   clean  |-> sock[s].clean \/ (s = ws /\ IsOpen),
                   reader |-> IF ReaderTask(s) THEN "done" ELSE sock[s].reader]]
    /\ UNCHANGED <<lock, call, pending, nextId, served, wire, leaked, overlapped>>
-----------------------------------------------------------------------------
(* The server and the network.                                             *)

(* The answer goes to whoever is connected, or to nobody.                  *)
Answer(k) ==
    /\ k \in served
    /\ served' = served \ {k}
    /\ LET there == {s \in Sockets : sock[s].state = "open"}
       IN  \/ \E s \in there : wire' = [wire EXCEPT ![s] = Append(@, k)]
           \/ there = {} /\ UNCHANGED wire
    /\ UNCHANGED <<sock, ws, lock, call, pending, nextId, shut, leaked, overlapped>>

(* The server closes (the client was idle, or not the only one), or the    *)
(* connection breaks; a keepalive that is not answered is a break too.     *)
Lose(s, clean) ==
    /\ sock[s].state = "open"
    /\ sock' = [sock EXCEPT ![s].state = "closing", ![s].clean = clean]
    /\ UNCHANGED <<ws, lock, call, pending, nextId, served, wire, shut, leaked, overlapped>>

Lost(s) ==
    /\ sock[s].state = "closing"
    /\ sock' = [sock EXCEPT ![s].state = "closed"]
    /\ UNCHANGED <<ws, lock, call, pending, nextId, served, wire, shut, leaked, overlapped>>
-----------------------------------------------------------------------------
Resumes(k) == Lock(k) \/ Sent(k) \/ SendFails(k) \/ Return(k)

Next ==
    \/ \E k \in Calls :
         \/ Call(k) \/ Lock(k) \/ ConnectTimesOut(k)
         \/ \E s \in Sockets : Connected(k, s)
         \/ Sent(k) \/ SendFails(k) \/ Return(k) \/ Timeout(k) \/ Abandon(k) \/ Answer(k)
    \/ \E s \in Sockets :
         Receive(s) \/ ReaderEnds(s) \/ Lose(s, TRUE) \/ Lose(s, FALSE) \/ Lost(s)
    \/ Close

Fairness ==
    \A k \in Calls : WF_vars(Resumes(k)) /\ WF_vars(Timeout(k)) /\ WF_vars(ConnectTimesOut(k))

Spec == Init /\ [][Next]_vars /\ Fairness
-----------------------------------------------------------------------------
Ended == {"reply", "timeout", "cancelled", "failed", "unreachable", "dropped"}

(* A call that returns a value returns the answer to its own request, also *)
(* after a reconnection, when the answer to an earlier request of another  *)
(* connection may still come in.                                           *)
OwnReply == \A k \in Calls : call[k].fut = "set" => call[k].got = {k}

(* _pending holds the futures somebody waits for.  Only a send that fails  *)
(* or a call its caller cancels leaves one behind, until the answer comes  *)
(* after all or the next connection breaks.                                *)
PendingIsAwaited ==
    \A id \in pending : Owners(id) # {} \/ id \in leaked

(* The table of futures serves each call and nobody else.                  *)
PendingServes == TypeOK /\ OwnReply /\ PendingIsAwaited

(* The client never has two connections, of which the server would refuse  *)
(* the second, however many calls find the connection closed at once - but *)
(* that a reader that outlives its connection forgets the next one.        *)
OneConnection ==
    Cardinality({s \in Sockets : sock[s].state = "open"}) <= 1 \/ overlapped

(* A call is given up only when the reader of its own connection has seen  *)
(* the last reply that can come on it - but for a reader that outlived its *)
(* connection, which gives up the calls of the next one as well.           *)
CancelledForCause ==
    \A k \in Calls :
        call[k].fut = "cancelled" => sock[call[k].sock].reader = "done" \/ overlapped

(* Connections follow each other, and each takes only its own calls along. *)
ConnectionsFollow == OneConnection /\ CancelledForCause

(* Every call ends, whatever becomes of its connection.                    *)
CallsEnd ==
    \A k \in Calls : (call[k].at \in {"locking", "sending", "waiting"})
                        ~> (call[k].at \in Ended)
=============================================================================

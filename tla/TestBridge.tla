----------------------------- MODULE TestBridge -----------------------------
(***************************************************************************)
(* TestBridge inside the application: WsServer, RpcDispatcher, BusEndpoint *)
(* and GuiDataBus, and the waits of LogSink.  It runs on the GUI thread,   *)
(* so an event of the event loop is one step; bus.wait, and input with a   *)
(* delay, run an event loop of their own inside their request.  stack is   *)
(* that nesting: only the innermost can return.                            *)
(*                                                                         *)
(* Connections are numbered as clients make them, requests as they are     *)
(* sent, events of the bus as they are posted.                             *)
(***************************************************************************)
EXTENDS Integers, SequencesExt, Subsequences

CONSTANTS
    Topics,
    None,
    MaxConns,     \* bound: connections made
    MaxRequests,  \* bound: requests sent, over all connections
    MaxPosts      \* bound: events on the bus that no request causes

Endpoint == 0    \* as a receiver; a wait's helper has the number of its request
Conns    == 1 .. MaxConns
Ids      == 1 .. MaxRequests

(* invalid: no JSON-RPC request; simple: every method without state here,  *)
(* unknown ones and those that throw; call: what makes the application     *)
(* post to the bus, such as qml.invoke.                                    *)
OfTopic == {"publish", "subscribe", "unsubscribe", "wait", "call"}
Kinds   == {"invalid", "simple", "input", "log_wait", "quit"} \cup OfTopic
Request == [id : Ids, kind : Kinds, topic : Topics, reply : BOOLEAN]

ASSUME BridgeAssumption ==
    /\ {MaxConns, MaxRequests, MaxPosts} \subseteq Nat
    /\ None \notin Topics \cup Nat \cup Request

VARIABLES
    link,      \* the connections, as the network has them
    inbox,     \* frames of each that QWebSocket has not handed on
    backlog,   \* connections waiting for onNewConnection
    conn,      \* m_conn
    timer,     \* m_idleTimer is running
    posted,    \* events posted to the GUI thread
    subs,      \* m_subscriptions
    handlers,  \* GuiDataBus::m_handlers
    stack,     \* nested event loops
    logWait,   \* the log.wait that blocks the GUI thread, or None
    quit,      \* QCoreApplication::quit was called
    stopped,   \* TestBridge::stop
    \* history
    asker,     \* connection of each request sent
    taken,     \* requests handed on that want a reply
    replyTo,   \* connections (None: nobody there) each request's replies went to
    posts      \* events posted

network == <<link, inbox, backlog>>
bus     == <<subs, handlers>>
ghosts  == <<asker, taken, replyTo>>
vars    == <<network, conn, timer, posted, bus, stack, logWait, quit, stopped,
             ghosts, posts>>

Frame   == [id : Ids, conn : Conns, topic : Topics \cup {None}, reply : BOOLEAN,
            over : BOOLEAN, got : Nat, since : Nat]
Event   == [op : {"register", "unregister", "post"}, topic : Topics]
           \cup [op : {"deliver"}, to : Ids \cup {Endpoint}, topic : Topics, n : Nat]
           \cup [op : {"quit"}]

TypeOK ==
    /\ link \in [Conns -> {"none", "open", "left", "closed"}]
    /\ inbox \in [Conns -> Seq(Ids)]
    /\ backlog \in Seq(Conns)
    /\ conn \in Conns \cup {None}
    /\ timer \in BOOLEAN /\ (timer => conn # None)
    /\ posted \in Seq(Event)
    /\ subs \subseteq Topics
    /\ handlers \in [Topics -> Seq(Ids \cup {Endpoint})]
    /\ stack \in Seq(Frame)
    /\ logWait \in Request \cup {None}
    /\ {quit, stopped} \subseteq BOOLEAN
    /\ asker \in Seq(Conns) /\ Len(asker) <= MaxRequests
    /\ taken \subseteq Ids
    /\ replyTo \in [Ids -> Seq(Conns \cup {None})]
    /\ posts \in Nat

Init ==
    /\ link = [c \in Conns |-> "none"] /\ inbox = [c \in Conns |-> <<>>] /\ backlog = <<>>
    /\ conn = None /\ timer = FALSE /\ posted = <<>>
    /\ subs = {} /\ handlers = [t \in Topics |-> <<>>]
    /\ stack = <<>> /\ logWait = None
    /\ quit = FALSE /\ stopped = FALSE
    /\ asker = <<>> /\ taken = {} /\ replyTo = [i \in Ids |-> <<>>]
    /\ posts = 0
-----------------------------------------------------------------------------
(* Clients.                                                                *)

Connect(c) ==
    /\ ~ stopped /\ link[c] = "none" /\ \A d \in Conns : d < c => link[d] # "none"
    /\ link' = [link EXCEPT ![c] = "open"]
    /\ backlog' = Append(backlog, c)
    /\ UNCHANGED <<inbox, conn, timer, posted, bus, stack, logWait, quit, stopped,
                   ghosts, posts>>

(* What a frame says is chosen when it is handed on.                       *)
Send(c) ==
    /\ link[c] = "open" /\ Len(asker) < MaxRequests
    /\ asker' = Append(asker, c)
    /\ inbox' = [inbox EXCEPT ![c] = Append(@, Len(asker'))]
    /\ UNCHANGED <<link, backlog, conn, timer, posted, bus, stack, logWait, quit,
                   stopped, taken, replyTo, posts>>

Leave(c) ==
    /\ link[c] = "open"
    /\ link' = [link EXCEPT ![c] = "left"]
    /\ UNCHANGED <<inbox, backlog, conn, timer, posted, bus, stack, logWait, quit,
                   stopped, ghosts, posts>>

-----------------------------------------------------------------------------
(* The GUI thread handles one event, in whichever loop is innermost.  Once *)
(* that is told to end it may still finish the batch it is in.             *)
Looping == ~ stopped /\ logWait = None /\ ~ (quit /\ stack = <<>>)

(* WsServer.                                                               *)
AcceptAny ==    \* mutant: a second client takes the place of the first
    /\ conn' = Head(backlog)
    /\ timer' = TRUE
    /\ UNCHANGED link

AcceptUntimed ==    \* mutant: the timer is started where it is made
    IF conn # None
    THEN /\ link' = [link EXCEPT ![Head(backlog)] = "closed"]
         /\ UNCHANGED <<conn, timer>>
    ELSE /\ conn' = Head(backlog)
         /\ timer' = (timer \/ Head(backlog) = 1)
         /\ UNCHANGED link

Accept ==
    IF conn # None
    THEN /\ link' = [link EXCEPT ![Head(backlog)] = "closed"]
         /\ UNCHANGED <<conn, timer>>
    ELSE /\ conn' = Head(backlog)
         /\ timer' = TRUE
         /\ UNCHANGED link

OnNewConnection ==
    /\ Looping /\ backlog # <<>>
    /\ backlog' = Tail(backlog)
    /\ Accept
    /\ UNCHANGED <<inbox, posted, bus, stack, logWait, quit, stopped, ghosts, posts>>

OnClientDisconnected ==
    /\ Looping /\ conn # None /\ link[conn] \in {"left", "closed"}
    /\ conn' = None /\ timer' = FALSE
    /\ UNCHANGED <<network, posted, bus, stack, logWait, quit, stopped, ghosts, posts>>

(* The connection is closed; that it is gone is seen by the event above.   *)
OnIdleTimeout ==
    /\ Looping /\ timer
    /\ timer' = FALSE
    /\ link' = IF conn = None THEN link ELSE [link EXCEPT ![conn] = "closed"]
    /\ UNCHANGED <<inbox, backlog, conn, posted, bus, stack, logWait, quit, stopped,
                   ghosts, posts>>

(* WsServer::send.                                                         *)
Receiver == IF conn # None /\ link[conn] # "closed" THEN conn ELSE None

Replied(r, i, wants) == IF wants THEN [r EXCEPT ![i] = Append(@, Receiver)] ELSE r

Finish(r) ==
    /\ replyTo' = Replied(replyTo, r.id, r.reply \/ r.kind = "invalid")
    /\ UNCHANGED <<stack, logWait>>

(* BusEndpoint: the subscription is noted at once, the handler registered  *)
(* or taken back by an event posted to this thread.                        *)
Post(e) == posted' = Append(posted, e)

Publish(r) ==
    /\ Post([op |-> "post", topic |-> r.topic])
    /\ Finish(r) /\ UNCHANGED <<bus, posts>>

Subscribe(r) ==
    /\ subs' = subs \cup {r.topic}
    /\ IF r.topic \in subs THEN UNCHANGED posted
                           ELSE Post([op |-> "register", topic |-> r.topic])
    /\ Finish(r) /\ UNCHANGED <<handlers, posts>>

Unsubscribe(r) ==
    /\ subs' = subs \ {r.topic}
    /\ IF r.topic \notin subs THEN UNCHANGED posted
                              ELSE Post([op |-> "unregister", topic |-> r.topic])
    /\ Finish(r) /\ UNCHANGED <<handlers, posts>>

(* BusEndpoint::wait up to loop.exec.  After quit a new loop ends at once. *)
Wait(r) ==
    /\ handlers' = [handlers EXCEPT ![r.topic] = Append(@, r.id)]
    /\ stack' = Append(stack, [id |-> r.id, conn |-> conn, topic |-> r.topic,
                               reply |-> r.reply, over |-> quit, got |-> 0,
                               since |-> posts])
    /\ UNCHANGED <<posted, subs, posts, logWait, replyTo>>

(* The QTest::qWait of an input with a delay, which no quit cuts short.    *)
Input(r) ==
    /\ stack' = Append(stack, [id |-> r.id, conn |-> conn, topic |-> None,
                               reply |-> r.reply, over |-> FALSE, got |-> 0,
                               since |-> posts])
    /\ UNCHANGED <<posted, bus, posts, logWait, replyTo>>

(* GuiDataBus::post: one queued call for each receiver but the sender.     *)
Deliveries(topic, senders) ==
    LET to == Without(handlers[topic], senders)
    IN  [i \in 1 .. Len(to) |-> [op |-> "deliver", to |-> to[i], topic |-> topic,
                                 n |-> posts + 1]]

AppPosts(topic) ==
    /\ posted' = posted \o Deliveries(topic, {})
    /\ posts' = posts + 1

Call(r) == AppPosts(r.topic) /\ Finish(r) /\ UNCHANGED bus

Quit(r) == Post([op |-> "quit"]) /\ Finish(r) /\ UNCHANGED <<bus, posts>>

LogWait(r) == logWait' = r /\ UNCHANGED <<posted, bus, posts, stack, replyTo>>

Simple(r) == Finish(r) /\ UNCHANGED <<posted, bus, posts>>

(* RpcDispatcher::dispatch.                                                *)
Dispatch(r) ==
    CASE r.kind = "publish"     -> Publish(r)
      [] r.kind = "subscribe"   -> Subscribe(r)
      [] r.kind = "unsubscribe" -> Unsubscribe(r)
      [] r.kind = "wait"        -> Wait(r)
      [] r.kind = "input"       -> Input(r)
      [] r.kind = "call"        -> Call(r)
      [] r.kind = "quit"        -> Quit(r)
      [] r.kind = "log_wait"    -> LogWait(r)
      [] OTHER                  -> Simple(r)

(* A socket whose frame is being served is not read: readyRead does not    *)
(* nest.  So a request that waits holds up the later ones of its client,   *)
(* but not those of a client that has come since.                          *)
Readable(c) ==
    /\ c # None /\ link[c] # "closed" /\ inbox[c] # <<>>
    /\ \A i \in 1 .. Len(stack) : stack[i].conn # c

OnTextMessageReceived ==
    /\ Looping /\ Readable(conn)
    /\ timer' = TRUE
    /\ inbox' = [inbox EXCEPT ![conn] = Tail(@)]
    /\ \E kind \in Kinds, topic \in Topics, reply \in BOOLEAN :
         LET r == [id |-> Head(inbox[conn]), kind |-> kind, topic |-> topic,
                   reply |-> reply]
         IN  /\ taken' = IF r.reply \/ r.kind = "invalid" THEN taken \cup {r.id} ELSE taken
             /\ Dispatch(r)
    /\ UNCHANGED <<link, backlog, conn, quit, stopped, asker>>
-----------------------------------------------------------------------------
(* The application posts to the bus: a timer of its own, the user.         *)
AppEvent(topic) ==
    /\ Looping /\ posts < MaxPosts
    /\ AppPosts(topic)
    /\ UNCHANGED <<network, conn, timer, bus, stack, logWait, quit, stopped, ghosts>>

(* GuiDataBus::registerHandler and unregisterHandler.                      *)
Registered(h, topic, who) ==
    [h EXCEPT ![topic] = IF who \in ToSet(@) THEN @ ELSE Append(@, who)]

Unregistered(h, topic, who) == [h EXCEPT ![topic] = Without(@, {who})]

(* BusWaitHelper::onBusEvent; the last event before the loop returns wins. *)
Fired(e) ==
    [i \in 1 .. Len(stack) |->
        IF stack[i].id = e.to THEN [stack[i] EXCEPT !.over = TRUE, !.got = e.n]
        ELSE stack[i]]

RunPosted ==
    /\ Looping /\ posted # <<>>
    /\ LET e == Head(posted)
       IN  /\ posted' = IF e.op = "post" THEN Tail(posted) \o Deliveries(e.topic, {Endpoint})
                        ELSE Tail(posted)
           /\ \/ /\ e.op = "register"
                 /\ handlers' = Registered(handlers, e.topic, Endpoint)
                 /\ UNCHANGED <<posts, stack, quit>>
              \/ /\ e.op = "unregister"
                 /\ handlers' = Unregistered(handlers, e.topic, Endpoint)
                 /\ UNCHANGED <<posts, stack, quit>>
              \/ /\ e.op = "post"
                 /\ posts' = posts + 1
                 /\ UNCHANGED <<handlers, stack, quit>>
              \/ /\ e.op = "deliver"
                 /\ stack' = Fired(e)
                 /\ UNCHANGED <<handlers, posts, quit>>
              \/ /\ e.op = "quit"
                 /\ quit' = TRUE
                 /\ stack' = [i \in 1 .. Len(stack) |->
                              [stack[i] EXCEPT !.over = @ \/ stack[i].topic # None]]
                 /\ UNCHANGED <<handlers, posts>>
    /\ UNCHANGED <<network, conn, timer, subs, logWait, stopped, ghosts>>

WaitUnlessFired(i) ==    \* mutant: the timer does not end the loop
    /\ Looping /\ i \in 1 .. Len(stack) /\ ~ stack[i].over /\ stack[i].got # 0
    /\ stack' = [stack EXCEPT ![i].over = TRUE]
    /\ UNCHANGED <<network, conn, timer, posted, bus, logWait, quit, stopped, ghosts, posts>>

(* The timers of outer loops run out in the inner ones.  Timeouts are those *)
(* a client means: with a negative timeout_ms QTimer does not start.       *)
WaitTimeout(i) ==
    /\ Looping /\ i \in 1 .. Len(stack) /\ ~ stack[i].over
    /\ stack' = [stack EXCEPT ![i].over = TRUE]
    /\ UNCHANGED <<network, conn, timer, posted, bus, logWait, quit, stopped,
                   ghosts, posts>>

CallsTo(who) == {e \in ToSet(posted) : e.op = "deliver" /\ e.to = who}

Forgotten(f) ==    \* mutant: the helper is deleted but not unregistered
    /\ posted' = Without(posted, CallsTo(f.id))
    /\ UNCHANGED handlers

(* unregisterHandler and delete helper, which drops the events posted to it. *)
Cleanup(f) ==
    IF f.topic = None THEN UNCHANGED <<handlers, posted>>
    ELSE /\ handlers' = Unregistered(handlers, f.topic, f.id)
         /\ posted' = Without(posted, CallsTo(f.id))

(* loop.exec returns, and the dispatcher's reply is sent.                  *)
Return ==
    /\ logWait = None /\ stack # <<>> /\ Last(stack).over
    /\ Cleanup(Last(stack))
    /\ stack' = Front(stack)
    /\ replyTo' = Replied(replyTo, Last(stack).id, Last(stack).reply)
    /\ UNCHANGED <<network, conn, timer, subs, logWait, quit, stopped, asker,
                   taken, posts>>

(* LogSink::wait, on a line that was there, or that another thread logs,   *)
(* or its deadline: whatever the GUI thread would have logged must wait.   *)
EndLogWait ==
    /\ logWait # None
    /\ logWait' = None
    /\ replyTo' = Replied(replyTo, logWait.id, logWait.reply)
    /\ UNCHANGED <<network, conn, timer, posted, bus, stack, quit, stopped, asker,
                   taken, posts>>

(* main returns, and with the singleton WsServer::stop.                    *)
Stop ==
    /\ quit /\ stack = <<>> /\ logWait = None /\ ~ stopped
    /\ stopped' = TRUE
    /\ conn' = None /\ timer' = FALSE /\ backlog' = <<>>
    /\ link' = [c \in Conns |-> IF link[c] = "none" THEN "none" ELSE "closed"]
    /\ UNCHANGED <<inbox, posted, bus, stack, logWait, quit, ghosts, posts>>
-----------------------------------------------------------------------------
TimesOut == \E i \in 1 .. MaxRequests : WaitTimeout(i)

Next ==
    \/ \E c \in Conns :
         Connect(c) \/ Send(c) \/ Leave(c)
    \/ \E topic \in Topics : AppEvent(topic)
    \/ OnNewConnection \/ OnClientDisconnected \/ OnIdleTimeout
    \/ OnTextMessageReceived \/ RunPosted \/ TimesOut \/ Return \/ EndLogWait
    \/ Stop

Fairness ==
    /\ \A i \in Ids : WF_vars(WaitTimeout(i))
    /\ WF_vars(Return) /\ WF_vars(EndLogWait)

Spec == Init /\ [][Next]_vars /\ Fairness
-----------------------------------------------------------------------------
Decides(e, t) == e.op \in {"register", "unregister"} /\ e.topic = t

IsLast(k, t) ==
    /\ k \in 1 .. Len(posted) /\ Decides(posted[k], t)
    /\ \A j \in 1 .. Len(posted) : Decides(posted[j], t) => j <= k

(* subscribe and unsubscribe answer before the bus knows.  However many of *)
(* them are on their way, the last one decides: once the event queue has   *)
(* caught up, the bus has the endpoint as a handler exactly of the topics  *)
(* it has promised its client.                                             *)
RegistrationFollows ==
    \A t \in Topics :
        /\ \A k \in 1 .. Len(posted) :
               IsLast(k, t) => (t \in subs <=> posted[k].op = "register")
        /\ (\A k \in 1 .. Len(posted) : ~ Decides(posted[k], t)) =>
               (t \in subs <=> Endpoint \in ToSet(handlers[t]))

(* A reply goes to the connection that asked.  Waits outlive their client, *)
(* and their reply may then reach its successor (or nobody); but no one    *)
(* who is still connected loses a reply to another.                        *)
ReplyToAsker ==
    \A i \in Ids : \A k \in 1 .. Len(replyTo[i]) :
        replyTo[i][k] # asker[i] => link[asker[i]] \in {"left", "closed"}

(* A request is answered once if it wants an answer; while its answer is   *)
(* due, an event loop or the log has it.                                   *)
OneReply ==
    \A i \in Ids :
        Len(replyTo[i]) = IF \/ i \notin taken
                             \/ \E k \in 1 .. Len(stack) : stack[k].id = i
                             \/ logWait # None /\ logWait.id = i
                          THEN 0 ELSE 1

(* Requests are answered once and to the right client, though waits nest,  *)
(* return in another order than they came in, and outlive their clients.   *)
EachAnswered == ReplyToAsker /\ OneReply

(* The bus never keeps the helper of a wait that has returned, nor the     *)
(* event loop a call to it, and a wait is told only of events posted since *)
(* it began.                                                               *)
WaitsAreLive ==
    LET waiting == {Endpoint} \cup {stack[k].id : k \in 1 .. Len(stack)}
    IN  /\ \A t \in Topics : ToSet(handlers[t]) \subseteq waiting
        /\ \A k \in 1 .. Len(posted) : posted[k].op = "deliver" => posted[k].to \in waiting
        /\ \A k \in 1 .. Len(stack) : stack[k].got # 0 => stack[k].got > stack[k].since

(* The bus knows those who listen and only those.                          *)
BusKnowsListeners == TypeOK /\ RegistrationFollows /\ WaitsAreLive

(* While a client is connected the idle timer runs for it, whoever was     *)
(* connected before and whatever was closed in the meantime.               *)
IdleClientsWatched == conn # None /\ link[conn] # "closed" => timer

(* However waits nest, whichever clients come and go in them, and though   *)
(* they return in the order of a stack, all of them return: the GUI thread *)
(* always comes back to its own event loop, and every request that was     *)
(* taken has its answer (OneReply).                                        *)
ComesBack == []<>(stack = <<>> /\ logWait = None)
=============================================================================

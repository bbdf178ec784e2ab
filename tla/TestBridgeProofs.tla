--------------------------- MODULE TestBridgeProofs ---------------------------
(***************************************************************************)
(* Requests to the TestBridge are answered once and to the right client,   *)
(* a client that is connected is watched, and the bus knows exactly those  *)
(* who listen, for any number of clients, requests, topics, events and     *)
(* nested event loops.                                                     *)
(***************************************************************************)
EXTENDS TestBridge, SubsequencesProofs, SequenceTheorems, TLAPS

(* A sequence, whatever is in it; and what of a frame of the stack counts  *)
(* here.                                                                   *)
IsSequence(s) == Len(s) \in Nat /\ s = [i \in 1 .. Len(s) |-> s[i]]

IsFrame(f) ==
    f \in [id : 1 .. Len(asker), conn : {f.conn}, topic : {f.topic}, reply : BOOLEAN,
           over : {f.over}, got : {f.got}, since : {f.since}]

LinksTrue ==
    /\ link \in [Conns -> {"none", "open", "left", "closed"}]
    /\ backlog \in Seq(Conns) /\ conn \in Conns \cup {None}
    /\ None \notin Conns
    /\ \A k \in 1 .. Len(backlog) : link[backlog[k]] # "none"
    /\ conn # None => link[conn] # "none"
    /\ asker \in Seq(Conns) /\ Len(asker) <= MaxRequests

(* Someone asked who is gone, or is the client.                            *)
Served(i) == asker[i] = conn \/ link[asker[i]] \in {"left", "closed"}

Waits(i) == (\E k \in 1 .. Len(stack) : stack[k].id = i) \/ (logWait # None /\ logWait.id = i)

(* Requests on their way: each is in one inbox, its asker's, and once.     *)
InboxTrue ==
    /\ inbox \in [Conns -> Seq(Nat)]
    /\ \A c \in Conns : \A k \in 1 .. Len(inbox[c]) :
          /\ inbox[c][k] \in 1 .. Len(asker) /\ asker[inbox[c][k]] = c
          /\ inbox[c][k] \notin taken /\ ~ Waits(inbox[c][k])
          /\ \A j \in 1 .. Len(inbox[c]) : inbox[c][j] = inbox[c][k] => j = k

(* Requests that wait: in one loop, or in the log.                         *)
StackTrue ==
    /\ IsSequence(stack)
    /\ \A k \in 1 .. Len(stack) :
          /\ IsFrame(stack[k]) /\ Served(stack[k].id)
          /\ stack[k].reply <=> stack[k].id \in taken
          /\ \A j \in 1 .. Len(stack) : stack[j].id = stack[k].id => j = k
          /\ logWait # None => logWait.id # stack[k].id

LogTrue ==
    logWait # None =>
        /\ logWait.id \in 1 .. Len(asker) /\ Served(logWait.id)
        /\ logWait.reply \in BOOLEAN /\ (logWait.reply <=> logWait.id \in taken)

RepliesTrue ==
    /\ taken \subseteq 1 .. Len(asker)
    /\ replyTo \in [Ids -> Seq(Conns \cup {None})]

BridgeInv ==
    /\ LinksTrue /\ InboxTrue /\ StackTrue /\ LogTrue /\ RepliesTrue
    /\ ReplyToAsker /\ OneReply
-----------------------------------------------------------------------------
LEMMA Constants ==
    /\ MaxConns \in Nat /\ MaxRequests \in Nat /\ None \notin Nat /\ None \notin Conns
  BY BridgeAssumption DEF Conns

LEMMA BridgeStarts == Init => BridgeInv
  <1> SUFFICES ASSUME Init PROVE BridgeInv
    OBVIOUS
  <1>1. Len(stack) = 0 /\ Len(asker) = 0 /\ \A c \in Conns : Len(inbox[c]) = 0
    BY DEF Init
  <1>2. \A i \in Ids : Len(replyTo[i]) = 0
    BY DEF Init
  <1>3. LinksTrue
    <2>1. Len(backlog) = 0
      BY DEF Init
    <2> QED
      BY <1>1, <2>1, Constants DEF Init, LinksTrue
  <1>4. InboxTrue
    BY <1>1 DEF Init, InboxTrue
  <1>5. StackTrue
    <2>1. IsSequence(stack)
      BY DEF Init, IsSequence
    <2> QED
      BY <1>1, <2>1 DEF StackTrue
  <1>6. LogTrue /\ RepliesTrue
    BY DEF Init, LogTrue, RepliesTrue
  <1>7. ReplyToAsker /\ OneReply
    BY <1>1, <1>2 DEF Init, ReplyToAsker, OneReply
  <1> QED
    BY <1>3, <1>4, <1>5, <1>6, <1>7 DEF BridgeInv

(* Only OneReply and what is said of the stack mention Waits.              *)
LEMMA OneReplyIs ==
    OneReply <=> \A i \in Ids : Len(replyTo[i]) = IF i \notin taken \/ Waits(i) THEN 0 ELSE 1
  BY DEF OneReply, Waits
-----------------------------------------------------------------------------
(* Steps in which requests neither come nor go, and links only get worse.  *)
LEMMA Undisturbed ==
    ASSUME BridgeInv, LinksTrue',
           UNCHANGED <<inbox, logWait, ghosts>>,
           IsSequence(stack'), Len(stack') = Len(stack),
           \A k \in 1 .. Len(stack) :
              IsFrame(stack'[k]) /\ stack'[k].id = stack[k].id /\ stack'[k].reply = stack[k].reply,
           \A c \in Conns : link[c] \in {"left", "closed"} => link'[c] \in {"left", "closed"},
           conn' = conn \/ conn = None \/ link'[conn] \in {"left", "closed"}
    PROVE  BridgeInv'
  <1>1. /\ inbox' = inbox /\ logWait' = logWait /\ asker' = asker
        /\ taken' = taken /\ replyTo' = replyTo
    BY DEF ghosts
  <1>2. \A i \in 1 .. Len(asker) : asker[i] \in Conns
    BY DEF BridgeInv, LinksTrue
  <1>3. \A i : Waits(i)' <=> Waits(i)
    BY <1>1 DEF Waits
  <1>4. \A i \in 1 .. Len(asker) : Served(i) => Served(i)'
    BY <1>1, <1>2 DEF Served, BridgeInv, LinksTrue
  <1>5. InboxTrue'
    BY <1>1, <1>3 DEF BridgeInv, InboxTrue
  <1>6. StackTrue' /\ LogTrue'
    <2>1. \A k \in 1 .. Len(stack) : stack[k].id \in 1 .. Len(asker)
      BY DEF BridgeInv, StackTrue, IsFrame
    <2>2. \A k \in 1 .. Len(stack) : IsFrame(stack[k])'
      BY <1>1 DEF IsFrame
    <2>3. StackTrue'
      BY <1>1, <1>4, <2>1, <2>2 DEF BridgeInv, StackTrue, IsSequence
    <2> QED
      BY <1>1, <1>4, <2>3 DEF BridgeInv, LogTrue
  <1>7. RepliesTrue'
    BY <1>1 DEF BridgeInv, RepliesTrue
  <1>8. OneReply'
    BY <1>1, <1>3 DEF BridgeInv, OneReply, Waits
  <1>9. ReplyToAsker'
    <2> SUFFICES ASSUME NEW i \in Ids, NEW k \in 1 .. Len(replyTo[i]), replyTo[i][k] # asker[i]
                 PROVE  link'[asker[i]] \in {"left", "closed"}
      BY <1>1 DEF ReplyToAsker
    <2>1. i \in taken
      BY DEF BridgeInv, OneReply
    <2>2. asker[i] \in Conns
      BY <1>2, <2>1 DEF BridgeInv, RepliesTrue
    <2>3. link[asker[i]] \in {"left", "closed"}
      BY DEF BridgeInv, ReplyToAsker
    <2> QED
      BY <2>2, <2>3
  <1> QED
    BY <1>5, <1>6, <1>7, <1>8, <1>9 DEF BridgeInv

LEMMA Calm ==
    ASSUME BridgeInv, LinksTrue',
           UNCHANGED <<inbox, stack, logWait, ghosts>>,
           \A c \in Conns : link[c] \in {"left", "closed"} => link'[c] \in {"left", "closed"},
           conn' = conn \/ conn = None \/ link'[conn] \in {"left", "closed"}
    PROVE  BridgeInv'
  <1>1. IsSequence(stack') /\ Len(stack') = Len(stack)
    BY DEF BridgeInv, StackTrue
  <1>2. \A k \in 1 .. Len(stack) :
            IsFrame(stack'[k]) /\ stack'[k].id = stack[k].id /\ stack'[k].reply = stack[k].reply
    BY DEF BridgeInv, StackTrue
  <1> QED
    BY <1>1, <1>2, Undisturbed

(* Clients come and go, and the timer runs out.                            *)
LEMMA ConnectKeeps == ASSUME BridgeInv, NEW c \in Conns, Connect(c) PROVE BridgeInv'
  <1>1. LinksTrue'
    BY DEF BridgeInv, LinksTrue, Connect, ghosts
  <1> QED
    BY <1>1, Calm DEF Connect, BridgeInv, LinksTrue, ghosts

LEMMA LeaveKeeps == ASSUME BridgeInv, NEW c \in Conns, Leave(c) PROVE BridgeInv'
  <1>1. LinksTrue'
    BY DEF BridgeInv, LinksTrue, Leave, ghosts
  <1> QED
    BY <1>1, Calm DEF Leave, BridgeInv, LinksTrue, ghosts

LEMMA OnNewConnectionKeeps == ASSUME BridgeInv, OnNewConnection PROVE BridgeInv'
  <1>1. backlog \in Seq(Conns) /\ backlog # <<>>
    BY DEF BridgeInv, LinksTrue, OnNewConnection
  <1>2. /\ Head(backlog) \in Conns /\ link[Head(backlog)] # "none"
        /\ Tail(backlog) \in Seq(Conns)
        /\ \A k \in 1 .. Len(Tail(backlog)) : link[Tail(backlog)[k]] # "none"
    BY <1>1 DEF BridgeInv, LinksTrue
  <1>3. LinksTrue'
    BY <1>2 DEF BridgeInv, LinksTrue, OnNewConnection, Accept, ghosts
  <1> QED
    BY <1>2, <1>3, Calm DEF OnNewConnection, Accept, BridgeInv, LinksTrue, ghosts

LEMMA OnClientDisconnectedKeeps == ASSUME BridgeInv, OnClientDisconnected PROVE BridgeInv'
  <1>1. LinksTrue'
    BY DEF BridgeInv, LinksTrue, OnClientDisconnected, network, ghosts
  <1> QED
    BY <1>1, Calm DEF OnClientDisconnected, network, BridgeInv, LinksTrue, ghosts

LEMMA OnIdleTimeoutKeeps == ASSUME BridgeInv, OnIdleTimeout PROVE BridgeInv'
  <1>1. LinksTrue'
    BY DEF BridgeInv, LinksTrue, OnIdleTimeout, ghosts
  <1> QED
    BY <1>1, Calm DEF OnIdleTimeout, BridgeInv, LinksTrue, ghosts

LEMMA AppEventKeeps == ASSUME BridgeInv, NEW topic \in Topics, AppEvent(topic) PROVE BridgeInv'
  <1>1. LinksTrue'
    BY DEF BridgeInv, LinksTrue, AppEvent, network, ghosts
  <1> QED
    BY <1>1, Calm DEF AppEvent, network, BridgeInv, LinksTrue, ghosts

LEMMA StopKeeps == ASSUME BridgeInv, Stop PROVE BridgeInv'
  <1>1. LinksTrue'
    BY DEF BridgeInv, LinksTrue, Stop, ghosts
  <1> QED
    BY <1>1, Calm DEF Stop, BridgeInv, LinksTrue, ghosts

(* A loop is told to end, and stays where it is.                           *)
LEMMA Marked ==
    ASSUME BridgeInv, UNCHANGED <<network, conn, logWait, ghosts>>,
           NEW m, stack' = m, IsSequence(m), Len(m) = Len(stack),
           \A k \in 1 .. Len(stack) :
              IsFrame(m[k]) /\ m[k].id = stack[k].id /\ m[k].reply = stack[k].reply
    PROVE  BridgeInv'
  <1>1. LinksTrue'
    BY DEF BridgeInv, LinksTrue, network, ghosts
  <1> QED
    BY <1>1, Undisturbed DEF network

LEMMA WaitTimeoutKeeps == ASSUME BridgeInv, NEW i \in Ids, WaitTimeout(i) PROVE BridgeInv'
  <1> DEFINE m == [k \in 1 .. Len(stack) |->
                     IF k = i THEN [stack[k] EXCEPT !.over = TRUE] ELSE stack[k]]
  <1>1. IsSequence(stack) /\ i \in 1 .. Len(stack)
    BY DEF BridgeInv, StackTrue, WaitTimeout
  <1>2. IsSequence(m) /\ Len(m) = Len(stack)
    BY <1>1 DEF IsSequence
  <1>3. ASSUME NEW k \in 1 .. Len(stack)
        PROVE  IsFrame(m[k]) /\ m[k].id = stack[k].id /\ m[k].reply = stack[k].reply
    <2>1. IsFrame(stack[k])
      BY DEF BridgeInv, StackTrue
    <2> QED
      BY <2>1 DEF IsFrame
  <1>4. stack' = m
    BY <1>1 DEF WaitTimeout, IsSequence
  <1>5. UNCHANGED <<network, conn, logWait, ghosts>>
    BY DEF WaitTimeout
  <1> HIDE DEF m
  <1> QED
    BY <1>2, <1>3, <1>4, <1>5, Marked

LEMMA RunPostedKeeps == ASSUME BridgeInv, RunPosted PROVE BridgeInv'
  <1>1. /\ UNCHANGED <<network, conn, logWait, ghosts>>
        /\ \/ UNCHANGED stack
           \/ stack' = Fired(Head(posted))
           \/ stack' = [i \in 1 .. Len(stack) |->
                          [stack[i] EXCEPT !.over = @ \/ stack[i].topic # None]]
    BY DEF RunPosted
  <1>2. IsSequence(stack) /\ \A k \in 1 .. Len(stack) : IsFrame(stack[k])
    BY DEF BridgeInv, StackTrue
  <1>3. CASE UNCHANGED stack
    BY <1>1, <1>2, <1>3, Marked
  <1>4. CASE stack' = Fired(Head(posted))
    <2> DEFINE m == Fired(Head(posted))
    <2>1. IsSequence(m) /\ Len(m) = Len(stack)
      BY <1>2 DEF IsSequence, Fired
    <2>2. ASSUME NEW k \in 1 .. Len(stack)
          PROVE  IsFrame(m[k]) /\ m[k].id = stack[k].id /\ m[k].reply = stack[k].reply
      BY <1>2 DEF IsFrame, Fired
    <2> QED
      BY <1>1, <1>4, <2>1, <2>2, Marked
  <1>5. CASE stack' = [i \in 1 .. Len(stack) |->
                         [stack[i] EXCEPT !.over = @ \/ stack[i].topic # None]]
    <2> DEFINE m == [i \in 1 .. Len(stack) |->
                         [stack[i] EXCEPT !.over = @ \/ stack[i].topic # None]]
    <2>1. IsSequence(m) /\ Len(m) = Len(stack)
      BY <1>2 DEF IsSequence
    <2>2. ASSUME NEW k \in 1 .. Len(stack)
          PROVE  IsFrame(m[k]) /\ m[k].id = stack[k].id /\ m[k].reply = stack[k].reply
      BY <1>2 DEF IsFrame
    <2> QED
      BY <1>1, <1>5, <2>1, <2>2, Marked
  <1> QED
    BY <1>1, <1>3, <1>4, <1>5
-----------------------------------------------------------------------------
(* A request is sent: nobody has its number yet.                           *)
LEMMA SendKeeps == ASSUME BridgeInv, NEW c \in Conns, Send(c) PROVE BridgeInv'
  <1> DEFINE n == Len(asker) + 1
  <1>1. /\ asker \in Seq(Conns) /\ asker' = Append(asker, c)
        /\ Len(asker) \in Nat /\ Len(asker') = n /\ Len(asker) < MaxRequests
        /\ inbox' = [inbox EXCEPT ![c] = Append(@, n)]
    BY DEF BridgeInv, LinksTrue, Send
  <1>2. /\ link' = link /\ backlog' = backlog /\ conn' = conn /\ stack' = stack
        /\ logWait' = logWait /\ taken' = taken /\ replyTo' = replyTo
    BY DEF Send
  <1>3. asker'[n] = c /\ \A i \in 1 .. Len(asker) : asker'[i] = asker[i] /\ i \in 1 .. Len(asker') /\ i # n
    BY <1>1
  <1>4. n \notin taken /\ ~ Waits(n)
    <2>1. \A k \in 1 .. Len(stack) : stack[k].id \in 1 .. Len(asker)
      BY DEF BridgeInv, StackTrue, IsFrame
    <2> QED
      BY <1>1, <1>3, <2>1 DEF BridgeInv, RepliesTrue, LogTrue, Waits
  <1>5. \A i \in 1 .. Len(asker) : Served(i) => Served(i)'
    BY <1>2, <1>3 DEF Served
  <1>6. LinksTrue'
    <2>1. asker' \in Seq(Conns) /\ Len(asker') <= MaxRequests
      BY <1>1, Constants
    <2> QED
      BY <1>2, <2>1 DEF BridgeInv, LinksTrue
  <1>7. InboxTrue'
    <2>1. inbox \in [Conns -> Seq(Nat)]
      BY DEF BridgeInv, InboxTrue
    <2>2. n \in Nat /\ n \in 1 .. Len(asker')
      BY <1>1
    <2>3. inbox' \in [Conns -> Seq(Nat)]
      BY <1>1, <2>1, <2>2
    <2>4. ASSUME NEW d \in Conns, NEW k \in 1 .. Len(inbox'[d])
          PROVE  \/ k \in 1 .. Len(inbox[d]) /\ inbox'[d][k] = inbox[d][k]
                 \/ k = Len(inbox[d]) + 1 /\ inbox'[d][k] = n /\ d = c
      <3>1. CASE d = c
        <4>1. inbox[d] \in Seq(Nat) /\ inbox'[d] = Append(inbox[d], n)
          BY <1>1, <2>1, <3>1
        <4> QED
          BY <2>2, <3>1, <4>1
      <3>2. CASE d # c
        BY <1>1, <2>1, <3>2
      <3> QED
        BY <3>1, <3>2
    <2>5. ASSUME NEW d \in Conns, NEW k \in 1 .. Len(inbox[d])
          PROVE  /\ inbox[d][k] \in 1 .. Len(asker) /\ asker[inbox[d][k]] = d
                 /\ inbox[d][k] \notin taken /\ ~ Waits(inbox[d][k])
                 /\ \A j \in 1 .. Len(inbox[d]) : inbox[d][j] = inbox[d][k] => j = k
      BY DEF BridgeInv, InboxTrue
    <2>6. ASSUME NEW d \in Conns, NEW k \in 1 .. Len(inbox'[d])
          PROVE  /\ inbox'[d][k] \in 1 .. Len(asker') /\ asker'[inbox'[d][k]] = d
                 /\ inbox'[d][k] \notin taken' /\ ~ Waits(inbox'[d][k])
      <3>1. CASE k \in 1 .. Len(inbox[d]) /\ inbox'[d][k] = inbox[d][k]
        BY <1>2, <1>3, <2>5, <3>1
      <3>2. CASE k = Len(inbox[d]) + 1 /\ inbox'[d][k] = n /\ d = c
        BY <1>2, <1>3, <1>4, <2>2, <3>2
      <3> QED
        BY <2>4, <3>1, <3>2
    <2>7. ASSUME NEW d \in Conns, NEW k \in 1 .. Len(inbox'[d]), NEW j \in 1 .. Len(inbox'[d]),
                 inbox'[d][j] = inbox'[d][k]
          PROVE  j = k
      <3>1. \A l \in 1 .. Len(inbox[d]) : inbox[d][l] # n
        BY <1>3, <2>5
      <3>2. \/ k \in 1 .. Len(inbox[d]) /\ inbox'[d][k] = inbox[d][k]
            \/ k = Len(inbox[d]) + 1 /\ inbox'[d][k] = n
        BY <2>4
      <3>3. \/ j \in 1 .. Len(inbox[d]) /\ inbox'[d][j] = inbox[d][j]
            \/ j = Len(inbox[d]) + 1 /\ inbox'[d][j] = n
        BY <2>4
      <3>4. \A l, m \in 1 .. Len(inbox[d]) : inbox[d][l] = inbox[d][m] => l = m
        BY <2>5
      <3> HIDE DEF n
      <3> QED
        BY <2>7, <3>1, <3>2, <3>3, <3>4
    <2>8. ASSUME NEW d \in Conns, NEW k \in 1 .. Len(inbox'[d])
          PROVE  ~ (Waits(inbox[d][k]))'
      BY <1>2, <2>6 DEF Waits
    <2>9. \A d \in Conns : \A k \in 1 .. Len(inbox'[d]) :
             /\ inbox'[d][k] \in 1 .. Len(asker') /\ asker'[inbox'[d][k]] = d
             /\ inbox'[d][k] \notin taken'
      BY <2>6
    <2> QED
      BY <2>3, <2>7, <2>8, <2>9 DEF InboxTrue
  <1>8. StackTrue' /\ LogTrue'
    <2>1. \A k \in 1 .. Len(stack) : stack[k].id \in 1 .. Len(asker)
      BY DEF BridgeInv, StackTrue, IsFrame
    <2>2. \A k \in 1 .. Len(stack) : IsFrame(stack[k])'
      BY <1>2, <1>3 DEF BridgeInv, StackTrue, IsFrame
    <2>3. StackTrue'
      BY <1>2, <1>5, <2>1, <2>2 DEF BridgeInv, StackTrue, IsSequence
    <2> QED
      BY <1>2, <1>3, <1>5, <2>3 DEF BridgeInv, LogTrue
  <1>9. RepliesTrue' /\ OneReply'
    BY <1>2, <1>3 DEF BridgeInv, RepliesTrue, OneReply
  <1>10. ReplyToAsker'
    <2> SUFFICES ASSUME NEW i \in Ids, NEW k \in 1 .. Len(replyTo[i]), replyTo[i][k] # asker'[i]
                 PROVE  link[asker'[i]] \in {"left", "closed"}
      BY <1>2 DEF ReplyToAsker
    <2>1. i \in taken
      BY DEF BridgeInv, OneReply
    <2>2. i \in 1 .. Len(asker)
      BY <2>1 DEF BridgeInv, RepliesTrue
    <2> QED
      BY <1>3, <2>2 DEF BridgeInv, ReplyToAsker
  <1> QED
    BY <1>6, <1>7, <1>8, <1>9, <1>10 DEF BridgeInv
-----------------------------------------------------------------------------
(* A request gets its answer, and waits no longer, if it did.              *)
LEMMA Answered ==
    ASSUME BridgeInv, NEW i \in Ids, NEW wants \in BOOLEAN,
           UNCHANGED <<link, conn, asker>>,
           i \in 1 .. Len(asker), Served(i), Len(replyTo[i]) = 0, i \in taken => wants,
           replyTo' = Replied(replyTo, i, wants),
           taken' = IF wants THEN taken \cup {i} ELSE taken,
           ~ Waits(i)', \A j \in Ids : j # i => (Waits(j)' <=> Waits(j))
    PROVE  RepliesTrue' /\ ReplyToAsker' /\ OneReply'
  <1>1. /\ link' = link /\ conn' = conn /\ asker' = asker
        /\ asker[i] \in Conns /\ None \notin Conns
    BY DEF BridgeInv, LinksTrue
  <1>2. Receiver \in Conns \cup {None}
    BY DEF Receiver, BridgeInv, LinksTrue
  <1>3. Receiver # asker[i] => link[asker[i]] \in {"left", "closed"}
    BY <1>1 DEF Receiver, Served
  <1>4. replyTo \in [Ids -> Seq(Conns \cup {None})]
    BY DEF BridgeInv, RepliesTrue
  <1>5. replyTo' \in [Ids -> Seq(Conns \cup {None})]
    BY <1>2, <1>4 DEF Replied
  <1>6. \A j \in Ids : j # i => replyTo'[j] = replyTo[j]
    BY <1>4 DEF Replied
  <1>7. CASE wants
    <2>1. replyTo'[i] = Append(replyTo[i], Receiver) /\ replyTo[i] \in Seq(Conns \cup {None})
      BY <1>4, <1>7 DEF Replied
    <2>2. Len(replyTo'[i]) = 1 /\ replyTo'[i][1] = Receiver
      BY <1>2, <2>1
    <2>3. taken' = taken \cup {i}
      BY <1>7
    <2>4. RepliesTrue'
      BY <1>1, <1>5, <2>3 DEF BridgeInv, RepliesTrue
    <2>5. OneReply'
      <3>1. ASSUME NEW j \in Ids, j # i
            PROVE  Len(replyTo'[j]) = IF j \notin taken' \/ Waits(j)' THEN 0 ELSE 1
        <4>1. Len(replyTo[j]) = IF j \notin taken \/ Waits(j) THEN 0 ELSE 1
          BY OneReplyIs DEF BridgeInv
        <4> QED
          BY <1>6, <2>3, <3>1, <4>1
      <3>2. Len(replyTo'[i]) = IF i \notin taken' \/ Waits(i)' THEN 0 ELSE 1
        BY <2>2, <2>3
      <3> QED
        BY <3>1, <3>2 DEF OneReply, Waits
    <2>6. ReplyToAsker'
      BY <1>1, <1>3, <1>6, <2>2 DEF BridgeInv, ReplyToAsker
    <2> QED
      BY <2>4, <2>5, <2>6
  <1>8. CASE ~ wants
    <2>1. replyTo' = replyTo /\ taken' = taken /\ i \notin taken
      BY <1>8 DEF Replied
    <2>2. RepliesTrue' /\ ReplyToAsker'
      BY <1>1, <2>1 DEF BridgeInv, RepliesTrue, ReplyToAsker
    <2>3. OneReply'
      BY <2>1 DEF BridgeInv, OneReply, Waits
    <2> QED
      BY <2>2, <2>3
  <1> QED
    BY <1>7, <1>8

LEMMA EndLogWaitKeeps == ASSUME BridgeInv, EndLogWait PROVE BridgeInv'
  <1> PICK i, wants : i = logWait.id /\ wants = logWait.reply
    OBVIOUS
  <1>1. /\ logWait # None /\ logWait' = None
        /\ replyTo' = Replied(replyTo, i, wants)
        /\ link' = link /\ backlog' = backlog /\ inbox' = inbox /\ conn' = conn
        /\ stack' = stack /\ asker' = asker /\ taken' = taken
    BY DEF EndLogWait, network
  <1>2. /\ i \in 1 .. Len(asker) /\ Served(i) /\ wants \in BOOLEAN /\ (wants <=> i \in taken)
        /\ Waits(i)
    BY <1>1 DEF BridgeInv, LogTrue, Waits
  <1>3. i \in Ids
    BY <1>2, Constants DEF BridgeInv, LinksTrue, Ids
  <1>4. ~ Waits(i)'
    BY <1>1 DEF BridgeInv, StackTrue, Waits
  <1>5. \A j : j # i => (Waits(j)' <=> Waits(j))
    BY <1>1 DEF Waits
  <1>6. Len(replyTo[i]) = 0
    BY <1>2, <1>3 DEF BridgeInv, OneReply, Waits
  <1>7. taken' = IF wants THEN taken \cup {i} ELSE taken
    BY <1>1, <1>2
  <1>8. RepliesTrue' /\ ReplyToAsker' /\ OneReply'
    BY <1>1, <1>2, <1>3, <1>4, <1>5, <1>6, <1>7, Answered
  <1>9. LinksTrue' /\ LogTrue'
    BY <1>1 DEF BridgeInv, LinksTrue, LogTrue
  <1>10. InboxTrue'
    BY <1>1 DEF BridgeInv, InboxTrue, Waits
  <1>11. StackTrue'
    BY <1>1 DEF BridgeInv, StackTrue, IsSequence, IsFrame, Served
  <1> QED
    BY <1>8, <1>9, <1>10, <1>11 DEF BridgeInv

(* The top of a stack, and what is left without it.                        *)
LEMMA Popped ==
    ASSUME NEW s, IsSequence(s), s # <<>>
    PROVE  /\ Len(s) \in 1 .. Len(s) /\ Last(s) = s[Len(s)]
           /\ IsSequence(Front(s)) /\ Len(Front(s)) = Len(s) - 1
           /\ \A k \in 1 .. Len(s) - 1 : Front(s)[k] = s[k]
  <1> DEFINE S == {s[k] : k \in 1 .. Len(s)}
  <1>1. s \in Seq(S)
    BY DEF IsSequence
  <1>2. Len(s) \in Nat /\ Len(s) # 0
    BY <1>1
  <1>3. Front(s) = [k \in 1 .. Len(s) - 1 |-> s[k]]
    BY <1>1, <1>2 DEF Front
  <1>4. Len(Front(s)) = Len(s) - 1
    BY <1>2, <1>3
  <1> QED
    BY <1>2, <1>3, <1>4 DEF IsSequence, Last

LEMMA SequencesAre == ASSUME NEW S, NEW t \in Seq(S) PROVE IsSequence(t)
  <1>1. Len(t) \in Nat /\ t \in [1 .. Len(t) -> S]
    BY LenProperties
  <1>2. \A n : t \in [1 .. n -> S] => t = [k \in 1 .. n |-> t[k]]
    OBVIOUS
  <1> QED
    BY <1>1, <1>2 DEF IsSequence

LEMMA Pushed ==
    ASSUME NEW s, NEW f, IsSequence(s)
    PROVE  /\ IsSequence(Append(s, f)) /\ Len(Append(s, f)) = Len(s) + 1
           /\ \A k \in 1 .. Len(s) : Append(s, f)[k] = s[k]
           /\ Append(s, f)[Len(s) + 1] = f
  <1> DEFINE S == {s[k] : k \in 1 .. Len(s)} \cup {f}
  <1>1. s \in Seq(S) /\ f \in S
    BY DEF IsSequence
  <1>2. Append(s, f) \in Seq(S) /\ Len(Append(s, f)) = Len(s) + 1
    BY <1>1
  <1> HIDE DEF S
  <1>3. IsSequence(Append(s, f))
    BY <1>2, SequencesAre
  <1> QED
    BY <1>1, <1>2, <1>3

LEMMA ReturnKeeps == ASSUME BridgeInv, Return PROVE BridgeInv'
  <1> PICK n, i, wants : n = Len(stack) /\ i = Last(stack).id /\ wants = Last(stack).reply
    OBVIOUS
  <1>1. /\ stack # <<>> /\ stack' = Front(stack)
        /\ replyTo' = Replied(replyTo, i, wants)
        /\ link' = link /\ backlog' = backlog /\ inbox' = inbox /\ conn' = conn
        /\ logWait' = logWait /\ logWait = None /\ asker' = asker /\ taken' = taken
    BY DEF Return, network
  <1>2. /\ n \in 1 .. n /\ Last(stack) = stack[n]
        /\ IsSequence(stack') /\ Len(stack') = n - 1
        /\ \A k \in 1 .. n - 1 : stack'[k] = stack[k]
    BY <1>1, Popped DEF BridgeInv, StackTrue
  <1>3. /\ i \in 1 .. Len(asker) /\ Served(i) /\ wants \in BOOLEAN /\ (wants <=> i \in taken)
        /\ stack[n].id = i /\ Waits(i)
    BY <1>2 DEF BridgeInv, StackTrue, IsFrame, Waits
  <1>4. i \in Ids
    BY <1>3, Constants DEF BridgeInv, LinksTrue, Ids
  <1>5. \A k \in 1 .. n - 1 : k \in 1 .. n /\ k # n /\ stack'[k].id # i
    BY <1>2, <1>3 DEF BridgeInv, StackTrue
  <1>6. ~ Waits(i)'
    BY <1>1, <1>2, <1>5 DEF Waits
  <1>7. ASSUME NEW j, j # i PROVE Waits(j)' <=> Waits(j)
    <2>1. ASSUME NEW k \in 1 .. n, stack[k].id = j PROVE k \in 1 .. n - 1
      BY <1>2, <1>3, <1>7, <2>1
    <2> QED
      BY <1>1, <1>2, <1>5, <2>1 DEF Waits
  <1>8. Len(replyTo[i]) = 0
    BY <1>3, <1>4 DEF BridgeInv, OneReply, Waits
  <1>9. taken' = IF wants THEN taken \cup {i} ELSE taken
    BY <1>1, <1>3
  <1>10. RepliesTrue' /\ ReplyToAsker' /\ OneReply'
    BY <1>1, <1>3, <1>4, <1>6, <1>7, <1>8, <1>9, Answered
  <1>11. LinksTrue' /\ LogTrue'
    BY <1>1 DEF BridgeInv, LinksTrue, LogTrue
  <1>12. InboxTrue'
    <2>1. \A j : Waits(j)' => Waits(j)
      BY <1>6, <1>7
    <2>2. ASSUME NEW c \in Conns, NEW k \in 1 .. Len(inbox[c])
          PROVE  /\ ~ \E l \in 1 .. Len(stack') : stack'[l].id = inbox[c][k]
                 /\ ~ (logWait' # None /\ logWait'.id = inbox[c][k])
      <3>1. ~ Waits(inbox[c][k])
        BY DEF BridgeInv, InboxTrue
      <3>2. PICK j : j = inbox[c][k]
        OBVIOUS
      <3> QED
        BY <2>1, <3>1, <3>2 DEF Waits
    <2> QED
      BY <1>1, <2>2 DEF BridgeInv, InboxTrue, Waits
  <1>13. StackTrue'
    <2>1. ASSUME NEW k \in 1 .. Len(stack')
          PROVE  /\ k \in 1 .. n /\ stack'[k] = stack[k]
                 /\ IsFrame(stack[k]) /\ Served(stack[k].id)
                 /\ (stack[k].reply <=> stack[k].id \in taken)
                 /\ \A j \in 1 .. n : stack[j].id = stack[k].id => j = k
      BY <1>2, <1>5 DEF BridgeInv, StackTrue
    <2>2. \A k \in 1 .. Len(stack') : IsFrame(stack[k])'
      BY <1>1, <2>1 DEF IsFrame
    <2>3. \A k \in 1 .. Len(stack') : (Served(stack[k].id))'
      BY <1>1, <2>1 DEF Served
    <2>4. \A k, j \in 1 .. Len(stack') : stack'[j].id = stack'[k].id => j = k
      BY <2>1
    <2> QED
      BY <1>1, <1>2, <2>1, <2>2, <2>3, <2>4 DEF StackTrue
  <1> QED
    BY <1>10, <1>11, <1>12, <1>13 DEF BridgeInv
-----------------------------------------------------------------------------
(* A request is handed on: it is answered, or held by a loop or the log.   *)
Held(r, t, o) == [id |-> r.id, conn |-> conn, topic |-> t, reply |-> r.reply,
                  over |-> o, got |-> 0, since |-> posts]

LEMMA DispatchCases ==
    ASSUME NEW r, Dispatch(r)
    PROVE  \/ Finish(r)
           \/ /\ r.kind # "invalid" /\ UNCHANGED <<logWait, replyTo>>
              /\ \E t, o : stack' = Append(stack, Held(r, t, o))
           \/ /\ r.kind # "invalid" /\ UNCHANGED <<stack, replyTo>>
              /\ logWait' = r
  <1>1. CASE r.kind = "publish"
    BY <1>1 DEF Dispatch, Publish
  <1>2. CASE r.kind = "subscribe"
    BY <1>2 DEF Dispatch, Subscribe
  <1>3. CASE r.kind = "unsubscribe"
    BY <1>3 DEF Dispatch, Unsubscribe
  <1>4. CASE r.kind = "wait"
    BY <1>4 DEF Dispatch, Wait, Held
  <1>5. CASE r.kind = "input"
    BY <1>5 DEF Dispatch, Input, Held
  <1>6. CASE r.kind = "call"
    BY <1>6 DEF Dispatch, Call
  <1>7. CASE r.kind = "quit"
    BY <1>7 DEF Dispatch, Quit
  <1>8. CASE r.kind = "log_wait"
    BY <1>8 DEF Dispatch, LogWait
  <1>9. CASE r.kind \notin {"publish", "subscribe", "unsubscribe", "wait", "input", "call",
                            "quit", "log_wait"}
    BY <1>9 DEF Dispatch, Simple
  <1> QED
    BY <1>1, <1>2, <1>3, <1>4, <1>5, <1>6, <1>7, <1>8, <1>9

LEMMA HandOn ==
    ASSUME BridgeInv, OnTextMessageReceived
    PROVE  \E i \in Ids, kind \in Kinds, topic \in Topics, reply \in BOOLEAN :
              LET r == [id |-> i, kind |-> kind, topic |-> topic, reply |-> reply]
              IN  /\ logWait = None /\ conn \in Conns
                  /\ inbox[conn] # <<>> /\ i = inbox[conn][1]
                  /\ inbox' = [inbox EXCEPT ![conn] = Tail(@)]
                  /\ i \in 1 .. Len(asker) /\ asker[i] = conn /\ i \notin taken /\ ~ Waits(i)
                  /\ link' = link /\ backlog' = backlog /\ conn' = conn /\ asker' = asker
                  /\ taken' = IF reply \/ kind = "invalid" THEN taken \cup {i} ELSE taken
                  /\ Dispatch(r)
  <1>1. /\ logWait = None /\ conn \in Conns /\ inbox[conn] # <<>>
        /\ inbox[conn] \in Seq(Nat) /\ Len(asker) \in Nat
    BY DEF OnTextMessageReceived, Looping, Readable, BridgeInv, LinksTrue, InboxTrue
  <1> PICK i : i = Head(inbox[conn])
    OBVIOUS
  <1>2. 1 \in 1 .. Len(inbox[conn]) /\ i = inbox[conn][1]
    BY <1>1
  <1>3. i \in 1 .. Len(asker) /\ asker[i] = conn /\ i \notin taken /\ ~ Waits(i)
    BY <1>1, <1>2 DEF BridgeInv, InboxTrue
  <1>4. i \in Ids
    BY <1>1, <1>3, Constants DEF BridgeInv, LinksTrue, Ids
  <1>5. /\ inbox' = [inbox EXCEPT ![conn] = Tail(@)]
        /\ link' = link /\ backlog' = backlog /\ conn' = conn /\ asker' = asker
    BY DEF OnTextMessageReceived
  <1>6. PICK kind \in Kinds, topic \in Topics, reply \in BOOLEAN :
           LET r == [id |-> i, kind |-> kind, topic |-> topic, reply |-> reply]
           IN  /\ taken' = IF r.reply \/ r.kind = "invalid" THEN taken \cup {r.id} ELSE taken
               /\ Dispatch(r)
    BY DEF OnTextMessageReceived
  <1> QED
    BY <1>1, <1>2, <1>3, <1>4, <1>5, <1>6

LEMMA InboxShrinks ==
    ASSUME BridgeInv, NEW i, conn \in Conns, inbox[conn] # <<>>, i = inbox[conn][1],
           inbox' = [inbox EXCEPT ![conn] = Tail(@)], asker' = asker,
           taken' \subseteq taken \cup {i}, \A j : Waits(j)' => Waits(j) \/ j = i
    PROVE  InboxTrue'
  <1> DEFINE Source(c, k, l) == /\ inbox'[c][k] = inbox[c][l]
                                /\ c = conn => l = k + 1
                                /\ c # conn => l = k
             Fine(c, x) == /\ x \in 1 .. Len(asker) /\ asker[x] = c
                           /\ x \notin taken /\ ~ Waits(x)
  <1>1. inbox \in [Conns -> Seq(Nat)]
    BY DEF BridgeInv, InboxTrue
  <1>2. inbox' \in [Conns -> Seq(Nat)]
    BY <1>1
  <1>3. ASSUME NEW c \in Conns, NEW k \in 1 .. Len(inbox'[c])
        PROVE  \E l \in 1 .. Len(inbox[c]) : Source(c, k, l)
    <2>1. CASE c = conn
      <3>1. inbox[c] \in Seq(Nat) /\ inbox[c] # <<>> /\ inbox'[c] = Tail(inbox[c])
        BY <1>1, <2>1
      <3>2. \A q \in Seq(Nat) : q # <<>> =>
               \A l \in 1 .. Len(Tail(q)) : l + 1 \in 1 .. Len(q) /\ Tail(q)[l] = q[l + 1]
        OBVIOUS
      <3>3. k \in 1 .. Len(Tail(inbox[c]))
        BY <3>1
      <3>4. k + 1 \in 1 .. Len(inbox[c]) /\ inbox'[c][k] = inbox[c][k + 1]
        BY <3>1, <3>2, <3>3
      <3> QED
        BY <2>1, <3>4
    <2>2. CASE c # conn
      BY <1>1, <2>2
    <2> QED
      BY <2>1, <2>2
  <1> HIDE DEF Source
  <1>4. 1 \in 1 .. Len(inbox[conn])
    BY <1>1
  <1>5. ASSUME NEW c \in Conns, NEW k \in 1 .. Len(inbox'[c])
        PROVE  Fine(c, inbox'[c][k]) /\ inbox'[c][k] # i
    <2> PICK l \in 1 .. Len(inbox[c]) : Source(c, k, l)
      BY <1>3
    <2>1. inbox'[c][k] = inbox[c][l] /\ (c = conn => l = k + 1)
      BY DEF Source
    <2>2. /\ inbox[c][l] \in 1 .. Len(asker) /\ asker[inbox[c][l]] = c
          /\ inbox[c][l] \notin taken /\ ~ Waits(inbox[c][l])
      BY DEF BridgeInv, InboxTrue
    <2>3. asker[i] = conn
      BY <1>4 DEF BridgeInv, InboxTrue
    <2>4. inbox[c][l] # i
      <3>1. CASE c # conn
        BY <2>2, <2>3, <3>1
      <3>2. CASE c = conn
        <4>1. l # 1 /\ l \in 1 .. Len(inbox[conn])
          BY <2>1, <3>2
        <4> QED
          BY <1>4, <3>2, <4>1 DEF BridgeInv, InboxTrue
      <3> QED
        BY <3>1, <3>2
    <2> QED
      BY <2>1, <2>2, <2>4
  <1> HIDE DEF Fine
  <1>6. ASSUME NEW c \in Conns, NEW k \in 1 .. Len(inbox'[c]), NEW j \in 1 .. Len(inbox'[c]),
               inbox'[c][j] = inbox'[c][k]
        PROVE  j = k
    <2> PICK l \in 1 .. Len(inbox[c]) : Source(c, k, l)
      BY <1>3
    <2> PICK m \in 1 .. Len(inbox[c]) : Source(c, j, m)
      BY <1>3
    <2>1. inbox[c][m] = inbox[c][l]
      BY <1>6 DEF Source
    <2>2. l = m
      BY <2>1 DEF BridgeInv, InboxTrue
    <2> QED
      BY <2>2 DEF Source
  <1>7. ASSUME NEW c \in Conns, NEW k \in 1 .. Len(inbox'[c])
        PROVE  /\ ~ \E l \in 1 .. Len(stack') : stack'[l].id = inbox'[c][k]
               /\ ~ (logWait' # None /\ logWait'.id = inbox'[c][k])
    <2>1. PICK j : j = inbox'[c][k]
      OBVIOUS
    <2>2. ~ Waits(j)
      BY <1>5, <2>1 DEF Fine
    <2>3. j # i
      BY <1>5, <2>1
    <2>4. ~ Waits(j)'
      BY <2>2, <2>3
    <2> QED
      BY <2>1, <2>4 DEF Waits
  <1>8. ASSUME NEW c \in Conns, NEW k \in 1 .. Len(inbox'[c])
        PROVE  /\ inbox'[c][k] \in 1 .. Len(asker') /\ asker'[inbox'[c][k]] = c
               /\ inbox'[c][k] \notin taken'
    <2>1. PICK j : j = inbox'[c][k]
      OBVIOUS
    <2>2. Fine(c, j) /\ j # i
      BY <1>5, <2>1
    <2>3. j \in 1 .. Len(asker) /\ asker[j] = c /\ j \notin taken
      BY <2>2 DEF Fine
    <2> QED
      BY <2>1, <2>2, <2>3
  <1>9. \A c \in Conns : \A k \in 1 .. Len(inbox'[c]) :
           /\ inbox'[c][k] \in 1 .. Len(asker') /\ asker'[inbox'[c][k]] = c
           /\ inbox'[c][k] \notin taken'
           /\ \A j \in 1 .. Len(inbox'[c]) : inbox'[c][j] = inbox'[c][k] => j = k
    BY <1>6, <1>8
  <1>10. \A c \in Conns : \A k \in 1 .. Len(inbox'[c]) :
           ~ ((\E l \in 1 .. Len(stack') : stack'[l].id = inbox'[c][k])
              \/ (logWait' # None /\ logWait'.id = inbox'[c][k]))
    BY <1>7
  <1>11. ASSUME NEW c \in Conns, NEW k \in 1 .. Len(inbox'[c])
         PROVE  ~ (Waits(inbox[c][k]))'
    BY <1>10 DEF Waits
  <1> QED
    BY <1>2, <1>9, <1>11 DEF InboxTrue

(* A request is held: its answer is due.                                   *)
LEMMA NoReplyYet ==
    ASSUME BridgeInv, NEW i \in Ids, i \in 1 .. Len(asker), i \notin taken,
           link' = link, asker' = asker, replyTo' = replyTo,
           taken \subseteq taken', taken' \subseteq taken \cup {i},
           Waits(i)', \A j : j # i => (Waits(j)' <=> Waits(j))
    PROVE  RepliesTrue' /\ ReplyToAsker' /\ OneReply'
  <1>1. RepliesTrue' /\ ReplyToAsker'
    BY DEF BridgeInv, RepliesTrue, ReplyToAsker
  <1>2. Len(replyTo[i]) = 0
    BY DEF BridgeInv, OneReply
  <1>3. ASSUME NEW j \in Ids
        PROVE  Len(replyTo'[j]) = IF j \notin taken' \/ Waits(j)' THEN 0 ELSE 1
    <2>1. CASE j = i
      BY <1>2, <2>1
    <2>2. CASE j # i
      <3>1. Len(replyTo[j]) = IF j \notin taken \/ Waits(j) THEN 0 ELSE 1
        BY OneReplyIs DEF BridgeInv
      <3> QED
        BY <2>2, <3>1
    <2> QED
      BY <2>1, <2>2
  <1>4. OneReply'
    BY <1>3 DEF OneReply, Waits
  <1> QED
    BY <1>1, <1>4

LEMMA OnTextMessageReceivedKeeps == ASSUME BridgeInv, OnTextMessageReceived PROVE BridgeInv'
  <1>1. PICK i \in Ids, kind \in Kinds, topic \in Topics, reply \in BOOLEAN :
           LET r == [id |-> i, kind |-> kind, topic |-> topic, reply |-> reply]
           IN  /\ logWait = None /\ conn \in Conns
               /\ inbox[conn] # <<>> /\ i = inbox[conn][1]
               /\ inbox' = [inbox EXCEPT ![conn] = Tail(@)]
               /\ i \in 1 .. Len(asker) /\ asker[i] = conn /\ i \notin taken /\ ~ Waits(i)
               /\ link' = link /\ backlog' = backlog /\ conn' = conn /\ asker' = asker
               /\ taken' = IF reply \/ kind = "invalid" THEN taken \cup {i} ELSE taken
               /\ Dispatch(r)
    BY HandOn
  <1> DEFINE r == [id |-> i, kind |-> kind, topic |-> topic, reply |-> reply]
             wants == reply \/ kind = "invalid"
  <1>2. /\ Served(i) /\ taken' \subseteq taken \cup {i}
        /\ \A j \in 1 .. Len(asker) : Served(j) => Served(j)'
    BY <1>1 DEF Served
  <1>3. LinksTrue'
    BY <1>1 DEF BridgeInv, LinksTrue
  <1>4. /\ IsSequence(stack)
        /\ \A k \in 1 .. Len(stack) :
              /\ IsFrame(stack[k]) /\ Served(stack[k].id) /\ stack[k].id \in 1 .. Len(asker)
              /\ (stack[k].reply <=> stack[k].id \in taken')
              /\ \A j \in 1 .. Len(stack) : stack[j].id = stack[k].id => j = k
              /\ stack[k].id # i
    <2>1. IsSequence(stack)
      BY DEF BridgeInv, StackTrue
    <2>2. ASSUME NEW k \in 1 .. Len(stack)
          PROVE  /\ IsFrame(stack[k]) /\ Served(stack[k].id)
                 /\ (stack[k].reply <=> stack[k].id \in taken)
                 /\ \A j \in 1 .. Len(stack) : stack[j].id = stack[k].id => j = k
      BY DEF BridgeInv, StackTrue
    <2>3. \A k \in 1 .. Len(stack) : stack[k].id # i
      BY <1>1 DEF Waits
    <2>4. \A k \in 1 .. Len(stack) : stack[k].id \in 1 .. Len(asker)
      BY <2>2 DEF IsFrame
    <2>5. \A k \in 1 .. Len(stack) : stack[k].id \in taken <=> stack[k].id \in taken'
      BY <1>1, <2>3
    <2> QED
      BY <1>1, <2>1, <2>2, <2>3, <2>4, <2>5
  <1>5. CASE Finish(r)
    <2>1. stack' = stack /\ logWait' = logWait /\ replyTo' = Replied(replyTo, i, wants)
      BY <1>5 DEF Finish
    <2>2. \A j : Waits(j)' <=> Waits(j)
      BY <2>1 DEF Waits
    <2>3. Len(replyTo[i]) = 0
      BY <1>1 DEF BridgeInv, OneReply
    <2>4. RepliesTrue' /\ ReplyToAsker' /\ OneReply'
      BY <1>1, <1>2, <2>1, <2>2, <2>3, Answered
    <2>5. InboxTrue'
      BY <1>1, <1>2, <2>2, InboxShrinks
    <2>6. StackTrue' /\ LogTrue'
      <3>1. \A k \in 1 .. Len(stack) : IsFrame(stack[k])'
        BY <1>1, <1>4, <2>1 DEF IsFrame
      <3> QED
        BY <1>1, <1>2, <1>4, <2>1, <3>1 DEF StackTrue, LogTrue, IsSequence
    <2> QED
      BY <1>3, <2>4, <2>5, <2>6 DEF BridgeInv
  <1>6. CASE kind # "invalid" /\ UNCHANGED <<stack, replyTo>> /\ logWait' = r
    <2>1. /\ stack' = stack /\ replyTo' = replyTo /\ logWait' = r /\ r.id = i
          /\ r.reply = reply /\ (reply <=> i \in taken')
          /\ taken \subseteq taken' /\ taken' \subseteq taken \cup {i}
      BY <1>1, <1>6
    <2>2. r # None
      BY BridgeAssumption DEF Request
    <2>3. Waits(i)' /\ \A j : j # i => (Waits(j)' <=> Waits(j))
      BY <1>1, <2>1, <2>2 DEF Waits
    <2>4. RepliesTrue' /\ ReplyToAsker' /\ OneReply'
      BY <1>1, <2>1, <2>3, NoReplyYet
    <2>5. InboxTrue'
      BY <1>1, <1>2, <2>3, InboxShrinks
    <2>6. StackTrue' /\ LogTrue'
      <3>1. \A k \in 1 .. Len(stack) : IsFrame(stack[k])'
        BY <1>1, <1>4, <2>1 DEF IsFrame
      <3> HIDE DEF r
      <3>2. StackTrue'
        BY <1>1, <1>2, <1>4, <2>1, <3>1 DEF StackTrue, IsSequence
      <3>3. LogTrue'
        BY <1>1, <1>2, <2>1 DEF LogTrue
      <3> QED
        BY <3>2, <3>3
    <2> QED
      BY <1>3, <2>4, <2>5, <2>6 DEF BridgeInv
  <1>7. CASE /\ kind # "invalid" /\ UNCHANGED <<logWait, replyTo>>
             /\ \E t, o : stack' = Append(stack, Held(r, t, o))
    <2> PICK t, o : stack' = Append(stack, Held(r, t, o))
      BY <1>7
    <2> DEFINE f == Held(r, t, o)
               n == Len(stack)
    <2>1. /\ f.id = i /\ f.reply = reply /\ IsFrame(f) /\ (reply <=> i \in taken')
          /\ logWait' = logWait /\ replyTo' = replyTo
          /\ taken \subseteq taken' /\ taken' \subseteq taken \cup {i}
      BY <1>1, <1>7 DEF Held, IsFrame
    <2>2. /\ stack' = Append(stack, f) /\ n \in Nat
          /\ IsSequence(stack') /\ Len(stack') = n + 1 /\ stack'[n + 1] = f
          /\ \A k \in 1 .. n : stack'[k] = stack[k]
      BY <1>4, Pushed DEF IsSequence
    <2> HIDE DEF f, r
    <2>3. \A k \in 1 .. Len(stack') : k \in 1 .. n \/ k = n + 1
      BY <2>2
    <2>4. n + 1 \in 1 .. Len(stack') /\ \A k \in 1 .. n : k \in 1 .. Len(stack')
      BY <2>2
    <2> HIDE DEF n
    <2>5. Waits(i)' /\ \A j : j # i => (Waits(j)' <=> Waits(j))
      BY <1>1, <2>1, <2>2, <2>3, <2>4 DEF Waits, n
    <2>6. RepliesTrue' /\ ReplyToAsker' /\ OneReply'
      BY <1>1, <2>1, <2>5, NoReplyYet
    <2>7. InboxTrue'
      BY <1>1, <1>2, <2>5, InboxShrinks
    <2>8. ASSUME NEW k \in 1 .. Len(stack')
          PROVE  /\ IsFrame(stack'[k]) /\ Served(stack'[k].id)
                 /\ stack'[k].id \in 1 .. Len(asker)
                 /\ (stack'[k].reply <=> stack'[k].id \in taken')
                 /\ k \in 1 .. n <=> stack'[k].id # i
      <3>1. CASE k \in 1 .. n
        BY <1>4, <2>2, <3>1 DEF n
      <3>2. CASE k = n + 1
        BY <1>1, <1>2, <2>1, <2>2, <3>2
      <3> QED
        BY <2>3, <3>1, <3>2
    <2>9. ASSUME NEW k \in 1 .. Len(stack'), NEW j \in 1 .. Len(stack'),
                 stack'[j].id = stack'[k].id
          PROVE  j = k
      <3>1. CASE k \in 1 .. n /\ j \in 1 .. n
        BY <1>4, <2>2, <2>9, <3>1 DEF n
      <3> QED
        BY <2>3, <2>8, <2>9, <3>1
    <2>10. StackTrue' /\ LogTrue'
      <3>1. \A k \in 1 .. Len(stack') : IsFrame(stack[k])'
        BY <1>1, <2>8 DEF IsFrame
      <3>2. \A k \in 1 .. Len(stack') : (Served(stack[k].id))'
        BY <1>2, <2>8 DEF Served
      <3> QED
        BY <1>1, <2>1, <2>2, <2>8, <2>9, <3>1, <3>2 DEF StackTrue, LogTrue
    <2> QED
      BY <1>3, <2>6, <2>7, <2>10 DEF BridgeInv
  <1> QED
    BY <1>1, <1>5, <1>6, <1>7, DispatchCases
-----------------------------------------------------------------------------
LEMMA BridgeStep == BridgeInv /\ [Next]_vars => BridgeInv'
  <1> SUFFICES ASSUME BridgeInv, [Next]_vars PROVE BridgeInv'
    OBVIOUS
  <1>1. ASSUME NEW c \in Conns, Connect(c) \/ Send(c) \/ Leave(c) PROVE BridgeInv'
    BY <1>1, ConnectKeeps, SendKeeps, LeaveKeeps
  <1>2. ASSUME NEW topic \in Topics, AppEvent(topic) PROVE BridgeInv'
    BY <1>2, AppEventKeeps
  <1>3. CASE OnNewConnection \/ OnClientDisconnected \/ OnIdleTimeout
    BY <1>3, OnNewConnectionKeeps, OnClientDisconnectedKeeps, OnIdleTimeoutKeeps
  <1>4. CASE OnTextMessageReceived
    BY <1>4, OnTextMessageReceivedKeeps
  <1>5. CASE RunPosted \/ Return \/ EndLogWait \/ Stop
    BY <1>5, RunPostedKeeps, ReturnKeeps, EndLogWaitKeeps, StopKeeps
  <1>6. CASE TimesOut
    BY <1>6, WaitTimeoutKeeps DEF TimesOut, Ids
  <1>7. CASE UNCHANGED vars
    <2>1. LinksTrue'
      BY <1>7 DEF BridgeInv, LinksTrue, vars, network, ghosts
    <2> QED
      BY <1>7, <2>1, Calm DEF vars, network
  <1> QED
    BY <1>1, <1>2, <1>3, <1>4, <1>5, <1>6, <1>7 DEF Next

(* A request is answered once, when nothing holds it any longer, and to    *)
(* the client that asked or, if that is gone, to its successor or nobody   *)
(* (RpcDispatcher::dispatch and WsServer::send).                           *)
THEOREM AlwaysAnswered == Spec => []EachAnswered
  <1>1. BridgeInv => EachAnswered
    BY DEF BridgeInv, EachAnswered
  <1> QED
    BY <1>1, BridgeStarts, BridgeStep, PTL DEF Spec

(* The idle timer runs whenever a client is connected (onNewConnection,    *)
(* onClientDisconnected and onIdleTimeout).                                *)
THEOREM AlwaysWatched == Spec => []IdleClientsWatched
  <1>1. Init => IdleClientsWatched
    BY DEF Init, IdleClientsWatched
  <1>2. BridgeInv /\ IdleClientsWatched /\ [Next]_vars => IdleClientsWatched'
    <2> SUFFICES ASSUME BridgeInv, IdleClientsWatched, [Next]_vars
                 PROVE  IdleClientsWatched'
      OBVIOUS
    <2>1. LinksTrue
      BY DEF BridgeInv
    <2>2. ASSUME NEW c \in Conns, Connect(c) \/ Send(c) \/ Leave(c) PROVE IdleClientsWatched'
      BY <2>1, <2>2 DEF Connect, Send, Leave, LinksTrue, IdleClientsWatched
    <2>3. ASSUME NEW topic \in Topics, AppEvent(topic) PROVE IdleClientsWatched'
      BY <2>3 DEF AppEvent, network, IdleClientsWatched
    <2>4. CASE OnNewConnection
      <3>1. CASE conn # None
        BY <2>1, <2>4, <3>1 DEF OnNewConnection, Accept, LinksTrue, IdleClientsWatched
      <3>2. CASE conn = None
        BY <2>4, <3>2 DEF OnNewConnection, Accept, IdleClientsWatched
      <3> QED
        BY <3>1, <3>2
    <2>5. CASE OnClientDisconnected \/ OnIdleTimeout
      BY <2>1, <2>5 DEF OnClientDisconnected, OnIdleTimeout, network, LinksTrue, IdleClientsWatched
    <2>6. CASE OnTextMessageReceived
      BY <2>6 DEF OnTextMessageReceived, IdleClientsWatched
    <2>7. CASE RunPosted \/ Return \/ EndLogWait
      BY <2>7 DEF RunPosted, Return, EndLogWait, network, IdleClientsWatched
    <2>8. CASE TimesOut
      BY <2>8 DEF TimesOut, WaitTimeout, network, IdleClientsWatched
    <2>9. CASE Stop
      BY <2>9 DEF Stop, IdleClientsWatched
    <2>10. CASE UNCHANGED vars
      BY <2>10 DEF vars, network, IdleClientsWatched
    <2> QED
      BY <2>2, <2>3, <2>4, <2>5, <2>6, <2>7, <2>8, <2>9, <2>10 DEF Next
  <1> QED
    BY <1>1, <1>2, BridgeStarts, BridgeStep, PTL DEF Spec
-----------------------------------------------------------------------------
(***************************************************************************)
(* The bus and those who listen.                                           *)
(***************************************************************************)

(* What RegistrationFollows says of any event queue q, subscriptions s,    *)
(* and topics L of which the endpoint is a handler.                        *)
Listening(h) == {t \in Topics : Endpoint \in ToSet(h[t])}

Agrees(q, s, L) ==
    \A t \in Topics :
        /\ \A k \in 1 .. Len(q) :
               Decides(q[k], t) /\ (\A j \in 1 .. Len(q) : Decides(q[j], t) => j <= k) =>
                   (t \in s <=> q[k].op = "register")
        /\ (\A k \in 1 .. Len(q) : ~ Decides(q[k], t)) => (t \in s <=> t \in L)

(* A handler is the helper of a wait for its topic; a call to a helper is  *)
(* of an event posted since its wait began.                                *)
HelperOf(st, h, t) == \E j \in 1 .. Len(st) : st[j].id = h /\ st[j].topic = t

DueIn(st, e) ==
    \E j \in 1 .. Len(st) :
        st[j].id = e.to /\ st[j].topic \in Topics /\ e.n > st[j].since

AllDue(q, st) ==
    \A k \in 1 .. Len(q) :
        q[k].op = "deliver" => q[k].to = Endpoint \/ DueIn(st, q[k])

AllHelp(h, st) ==
    \A t \in Topics : \A who \in ToSet(h[t]) : who = Endpoint \/ HelperOf(st, who, t)

AllInTime(st, n) ==
    \A j \in 1 .. Len(st) :
        st[j].since <= n /\ (st[j].got # 0 => st[j].got > st[j].since)

BusTypes ==
    /\ posted \in Seq(Event) /\ subs \subseteq Topics
    /\ handlers \in [Topics -> Seq(Ids \cup {Endpoint})]
    /\ stack \in Seq(Frame) /\ posts \in Nat

BusTrue ==
    /\ Agrees(posted, subs, Listening(handlers))
    /\ AllHelp(handlers, stack) /\ AllDue(posted, stack) /\ AllInTime(stack, posts)

ListensInv == BusTypes /\ BusTrue

LoopTypes ==
    /\ timer \in BOOLEAN /\ (timer => conn # None)
    /\ logWait \in Request \cup {None}
    /\ quit \in BOOLEAN /\ stopped \in BOOLEAN
-----------------------------------------------------------------------------
(* What becomes of the queue, and that it goes on to agree.                *)
LEMMA QuietlyLonger ==
    ASSUME NEW q, NEW r, NEW s, NEW L, Len(q) \in Nat, Len(r) \in Nat, Len(q) <= Len(r),
           \A k \in 1 .. Len(q) : r[k] = q[k],
           \A k \in 1 .. Len(r) : k > Len(q) => \A t \in Topics : ~ Decides(r[k], t),
           Agrees(q, s, L)
    PROVE  Agrees(r, s, L)
  <1> SUFFICES ASSUME NEW t \in Topics
               PROVE  /\ \A k \in 1 .. Len(r) :
                            Decides(r[k], t) /\ (\A j \in 1 .. Len(r) : Decides(r[j], t) => j <= k) =>
                               (t \in s <=> r[k].op = "register")
                      /\ (\A k \in 1 .. Len(r) : ~ Decides(r[k], t)) => (t \in s <=> t \in L)
    BY DEF Agrees
  <1>1. \A k \in 1 .. Len(q) : k \in 1 .. Len(r)
    OBVIOUS
  <1>2. \A k \in 1 .. Len(r) : Decides(r[k], t) => k \in 1 .. Len(q) /\ q[k] = r[k]
    OBVIOUS
  <1> QED
    BY <1>1, <1>2 DEF Agrees

LEMMA QuietlyShorter ==
    ASSUME NEW q, NEW r, NEW s, NEW L, NEW M, Len(q) \in Nat, Len(q) >= 1,
           Len(r) = Len(q) - 1, \A k \in 1 .. Len(r) : r[k] = q[k + 1],
           \A t \in Topics : t \in M <=> IF Decides(q[1], t) THEN q[1].op = "register"
                                         ELSE t \in L,
           Agrees(q, s, L)
    PROVE  Agrees(r, s, M)
  <1> SUFFICES ASSUME NEW t \in Topics
               PROVE  /\ \A k \in 1 .. Len(r) :
                            Decides(r[k], t) /\ (\A j \in 1 .. Len(r) : Decides(r[j], t) => j <= k) =>
                               (t \in s <=> r[k].op = "register")
                      /\ (\A k \in 1 .. Len(r) : ~ Decides(r[k], t)) => (t \in s <=> t \in M)
    BY DEF Agrees
  <1>1. \A k \in 1 .. Len(q) : k = 1 \/ (k - 1 \in 1 .. Len(r) /\ r[k - 1] = q[k])
    OBVIOUS
  <1>2. ASSUME NEW k \in 1 .. Len(r), Decides(r[k], t),
               \A j \in 1 .. Len(r) : Decides(r[j], t) => j <= k
        PROVE  t \in s <=> r[k].op = "register"
    <2>1. k + 1 \in 1 .. Len(q) /\ Decides(q[k + 1], t) /\ q[k + 1] = r[k]
      BY <1>2
    <2>2. \A j \in 1 .. Len(q) : Decides(q[j], t) => j <= k + 1
      BY <1>1, <1>2
    <2> QED
      BY <2>1, <2>2 DEF Agrees
  <1>3. ASSUME \A k \in 1 .. Len(r) : ~ Decides(r[k], t) PROVE t \in s <=> t \in M
    <2>1. \A k \in 1 .. Len(q) : Decides(q[k], t) => k = 1
      BY <1>1, <1>3
    <2>2. 1 \in 1 .. Len(q)
      OBVIOUS
    <2>3. CASE Decides(q[1], t)
      BY <2>1, <2>2, <2>3 DEF Agrees
    <2>4. CASE ~ Decides(q[1], t)
      BY <2>1, <2>4 DEF Agrees
    <2> QED
      BY <2>3, <2>4
  <1> QED
    BY <1>2, <1>3

LEMMA LastDecides ==
    ASSUME NEW q, NEW r, NEW s, NEW z, NEW L, NEW topic, Len(q) \in Nat,
           Len(r) = Len(q) + 1, \A k \in 1 .. Len(q) : r[k] = q[k],
           r[Len(r)].op \in {"register", "unregister"}, r[Len(r)].topic = topic,
           \A t \in Topics : t \in z <=> IF t = topic THEN r[Len(r)].op = "register"
                                         ELSE t \in s,
           Agrees(q, s, L)
    PROVE  Agrees(r, z, L)
  <1> SUFFICES ASSUME NEW t \in Topics
               PROVE  /\ \A k \in 1 .. Len(r) :
                            Decides(r[k], t) /\ (\A j \in 1 .. Len(r) : Decides(r[j], t) => j <= k) =>
                               (t \in z <=> r[k].op = "register")
                      /\ (\A k \in 1 .. Len(r) : ~ Decides(r[k], t)) => (t \in z <=> t \in L)
    BY DEF Agrees
  <1>1. /\ \A k \in 1 .. Len(r) : k = Len(r) \/ k \in 1 .. Len(q)
        /\ \A k \in 1 .. Len(q) : k \in 1 .. Len(r)
        /\ Len(r) \in 1 .. Len(r)
    OBVIOUS
  <1>2. CASE t = topic
    <2>1. Decides(r[Len(r)], t)
      BY <1>2 DEF Decides
    <2>2. \A k \in 1 .. Len(r) : Len(r) <= k => k = Len(r)
      OBVIOUS
    <2> QED
      BY <1>1, <1>2, <2>1, <2>2
  <1>3. CASE t # topic
    <2>1. ~ Decides(r[Len(r)], t)
      BY <1>3 DEF Decides
    <2>2. \A k \in 1 .. Len(r) : Decides(r[k], t) => k \in 1 .. Len(q) /\ q[k] = r[k]
      BY <1>1, <2>1
    <2> QED
      BY <1>1, <1>3, <2>1, <2>2 DEF Agrees
  <1> QED
    BY <1>2, <1>3

LEMMA QuietlyThinned ==
    ASSUME NEW q, NEW r, NEW s, NEW L, NEW X, Len(q) \in Nat, Len(r) \in Nat,
           LeavesOut(r, q, X),
           \A k \in 1 .. Len(q) : q[k].op \in {"register", "unregister"} => q[k] \notin X,
           Agrees(q, s, L)
    PROVE  Agrees(r, s, L)
  <1> SUFFICES ASSUME NEW t \in Topics
               PROVE  /\ \A k \in 1 .. Len(r) :
                            Decides(r[k], t) /\ (\A j \in 1 .. Len(r) : Decides(r[j], t) => j <= k) =>
                               (t \in s <=> r[k].op = "register")
                      /\ (\A k \in 1 .. Len(r) : ~ Decides(r[k], t)) => (t \in s <=> t \in L)
    BY DEF Agrees
  <1>1. PICK place \in [1 .. Len(r) -> 1 .. Len(q)] :
            /\ \A k \in 1 .. Len(r) : r[k] = q[place[k]] /\ q[place[k]] \notin X
            /\ \A i \in 1 .. Len(q) : q[i] \notin X => \E k \in 1 .. Len(r) : place[k] = i
            /\ \A j, k \in 1 .. Len(r) : j < k <=> place[j] < place[k]
    BY DEF LeavesOut
  <1>2. ASSUME NEW j \in 1 .. Len(q), Decides(q[j], t)
        PROVE  \E k \in 1 .. Len(r) : place[k] = j /\ Decides(r[k], t)
    BY <1>1, <1>2 DEF Decides
  <1>3. ASSUME NEW k \in 1 .. Len(r), Decides(r[k], t),
               \A j \in 1 .. Len(r) : Decides(r[j], t) => j <= k
        PROVE  t \in s <=> r[k].op = "register"
    <2>1. place[k] \in 1 .. Len(q) /\ q[place[k]] = r[k] /\ Decides(q[place[k]], t)
      BY <1>1, <1>3
    <2>2. ASSUME NEW j \in 1 .. Len(q), Decides(q[j], t) PROVE j <= place[k]
      <3>1. PICK i \in 1 .. Len(r) : place[i] = j /\ Decides(r[i], t)
        BY <1>2, <2>2
      <3>2. i <= k /\ i \in Int /\ k \in Int /\ place[i] \in Int /\ place[k] \in Int
        BY <1>1, <1>3, <3>1
      <3>3. ~ (place[k] < place[i])
        BY <1>1, <3>2
      <3> QED
        BY <3>1, <3>2, <3>3
    <2> QED
      BY <2>1, <2>2 DEF Agrees
  <1>4. ASSUME \A k \in 1 .. Len(r) : ~ Decides(r[k], t) PROVE t \in s <=> t \in L
    BY <1>2, <1>4 DEF Agrees
  <1> QED
    BY <1>3, <1>4
-----------------------------------------------------------------------------
(* The frames a step leaves as they are, but for those it ends.            *)
LEMMA SameWaits ==
    ASSUME NEW st, NEW su, Len(su) = Len(st),
           \A k \in 1 .. Len(st) : /\ su[k].id = st[k].id /\ su[k].topic = st[k].topic
                                   /\ su[k].since = st[k].since
    PROVE  /\ \A h : AllHelp(h, st) => AllHelp(h, su)
           /\ \A q : AllDue(q, st) => AllDue(q, su)
  <1>1. \A h, t : HelperOf(st, h, t) => HelperOf(su, h, t)
    BY DEF HelperOf
  <1>2. \A e : DueIn(st, e) => DueIn(su, e)
    BY DEF DueIn
  <1> QED
    BY <1>1, <1>2 DEF AllHelp, AllDue

LEMMA OneMoreWaits ==
    ASSUME NEW st, NEW su, Len(st) \in Nat, Len(su) = Len(st) + 1,
           \A k \in 1 .. Len(st) : su[k] = st[k]
    PROVE  /\ \A h : AllHelp(h, st) => AllHelp(h, su)
           /\ \A q : AllDue(q, st) => AllDue(q, su)
  <1>0. \A k \in 1 .. Len(st) : k \in 1 .. Len(su)
    OBVIOUS
  <1>1. \A h, t : HelperOf(st, h, t) => HelperOf(su, h, t)
    BY <1>0 DEF HelperOf
  <1>2. \A e : DueIn(st, e) => DueIn(su, e)
    BY <1>0 DEF DueIn
  <1> QED
    BY <1>1, <1>2 DEF AllHelp, AllDue

(* The calls GuiDataBus::post queues.                                      *)
LEMMA DeliveriesAre ==
    ASSUME ListensInv, NEW topic \in Topics, NEW senders
    PROVE  /\ Deliveries(topic, senders) \in Seq(Event)
           /\ \A k \in 1 .. Len(Deliveries(topic, senders)) :
                 LET e == Deliveries(topic, senders)[k]
                 IN  /\ e.op = "deliver" /\ e.n = posts + 1 /\ e.topic = topic
                     /\ e.to \in ToSet(handlers[topic])
  <1> DEFINE h  == handlers[topic]
             to == Without(h, senders)
             D  == [i \in 1 .. Len(to) |-> [op |-> "deliver", to |-> to[i], topic |-> topic,
                                            n |-> posts + 1]]
  <1>1. h \in Seq(Ids \cup {Endpoint}) /\ posts + 1 \in Nat
    BY DEF ListensInv, BusTypes
  <1>2. to \in Seq(Ids \cup {Endpoint}) /\ LeavesOut(to, h, senders)
    BY <1>1, WithoutLeaves
  <1>3. ToSet(h) = {h[i] : i \in 1 .. Len(h)}
    BY <1>1 DEF ToSet
  <1>4. \A k \in 1 .. Len(to) : to[k] \in Ids \cup {Endpoint} /\ to[k] \in ToSet(h)
    BY <1>2, <1>3 DEF LeavesOut
  <1> HIDE DEF to, h
  <1>5. Len(to) \in Nat
    BY <1>2
  <1>6. \A k \in 1 .. Len(to) : D[k] \in Event
    BY <1>1, <1>4 DEF Event
  <1>7. D \in Seq(Event) /\ Len(D) = Len(to)
    BY <1>5, <1>6
  <1>8. Deliveries(topic, senders) = D
    BY Zenon DEF Deliveries, to, h
  <1> QED
    BY <1>4, <1>7, <1>8 DEF h

LEMMA Announced ==
    ASSUME ListensInv, NEW topic \in Topics, NEW senders, NEW q \in Seq(Event),
           Agrees(q, subs, Listening(handlers)), AllDue(q, stack),
           posted' = q \o Deliveries(topic, senders), posts' = posts + 1,
           UNCHANGED <<bus, stack>>
    PROVE  ListensInv'
  <1> PICK D : D = Deliveries(topic, senders)
    OBVIOUS
  <1> PICK p : p = posted'
    OBVIOUS
  <1>1. /\ D \in Seq(Event)
        /\ \A k \in 1 .. Len(D) : /\ D[k].op = "deliver" /\ D[k].n = posts + 1
                                  /\ D[k].to \in ToSet(handlers[topic])
    BY DeliveriesAre
  <1>2. /\ p \in Seq(Event) /\ Len(p) = Len(q) + Len(D)
        /\ \A k \in 1 .. Len(q) : p[k] = q[k]
        /\ \A k \in 1 .. Len(p) :
              k \in 1 .. Len(q) \/ (k - Len(q) \in 1 .. Len(D) /\ p[k] = D[k - Len(q)])
        /\ Len(q) \in Nat /\ Len(D) \in Nat /\ Len(p) \in Nat
    BY <1>1
  <1>3. \A k \in 1 .. Len(p) :
           k \in 1 .. Len(q) \/ /\ p[k].op = "deliver" /\ p[k].n = posts + 1
                                /\ p[k].to \in ToSet(handlers[topic])
    BY <1>1, <1>2
  <1>4. BusTypes'
    BY <1>2 DEF ListensInv, BusTypes, bus
  <1>5. Agrees(p, subs, Listening(handlers))
    <2>1. ASSUME NEW k \in 1 .. Len(p), k > Len(q), NEW t \in Topics
          PROVE  ~ Decides(p[k], t)
      <3>1. k \notin 1 .. Len(q)
        BY <1>2, <2>1
      <3> QED
        BY <1>3, <3>1 DEF Decides
    <2>2. Len(q) <= Len(p)
      BY <1>2
    <2> QED
      BY <1>2, <2>1, <2>2, QuietlyLonger
  <1>6. \A j \in 1 .. Len(stack) : stack[j].since <= posts /\ stack[j].since \in Nat /\ posts \in Nat
    <2>1. \A j \in 1 .. Len(stack) : stack[j] \in Frame
      BY DEF ListensInv, BusTypes
    <2> QED
      BY <2>1 DEF ListensInv, BusTypes, BusTrue, AllInTime, Frame
  <1>7. AllDue(p, stack)
    <2> SUFFICES ASSUME NEW k \in 1 .. Len(p), p[k].op = "deliver"
                 PROVE  p[k].to = Endpoint \/ DueIn(stack, p[k])
      BY DEF AllDue
    <2>1. CASE k \in 1 .. Len(q)
      BY <1>2, <2>1 DEF AllDue
    <2>2. CASE k \notin 1 .. Len(q)
      <3>1. p[k].n = posts + 1 /\ p[k].to \in ToSet(handlers[topic])
        BY <1>3, <2>2
      <3>2. CASE HelperOf(stack, p[k].to, topic)
        <4>1. PICK j \in 1 .. Len(stack) : stack[j].id = p[k].to /\ stack[j].topic = topic
          BY <3>2 DEF HelperOf
        <4>2. p[k].n > stack[j].since
          BY <1>6, <3>1
        <4> QED
          BY <4>1, <4>2 DEF DueIn
      <3> QED
        BY <3>1, <3>2 DEF ListensInv, BusTrue, AllHelp
    <2> QED
      BY <2>1, <2>2
  <1>8. AllInTime(stack, posts')
    BY <1>6 DEF ListensInv, BusTrue, AllInTime
  <1>9. AllHelp(handlers, stack)
    BY DEF ListensInv, BusTrue
  <1> QED
    BY <1>4, <1>5, <1>7, <1>8, <1>9 DEF ListensInv, BusTrue, bus
(* The handlers of a topic with one more.                                  *)
LEMMA AppendedSet ==
    ASSUME NEW S, NEW s \in Seq(S), NEW x PROVE ToSet(Append(s, x)) = ToSet(s) \cup {x}
  <1>1. /\ Len(Append(s, x)) = Len(s) + 1 /\ Len(s) \in Nat
        /\ \A i \in 1 .. Len(s) : Append(s, x)[i] = s[i]
        /\ Append(s, x)[Len(s) + 1] = x
        /\ DOMAIN s = 1 .. Len(s) /\ DOMAIN Append(s, x) = 1 .. Len(s) + 1
    <2>1. s \in Seq(S \cup {x}) /\ x \in S \cup {x}
      OBVIOUS
    <2> QED
      BY <2>1
  <1>2. 1 .. Len(s) + 1 = (1 .. Len(s)) \cup {Len(s) + 1}
    BY <1>1
  <1> QED
    BY <1>1, <1>2 DEF ToSet

-----------------------------------------------------------------------------
(* What a request does to the bus.                                         *)
LEMMA Quiet ==
    ASSUME ListensInv, UNCHANGED <<posted, bus, stack, posts>> PROVE ListensInv'
  BY DEF ListensInv, BusTypes, BusTrue, bus

LEMMA PostQuietly ==
    ASSUME ListensInv, NEW e \in Event, e.op \in {"post", "quit"}, Post(e),
           UNCHANGED <<bus, stack, posts>>
    PROVE  ListensInv'
  <1> PICK p : p = posted'
    OBVIOUS
  <1>1. /\ posted \in Seq(Event)
        /\ p \in Seq(Event) /\ Len(p) = Len(posted) + 1 /\ Len(posted) \in Nat
        /\ \A k \in 1 .. Len(posted) : p[k] = posted[k]
        /\ \A k \in 1 .. Len(p) : k \in 1 .. Len(posted) \/ p[k] = e
    BY DEF ListensInv, BusTypes, Post
  <1>2. ASSUME NEW k \in 1 .. Len(p), k > Len(posted), NEW t \in Topics
        PROVE  ~ Decides(p[k], t)
    BY <1>1, <1>2 DEF Decides
  <1>3. Agrees(p, subs, Listening(handlers))
    <2>1. Agrees(posted, subs, Listening(handlers)) /\ Len(p) \in Nat /\ Len(posted) <= Len(p)
      BY <1>1 DEF ListensInv, BusTrue
    <2> QED
      BY <1>1, <1>2, <2>1, QuietlyLonger
  <1>4. AllDue(p, stack)
    BY <1>1 DEF ListensInv, BusTrue, AllDue
  <1> QED
    BY <1>1, <1>3, <1>4 DEF ListensInv, BusTypes, BusTrue, bus

LEMMA SubscribeListens ==
    ASSUME ListensInv, NEW r, r.topic \in Topics, Subscribe(r) \/ Unsubscribe(r)
    PROVE  ListensInv'
  <1> DEFINE op == IF Subscribe(r) THEN "register" ELSE "unregister"
             e == [op |-> op, topic |-> r.topic]
  <1>1. /\ handlers' = handlers /\ stack' = stack /\ posts' = posts
        /\ subs' = IF op = "register" THEN subs \cup {r.topic} ELSE subs \ {r.topic}
        /\ IF (op = "register") = (r.topic \in subs) THEN posted' = posted
                                                      ELSE posted' = Append(posted, e)
    BY DEF Subscribe, Unsubscribe, Finish, Post
  <1>2. op \in {"register", "unregister"}
    OBVIOUS
  <1> HIDE DEF op
  <1>3. e \in Event /\ e.op = op /\ e.topic = r.topic
    BY <1>2 DEF Event
  <1>4. \A t \in Topics : t \in subs' <=> IF t = r.topic THEN op = "register" ELSE t \in subs
    BY <1>1, <1>2
  <1> HIDE DEF e
  <1>5. CASE posted' = posted /\ (op = "register") = (r.topic \in subs)
    <2>1. subs' = subs
      BY <1>1, <1>2, <1>5
    <2> QED
      BY <1>1, <1>5, <2>1, Quiet DEF bus
  <1>6. CASE posted' = Append(posted, e)
    <2>1. /\ posted \in Seq(Event)
          /\ posted' \in Seq(Event) /\ Len(posted') = Len(posted) + 1 /\ Len(posted) \in Nat
          /\ \A k \in 1 .. Len(posted) : posted'[k] = posted[k]
          /\ posted'[Len(posted')] = e
          /\ \A k \in 1 .. Len(posted') : k \in 1 .. Len(posted) \/ posted'[k] = e
      BY <1>3, <1>6 DEF ListensInv, BusTypes
    <2>2. Agrees(posted, subs, Listening(handlers))
      BY DEF ListensInv, BusTrue
    <2>3. Agrees(posted', subs', Listening(handlers))
      BY <1>2, <1>3, <1>4, <2>1, <2>2, LastDecides
    <2>4. AllDue(posted', stack')
      BY <1>1, <1>2, <1>3, <2>1 DEF ListensInv, BusTrue, AllDue
    <2>5. BusTypes'
      BY <1>1, <2>1 DEF ListensInv, BusTypes
    <2> QED
      BY <1>1, <2>3, <2>4, <2>5 DEF ListensInv, BusTrue
  <1> QED
    BY <1>1, <1>5, <1>6

LEMMA HoldListens ==
    ASSUME ListensInv, LoopTypes, conn \in Conns, NEW r \in Request, Wait(r) \/ Input(r)
    PROVE  ListensInv'
  <1>1. /\ r.id \in Ids /\ r.topic \in Topics /\ r.reply \in BOOLEAN /\ quit \in BOOLEAN
        /\ r.id # Endpoint
    BY DEF Request, LoopTypes, Ids, Endpoint
  <1>2. \E t \in Topics \cup {None}, o \in BOOLEAN :
           /\ stack' = Append(stack, Held(r, t, o))
           /\ \/ handlers' = handlers
              \/ t = r.topic /\ handlers' = [handlers EXCEPT ![t] = Append(@, r.id)]
    <2>1. CASE Wait(r)
      BY <1>1, <2>1, Zenon DEF Wait, Held
    <2>2. CASE Input(r)
      <3>1. stack' = Append(stack, Held(r, None, FALSE)) /\ handlers' = handlers
        BY <2>2, Zenon DEF Input, Held, bus
      <3> QED
        BY <3>1
    <2> QED
      BY <2>1, <2>2
  <1>3. PICK t \in Topics \cup {None}, o \in BOOLEAN :
           /\ stack' = Append(stack, Held(r, t, o))
           /\ \/ handlers' = handlers
              \/ t = r.topic /\ handlers' = [handlers EXCEPT ![t] = Append(@, r.id)]
    BY <1>2
  <1> PICK f : f = Held(r, t, o)
    OBVIOUS
  <1>4. posted' = posted /\ subs' = subs /\ posts' = posts
    BY DEF Wait, Input, bus
  <1>5. /\ f \in Frame /\ f.id = r.id /\ f.topic = t /\ f.got = 0 /\ f.since = posts
        /\ posts \in Nat
    BY <1>1 DEF Held, Frame, ListensInv, BusTypes
  <1> PICK su : su = stack'
    OBVIOUS
  <1>6. /\ stack \in Seq(Frame) /\ Len(stack) \in Nat
        /\ su \in Seq(Frame) /\ Len(su) = Len(stack) + 1
        /\ \A k \in 1 .. Len(stack) : su[k] = stack[k]
        /\ su[Len(su)] = f /\ Len(su) \in 1 .. Len(su)
        /\ \A k \in 1 .. Len(su) : k \in 1 .. Len(stack) \/ su[k] = f
    BY <1>3, <1>5 DEF ListensInv, BusTypes
  <1>7. AllDue(posted, su) /\ AllHelp(handlers, su)
    BY <1>6, OneMoreWaits DEF ListensInv, BusTrue
  <1>8. AllInTime(su, posts)
    BY <1>5, <1>6 DEF ListensInv, BusTrue, AllInTime
  <1>9. /\ handlers' \in [Topics -> Seq(Ids \cup {Endpoint})]
        /\ Listening(handlers') = Listening(handlers) /\ AllHelp(handlers', su)
    <2>1. CASE handlers' = handlers
      BY <1>7, <2>1 DEF ListensInv, BusTypes
    <2>2. CASE t = r.topic /\ handlers' = [handlers EXCEPT ![t] = Append(@, r.id)]
      <3>1. handlers \in [Topics -> Seq(Ids \cup {Endpoint})]
        BY DEF ListensInv, BusTypes
      <3>2. handlers' \in [Topics -> Seq(Ids \cup {Endpoint})]
        BY <1>1, <2>2, <3>1
      <3>3. ASSUME NEW s \in Topics
            PROVE  ToSet(handlers'[s]) = IF s = t THEN ToSet(handlers[s]) \cup {r.id}
                                         ELSE ToSet(handlers[s])
        <4> PICK h : h = handlers[s]
          OBVIOUS
        <4>1. h \in Seq(Ids \cup {Endpoint}) /\ handlers'[s] = IF s = t THEN Append(h, r.id) ELSE h
          BY <2>2, <3>1
        <4>2. ToSet(Append(h, r.id)) = ToSet(h) \cup {r.id}
          BY <4>1, AppendedSet
        <4> QED
          BY <4>1, <4>2
      <3>4. Listening(handlers') = Listening(handlers)
        BY <1>1, <3>3 DEF Listening
      <3>5. HelperOf(su, r.id, t)
        BY <1>5, <1>6 DEF HelperOf
      <3>6. AllHelp(handlers', su)
        BY <1>7, <3>3, <3>5 DEF AllHelp
      <3> QED
        BY <3>2, <3>4, <3>6
    <2> QED
      BY <1>3, <2>1, <2>2
  <1>10. BusTypes'
    BY <1>4, <1>6, <1>9 DEF ListensInv, BusTypes
  <1>11. Agrees(posted, subs, Listening(handlers))
    BY DEF ListensInv, BusTrue
  <1> QED
    BY <1>4, <1>7, <1>8, <1>9, <1>10, <1>11 DEF ListensInv, BusTrue
-----------------------------------------------------------------------------
(* A loop is told to end, or is given an event.                            *)
LEMMA WaitTimeoutListens ==
    ASSUME ListensInv, NEW i \in Ids, WaitTimeout(i) PROVE ListensInv'
  <1> PICK su : su = stack'
    OBVIOUS
  <1>1. stack \in Seq(Frame) /\ i \in 1 .. Len(stack) /\ su = [stack EXCEPT ![i].over = TRUE]
    BY DEF ListensInv, BusTypes, WaitTimeout
  <1>2. /\ su \in Seq(Frame) /\ Len(su) = Len(stack)
        /\ \A k \in 1 .. Len(stack) : /\ su[k].id = stack[k].id /\ su[k].topic = stack[k].topic
                                      /\ su[k].since = stack[k].since /\ su[k].got = stack[k].got
    <2>1. \A k \in 1 .. Len(stack) : stack[k] \in Frame
      BY <1>1
    <2>2. [stack[i] EXCEPT !.over = TRUE] \in Frame
      BY <1>1, <2>1 DEF Frame
    <2> QED
      BY <1>1, <2>1, <2>2 DEF Frame
  <1>3. posted' = posted /\ subs' = subs /\ handlers' = handlers /\ posts' = posts
    BY DEF WaitTimeout, bus
  <1>4. BusTypes'
    BY <1>2, <1>3 DEF ListensInv, BusTypes
  <1>5. AllHelp(handlers, su) /\ AllDue(posted, su)
    BY <1>2, SameWaits DEF ListensInv, BusTrue
  <1>6. AllInTime(su, posts)
    BY <1>2 DEF ListensInv, BusTrue, AllInTime
  <1> QED
    BY <1>3, <1>4, <1>5, <1>6 DEF ListensInv, BusTrue

(* The handlers of a topic without some.                                   *)
LEMMA WithoutSet ==
    ASSUME NEW S, NEW s \in Seq(S), NEW X PROVE ToSet(Without(s, X)) = ToSet(s) \ X
  <1> PICK l : l = Without(s, X)
    OBVIOUS
  <1>1. l \in Seq(S) /\ LeavesOut(l, s, X)
    BY WithoutLeaves
  <1>2. ToSet(l) = {l[i] : i \in 1 .. Len(l)} /\ ToSet(s) = {s[i] : i \in 1 .. Len(s)}
    BY <1>1 DEF ToSet
  <1>3. PICK place \in [1 .. Len(l) -> 1 .. Len(s)] :
            /\ \A k \in 1 .. Len(l) : l[k] = s[place[k]] /\ s[place[k]] \notin X
            /\ \A i \in 1 .. Len(s) : s[i] \notin X => \E k \in 1 .. Len(l) : place[k] = i
    BY <1>1 DEF LeavesOut
  <1>4. ToSet(l) \subseteq ToSet(s) \ X
    <2> SUFFICES ASSUME NEW k \in 1 .. Len(l) PROVE l[k] \in ToSet(s) \ X
      BY <1>2
    <2>1. l[k] = s[place[k]] /\ s[place[k]] \notin X /\ place[k] \in 1 .. Len(s)
      BY <1>3
    <2> QED
      BY <1>2, <2>1
  <1>5. ToSet(s) \ X \subseteq ToSet(l)
    <2> SUFFICES ASSUME NEW i \in 1 .. Len(s), s[i] \notin X PROVE s[i] \in ToSet(l)
      BY <1>2
    <2> PICK k \in 1 .. Len(l) : place[k] = i
      BY <1>3
    <2> QED
      BY <1>2, <1>3
  <1> QED
    BY <1>4, <1>5

(* Handlers change for one topic.                                          *)
LEMMA RegisteredIs ==
    ASSUME ListensInv, NEW topic \in Topics, NEW who \in Ids \cup {Endpoint}
    PROVE  /\ Registered(handlers, topic, who) \in [Topics -> Seq(Ids \cup {Endpoint})]
           /\ \A t \in Topics : ToSet(Registered(handlers, topic, who)[t]) =
                 IF t = topic THEN ToSet(handlers[t]) \cup {who} ELSE ToSet(handlers[t])
  <1>1. handlers \in [Topics -> Seq(Ids \cup {Endpoint})]
    BY DEF ListensInv, BusTypes
  <1> PICK h : h = handlers[topic]
    OBVIOUS
  <1>2. h \in Seq(Ids \cup {Endpoint})
    BY <1>1
  <1>3. Registered(handlers, topic, who) =
          [handlers EXCEPT ![topic] = IF who \in ToSet(h) THEN h ELSE Append(h, who)]
    BY DEF Registered
  <1>4. ToSet(Append(h, who)) = ToSet(h) \cup {who} /\ Append(h, who) \in Seq(Ids \cup {Endpoint})
    BY <1>2, AppendedSet
  <1> QED
    BY <1>1, <1>2, <1>3, <1>4

LEMMA UnregisteredIs ==
    ASSUME ListensInv, NEW topic \in Topics, NEW who \in Ids \cup {Endpoint}
    PROVE  /\ Unregistered(handlers, topic, who) \in [Topics -> Seq(Ids \cup {Endpoint})]
           /\ \A t \in Topics : ToSet(Unregistered(handlers, topic, who)[t]) =
                 IF t = topic THEN ToSet(handlers[t]) \ {who} ELSE ToSet(handlers[t])
  <1>1. handlers \in [Topics -> Seq(Ids \cup {Endpoint})]
    BY DEF ListensInv, BusTypes
  <1> PICK h : h = handlers[topic]
    OBVIOUS
  <1>2. h \in Seq(Ids \cup {Endpoint})
    BY <1>1
  <1>3. Unregistered(handlers, topic, who) = [handlers EXCEPT ![topic] = Without(h, {who})]
    BY DEF Unregistered
  <1>4. ToSet(Without(h, {who})) = ToSet(h) \ {who} /\ Without(h, {who}) \in Seq(Ids \cup {Endpoint})
    BY <1>2, WithoutSet, WithoutLeaves
  <1> QED
    BY <1>1, <1>2, <1>3, <1>4

(* The event at the head of the queue is taken.                            *)
LEMMA Taken ==
    ASSUME ListensInv, posted # <<>>
    PROVE  /\ Head(posted) \in Event /\ Tail(posted) \in Seq(Event)
           /\ AllDue(Tail(posted), stack)
           /\ Head(posted).op = "deliver" =>
                 Head(posted).to = Endpoint \/ DueIn(stack, Head(posted))
           /\ \A M \in SUBSET Topics :
                 (\A t \in Topics : t \in M <=> IF Decides(Head(posted), t)
                                                THEN Head(posted).op = "register"
                                                ELSE t \in Listening(handlers))
                   => Agrees(Tail(posted), subs, M)
  <1> PICK q : q = Tail(posted)
    OBVIOUS
  <1>1. /\ posted \in Seq(Event) /\ q \in Seq(Event) /\ Len(posted) \in Nat /\ Len(posted) >= 1
        /\ Len(q) = Len(posted) - 1 /\ \A k \in 1 .. Len(q) : q[k] = posted[k + 1]
        /\ Head(posted) = posted[1] /\ posted[1] \in Event
    BY DEF ListensInv, BusTypes
  <1>2. AllDue(posted, stack) /\ Agrees(posted, subs, Listening(handlers))
    BY DEF ListensInv, BusTrue
  <1>3. AllDue(q, stack)
    <2>1. \A k \in 1 .. Len(q) : k + 1 \in 1 .. Len(posted)
      BY <1>1
    <2> QED
      BY <1>1, <1>2, <2>1 DEF AllDue
  <1>4. posted[1].op = "deliver" => posted[1].to = Endpoint \/ DueIn(stack, posted[1])
    BY <1>1, <1>2 DEF AllDue
  <1>5. ASSUME NEW M \in SUBSET Topics,
               \A t \in Topics : t \in M <=> IF Decides(posted[1], t)
                                             THEN posted[1].op = "register"
                                             ELSE t \in Listening(handlers)
        PROVE  Agrees(q, subs, M)
    BY <1>1, <1>2, <1>5, QuietlyShorter
  <1> QED
    BY <1>1, <1>3, <1>4, <1>5

(* A handler comes or goes, but for helpers.                               *)
LEMMA RegisteredListens ==
    ASSUME ListensInv, NEW topic \in Topics, posted # <<>>,
           \/ /\ Head(posted).op = "register"
              /\ handlers' = Registered(handlers, topic, Endpoint)
           \/ /\ Head(posted).op = "unregister"
              /\ handlers' = Unregistered(handlers, topic, Endpoint),
           Head(posted).topic = topic, posted' = Tail(posted),
           UNCHANGED <<subs, stack, posts>>
    PROVE  ListensInv'
  <1> PICK H : H = handlers'
    OBVIOUS
  <1> DEFINE op == Head(posted).op
  <1>1. /\ H \in [Topics -> Seq(Ids \cup {Endpoint})]
        /\ \A t \in Topics \ {topic} : ToSet(H[t]) = ToSet(handlers[t])
        /\ Endpoint \in ToSet(H[topic]) <=> op = "register"
        /\ ToSet(H[topic]) \subseteq ToSet(handlers[topic]) \cup {Endpoint}
    <2>1. Endpoint \in Ids \cup {Endpoint}
      OBVIOUS
    <2>2. CASE op = "register" /\ H = Registered(handlers, topic, Endpoint)
      <3> PICK R : R = Registered(handlers, topic, Endpoint)
        OBVIOUS
      <3>1. /\ R \in [Topics -> Seq(Ids \cup {Endpoint})]
            /\ \A t \in Topics : ToSet(R[t]) =
                  IF t = topic THEN ToSet(handlers[t]) \cup {Endpoint} ELSE ToSet(handlers[t])
        BY <2>1, RegisteredIs
      <3> QED
        BY <2>2, <3>1
    <2>3. CASE op = "unregister" /\ H = Unregistered(handlers, topic, Endpoint)
      <3> PICK R : R = Unregistered(handlers, topic, Endpoint)
        OBVIOUS
      <3>1. /\ R \in [Topics -> Seq(Ids \cup {Endpoint})]
            /\ \A t \in Topics : ToSet(R[t]) =
                  IF t = topic THEN ToSet(handlers[t]) \ {Endpoint} ELSE ToSet(handlers[t])
        <4>1. /\ Unregistered(handlers, topic, Endpoint) \in [Topics -> Seq(Ids \cup {Endpoint})]
              /\ \A t \in Topics : ToSet(Unregistered(handlers, topic, Endpoint)[t]) =
                    IF t = topic THEN ToSet(handlers[t]) \ {Endpoint} ELSE ToSet(handlers[t])
          BY <2>1, UnregisteredIs, Zenon
        <4> QED
          BY <4>1, Zenon
      <3> QED
        BY <2>3, <3>1
    <2> QED
      BY <2>2, <2>3
  <1>2. \A t \in Topics : t \in Listening(H) <=>
           IF Decides(Head(posted), t) THEN op = "register" ELSE t \in Listening(handlers)
    BY <1>1 DEF Listening, Decides
  <1>3. Agrees(Tail(posted), subs, Listening(H)) /\ AllDue(Tail(posted), stack)
    <2>1. Listening(H) \in SUBSET Topics
      BY DEF Listening
    <2> QED
      BY <1>2, <2>1, Taken
  <1>4. AllHelp(H, stack)
    BY <1>1 DEF AllHelp, ListensInv, BusTrue
  <1>5. BusTypes'
    BY <1>1, Taken DEF ListensInv, BusTypes
  <1> QED
    BY <1>3, <1>4, <1>5 DEF ListensInv, BusTrue

(* A helper is called: of an event posted since its wait began.            *)
LEMMA FiredIs ==
    ASSUME stack \in Seq(Frame), NEW e, e.n \in Nat
    PROVE  /\ Fired(e) \in Seq(Frame) /\ Len(Fired(e)) = Len(stack)
           /\ \A k \in 1 .. Len(stack) :
                 /\ Fired(e)[k] \in Frame
                 /\ Fired(e)[k].id = stack[k].id /\ Fired(e)[k].topic = stack[k].topic
                 /\ Fired(e)[k].since = stack[k].since
                 /\ Fired(e)[k].got = IF stack[k].id = e.to THEN e.n ELSE stack[k].got
  <1> DEFINE called(k) == [stack[k] EXCEPT !.over = TRUE, !.got = e.n]
             su == [k \in 1 .. Len(stack) |->
                      IF stack[k].id = e.to THEN called(k) ELSE stack[k]]
  <1>1. Len(stack) \in Nat /\ \A k \in 1 .. Len(stack) : stack[k] \in Frame
    OBVIOUS
  <1>2. \A k \in 1 .. Len(stack) :
           /\ called(k) \in Frame /\ called(k).id = stack[k].id
           /\ called(k).topic = stack[k].topic /\ called(k).since = stack[k].since
           /\ called(k).got = e.n
    BY <1>1 DEF Frame
  <1> HIDE DEF called
  <1>3. \A k \in 1 .. Len(stack) :
           su[k] \in Frame /\ su[k] = IF stack[k].id = e.to THEN called(k) ELSE stack[k]
    BY <1>1, <1>2
  <1>4. su \in Seq(Frame) /\ Len(su) = Len(stack)
    BY <1>1, <1>3
  <1>5. Fired(e) = su
    BY Zenon DEF Fired, called
  <1> HIDE DEF su
  <1> QED
    BY <1>2, <1>3, <1>4, <1>5

LEMMA FiredListens ==
    ASSUME ListensInv, BridgeInv, posted # <<>>, Head(posted).op = "deliver",
           stack' = Fired(Head(posted)), posted' = Tail(posted),
           UNCHANGED <<bus, posts>>
    PROVE  ListensInv'
  <1> PICK e : e = Head(posted)
    OBVIOUS
  <1> PICK su : su = stack'
    OBVIOUS
  <1>1. /\ stack \in Seq(Frame) /\ \A k \in 1 .. Len(stack) : stack[k] \in Frame
        /\ posts \in Nat /\ subs' = subs /\ handlers' = handlers /\ posts' = posts
    BY DEF ListensInv, BusTypes, bus
  <1>2. /\ e \in Event /\ e.op = "deliver" /\ Tail(posted) \in Seq(Event)
        /\ AllDue(Tail(posted), stack) /\ (e.to = Endpoint \/ DueIn(stack, e))
    BY Taken
  <1>3. e.n \in Nat
    BY <1>2 DEF Event
  <1>4. su = Fired(e)
    OBVIOUS
  <1>5. \A k \in 1 .. Len(stack) :
           /\ su[k] \in Frame /\ su[k].id = stack[k].id /\ su[k].topic = stack[k].topic
           /\ su[k].since = stack[k].since
           /\ su[k].got = IF stack[k].id = e.to THEN e.n ELSE stack[k].got
    BY <1>1, <1>3, <1>4, FiredIs
  <1>6. su \in Seq(Frame) /\ Len(su) = Len(stack)
    BY <1>1, <1>3, <1>4, FiredIs
  <1>7. AllHelp(handlers, su) /\ AllDue(Tail(posted), su)
    BY <1>2, <1>5, <1>6, SameWaits DEF ListensInv, BusTrue
  <1>8. AllInTime(su, posts)
    <2> SUFFICES ASSUME NEW k \in 1 .. Len(stack)
                 PROVE  su[k].since <= posts /\ (su[k].got # 0 => su[k].got > su[k].since)
      BY <1>6 DEF AllInTime
    <2>1. /\ stack[k].since <= posts
          /\ stack[k].got # 0 => stack[k].got > stack[k].since
      BY DEF ListensInv, BusTrue, AllInTime
    <2>2. CASE stack[k].id = e.to
      <3>1. e.to # Endpoint
        BY <1>1, <2>2 DEF Frame, Ids, Endpoint
      <3>2. PICK j \in 1 .. Len(stack) : stack[j].id = e.to /\ e.n > stack[j].since
        BY <1>2, <3>1 DEF DueIn
      <3>3. j = k
        BY <2>2, <3>2 DEF BridgeInv, StackTrue
      <3> QED
        BY <1>5, <2>1, <2>2, <3>2, <3>3
    <2>3. CASE stack[k].id # e.to
      BY <1>5, <2>1, <2>3
    <2> QED
      BY <2>2, <2>3
  <1>9. Agrees(Tail(posted), subs, Listening(handlers))
    <2>1. Listening(handlers) \in SUBSET Topics /\ \A t \in Topics : ~ Decides(Head(posted), t)
      BY DEF Listening, Decides
    <2> QED
      BY <2>1, Taken
  <1>10. BusTypes'
    BY <1>1, <1>2, <1>6 DEF ListensInv, BusTypes
  <1> QED
    BY <1>1, <1>7, <1>8, <1>9, <1>10 DEF ListensInv, BusTrue

LEMMA QuitListens ==
    ASSUME ListensInv, posted # <<>>, Head(posted).op = "quit",
           stack' = [i \in 1 .. Len(stack) |->
                       [stack[i] EXCEPT !.over = @ \/ stack[i].topic # None]],
           posted' = Tail(posted), UNCHANGED <<bus, posts>>
    PROVE  ListensInv'
  <1> PICK su : su = stack'
    OBVIOUS
  <1>1. /\ stack \in Seq(Frame) /\ \A k \in 1 .. Len(stack) : stack[k] \in Frame
        /\ subs' = subs /\ handlers' = handlers /\ posts' = posts /\ Len(stack) \in Nat
    BY DEF ListensInv, BusTypes, bus
  <1>2. \A k \in 1 .. Len(stack) :
           /\ su[k] \in Frame /\ su[k].id = stack[k].id /\ su[k].topic = stack[k].topic
           /\ su[k].since = stack[k].since /\ su[k].got = stack[k].got
    BY <1>1 DEF Frame
  <1>3. su \in Seq(Frame) /\ Len(su) = Len(stack)
    BY <1>1, <1>2
  <1>4. Tail(posted) \in Seq(Event) /\ AllDue(Tail(posted), stack)
    BY Taken
  <1>5. AllHelp(handlers, su) /\ AllDue(Tail(posted), su)
    BY <1>2, <1>3, <1>4, SameWaits DEF ListensInv, BusTrue
  <1>6. AllInTime(su, posts)
    BY <1>2, <1>3 DEF ListensInv, BusTrue, AllInTime
  <1>7. Agrees(Tail(posted), subs, Listening(handlers))
    <2>1. Listening(handlers) \in SUBSET Topics /\ \A t \in Topics : ~ Decides(Head(posted), t)
      BY DEF Listening, Decides
    <2> QED
      BY <2>1, Taken
  <1>8. BusTypes'
    BY <1>1, <1>3, <1>4 DEF ListensInv, BusTypes
  <1> QED
    BY <1>1, <1>5, <1>6, <1>7, <1>8 DEF ListensInv, BusTrue

LEMMA RunPostedListens == ASSUME ListensInv, BridgeInv, RunPosted PROVE ListensInv'
  <1> PICK e : e = Head(posted)
    OBVIOUS
  <1>1. /\ posted # <<>> /\ e \in Event
        /\ posted' = IF e.op = "post" THEN Tail(posted) \o Deliveries(e.topic, {Endpoint})
                     ELSE Tail(posted)
        /\ subs' = subs
    BY Taken DEF RunPosted
  <1>2. e.op \in {"register", "unregister", "post"} => e.topic \in Topics
    BY <1>1 DEF Event
  <1>3. CASE \/ e.op = "register" /\ handlers' = Registered(handlers, e.topic, Endpoint)
             \/ e.op = "unregister" /\ handlers' = Unregistered(handlers, e.topic, Endpoint)
    <2>1. UNCHANGED <<subs, stack, posts>>
      BY <1>3 DEF RunPosted
    <2> QED
      BY <1>1, <1>2, <1>3, <2>1, RegisteredListens
  <1>4. CASE e.op = "post" /\ posts' = posts + 1 /\ UNCHANGED <<handlers, stack>>
    <2>1. Agrees(Tail(posted), subs, Listening(handlers))
      <3>1. Listening(handlers) \in SUBSET Topics /\ \A t \in Topics : ~ Decides(Head(posted), t)
        BY <1>4 DEF Listening, Decides
      <3> QED
        BY <1>1, <3>1, Taken
    <2>2. Tail(posted) \in Seq(Event) /\ AllDue(Tail(posted), stack)
      BY <1>1, Taken
    <2>3. UNCHANGED <<bus, stack>>
      BY <1>1, <1>4 DEF bus
    <2> QED
      BY <1>1, <1>2, <1>4, <2>1, <2>2, <2>3, Announced
  <1>5. CASE e.op = "deliver" /\ stack' = Fired(e) /\ UNCHANGED <<handlers, posts>>
    BY <1>1, <1>5, FiredListens DEF bus
  <1>6. CASE /\ e.op = "quit" /\ UNCHANGED <<handlers, posts>>
             /\ stack' = [i \in 1 .. Len(stack) |->
                            [stack[i] EXCEPT !.over = @ \/ stack[i].topic # None]]
    BY <1>1, <1>6, QuitListens DEF bus
  <1> QED
    BY <1>3, <1>4, <1>5, <1>6 DEF RunPosted

(* A loop returns: its helper is forgotten, and with it the calls to it.   *)
LEMMA ReturnListens == ASSUME ListensInv, Return PROVE ListensInv'
  <1> PICK f, n, su : f = Last(stack) /\ n = Len(stack) /\ su = stack'
    OBVIOUS
  <1>1. /\ stack \in Seq(Frame) /\ stack # <<>> /\ su = Front(stack)
        /\ subs' = subs /\ posts' = posts /\ Cleanup(f)
    BY DEF Return, ListensInv, BusTypes
  <1>2. /\ n \in 1 .. n /\ f = stack[n] /\ Len(su) = n - 1 /\ n \in Nat
        /\ \A k \in 1 .. n - 1 : su[k] = stack[k] /\ k \in 1 .. n
        /\ \A k \in 1 .. n : k = n \/ k \in 1 .. n - 1
    BY <1>1, Popped, SequencesAre
  <1>3. f \in Frame /\ su \in Seq(Frame)
    <2>1. \A k \in 1 .. n : stack[k] \in Frame
      BY <1>1
    <2>2. IsSequence(su)
      BY <1>1, Popped, SequencesAre
    <2> QED
      BY <1>2, <2>1, <2>2 DEF IsSequence
  <1>4. f.id \in Ids /\ f.id # Endpoint /\ f.topic \in Topics \cup {None} /\ None \notin Topics
    BY <1>3, BridgeAssumption DEF Frame, Ids, Endpoint
  <1>5. posted \in Seq(Event) /\ handlers \in [Topics -> Seq(Ids \cup {Endpoint})]
    BY DEF ListensInv, BusTypes
  <1>6. /\ Agrees(posted, subs, Listening(handlers)) /\ AllHelp(handlers, stack)
        /\ AllDue(posted, stack) /\ AllInTime(stack, posts)
    BY DEF ListensInv, BusTrue
  <1>7. \A h, t : HelperOf(stack, h, t) => HelperOf(su, h, t) \/ (h = f.id /\ t = f.topic)
    BY <1>2 DEF HelperOf
  <1>8. \A e : DueIn(stack, e) => DueIn(su, e) \/ (e.to = f.id /\ f.topic \in Topics)
    BY <1>2 DEF DueIn
  <1>9. AllInTime(su, posts)
    BY <1>2, <1>6 DEF AllInTime
  <1>10. CASE f.topic = None
    <2>1. handlers' = handlers /\ posted' = posted
      BY <1>1, <1>10 DEF Cleanup
    <2>2. AllHelp(handlers, su)
      BY <1>4, <1>6, <1>7, <1>10 DEF AllHelp
    <2>3. AllDue(posted, su)
      BY <1>4, <1>6, <1>8, <1>10 DEF AllDue
    <2>4. BusTypes'
      BY <1>1, <1>3, <2>1 DEF ListensInv, BusTypes
    <2> QED
      BY <1>1, <1>6, <1>9, <2>1, <2>2, <2>3, <2>4 DEF ListensInv, BusTrue
  <1>11. CASE f.topic # None
    <2> PICK H, p : H = handlers' /\ p = posted'
      OBVIOUS
    <2>1. H = Unregistered(handlers, f.topic, f.id) /\ p = Without(posted, CallsTo(f.id))
      BY <1>1, <1>11 DEF Cleanup
    <2>2. /\ H \in [Topics -> Seq(Ids \cup {Endpoint})]
          /\ \A t \in Topics : ToSet(H[t]) =
                IF t = f.topic THEN ToSet(handlers[t]) \ {f.id} ELSE ToSet(handlers[t])
      <3> PICK topic, who : topic = f.topic /\ who = f.id
        OBVIOUS
      <3>1. topic \in Topics /\ who \in Ids \cup {Endpoint}
        BY <1>4, <1>11
      <3>2. H = Unregistered(handlers, topic, who)
        BY <2>1
      <3>3. /\ Unregistered(handlers, topic, who) \in [Topics -> Seq(Ids \cup {Endpoint})]
            /\ \A t \in Topics : ToSet(Unregistered(handlers, topic, who)[t]) =
                  IF t = topic THEN ToSet(handlers[t]) \ {who} ELSE ToSet(handlers[t])
        BY <3>1, UnregisteredIs
      <3> QED
        BY <3>2, <3>3
    <2>3. p \in Seq(Event) /\ LeavesOut(p, posted, CallsTo(f.id)) /\ Len(p) \in Nat
      BY <1>5, <2>1, WithoutLeaves
    <2>4. AllHelp(H, su)
      <3> SUFFICES ASSUME NEW t \in Topics, NEW who \in ToSet(H[t])
                   PROVE  who = Endpoint \/ HelperOf(su, who, t)
        BY DEF AllHelp
      <3>1. who \in ToSet(handlers[t]) /\ (t = f.topic => who # f.id)
        BY <2>2
      <3>2. who = Endpoint \/ HelperOf(stack, who, t)
        BY <1>6, <3>1 DEF AllHelp
      <3> QED
        BY <1>7, <3>1, <3>2
    <2>5. AllDue(p, su)
      <3> SUFFICES ASSUME NEW k \in 1 .. Len(p), p[k].op = "deliver"
                   PROVE  p[k].to = Endpoint \/ DueIn(su, p[k])
        BY DEF AllDue
      <3>1. PICK i \in 1 .. Len(posted) : p[k] = posted[i] /\ posted[i] \notin CallsTo(f.id)
        BY <2>3 DEF LeavesOut
      <3>2. p[k] \in ToSet(posted)
        BY <1>5, <3>1 DEF ToSet
      <3>3. p[k].to # f.id
        BY <3>1, <3>2 DEF CallsTo
      <3>4. p[k].to = Endpoint \/ DueIn(stack, p[k])
        BY <1>6, <3>1 DEF AllDue
      <3> QED
        BY <1>8, <3>3, <3>4
    <2>6. Agrees(p, subs, Listening(handlers))
      <3>1. \A k \in 1 .. Len(posted) :
               posted[k].op \in {"register", "unregister"} => posted[k] \notin CallsTo(f.id)
        BY DEF CallsTo
      <3>2. Len(posted) \in Nat
        BY <1>5
      <3> QED
        BY <1>6, <2>3, <3>1, <3>2, QuietlyThinned
    <2>7. Listening(H) = Listening(handlers)
      BY <1>4, <2>2 DEF Listening
    <2>8. BusTypes'
      BY <1>1, <1>3, <2>2, <2>3 DEF ListensInv, BusTypes
    <2> QED
      BY <1>1, <1>9, <2>4, <2>5, <2>6, <2>7, <2>8 DEF ListensInv, BusTrue
  <1> QED
    BY <1>10, <1>11
-----------------------------------------------------------------------------
LEMMA DispatchListens ==
    ASSUME ListensInv, LoopTypes, conn \in Conns, NEW r \in Request, Dispatch(r)
    PROVE  ListensInv'
  <1>1. r.topic \in Topics /\ [op |-> "post", topic |-> r.topic] \in Event /\ [op |-> "quit"] \in Event
    BY DEF Request, Event
  <1>2. CASE r.kind = "publish"
    <2>1. Post([op |-> "post", topic |-> r.topic]) /\ UNCHANGED <<bus, stack, posts>>
      BY <1>2 DEF Dispatch, Publish, Finish
    <2> QED
      BY <1>1, <2>1, PostQuietly
  <1>3. CASE r.kind = "quit"
    <2>1. Post([op |-> "quit"]) /\ UNCHANGED <<bus, stack, posts>>
      BY <1>3 DEF Dispatch, Quit, Finish
    <2> QED
      BY <1>1, <2>1, PostQuietly
  <1>4. CASE r.kind = "subscribe"
    BY <1>1, <1>4, SubscribeListens DEF Dispatch
  <1>5. CASE r.kind = "unsubscribe"
    BY <1>1, <1>5, SubscribeListens DEF Dispatch
  <1>6. CASE r.kind = "wait"
    BY <1>6, HoldListens DEF Dispatch
  <1>7. CASE r.kind = "input"
    BY <1>7, HoldListens DEF Dispatch
  <1>8. CASE r.kind = "call"
    <2>1. AppPosts(r.topic) /\ UNCHANGED <<bus, stack>>
      BY <1>8 DEF Dispatch, Call, Finish
    <2> QED
      BY <1>1, <2>1, Announced DEF AppPosts, ListensInv, BusTypes, BusTrue
  <1>9. CASE r.kind = "log_wait"
    BY <1>9, Quiet DEF Dispatch, LogWait
  <1>10. CASE r.kind \notin {"publish", "subscribe", "unsubscribe", "wait", "input", "call",
                             "quit", "log_wait"}
    BY <1>10, Quiet DEF Dispatch, Simple, Finish
  <1> QED
    BY <1>2, <1>3, <1>4, <1>5, <1>6, <1>7, <1>8, <1>9, <1>10

LEMMA OnTextMessageListens ==
    ASSUME ListensInv, LoopTypes, BridgeInv, OnTextMessageReceived
    PROVE  ListensInv' /\ LoopTypes'
  <1>1. PICK i \in Ids, kind \in Kinds, topic \in Topics, reply \in BOOLEAN :
           LET r == [id |-> i, kind |-> kind, topic |-> topic, reply |-> reply]
           IN  conn \in Conns /\ conn' = conn /\ logWait = None /\ Dispatch(r)
    BY HandOn
  <1> DEFINE r == [id |-> i, kind |-> kind, topic |-> topic, reply |-> reply]
  <1>2. r \in Request
    BY DEF Request
  <1> HIDE DEF r
  <1>3. ListensInv'
    BY <1>1, <1>2, DispatchListens DEF r
  <1>4. logWait' = None \/ logWait' = r
    <2>1. Dispatch(r) /\ logWait = None
      BY <1>1 DEF r
    <2> QED
      BY <2>1, DispatchCases DEF Finish
  <1>5. timer' = TRUE /\ quit' = quit /\ stopped' = stopped
    BY DEF OnTextMessageReceived
  <1> QED
    BY <1>1, <1>2, <1>3, <1>4, <1>5, Constants DEF LoopTypes

LEMMA LoopStep ==
    ASSUME BridgeInv, LoopTypes, [Next]_vars, ~ OnTextMessageReceived
    PROVE  LoopTypes'
  <1> USE DEF LoopTypes
  <1>1. ASSUME NEW c \in Conns, Connect(c) \/ Send(c) \/ Leave(c) PROVE LoopTypes'
    BY <1>1 DEF Connect, Send, Leave
  <1>2. ASSUME NEW topic \in Topics, AppEvent(topic) PROVE LoopTypes'
    BY <1>2 DEF AppEvent
  <1>3. CASE OnNewConnection
    <2>1. Head(backlog) # None
      <3>1. backlog \in Seq(Conns) /\ backlog # <<>> /\ None \notin Conns
        BY <1>3 DEF OnNewConnection, BridgeInv, LinksTrue
      <3> QED
        BY <3>1
    <2> QED
      BY <1>3, <2>1 DEF OnNewConnection, Accept
  <1>4. CASE OnClientDisconnected \/ OnIdleTimeout
    BY <1>4 DEF OnClientDisconnected, OnIdleTimeout
  <1>5. CASE RunPosted
    BY <1>5 DEF RunPosted
  <1>6. CASE Return \/ EndLogWait \/ Stop
    <2>1. CASE Return
      BY <2>1 DEF Return
    <2>2. CASE EndLogWait
      BY <2>2 DEF EndLogWait
    <2>3. CASE Stop
      BY <2>3 DEF Stop
    <2> QED
      BY <1>6, <2>1, <2>2, <2>3
  <1>7. CASE TimesOut
    BY <1>7 DEF TimesOut, WaitTimeout
  <1>8. CASE UNCHANGED vars
    BY <1>8 DEF vars
  <1> QED
    BY <1>1, <1>2, <1>3, <1>4, <1>5, <1>6, <1>7, <1>8 DEF Next

LEMMA ListensStep ==
    ASSUME BridgeInv, LoopTypes, ListensInv, [Next]_vars
    PROVE  ListensInv' /\ LoopTypes'
  <1>1. CASE OnTextMessageReceived
    BY <1>1, OnTextMessageListens
  <1>2. ASSUME ~ OnTextMessageReceived PROVE ListensInv'
    <2>1. ASSUME NEW c \in Conns, Connect(c) \/ Send(c) \/ Leave(c) PROVE ListensInv'
      BY <2>1, Quiet DEF Connect, Send, Leave
    <2>2. ASSUME NEW topic \in Topics, AppEvent(topic) PROVE ListensInv'
      <3>1. AppPosts(topic) /\ UNCHANGED <<bus, stack>>
        BY <2>2 DEF AppEvent
      <3> QED
        BY <3>1, Announced DEF AppPosts, ListensInv, BusTypes, BusTrue
    <2>3. CASE OnNewConnection \/ OnClientDisconnected \/ OnIdleTimeout
      <3>1. UNCHANGED <<posted, bus, stack, posts>>
        BY <2>3 DEF OnNewConnection, OnClientDisconnected, OnIdleTimeout
      <3> QED
        BY <3>1, Quiet
    <2>4. CASE EndLogWait \/ Stop
      BY <2>4, Quiet DEF EndLogWait, Stop
    <2>5. CASE TimesOut
      BY <2>5, WaitTimeoutListens DEF TimesOut, Ids
    <2>6. CASE UNCHANGED vars
      BY <2>6, Quiet DEF vars
    <2> QED
      BY <1>2, <2>1, <2>2, <2>3, <2>4, <2>5, <2>6, RunPostedListens, ReturnListens DEF Next
  <1> QED
    BY <1>1, <1>2, LoopStep

(* What the bus holds is what RegistrationFollows and WaitsAreLive say.    *)
LEMMA BusKnows == BridgeInv /\ LoopTypes /\ ListensInv => BusKnowsListeners
  <1> SUFFICES ASSUME BridgeInv, LoopTypes, ListensInv PROVE BusKnowsListeners
    OBVIOUS
  <1>1. TypeOK
    <2>1. inbox \in [Conns -> Seq(Ids)]
      <3>1. inbox \in [Conns -> Seq(Nat)] /\ Len(asker) \in Nat /\ Len(asker) <= MaxRequests
        BY DEF BridgeInv, InboxTrue, LinksTrue
      <3>2. ASSUME NEW c \in Conns PROVE inbox[c] \in Seq(Ids)
        <4>1. \A k \in 1 .. Len(inbox[c]) : inbox[c][k] \in Ids
          BY <3>1, Constants DEF BridgeInv, InboxTrue, Ids
        <4>2. inbox[c] \in Seq(Nat)
          BY <3>1
        <4> QED
          BY <4>1, <4>2
      <3> QED
        BY <3>1, <3>2
    <2>2. taken \subseteq Ids
      BY Constants DEF BridgeInv, RepliesTrue, LinksTrue, Ids
    <2> QED
      BY <2>1, <2>2 DEF TypeOK, BridgeInv, LinksTrue, RepliesTrue, LoopTypes, ListensInv, BusTypes
  <1>2. RegistrationFollows
    BY DEF RegistrationFollows, IsLast, Agrees, Listening, ListensInv, BusTrue
  <1>3. WaitsAreLive
    <2> DEFINE waiting == {Endpoint} \cup {stack[k].id : k \in 1 .. Len(stack)}
    <2>1. AllHelp(handlers, stack) /\ AllDue(posted, stack) /\ AllInTime(stack, posts)
      BY DEF ListensInv, BusTrue
    <2>2. \A t \in Topics : ToSet(handlers[t]) \subseteq waiting
      BY <2>1 DEF AllHelp, HelperOf
    <2>3. \A k \in 1 .. Len(posted) : posted[k].op = "deliver" => posted[k].to \in waiting
      BY <2>1 DEF AllDue, DueIn
    <2> QED
      BY <2>1, <2>2, <2>3 DEF WaitsAreLive, AllInTime
  <1> QED
    BY <1>1, <1>2, <1>3 DEF BusKnowsListeners

(* The bus delivers to the endpoint exactly the topics its client has      *)
(* subscribed to, once the event queue has caught up, and to the helper of *)
(* no wait that is over; a wait hears only what was posted since it began  *)
(* (BusEndpoint::subscribe, unsubscribe and wait, GuiDataBus).             *)
THEOREM ListenersAlwaysKnown == Spec => []BusKnowsListeners
  <1>1. Init => LoopTypes /\ ListensInv
    <2> SUFFICES ASSUME Init PROVE LoopTypes /\ ListensInv
      OBVIOUS
    <2>1. /\ Len(posted) = 0 /\ Len(stack) = 0 /\ subs = {} /\ posts = 0
          /\ handlers = [t \in Topics |-> <<>>]
      BY DEF Init
    <2>2. LoopTypes /\ BusTypes
      <3>1. handlers \in [Topics -> Seq(Ids \cup {Endpoint})]
        BY <2>1
      <3>2. posted \in Seq(Event) /\ stack \in Seq(Frame)
        BY DEF Init
      <3>3. BusTypes
        BY <2>1, <3>1, <3>2 DEF BusTypes
      <3>4. LoopTypes
        BY DEF Init, LoopTypes
      <3> QED
        BY <3>3, <3>4
    <2>3. \A t \in Topics : ToSet(handlers[t]) = {}
      BY <2>1 DEF ToSet
    <2>4. BusTrue
      BY <2>1, <2>3 DEF BusTrue, Agrees, Listening, AllHelp, AllDue, AllInTime
    <2> QED
      BY <2>2, <2>4 DEF ListensInv
  <1>2. BridgeInv /\ (LoopTypes /\ ListensInv) /\ [Next]_vars => (LoopTypes /\ ListensInv)'
    BY ListensStep
  <1> QED
    BY <1>1, <1>2, BusKnows, BridgeStarts, BridgeStep, PTL DEF Spec
=============================================================================

------------------------------ MODULE HttpdCore ------------------------------
(***************************************************************************)
(* libesphttpd on FreeRTOS: the connection pool and the callbacks of       *)
(* core/httpd.c under the select loop of core/httpd-freertos.c.            *)
(*                                                                         *)
(* A callback runs under the recursive httpd lock from its first to its    *)
(* last line, so it is one step; the loop, the clients and a task that     *)
(* calls httpdContinue move in between.                                    *)
(*                                                                         *)
(* A request is its whole header and then the chunks of its body, one for  *)
(* each time the POST buffer is handed to the CGI.  A response is a number *)
(* of parts, what one call of the CGI sends; a CGI finishes only when it   *)
(* has seen the whole body.  A client sends a request when it has the      *)
(* whole response to the one before.                                       *)
(***************************************************************************)
EXTENDS Integers, Sequences, FiniteSets

CONSTANTS
    Peer,        \* remote ends, by address and port
    Nobody,      \* no remote end
    MaxConn,     \* HTTPD_MAX_CONNECTIONS
    Requests,    \* [chunks, http11, url, found]
    MaxParts,    \* bound on the parts of a response
    MaxBacklog,  \* HTTPD_MAX_BACKLOG_SIZE, in parts
    MayRefuse,   \* write() and accept() may fail
    Failing,     \* allocations that may fail
    Async        \* a CGI may answer later, through httpdContinue

Allocations == {"connData", "post", "sendBuff", "precvbuf", "backlog"}

ASSUME CoreAssumption ==
    /\ Nobody \notin Peer
    /\ MaxConn \in Nat \ {0} /\ MaxParts \in Nat \ {0} /\ MaxBacklog \in Nat
    /\ Requests \subseteq [chunks : Nat, http11 : BOOLEAN, url : BOOLEAN, found : BOOLEAN]
    /\ \A request \in Requests : request.http11 \/ request.found => request.url
    /\ {MayRefuse, Async} \subseteq BOOLEAN
    /\ Failing \subseteq Allocations

Slots == 1 .. MaxConn

VARIABLES
    peer,      \* remote end -> [state, asked, unsent, inbox, got]; asked: what the last request was
    rconn,     \* slot of the loop -> [peer, notif, needsClose]; Nobody: fd = -1
    connData,  \* slot of the pool -> connection, or NULL
    loop,      \* where platHttpServerTask is: [at, x, reads, writes]
    open       \* history: remote ends whose CGI said MORE and was not ended

vars == <<peer, rconn, connData, loop, open>>

Header == -1    \* post->len while the headers are being received

NULL == [peer |-> Nobody, len |-> Header, received |-> 0,
         request |-> [chunks |-> 0, http11 |-> FALSE, url |-> FALSE, found |-> FALSE],
         cgi |-> FALSE, chunked |-> FALSE, discon |-> FALSE, junk |-> FALSE,
         backlog |-> <<>>, parts |-> 0, leaked |-> FALSE]

Closed == [state |-> "closed", asked |-> "none", unsent |-> <<>>, inbox |-> <<>>, got |-> <<>>]

Select == [at |-> "select", x |-> 1, reads |-> {}, writes |-> {}]

Init ==
    /\ peer = [p \in Peer |-> Closed]
    /\ rconn = [x \in Slots |-> [peer |-> Nobody, notif |-> FALSE, needsClose |-> FALSE]]
    /\ connData = [i \in Slots |-> NULL]
    /\ loop = Select
    /\ open = {}
-----------------------------------------------------------------------------
(* What a callback does to one connection.  A world w is the connection c, *)
(* its slot r of the loop, what the client got, the send buffer and        *)
(* whether the CGI is open; an operator gives the worlds it can end in.    *)

Size(backlog) == LET f[n \in 0 .. Len(backlog)] ==
                       IF n = 0 THEN 0 ELSE f[n - 1] + Len(backlog[n])
                 IN  f[Len(backlog)]

\* A send that does not ask to be told when it is done.
WrittenSilently(w, data) == [w EXCEPT !.got = @ \o data]

\* httpdPlatSendData: ask to be told when writable, and write().
Written(w, data) == [w EXCEPT !.r.notif = TRUE, !.got = @ \o data]
Refused(w) == IF MayRefuse THEN {[w EXCEPT !.r.notif = TRUE]} ELSE {}

\* What cannot be written goes to the backlog, unless that is full or out of
\* memory (and then it stays in the buffer, which lives as long as the callback).
httpdFlushSendBuffer(w) ==
    IF w.buff = <<>> THEN {w}
    ELSE {[Written(w, w.buff) EXCEPT !.buff = <<>>]}
         \cup {IF Size(w.c.backlog) + Len(w.buff) > MaxBacklog
               THEN [v EXCEPT !.buff = <<>>]
               ELSE [v EXCEPT !.buff = <<>>, !.c.backlog = Append(@, w.buff)] : v \in Refused(w)}
         \cup (IF "backlog" \in Failing THEN Refused(w) ELSE {})

\* A connection that cannot be kept alive not marked for its end.
DoneKeepsOpen(w) ==
    LET ended == [w EXCEPT !.c.cgi = FALSE]
    IN  IF w.c.chunked
        THEN {[v EXCEPT !.c.len = Header, !.c.received = 0, !.c.chunked = FALSE,
                        !.c.discon = FALSE, !.c.junk = FALSE, !.c.parts = 0]
                : v \in httpdFlushSendBuffer(ended)}
        ELSE {ended}

httpdCgiIsDone(w) ==
    LET ended == [w EXCEPT !.c.cgi = FALSE]
    IN  IF w.c.chunked
        THEN {[v EXCEPT !.c.len = Header, !.c.received = 0, !.c.chunked = FALSE,
                        !.c.discon = FALSE, !.c.junk = FALSE, !.c.parts = 0] : v \in httpdFlushSendBuffer(ended)}
        ELSE {[ended EXCEPT !.c.discon = TRUE]}

\* The CGI sends the next part of its response.
SendPart(w, last) == [w EXCEPT !.c.parts = @ + 1,
                               !.buff = Append(@, [n |-> w.c.parts + 1, last |-> last])]

More(w) == [w EXCEPT !.open = TRUE]
Done(w) == [w EXCEPT !.open = FALSE]

\* A CGI asked to go on, or for the first time: [r, w] for each thing it may do.
cgi(w) ==
    IF w.c.received < w.c.request.chunks
    THEN {[r |-> "MORE", w |-> More(w)]}
    ELSE {[r |-> "DONE", w |-> Done(SendPart(w, TRUE))]}
         \cup (IF w.c.parts + 1 < MaxParts
               THEN {[r |-> "MORE", w |-> More(SendPart(w, FALSE))]} ELSE {})
         \cup (IF Async THEN {[r |-> "MORE", w |-> More(w)]} ELSE {})

\* The first call of the CGI, found in the table of URLs; cgiNotFound is the
\* one that answers at once.  Without a URL nothing happens.
httpdProcessRequest(w) ==
    LET started == [w EXCEPT !.c.cgi = TRUE]
        calls == IF w.c.request.found THEN cgi(started)
                 ELSE {[r |-> "DONE", w |-> Done(SendPart(started, TRUE))]}
    IN  IF ~w.c.request.url THEN {w}
        ELSE UNION {IF k.r = "DONE" THEN httpdCgiIsDone(k.w)
                    ELSE httpdFlushSendBuffer(k.w) : k \in calls}

\* httpdContinue that asks the CGI before it empties the backlog.
ContinueSkipsBacklog(w) ==
    CASE w.c.discon /\ w.c.backlog = <<>> ->
            {[w EXCEPT !.r.needsClose = TRUE, !.r.notif = TRUE]}
      [] w.c.backlog # <<>> /\ ~w.c.cgi ->
            {[v EXCEPT !.c.backlog = Tail(@)] :
                v \in Refused(w) \cup {Written(w, Head(w.c.backlog))}}
      [] w.c.cgi ->
            UNION {UNION {httpdFlushSendBuffer(v) :
                            v \in IF k.r = "DONE" THEN httpdCgiIsDone(k.w) ELSE {k.w}}
                     : k \in cgi(w)}
      [] OTHER -> {w}

\* One packet of the backlog, whatever write() says of it, or the end of the
\* connection, or the CGI's next call.
httpdContinue(w) ==
    CASE w.c.backlog # <<>> ->
            {[v EXCEPT !.c.backlog = Tail(@)] :
                v \in Refused(w) \cup {Written(w, Head(w.c.backlog))}}
      [] w.c.backlog = <<>> /\ w.c.discon ->
            {[w EXCEPT !.r.needsClose = TRUE, !.r.notif = TRUE]}
      [] w.c.backlog = <<>> /\ ~w.c.discon /\ w.c.cgi ->
            (UNION {UNION {httpdFlushSendBuffer(v) :
                             v \in IF k.r = "DONE" THEN httpdCgiIsDone(k.w) ELSE {k.w}}
                      : k \in cgi(w)})
            \cup (IF "sendBuff" \in Failing THEN {w} ELSE {})
      [] OTHER -> {w}

\* The headers end: a request without a body is processed at once.
EndOfHeaders(w, request) ==
    LET parsed == [w EXCEPT !.c.len = request.chunks, !.c.request = request,
                            !.c.chunked = request.http11]
    IN  IF request.chunks = 0 THEN httpdProcessRequest(parsed) ELSE {parsed}

\* The POST buffer is full, or the body complete.
PostChunk(w) ==
    LET next == [w EXCEPT !.c.received = @ + 1]
    IN  IF ~next.c.cgi THEN httpdProcessRequest(next)
        ELSE UNION {IF k.r = "DONE" THEN httpdCgiIsDone(k.w) ELSE {k.w} : k \in cgi(next)}

NoUrl(request) == [request EXCEPT !.url = FALSE, !.http11 = FALSE, !.found = FALSE]

\* The head of a request behind the rest of a body that nobody took: its first
\* line is lost, unless that rest ended with a newline.
HeadOf(w, request) ==
    IF w.c.junk THEN EndOfHeaders(w, request) \cup EndOfHeaders(w, NoUrl(request))
    ELSE EndOfHeaders(w, request)

\* A body where a head is expected is taken for the start of that head; other
\* data that nobody waits for is ignored.
Feed(w, item) ==
    CASE w.c.len = Header /\ item.type = "head" -> HeadOf(w, item.request)
      [] w.c.len = Header /\ item.type = "body" -> {[w EXCEPT !.c.junk = TRUE]}
      [] w.c.len > 0 /\ item.type = "body"      -> PostChunk(w)
      [] OTHER                                  -> {w}

httpdRecvCb(w, data) ==
    LET fed[n \in 0 .. Len(data)] ==
          IF n = 0 THEN {w} ELSE UNION {Feed(v, data[n]) : v \in fed[n - 1]}
    IN  (UNION {httpdFlushSendBuffer(v) : v \in fed[Len(data)]})
        \cup (IF "sendBuff" \in Failing THEN {w} ELSE {})
-----------------------------------------------------------------------------
(* The pool.                                                               *)

Free == {x \in Slots : rconn[x].peer = Nobody}
Unused == {i \in Slots : connData[i] = NULL}
First(S) == CHOOSE n \in S : \A k \in S : n <= k

\* httpdFindConnData, by address and port.
Found(p) == {i \in Slots : connData[i].peer = p}

World(x, i) == [c |-> connData[i], r |-> rconn[x], got |-> peer[rconn[x].peer].got,
                buff |-> <<>>, open |-> rconn[x].peer \in open]

\* A step of the connection i, which the loop holds in its slot x.
Become(x, i, w, inbox) ==
    LET p == rconn[x].peer
    IN  /\ connData' = [connData EXCEPT ![i] = w.c]
        /\ rconn' = [rconn EXCEPT ![x] = w.r]
        /\ peer' = [peer EXCEPT ![p].got = IF peer[p].state = "open" THEN w.got ELSE @,
                                ![p].inbox = inbox]
        /\ open' = IF w.open THEN open \cup {p} ELSE open \ {p}

\* httpdPlatDisconnect.
AskClose(r) == [r EXCEPT !.needsClose = TRUE, !.notif = TRUE]

\* A disconnect is httpdDisconCb, then close(fd) and fd = -1.  What the slot of
\* the loop becomes: httpdDisconCb asks for a close when it finds no connection.
Closing(x) == [(IF Found(rconn[x].peer) = {} THEN AskClose(rconn[x]) ELSE rconn[x])
                  EXCEPT !.peer = Nobody]

Hangup(x) ==
    /\ rconn' = [rconn EXCEPT ![x] = Closing(x)]
    /\ peer' = [peer EXCEPT ![rconn[x].peer] = Closed]

Retired(p) == [i \in Slots |-> IF i \in Found(p) THEN NULL ELSE connData[i]]

\* A disconnect that does not tell the CGI.
DisconForgetsCgi(x) ==
    /\ connData' = Retired(rconn[x].peer)
    /\ UNCHANGED open
    /\ Hangup(x)

\* A disconnect that does not retire the connection.
DisconKeepsSlot(x) ==
    /\ open' = open \ {rconn[x].peer}
    /\ UNCHANGED connData
    /\ Hangup(x)

\* An open CGI may clean up, and the connection is retired.
Disconnect(x) ==
    /\ open' = IF \E i \in Found(rconn[x].peer) : connData[i].cgi
               THEN open \ {rconn[x].peer} ELSE open
    /\ connData' = Retired(rconn[x].peer)
    /\ Hangup(x)
-----------------------------------------------------------------------------
(* The clients.                                                            *)

Connect(p) ==
    /\ peer[p].state = "closed"
    /\ peer' = [peer EXCEPT ![p].state = "pending"]
    /\ UNCHANGED <<rconn, connData, loop, open>>

Items(request) == <<[type |-> "head", request |-> request]>>
                    \o [n \in 1 .. request.chunks |-> [type |-> "body", request |-> request]]

HasAnswer(p) == peer[p].got # <<>> /\ peer[p].got[Len(peer[p].got)].last

\* The first request of a connection, or the next one when the response to
\* an HTTP/1.1 request is complete.
Ask(p) ==
    /\ peer[p].state = "open" /\ peer[p].unsent = <<>>
    /\ peer[p].asked = "none" \/ (peer[p].asked = "HTTP/1.1" /\ HasAnswer(p))
    /\ \E request \in Requests :
          peer' = [peer EXCEPT ![p].asked = IF request.http11 THEN "HTTP/1.1" ELSE "HTTP/1.0",
                               ![p].unsent = Items(request), ![p].got = <<>>]
    /\ UNCHANGED <<rconn, connData, loop, open>>

\* Some of the request arrives.
Deliver(p) ==
    /\ peer[p].state = "open"
    /\ \E n \in 1 .. Len(peer[p].unsent) :
          peer' = [peer EXCEPT ![p].inbox = @ \o SubSeq(peer[p].unsent, 1, n),
                               ![p].unsent = SubSeq(@, n + 1, Len(@))]
    /\ UNCHANGED <<rconn, connData, loop, open>>

\* The client closes, or its host goes away (keep-alive finds out).
Leave(p) ==
    /\ peer[p].state = "open"
    /\ peer' = [peer EXCEPT ![p].state = "left", ![p].unsent = <<>>]
    /\ UNCHANGED <<rconn, connData, loop, open>>

\* Another task resumes the connection of an open CGI.
AsyncContinue(x) ==
    /\ Async /\ rconn[x].peer # Nobody
    /\ \E i \in Found(rconn[x].peer) :
          /\ connData[i].cgi
          /\ \E w \in httpdContinue(World(x, i)) :
                Become(x, i, w, peer[rconn[x].peer].inbox)
    /\ UNCHANGED loop
-----------------------------------------------------------------------------
(* platHttpServerTask.                                                     *)

Pending == {p \in Peer : peer[p].state = "pending"}
Readable == {x \in Slots \ Free : peer[rconn[x].peer].inbox # <<>>
                                     \/ peer[rconn[x].peer].state = "left"}
Notified == {x \in Slots \ Free : rconn[x].notif}
CanAccept == Pending # {} /\ Free # {}

\* select returns; which of the sockets are writable is the network's affair.
SelectReturns ==
    /\ loop.at = "select"
    /\ \E W \in SUBSET Notified :
          /\ CanAccept \/ Readable \cup W # {}
          /\ loop' = [at |-> IF CanAccept THEN "accept" ELSE "write",
                      x |-> 1, reads |-> Readable, writes |-> W]
    /\ UNCHANGED <<peer, rconn, connData, open>>

NewConn(p) == [NULL EXCEPT !.peer = p]
NewSocket(p) == [peer |-> p, notif |-> FALSE, needsClose |-> FALSE]

\* httpdConnectCb.  Without memory for the post structure the slot of the pool
\* stays taken, with port 0.
httpdConnectCb(p) ==
    \/ /\ Unused # {}
       /\ \E new \in {NewConn(p)} \cup (IF "post" \in Failing
                                       THEN {[NULL EXCEPT !.leaked = TRUE]} ELSE {}) :
             connData' = [connData EXCEPT ![First(Unused)] = new]
    \/ /\ Unused = {} \/ "connData" \in Failing
       /\ UNCHANGED connData

\* accept(), and httpdConnectCb whose result is ignored.
Accept ==
    /\ loop.at = "accept" /\ loop' = [loop EXCEPT !.at = "write"]
    /\ \E p \in Pending :
          /\ rconn' = [rconn EXCEPT ![First(Free)] = NewSocket(p)]
          /\ peer' = [peer EXCEPT ![p].state = "open"]
          /\ httpdConnectCb(p)
    /\ UNCHANGED open

\* accept() fails, and the round ends without a look at the other sockets.
AcceptFails ==
    /\ loop.at = "accept" /\ MayRefuse
    /\ loop' = Select
    /\ UNCHANGED <<peer, rconn, connData, open>>

GoTo(at) == loop' = [loop EXCEPT !.at = at]

NextSlot == loop' = IF loop.x = MaxConn THEN Select ELSE [loop EXCEPT !.at = "write", !.x = @ + 1]

Socket == rconn[loop.x]

SkipEmpty ==
    /\ loop.at = "write" /\ Socket.peer = Nobody
    /\ NextSlot
    /\ UNCHANGED <<peer, rconn, connData, open>>

\* needWriteDoneNotif is cleared before the callback, outside the lock.
CheckWritable ==
    /\ loop.at = "write" /\ Socket.peer # Nobody
    /\ IF Socket.notif /\ loop.x \in loop.writes
       THEN /\ rconn' = [rconn EXCEPT ![loop.x].notif = FALSE]
            /\ GoTo(IF Socket.needsClose THEN "close" ELSE "sent")
       ELSE UNCHANGED rconn /\ GoTo("read")
    /\ UNCHANGED <<peer, connData, open>>

CloseSocket ==
    /\ loop.at = "close"
    /\ Disconnect(loop.x)
    /\ GoTo("read")

\* httpdSentCb.  SentFindsConnection says that it always finds the connection;
\* without one httpdContinue would return with the lock taken.
Sent ==
    /\ loop.at = "sent"
    /\ \E i \in Found(Socket.peer) : \E w \in httpdContinue(World(loop.x, i)) :
          Become(loop.x, i, w, peer[Socket.peer].inbox)
    /\ GoTo("read")

\* The set is asked about fd -1 when the write half has closed the socket, and
\* may say anything: this one says no.
NotReadable ==
    /\ loop.at = "read" /\ (loop.x \notin loop.reads \/ Socket.peer = Nobody)
    /\ NextSlot
    /\ UNCHANGED <<peer, rconn, connData, open>>

\* It says yes: recv(-1) fails, and httpdDisconCb finds no connection.
ReadClosed ==
    /\ loop.at = "read" /\ Socket.peer = Nobody
    /\ rconn' = [rconn EXCEPT ![loop.x] = AskClose(@)]
    /\ NextSlot
    /\ UNCHANGED <<peer, connData, open>>

Reads == loop.at = "read" /\ loop.x \in loop.reads /\ Socket.peer # Nobody

\* Data for a connection that is in the pool.
Receive ==
    /\ Reads /\ peer[Socket.peer].inbox # <<>>
    /\ \E i \in Found(Socket.peer) :
       \E w \in httpdRecvCb(World(loop.x, i), peer[Socket.peer].inbox) :
          Become(loop.x, i, w, <<>>)
    /\ NextSlot

\* Data for a connection that is not.
ReceiveUnknown ==
    /\ Reads /\ peer[Socket.peer].inbox # <<>> /\ Found(Socket.peer) = {}
    /\ peer' = [peer EXCEPT ![Socket.peer].inbox = <<>>]
    /\ rconn' = [rconn EXCEPT ![loop.x] = AskClose(@)]
    /\ NextSlot
    /\ UNCHANGED <<connData, open>>

\* The client has closed, and everything it sent is read.
ReceiveNothing ==
    /\ Reads /\ peer[Socket.peer].inbox = <<>>
    /\ Disconnect(loop.x)
    /\ NextSlot

\* No memory to receive with: a disconnect, and then recv(-1) and another one,
\* which finds no connection.
NoReceiveBuffer ==
    /\ Reads /\ "precvbuf" \in Failing
    /\ open' = IF \E i \in Found(Socket.peer) : connData[i].cgi
               THEN open \ {Socket.peer} ELSE open
    /\ connData' = Retired(Socket.peer)
    /\ rconn' = [rconn EXCEPT ![loop.x] = [AskClose(@) EXCEPT !.peer = Nobody]]
    /\ peer' = [peer EXCEPT ![Socket.peer] = Closed]
    /\ NextSlot

Server == \/ SelectReturns \/ Accept \/ AcceptFails \/ SkipEmpty \/ CheckWritable \/ CloseSocket
          \/ Sent \/ NotReadable \/ ReadClosed
          \/ Receive \/ ReceiveUnknown \/ ReceiveNothing \/ NoReceiveBuffer

Next == \/ \E p \in Peer : Connect(p) \/ Ask(p) \/ Deliver(p) \/ Leave(p)
        \/ \E x \in Slots : AsyncContinue(x)
        \/ Server

Spec == Init /\ [][Next]_vars

\* The task runs; select reports a socket that goes on being writable; what a
\* client has sent arrives.
Fairness ==
    /\ WF_vars(Server)
    /\ \A x \in Slots : SF_vars(SelectReturns /\ x \in loop'.writes)
    /\ \A p \in Peer : WF_vars(Deliver(p))

FairSpec == Spec /\ Fairness
-----------------------------------------------------------------------------
(* Properties.                                                             *)

\* The values the variables take.
TypeOK ==
    /\ \A p \in Peer : /\ peer[p].state \in {"closed", "pending", "open", "left"}
                       /\ peer[p].asked \in {"none", "HTTP/1.1", "HTTP/1.0"}
    /\ rconn \in [Slots -> [peer : Peer \cup {Nobody}, notif : BOOLEAN, needsClose : BOOLEAN]]
    /\ \A i \in Slots : /\ connData[i].peer \in Peer \cup {Nobody}
                        /\ connData[i].len \in {Header} \cup {request.chunks : request \in Requests}
                        /\ Size(connData[i].backlog) \in 0 .. MaxBacklog
                        /\ connData[i].parts \in Nat
    /\ loop.at \in {"select", "accept", "write", "close", "sent", "read"}
    /\ loop.x \in Slots /\ loop.reads \subseteq Slots /\ loop.writes \subseteq Slots
    /\ open \subseteq Peer

Live == {i \in Slots : connData[i].peer # Nobody}

\* The pool of connections and the sockets of the loop, two tables of the same
\* size that find each other by address and port, hold the same remote ends:
\* none is there twice, no connection outlives its socket, and unless an
\* allocation failed every socket has its connection.
SocketsMatchPool ==
    LET sockets == {rconn[x].peer : x \in Slots \ Free}
        pool == {connData[i].peer : i \in Live}
    IN  /\ Cardinality(pool) = Cardinality(Live)
        /\ Cardinality(sockets) = Cardinality(Slots \ Free)
        /\ pool \subseteq sockets
        /\ Failing \cap {"connData", "post"} = {} => pool = sockets

\* A CGI that asked to be called again is still attached to a connection whose
\* socket is open, so that it is called again: to go on, or to clean up.
NoCgiLeftBehind ==
    \A p \in open : \E x \in Slots, i \in Slots :
        rconn[x].peer = p /\ connData[i].peer = p /\ connData[i].cgi

\* The parts of a response arrive in the order the CGI sent them in, whatever
\* write() refuses and the backlog holds.
InOrder ==
    \A p \in Peer : \A j, k \in DOMAIN peer[p].got :
        j < k => peer[p].got[j].n < peer[p].got[k].n

\* A socket that is told its data is sent has a connection in the pool, so that
\* httpdContinue is never called with NULL, where it keeps the lock.
SentFindsConnection == loop.at = "sent" => Found(Socket.peer) # {}

\* The two tables agree whenever a callback looks one up from the other.
PoolInv == TypeOK /\ SocketsMatchPool /\ SentFindsConnection

\* httpd.c:525, "Shouldn't happen": requests that all have a URL are processed
\* with one.
RequestsHaveUrl == \A i \in Live : connData[i].len # Header => connData[i].request.url

\* A client that stays gets the whole response to its request.
Answered == \A p \in Peer :
    (peer[p].state = "open" /\ peer[p].asked # "none")
        ~> (HasAnswer(p) \/ peer[p].state # "open")

\* The socket of a client that has left, or whose connection is not kept alive,
\* is closed: its slot is free again.
SocketFreed == \A p \in Peer :
    (peer[p].state = "left" \/ peer[p].asked = "HTTP/1.0") ~> peer[p].state = "closed"
=============================================================================

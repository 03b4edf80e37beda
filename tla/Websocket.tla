----------------------------- MODULE Websocket -----------------------------
(***************************************************************************)
(* util/cgiwebsocket.c: the frames of a websocket taken out of the         *)
(* fragments the network makes of them, the linked list of websockets and  *)
(* the broadcast that walks it.                                            *)
(*                                                                         *)
(* Receiving, the sent callback and the end of a connection run under the  *)
(* httpd lock and are one step each.  cgiWebsockBroadcast is called by     *)
(* another task and takes the lock only while it sends to one websocket.   *)
(***************************************************************************)
EXTENDS Integers, Sequences, SequencesExt

CONSTANTS
    Conn,          \* connections
    None,          \* no connection
    Streams(_),    \* connection -> the sequences of frames its client may send
    Url(_),        \* connection -> the url of its websocket
    Short,         \* 125, the longest length in one byte
    Long           \* 65535, the longest length in two bytes

Data == {"TEXT", "BINARY", "CONTINUE"}
Frame == [op : Data \cup {"PING", "PONG", "CLOSE"}, fin : BOOLEAN, masked : BOOLEAN, n : Nat]

\* A client masks its frames; one that does not is modelled for data only.
ASSUME WebsocketAssumption ==
    /\ Conn # {} /\ None \notin Conn
    /\ Short \in Nat /\ Long \in Nat /\ Short < Long
    /\ \A c \in Conn : \A s \in Streams(c) :
          s \in Seq(Frame) /\ \A j \in DOMAIN s : s[j].op \in Data \/ s[j].masked

ST_FLAGS == 0
ST_LEN0 == 1
ST_LEN1 == 2
ST_LEN2 == 3
ST_LEN8 == 9
ST_MASK1 == 10
ST_MASK4 == 13
ST_PAYLOAD == 14

VARIABLES
    conn,    \* connection -> [state, frames, read, priv, client, got, notif]
    ll,      \* the linked list of websockets, from llStart
    cast     \* the broadcast: [at, lw, url, stale, due]

vars == <<conn, ll, cast>>

\* WebsockPriv, as memset leaves it.
Priv == [wsStatus |-> ST_FLAGS, op |-> "CONTINUE", fin |-> FALSE, ext |-> 0, masked |-> FALSE,
         len |-> 0, maskCtr |-> 0, frameCont |-> FALSE, closedHere |-> FALSE]

\* What the client makes of the bytes it gets: it has k of the n bytes of a frame.
\* The stream is broken, or is spoilt by what the server was told to send.
Decoder == [n |-> 0, k |-> 0, stream |-> "whole"]

\* state is "done" from the end of the websocket to the end of its socket;
\* notif: something was sent, and the sent callback is to come; it is kept for
\* a websocket that is done, of an open one it may be to come or not at any time.
\* got: what the application was given.
Closed == [state |-> "closed", frames |-> <<>>, read |-> 0, priv |-> Priv, client |-> Decoder,
           got |-> <<>>, notif |-> FALSE]

Urls == {Url(c) : c \in Conn}

\* due: a history, who should still get it.
Idle == [at |-> "idle", lw |-> None, url |-> CHOOSE u \in Urls : TRUE, stale |-> FALSE, due |-> {}]

Init ==
    /\ conn = [c \in Conn |-> Closed]
    /\ ll = <<>>
    /\ cast = Idle
-----------------------------------------------------------------------------
(* The bytes of a stream of frames: what they stand for, b, the frame f,   *)
(* its number j in the stream and the place k among its like.              *)

ExtBytes(n) == IF n <= Short THEN 0 ELSE IF n <= Long THEN 2 ELSE 8

Part(f, j, b, n) == [k \in 1 .. n |-> [b |-> b, f |-> f, j |-> j, k |-> k]]

FrameBytes(f, j) ==
    Part(f, j, "flags", 1) \o Part(f, j, "len", 1) \o Part(f, j, "ext", ExtBytes(f.n))
        \o Part(f, j, "mask", IF f.masked THEN 4 ELSE 0) \o Part(f, j, "data", f.n)

Bytes == [frames \in (UNION {Streams(c) : c \in Conn}) \cup {<<>>} |->
            FlattenSeq([j \in DOMAIN frames |-> FrameBytes(frames[j], j)])]
-----------------------------------------------------------------------------
(* Sending.                                                                *)

InPong(c) == c.priv.wsStatus = ST_PAYLOAD /\ c.priv.op = "PING" /\ c.priv.frameCont

Broken(client, bad) ==
    IF bad /\ client.stream = "whole" THEN [client EXCEPT !.stream = "broken"] ELSE client

\* A head that the client finds in the middle of a frame breaks the stream.
sendFrameHead(c, n) ==
    [c EXCEPT !.client = [Broken(@, @.k < @.n) EXCEPT !.n = n, !.k = 0], !.notif = TRUE]

\* The payload of a PONG: it is right if these are the bytes of the PING, in
\* their order and unmasked.
SendPayload(c, bytes) ==
    LET wrong == \E x \in DOMAIN bytes : ~bytes[x].clear \/ bytes[x].k # c.client.k + x
        client == Broken(c.client, wrong)
    IN  [c EXCEPT !.client = [client EXCEPT !.k = @ + Len(bytes)]]

\* A frame, into what may be the middle of a PONG.  httpdSend refuses a payload that
\* does not fit behind what is in the send buffer, and then the head goes out alone.
cgiWebsocketSend(c, fits) ==
    LET spoilt == IF InPong(c) \/ ~fits THEN [c EXCEPT !.client.stream = "spoilt"] ELSE c
    IN  [spoilt EXCEPT !.client = [Broken(@, @.k < @.n) EXCEPT !.n = 0, !.k = 0], !.notif = TRUE]

\* Its two bytes fit, as a PONG does: the answers are shorter than the frames of a
\* receive, which fill a buffer of the same size at most.
cgiWebsocketClose(c) == [cgiWebsocketSend(c, TRUE) EXCEPT !.priv.closedHere = TRUE]
-----------------------------------------------------------------------------
(* cgiWebSocketRecv.  A world is the connection c, the result r, and skip, *)
(* by how much i has moved on.                                             *)

AfterLength(masked) == IF masked THEN ST_MASK1 ELSE ST_PAYLOAD

\* A byte that is not what the state takes it for has some value or other.
HeaderByte(p, d) ==
    CASE p.wsStatus = ST_FLAGS ->
            [p EXCEPT !.maskCtr = 0, !.frameCont = FALSE, !.wsStatus = ST_LEN0,
                      !.op = IF d.b = "flags" THEN d.f.op ELSE "PONG", !.fin = d.f.fin]
      [] p.wsStatus = ST_LEN0 ->
            IF ExtBytes(d.f.n) > 0
            THEN [p EXCEPT !.ext = ExtBytes(d.f.n), !.masked = d.f.masked, !.len = 0,
                           !.wsStatus = ST_LEN1]
            ELSE [p EXCEPT !.ext = 0, !.masked = d.f.masked, !.len = d.f.n,
                           !.wsStatus = AfterLength(d.f.masked)]
      [] p.wsStatus \in ST_LEN1 .. ST_LEN8 ->
            [p EXCEPT !.len = @ * 256 + (IF d.k = ExtBytes(d.f.n) THEN d.f.n ELSE 0),
                      !.wsStatus = IF (p.ext = 2 /\ @ = ST_LEN2) \/ @ = ST_LEN8
                                   THEN AfterLength(p.masked) ELSE @ + 1]
      [] p.wsStatus \in ST_MASK1 .. ST_MASK4 -> [p EXCEPT !.wsStatus = @ + 1]

\* Byte k of a payload is masked with the byte (k - 1) % 4 of the mask.
Unmasked(p, data) ==
    [x \in DOMAIN data |-> [k |-> data[x].k, j |-> data[x].j,
                            clear |-> (data[x].k - 1) % 4 = (p.maskCtr + x - 1) % 4]]

\* What the application may do when it is given data: close the websocket, or send a
\* frame that does not fit; one that does changes nothing that is kept here.
Replies == {"none", "close", "tooLong"}

\* What the application's recvCb gets, byte by byte.
recvCb(c, bytes, reply) ==
    LET p == c.priv
        told == [c EXCEPT !.got = @ \o [x \in DOMAIN bytes |->
                    [byte |-> bytes[x], bin |-> p.op = "BINARY", cont |-> ~p.fin]]]
    IN  CASE reply = "close" /\ ~p.closedHere -> cgiWebsocketClose(told)
          [] reply = "tooLong"                 -> cgiWebsocketSend(told, FALSE)
          [] OTHER                             -> told

Done(w, c) == [w EXCEPT !.c = c, !.r = "DONE"]

\* The mask started anew in every fragment.
MaskRestarts(w, c, sl, header) ==
    LET left == w.c.priv.len - sl
    IN  [w EXCEPT !.c = [c EXCEPT !.priv.len = left, !.priv.maskCtr = 0,
                                  !.priv.wsStatus = IF left = 0 THEN ST_FLAGS ELSE @,
                                  !.priv.frameCont = left # 0],
                  !.skip = IF header THEN sl ELSE sl - 1]

\* Every fragment taken for the first of its frame.
ForgetsFrameCont(w, c, sl, header) ==
    LET left == w.c.priv.len - sl
    IN  [w EXCEPT !.c = [c EXCEPT !.priv.len = left, !.priv.maskCtr = (@ + sl) % 256,
                                  !.priv.wsStatus = IF left = 0 THEN ST_FLAGS ELSE @],
                  !.skip = IF header THEN sl ELSE sl - 1]

\* What there is of the payload has been dealt with.
NextPayload(w, c, sl, header) ==
    LET left == w.c.priv.len - sl
        priv == [c.priv EXCEPT !.len = left, !.maskCtr = (@ + sl) % 256,
                               !.wsStatus = IF left = 0 THEN ST_FLAGS ELSE @,
                               !.frameCont = @ \/ left # 0]
    IN  [w EXCEPT !.c = [c EXCEPT !.priv = priv],
                  !.skip = IF header THEN sl ELSE sl - 1]

\* The payload from data[i] on, as much as is there; header: the byte before
\* it, the last one of the header, is the one the loop is at.
Payload(w, i, data, header, reply) ==
    LET p == w.c.priv
        rest == Len(data) - i + 1
        sl == IF rest > p.len THEN p.len ELSE rest
        bytes == Unmasked(p, SubSeq(data, i, i + sl - 1))
    IN  CASE p.op = "PING" /\ p.len > Short ->
                Done(w, IF p.frameCont THEN w.c ELSE cgiWebsocketClose(w.c))
          [] p.op = "PING" /\ p.len <= Short ->
                LET head == IF p.frameCont THEN w.c ELSE sendFrameHead(w.c, p.len)
                IN  NextPayload(w, SendPayload(head, bytes), sl, header)
          [] p.op \in Data /\ ~p.masked -> Done(w, cgiWebsocketClose(w.c))
          [] p.op \in Data /\ p.masked -> NextPayload(w, recvCb(w.c, bytes, reply), sl, header)
          [] p.op = "CLOSE" -> Done(w, IF p.closedHere THEN w.c ELSE cgiWebsocketClose(w.c))
          [] OTHER -> NextPayload(w, w.c, sl, header)

\* One round of the loop.
Byte(w, i, data, reply) ==
    IF w.r = "DONE" \/ w.skip > 0 THEN [w EXCEPT !.skip = IF @ > 0 THEN @ - 1 ELSE 0]
    ELSE LET header == w.c.priv.wsStatus # ST_PAYLOAD
             v == IF header THEN [w EXCEPT !.c.priv = HeaderByte(@, data[i])] ELSE w
         IN  IF v.c.priv.wsStatus # ST_PAYLOAD THEN v
             ELSE Payload(v, IF header THEN i + 1 ELSE i, data, header, reply)

cgiWebSocketRecv(c, data, reply) ==
    LET w[i \in 0 .. Len(data)] ==
          IF i = 0 THEN [c |-> [c EXCEPT !.read = @ + Len(data)], r |-> "MORE", skip |-> 0]
          ELSE Byte(w[i - 1], i, data, reply)
    IN  w[Len(data)]
-----------------------------------------------------------------------------
(* The callbacks of the server.                                            *)

Freed(S) == cast' = [cast EXCEPT !.due = @ \ S, !.stale = @ \/ cast.lw \in S]

\* The rest of the list lost with the websocket.
UnlinkCutsTail(c) ==
    /\ ll' = IF Head(ll) = c THEN Tail(ll)
             ELSE SubSeq(ll, 1, SelectInSeq(ll, LAMBDA x : x = c) - 1)
    /\ Freed({c})

\* Freed under the feet of a broadcast that is at it, perhaps.
websockFree(c) ==
    /\ ll' = RemoveFirst(ll, c)
    /\ Freed({c})

\* The first call of the CGI: the handshake is answered, the websocket linked in.
cgiWebsocket(c) ==
    /\ conn[c].state = "closed"
    /\ \E s \in Streams(c) :
          conn' = [conn EXCEPT ![c] = [Closed EXCEPT !.state = "open", !.frames = s]]
    /\ ll' = Append(ll, c)
    /\ UNCHANGED cast

Open(c) == [c EXCEPT !.notif = FALSE]

\* The next bytes of the stream arrive, as many as the network likes.
Receive(c) ==
    /\ conn[c].state = "open"
    /\ \E n \in 1 .. Len(Bytes[conn[c].frames]) - conn[c].read, reply \in Replies :
          LET data == SubSeq(Bytes[conn[c].frames], conn[c].read + 1, conn[c].read + n)
              w == cgiWebSocketRecv(conn[c], data, reply)
          IN  IF w.r = "DONE"
              THEN /\ \E pending \in BOOLEAN :
                         conn' = [conn EXCEPT ![c] = [w.c EXCEPT !.state = "done", !.notif = @ \/ pending]]
                   /\ websockFree(c)
              ELSE conn' = [conn EXCEPT ![c] = Open(w.c)] /\ UNCHANGED <<ll, cast>>

\* The handler of received data stays after the websocket is freed, and finds NULL.
Restart ==
    /\ conn' = [c \in Conn |-> Closed]
    /\ ll' = <<>>
    /\ cast' = Idle

ReceiveDone(c) ==
    /\ conn[c].state = "done" /\ conn[c].read < Len(Bytes[conn[c].frames])
    /\ Restart

\* httpdSentCb: a connection that is done is closed, and only here.
Sent(c) ==
    /\ conn[c].state = "done" /\ conn[c].notif
    /\ conn' = [conn EXCEPT ![c] = Closed]
    /\ UNCHANGED <<ll, cast>>

\* The client's end of the connection: the CGI, unless it is done, cleans up.
Disconnect(c) ==
    /\ conn[c].state # "closed"
    /\ conn' = [conn EXCEPT ![c] = Closed]
    /\ IF conn[c].state = "open" THEN websockFree(c) ELSE UNCHANGED <<ll, cast>>
-----------------------------------------------------------------------------
(* cgiWebsockBroadcast.                                                    *)

\* The walk is at lw: it is over, or about to send, or to go on behind it.
At(walk, lw) ==
    CASE lw = None -> [Idle EXCEPT !.due = walk.due]
      [] lw # None /\ Url(lw) = walk.url -> [walk EXCEPT !.lw = lw, !.at = "send"]
      [] lw # None /\ Url(lw) # walk.url -> [walk EXCEPT !.lw = lw, !.at = "next"]

Broadcast ==
    /\ cast.at = "idle" /\ ll # <<>>
    /\ \E u \in Urls :
          cast' = At([Idle EXCEPT !.url = u, !.due = {c \in ToSet(ll) : Url(c) = u}], Head(ll))
    /\ UNCHANGED <<conn, ll>>

Walking(at) == cast.at = at /\ ~cast.stale

\* Under the lock, from httpdConnSendStart to httpdConnSendFinish.  Without memory for
\* a send buffer the last one is filled, sent and freed although it was freed before:
\* the frame may go out, damaged or not, or the chip crash.
SendOne ==
    /\ Walking("send")
    /\ \/ /\ \E intact \in BOOLEAN :
                conn' = [conn EXCEPT ![cast.lw] = Open(cgiWebsocketSend(@, intact))]
          /\ cast' = [cast EXCEPT !.at = "next", !.due = @ \ {cast.lw}]
          /\ UNCHANGED ll
       \/ Restart

Following(c) == LET x == SelectInSeq(ll, LAMBDA y : y = c)
                IN  IF x = Len(ll) THEN None ELSE ll[x + 1]

\* The end of the walk at the first websocket of another url.
StopAtOther ==
    /\ Walking("next")
    /\ cast' = IF Url(cast.lw) = cast.url /\ Following(cast.lw) # None
               THEN At(cast, Following(cast.lw)) ELSE At(cast, None)
    /\ UNCHANGED <<conn, ll>>

NextWebsocket ==
    /\ Walking("next")
    /\ cast' = At(cast, Following(cast.lw))
    /\ UNCHANGED <<conn, ll>>

\* The websocket the broadcast is at has been freed: what is read there is
\* undefined.  The walk may end, go on somewhere in the list, or crash.
Astray ==
    /\ cast.at # "idle" /\ cast.stale
    /\ \/ /\ \E lw \in ToSet(ll) \cup {None} :
                cast' = [At(cast, lw) EXCEPT !.stale = FALSE, !.due = {}]
          /\ UNCHANGED <<conn, ll>>
       \/ Restart

Next ==
    \/ \E c \in Conn : \/ cgiWebsocket(c) \/ Receive(c) \/ ReceiveDone(c)
                       \/ Sent(c) \/ Disconnect(c)
    \/ Broadcast \/ SendOne \/ NextWebsocket \/ Astray

Spec == Init /\ [][Next]_vars
-----------------------------------------------------------------------------
(* Properties.                                                             *)

TypeOK ==
    /\ \A c \in Conn : /\ conn[c].state \in {"closed", "open", "done"}
                       /\ conn[c].priv.wsStatus \in ST_FLAGS .. ST_PAYLOAD
                       /\ conn[c].priv.len \in Nat /\ conn[c].priv.maskCtr \in 0 .. 255
                       /\ conn[c].read \in 0 .. Len(Bytes[conn[c].frames])
    /\ cast.at \in {"idle", "send", "next"} /\ cast.lw \in Conn \cup {None}
    /\ cast.url \in Urls /\ cast.stale \in BOOLEAN /\ cast.due \subseteq Conn

\* The linked list holds the open websockets, each once and no other: neither
\* the end of a websocket in the middle of the list nor the crash of a
\* broadcast leaves a dead one in it or takes a live one out.
ListIsOpen == IsInjective(ll) /\ ToSet(ll) = {c \in Conn : conn[c].state = "open"}

\* The types of the parser and of the walk, and the list is the open websockets.
ListInv == TypeOK /\ ListIsOpen

\* Where the websocket ends in a stream: at a CLOSE, at data without a mask, at
\* a PING that is too long.
Ends(f) == f.op = "CLOSE" \/ (f.op \in Data /\ ~f.masked) \/ (f.op = "PING" /\ f.n > Short)

\* What is given to the application for the byte d of a stream: a byte of the payload
\* of a data frame, unmasked and with the flags of the frame, unless the websocket has
\* ended.
Handed(frames, got, d) ==
    IF d.b = "data" /\ d.f.op \in Data /\ \A j \in 1 .. d.j : ~Ends(frames[j])
    THEN Append(got, [byte |-> [k |-> d.k, j |-> d.j, clear |-> TRUE],
                      bin |-> d.f.op = "BINARY", cont |-> ~d.f.fin])
    ELSE got

\* What is given for the first bytes of a stream, for any number of them.
Content(frames) ==
    LET content[i \in 0 .. Len(Bytes[frames])] ==
          IF i = 0 THEN <<>> ELSE Handed(frames, content[i - 1], Bytes[frames][i])
    IN  content

\* The application gets the payload of the data frames, every byte unmasked and
\* with the flags of its frame, in order and none twice, in whatever fragments
\* the bytes of the stream arrive.
FragmentsInvisible == \A c \in Conn : conn[c].got = Content(conn[c].frames)[conn[c].read]

\* What cgiwebsocket.c hands to a connection is a sequence of whole frames, and a PONG
\* is its PING, in whatever fragments that came: no head comes in the middle of a
\* frame, and a payload ends with the frame it answers.  Not so after the server was
\* told to send a frame while a PING was half received, one that did not fit, or one
\* for which there was no memory.
FramesWhole ==
    \A c \in Conn : conn[c].client.stream # "spoilt" =>
        /\ conn[c].client.stream = "whole"
        /\ InPong(conn[c]) \/ conn[c].client.k = conn[c].client.n

\* A broadcast that ends has been sent to every websocket of its url that was
\* there when it began and is there still, however others came and went
\* meanwhile, unless the one it was at was freed.
BroadcastReachesAll == cast.at = "idle" => cast.due = {}
=============================================================================

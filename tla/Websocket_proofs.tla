-------------------------- MODULE Websocket_proofs --------------------------
(***************************************************************************)
(* Proofs about Websocket, for any number of connections, any streams of   *)
(* frames and whatever fragments they arrive in.                           *)
(*                                                                         *)
(* What cgiWebSocketRecv() does to a connection is a recursive function    *)
(* over the bytes of a fragment.  What is proved of it is proved by        *)
(* induction in the form of a least counterexample (Least): the function   *)
(* exists, for as many bytes as there are, and each round of the loop      *)
(* keeps the types.                                                        *)
(*                                                                         *)
(* That the fragments cannot be seen (the second half of the module) is    *)
(* proved of a round as well: the parser is where the bytes of the stream  *)
(* that it has taken put it (Parsed), the client has whole frames or the   *)
(* beginning of a PONG, and the application what these bytes stand for.    *)
(***************************************************************************)
EXTENDS Websocket, SequenceTheorems, WellFoundedInduction, TLAPS

Ops == Data \cup {"PING", "PONG", "CLOSE"}

Privs == [wsStatus : ST_FLAGS .. ST_PAYLOAD, op : Ops, fin : BOOLEAN, ext : Nat, masked : BOOLEAN,
          len : Nat, maskCtr : 0 .. 255, frameCont : BOOLEAN, closedHere : BOOLEAN]

Decoders == [n : Nat, k : Nat, stream : {"whole", "spoilt", "broken"}]

Given == [byte : [k : Nat, j : Nat, clear : BOOLEAN], bin : BOOLEAN, cont : BOOLEAN]

AllStreams == (UNION {Streams(c) : c \in Conn}) \cup {<<>>}

Connections ==
    [state : {"closed", "open", "done"}, frames : AllStreams, read : Nat, priv : Privs,
     client : Decoders, got : Seq(Given), notif : BOOLEAN]

StreamBytes == [b : {"flags", "len", "ext", "mask", "data"}, f : Frame, j : Nat, k : Nat]

Walks == [at : {"idle", "send", "next"}, lw : Conn \cup {None}, url : Urls, stale : BOOLEAN,
          due : SUBSET Conn]

Shapes ==
    /\ conn \in [Conn -> Connections]
    /\ \A c \in Conn : conn[c].read <= Len(Bytes[conn[c].frames])
    /\ ll \in Seq(Conn)
    /\ cast \in Walks

\* The websocket a broadcast is at is in the list unless it was freed, and those that
\* it has still to reach are behind it.
WalkInv ==
    /\ cast.at = "idle" => cast.lw = None /\ ~cast.stale /\ cast.due = {}
    /\ cast.at # "idle" => cast.lw \in Conn
    /\ cast.at # "idle" /\ ~cast.stale =>
          /\ cast.lw \in ToSet(ll)
          /\ cast.at = "send" => Url(cast.lw) = cast.url
          /\ \A c \in cast.due : c \in ToSet(ll) /\ Url(c) = cast.url
          /\ \A i, j \in 1 .. Len(ll) : ll[i] = cast.lw /\ ll[j] \in cast.due =>
                i < j \/ (i = j /\ cast.at = "send")

WebsocketInv == Shapes /\ ListIsOpen /\ WalkInv
-----------------------------------------------------------------------------
(* Induction.                                                              *)

\* A set of numbers has a least one: the form induction takes here.
LEMMA Least ==
    ASSUME NEW T, T \subseteq Nat, T # {}
    PROVE  \E x \in T : \A y \in T : x <= y
<1> DEFINE R == OpToRel(<, Nat)
<1>1. IsWellFoundedOn(R, Nat)
  BY NatLessThanWellFounded
<1>2. \A x, y \in Nat : <<y, x>> \in R <=> y < x
  BY DEF OpToRel
<1> HIDE DEF R
<1>3. PICK x \in T : \A y \in T : ~ (<<y, x>> \in R)
  BY <1>1, WFMin
<1>4. ASSUME NEW y \in T PROVE x <= y
  <2>1. x \in Nat /\ y \in Nat
    OBVIOUS
  <2>2. ~(y < x)
    BY <1>2, <1>3, <2>1, Zenon
  <2> QED BY <2>1, <2>2
<1> QED BY <1>3, <1>4
-----------------------------------------------------------------------------
(* Types.                                                                  *)

\* The parser's variables set to values of their types: by the first byte of a frame,
LEMMA FlagsTyped ==
    ASSUME NEW p \in Privs, NEW st \in ST_FLAGS .. ST_PAYLOAD, NEW op \in Ops, NEW fin \in BOOLEAN,
           NEW ctr \in 0 .. 255, NEW cont \in BOOLEAN
    PROVE  [p EXCEPT !.maskCtr = ctr, !.frameCont = cont, !.wsStatus = st, !.op = op, !.fin = fin] \in Privs
BY DEF Privs

\* by the first byte of a length,
LEMMA LengthTyped ==
    ASSUME NEW p \in Privs, NEW st \in ST_FLAGS .. ST_PAYLOAD, NEW ext \in Nat,
           NEW masked \in BOOLEAN, NEW len \in Nat
    PROVE  [p EXCEPT !.ext = ext, !.masked = masked, !.len = len, !.wsStatus = st] \in Privs
BY DEF Privs

\* by the other bytes of a header,
LEMMA HeaderTyped ==
    ASSUME NEW p \in Privs, NEW st \in ST_FLAGS .. ST_PAYLOAD, NEW len \in Nat
    PROVE  /\ [p EXCEPT !.len = len, !.wsStatus = st] \in Privs
           /\ [p EXCEPT !.wsStatus = st] \in Privs
BY DEF Privs

\* by a piece of a payload,
LEMMA PieceTyped ==
    ASSUME NEW p \in Privs, NEW st \in ST_FLAGS .. ST_PAYLOAD, NEW len \in Nat,
           NEW ctr \in 0 .. 255, NEW cont \in BOOLEAN
    PROVE  [p EXCEPT !.len = len, !.maskCtr = ctr, !.wsStatus = st, !.frameCont = cont] \in Privs
BY DEF Privs

\* and by a close.
LEMMA ClosedHereTyped ==
    ASSUME NEW p \in Privs, NEW closed \in BOOLEAN
    PROVE  [p EXCEPT !.closedHere = closed] \in Privs
BY DEF Privs

\* Every byte of a header, taken for what it is or not, keeps the parser's types:
\* the state stays within its range.
LEMMA HeaderByteTyped ==
    ASSUME NEW p \in Privs, p.wsStatus # ST_PAYLOAD, NEW d \in StreamBytes
    PROVE  HeaderByte(p, d) \in Privs
<1> USE DEF ST_FLAGS, ST_LEN0, ST_LEN1, ST_LEN2, ST_LEN8, ST_MASK1, ST_MASK4, ST_PAYLOAD
<1>1. d.f \in Frame /\ d.f.op \in Ops /\ d.f.n \in Nat /\ d.f.masked \in BOOLEAN /\ d.f.fin \in BOOLEAN
  BY DEF StreamBytes, Frame, Ops
<1>2. ExtBytes(d.f.n) \in Nat
  BY DEF ExtBytes
<1>3. AfterLength(d.f.masked) \in 0 .. 14 /\ AfterLength(p.masked) \in 0 .. 14
  BY DEF AfterLength
<1>4. CASE p.wsStatus = ST_FLAGS
  <2> DEFINE op == IF d.b = "flags" THEN d.f.op ELSE "PONG"
  <2>1. op \in Ops
    BY <1>1 DEF Ops
  <2>2. HeaderByte(p, d) = [p EXCEPT !.maskCtr = 0, !.frameCont = FALSE, !.wsStatus = ST_LEN0,
                                     !.op = op, !.fin = d.f.fin]
    BY <1>4 DEF HeaderByte
  <2>3. 0 \in 0 .. 255 /\ FALSE \in BOOLEAN /\ ST_LEN0 \in ST_FLAGS .. ST_PAYLOAD
    OBVIOUS
  <2> DEFINE fin == d.f.fin
  <2>4. fin \in BOOLEAN
    BY <1>1
  <2> HIDE DEF op, fin, ST_LEN0, ST_FLAGS, ST_PAYLOAD
  <2>5. [p EXCEPT !.maskCtr = 0, !.frameCont = FALSE, !.wsStatus = ST_LEN0, !.op = op, !.fin = fin] \in Privs
    BY <2>1, <2>3, <2>4, FlagsTyped
  <2> QED BY <2>2, <2>5 DEF op, fin
<1>5. CASE p.wsStatus = ST_LEN0
  <2>1. CASE ExtBytes(d.f.n) > 0
    <3>1. HeaderByte(p, d) = [p EXCEPT !.ext = ExtBytes(d.f.n), !.masked = d.f.masked, !.len = 0,
                                       !.wsStatus = ST_LEN1]
      BY <1>5, <2>1 DEF HeaderByte
    <3>2. 0 \in Nat /\ ST_LEN1 \in ST_FLAGS .. ST_PAYLOAD
      OBVIOUS
    <3> DEFINE m == d.f.masked
               ext == ExtBytes(d.f.n)
    <3>3. m \in BOOLEAN /\ ext \in Nat
      BY <1>1, <1>2
    <3> HIDE DEF ST_LEN1, ST_FLAGS, ST_PAYLOAD, m, ext
    <3>4. [p EXCEPT !.ext = ext, !.masked = m, !.len = 0, !.wsStatus = ST_LEN1] \in Privs
      BY <3>2, <3>3, LengthTyped
    <3> QED BY <3>1, <3>4 DEF m, ext
  <2>2. CASE ~(ExtBytes(d.f.n) > 0)
    <3>1. HeaderByte(p, d) = [p EXCEPT !.ext = 0, !.masked = d.f.masked, !.len = d.f.n,
                                       !.wsStatus = AfterLength(d.f.masked)]
      BY <1>5, <2>2 DEF HeaderByte
    <3>2. 0 \in Nat /\ AfterLength(d.f.masked) \in ST_FLAGS .. ST_PAYLOAD
      BY <1>3
    <3> DEFINE m == d.f.masked
               n == d.f.n
               st == AfterLength(d.f.masked)
    <3>3. m \in BOOLEAN /\ n \in Nat
      BY <1>1
    <3> HIDE DEF ST_FLAGS, ST_PAYLOAD, m, n, st
    <3>4. [p EXCEPT !.ext = 0, !.masked = m, !.len = n, !.wsStatus = st] \in Privs
      BY <3>2, <3>3, LengthTyped DEF st
    <3> QED BY <3>1, <3>4 DEF m, n, st
  <2> QED BY <2>1, <2>2
<1>6. CASE p.wsStatus \in ST_LEN1 .. ST_LEN8
  <2> DEFINE n == p.len * 256 + (IF d.k = ExtBytes(d.f.n) THEN d.f.n ELSE 0)
             st == IF (p.ext = 2 /\ p.wsStatus = ST_LEN2) \/ p.wsStatus = ST_LEN8
                   THEN AfterLength(p.masked) ELSE p.wsStatus + 1
  <2>1. n \in Nat
    <3>1. p.len \in Nat
      BY DEF Privs
    <3> QED BY <1>1, <3>1
  <2>2. st \in ST_FLAGS .. ST_PAYLOAD
    BY <1>3, <1>6
  <2>3. HeaderByte(p, d) = [p EXCEPT !.len = n, !.wsStatus = st]
    BY <1>6 DEF HeaderByte
  <2> HIDE DEF n, st, ST_FLAGS, ST_PAYLOAD
  <2> QED BY <2>1, <2>2, <2>3, HeaderTyped, Zenon
<1>7. CASE p.wsStatus \in ST_MASK1 .. ST_MASK4
  <2>1. HeaderByte(p, d) = [p EXCEPT !.wsStatus = p.wsStatus + 1]
    BY <1>7 DEF HeaderByte
  <2>2. p.wsStatus + 1 \in ST_FLAGS .. ST_PAYLOAD /\ 0 \in Nat
    BY <1>7
  <2> HIDE DEF ST_FLAGS, ST_PAYLOAD
  <2> QED BY <2>1, <2>2, HeaderTyped, Zenon
<1> QED BY <1>4, <1>5, <1>6, <1>7 DEF Privs

\* The connection is the same but for its parser, its client and its application.
Same(c, d) == /\ d \in Connections
              /\ d.state = c.state /\ d.frames = c.frames /\ d.read = c.read

\* Everything that is sent keeps the types, and the parser but for closedHere.
LEMMA SendingTyped ==
    ASSUME NEW c \in Connections, NEW n \in Nat, NEW bytes, Len(bytes) \in Nat
    PROVE  /\ Same(c, sendFrameHead(c, n)) /\ sendFrameHead(c, n).priv = c.priv
           /\ Same(c, SendPayload(c, bytes)) /\ SendPayload(c, bytes).priv = c.priv
           /\ \A fits \in BOOLEAN : /\ Same(c, cgiWebsocketSend(c, fits))
                                   /\ cgiWebsocketSend(c, fits).priv = c.priv
           /\ Same(c, cgiWebsocketClose(c))
           /\ cgiWebsocketClose(c).priv = [c.priv EXCEPT !.closedHere = TRUE]
<1>1. c.client \in Decoders /\ c.priv \in Privs
  BY DEF Connections
<1>2. \A bad : \A client \in Decoders : Broken(client, bad) \in Decoders /\ Broken(client, bad).k = client.k
  BY DEF Broken, Decoders
<1>3. Same(c, sendFrameHead(c, n)) /\ sendFrameHead(c, n).priv = c.priv
  <2> DEFINE client == [Broken(c.client, c.client.k < c.client.n) EXCEPT !.n = n, !.k = 0]
  <2>1. client \in Decoders
    BY <1>1, <1>2 DEF Decoders
  <2>2. sendFrameHead(c, n) = [c EXCEPT !.client = client, !.notif = TRUE]
    BY DEF sendFrameHead
  <2> HIDE DEF client
  <2> QED BY <2>1, <2>2 DEF Same, Connections
<1>4. Same(c, SendPayload(c, bytes)) /\ SendPayload(c, bytes).priv = c.priv
  <2> DEFINE wrong == \E x \in DOMAIN bytes : ~bytes[x].clear \/ bytes[x].k # c.client.k + x
             was == Broken(c.client, wrong)
             client == [was EXCEPT !.k = was.k + Len(bytes)]
  <2>1. was \in Decoders
    BY <1>1, <1>2
  <2>2. client \in Decoders
    <3> HIDE DEF was
    <3> QED BY <2>1 DEF Decoders
  <2>3. SendPayload(c, bytes) = [c EXCEPT !.client = client]
    BY DEF SendPayload
  <2> HIDE DEF client
  <2> QED BY <2>2, <2>3 DEF Same, Connections
<1>5. ASSUME NEW fits \in BOOLEAN
      PROVE  Same(c, cgiWebsocketSend(c, fits)) /\ cgiWebsocketSend(c, fits).priv = c.priv
  <2> DEFINE spoilt == IF InPong(c) \/ ~fits THEN [c EXCEPT !.client.stream = "spoilt"] ELSE c
             client == [Broken(spoilt.client, spoilt.client.k < spoilt.client.n) EXCEPT !.n = 0, !.k = 0]
  <2>1. spoilt \in Connections /\ Same(c, spoilt) /\ spoilt.priv = c.priv
    BY <1>1 DEF Connections, Decoders, Same
  <2>2. cgiWebsocketSend(c, fits) = [spoilt EXCEPT !.client = client, !.notif = TRUE]
    BY DEF cgiWebsocketSend
  <2> HIDE DEF spoilt
  <2>3. client \in Decoders
    <3>1. spoilt.client \in Decoders
      BY <2>1 DEF Connections
    <3> QED BY <1>2, <3>1 DEF Decoders
  <2> HIDE DEF client
  <2> QED BY <2>1, <2>2, <2>3 DEF Same, Connections
<1>6. /\ Same(c, cgiWebsocketClose(c))
      /\ cgiWebsocketClose(c).priv = [c.priv EXCEPT !.closedHere = TRUE]
  <2> DEFINE sent == cgiWebsocketSend(c, TRUE)
  <2>1. cgiWebsocketClose(c) = [sent EXCEPT !.priv.closedHere = TRUE]
    BY DEF cgiWebsocketClose
  <2>2. Same(c, sent) /\ sent.priv = c.priv
    BY <1>5
  <2> DEFINE priv == [c.priv EXCEPT !.closedHere = TRUE]
  <2>3. priv \in Privs
    BY <1>1, ClosedHereTyped
  <2> HIDE DEF sent
  <2>4. cgiWebsocketClose(c) = [sent EXCEPT !.priv = priv]
    BY <2>1, <2>2
  <2> HIDE DEF priv
  <2>5. Same(c, cgiWebsocketClose(c)) /\ cgiWebsocketClose(c).priv = priv
    BY <2>2, <2>3, <2>4 DEF Same, Connections
  <2> QED BY <2>5 DEF priv
<1> QED BY <1>3, <1>4, <1>5, <1>6

\* The application's callback keeps the types.
LEMMA RecvCbTyped ==
    ASSUME NEW c \in Connections, NEW data \in Seq(StreamBytes), NEW reply \in Replies
    PROVE  LET bytes == Unmasked(c.priv, data)
           IN  Len(bytes) \in Nat /\ Same(c, recvCb(c, bytes, reply))
<1> DEFINE bytes == Unmasked(c.priv, data)
           given == [x \in DOMAIN bytes |-> [byte |-> bytes[x], bin |-> c.priv.op = "BINARY", cont |-> ~c.priv.fin]]
           told == [c EXCEPT !.got = c.got \o given]
<1>1. c.priv \in Privs /\ c.got \in Seq(Given) /\ c.priv.fin \in BOOLEAN
  <2>1. c.priv \in Privs /\ c.got \in Seq(Given)
    BY DEF Connections
  <2> QED BY <2>1 DEF Privs
<1>2. DOMAIN data = 1 .. Len(data) /\ Len(data) \in Nat
  BY LenProperties
<1>3. /\ bytes \in Seq([k : Nat, j : Nat, clear : BOOLEAN])
      /\ DOMAIN bytes = 1 .. Len(data) /\ Len(bytes) = Len(data)
  <2> DEFINE byte(x) == [k |-> data[x].k, j |-> data[x].j,
                         clear |-> (data[x].k - 1) % 4 = (c.priv.maskCtr + x - 1) % 4]
  <2>1. ASSUME NEW x \in 1 .. Len(data) PROVE byte(x) \in [k : Nat, j : Nat, clear : BOOLEAN]
    <3>1. data[x] \in StreamBytes
      BY ElementOfSeq
    <3> QED BY <3>1 DEF StreamBytes
  <2>2. bytes = [x \in 1 .. Len(data) |-> byte(x)]
    BY <1>2 DEF Unmasked
  <2> HIDE DEF byte, bytes
  <2> QED BY <1>2, <2>1, <2>2
<1>4. given \in Seq(Given)
  <2> DEFINE given1(x) == [byte |-> bytes[x], bin |-> c.priv.op = "BINARY", cont |-> ~c.priv.fin]
  <2> HIDE DEF bytes
  <2>1. ASSUME NEW x \in 1 .. Len(data) PROVE given1(x) \in Given
    <3>1. bytes[x] \in [k : Nat, j : Nat, clear : BOOLEAN]
      BY <1>3, ElementOfSeq
    <3> QED BY <1>1, <3>1 DEF Given
  <2>2. given = [x \in 1 .. Len(data) |-> given1(x)]
    BY <1>3
  <2> HIDE DEF given1, given
  <2> QED BY <1>2, <2>1, <2>2
<1>5. Same(c, told) /\ told.priv = c.priv /\ told \in Connections
  <2> DEFINE got == c.got \o given
  <2>1. got \in Seq(Given)
    <3> HIDE DEF given
    <3> QED BY <1>1, <1>4, ConcatProperties
  <2> HIDE DEF got
  <2>2. told = [c EXCEPT !.got = got]
    BY DEF got
  <2> QED BY <2>1, <2>2 DEF Same, Connections
<1>6. /\ reply = "close" /\ ~c.priv.closedHere => recvCb(c, bytes, reply) = cgiWebsocketClose(told)
      /\ reply = "tooLong" => recvCb(c, bytes, reply) = cgiWebsocketSend(told, FALSE)
      /\ ~(reply = "close" /\ ~c.priv.closedHere) /\ reply # "tooLong" => recvCb(c, bytes, reply) = told
  BY DEF recvCb
<1> HIDE DEF told, bytes
<1>7. CASE reply = "close" /\ ~c.priv.closedHere
  <2>1. Same(told, cgiWebsocketClose(told)) /\ cgiWebsocketClose(told).priv = [told.priv EXCEPT !.closedHere = TRUE]
    BY <1>5, <1>2, <1>3, SendingTyped
  <2> QED BY <1>2, <1>3, <1>5, <1>6, <1>7, <2>1 DEF Same, bytes
<1>8. CASE reply = "tooLong"
  <2>1. Same(told, cgiWebsocketSend(told, FALSE))
    BY <1>5, <1>2, <1>3, SendingTyped
  <2> QED BY <1>2, <1>3, <1>5, <1>6, <1>8, <2>1 DEF Same, bytes
<1>9. CASE ~(reply = "close" /\ ~c.priv.closedHere) /\ reply # "tooLong"
  BY <1>2, <1>3, <1>5, <1>6, <1>9 DEF bytes
<1> QED BY <1>7, <1>8, <1>9

\* A round of the loop of cgiWebSocketRecv() over the bytes of c0.
Worlds(c0) == {w \in [c : Connections, r : {"MORE", "DONE"}, skip : Int] : Same(c0, w.c)}

\* A piece of a payload taken off its length leaves no less than nothing of it.
LEMMA NextPayloadTyped ==
    ASSUME NEW c0, NEW w \in Worlds(c0), NEW c, Same(w.c, c),
           NEW sl \in 0 .. w.c.priv.len, NEW header \in BOOLEAN
    PROVE  NextPayload(w, c, sl, header) \in Worlds(c0)
<1> DEFINE left == w.c.priv.len - sl
           ctr == (c.priv.maskCtr + sl) % 256
           st == IF left = 0 THEN ST_FLAGS ELSE c.priv.wsStatus
           cont == c.priv.frameCont \/ left # 0
           priv == [c.priv EXCEPT !.len = left, !.maskCtr = ctr, !.wsStatus = st, !.frameCont = cont]
           skip == IF header THEN sl ELSE sl - 1
<1>1. /\ c \in Connections /\ c.priv \in Privs /\ c.priv.maskCtr \in Nat /\ c.priv.frameCont \in BOOLEAN
      /\ c.priv.wsStatus \in ST_FLAGS .. ST_PAYLOAD
      /\ w.c \in Connections /\ w.c.priv.len \in Nat
  <2>1. c \in Connections /\ w.c \in Connections
    BY DEF Same, Worlds
  <2>2. c.priv \in Privs /\ w.c.priv \in Privs
    BY <2>1 DEF Connections
  <2> QED BY <2>1, <2>2 DEF Privs
<1>2. /\ left \in Nat /\ ctr \in 0 .. 255 /\ cont \in BOOLEAN /\ skip \in Int
      /\ st \in ST_FLAGS .. ST_PAYLOAD
  BY <1>1 DEF ST_FLAGS, ST_PAYLOAD
<1>3. NextPayload(w, c, sl, header) = [w EXCEPT !.c = [c EXCEPT !.priv = priv], !.skip = skip]
  BY <1>1 DEF NextPayload
<1> HIDE DEF left, ctr, st, cont, skip
<1>4. priv \in Privs
  BY <1>1, <1>2, PieceTyped
<1> HIDE DEF priv
<1>5. Same(c, [c EXCEPT !.priv = priv])
  BY <1>1, <1>4 DEF Same, Connections
<1>6. [c EXCEPT !.priv = priv] \in Connections /\ Same(c0, [c EXCEPT !.priv = priv])
  BY <1>5 DEF Same, Worlds
<1> QED BY <1>2, <1>3, <1>6 DEF Worlds

\* A fragment that ends the websocket ends the loop, whatever was sent for it.
LEMMA DoneTyped ==
    ASSUME NEW c0, NEW w \in Worlds(c0), NEW c, Same(w.c, c)
    PROVE  Done(w, c) \in Worlds(c0)
<1>1. c \in Connections /\ Same(c0, c)
  BY DEF Worlds, Same
<1> QED BY <1>1 DEF Done, Worlds

\* The payload there is in a fragment, none included when the header ends with it,
\* is dealt with in the types.
LEMMA PayloadTyped ==
    ASSUME NEW c0, NEW w \in Worlds(c0), NEW data \in Seq(StreamBytes),
           NEW i \in 1 .. Len(data) + 1, NEW header \in BOOLEAN, NEW reply \in Replies
    PROVE  Payload(w, i, data, header, reply) \in Worlds(c0)
<1> DEFINE p == w.c.priv
           rest == Len(data) - i + 1
           sl == IF rest > p.len THEN p.len ELSE rest
           piece == SubSeq(data, i, i + sl - 1)
           bytes == Unmasked(p, piece)
<1>1. w.c \in Connections /\ p.len \in Nat /\ Len(data) \in Nat
  <2>1. w.c \in Connections /\ Len(data) \in Nat
    BY LenProperties DEF Worlds
  <2>2. p \in Privs
    BY <2>1 DEF Connections
  <2> QED BY <2>1, <2>2 DEF Privs
<1>2. rest \in Nat /\ sl \in 0 .. p.len /\ i + sl - 1 <= Len(data)
  BY <1>1
<1>3. piece \in Seq(StreamBytes)
  <2>1. \A k \in i .. i + sl - 1 : data[k] \in StreamBytes
    BY <1>1, <1>2, ElementOfSeq
  <2> HIDE DEF sl
  <2> QED BY <1>1, <1>2, <2>1, SubSeqProperties
<1>4. Same(w.c, w.c)
  BY <1>1 DEF Same
<1>5. Same(w.c, cgiWebsocketClose(w.c))
  BY <1>1, SendingTyped, EmptySeq
<1> HIDE DEF sl, piece
<1>6. /\ Len(bytes) \in Nat
      /\ Same(w.c, recvCb(w.c, bytes, reply))
  BY <1>1, <1>3, RecvCbTyped
<1>7. Payload(w, i, data, header, reply) =
        CASE p.op = "PING" /\ p.len > Short ->
                Done(w, IF p.frameCont THEN w.c ELSE cgiWebsocketClose(w.c))
          [] p.op = "PING" /\ p.len <= Short ->
                NextPayload(w, SendPayload(IF p.frameCont THEN w.c ELSE sendFrameHead(w.c, p.len), bytes), sl, header)
          [] p.op \in Data /\ ~p.masked -> Done(w, cgiWebsocketClose(w.c))
          [] p.op \in Data /\ p.masked -> NextPayload(w, recvCb(w.c, bytes, reply), sl, header)
          [] p.op = "CLOSE" -> Done(w, IF p.closedHere THEN w.c ELSE cgiWebsocketClose(w.c))
          [] OTHER -> NextPayload(w, w.c, sl, header)
  BY DEF Payload, sl, piece
<1> DEFINE head == IF p.frameCont THEN w.c ELSE sendFrameHead(w.c, p.len)
<1>8. Same(w.c, SendPayload(head, bytes))
  <2>1. head \in Connections /\ Same(w.c, head)
    <3>1. Same(w.c, sendFrameHead(w.c, p.len))
      BY <1>1, <1>6, SendingTyped
    <3> QED BY <1>1, <1>4, <3>1 DEF Same
  <2> HIDE DEF head
  <2>2. Same(head, SendPayload(head, bytes))
    BY <1>1, <1>6, <2>1, SendingTyped
  <2> QED BY <2>1, <2>2 DEF Same
<1> HIDE DEF bytes, head
<1>9. CASE p.op = "PING" /\ p.len > Short
  <2>1. Payload(w, i, data, header, reply) = Done(w, IF p.frameCont THEN w.c ELSE cgiWebsocketClose(w.c))
    BY <1>1, <1>7, <1>9, WebsocketAssumption DEF Data
  <2> QED BY <1>4, <1>5, <2>1, DoneTyped
<1>10. CASE p.op = "PING" /\ ~(p.len > Short)
  <2>1. Payload(w, i, data, header, reply) = NextPayload(w, SendPayload(head, bytes), sl, header)
    BY <1>1, <1>7, <1>10, WebsocketAssumption DEF head, Data
  <2> QED BY <1>2, <1>8, <2>1, NextPayloadTyped
<1>11. CASE p.op \in Data /\ ~p.masked
  <2>1. Payload(w, i, data, header, reply) = Done(w, cgiWebsocketClose(w.c))
    BY <1>7, <1>11 DEF Data
  <2> QED BY <1>5, <2>1, DoneTyped
<1>12. CASE p.op \in Data /\ p.masked
  <2>1. Payload(w, i, data, header, reply) = NextPayload(w, recvCb(w.c, bytes, reply), sl, header)
    BY <1>7, <1>12 DEF Data
  <2> QED BY <1>2, <1>6, <2>1, NextPayloadTyped
<1>13. CASE p.op = "CLOSE"
  <2>1. Payload(w, i, data, header, reply) = Done(w, IF p.closedHere THEN w.c ELSE cgiWebsocketClose(w.c))
    BY <1>7, <1>13 DEF Data
  <2> QED BY <1>4, <1>5, <2>1, DoneTyped
<1>14. CASE p.op \notin Data /\ p.op # "PING" /\ p.op # "CLOSE"
  <2>1. Payload(w, i, data, header, reply) = NextPayload(w, w.c, sl, header)
    BY <1>7, <1>14
  <2> QED BY <1>2, <1>4, <2>1, NextPayloadTyped
<1> QED BY <1>9, <1>10, <1>11, <1>12, <1>13, <1>14

\* A round of the loop keeps the types: it skips what is dealt with, takes a byte of a
\* header, or deals with a payload.
LEMMA ByteTyped ==
    ASSUME NEW c0, NEW w \in Worlds(c0), NEW data \in Seq(StreamBytes),
           NEW i \in 1 .. Len(data), NEW reply \in Replies
    PROVE  Byte(w, i, data, reply) \in Worlds(c0)
<1> DEFINE header == w.c.priv.wsStatus # ST_PAYLOAD
           v == IF header THEN [w EXCEPT !.c.priv = HeaderByte(w.c.priv, data[i])] ELSE w
<1>1. w.skip \in Int /\ w.c \in Connections /\ w.c.priv \in Privs /\ data[i] \in StreamBytes /\ Len(data) \in Nat
  BY ElementOfSeq, LenProperties DEF Worlds, Connections
<1>2. CASE w.r = "DONE" \/ w.skip > 0
  <2>1. Byte(w, i, data, reply) = [w EXCEPT !.skip = IF w.skip > 0 THEN w.skip - 1 ELSE 0]
    BY <1>2 DEF Byte
  <2>2. (IF w.skip > 0 THEN w.skip - 1 ELSE 0) \in Int
    BY <1>1
  <2> QED BY <2>1, <2>2 DEF Worlds
<1>3. CASE ~(w.r = "DONE" \/ w.skip > 0)
  <2>1. v \in Worlds(c0)
    <3>1. CASE header
      <4> DEFINE priv == HeaderByte(w.c.priv, data[i])
                 c == [w.c EXCEPT !.priv = priv]
      <4>1. priv \in Privs
        BY <1>1, <3>1, HeaderByteTyped
      <4>2. v = [w EXCEPT !.c = c]
        BY <3>1 DEF Worlds
      <4> HIDE DEF priv
      <4>3. Same(w.c, c)
        BY <1>1, <4>1 DEF Same, Connections
      <4> HIDE DEF c
      <4> QED BY <1>1, <4>2, <4>3 DEF Same, Worlds
    <3>2. CASE ~header
      BY <3>2
    <3> QED BY <3>1, <3>2
  <2>2. CASE v.c.priv.wsStatus # ST_PAYLOAD
    BY <1>3, <2>1, <2>2 DEF Byte
  <2>3. CASE ~(v.c.priv.wsStatus # ST_PAYLOAD)
    <3> DEFINE next == IF header THEN i + 1 ELSE i
    <3>1. Byte(w, i, data, reply) = Payload(v, next, data, header, reply)
      BY <1>3, <2>3 DEF Byte
    <3>2. next \in 1 .. Len(data) + 1 /\ header \in BOOLEAN
      BY <1>1
    <3> HIDE DEF next, v, header
    <3> QED BY <2>1, <3>1, <3>2, PayloadTyped
  <2> QED BY <2>2, <2>3
<1> QED BY <1>2, <1>3

\* The rounds of the loop over a fragment, one behind the other.
Rounds(F, c, data, reply) ==
    /\ F[0] = [c |-> [c EXCEPT !.read = c.read + Len(data)], r |-> "MORE", skip |-> 0]
    /\ \A m \in 1 .. Len(data) : F[m] = Byte(F[m - 1], m, data, reply)

\* cgiWebSocketRecv() is where the last round of its loop leaves it.
LEMMA RecvRounds ==
    ASSUME NEW c \in Connections, NEW data \in Seq(StreamBytes), NEW reply \in Replies
    PROVE  \E F : Rounds(F, c, data, reply) /\ cgiWebSocketRecv(c, data, reply) = F[Len(data)]
<1> DEFINE n == Len(data)
           c0 == [c EXCEPT !.read = c.read + n]
           w0 == [c |-> c0, r |-> "MORE", skip |-> 0]
           Fits(f, m) == f = [i \in 0 .. m |-> IF i = 0 THEN w0 ELSE Byte(f[i - 1], i, data, reply)]
           Unfit == {m \in 0 .. n : ~ \E f : Fits(f, m)}
<1>1. n \in Nat
  BY LenProperties
<1>2. Unfit = {}
  <2> SUFFICES ASSUME Unfit # {} PROVE FALSE
    OBVIOUS
  <2>1. PICK m \in Unfit : \A k \in Unfit : m <= k
    <3>1. Unfit \subseteq Nat
      OBVIOUS
    <3> HIDE DEF Unfit
    <3> QED BY <3>1, Least
  <2> HIDE DEF w0, n
  <2>2. m # 0
    <3>1. Fits([i \in 0 .. 0 |-> w0], 0)
      OBVIOUS
    <3> QED BY <3>1
  <2>3. PICK f : Fits(f, m - 1)
    <3>1. m \in 0 .. n
      OBVIOUS
    <3>2. m - 1 \in 0 .. n /\ ~(m <= m - 1)
      BY <1>1, <2>2, <3>1
    <3>3. m - 1 \notin Unfit
      <4> HIDE DEF Unfit
      <4> QED BY <2>1, <3>2
    <3> QED BY <3>2, <3>3
  <2>4. Fits([i \in 0 .. m |-> IF i = m THEN Byte(f[m - 1], m, data, reply) ELSE f[i]], m)
    BY <1>1, <2>2, <2>3
  <2> QED BY <2>1, <2>4
<1>3. \E f : Fits(f, n)
  <2>1. n \in 0 .. n /\ n \notin Unfit
    BY <1>1, <1>2
  <2> QED BY <2>1, Zenon
<1> DEFINE F == CHOOSE f : Fits(f, n)
<1>4. Fits(F, n)
  BY <1>3
<1>5. cgiWebSocketRecv(c, data, reply) = F[n]
  BY DEF cgiWebSocketRecv
<1>6. \A m \in 0 .. n : F[m] = IF m = 0 THEN w0 ELSE Byte(F[m - 1], m, data, reply)
  BY <1>4
<1> HIDE DEF F
<1>7. Rounds(F, c, data, reply)
  <2>1. F[0] = w0
    BY <1>1, <1>6
  <2>2. \A m \in 1 .. n : F[m] = Byte(F[m - 1], m, data, reply)
    <3> HIDE DEF n, w0
    <3>1. \A m \in 1 .. n : m \in 0 .. n /\ m # 0
      BY <1>1
    <3> QED BY <1>6, <3>1
  <2> QED BY <2>1, <2>2 DEF Rounds
<1> QED BY <1>5, <1>7

\* Every round keeps the types.
LEMMA RoundsTyped ==
    ASSUME NEW c \in Connections, NEW data \in Seq(StreamBytes), NEW reply \in Replies,
           NEW F, Rounds(F, c, data, reply)
    PROVE  \A m \in 0 .. Len(data) : F[m] \in Worlds([c EXCEPT !.read = c.read + Len(data)])
<1> DEFINE n == Len(data)
           c0 == [c EXCEPT !.read = c.read + n]
           w0 == [c |-> c0, r |-> "MORE", skip |-> 0]
           Bad == {m \in 0 .. n : F[m] \notin Worlds(c0)}
<1>1. n \in Nat
  BY LenProperties
<1>2. F[0] = w0 /\ \A m \in 1 .. n : F[m] = Byte(F[m - 1], m, data, reply)
  BY DEF Rounds
<1>3. w0 \in Worlds(c0)
  <2>1. c0 \in Connections
    BY <1>1 DEF Connections
  <2> HIDE DEF c0
  <2> QED BY <2>1 DEF Worlds, Same
<1> HIDE DEF w0
<1>4. Bad = {}
  <2> HIDE DEF n, c0
  <2> SUFFICES ASSUME Bad # {} PROVE FALSE
    OBVIOUS
  <2>1. PICK m \in Bad : \A k \in Bad : m <= k
    <3>1. Bad \subseteq Nat
      OBVIOUS
    <3> HIDE DEF Bad
    <3> QED BY <3>1, Least
  <2>2. m # 0
    BY <1>1, <1>2, <1>3
  <2>3. m - 1 \in 0 .. n /\ F[m - 1] \in Worlds(c0) /\ m \in 1 .. n
    BY <1>1, <2>1, <2>2
  <2>4. m \in 1 .. Len(data)
    BY <2>3 DEF n
  <2>5. Byte(F[m - 1], m, data, reply) \in Worlds(c0)
    BY <2>3, <2>4, ByteTyped
  <2> QED BY <1>2, <2>3, <2>5
<1> QED BY <1>4

\* cgiWebSocketRecv() keeps the types, and reads the fragment and no more.
LEMMA RecvTyped ==
    ASSUME NEW c \in Connections, NEW data \in Seq(StreamBytes), NEW reply \in Replies
    PROVE  LET w == cgiWebSocketRecv(c, data, reply)
           IN  /\ w.c \in Connections /\ w.r \in {"MORE", "DONE"}
               /\ w.c.state = c.state /\ w.c.frames = c.frames /\ w.c.read = c.read + Len(data)
<1> DEFINE n == Len(data)
           c0 == [c EXCEPT !.read = c.read + n]
<1>1. PICK F : Rounds(F, c, data, reply) /\ cgiWebSocketRecv(c, data, reply) = F[n]
  BY RecvRounds
<1>2. F[n] \in Worlds(c0)
  <2>1. n \in 0 .. n
    BY LenProperties
  <2> QED BY <1>1, <2>1, RoundsTyped
<1>3. c0.state = c.state /\ c0.frames = c.frames /\ c0.read = c.read + Len(data)
  BY DEF Connections
<1> HIDE DEF n, c0
<1> QED BY <1>1, <1>2, <1>3 DEF Worlds, Same
-----------------------------------------------------------------------------
(* The bytes of a stream.                                                  *)

\* The bytes of a part of a frame.
LEMMA PartTyped ==
    ASSUME NEW f \in Frame, NEW j \in Nat, NEW b \in {"flags", "len", "ext", "mask", "data"}, NEW n \in Nat
    PROVE  Part(f, j, b, n) \in Seq(StreamBytes)
<1> DEFINE byte(k) == [b |-> b, f |-> f, j |-> j, k |-> k]
<1>1. \A k \in 1 .. n : byte(k) \in StreamBytes
  BY DEF StreamBytes
<1>2. Part(f, j, b, n) = [k \in 1 .. n |-> byte(k)]
  BY DEF Part
<1> HIDE DEF byte
<1> QED BY <1>1, <1>2

\* The bytes of a frame.
LEMMA FrameBytesTyped ==
    ASSUME NEW f \in Frame, NEW j \in Nat
    PROVE  FrameBytes(f, j) \in Seq(StreamBytes)
<1>1. f.n \in Nat /\ ExtBytes(f.n) \in Nat /\ (IF f.masked THEN 4 ELSE 0) \in Nat
  BY DEF Frame, ExtBytes
<1> DEFINE a == Part(f, j, "flags", 1)
           b == Part(f, j, "len", 1)
           c == Part(f, j, "ext", ExtBytes(f.n))
           d == Part(f, j, "mask", IF f.masked THEN 4 ELSE 0)
           e == Part(f, j, "data", f.n)
<1>2. /\ a \in Seq(StreamBytes) /\ b \in Seq(StreamBytes) /\ c \in Seq(StreamBytes)
      /\ d \in Seq(StreamBytes) /\ e \in Seq(StreamBytes)
  BY <1>1, PartTyped
<1>3. FrameBytes(f, j) = (((a \o b) \o c) \o d) \o e
  BY DEF FrameBytes
<1> HIDE DEF a, b, c, d, e
<1> QED BY <1>2, <1>3, ConcatProperties

\* The frames of a stream put behind one another, G[m] the first m of them.
Joined(G, frames) ==
    /\ G[0] = <<>>
    /\ \A m \in 1 .. Len(frames) : G[m] = G[m - 1] \o FrameBytes(frames[m], m)

\* A stream is a sequence of frames.
LEMMA FramesTyped ==
    ASSUME WebsocketAssumption, NEW frames \in AllStreams
    PROVE  /\ frames \in Seq(Frame) /\ DOMAIN frames = 1 .. Len(frames) /\ Len(frames) \in Nat
           /\ \A j \in 1 .. Len(frames) : frames[j] \in Frame /\ FrameBytes(frames[j], j) \in Seq(StreamBytes)
<1>1. frames \in Seq(Frame)
  <2>1. CASE frames = <<>>
    BY <2>1, EmptySeq
  <2>2. CASE frames # <<>>
    BY <2>2, Zenon DEF AllStreams, WebsocketAssumption
  <2> QED BY <2>1, <2>2
<1>2. DOMAIN frames = 1 .. Len(frames) /\ Len(frames) \in Nat
  BY <1>1, LenProperties
<1>3. ASSUME NEW j \in 1 .. Len(frames) PROVE frames[j] \in Frame /\ FrameBytes(frames[j], j) \in Seq(StreamBytes)
  <2>1. frames[j] \in Frame /\ j \in Nat
    BY <1>1, ElementOfSeq
  <2> QED BY <2>1, FrameBytesTyped
<1> QED BY <1>1, <1>2, <1>3

\* The bytes of a stream are its frames put behind one another, however many there are.
LEMMA BytesJoined ==
    ASSUME WebsocketAssumption, NEW frames \in AllStreams
    PROVE  \E G : Joined(G, frames) /\ Bytes[frames] = G[Len(frames)]
<1> DEFINE parts == [j \in DOMAIN frames |-> FrameBytes(frames[j], j)]
           n == Len(parts)
           Fits(f, m) == f = [i \in 1 .. m |-> IF i = 1 THEN parts[1] ELSE f[i - 1] \o parts[i]]
           Unfit == {m \in 1 .. n : ~ \E f : Fits(f, m)}
<1>1. frames \in Seq(Frame) /\ DOMAIN frames = 1 .. Len(frames) /\ Len(frames) \in Nat
  BY FramesTyped
<1>2. /\ parts \in Seq(Seq(StreamBytes)) /\ n \in Nat /\ DOMAIN parts = 1 .. n /\ n = Len(frames)
      /\ \A m \in 1 .. n : parts[m] = FrameBytes(frames[m], m)
  <2>1. parts \in Seq(Seq(StreamBytes)) /\ Len(parts) = Len(frames)
    BY <1>1, FramesTyped
  <2>2. \A m \in 1 .. Len(frames) : parts[m] = FrameBytes(frames[m], m)
    BY <1>1
  <2> HIDE DEF parts
  <2> QED BY <2>1, <2>2, LenProperties
<1> HIDE DEF parts
<1>3. Unfit = {}
  <2> SUFFICES ASSUME Unfit # {} PROVE FALSE
    OBVIOUS
  <2>1. PICK m \in Unfit : \A k \in Unfit : m <= k
    <3>1. Unfit \subseteq Nat
      <4>1. 1 .. n \subseteq Nat
        OBVIOUS
      <4>2. Unfit \subseteq 1 .. n
        BY Zenon
      <4> QED BY <4>1, <4>2, Zenon
    <3> HIDE DEF Unfit
    <3> QED BY <3>1, Least
  <2> HIDE DEF n
  <2>2. m \in 1 .. n
    OBVIOUS
  <2>3. m # 1
    <3>1. Fits([i \in 1 .. 1 |-> parts[1]], 1)
      OBVIOUS
    <3> QED BY <3>1
  <2>4. PICK f : Fits(f, m - 1)
    <3>1. m - 1 \in 1 .. n /\ ~(m <= m - 1)
      BY <1>2, <2>2, <2>3
    <3>2. m - 1 \notin Unfit
      <4> HIDE DEF Unfit
      <4> QED BY <2>1, <3>1
    <3> QED BY <3>1, <3>2
  <2> DEFINE g == [i \in 1 .. m |-> IF i = m THEN f[m - 1] \o parts[m] ELSE f[i]]
  <2>5. Fits(g, m)
    <3>1. m \in Nat /\ m > 1
      BY <1>2, <2>2, <2>3
    <3>2. ASSUME NEW i \in 1 .. m PROVE g[i] = IF i = 1 THEN parts[1] ELSE g[i - 1] \o parts[i]
      <4>1. CASE i = m
        <5>1. g[i - 1] = f[m - 1]
          BY <3>1, <4>1
        <5>2. g[i] = f[m - 1] \o parts[m]
          BY <4>1
        <5>3. i # 1
          BY <3>1, <4>1
        <5> HIDE DEF g
        <5> QED BY <4>1, <5>1, <5>2, <5>3
      <4>2. CASE i # m
        <5>1. i \in 1 .. m - 1 /\ g[i] = f[i]
          BY <3>1, <4>2
        <5>2. f[i] = IF i = 1 THEN parts[1] ELSE f[i - 1] \o parts[i]
          BY <2>4, <5>1
        <5>3. CASE i = 1
          BY <5>1, <5>2, <5>3
        <5>4. CASE i # 1
          <6>1. g[i - 1] = f[i - 1]
            BY <3>1, <5>1, <5>4
          <6> QED BY <5>1, <5>2, <5>4, <6>1
        <5> QED BY <5>3, <5>4
      <4> QED BY <4>1, <4>2
    <3>3. g = [i \in 1 .. m |-> g[i]]
      OBVIOUS
    <3> HIDE DEF g
    <3> QED BY <3>2, <3>3, Zenon
  <2> QED BY <2>1, <2>5
<1>4. CASE n = 0
  <2>1. Bytes[frames] = parts
    BY <1>4 DEF Bytes, FlattenSeq, AllStreams, parts
  <2>2. parts = <<>>
    BY <1>2, <1>4, EmptySeq
  <2> DEFINE G == [m \in 0 .. 0 |-> <<>>]
  <2>3. Joined(G, frames) /\ Bytes[frames] = G[Len(frames)]
    BY <1>2, <1>4, <2>1, <2>2 DEF Joined
  <2> QED BY <2>3
<1>5. CASE n # 0
  <2>1. n \in 1 .. n
    BY <1>2, <1>5
  <2> DEFINE F == CHOOSE f : Fits(f, n)
  <2>2. Fits(F, n)
    <3>1. n \notin Unfit
      BY <1>3
    <3>2. \E f : Fits(f, n)
      BY <2>1, <3>1, Zenon
    <3> QED BY <3>2
  <2>3. Bytes[frames] = F[n]
    <3>1. Bytes[frames] = FlattenSeq(parts)
      BY DEF Bytes, AllStreams, parts
    <3>2. FlattenSeq(parts) = F[Len(parts)]
      BY <1>5 DEF FlattenSeq
    <3> QED BY <3>1, <3>2
  <2>4. \A m \in 1 .. n : F[m] = IF m = 1 THEN parts[1] ELSE F[m - 1] \o parts[m]
    BY <2>2
  <2>5. \A m \in 1 .. n : parts[m] \in Seq(StreamBytes)
    BY <1>2, ElementOfSeq
  <2> HIDE DEF F, n
  <2> DEFINE G == [m \in 0 .. n |-> IF m = 0 THEN <<>> ELSE F[m]]
  <2>6. ASSUME NEW m \in 1 .. n PROVE G[m] = G[m - 1] \o parts[m]
    <3>1. m \in 0 .. n /\ m - 1 \in 0 .. n /\ m # 0 /\ (m = 1 <=> m - 1 = 0)
      BY <1>2
    <3>2. CASE m = 1
      <4>1. <<>> \o parts[1] = parts[1]
        BY <2>5, <3>2, ConcatEmptySeq
      <4> QED BY <2>4, <3>1, <3>2, <4>1
    <3>3. CASE m # 1
      BY <2>4, <3>1, <3>3
    <3> QED BY <3>2, <3>3
  <2>7. G[0] = <<>> /\ G[n] = F[n]
    BY <1>2, <2>1
  <2> HIDE DEF G
  <2>8. Joined(G, frames)
    BY <1>2, <2>6, <2>7 DEF Joined
  <2> QED BY <1>2, <2>3, <2>7, <2>8
<1> QED BY <1>4, <1>5

\* The first frames of a stream are a sequence of bytes, however many they are,
LEMMA JoinedTyped ==
    ASSUME WebsocketAssumption, NEW frames \in AllStreams, NEW G, Joined(G, frames)
    PROVE  \A m \in 0 .. Len(frames) : G[m] \in Seq(StreamBytes)
<1> DEFINE n == Len(frames)
           Bad == {m \in 0 .. n : G[m] \notin Seq(StreamBytes)}
<1>1. n \in Nat /\ \A m \in 1 .. n : FrameBytes(frames[m], m) \in Seq(StreamBytes)
  BY FramesTyped
<1>2. G[0] = <<>> /\ \A m \in 1 .. n : G[m] = G[m - 1] \o FrameBytes(frames[m], m)
  BY DEF Joined
<1> HIDE DEF n
<1>3. Bad = {}
  <2> SUFFICES ASSUME Bad # {} PROVE FALSE
    OBVIOUS
  <2>1. PICK m \in Bad : \A k \in Bad : m <= k
    <3>1. Bad \subseteq Nat
      OBVIOUS
    <3> HIDE DEF Bad
    <3> QED BY <3>1, Least
  <2>2. m # 0
    BY <1>2, EmptySeq
  <2>3. m - 1 \in 0 .. n /\ G[m - 1] \in Seq(StreamBytes) /\ m \in 1 .. n
    BY <1>1, <2>1, <2>2
  <2>4. G[m - 1] \o FrameBytes(frames[m], m) \in Seq(StreamBytes)
    BY <1>1, <2>3, ConcatProperties
  <2> QED BY <1>2, <2>3, <2>4
<1> QED BY <1>3 DEF n

\* and so is the whole of it.
LEMMA BytesTyped ==
    ASSUME WebsocketAssumption, NEW frames \in AllStreams
    PROVE  Bytes[frames] \in Seq(StreamBytes)
<1>1. PICK G : Joined(G, frames) /\ Bytes[frames] = G[Len(frames)]
  BY BytesJoined
<1>2. Len(frames) \in 0 .. Len(frames)
  BY FramesTyped
<1> QED BY <1>1, <1>2, JoinedTyped
-----------------------------------------------------------------------------
(* The linked list.                                                        *)

\* The place of a websocket in a list that has it once.
LEMMA PlaceOf ==
    ASSUME NEW l \in Seq(Conn), IsInjective(l), NEW k \in 1 .. Len(l)
    PROVE  SelectInSeq(l, LAMBDA x : x = l[k]) = k
<1> DEFINE I == {i \in 1 .. Len(l) : l[i] = l[k]}
<1>1. DOMAIN l = 1 .. Len(l) /\ Len(l) \in Nat
  BY LenProperties
<1>2. I = {k}
  BY <1>1 DEF IsInjective
<1>3. SelectInSeq(l, LAMBDA x : x = l[k]) = IF I # {} THEN Min(I) ELSE 0
  BY DEF SelectInSeq
<1>4. Min({k}) = k
  BY <1>1 DEF Min
<1> QED BY <1>2, <1>3, <1>4

\* To unlink a websocket takes it and nothing else out of the list, in the middle as
\* at its ends, and those behind it move up.
LEMMA UnlinkOne ==
    ASSUME NEW l \in Seq(Conn), IsInjective(l), NEW k \in 1 .. Len(l)
    PROVE  LET m == RemoveFirst(l, l[k])
           IN  /\ m \in Seq(Conn) /\ Len(m) = Len(l) - 1
               /\ \A i \in 1 .. Len(m) : m[i] = IF i < k THEN l[i] ELSE l[i + 1]
               /\ IsInjective(m)
               /\ ToSet(m) = ToSet(l) \ {l[k]}
<1> DEFINE m == RemoveFirst(l, l[k])
           n == Len(l)
           a == SubSeq(l, 1, k - 1)
           b == SubSeq(l, k + 1, n)
<1>1. DOMAIN l = 1 .. n /\ n \in Nat /\ \A i \in 1 .. n : l[i] \in Conn
  BY LenProperties, ElementOfSeq
<1>2. m = a \o b
  BY PlaceOf DEF RemoveFirst, RemoveAt
<1>3. n \in Nat /\ k \in Nat /\ 1 <= k /\ k <= n /\ k - 1 \in Nat /\ n - k \in Nat
  BY <1>1
<1>4. /\ a \in Seq(Conn) /\ Len(a) = k - 1 /\ \A i \in 1 .. k - 1 : a[i] = l[i]
  BY <1>1, SubSeqProperties
<1>5. /\ b \in Seq(Conn) /\ Len(b) = n - k /\ \A i \in 1 .. n - k : b[i] = l[i + k]
  <2>1. \A i \in k + 1 .. n : l[i] \in Conn
    BY <1>1
  <2>2. /\ b \in Seq(Conn)
        /\ Len(b) = IF k + 1 <= n THEN n - (k + 1) + 1 ELSE 0
        /\ \A i \in 1 .. n - (k + 1) + 1 : b[i] = l[(k + 1) + i - 1]
    BY <1>1, <2>1, SubSeqProperties
  <2> HIDE DEF b, n
  <2>3. Len(b) = n - k
    BY <1>3, <2>2
  <2>4. ASSUME NEW i \in 1 .. n - k PROVE b[i] = l[i + k]
    <3>1. i \in 1 .. n - (k + 1) + 1 /\ (k + 1) + i - 1 = i + k
      BY <1>3
    <3> QED BY <2>2, <3>1
  <2> QED BY <2>2, <2>3, <2>4
<1> HIDE DEF a, b, n, m
<1>6. m \in Seq(Conn) /\ Len(m) = n - 1
  <2>1. m \in Seq(Conn) /\ Len(m) = Len(a) + Len(b)
    BY <1>2, <1>4, <1>5, ConcatProperties
  <2> QED BY <1>3, <1>4, <1>5, <2>1
<1>7. ASSUME NEW i \in 1 .. n - 1 PROVE m[i] = IF i < k THEN l[i] ELSE l[i + 1]
  <2>1. m[i] = IF i <= Len(a) THEN a[i] ELSE b[i - Len(a)]
    <3>1. i \in 1 .. Len(a) + Len(b)
      BY <1>3, <1>4, <1>5
    <3> QED BY <1>2, <1>4, <1>5, <3>1, ConcatProperties
  <2>2. CASE i < k
    <3>1. i <= k - 1 /\ i \in 1 .. k - 1
      BY <1>3, <2>2
    <3> QED BY <1>4, <2>1, <2>2, <3>1
  <2>3. CASE ~(i < k)
    <3>1. i - (k - 1) \in 1 .. n - k /\ i - (k - 1) + k = i + 1 /\ ~(i <= k - 1)
      BY <1>3, <2>3
    <3>2. m[i] = b[i - (k - 1)]
      BY <1>4, <2>1, <3>1
    <3>3. b[i - (k - 1)] = l[i - (k - 1) + k]
      BY <1>5, <3>1
    <3> QED BY <2>3, <3>1, <3>2, <3>3
  <2> QED BY <2>2, <2>3
<1>8. DOMAIN m = 1 .. n - 1
  BY <1>6, LenProperties
<1>9. \A i, j \in 1 .. n : l[i] = l[j] => i = j
  BY <1>1 DEF IsInjective
<1>10. IsInjective(m)
  <2>1. ASSUME NEW i \in 1 .. n - 1, NEW j \in 1 .. n - 1, m[i] = m[j] PROVE i = j
    <3>1. i \in 1 .. n /\ j \in 1 .. n /\ i + 1 \in 1 .. n /\ j + 1 \in 1 .. n
      BY <1>3
    <3>2. CASE i < k /\ j < k
      BY <1>7, <1>9, <2>1, <3>1, <3>2
    <3>3. CASE i < k /\ ~(j < k)
      <4>1. i = j + 1
        BY <1>7, <1>9, <2>1, <3>1, <3>3
      <4> QED BY <1>3, <3>3, <4>1
    <3>4. CASE ~(i < k) /\ j < k
      <4>1. i + 1 = j
        BY <1>7, <1>9, <2>1, <3>1, <3>4
      <4> QED BY <1>3, <3>4, <4>1
    <3>5. CASE ~(i < k) /\ ~(j < k)
      <4>1. i + 1 = j + 1
        BY <1>7, <1>9, <2>1, <3>1, <3>5
      <4> QED BY <3>1, <4>1
    <3> QED BY <3>2, <3>3, <3>4, <3>5
  <2> QED BY <1>8, <2>1 DEF IsInjective
<1>11. ToSet(m) = ToSet(l) \ {l[k]}
  <2>1. ASSUME NEW x \in ToSet(m) PROVE x \in ToSet(l) \ {l[k]}
    <3>1. PICK i \in 1 .. n - 1 : x = m[i]
      BY <1>8 DEF ToSet
    <3>2. PICK j \in 1 .. n : x = l[j] /\ j # k
      <4>1. CASE i < k
        <5>1. i \in 1 .. n /\ i # k
          BY <1>3, <4>1
        <5> QED BY <1>7, <3>1, <4>1, <5>1
      <4>2. CASE ~(i < k)
        <5>1. i + 1 \in 1 .. n /\ i + 1 # k
          BY <1>3, <4>2
        <5> QED BY <1>7, <3>1, <4>2, <5>1
      <4> QED BY <4>1, <4>2
    <3> QED BY <1>1, <1>9, <3>2 DEF ToSet
  <2>2. ASSUME NEW x \in ToSet(l) \ {l[k]} PROVE x \in ToSet(m)
    <3>1. PICK j \in 1 .. n : x = l[j] /\ j # k
      BY <1>1 DEF ToSet
    <3>2. PICK i \in 1 .. n - 1 : x = m[i]
      <4>1. CASE j < k
        <5>1. j \in 1 .. n - 1
          BY <1>3, <4>1
        <5> QED BY <1>7, <3>1, <4>1, <5>1
      <4>2. CASE ~(j < k)
        <5>1. j - 1 \in 1 .. n - 1 /\ ~(j - 1 < k) /\ j - 1 + 1 = j
          BY <1>3, <3>1, <4>2
        <5> QED BY <1>7, <3>1, <4>2, <5>1
      <4> QED BY <4>1, <4>2
    <3> QED BY <1>8, <3>2 DEF ToSet
  <2> QED BY <2>1, <2>2
<1>12. \A i \in 1 .. Len(m) : m[i] = IF i < k THEN l[i] ELSE l[i + 1]
  BY <1>6, <1>7
<1>13. m \in Seq(Conn) /\ Len(m) = Len(l) - 1
  BY <1>6 DEF n
<1> QED BY <1>10, <1>11, <1>12, <1>13 DEF m
-----------------------------------------------------------------------------
(* The steps.                                                              *)

\* A new parser, a new decoder, a closed connection and a broadcast that is over.
LEMMA ConstantsTyped ==
    ASSUME WebsocketAssumption
    PROVE  /\ Priv \in Privs /\ Decoder \in Decoders
           /\ Closed \in Connections /\ Closed.read <= Len(Bytes[Closed.frames])
           /\ Idle \in Walks
<1>1. Priv \in Privs
  BY DEF Priv, Privs, Ops, Data, ST_FLAGS, ST_PAYLOAD
<1>2. Decoder \in Decoders
  BY DEF Decoder, Decoders
<1>3. <<>> \in AllStreams /\ <<>> \in Seq(Given)
  BY EmptySeq DEF AllStreams
<1>4. Closed \in Connections /\ Closed.read = 0 /\ Closed.frames = <<>>
  BY <1>1, <1>2, <1>3 DEF Closed, Connections
<1>5. Len(Bytes[Closed.frames]) \in Nat
  BY <1>3, <1>4, BytesTyped, LenProperties
<1>6. (CHOOSE u \in Urls : TRUE) \in Urls
  BY DEF Urls, WebsocketAssumption
<1>7. Idle \in Walks
  BY <1>6 DEF Idle, Walks
<1> QED BY <1>1, <1>2, <1>4, <1>5, <1>7

\* At the beginning and after a restart there is no websocket and no broadcast.
LEMMA NothingOpen ==
    ASSUME WebsocketAssumption,
           conn = [c \in Conn |-> Closed], ll = <<>>, cast = Idle
    PROVE  WebsocketInv
<1>1. Closed \in Connections /\ Closed.read <= Len(Bytes[Closed.frames]) /\ Idle \in Walks
  BY ConstantsTyped
<1>2. Shapes
  BY <1>1, EmptySeq DEF Shapes
<1>3. ListIsOpen
  <2>1. \A c \in Conn : conn[c].state = "closed"
    BY DEF Closed
  <2>2. ToSet(ll) = {}
    BY EmptySeq DEF ToSet
  <2>3. IsInjective(ll)
    BY EmptySeq DEF IsInjective
  <2> QED BY <2>1, <2>2, <2>3 DEF ListIsOpen
<1>4. WalkInv
  BY DEF WalkInv, Idle
<1> QED BY <1>2, <1>3, <1>4 DEF WebsocketInv

\* A crash restarts the station: the same, after the step.
LEMMA RestartStep ==
    ASSUME WebsocketAssumption, Restart
    PROVE  WebsocketInv'
<1>1. Closed \in Connections /\ Closed.read <= Len(Bytes[Closed.frames]) /\ Idle \in Walks
  BY ConstantsTyped
<1>2. conn' = [c \in Conn |-> Closed] /\ ll' = <<>> /\ cast' = Idle
  BY DEF Restart
<1>3. Shapes'
  BY <1>1, <1>2, EmptySeq DEF Shapes
<1>4. ListIsOpen'
  <2>1. \A c \in Conn : conn'[c].state = "closed"
    BY <1>2 DEF Closed
  <2>2. ToSet(ll') = {}
    BY <1>2, EmptySeq DEF ToSet
  <2>3. IsInjective(ll')
    BY <1>2, EmptySeq DEF IsInjective
  <2> QED BY <2>1, <2>2, <2>3 DEF ListIsOpen
<1>5. WalkInv'
  BY <1>2 DEF WalkInv, Idle
<1> QED BY <1>3, <1>4, <1>5 DEF WebsocketInv

\* A handler touches one connection: the rest of them, and their websockets, stay.
LEMMA OneConnection ==
    ASSUME Shapes, NEW c \in Conn, NEW d \in Connections, d.read <= Len(Bytes[d.frames]),
           conn' = [conn EXCEPT ![c] = d]
    PROVE  /\ conn' \in [Conn -> Connections]
           /\ \A x \in Conn : conn'[x].read <= Len(Bytes[conn'[x].frames])
           /\ {x \in Conn : conn'[x].state = "open"} =
                 IF d.state = "open" THEN {x \in Conn : conn[x].state = "open"} \cup {c}
                 ELSE {x \in Conn : conn[x].state = "open"} \ {c}
<1>1. conn \in [Conn -> Connections] /\ \A x \in Conn : conn[x].read <= Len(Bytes[conn[x].frames])
  BY DEF Shapes
<1>2. conn' \in [Conn -> Connections]
  BY <1>1
<1>3. \A x \in Conn : conn'[x] = IF x = c THEN d ELSE conn[x]
  BY <1>1
<1>4. \A x \in Conn : conn'[x].read <= Len(Bytes[conn'[x].frames])
  BY <1>1, <1>3
<1>5. \A x \in Conn : conn'[x].state = "open" <=> IF x = c THEN d.state = "open" ELSE conn[x].state = "open"
  BY <1>3
<1> QED BY <1>2, <1>4, <1>5

\* websockFree() takes the websocket out of the list, marks a broadcast that is at it,
\* and leaves what the broadcast has still to reach behind it.
LEMMA FreeStep ==
    ASSUME WebsocketAssumption, WebsocketInv, NEW c \in Conn, conn[c].state = "open", websockFree(c)
    PROVE  /\ ll' \in Seq(Conn) /\ IsInjective(ll') /\ ToSet(ll') = ToSet(ll) \ {c}
           /\ cast' \in Walks /\ WalkInv'
<1>1. ll \in Seq(Conn) /\ IsInjective(ll) /\ cast \in Walks /\ WalkInv /\ c \in ToSet(ll) /\ None # c
  BY DEF WebsocketInv, Shapes, ListIsOpen, WebsocketAssumption
<1>2. PICK k \in 1 .. Len(ll) : ll[k] = c
  BY <1>1, LenProperties DEF ToSet
<1>3. ll' = RemoveFirst(ll, ll[k])
  BY <1>2 DEF websockFree
<1>4. /\ ll' \in Seq(Conn) /\ Len(ll') = Len(ll) - 1
      /\ \A i \in 1 .. Len(ll') : ll'[i] = IF i < k THEN ll[i] ELSE ll[i + 1]
      /\ IsInjective(ll')
      /\ ToSet(ll') = ToSet(ll) \ {c}
  BY <1>1, <1>2, <1>3, UnlinkOne
<1>5. cast' = [cast EXCEPT !.due = cast.due \ {c}, !.stale = cast.stale \/ cast.lw = c]
  BY <1>1 DEF websockFree, Freed, Walks
<1>6. /\ cast' \in Walks /\ cast'.at = cast.at /\ cast'.lw = cast.lw /\ cast'.url = cast.url
      /\ cast'.due = cast.due \ {c} /\ cast'.stale = (cast.stale \/ cast.lw = c)
  <2>1. (cast.stale \/ cast.lw = c) \in BOOLEAN
    OBVIOUS
  <2>2. cast.due \ {c} \in SUBSET Conn
    BY <1>1 DEF Walks
  <2> QED BY <1>1, <1>5, <2>1, <2>2 DEF Walks
<1>7. ASSUME cast.at # "idle", ~cast'.stale
      PROVE  /\ cast.lw \in ToSet(ll')
             /\ cast.at = "send" => Url(cast.lw) = cast.url
             /\ \A x \in cast'.due : x \in ToSet(ll') /\ Url(x) = cast.url
  <2>1. ~cast.stale /\ cast.lw # c
    BY <1>6, <1>7
  <2> QED BY <1>1, <1>4, <1>6, <1>7, <2>1 DEF WalkInv
<1>8. ASSUME cast.at # "idle", ~cast'.stale,
             NEW i \in 1 .. Len(ll'), NEW j \in 1 .. Len(ll'), ll'[i] = cast.lw, ll'[j] \in cast'.due
      PROVE  i < j \/ (i = j /\ cast.at = "send")
  <2> DEFINE x == IF i < k THEN i ELSE i + 1
             y == IF j < k THEN j ELSE j + 1
             n == Len(ll)
  <2>1. n \in Nat /\ Len(ll') = n - 1
    BY <1>1, <1>4, LenProperties
  <2>2. x \in 1 .. n /\ y \in 1 .. n
    <3> HIDE DEF n
    <3> QED BY <2>1
  <2>3. ll[x] = cast.lw /\ ll[y] \in cast.due
    BY <1>4, <1>6, <1>8
  <2>4. ~cast.stale
    BY <1>6, <1>8
  <2>5. x < y \/ (x = y /\ cast.at = "send")
    <3> HIDE DEF x, y
    <3> QED BY <1>1, <1>8, <2>2, <2>3, <2>4 DEF WalkInv
  <2> HIDE DEF n
  <2> QED BY <2>1, <2>5
<1>9. WalkInv'
  <2>1. cast.at = "idle" => cast.lw = None /\ ~cast'.stale /\ cast'.due = {}
    BY <1>1, <1>6 DEF WalkInv
  <2>2. cast.at # "idle" => cast.lw \in Conn
    BY <1>1 DEF WalkInv
  <2> QED BY <1>6, <1>7, <1>8, <2>1, <2>2 DEF WalkInv
<1> QED BY <1>4, <1>6, <1>9

\* A websocket is linked in behind all the others.
LEMMA OpenStep ==
    ASSUME WebsocketAssumption, WebsocketInv, NEW c \in Conn, cgiWebsocket(c)
    PROVE  WebsocketInv'
<1>1. ll \in Seq(Conn) /\ IsInjective(ll) /\ cast \in Walks /\ WalkInv /\ Shapes
      /\ ToSet(ll) = {x \in Conn : conn[x].state = "open"} /\ c \notin ToSet(ll)
  BY DEF WebsocketInv, Shapes, ListIsOpen, cgiWebsocket
<1>2. PICK s \in Streams(c) : conn' = [conn EXCEPT ![c] = [Closed EXCEPT !.state = "open", !.frames = s]]
  BY DEF cgiWebsocket
<1> DEFINE d == [Closed EXCEPT !.state = "open", !.frames = s]
<1>3. d \in Connections /\ d.state = "open" /\ d.read <= Len(Bytes[d.frames])
  <2>1. s \in AllStreams
    BY DEF AllStreams
  <2>2. Closed \in Connections
    BY ConstantsTyped
  <2>3. d \in Connections /\ d.state = "open" /\ d.frames = s /\ d.read = 0
    BY <2>1, <2>2 DEF Connections, Closed
  <2>4. Len(Bytes[s]) \in Nat
    BY <2>1, BytesTyped, LenProperties
  <2> HIDE DEF d
  <2> QED BY <2>3, <2>4
<1> HIDE DEF d
<1>4. /\ conn' \in [Conn -> Connections]
      /\ \A x \in Conn : conn'[x].read <= Len(Bytes[conn'[x].frames])
      /\ {x \in Conn : conn'[x].state = "open"} = ToSet(ll) \cup {c}
  <2>1. conn' = [conn EXCEPT ![c] = d]
    BY <1>2 DEF d
  <2> QED BY <1>1, <1>3, <2>1, OneConnection
<1> DEFINE n == Len(ll)
<1>5. /\ ll' \in Seq(Conn) /\ n \in Nat /\ Len(ll') = n + 1
      /\ DOMAIN ll = 1 .. n /\ DOMAIN ll' = 1 .. n + 1
      /\ \A i \in 1 .. n : ll'[i] = ll[i]
      /\ ll'[n + 1] = c
  <2>1. ll' = Append(ll, c)
    BY DEF cgiWebsocket
  <2> QED BY <1>1, <2>1, AppendProperties, LenProperties
<1> HIDE DEF n
<1>6. \A i \in 1 .. n : ll[i] \in ToSet(ll) /\ ll[i] # c
  BY <1>1, <1>5 DEF ToSet
<1>7. ToSet(ll') = ToSet(ll) \cup {c}
  <2>1. ASSUME NEW x \in ToSet(ll') PROVE x \in ToSet(ll) \cup {c}
    <3>1. PICK i \in 1 .. n + 1 : x = ll'[i]
      BY <1>5 DEF ToSet
    <3>2. i \in 1 .. n \/ i = n + 1
      BY <1>5
    <3> QED BY <1>5, <1>6, <3>1, <3>2
  <2>2. ASSUME NEW x \in ToSet(ll) PROVE x \in ToSet(ll')
    <3>1. PICK i \in 1 .. n : x = ll[i]
      BY <1>5 DEF ToSet
    <3>2. i \in 1 .. n + 1 /\ x = ll'[i]
      BY <1>5, <3>1
    <3> QED BY <1>5, <3>2 DEF ToSet
  <2>3. c \in ToSet(ll')
    <3>1. n + 1 \in 1 .. n + 1
      BY <1>5
    <3> QED BY <1>5, <3>1 DEF ToSet
  <2> QED BY <2>1, <2>2, <2>3
<1>8. IsInjective(ll')
  <2>1. ASSUME NEW i \in 1 .. n + 1, NEW j \in 1 .. n + 1, ll'[i] = ll'[j] PROVE i = j
    <3>1. (i \in 1 .. n \/ i = n + 1) /\ (j \in 1 .. n \/ j = n + 1)
      BY <1>5
    <3>2. \A x, y \in 1 .. n : ll[x] = ll[y] => x = y
      BY <1>1, <1>5 DEF IsInjective
    <3> QED BY <1>5, <1>6, <2>1, <3>1, <3>2
  <2> QED BY <1>5, <2>1 DEF IsInjective
<1>9. cast' = cast
  BY DEF cgiWebsocket
<1>10. WalkInv'
  <2>1. ASSUME cast.at # "idle", ~cast.stale,
               NEW i \in 1 .. Len(ll'), NEW j \in 1 .. Len(ll'), ll'[i] = cast.lw, ll'[j] \in cast.due
        PROVE  i < j \/ (i = j /\ cast.at = "send")
    <3>1. cast.lw \in ToSet(ll) /\ ll'[j] \in ToSet(ll)
      BY <1>1, <2>1 DEF WalkInv
    <3>2. i \in 1 .. n /\ j \in 1 .. n
      BY <1>1, <1>5, <2>1, <3>1
    <3> QED BY <1>1, <1>5, <2>1, <3>2 DEF WalkInv, n
  <2> QED BY <1>1, <1>7, <1>9, <2>1 DEF WalkInv
<1> QED BY <1>1, <1>4, <1>5, <1>7, <1>8, <1>9, <1>10 DEF WebsocketInv, Shapes, ListIsOpen

\* The fragments of the network are read one behind the other, up to the end of the
\* stream, whatever the parser does with them.
LEMMA ReadOn ==
    ASSUME WebsocketAssumption, NEW c \in Connections,
           NEW n \in 1 .. Len(Bytes[c.frames]) - c.read, NEW reply \in Replies
    PROVE  LET data == SubSeq(Bytes[c.frames], c.read + 1, c.read + n)
               w == cgiWebSocketRecv(c, data, reply)
           IN  /\ w.c \in Connections /\ w.c.state = c.state
               /\ w.c.read <= Len(Bytes[w.c.frames])
<1> DEFINE all == Bytes[c.frames]
           data == SubSeq(all, c.read + 1, c.read + n)
           w == cgiWebSocketRecv(c, data, reply)
<1>1. c.frames \in AllStreams /\ c.read \in Nat
  BY DEF Connections
<1>2. all \in Seq(StreamBytes) /\ Len(all) \in Nat
  BY <1>1, BytesTyped, LenProperties
<1>3. \A i \in 1 .. Len(all) : all[i] \in StreamBytes
  BY <1>2, ElementOfSeq
<1> HIDE DEF all
<1>4. n \in Nat /\ c.read + n <= Len(all)
  BY <1>1, <1>2 DEF all
<1>5. data \in Seq(StreamBytes) /\ Len(data) = n
  <2>1. \A i \in c.read + 1 .. c.read + n : all[i] \in StreamBytes
    BY <1>1, <1>2, <1>3, <1>4
  <2>2. data \in Seq(StreamBytes)
        /\ Len(data) = IF c.read + 1 <= c.read + n THEN (c.read + n) - (c.read + 1) + 1 ELSE 0
    BY <1>1, <1>2, <1>4, <2>1, SubSeqProperties
  <2> HIDE DEF data
  <2>3. n >= 1
    BY <1>2, <1>4
  <2> QED BY <1>1, <1>4, <2>2, <2>3
<1> HIDE DEF data
<1>6. w.c \in Connections /\ w.c.state = c.state /\ w.c.frames = c.frames /\ w.c.read = c.read + Len(data)
  BY <1>5, RecvTyped
<1> HIDE DEF w
<1>7. w.c.read <= Len(Bytes[w.c.frames])
  BY <1>1, <1>2, <1>4, <1>5, <1>6 DEF all
<1> QED BY <1>6, <1>7 DEF w, data, all

\* Data received: the parser goes on, or the websocket ends and is unlinked.
LEMMA ReceiveStep ==
    ASSUME WebsocketAssumption, WebsocketInv, NEW c \in Conn, Receive(c)
    PROVE  WebsocketInv'
<1>1. conn[c] \in Connections /\ conn[c].state = "open" /\ Shapes /\ ListIsOpen /\ WalkInv
  BY DEF WebsocketInv, Shapes, Receive
<1>2. PICK n \in 1 .. Len(Bytes[conn[c].frames]) - conn[c].read, reply \in Replies :
         LET data == SubSeq(Bytes[conn[c].frames], conn[c].read + 1, conn[c].read + n)
             w == cgiWebSocketRecv(conn[c], data, reply)
         IN  IF w.r = "DONE"
             THEN /\ \E pending \in BOOLEAN :
                        conn' = [conn EXCEPT ![c] = [w.c EXCEPT !.state = "done", !.notif = @ \/ pending]]
                  /\ websockFree(c)
             ELSE conn' = [conn EXCEPT ![c] = Open(w.c)] /\ UNCHANGED <<ll, cast>>
  BY DEF Receive
<1> DEFINE data == SubSeq(Bytes[conn[c].frames], conn[c].read + 1, conn[c].read + n)
           w == cgiWebSocketRecv(conn[c], data, reply)
<1>3. w.c \in Connections /\ w.c.state = "open" /\ w.c.read <= Len(Bytes[w.c.frames])
  BY <1>1, ReadOn
<1>4. CASE w.r = "DONE"
  <2>0. PICK pending \in BOOLEAN :
           conn' = [conn EXCEPT ![c] = [w.c EXCEPT !.state = "done", !.notif = @ \/ pending]]
    BY <1>2, <1>4
  <2>1. conn' = [conn EXCEPT ![c] = [w.c EXCEPT !.state = "done", !.notif = w.c.notif \/ pending]] /\ websockFree(c)
    BY <1>2, <1>3, <1>4, <2>0 DEF Connections
  <2> HIDE DEF w
  <2> DEFINE d == [w.c EXCEPT !.state = "done", !.notif = w.c.notif \/ pending]
  <2>2. d \in Connections /\ d.state = "done" /\ d.read <= Len(Bytes[d.frames])
    <3>1. (w.c.notif \/ pending) \in BOOLEAN
      OBVIOUS
    <3> QED BY <1>3, <3>1 DEF Connections
  <2> HIDE DEF d
  <2>3. /\ conn' \in [Conn -> Connections]
        /\ \A x \in Conn : conn'[x].read <= Len(Bytes[conn'[x].frames])
        /\ {x \in Conn : conn'[x].state = "open"} = {x \in Conn : conn[x].state = "open"} \ {c}
    <3>1. conn' = [conn EXCEPT ![c] = d]
      BY <2>1 DEF d
    <3> QED BY <1>1, <2>2, <3>1, OneConnection
  <2>4. /\ ll' \in Seq(Conn) /\ IsInjective(ll') /\ ToSet(ll') = ToSet(ll) \ {c}
        /\ cast' \in Walks /\ WalkInv'
    BY <1>1, <2>1, FreeStep
  <2> QED BY <1>1, <2>3, <2>4 DEF WebsocketInv, Shapes, ListIsOpen
<1>5. CASE w.r # "DONE"
  <2>1. conn' = [conn EXCEPT ![c] = Open(w.c)] /\ UNCHANGED <<ll, cast>>
    BY <1>2, <1>5
  <2> HIDE DEF w
  <2> DEFINE d == Open(w.c)
  <2>2. d \in Connections /\ d.state = "open" /\ d.read <= Len(Bytes[d.frames])
    BY <1>3 DEF Connections, Open
  <2> HIDE DEF d
  <2>3. /\ conn' \in [Conn -> Connections]
        /\ \A x \in Conn : conn'[x].read <= Len(Bytes[conn'[x].frames])
        /\ {x \in Conn : conn'[x].state = "open"} = {x \in Conn : conn[x].state = "open"} \cup {c}
    <3>1. conn' = [conn EXCEPT ![c] = d]
      BY <2>1 DEF d
    <3> QED BY <1>1, <2>2, <3>1, OneConnection
  <2> QED BY <1>1, <2>1, <2>3 DEF WebsocketInv, Shapes, ListIsOpen, WalkInv
<1> QED BY <1>4, <1>5

\* The end of a connection, by the sent callback or by the client.
LEMMA CloseStep ==
    ASSUME WebsocketAssumption, WebsocketInv, NEW c \in Conn, Sent(c) \/ Disconnect(c)
    PROVE  WebsocketInv'
<1>1. Closed \in Connections /\ Closed.read <= Len(Bytes[Closed.frames]) /\ Closed.state = "closed"
  BY ConstantsTyped DEF Closed
<1>2. Shapes /\ ListIsOpen /\ WalkInv /\ conn' = [conn EXCEPT ![c] = Closed]
  BY DEF WebsocketInv, Sent, Disconnect
<1>3. /\ conn' \in [Conn -> Connections]
      /\ \A x \in Conn : conn'[x].read <= Len(Bytes[conn'[x].frames])
      /\ {x \in Conn : conn'[x].state = "open"} = {x \in Conn : conn[x].state = "open"} \ {c}
  BY <1>1, <1>2, OneConnection
<1>4. CASE conn[c].state = "open"
  <2>1. websockFree(c)
    BY <1>4 DEF Sent, Disconnect
  <2>2. /\ ll' \in Seq(Conn) /\ IsInjective(ll') /\ ToSet(ll') = ToSet(ll) \ {c}
        /\ cast' \in Walks /\ WalkInv'
    BY <1>4, <2>1, FreeStep
  <2> QED BY <1>2, <1>3, <2>2 DEF WebsocketInv, Shapes, ListIsOpen
<1>5. CASE conn[c].state # "open"
  <2>1. UNCHANGED <<ll, cast>>
    BY <1>5 DEF Sent, Disconnect
  <2> QED BY <1>2, <1>3, <1>5, <2>1 DEF WebsocketInv, Shapes, ListIsOpen, WalkInv
<1> QED BY <1>4, <1>5

\* A broadcast that comes to lw is over, about to send, or about to go on behind it.
LEMMA AtStep ==
    ASSUME WebsocketAssumption, NEW walk \in Walks, NEW lw \in Conn \cup {None}
    PROVE  /\ At(walk, lw) \in Walks
           /\ lw = None => At(walk, lw) = [Idle EXCEPT !.due = walk.due]
           /\ lw # None => /\ At(walk, lw).lw = lw /\ At(walk, lw).due = walk.due
                           /\ At(walk, lw).url = walk.url /\ At(walk, lw).stale = walk.stale
                           /\ At(walk, lw).at = IF Url(lw) = walk.url THEN "send" ELSE "next"
<1>1. Idle \in Walks
  BY ConstantsTyped
<1>2. CASE lw = None
  <2>1. At(walk, lw) = [Idle EXCEPT !.due = walk.due]
    BY <1>2 DEF At
  <2> QED BY <1>1, <1>2, <2>1 DEF Walks
<1>3. CASE lw # None /\ Url(lw) = walk.url
  <2>1. At(walk, lw) = [walk EXCEPT !.lw = lw, !.at = "send"]
    BY <1>3 DEF At
  <2> QED BY <1>3, <2>1 DEF Walks
<1>4. CASE lw # None /\ Url(lw) # walk.url
  <2>1. At(walk, lw) = [walk EXCEPT !.lw = lw, !.at = "next"]
    BY <1>4 DEF At
  <2> QED BY <1>4, <2>1 DEF Walks
<1> QED BY <1>2, <1>3, <1>4

\* A broadcast begins at the first websocket of the list, with all of its url to reach.
LEMMA BroadcastStep ==
    ASSUME WebsocketAssumption, WebsocketInv, Broadcast
    PROVE  WebsocketInv'
<1>1. ll \in Seq(Conn) /\ IsInjective(ll) /\ Shapes /\ ListIsOpen /\ ll # <<>>
  BY DEF WebsocketInv, Shapes, ListIsOpen, Broadcast
<1>2. PICK u \in Urls :
         cast' = At([Idle EXCEPT !.url = u, !.due = {c \in ToSet(ll) : Url(c) = u}], Head(ll))
  BY DEF Broadcast
<1>3. /\ Head(ll) = ll[1] /\ Head(ll) \in Conn /\ Head(ll) # None
      /\ DOMAIN ll = 1 .. Len(ll) /\ 1 \in 1 .. Len(ll) /\ Len(ll) \in Nat
      /\ \A i \in 1 .. Len(ll) : ll[i] \in ToSet(ll) /\ ll[i] \in Conn
  <2>1. Len(ll) \in Nat /\ DOMAIN ll = 1 .. Len(ll) /\ Len(ll) # 0
    BY <1>1, LenProperties, EmptySeq
  <2>2. Head(ll) = ll[1] /\ Head(ll) \in Conn
    BY <1>1, HeadTailProperties
  <2>3. \A i \in 1 .. Len(ll) : ll[i] \in ToSet(ll) /\ ll[i] \in Conn
    BY <1>1, <2>1, ElementOfSeq DEF ToSet
  <2> QED BY <2>1, <2>2, <2>3 DEF WebsocketAssumption
<1> DEFINE due == {c \in ToSet(ll) : Url(c) = u}
           walk == [Idle EXCEPT !.url = u, !.due = due]
<1>4. due \subseteq Conn
  BY <1>1 DEF ListIsOpen
<1>5. \A x \in due : x \in ToSet(ll) /\ Url(x) = u
  OBVIOUS
<1>6. \A x \in ToSet(ll) : Url(x) # u => x \notin due
  OBVIOUS
<1> HIDE DEF due
<1>7. walk \in Walks /\ walk.url = u /\ walk.due = due /\ walk.stale = FALSE
  <2>1. Idle \in Walks
    BY ConstantsTyped
  <2>2. Idle.stale = FALSE
    BY DEF Idle
  <2> QED BY <1>4, <2>1, <2>2 DEF Walks
<1>8. cast' = At(walk, Head(ll))
  BY <1>2 DEF due
<1> HIDE DEF walk
<1>9. /\ cast' \in Walks /\ cast'.lw = Head(ll) /\ cast'.due = due /\ cast'.url = u
      /\ cast'.at = IF Url(Head(ll)) = u THEN "send" ELSE "next"
  BY <1>3, <1>7, <1>8, AtStep
<1>10. ll' = ll /\ conn' = conn
  BY DEF Broadcast
<1>11. ASSUME NEW i \in 1 .. Len(ll), NEW j \in 1 .. Len(ll), ll[i] = Head(ll), ll[j] \in due
       PROVE  i < j \/ (i = j /\ cast'.at = "send")
  <2>1. i = 1
    BY <1>1, <1>3, <1>11 DEF IsInjective
  <2>2. i < j \/ i = j
    BY <1>3, <2>1
  <2>3. i = j => cast'.at = "send"
    BY <1>5, <1>9, <1>11
  <2> QED BY <2>2, <2>3
<1>12. WalkInv'
  <2>1. cast'.at # "idle" /\ cast'.lw \in Conn /\ cast'.lw \in ToSet(ll)
    BY <1>3, <1>9
  <2>2. cast'.at = "send" => Url(cast'.lw) = cast'.url
    BY <1>9
  <2> QED BY <1>5, <1>9, <1>10, <1>11, <2>1, <2>2 DEF WalkInv
<1> QED BY <1>1, <1>9, <1>10, <1>12 DEF WebsocketInv, Shapes, ListIsOpen

\* The broadcast sends to the websocket it is at, which has then been reached.
LEMMA SendStep ==
    ASSUME WebsocketAssumption, WebsocketInv, SendOne
    PROVE  WebsocketInv'
<1>1. /\ Shapes /\ ListIsOpen /\ WalkInv /\ cast \in Walks /\ cast.at = "send" /\ ~cast.stale
      /\ cast.lw \in Conn /\ cast.lw \in ToSet(ll) /\ conn[cast.lw] \in Connections
      /\ conn[cast.lw].read <= Len(Bytes[conn[cast.lw].frames]) /\ conn[cast.lw].state = "open"
  BY DEF WebsocketInv, Shapes, ListIsOpen, WalkInv, SendOne, Walking
<1>0. SUFFICES ASSUME ~Restart PROVE WebsocketInv'
  BY RestartStep
<1>2. PICK intact \in BOOLEAN :
         /\ conn' = [conn EXCEPT ![cast.lw] = Open(cgiWebsocketSend(@, intact))]
         /\ cast' = [cast EXCEPT !.at = "next", !.due = @ \ {cast.lw}]
         /\ UNCHANGED ll
  BY <1>0 DEF SendOne
<1> DEFINE d == Open(cgiWebsocketSend(conn[cast.lw], intact))
<1>3. d \in Connections /\ d.state = "open" /\ d.read <= Len(Bytes[d.frames])
  <2> DEFINE sent == cgiWebsocketSend(conn[cast.lw], intact)
  <2>1. Same(conn[cast.lw], sent)
    <3>1. Len(<<>>) \in Nat /\ 0 \in Nat
      BY EmptySeq
    <3> QED BY <1>1, <3>1, SendingTyped
  <2> HIDE DEF sent
  <2>2. Open(sent) \in Connections /\ Open(sent).state = "open"
        /\ Open(sent).frames = conn[cast.lw].frames /\ Open(sent).read = conn[cast.lw].read
    BY <1>1, <2>1 DEF Open, Same, Connections
  <2> QED BY <1>1, <2>2 DEF sent
<1> HIDE DEF d
<1>4. /\ conn' \in [Conn -> Connections]
      /\ \A x \in Conn : conn'[x].read <= Len(Bytes[conn'[x].frames])
      /\ {x \in Conn : conn'[x].state = "open"} = {x \in Conn : conn[x].state = "open"} \cup {cast.lw}
  <2>1. conn' = [conn EXCEPT ![cast.lw] = d]
    BY <1>2 DEF d
  <2> QED BY <1>1, <1>3, <2>1, OneConnection
<1>5. cast' = [cast EXCEPT !.at = "next", !.due = cast.due \ {cast.lw}] /\ ll' = ll
  BY <1>1, <1>2 DEF Walks
<1>6. /\ cast' \in Walks /\ cast'.at = "next" /\ cast'.lw = cast.lw /\ cast'.url = cast.url
      /\ cast'.stale = FALSE /\ cast'.due = cast.due \ {cast.lw}
  <2>1. cast.due \ {cast.lw} \in SUBSET Conn /\ cast.stale = FALSE
    BY <1>1 DEF Walks
  <2> QED BY <1>1, <1>5, <2>1 DEF Walks
<1>7. WalkInv'
  <2>1. ASSUME NEW i \in 1 .. Len(ll), NEW j \in 1 .. Len(ll), ll[i] = cast.lw, ll[j] \in cast'.due
        PROVE  i < j
    <3>1. ll[j] \in cast.due /\ i # j
      BY <1>6, <2>1
    <3> QED BY <1>1, <2>1, <3>1 DEF WalkInv
  <2>2. \A x \in cast'.due : x \in ToSet(ll) /\ Url(x) = cast.url
    BY <1>1, <1>6 DEF WalkInv
  <2> QED BY <1>1, <1>5, <1>6, <2>1, <2>2 DEF WalkInv
<1>8. Shapes'
  BY <1>1, <1>4, <1>5, <1>6 DEF Shapes
<1>9. ListIsOpen'
  BY <1>1, <1>4, <1>5 DEF ListIsOpen
<1> QED BY <1>7, <1>8, <1>9 DEF WebsocketInv

\* The broadcast goes on to the next of the list; at the end of it none is left to reach.
LEMMA NextStep ==
    ASSUME WebsocketAssumption, WebsocketInv, NextWebsocket
    PROVE  WebsocketInv'
<1>1. /\ Shapes /\ ListIsOpen /\ WalkInv /\ cast \in Walks /\ cast.at = "next" /\ ~cast.stale
      /\ cast.lw \in ToSet(ll) /\ ll \in Seq(Conn) /\ IsInjective(ll)
  BY DEF WebsocketInv, Shapes, ListIsOpen, WalkInv, NextWebsocket, Walking
<1> DEFINE n == Len(ll)
<1>2. n \in Nat /\ DOMAIN ll = 1 .. n /\ \A i \in 1 .. n : ll[i] \in Conn /\ ll[i] \in ToSet(ll) /\ ll[i] # None
  <2>1. n \in Nat /\ DOMAIN ll = 1 .. n /\ \A i \in 1 .. n : ll[i] \in Conn
    BY <1>1, LenProperties, ElementOfSeq
  <2> QED BY <2>1 DEF ToSet, WebsocketAssumption
<1>3. PICK k \in 1 .. n : ll[k] = cast.lw
  BY <1>1, <1>2 DEF ToSet
<1>4. Following(cast.lw) = IF k = n THEN None ELSE ll[k + 1]
  <2>1. SelectInSeq(ll, LAMBDA y : y = ll[k]) = k
    BY <1>1, PlaceOf
  <2> QED BY <1>3, <2>1 DEF Following
<1>5. cast' = At(cast, Following(cast.lw)) /\ ll' = ll /\ conn' = conn
  BY DEF NextWebsocket
<1>6. \A j \in 1 .. n : ll[j] \in cast.due => k < j
  BY <1>1, <1>3 DEF WalkInv
<1>7. \A x \in cast.due : \E j \in 1 .. n : ll[j] = x
  BY <1>1, <1>2 DEF WalkInv, ToSet
<1>8. \A x \in cast.due : x \in ToSet(ll) /\ Url(x) = cast.url
  BY <1>1 DEF WalkInv
<1> HIDE DEF n
<1>9. CASE k = n
  <2>1. cast' = [Idle EXCEPT !.due = cast.due] /\ cast' \in Walks
    BY <1>1, <1>4, <1>5, <1>9, AtStep
  <2>2. cast.due = {}
    <3>1. \A j \in 1 .. n : ll[j] \notin cast.due
      BY <1>2, <1>6, <1>9
    <3> QED BY <1>7, <3>1
  <2>3. cast'.at = "idle" /\ cast'.lw = None /\ ~cast'.stale /\ cast'.due = {}
    BY <2>1, <2>2 DEF Idle
  <2> QED BY <1>1, <1>5, <2>1, <2>3 DEF WebsocketInv, Shapes, ListIsOpen, WalkInv
<1>10. CASE k # n
  <2>1. k + 1 \in 1 .. n
    BY <1>2, <1>10
  <2> DEFINE lw == ll[k + 1]
  <2>2. lw \in Conn /\ lw # None /\ lw \in ToSet(ll) /\ Following(cast.lw) = lw
    BY <1>2, <1>4, <1>10, <2>1
  <2> HIDE DEF lw
  <2>3. /\ cast' \in Walks /\ cast'.lw = lw /\ cast'.due = cast.due /\ cast'.url = cast.url
        /\ cast'.stale = cast.stale /\ cast'.at = IF Url(lw) = cast.url THEN "send" ELSE "next"
    BY <1>1, <1>5, <2>2, AtStep
  <2>4. ASSUME NEW i \in 1 .. n, NEW j \in 1 .. n, ll[i] = lw, ll[j] \in cast.due
        PROVE  i < j \/ (i = j /\ cast'.at = "send")
    <3>1. i = k + 1
      BY <1>1, <1>2, <2>1, <2>4 DEF IsInjective, lw
    <3>2. k < j
      BY <1>6, <2>4
    <3>3. i < j \/ i = j
      BY <1>2, <3>1, <3>2
    <3>4. i = j => cast'.at = "send"
      BY <1>8, <2>3, <2>4
    <3> QED BY <3>3, <3>4
  <2>5. cast'.at # "idle" /\ (cast'.at = "send" => Url(lw) = cast.url)
    BY <2>3
  <2>6. WalkInv'
    BY <1>5, <1>8, <2>2, <2>3, <2>4, <2>5 DEF WalkInv, n
  <2> QED BY <1>1, <1>5, <2>3, <2>6 DEF WebsocketInv, Shapes, ListIsOpen
<1> QED BY <1>9, <1>10

\* A broadcast whose websocket was freed under it ends, goes on anywhere in the list with
\* nothing more to promise, or takes the station down.
LEMMA AstrayStep ==
    ASSUME WebsocketAssumption, WebsocketInv, Astray
    PROVE  WebsocketInv'
<1>1. CASE Restart
  BY <1>1, RestartStep
<1>2. CASE /\ \E lw \in ToSet(ll) \cup {None} : cast' = [At(cast, lw) EXCEPT !.stale = FALSE, !.due = {}]
           /\ UNCHANGED <<conn, ll>>
  <2>1. PICK lw \in ToSet(ll) \cup {None} : cast' = [At(cast, lw) EXCEPT !.stale = FALSE, !.due = {}]
    BY <1>2
  <2>2. Shapes /\ ListIsOpen /\ cast \in Walks /\ lw \in Conn \cup {None}
    BY DEF WebsocketInv, Shapes, ListIsOpen
  <2> DEFINE walk == At(cast, lw)
  <2>3. /\ walk \in Walks
        /\ lw = None => walk = [Idle EXCEPT !.due = cast.due]
        /\ lw # None => walk.lw = lw /\ walk.url = cast.url
                        /\ walk.at = IF Url(lw) = cast.url THEN "send" ELSE "next"
    BY <2>2, AtStep
  <2> HIDE DEF walk
  <2>4. cast' = [walk EXCEPT !.stale = FALSE, !.due = {}]
    BY <2>1 DEF walk
  <2>5. /\ cast' \in Walks /\ cast'.at = walk.at /\ cast'.lw = walk.lw /\ cast'.url = walk.url
        /\ cast'.stale = FALSE /\ cast'.due = {}
    BY <2>3, <2>4 DEF Walks
  <2>6. lw = None => walk.at = "idle" /\ walk.lw = None
    BY <2>3 DEF Idle
  <2>7. lw # None => walk.at # "idle" /\ lw \in ToSet(ll) /\ (walk.at = "send" => Url(lw) = cast.url)
    BY <2>1, <2>3
  <2>8. WalkInv'
    <3>1. ll' = ll
      BY <1>2
    <3>2. CASE lw = None
      BY <2>5, <2>6, <3>2 DEF WalkInv
    <3>3. CASE lw # None
      BY <2>2, <2>3, <2>5, <2>7, <3>1, <3>3 DEF WalkInv
    <3> QED BY <3>2, <3>3
  <2> QED BY <1>2, <2>2, <2>5, <2>8 DEF WebsocketInv, Shapes, ListIsOpen
<1> QED BY <1>1, <1>2 DEF Astray
-----------------------------------------------------------------------------

\* In every reachable state the list is the open websockets, and a broadcast has all it
\* has still to reach ahead of it.
THEOREM WebsocketInvariant == Spec => []WebsocketInv
<1>0. WebsocketAssumption
  BY WebsocketAssumption DEF WebsocketAssumption
<1>1. Init => WebsocketInv
  BY <1>0, NothingOpen DEF Init
<1>2. WebsocketInv /\ [Next]_vars => WebsocketInv'
  <2> SUFFICES ASSUME WebsocketInv, [Next]_vars PROVE WebsocketInv'
    OBVIOUS
  <2>1. ASSUME NEW c \in Conn, cgiWebsocket(c) PROVE WebsocketInv'
    BY <1>0, <2>1, OpenStep
  <2>2. ASSUME NEW c \in Conn, Receive(c) PROVE WebsocketInv'
    BY <1>0, <2>2, ReceiveStep
  <2>3. ASSUME NEW c \in Conn, ReceiveDone(c) PROVE WebsocketInv'
    BY <1>0, <2>3, RestartStep DEF ReceiveDone
  <2>4. ASSUME NEW c \in Conn, Sent(c) \/ Disconnect(c) PROVE WebsocketInv'
    BY <1>0, <2>4, CloseStep
  <2>5. CASE Broadcast
    BY <1>0, <2>5, BroadcastStep
  <2>6. CASE SendOne
    BY <1>0, <2>6, SendStep
  <2>7. CASE NextWebsocket
    BY <1>0, <2>7, NextStep
  <2>8. CASE Astray
    BY <1>0, <2>8, AstrayStep
  <2>9. CASE UNCHANGED vars
    BY <2>9 DEF vars, WebsocketInv, Shapes, ListIsOpen, WalkInv
  <2> QED BY <2>1, <2>2, <2>3, <2>4, <2>5, <2>6, <2>7, <2>8, <2>9 DEF Next
<1> QED BY <1>1, <1>2, PTL DEF Spec

\* The linked list is the open websockets, each once: whatever comes and goes, and
\* whatever a broadcast makes of one that is freed under it.
THEOREM ListCorrect == Spec => []ListInv
<1>0. WebsocketAssumption
  BY WebsocketAssumption DEF WebsocketAssumption
<1>1. WebsocketInv => ListInv
  <2> SUFFICES ASSUME WebsocketInv PROVE TypeOK /\ ListIsOpen
    BY DEF ListInv
  <2>1. \A c \in Conn : /\ conn[c].state \in {"closed", "open", "done"} /\ conn[c].priv \in Privs
                        /\ conn[c].frames \in AllStreams /\ conn[c].read \in Nat
                        /\ conn[c].read <= Len(Bytes[conn[c].frames])
    <3>1. \A c \in Conn : conn[c] \in Connections /\ conn[c].read <= Len(Bytes[conn[c].frames])
      BY DEF WebsocketInv, Shapes
    <3> QED BY <3>1 DEF Connections
  <2>2. \A c \in Conn : conn[c].read \in 0 .. Len(Bytes[conn[c].frames])
    <3> SUFFICES ASSUME NEW c \in Conn PROVE conn[c].read \in 0 .. Len(Bytes[conn[c].frames])
      OBVIOUS
    <3>1. Len(Bytes[conn[c].frames]) \in Nat
      BY <1>0, <2>1, BytesTyped, LenProperties
    <3> QED BY <2>1, <3>1
  <2>3. \A c \in Conn : /\ conn[c].priv.wsStatus \in ST_FLAGS .. ST_PAYLOAD
                        /\ conn[c].priv.len \in Nat /\ conn[c].priv.maskCtr \in 0 .. 255
    BY <2>1 DEF Privs
  <2>4. /\ cast.at \in {"idle", "send", "next"} /\ cast.lw \in Conn \cup {None}
        /\ cast.url \in Urls /\ cast.stale \in BOOLEAN /\ cast.due \subseteq Conn
    BY DEF WebsocketInv, Shapes, Walks
  <2> QED BY <2>1, <2>2, <2>3, <2>4 DEF TypeOK, WebsocketInv
<1> QED BY <1>1, WebsocketInvariant, PTL

\* A broadcast that ends has reached every websocket of its url that was there from its
\* beginning to its end, unless the one it was at was freed.
THEOREM BroadcastCorrect == Spec => []BroadcastReachesAll
<1>0. WebsocketAssumption
  BY WebsocketAssumption DEF WebsocketAssumption
<1>1. WebsocketInv => BroadcastReachesAll
  BY DEF WebsocketInv, WalkInv, BroadcastReachesAll
<1> QED BY <1>1, WebsocketInvariant, PTL
-----------------------------------------------------------------------------
(* Where the frames of a stream begin, and what the bytes in them are.     *)

HeadLen(f) == 2 + ExtBytes(f.n) + (IF f.masked THEN 4 ELSE 0)
FrameLen(f) == HeadLen(f) + f.n

\* Something put behind a sequence.
LEMMA BehindIs ==
    ASSUME NEW S, NEW s \in Seq(S), NEW t \in Seq(S)
    PROVE  /\ s \o t \in Seq(S) /\ Len(s \o t) = Len(s) + Len(t)
           /\ Len(s) \in Nat /\ Len(t) \in Nat
           /\ \A x \in 1 .. Len(s) : (s \o t)[x] = s[x]
           /\ \A x \in 1 .. Len(t) : (s \o t)[Len(s) + x] = t[x]
<1> DEFINE n == Len(s)
           m == Len(t)
           u == s \o t
<1>1. /\ n \in Nat /\ m \in Nat /\ u \in Seq(S) /\ Len(u) = n + m
      /\ \A x \in 1 .. n + m : u[x] = IF x <= n THEN s[x] ELSE t[x - n]
  BY LenProperties, ConcatProperties
<1> HIDE DEF n, m, u
<1>2. ASSUME NEW x \in 1 .. n PROVE u[x] = s[x]
  <2>1. x \in 1 .. n + m /\ x <= n
    BY <1>1
  <2> QED BY <1>1, <2>1
<1>3. ASSUME NEW x \in 1 .. m PROVE u[n + x] = t[x]
  <2>1. n + x \in 1 .. n + m /\ ~(n + x <= n) /\ (n + x) - n = x
    BY <1>1
  <2> QED BY <1>1, <2>1
<1> QED BY <1>1, <1>2, <1>3 DEF n, m, u

\* The bytes of a frame: two, the rest of the length, the mask and the payload.
LEMMA FrameBytesAre ==
    ASSUME NEW f \in Frame, NEW j \in Nat
    PROVE  LET bytes == FrameBytes(f, j)
               ext == ExtBytes(f.n)
           IN  /\ ext \in {0, 2, 8} /\ HeadLen(f) \in Nat /\ FrameLen(f) \in Nat /\ f.n \in Nat
               /\ bytes \in Seq(StreamBytes) /\ Len(bytes) = FrameLen(f)
               /\ bytes[1] = [b |-> "flags", f |-> f, j |-> j, k |-> 1]
               /\ bytes[2] = [b |-> "len", f |-> f, j |-> j, k |-> 1]
               /\ \A k \in 1 .. ext : bytes[2 + k] = [b |-> "ext", f |-> f, j |-> j, k |-> k]
               /\ \A k \in 1 .. HeadLen(f) - (2 + ext) :
                     bytes[2 + ext + k] = [b |-> "mask", f |-> f, j |-> j, k |-> k]
               /\ \A k \in 1 .. f.n : bytes[HeadLen(f) + k] = [b |-> "data", f |-> f, j |-> j, k |-> k]
<1> DEFINE ext == ExtBytes(f.n)
           four == IF f.masked THEN 4 ELSE 0
           a == Part(f, j, "flags", 1)
           b == Part(f, j, "len", 1)
           c == Part(f, j, "ext", ext)
           d == Part(f, j, "mask", four)
           e == Part(f, j, "data", f.n)
           ab == a \o b
           abc == ab \o c
           abcd == abc \o d
           all == abcd \o e
<1>1. f.n \in Nat /\ ext \in {0, 2, 8} /\ four \in {0, 4} /\ HeadLen(f) = 2 + ext + four
  BY DEF Frame, ExtBytes, HeadLen
<1>2. FrameBytes(f, j) = all
  BY DEF FrameBytes
<1> HIDE DEF ext, four
<1>3. /\ ext \in Nat /\ four \in Nat /\ HeadLen(f) \in Nat /\ FrameLen(f) \in Nat
      /\ FrameLen(f) = 2 + ext + four + f.n /\ HeadLen(f) - (2 + ext) = four
  BY <1>1 DEF FrameLen
<1> DEFINE Of(t, n) == [b |-> t, f |-> f, j |-> j, k |-> n]
<1>4. /\ a \in Seq(StreamBytes) /\ Len(a) = 1 /\ a[1] = Of("flags", 1)
      /\ b \in Seq(StreamBytes) /\ Len(b) = 1 /\ b[1] = Of("len", 1)
  <2>1. a \in Seq(StreamBytes) /\ b \in Seq(StreamBytes)
    BY PartTyped
  <2>2. Len(a) = 1 /\ \A k \in 1 .. 1 : a[k] = Of("flags", k)
    BY DEF Part
  <2>3. Len(b) = 1 /\ \A k \in 1 .. 1 : b[k] = Of("len", k)
    BY DEF Part
  <2> HIDE DEF a, b, Of
  <2> QED BY <2>1, <2>2, <2>3
<1>5. /\ c \in Seq(StreamBytes) /\ Len(c) = ext /\ \A k \in 1 .. ext : c[k] = Of("ext", k)
      /\ d \in Seq(StreamBytes) /\ Len(d) = four /\ \A k \in 1 .. four : d[k] = Of("mask", k)
      /\ e \in Seq(StreamBytes) /\ Len(e) = f.n /\ \A k \in 1 .. f.n : e[k] = Of("data", k)
  <2>1. c \in Seq(StreamBytes) /\ d \in Seq(StreamBytes) /\ e \in Seq(StreamBytes)
    BY <1>1, <1>3, PartTyped
  <2>2. Len(c) = ext /\ \A k \in 1 .. ext : c[k] = Of("ext", k)
    BY <1>3 DEF Part
  <2>3. Len(d) = four /\ \A k \in 1 .. four : d[k] = Of("mask", k)
    BY <1>3 DEF Part
  <2>4. Len(e) = f.n /\ \A k \in 1 .. f.n : e[k] = Of("data", k)
    BY <1>1 DEF Part
  <2> QED BY <2>1, <2>2, <2>3, <2>4
<1> HIDE DEF a, b, c, d, e
<1>6. ab \in Seq(StreamBytes) /\ Len(ab) = 2 /\ ab[1] = Of("flags", 1) /\ ab[2] = Of("len", 1)
  <2> HIDE DEF Of
  <2>1. /\ ab \in Seq(StreamBytes) /\ Len(ab) = Len(a) + Len(b)
        /\ \A x \in 1 .. Len(a) : ab[x] = a[x]
        /\ \A x \in 1 .. Len(b) : ab[Len(a) + x] = b[x]
    BY <1>4, BehindIs
  <2> HIDE DEF ab
  <2>2. ab[1] = a[1] /\ ab[1 + 1] = b[1]
    BY <1>4, <2>1
  <2> QED BY <1>4, <2>1, <2>2
<1> HIDE DEF ab, Of
<1>7. /\ abc \in Seq(StreamBytes) /\ Len(abc) = 2 + ext
      /\ \A x \in 1 .. 2 : abc[x] = ab[x]
      /\ \A k \in 1 .. ext : abc[2 + k] = Of("ext", k)
  <2>1. /\ abc \in Seq(StreamBytes) /\ Len(abc) = Len(ab) + Len(c)
        /\ \A x \in 1 .. Len(ab) : abc[x] = ab[x]
        /\ \A x \in 1 .. Len(c) : abc[Len(ab) + x] = c[x]
    <3>1. ab \in Seq(StreamBytes) /\ c \in Seq(StreamBytes)
      BY <1>5, <1>6
    <3> QED BY <3>1, BehindIs
  <2> QED BY <1>5, <1>6, <2>1
<1> HIDE DEF abc
<1>8. /\ abcd \in Seq(StreamBytes) /\ Len(abcd) = HeadLen(f)
      /\ \A x \in 1 .. 2 + ext : abcd[x] = abc[x]
      /\ \A k \in 1 .. four : abcd[2 + ext + k] = Of("mask", k)
  <2>1. /\ abcd \in Seq(StreamBytes) /\ Len(abcd) = Len(abc) + Len(d)
        /\ \A x \in 1 .. Len(abc) : abcd[x] = abc[x]
        /\ \A x \in 1 .. Len(d) : abcd[Len(abc) + x] = d[x]
    <3>1. abc \in Seq(StreamBytes) /\ d \in Seq(StreamBytes)
      BY <1>5, <1>7
    <3> QED BY <3>1, BehindIs
  <2> QED BY <1>1, <1>5, <1>7, <2>1
<1> HIDE DEF abcd
<1>9. /\ all \in Seq(StreamBytes) /\ Len(all) = FrameLen(f)
      /\ \A x \in 1 .. HeadLen(f) : all[x] = abcd[x]
      /\ \A k \in 1 .. f.n : all[HeadLen(f) + k] = Of("data", k)
  <2>1. /\ all \in Seq(StreamBytes) /\ Len(all) = Len(abcd) + Len(e)
        /\ \A x \in 1 .. Len(abcd) : all[x] = abcd[x]
        /\ \A x \in 1 .. Len(e) : all[Len(abcd) + x] = e[x]
    <3>1. abcd \in Seq(StreamBytes) /\ e \in Seq(StreamBytes)
      BY <1>5, <1>8
    <3> QED BY <3>1, BehindIs
  <2> QED BY <1>5, <1>8, <2>1 DEF FrameLen
<1> HIDE DEF all
<1>10. /\ \A x \in 1 .. 2 : x \in 1 .. HeadLen(f) /\ x \in 1 .. 2 + ext
       /\ \A k \in 1 .. ext : 2 + k \in 1 .. HeadLen(f) /\ 2 + k \in 1 .. 2 + ext
       /\ \A k \in 1 .. four : 2 + ext + k \in 1 .. HeadLen(f)
       /\ 1 \in 1 .. 2 /\ 2 \in 1 .. 2
  BY <1>1, <1>3
<1>11. all[1] = Of("flags", 1) /\ all[2] = Of("len", 1)
  BY <1>6, <1>7, <1>8, <1>9, <1>10
<1>12. \A k \in 1 .. ext : all[2 + k] = Of("ext", k)
  BY <1>7, <1>8, <1>9, <1>10
<1>13. \A k \in 1 .. four : all[2 + ext + k] = Of("mask", k)
  BY <1>8, <1>9, <1>10
<1> QED BY <1>1, <1>2, <1>3, <1>9, <1>11, <1>12, <1>13 DEF Of, ext

\* The byte d is byte o of the frame f, the j-th of its stream.
ByteOf(d, f, j, o) ==
    /\ d.j = j /\ d.f = f
    /\ o <= HeadLen(f) => d.b # "data"
    /\ o > HeadLen(f) => d.b = "data" /\ d.k = o - HeadLen(f)

\* The bytes of a frame are its own, and those behind the header its payload.
LEMMA FrameBytesOf ==
    ASSUME NEW f \in Frame, NEW j \in Nat, NEW o \in 1 .. FrameLen(f)
    PROVE  ByteOf(FrameBytes(f, j)[o], f, j, o)
<1> DEFINE ext == ExtBytes(f.n)
           head == HeadLen(f)
           bytes == FrameBytes(f, j)
           d == bytes[o]
           Of(t, n) == [b |-> t, f |-> f, j |-> j, k |-> n]
<1>1. /\ ext \in {0, 2, 8} /\ head \in Nat /\ f.n \in Nat
      /\ bytes[1] = Of("flags", 1) /\ bytes[2] = Of("len", 1)
      /\ \A k \in 1 .. ext : bytes[2 + k] = Of("ext", k)
      /\ \A k \in 1 .. head - (2 + ext) : bytes[2 + ext + k] = Of("mask", k)
      /\ \A k \in 1 .. f.n : bytes[head + k] = Of("data", k)
  BY FrameBytesAre, Zenon
<1>2. /\ FrameLen(f) = head + f.n /\ 2 + ext <= head
  <2>1. f.masked \in BOOLEAN
    BY DEF Frame
  <2> QED BY <1>1, <2>1 DEF FrameLen, HeadLen
<1>3. ASSUME NEW t, NEW n, d = Of(t, n) PROVE d.j = j /\ d.f = f /\ d.b = t /\ d.k = n
  BY <1>3
<1> HIDE DEF ext, head, bytes, Of
<1>4. ASSUME o <= head
      PROVE  \E t \in {"flags", "len", "ext", "mask"}, n \in Nat : d = Of(t, n)
  <2>1. CASE o \in 1 .. 2
    <3>1. o = 1 \/ o = 2
      BY <2>1
    <3> QED BY <1>1, <3>1
  <2>2. CASE o \in 3 .. 2 + ext
    <3>1. o - 2 \in 1 .. ext /\ 2 + (o - 2) = o /\ o - 2 \in Nat
      BY <1>1, <2>2
    <3> QED BY <1>1, <3>1
  <2>3. CASE o \in 3 + ext .. head
    <3>1. o - (2 + ext) \in 1 .. head - (2 + ext) /\ 2 + ext + (o - (2 + ext)) = o /\ o - (2 + ext) \in Nat
      BY <1>1, <2>3
    <3> QED BY <1>1, <3>1
  <2> QED BY <1>1, <1>2, <1>4, <2>1, <2>2, <2>3
<1>5. ASSUME o > head PROVE d = Of("data", o - head)
  <2>1. o - head \in 1 .. f.n /\ head + (o - head) = o
    BY <1>1, <1>2, <1>5
  <2> QED BY <1>1, <2>1
<1>6. o <= head \/ o > head
  BY <1>1, <1>2
<1> HIDE DEF d
<1>7. CASE o <= head
  <2>1. ~(o > head)
    BY <1>1, <1>2, <1>7
  <2>2. d.j = j /\ d.f = f /\ d.b # "data"
    BY <1>3, <1>4, <1>7
  <2> QED BY <2>1, <2>2 DEF ByteOf, head, d, bytes
<1>8. CASE o > head
  <2>1. ~(o <= head)
    BY <1>1, <1>2, <1>8
  <2>2. d.j = j /\ d.f = f /\ d.b = "data" /\ d.k = o - head
    BY <1>3, <1>5, <1>8
  <2> QED BY <2>1, <2>2 DEF ByteOf, head, d, bytes
<1> QED BY <1>6, <1>7, <1>8

\* The frame j begins behind s bytes of the stream, or the stream ends there.
Begins(frames, j, s) ==
    /\ j \in 1 .. Len(frames) + 1
    /\ \E G : Joined(G, frames) /\ Bytes[frames] = G[Len(frames)] /\ s = Len(G[j - 1])

\* What is behind the first m0 frames is of a later frame, and what is in them stays.
LEMMA JoinedGrows ==
    ASSUME WebsocketAssumption, NEW frames \in AllStreams, NEW G, Joined(G, frames),
           NEW m0 \in 0 .. Len(frames)
    PROVE  \A m \in m0 .. Len(frames) :
              /\ Len(G[m0]) <= Len(G[m])
              /\ \A x \in 1 .. Len(G[m0]) : G[m][x] = G[m0][x]
              /\ \A x \in Len(G[m0]) + 1 .. Len(G[m]) : G[m][x].j > m0
<1> DEFINE n == Len(frames)
           Kept(m) == /\ Len(G[m0]) <= Len(G[m])
                      /\ \A x \in 1 .. Len(G[m0]) : G[m][x] = G[m0][x]
                      /\ \A x \in Len(G[m0]) + 1 .. Len(G[m]) : G[m][x].j > m0
           Bad == {m \in m0 .. n : ~Kept(m)}
<1>1. /\ n \in Nat /\ m0 \in 0 .. n
      /\ \A m \in 1 .. n : frames[m] \in Frame /\ FrameBytes(frames[m], m) \in Seq(StreamBytes)
  BY FramesTyped
<1>2. \A m \in 1 .. n : G[m] = G[m - 1] \o FrameBytes(frames[m], m)
  BY DEF Joined
<1>3. \A m \in 0 .. n : G[m] \in Seq(StreamBytes)
  BY JoinedTyped
<1>4. \A m \in 0 .. n : Len(G[m]) \in Nat
  BY <1>3, LenProperties
<1> HIDE DEF n
<1>5. Bad = {}
  <2> SUFFICES ASSUME Bad # {} PROVE FALSE
    OBVIOUS
  <2>1. PICK m \in Bad : \A k \in Bad : m <= k
    <3>1. Bad \subseteq Nat
      BY <1>1
    <3> HIDE DEF Bad
    <3> QED BY <3>1, Least
  <2>2. Kept(m0)
    BY <1>1, <1>4
  <2>3. m # m0
    BY <2>2
  <2>4. m - 1 \in m0 .. n /\ m \in 1 .. n /\ m - 1 \in 0 .. n /\ ~(m <= m - 1) /\ m > m0
    <3>1. m \in m0 .. n /\ m0 \in 0 .. n /\ n \in Nat
      BY <1>1, <2>1
    <3> HIDE DEF Bad
    <3> QED BY <2>3, <3>1
  <2>5. Kept(m - 1)
    BY <2>1, <2>4
  <2> DEFINE s == G[m - 1]
             t == FrameBytes(frames[m], m)
  <2>6. s \in Seq(StreamBytes) /\ t \in Seq(StreamBytes) /\ G[m] = s \o t
    BY <1>1, <1>2, <1>3, <2>4
  <2>7. Len(t) = FrameLen(frames[m]) /\ \A x \in 1 .. Len(t) : t[x].j = m
    <3>1. frames[m] \in Frame /\ m \in Nat
      BY <1>1, <2>4
    <3>2. Len(t) = FrameLen(frames[m])
      BY <3>1, FrameBytesAre
    <3>3. \A x \in 1 .. FrameLen(frames[m]) : t[x].j = m
      <4> SUFFICES ASSUME NEW x \in 1 .. FrameLen(frames[m]) PROVE t[x].j = m
        OBVIOUS
      <4>1. ByteOf(FrameBytes(frames[m], m)[x], frames[m], m, x)
        BY <3>1, FrameBytesOf, Zenon
      <4> QED BY <4>1, Zenon DEF ByteOf
    <3> QED BY <3>2, <3>3
  <2> DEFINE a == Len(G[m0])
  <2>8. /\ a \in Nat /\ a <= Len(s)
        /\ \A x \in 1 .. a : s[x] = G[m0][x]
        /\ \A x \in a + 1 .. Len(s) : s[x].j > m0
    BY <1>1, <1>4, <2>5
  <2> HIDE DEF s, t, a
  <2>9. /\ Len(G[m]) = Len(s) + Len(t) /\ Len(s) \in Nat /\ Len(t) \in Nat
        /\ \A x \in 1 .. Len(s) : G[m][x] = s[x]
        /\ \A x \in 1 .. Len(t) : G[m][Len(s) + x] = t[x]
    BY <2>6, BehindIs
  <2>10. a <= Len(G[m]) /\ \A x \in 1 .. a : G[m][x] = G[m0][x]
    BY <2>8, <2>9
  <2>11. ASSUME NEW x \in a + 1 .. Len(G[m]) PROVE G[m][x].j > m0
    <3>1. CASE x <= Len(s)
      <4>1. x \in 1 .. Len(s) /\ x \in a + 1 .. Len(s)
        BY <2>8, <2>9, <3>1
      <4>2. G[m][x] = s[x]
        BY <2>9, <4>1, Zenon
      <4>3. s[x].j > m0
        BY <2>8, <4>1, Zenon
      <4> QED BY <4>2, <4>3, Zenon
    <3>2. CASE ~(x <= Len(s))
      <4>1. x - Len(s) \in 1 .. Len(t) /\ Len(s) + (x - Len(s)) = x
        BY <2>8, <2>9, <3>2
      <4> QED BY <2>4, <2>7, <2>9, <4>1
    <3> QED BY <3>1, <3>2
  <2>12. Kept(m)
    BY <2>10, <2>11 DEF a
  <2> QED BY <2>1, <2>12
<1> QED BY <1>5 DEF n

\* The first frame begins where the stream does,
LEMMA BeginsFirst ==
    ASSUME WebsocketAssumption, NEW frames \in AllStreams
    PROVE  Begins(frames, 1, 0)
<1>1. PICK G : Joined(G, frames) /\ Bytes[frames] = G[Len(frames)]
  BY BytesJoined
<1>2. 1 \in 1 .. Len(frames) + 1 /\ 1 - 1 = 0
  BY FramesTyped
<1>3. Len(G[0]) = 0
  BY <1>1 DEF Joined
<1> QED BY <1>1, <1>2, <1>3 DEF Begins

\* What is behind s bytes is the frame j and later ones, or nothing.
Behind(frames, j, s) ==
    LET bytes == Bytes[frames]
        f == frames[j]
    IN  /\ j \in 1 .. Len(frames) + 1 /\ Len(frames) \in Nat
        /\ Len(bytes) \in Nat /\ s \in 0 .. Len(bytes)
        /\ \A x \in s + 1 .. Len(bytes) : bytes[x].j >= j
        /\ j = Len(frames) + 1 => s = Len(bytes)
        /\ j # Len(frames) + 1 =>
              /\ f \in Frame /\ FrameLen(f) \in Nat /\ s + FrameLen(f) <= Len(bytes)
              /\ \A o \in 1 .. FrameLen(f) : bytes[s + o] = FrameBytes(f, j)[o]
              /\ Begins(frames, j + 1, s + FrameLen(f))

\* and a frame begins where the one before it ends.
LEMMA BeginsNext ==
    ASSUME WebsocketAssumption, NEW frames \in AllStreams, NEW j, NEW s, Begins(frames, j, s)
    PROVE  Behind(frames, j, s)
<1> DEFINE n == Len(frames)
           bytes == Bytes[frames]
<1>1. j \in 1 .. n + 1
  BY DEF Begins
<1>2. PICK G : Joined(G, frames) /\ bytes = G[n] /\ s = Len(G[j - 1])
  BY DEF Begins
<1>3. n \in Nat /\ \A m \in 1 .. n : frames[m] \in Frame /\ FrameBytes(frames[m], m) \in Seq(StreamBytes)
  BY FramesTyped
<1>4. \A m \in 0 .. n : G[m] \in Seq(StreamBytes)
  BY <1>2, JoinedTyped
<1>5. \A m \in 0 .. n : Len(G[m]) \in Nat
  BY <1>4, LenProperties
<1>6. \A m0 \in 0 .. n : /\ Len(G[m0]) <= Len(G[n])
                         /\ \A x \in 1 .. Len(G[m0]) : G[n][x] = G[m0][x]
                         /\ \A x \in Len(G[m0]) + 1 .. Len(G[n]) : G[n][x].j > m0
  <2>1. \A m0 \in 0 .. n : n \in m0 .. n
    BY <1>3
  <2> QED BY <1>2, <2>1, JoinedGrows
<1>7. \A m \in 1 .. n : G[m] = G[m - 1] \o FrameBytes(frames[m], m)
  BY <1>2 DEF Joined
<1> HIDE DEF n, bytes
<1>8. j - 1 \in 0 .. n /\ n \in 0 .. n
  BY <1>1, <1>3
<1>9. Len(bytes) \in Nat /\ s \in 0 .. Len(bytes)
  BY <1>2, <1>5, <1>6, <1>8
<1>10. ASSUME NEW x \in s + 1 .. Len(bytes) PROVE bytes[x].j >= j
  <2>1. bytes[x].j > j - 1 /\ x \in 1 .. Len(bytes)
    BY <1>2, <1>6, <1>8, <1>9
  <2>2. bytes[x] \in StreamBytes
    BY <1>2, <1>4, <1>8, <2>1, ElementOfSeq
  <2>3. bytes[x].j \in Nat
    BY <2>2 DEF StreamBytes
  <2> QED BY <1>1, <1>3, <2>1, <2>3
<1>11. j = n + 1 => s = Len(bytes)
  BY <1>2, <1>3
<1>12. ASSUME j # n + 1
       PROVE  /\ frames[j] \in Frame /\ FrameLen(frames[j]) \in Nat /\ s + FrameLen(frames[j]) <= Len(bytes)
              /\ \A o \in 1 .. FrameLen(frames[j]) : bytes[s + o] = FrameBytes(frames[j], j)[o]
              /\ Begins(frames, j + 1, s + FrameLen(frames[j]))
  <2>1. j \in 1 .. n /\ j \in 0 .. n /\ j \in Nat /\ j + 1 \in 1 .. n + 1 /\ (j + 1) - 1 = j
    BY <1>1, <1>3, <1>12
  <2> DEFINE t == FrameBytes(frames[j], j)
             was == G[j - 1]
             len == FrameLen(frames[j])
  <2>2. t \in Seq(StreamBytes) /\ Len(t) = len /\ len \in Nat /\ frames[j] \in Frame
    BY <1>3, <2>1, FrameBytesAre
  <2>3. was \in Seq(StreamBytes) /\ G[j] = was \o t /\ Len(was) = s
    BY <1>2, <1>4, <1>7, <1>8, <2>1
  <2> HIDE DEF t, was, len
  <2>4. Len(G[j]) = s + len /\ \A o \in 1 .. len : G[j][s + o] = t[o]
    <3>1. /\ Len(was \o t) = Len(was) + Len(t)
          /\ \A o \in 1 .. Len(t) : (was \o t)[Len(was) + o] = t[o]
      <4>1. was \in Seq(StreamBytes) /\ t \in Seq(StreamBytes)
        BY <2>2, <2>3
      <4> QED BY <4>1, BehindIs
    <3> QED BY <2>2, <2>3, <3>1
  <2>5. s + len <= Len(bytes)
    BY <1>2, <1>6, <2>1, <2>4
  <2>6. ASSUME NEW o \in 1 .. len PROVE bytes[s + o] = t[o]
    <3>1. s + o \in 1 .. s + len
      BY <1>9, <2>2
    <3> QED BY <1>2, <1>6, <2>1, <2>4, <3>1
  <2>7. Begins(frames, j + 1, s + len)
    BY <1>2, <2>1, <2>4 DEF Begins, n, bytes
  <2> QED BY <2>2, <2>5, <2>6, <2>7 DEF t, len
<1> QED BY <1>1, <1>3, <1>9, <1>10, <1>11, <1>12 DEF n, bytes, Behind
\* The frame j is where it begins.
FrameAt(frames, j, s) ==
    LET bytes == Bytes[frames]
        f == frames[j]
    IN  /\ j \in Nat /\ j \in 1 .. Len(frames) /\ Len(frames) \in Nat /\ f \in Frame
        /\ HeadLen(f) \in Nat /\ f.n \in Nat /\ FrameLen(f) = HeadLen(f) + f.n
        /\ s \in Nat /\ Len(bytes) \in Nat /\ s + FrameLen(f) <= Len(bytes)
        /\ \A o \in 1 .. FrameLen(f) : bytes[s + o] = FrameBytes(f, j)[o]
        /\ Begins(frames, j + 1, s + FrameLen(f))

LEMMA FrameThere ==
    ASSUME WebsocketAssumption, NEW frames \in AllStreams, NEW j, NEW s, Begins(frames, j, s),
           j # Len(frames) + 1
    PROVE  FrameAt(frames, j, s)
<1> DEFINE bytes == Bytes[frames]
           f == frames[j]
<1>1. /\ j \in 1 .. Len(frames) + 1 /\ Len(frames) \in Nat /\ Len(bytes) \in Nat /\ s \in 0 .. Len(bytes)
      /\ f \in Frame /\ FrameLen(f) \in Nat /\ s + FrameLen(f) <= Len(bytes)
      /\ \A o \in 1 .. FrameLen(f) : bytes[s + o] = FrameBytes(f, j)[o]
      /\ Begins(frames, j + 1, s + FrameLen(f))
  BY BeginsNext DEF Behind
<1>2. HeadLen(f) \in Nat /\ f.n \in Nat /\ FrameLen(f) = HeadLen(f) + f.n
  BY <1>1, FrameBytesAre DEF FrameLen
<1> HIDE DEF bytes, f
<1>3. j \in Nat /\ j \in 1 .. Len(frames) /\ s \in Nat
  BY <1>1
<1> QED BY <1>1, <1>2, <1>3 DEF FrameAt, bytes, f
-----------------------------------------------------------------------------
(* What is given for the bytes of a stream.                                *)

\* Nothing more is given while nothing is handed over,
LEMMA SameContent ==
    ASSUME NEW C, NEW m \in Nat, NEW l \in Nat, m <= l, \A x \in m + 1 .. l : C[x] = C[x - 1]
    PROVE  \A x \in m .. l : C[x] = C[m]
<1> DEFINE Bad == {x \in m .. l : C[x] # C[m]}
<1> SUFFICES ASSUME Bad # {} PROVE FALSE
  OBVIOUS
<1>1. PICK x \in Bad : \A y \in Bad : x <= y
  <2>1. Bad \subseteq Nat
    OBVIOUS
  <2> HIDE DEF Bad
  <2> QED BY <2>1, Least
<1>2. x \in m + 1 .. l /\ x - 1 \in m .. l /\ ~(x <= x - 1)
  BY <1>1
<1>3. x - 1 \notin Bad
  <2> HIDE DEF Bad
  <2> QED BY <1>1, <1>2
<1>4. C[x - 1] = C[m] /\ C[x] = C[x - 1]
  BY <1>2, <1>3
<1> QED BY <1>1, <1>4

\* and what is handed over one by one comes behind what was given.
LEMMA MoreContent ==
    ASSUME NEW C, NEW m \in Nat, NEW it \in Seq(Given), C[m] \in Seq(Given),
           \A x \in 1 .. Len(it) : C[m + x] = Append(C[m + (x - 1)], it[x])
    PROVE  C[m + Len(it)] = C[m] \o it
<1> DEFINE g == C[m]
           a == Len(g)
           n == Len(it)
           Is(i) == /\ C[m + i] \in Seq(Given) /\ Len(C[m + i]) = a + i
                    /\ \A x \in 1 .. a : C[m + i][x] = g[x]
                    /\ \A x \in 1 .. i : C[m + i][a + x] = it[x]
           Bad == {i \in 0 .. n : ~Is(i)}
<1>1. a \in Nat /\ n \in Nat /\ g \in Seq(Given) /\ \A x \in 1 .. n : it[x] \in Given
  BY LenProperties, ElementOfSeq
<1>2. \A x \in 1 .. n : C[m + x] = Append(C[m + (x - 1)], it[x])
  OBVIOUS
<1>3. C[m + 0] = g
  OBVIOUS
<1>4. a = Len(g)
  OBVIOUS
<1> HIDE DEF g, a, n
<1>5. Bad = {}
  <2> SUFFICES ASSUME Bad # {} PROVE FALSE
    OBVIOUS
  <2>1. PICK i \in Bad : \A k \in Bad : i <= k
    <3>1. Bad \subseteq Nat
      OBVIOUS
    <3> HIDE DEF Bad
    <3> QED BY <3>1, Least
  <2>2. Is(0)
    BY <1>1, <1>3, <1>4
  <2>3. i \in 1 .. n /\ i - 1 \in 0 .. n /\ ~(i <= i - 1)
    <3>1. i \in 0 .. n /\ i # 0
      BY <2>1, <2>2
    <3> HIDE DEF Bad
    <3> QED BY <1>1, <3>1
  <2>4. i - 1 \notin Bad
    <3> HIDE DEF Bad
    <3> QED BY <2>1, <2>3
  <2>5. Is(i - 1)
    BY <2>3, <2>4
  <2> DEFINE s == C[m + (i - 1)]
             e == it[i]
             t == C[m + i]
  <2>6. t = Append(s, e) /\ s \in Seq(Given) /\ e \in Given /\ Len(s) = a + (i - 1)
    BY <1>1, <1>2, <2>3, <2>5
  <2>7. /\ \A x \in 1 .. a : s[x] = g[x]
        /\ \A x \in 1 .. i - 1 : s[a + x] = it[x]
    BY <2>5
  <2> HIDE DEF s, t
  <2>8. /\ t \in Seq(Given) /\ Len(t) = Len(s) + 1 /\ t[Len(s) + 1] = e
        /\ \A x \in 1 .. Len(s) : t[x] = s[x]
    BY <2>6, AppendProperties
  <2>9. Len(t) = a + i /\ t[a + i] = it[i] /\ \A x \in 1 .. a + (i - 1) : t[x] = s[x]
    <3>1. Len(s) + 1 = a + i
      BY <1>1, <2>3, <2>6
    <3> QED BY <2>6, <2>8, <3>1
  <2>10. \A x \in 1 .. a : t[x] = g[x]
    BY <1>1, <2>3, <2>7, <2>9
  <2>11. ASSUME NEW x \in 1 .. i PROVE t[a + x] = it[x]
    <3>1. CASE x = i
      BY <2>9, <3>1
    <3>2. CASE x # i
      <4>1. x \in 1 .. i - 1 /\ a + x \in 1 .. a + (i - 1)
        BY <1>1, <2>3, <3>2
      <4> QED BY <2>7, <2>9, <4>1
    <3> QED BY <3>1, <3>2
  <2>12. Is(i)
    BY <2>8, <2>9, <2>10, <2>11 DEF t
  <2> QED BY <2>1, <2>12
<1>6. Is(n)
  BY <1>1, <1>5
<1>7. /\ g \o it \in Seq(Given) /\ Len(g \o it) = a + n
      /\ \A x \in 1 .. a : (g \o it)[x] = g[x]
      /\ \A x \in 1 .. n : (g \o it)[a + x] = it[x]
  BY <1>1, <1>4, BehindIs DEF n
<1> DEFINE u == g \o it
           v == C[m + n]
<1>8. u \in Seq(Given) /\ v \in Seq(Given) /\ Len(u) = a + n /\ Len(v) = a + n
  BY <1>6, <1>7
<1>9. ASSUME NEW x \in 1 .. a + n PROVE v[x] = u[x]
  <2>1. CASE x \in 1 .. a
    BY <1>6, <1>7, <2>1
  <2>2. CASE x \notin 1 .. a
    <3>1. x - a \in 1 .. n /\ a + (x - a) = x
      BY <1>1, <2>2
    <3> QED BY <1>6, <1>7, <3>1
  <2> QED BY <2>1, <2>2
<1> HIDE DEF u, v
<1>10. v = u
  BY <1>8, <1>9, SeqEqual
<1> QED BY <1>10 DEF u, v, g, n

\* What the application is to be given for the first bytes of a stream exists for any
\* number of them.
LEMMA ContentIs ==
    ASSUME WebsocketAssumption, NEW frames \in AllStreams
    PROVE  LET C == Content(frames)
           IN  /\ C[0] = <<>>
               /\ \A i \in 1 .. Len(Bytes[frames]) : C[i] = Handed(frames, C[i - 1], Bytes[frames][i])
<1> DEFINE B == Bytes[frames]
           n == Len(B)
           Fits(f, m) == f = [i \in 0 .. m |-> IF i = 0 THEN <<>> ELSE Handed(frames, f[i - 1], B[i])]
           Unfit == {m \in 0 .. n : ~ \E f : Fits(f, m)}
<1>1. n \in Nat
  BY BytesTyped, LenProperties
<1> HIDE DEF B
<1>2. Unfit = {}
  <2> SUFFICES ASSUME Unfit # {} PROVE FALSE
    OBVIOUS
  <2>1. PICK m \in Unfit : \A k \in Unfit : m <= k
    <3>1. Unfit \subseteq Nat
      OBVIOUS
    <3> HIDE DEF Unfit
    <3> QED BY <3>1, Least
  <2> HIDE DEF n
  <2>2. m # 0
    <3>1. Fits([i \in 0 .. 0 |-> <<>>], 0)
      OBVIOUS
    <3> QED BY <3>1
  <2>3. PICK f : Fits(f, m - 1)
    <3>1. m \in 0 .. n
      OBVIOUS
    <3>2. m - 1 \in 0 .. n /\ ~(m <= m - 1)
      BY <1>1, <2>2, <3>1
    <3>3. m - 1 \notin Unfit
      <4> HIDE DEF Unfit
      <4> QED BY <2>1, <3>2
    <3> QED BY <3>2, <3>3
  <2>4. Fits([i \in 0 .. m |-> IF i = m THEN Handed(frames, f[m - 1], B[m]) ELSE f[i]], m)
    BY <1>1, <2>2, <2>3
  <2> QED BY <2>1, <2>4
<1>3. \E f : Fits(f, n)
  <2>1. n \in 0 .. n /\ n \notin Unfit
    BY <1>1, <1>2
  <2> QED BY <2>1, Zenon
<1> DEFINE F == CHOOSE f : Fits(f, n)
<1>4. Fits(F, n)
  BY <1>3
<1>5. Content(frames) = F
  BY DEF Content, B
<1>6. \A m \in 0 .. n : F[m] = IF m = 0 THEN <<>> ELSE Handed(frames, F[m - 1], B[m])
  BY <1>4
<1> HIDE DEF F
<1>7. F[0] = <<>>
  BY <1>1, <1>6
<1>8. \A m \in 1 .. n : F[m] = Handed(frames, F[m - 1], B[m])
  <2> HIDE DEF n
  <2>1. \A m \in 1 .. n : m \in 0 .. n /\ m # 0
    BY <1>1
  <2> QED BY <1>6, <2>1
<1> QED BY <1>5, <1>7, <1>8 DEF n, B

\* Nothing is given for the bytes up to l, behind the s where the frame j begins.
NothingFor(frames, j, s, l) ==
    \/ l <= s + HeadLen(frames[j])
    \/ l <= s + FrameLen(frames[j]) /\ frames[j].op \notin Data
    \/ Ends(frames[j])

\* What is given for the first m bytes is what is given for the first l.
SameFor(frames, m, l) == \A x \in m .. l : Content(frames)[x] = Content(frames)[m]

\* Nothing is given for a header, for a frame that has no data, and for all that comes
\* behind the end of the websocket.
LEMMA NoContent ==
    ASSUME WebsocketAssumption, NEW frames \in AllStreams, NEW j, NEW s, Begins(frames, j, s),
           NEW m \in s .. Len(Bytes[frames]), NEW l \in m .. Len(Bytes[frames]),
           j # Len(frames) + 1, NothingFor(frames, j, s, l)
    PROVE  SameFor(frames, m, l)
<1> DEFINE C == Content(frames)
           B == Bytes[frames]
           n == Len(B)
           f == frames[j]
<1>1. /\ n \in Nat /\ s \in 0 .. n /\ j \in Nat /\ j \in 1 .. Len(frames)
      /\ f \in Frame /\ FrameLen(f) \in Nat /\ s + FrameLen(f) <= n
      /\ \A x \in s + 1 .. n : B[x].j >= j
      /\ \A o \in 1 .. FrameLen(f) : B[s + o] = FrameBytes(f, j)[o]
  BY BeginsNext DEF Behind
<1>2. HeadLen(f) \in Nat /\ f.n \in Nat /\ FrameLen(f) = HeadLen(f) + f.n
  BY <1>1, FrameBytesAre DEF FrameLen
<1>3. \A i \in 1 .. n : C[i] = Handed(frames, C[i - 1], B[i])
  BY ContentIs
<1>4. /\ m \in s .. n /\ l \in m .. n
      /\ \/ l <= s + HeadLen(f)
         \/ l <= s + FrameLen(f) /\ f.op \notin Data
         \/ Ends(f)
  BY DEF NothingFor
<1>5. \A x \in 1 .. n : B[x] \in StreamBytes
  BY BytesTyped, ElementOfSeq
<1> HIDE DEF B, n, f, C
<1>6. ASSUME NEW x \in m + 1 .. l PROVE C[x] = C[x - 1]
  <2>1. x \in 1 .. n /\ x \in s + 1 .. n
    BY <1>1, <1>4
  <2> DEFINE d == B[x]
             o == x - s
  <2>2. o \in Nat /\ s + o = x /\ o >= 1 /\ x <= l
    BY <1>1, <1>4, <2>1
  <2> HIDE DEF d, o
  <2>3. o <= FrameLen(f) => /\ d.f = f
                            /\ o <= HeadLen(f) => d.b # "data"
    <3> SUFFICES ASSUME o <= FrameLen(f) PROVE d.f = f /\ (o <= HeadLen(f) => d.b # "data")
      OBVIOUS
    <3>1. o \in 1 .. FrameLen(f)
      BY <1>1, <2>2
    <3>2. d = FrameBytes(f, j)[o]
      BY <1>1, <2>2, <3>1 DEF d
    <3>3. ByteOf(FrameBytes(f, j)[o], f, j, o)
      BY <1>1, <3>1, FrameBytesOf, Zenon
    <3> QED BY <3>2, <3>3 DEF ByteOf
  <2>4. d.b # "data" \/ d.f.op \notin Data \/ \E i \in 1 .. d.j : Ends(frames[i])
    <3>1. CASE l <= s + HeadLen(f)
      <4> DEFINE h == HeadLen(f)
                 all == FrameLen(f)
                 fn == f.n
      <4>1. /\ h \in Nat /\ fn \in Nat /\ all = h + fn /\ l <= s + h /\ l \in Nat /\ s \in Nat
            /\ o \in Nat /\ s + o <= l
        BY <1>1, <1>2, <1>4, <2>2, <3>1
      <4> HIDE DEF h, all, fn
      <4>2. o <= h
        BY <4>1
      <4>3. o <= all
        BY <4>1, <4>2
      <4> QED BY <2>3, <4>2, <4>3 DEF h, all
    <3>2. CASE l <= s + FrameLen(f) /\ f.op \notin Data
      <4>1. o <= FrameLen(f)
        <5> DEFINE all == FrameLen(f)
        <5>1. l <= s + all /\ l \in Nat /\ s \in Nat /\ all \in Nat /\ o \in Nat /\ s + o <= l
          BY <1>1, <1>4, <2>2, <3>2
        <5> HIDE DEF all
        <5>2. o <= all
          BY <5>1
        <5> QED BY <5>2 DEF all
      <4> QED BY <2>3, <3>2, <4>1
    <3>3. CASE Ends(f)
      <4>1. d.j \in Nat /\ d.j >= j
        BY <1>1, <1>5, <2>1 DEF d, StreamBytes
      <4>2. j \in 1 .. d.j
        BY <1>1, <4>1
      <4> QED BY <3>3, <4>2 DEF f
    <3> QED BY <1>4, <3>1, <3>2, <3>3
  <2>5. C[x] = Handed(frames, C[x - 1], d)
    BY <1>3, <2>1 DEF d
  <2> QED BY <2>4, <2>5, Zenon DEF Handed
<1>7. m \in Nat /\ l \in Nat /\ m <= l
  BY <1>1, <1>4
<1>8. \A x \in m .. l : C[x] = C[m]
  BY <1>6, <1>7, SameContent
<1> QED BY <1>8 DEF C, SameFor

\* What is given for the byte k of the payload of the frame f, the j-th.
Item(f, j, k) == [byte |-> [k |-> k, j |-> j, clear |-> TRUE], bin |-> f.op = "BINARY", cont |-> ~f.fin]

\* What is given for sl bytes of it, behind the first k.
Items(f, j, k, sl) == [x \in 1 .. sl |-> Item(f, j, k + x)]

\* They are given for the sl bytes behind the first m.
GivenFor(frames, m, f, j, k, sl) == Content(frames)[m + sl] = Content(frames)[m] \o Items(f, j, k, sl)

\* Where the byte x of a piece is: in its frame, and in the stream.
InPiece(h, l, all, s, m, k, x) ==
    /\ h + k + x \in 1 .. l /\ h + k + x > h /\ (h + k + x) - h = k + x
    /\ s + (h + k + x) = m + x /\ m + x \in 1 .. all /\ (m + x) - 1 = m + (x - 1)

LEMMA PlaceInPayload ==
    ASSUME NEW h \in Nat, NEW l \in Nat, NEW n \in Nat, NEW all \in Nat, NEW s \in Nat, NEW m,
           NEW k \in Nat, NEW sl \in Nat, NEW x \in 1 .. sl,
           l = h + n, k + sl <= n, s + l <= all, m = s + h + k
    PROVE  InPiece(h, l, all, s, m, k, x)
<1>1. x \in Nat /\ x >= 1 /\ k + x <= n /\ m \in Nat
  OBVIOUS
<1>2. h + k + x \in 1 .. l /\ h + k + x > h /\ (h + k + x) - h = k + x
  BY <1>1
<1>3. s + (h + k + x) = m + x /\ (m + x) - 1 = m + (x - 1)
  BY <1>1
<1>4. m + x \in 1 .. all
  BY <1>1
<1> QED BY <1>2, <1>3, <1>4 DEF InPiece

\* For a piece of the payload of data its bytes are given, if the websocket has not ended.
LEMMA PieceContent ==
    ASSUME WebsocketAssumption, NEW frames \in AllStreams, NEW j, NEW s, Begins(frames, j, s),
           j # Len(frames) + 1, frames[j].op \in Data, \A i \in 1 .. j : ~Ends(frames[i]),
           NEW k \in Nat, NEW sl \in Nat, k + sl <= frames[j].n,
           NEW m, m = s + HeadLen(frames[j]) + k, Content(frames)[m] \in Seq(Given)
    PROVE  GivenFor(frames, m, frames[j], j, k, sl)
<1> DEFINE C == Content(frames)
           B == Bytes[frames]
           n == Len(B)
           f == frames[j]
           it == Items(f, j, k, sl)
<1>1. /\ n \in Nat /\ s \in 0 .. n /\ j \in Nat /\ j \in 1 .. Len(frames)
      /\ f \in Frame /\ FrameLen(f) \in Nat /\ s + FrameLen(f) <= n
      /\ \A o \in 1 .. FrameLen(f) : B[s + o] = FrameBytes(f, j)[o]
  BY BeginsNext DEF Behind
<1>2. HeadLen(f) \in Nat /\ f.n \in Nat /\ FrameLen(f) = HeadLen(f) + f.n
  BY <1>1, FrameBytesAre DEF FrameLen
<1>3. \A i \in 1 .. n : C[i] = Handed(frames, C[i - 1], B[i])
  BY ContentIs
<1>4. /\ m = s + HeadLen(f) + k /\ k + sl <= f.n /\ f.op \in Data /\ C[m] \in Seq(Given)
      /\ \A i \in 1 .. j : ~Ends(frames[i])
  OBVIOUS
<1>5. m \in Nat
  BY <1>1, <1>2, <1>4
<1>6. it \in Seq(Given) /\ Len(it) = sl /\ \A x \in 1 .. sl : it[x] = Item(f, j, k + x)
  <2>1. ASSUME NEW x \in 1 .. sl PROVE Item(f, j, k + x) \in Given
    <3>1. k + x \in Nat
      OBVIOUS
    <3> QED BY <1>1, <3>1 DEF Item, Given, Frame
  <2> QED BY <2>1 DEF Items
<1> HIDE DEF B, n, f, C, it
<1>7. ASSUME NEW x \in 1 .. sl PROVE C[m + x] = Append(C[m + (x - 1)], it[x])
  <2> DEFINE o == HeadLen(f) + k + x
             d == B[s + o]
  <2>1. /\ o \in 1 .. FrameLen(f) /\ s + o = m + x /\ m + x \in 1 .. n /\ (m + x) - 1 = m + (x - 1)
        /\ o > HeadLen(f) /\ o - HeadLen(f) = k + x
    <3> DEFINE h == HeadLen(f)
               l == FrameLen(f)
               fn == f.n
    <3>1. /\ h \in Nat /\ l \in Nat /\ fn \in Nat /\ l = h + fn /\ k + sl <= fn
          /\ n \in Nat /\ s \in Nat /\ s + l <= n /\ m = s + h + k
      BY <1>1, <1>2, <1>4
    <3> HIDE DEF h, l, fn
    <3>2. /\ h + k + x \in 1 .. l /\ h + k + x > h /\ (h + k + x) - h = k + x
          /\ s + (h + k + x) = m + x /\ m + x \in 1 .. n /\ (m + x) - 1 = m + (x - 1)
      <4>1. InPiece(h, l, n, s, m, k, x)
        BY <3>1, PlaceInPayload, Zenon
      <4> QED BY <4>1, Zenon DEF InPiece
    <3> QED BY <3>2 DEF h, l
  <2>2. d = FrameBytes(f, j)[o]
    BY <1>1, <2>1
  <2> HIDE DEF o
  <2>3. d.j = j /\ d.f = f /\ d.b = "data" /\ d.k = k + x
    <3>1. ByteOf(FrameBytes(f, j)[o], f, j, o)
      BY <1>1, <2>1, FrameBytesOf, Zenon
    <3> QED BY <2>1, <2>2, <3>1 DEF ByteOf
  <2>4. C[m + x] = Handed(frames, C[m + (x - 1)], d)
    BY <1>3, <2>1
  <2> HIDE DEF d
  <2>5. Handed(frames, C[m + (x - 1)], d) = Append(C[m + (x - 1)], Item(f, j, k + x))
    BY <1>4, <2>3 DEF Handed, Item
  <2> QED BY <1>6, <2>4, <2>5
<1>8. C[m + sl] = C[m] \o it
  BY <1>4, <1>5, <1>6, <1>7, MoreContent
<1> QED BY <1>8 DEF C, it, f, GivenFor
-----------------------------------------------------------------------------
(* The parser in a frame.                                                  *)

\* What the parser has of a frame.
Is(q, st, op, fin, ext, masked, len, ctr, cont) ==
    /\ q.wsStatus = st /\ q.op = op /\ q.fin = fin /\ q.ext = ext /\ q.masked = masked
    /\ q.len = len /\ q.maskCtr = ctr /\ q.frameCont = cont

\* Its variables after the first byte of a frame,
LEMMA FlagsSet ==
    ASSUME NEW p \in Privs, NEW st, NEW op, NEW fin, NEW ctr, NEW cont
    PROVE  Is([p EXCEPT !.maskCtr = ctr, !.frameCont = cont, !.wsStatus = st, !.op = op, !.fin = fin],
              st, op, fin, p.ext, p.masked, p.len, ctr, cont)
BY DEF Privs, Is

\* after the first byte of a length,
LEMMA LengthSet ==
    ASSUME NEW p \in Privs, NEW st, NEW ext, NEW masked, NEW len
    PROVE  Is([p EXCEPT !.ext = ext, !.masked = masked, !.len = len, !.wsStatus = st],
              st, p.op, p.fin, ext, masked, len, p.maskCtr, p.frameCont)
BY DEF Privs, Is

\* after the other bytes of a length,
LEMMA RestSet ==
    ASSUME NEW p \in Privs, NEW st, NEW len
    PROVE  Is([p EXCEPT !.len = len, !.wsStatus = st],
              st, p.op, p.fin, p.ext, p.masked, len, p.maskCtr, p.frameCont)
BY DEF Privs, Is

\* after a byte of a mask,
LEMMA MaskSet ==
    ASSUME NEW p \in Privs, NEW st
    PROVE  Is([p EXCEPT !.wsStatus = st],
              st, p.op, p.fin, p.ext, p.masked, p.len, p.maskCtr, p.frameCont)
BY DEF Privs, Is

\* and after a piece of a payload.
LEMMA PieceSet ==
    ASSUME NEW p \in Privs, NEW st, NEW len, NEW ctr, NEW cont
    PROVE  Is([p EXCEPT !.len = len, !.maskCtr = ctr, !.wsStatus = st, !.frameCont = cont],
              st, p.op, p.fin, p.ext, p.masked, len, ctr, cont)
BY DEF Privs, Is

\* The parser has o bytes of the frame f, fewer than its header.
InHeader(p, f, o) ==
    /\ o \in 1 .. HeadLen(f) - 1
    /\ p.op = f.op /\ p.fin = f.fin /\ p.maskCtr = 0 /\ p.frameCont = FALSE
    /\ \/ o = 1 /\ p.wsStatus = ST_LEN0
       \/ /\ o \in 2 .. 1 + ExtBytes(f.n) /\ p.wsStatus = ST_LEN1 + (o - 2)
          /\ p.ext = ExtBytes(f.n) /\ p.masked = f.masked /\ p.len = 0
       \/ /\ f.masked /\ o >= HeadLen(f) - 4 /\ p.wsStatus = ST_MASK1 + (o - (HeadLen(f) - 4))
          /\ p.masked = f.masked /\ p.len = f.n

\* It has the header and k bytes of the payload.
InPayload(p, f, k) ==
    /\ k \in 0 .. f.n
    /\ p.op = f.op /\ p.fin = f.fin /\ p.wsStatus = ST_PAYLOAD /\ p.masked = f.masked
    /\ p.len = f.n - k /\ p.maskCtr % 4 = k % 4

\* The status of a header is not that of a payload.
LEMMA HeaderStatus ==
    ASSUME NEW p \in Privs, NEW f \in Frame, NEW o, InHeader(p, f, o)
    PROVE  p.wsStatus # ST_PAYLOAD
<1> DEFINE ext == ExtBytes(f.n)
           head == HeadLen(f)
           status == p.wsStatus
<1>1. ext \in {0, 2, 8} /\ head = 2 + ext + (IF f.masked THEN 4 ELSE 0) /\ o \in 1 .. head - 1
  BY DEF ExtBytes, HeadLen, InHeader
<1>2. \/ status = 1
      \/ o \in 2 .. 1 + ext /\ status = 2 + (o - 2)
      \/ o >= head - 4 /\ status = 10 + (o - (head - 4))
  BY DEF InHeader, ST_LEN0, ST_LEN1, ST_MASK1
<1> HIDE DEF ext, head, status
<1>3. head \in Nat
  BY <1>1
<1>4. status # 14
  BY <1>1, <1>2, <1>3
<1> QED BY <1>4 DEF status, ST_PAYLOAD

\* The parser after byte o of a frame, of its header.
HeaderTaken(q, f, o) ==
    \/ InHeader(q, f, o)
    \/ o = HeadLen(f) /\ InPayload(q, f, 0) /\ q.frameCont = FALSE

\* The next byte of a header is taken for what it is.
LEMMA HeaderStep ==
    ASSUME NEW p \in Privs, NEW f \in Frame, NEW j \in Nat, NEW o \in Nat,
           (o = 0 /\ p.wsStatus = ST_FLAGS) \/ InHeader(p, f, o)
    PROVE  HeaderTaken(HeaderByte(p, FrameBytes(f, j)[o + 1]), f, o + 1)
<1> USE DEF ST_FLAGS, ST_LEN0, ST_LEN1, ST_LEN2, ST_LEN8, ST_MASK1, ST_MASK4, ST_PAYLOAD
<1> DEFINE ext == ExtBytes(f.n)
           four == IF f.masked THEN 4 ELSE 0
           head == HeadLen(f)
           d == FrameBytes(f, j)[o + 1]
           q == HeaderByte(p, d)
           Done0 == \/ InHeader(q, f, o + 1)
                    \/ o + 1 = head /\ InPayload(q, f, 0) /\ q.frameCont = FALSE
<1> SUFFICES Done0
  BY Zenon DEF HeaderTaken
<1>1. /\ f.n \in Nat /\ ext \in {0, 2, 8} /\ four \in {0, 4} /\ head = 2 + ext + four
      /\ f.masked \in BOOLEAN /\ (f.masked <=> four = 4)
  BY DEF Frame, ExtBytes, HeadLen
<1>2. /\ FrameBytes(f, j)[1] = [b |-> "flags", f |-> f, j |-> j, k |-> 1]
      /\ FrameBytes(f, j)[2] = [b |-> "len", f |-> f, j |-> j, k |-> 1]
      /\ \A k \in 1 .. ext : FrameBytes(f, j)[2 + k] = [b |-> "ext", f |-> f, j |-> j, k |-> k]
  BY FrameBytesAre, Zenon
<1>3. CASE o = 0
  <2>1. d = [b |-> "flags", f |-> f, j |-> j, k |-> 1] /\ p.wsStatus = 0
    BY <1>2, <1>3 DEF InHeader
  <2>2. d.b = "flags" /\ d.f = f
    BY <2>1
  <2>3. q = [p EXCEPT !.maskCtr = 0, !.frameCont = FALSE, !.wsStatus = ST_LEN0, !.op = f.op, !.fin = f.fin]
    <3> HIDE DEF d
    <3> QED BY <2>1, <2>2 DEF HeaderByte
  <2>4. Is(q, ST_LEN0, f.op, f.fin, p.ext, p.masked, p.len, 0, FALSE)
    <3> DEFINE st == ST_LEN0
               zero == 0
               no == FALSE
               op == f.op
               fin == f.fin
    <3>1. q = [p EXCEPT !.maskCtr = zero, !.frameCont = no, !.wsStatus = st, !.op = op, !.fin = fin]
      BY <2>3
    <3> HIDE DEF st, zero, no, q, op, fin
    <3>2. Is(q, st, op, fin, p.ext, p.masked, p.len, zero, no)
      BY <3>1, FlagsSet
    <3> QED BY <3>2 DEF st, zero, no, op, fin
  <2> HIDE DEF q, ext, four, head
  <2>5. o + 1 = 1 /\ 1 \in 1 .. head - 1
    BY <1>1, <1>3
  <2> QED BY <2>4, <2>5 DEF InHeader, Is, q, head
<1>4. CASE o = 1
  <2>1. InHeader(p, f, 1)
    BY <1>4
  <2>2. p.wsStatus = 1 /\ p.op = f.op /\ p.fin = f.fin /\ p.maskCtr = 0 /\ p.frameCont = FALSE
    <3> HIDE DEF ext, four, head
    <3>1. ~(1 >= head - 4 /\ f.masked)
      BY <1>1
    <3> QED BY <2>1, <3>1 DEF InHeader, head
  <2>3. d.f = f
    <3>1. d = [b |-> "len", f |-> f, j |-> j, k |-> 1]
      BY <1>2, <1>4
    <3> QED BY <3>1
  <2>4. CASE ext > 0
    <3>1. q = [p EXCEPT !.ext = ext, !.masked = f.masked, !.len = 0, !.wsStatus = ST_LEN1]
      <4> HIDE DEF d
      <4> QED BY <2>2, <2>3, <2>4 DEF HeaderByte
    <3>2. Is(q, ST_LEN1, p.op, p.fin, ext, f.masked, 0, p.maskCtr, p.frameCont)
      <4> DEFINE st == ST_LEN1
                 zero == 0
                 masked == f.masked
      <4>1. q = [p EXCEPT !.ext = ext, !.masked = masked, !.len = zero, !.wsStatus = st]
        BY <3>1
      <4> HIDE DEF st, zero, masked, ext, q
      <4>2. Is(q, st, p.op, p.fin, ext, masked, zero, p.maskCtr, p.frameCont)
        BY <4>1, LengthSet
      <4> QED BY <4>2 DEF st, zero, masked
    <3> HIDE DEF q, four, head
    <3>3. o + 1 = 2 /\ 2 \in 1 .. head - 1 /\ 2 \in 2 .. 1 + ext
      BY <1>1, <1>4, <2>4
    <3> QED BY <2>2, <3>2, <3>3 DEF InHeader, Is, q, head
  <2>5. CASE ~(ext > 0)
    <3>1. q = [p EXCEPT !.ext = 0, !.masked = f.masked, !.len = f.n, !.wsStatus = AfterLength(f.masked)]
      <4> HIDE DEF d
      <4> QED BY <2>2, <2>3, <2>5 DEF HeaderByte
    <3>2. Is(q, AfterLength(f.masked), p.op, p.fin, 0, f.masked, f.n, p.maskCtr, p.frameCont)
      <4> DEFINE st == AfterLength(f.masked)
                 zero == 0
                 masked == f.masked
                 len == f.n
      <4>1. q = [p EXCEPT !.ext = zero, !.masked = masked, !.len = len, !.wsStatus = st]
        BY <3>1
      <4> HIDE DEF st, zero, masked, len, q
      <4>2. Is(q, st, p.op, p.fin, zero, masked, len, p.maskCtr, p.frameCont)
        BY <4>1, LengthSet
      <4> QED BY <4>2 DEF st, zero, masked, len
    <3> HIDE DEF q
    <3>3. ext = 0
      BY <1>1, <2>5
    <3>4. CASE f.masked
      <4>1. q.wsStatus = 10 /\ head = 6 /\ o + 1 = 2
        BY <1>1, <1>4, <3>2, <3>3, <3>4 DEF AfterLength, Is
      <4>2. o + 1 \in 1 .. head - 1 /\ o + 1 >= head - 4 /\ 10 = 10 + ((o + 1) - (head - 4))
        BY <4>1
      <4> HIDE DEF head, ext, four, d
      <4> QED BY <2>2, <3>2, <3>4, <4>1, <4>2 DEF InHeader, Is, head, q, d
    <3>5. CASE ~f.masked
      <4>1. q.wsStatus = 14 /\ head = 2 /\ o + 1 = 2
        BY <1>1, <1>4, <3>2, <3>3, <3>5 DEF AfterLength, Is
      <4> HIDE DEF head, ext, four, d
      <4>2. 0 \in 0 .. f.n /\ f.n = f.n - 0
        BY <1>1
      <4> QED BY <2>2, <3>2, <4>1, <4>2 DEF InPayload, Is, head, q, d
    <3> QED BY <3>4, <3>5
  <2> QED BY <2>4, <2>5
<1>5. CASE InHeader(p, f, o) /\ o \in 2 .. 1 + ext
  <2> HIDE DEF ext, four, head
  <2>1. o >= 2 /\ o <= 1 + ext /\ ~(f.masked /\ o >= head - 4) /\ o # 1
    BY <1>1, <1>5
  <2>2. /\ p.wsStatus = 2 + (o - 2) /\ p.ext = ext /\ p.masked = f.masked /\ p.len = 0
        /\ p.op = f.op /\ p.fin = f.fin /\ p.maskCtr = 0 /\ p.frameCont = FALSE
    BY <1>5, <2>1 DEF InHeader, ext, head
  <2>3. d.f = f /\ d.k = o - 1
    <3>1. o - 1 \in 1 .. ext /\ 2 + (o - 1) = o + 1
      BY <1>1, <2>1
    <3>2. d = [b |-> "ext", f |-> f, j |-> j, k |-> o - 1]
      BY <1>2, <3>1
    <3> QED BY <3>2
  <2> DEFINE st == IF (p.ext = 2 /\ p.wsStatus = ST_LEN2) \/ p.wsStatus = ST_LEN8
                   THEN AfterLength(p.masked) ELSE p.wsStatus + 1
             len == p.len * 256 + (IF d.k = ExtBytes(d.f.n) THEN d.f.n ELSE 0)
  <2>4. q = [p EXCEPT !.len = len, !.wsStatus = st]
    <3>1. p.wsStatus \in 2 .. 9 /\ p.wsStatus # 0 /\ p.wsStatus # 1
      BY <1>1, <2>1, <2>2
    <3> HIDE DEF d
    <3> QED BY <3>1 DEF HeaderByte
  <2>5. len = IF o - 1 = ext THEN f.n ELSE 0
    BY <1>1, <2>2, <2>3 DEF ext
  <2>6. st = IF o - 1 = ext THEN AfterLength(f.masked) ELSE o + 1
    BY <1>1, <2>1, <2>2
  <2> HIDE DEF st, len, d, q
  <2>7. Is(q, st, p.op, p.fin, p.ext, p.masked, len, p.maskCtr, p.frameCont)
    BY <2>4, RestSet
  <2>8. CASE o - 1 # ext
    <3>1. o + 1 \in 2 .. 1 + ext /\ o + 1 \in 1 .. head - 1 /\ st = 2 + ((o + 1) - 2) /\ len = 0
      BY <1>1, <2>1, <2>5, <2>6, <2>8
    <3> QED BY <2>2, <2>7, <3>1 DEF InHeader, Is, ext, head, q, d
  <2>9. CASE o - 1 = ext
    <3>1. len = f.n /\ st = AfterLength(f.masked)
      BY <2>5, <2>6, <2>9
    <3>2. CASE f.masked
      <4>1. st = 10 + ((o + 1) - (head - 4)) /\ o + 1 \in 1 .. head - 1 /\ o + 1 >= head - 4
        BY <1>1, <2>1, <2>9, <3>1, <3>2 DEF AfterLength
      <4> QED BY <2>2, <2>7, <3>1, <3>2, <4>1 DEF InHeader, Is, head, q, d
    <3>3. CASE ~f.masked
      <4>1. st = 14 /\ o + 1 = head
        BY <1>1, <2>1, <2>9, <3>1, <3>3 DEF AfterLength
      <4> QED BY <1>1, <2>2, <2>7, <3>1, <4>1 DEF InPayload, Is, head, q, d
    <3> QED BY <3>2, <3>3
  <2> QED BY <2>8, <2>9
<1>6. CASE InHeader(p, f, o) /\ o # 1 /\ o \notin 2 .. 1 + ext
  <2> HIDE DEF ext, four, head
  <2>1. /\ f.masked /\ o >= head - 4 /\ o \in 1 .. head - 1 /\ p.wsStatus = 10 + (o - (head - 4))
        /\ p.masked = f.masked /\ p.len = f.n
        /\ p.op = f.op /\ p.fin = f.fin /\ p.maskCtr = 0 /\ p.frameCont = FALSE
    BY <1>6 DEF InHeader, ext, head
  <2> DEFINE st == p.wsStatus + 1
  <2>2. q = [p EXCEPT !.wsStatus = st]
    <3>1. p.wsStatus \in 10 .. 13 /\ p.wsStatus # 0 /\ p.wsStatus # 1 /\ p.wsStatus \notin 2 .. 9
      BY <1>1, <2>1
    <3> HIDE DEF d
    <3> QED BY <3>1 DEF HeaderByte
  <2>3. st = 10 + ((o + 1) - (head - 4)) /\ o + 1 >= head - 4
    BY <1>1, <2>1
  <2> HIDE DEF st, q
  <2>4. Is(q, st, p.op, p.fin, p.ext, p.masked, p.len, p.maskCtr, p.frameCont)
    BY <2>2, MaskSet
  <2>5. CASE o + 1 < head
    <3>1. o + 1 \in 1 .. head - 1
      BY <1>1, <2>1, <2>5
    <3> QED BY <2>1, <2>3, <2>4, <3>1 DEF InHeader, Is, head, q, d
  <2>6. CASE ~(o + 1 < head)
    <3>1. o + 1 = head /\ st = 14
      BY <1>1, <2>1, <2>3, <2>6
    <3> QED BY <1>1, <2>1, <2>4, <3>1 DEF InPayload, Is, head, q, d
  <2> QED BY <2>5, <2>6
<1> QED BY <1>3, <1>4, <1>5, <1>6
-----------------------------------------------------------------------------
(* What is made of a payload.                                              *)

\* The counter of the mask wraps at a multiple of the length of a mask.
LEMMA CtrWraps ==
    ASSUME NEW a \in Nat
    PROVE  (a % 256) % 4 = a % 4 /\ a % 256 \in 0 .. 255
OBVIOUS

\* What is in step with the mask stays so.
LEMMA InStep ==
    ASSUME NEW a \in Nat, NEW b \in Nat, a % 4 = b % 4, NEW y \in Nat
    PROVE  (a + y) % 4 = (b + y) % 4
OBVIOUS

\* From i on there are sl bytes of the payload of the frame j, behind the first k.
PieceAt(data, i, sl, j, k) ==
    /\ i \in Nat \ {0} /\ i + sl <= Len(data) + 1
    /\ \A x \in 1 .. sl : data[(i + x) - 1].k = k + x /\ data[(i + x) - 1].j = j

\* They are unmasked.
Clear(j, k, sl) == [x \in 1 .. sl |-> [k |-> k + x, j |-> j, clear |-> TRUE]]

\* A piece of a payload comes out unmasked, wherever it begins.
LEMMA PieceClear ==
    ASSUME NEW p \in Privs, NEW f \in Frame, NEW k \in Nat, InPayload(p, f, k), NEW j,
           NEW data \in Seq(StreamBytes), NEW i, NEW sl \in Nat, PieceAt(data, i, sl, j, k)
    PROVE  Unmasked(p, SubSeq(data, i, i + sl - 1)) = Clear(j, k, sl)
<1> DEFINE s == SubSeq(data, i, i + sl - 1)
<1>0. /\ i \in Nat \ {0} /\ i + sl <= Len(data) + 1
      /\ \A x \in 1 .. sl : data[(i + x) - 1].k = k + x /\ data[(i + x) - 1].j = j
  BY DEF PieceAt
<1>1. /\ Len(data) \in Nat /\ \A x \in 1 .. Len(data) : data[x] \in StreamBytes
      /\ p.maskCtr \in Nat /\ p.maskCtr % 4 = k % 4
  <2>1. Len(data) \in Nat /\ \A x \in 1 .. Len(data) : data[x] \in StreamBytes
    BY LenProperties, ElementOfSeq
  <2>2. p.maskCtr \in Nat
    <3>1. p.maskCtr \in 0 .. 255
      BY DEF Privs
    <3>2. \A x \in 0 .. 255 : x \in Nat
      OBVIOUS
    <3> QED BY <3>1, <3>2, Zenon
  <2>3. p.maskCtr % 4 = k % 4
    BY DEF InPayload
  <2> QED BY <2>1, <2>2, <2>3
<1>2. /\ DOMAIN s = 1 .. sl
      /\ \A x \in 1 .. sl : s[x] = data[(i + x) - 1]
  <2>1. i \in Nat /\ i + sl - 1 \in Nat /\ \A x \in i .. i + sl - 1 : x \in 1 .. Len(data)
    BY <1>0, <1>1
  <2>2. \A x \in i .. i + sl - 1 : data[x] \in StreamBytes
    BY <1>1, <2>1
  <2> DEFINE l == i + sl - 1
  <2>3. l \in Int /\ i \in Int /\ \A x \in i .. l : data[x] \in StreamBytes
    BY <2>1, <2>2
  <2> HIDE DEF l
  <2>4. /\ SubSeq(data, i, l) \in Seq(StreamBytes)
        /\ Len(SubSeq(data, i, l)) = IF i <= l THEN l - i + 1 ELSE 0
        /\ \A x \in 1 .. l - i + 1 : SubSeq(data, i, l)[x] = data[i + x - 1]
    BY <2>3, SubSeqProperties
  <2> USE DEF l
  <2>5. (IF i <= l THEN l - i + 1 ELSE 0) = sl /\ l - i + 1 = sl
    BY <2>1
  <2>6. DOMAIN SubSeq(data, i, l) = 1 .. Len(SubSeq(data, i, l))
    BY <2>4, LenProperties
  <2>7. \A x \in 1 .. sl : i + x - 1 = (i + x) - 1
    BY <2>1
  <2> HIDE DEF l
  <2>8. DOMAIN SubSeq(data, i, l) = 1 .. sl /\ \A x \in 1 .. sl : SubSeq(data, i, l)[x] = data[(i + x) - 1]
    BY <2>4, <2>5, <2>6, <2>7
  <2> QED BY <2>8 DEF l
<1> HIDE DEF s
<1>3. ASSUME NEW x \in 1 .. sl
      PROVE  [k |-> s[x].k, j |-> s[x].j, clear |-> (s[x].k - 1) % 4 = (p.maskCtr + x - 1) % 4]
                = [k |-> k + x, j |-> j, clear |-> TRUE]
  <2>1. s[x].k = k + x /\ s[x].j = j
    BY <1>0, <1>2
  <2> DEFINE y == x - 1
             ctr == p.maskCtr
  <2>3. ctr \in Nat /\ ctr % 4 = k % 4
    BY <1>1
  <2> HIDE DEF ctr
  <2>2. y \in Nat /\ (k + x) - 1 = k + y /\ ctr + x - 1 = ctr + y
    BY <2>3
  <2> HIDE DEF y
  <2>4. (ctr + y) % 4 = (k + y) % 4
    BY <2>2, <2>3, InStep
  <2>5. (s[x].k - 1) % 4 = (p.maskCtr + x - 1) % 4
    BY <2>1, <2>2, <2>4 DEF ctr
  <2> QED BY <2>1, <2>5
<1>4. Unmasked(p, s) = [x \in 1 .. sl |-> [k |-> s[x].k, j |-> s[x].j,
                            clear |-> (s[x].k - 1) % 4 = (p.maskCtr + x - 1) % 4]]
  BY <1>2 DEF Unmasked
<1> QED BY <1>3, <1>4 DEF s, Clear

\* The client has whole frames.
Quiet(client) == client.stream = "spoilt" \/ (client.stream = "whole" /\ client.k = client.n)

\* It has whole frames, or a part of a PONG.
Whole(c) == Quiet(c.client) \/ (c.client.stream = "whole" /\ InPong(c))

\* The parser has the same of a frame.
Alike(q, p) == Is(q, p.wsStatus, p.op, p.fin, p.ext, p.masked, p.len, p.maskCtr, p.frameCont)

\* What is sent leaves the client with whole frames, unless it spoils the stream, and does
\* not touch what was given and what was read of a frame.
LEMMA SendKeeps ==
    ASSUME NEW c \in Connections, Whole(c)
    PROVE  /\ \A fits \in BOOLEAN : /\ Quiet(cgiWebsocketSend(c, fits).client)
                                   /\ cgiWebsocketSend(c, fits).got = c.got
           /\ Quiet(cgiWebsocketClose(c).client) /\ cgiWebsocketClose(c).got = c.got
           /\ Alike(cgiWebsocketClose(c).priv, c.priv)
<1>1. c.client \in Decoders /\ c.priv \in Privs
  BY DEF Connections
<1>2. ASSUME NEW fits \in BOOLEAN
      PROVE  LET sent == cgiWebsocketSend(c, fits)
             IN  sent \in Connections /\ Quiet(sent.client) /\ sent.got = c.got /\ sent.priv = c.priv
  <2> DEFINE spoilt == IF InPong(c) \/ ~fits THEN [c EXCEPT !.client.stream = "spoilt"] ELSE c
             was == Broken(spoilt.client, spoilt.client.k < spoilt.client.n)
             client == [was EXCEPT !.n = 0, !.k = 0]
             sent == cgiWebsocketSend(c, fits)
  <2>1. spoilt \in Connections /\ spoilt.got = c.got /\ spoilt.priv = c.priv /\ Quiet(spoilt.client)
    BY <1>1 DEF Connections, Decoders, Whole, Quiet
  <2>2. sent = [spoilt EXCEPT !.client = client, !.notif = TRUE]
    BY DEF cgiWebsocketSend
  <2> HIDE DEF spoilt
  <2>3. spoilt.client \in Decoders
    BY <2>1 DEF Connections
  <2>4. was \in Decoders /\ was.stream \in {"spoilt", "whole"}
    BY <2>1, <2>3 DEF Broken, Quiet, Decoders
  <2> HIDE DEF was
  <2>5. Quiet(client) /\ client \in Decoders
    BY <2>4 DEF Quiet, Decoders
  <2> HIDE DEF client, sent
  <2>6. sent \in Connections /\ sent.client = client /\ sent.got = c.got /\ sent.priv = c.priv
    BY <2>1, <2>2, <2>5 DEF Connections
  <2> QED BY <2>5, <2>6 DEF sent
<1> DEFINE sent == cgiWebsocketSend(c, TRUE)
           priv == [sent.priv EXCEPT !.closedHere = TRUE]
<1>3. sent \in Connections /\ Quiet(sent.client) /\ sent.got = c.got /\ sent.priv = c.priv
  BY <1>2
<1>4. cgiWebsocketClose(c) = [sent EXCEPT !.priv = priv]
  BY DEF cgiWebsocketClose
<1> HIDE DEF sent
<1>5. Alike(priv, c.priv)
  BY <1>1, <1>3 DEF Alike, Is, Privs
<1> HIDE DEF priv
<1>6. /\ cgiWebsocketClose(c).client = sent.client /\ cgiWebsocketClose(c).got = c.got
      /\ cgiWebsocketClose(c).priv = priv
  BY <1>3, <1>4 DEF Connections
<1> QED BY <1>2, <1>3, <1>5, <1>6

\* The client has k bytes of a PONG of n, or a stream that was spoilt.
PongAt(client, n, k) == client.stream = "spoilt" \/ (client.stream = "whole" /\ client.n = n /\ client.k = k)

\* The head of a PONG finds no frame unfinished.
LEMMA HeadKeeps ==
    ASSUME NEW c \in Connections, NEW n \in Nat, Quiet(c.client)
    PROVE  PongAt(sendFrameHead(c, n).client, n, 0) /\ sendFrameHead(c, n).got = c.got
<1> DEFINE was == Broken(c.client, c.client.k < c.client.n)
           client == [was EXCEPT !.n = n, !.k = 0]
<1>1. c.client \in Decoders
  BY DEF Connections
<1>2. was \in Decoders /\ was.stream \in {"spoilt", "whole"}
  BY <1>1 DEF Broken, Quiet, Decoders
<1>3. sendFrameHead(c, n) = [c EXCEPT !.client = client, !.notif = TRUE]
  BY DEF sendFrameHead
<1> HIDE DEF was
<1>4. PongAt(client, n, 0)
  BY <1>2 DEF PongAt, Decoders
<1> HIDE DEF client
<1> QED BY <1>3, <1>4 DEF Connections

\* The client has k bytes of a PONG of n, and nothing else is given.
PongSent(v, c, n, k) == PongAt(v.client, n, k) /\ v.got = c.got

\* The bytes of a PING behind those that were sent are the next of its PONG.
LEMMA PongKeeps ==
    ASSUME NEW c \in Connections, NEW n, NEW k \in Nat, PongAt(c.client, n, k),
           NEW j, NEW sl \in Nat
    PROVE  PongSent(SendPayload(c, Clear(j, k, sl)), c, n, k + sl)
<1> DEFINE bytes == Clear(j, k, sl)
           wrong == \E x \in DOMAIN bytes : ~bytes[x].clear \/ bytes[x].k # c.client.k + x
           was == Broken(c.client, wrong)
           client == [was EXCEPT !.k = was.k + Len(bytes)]
<1>1. c.client \in Decoders
  BY DEF Connections
<1>2. SendPayload(c, bytes) = [c EXCEPT !.client = client]
  BY DEF SendPayload
<1>3. DOMAIN bytes = 1 .. sl /\ Len(bytes) = sl
  BY DEF Clear
<1>4. ASSUME NEW x \in 1 .. sl PROVE bytes[x].clear = TRUE /\ bytes[x].k = k + x
  <2>1. bytes[x] = [k |-> k + x, j |-> j, clear |-> TRUE]
    BY DEF Clear
  <2> QED BY <2>1
<1>5. c.client.stream = "whole" => ~wrong
  BY <1>3, <1>4 DEF PongAt
<1> HIDE DEF wrong
<1>6. was = c.client
  BY <1>5 DEF Broken, PongAt
<1>7. PongAt(client, n, k + sl)
  BY <1>1, <1>3, <1>6 DEF PongAt, Decoders
<1> HIDE DEF client
<1> QED BY <1>2, <1>7 DEF Connections, PongSent

\* The piece is given.
PieceGiven(v, c, f, j, k, sl) ==
    Quiet(v.client) /\ Alike(v.priv, c.priv) /\ v.got = c.got \o Items(f, j, k, sl)

\* The callback of the application is given the piece, and what it sends comes
\* behind whole frames.
LEMMA GivenKeeps ==
    ASSUME NEW c \in Connections, Quiet(c.client), NEW reply \in Replies,
           NEW k \in Nat, NEW j \in Nat, NEW sl \in Nat,
           NEW f \in Frame, c.priv.op = f.op, c.priv.fin = f.fin
    PROVE  PieceGiven(recvCb(c, Clear(j, k, sl), reply), c, f, j, k, sl)
<1> DEFINE bytes == Clear(j, k, sl)
           given == [x \in DOMAIN bytes |-> [byte |-> bytes[x], bin |-> c.priv.op = "BINARY", cont |-> ~c.priv.fin]]
           told == [c EXCEPT !.got = c.got \o given]
<1>1. given = Items(f, j, k, sl)
  <2>1. DOMAIN bytes = 1 .. sl
    BY DEF Clear
  <2>2. ASSUME NEW x \in 1 .. sl
        PROVE  [byte |-> bytes[x], bin |-> c.priv.op = "BINARY", cont |-> ~c.priv.fin] = Item(f, j, k + x)
    <3>1. bytes[x] = [k |-> k + x, j |-> j, clear |-> TRUE]
      BY DEF Clear
    <3> QED BY <3>1 DEF Item
  <2> QED BY <2>1, <2>2 DEF Items
<1>2. given \in Seq(Given)
  <2>1. ASSUME NEW x \in 1 .. sl PROVE Item(f, j, k + x) \in Given
    <3>1. k + x \in Nat
      OBVIOUS
    <3> QED BY <3>1 DEF Item, Given, Frame
  <2>2. Items(f, j, k, sl) \in Seq(Given)
    BY <2>1 DEF Items
  <2> HIDE DEF given
  <2> QED BY <1>1, <2>2
<1> HIDE DEF given
<1>3. c.got \o given \in Seq(Given)
  <2>1. c.got \in Seq(Given)
    BY DEF Connections
  <2> QED BY <1>2, <2>1, ConcatProperties
<1>4. /\ told \in Connections /\ told.client = c.client /\ told.priv = c.priv
      /\ told.got = c.got \o Items(f, j, k, sl)
  <2> DEFINE got == c.got \o given
  <2>1. got \in Seq(Given) /\ got = c.got \o Items(f, j, k, sl)
    BY <1>1, <1>3
  <2> HIDE DEF got
  <2>2. told = [c EXCEPT !.got = got]
    BY DEF got
  <2> QED BY <2>1, <2>2 DEF Connections
<1>5. \/ recvCb(c, bytes, reply) = cgiWebsocketClose(told)
      \/ recvCb(c, bytes, reply) = cgiWebsocketSend(told, FALSE)
      \/ recvCb(c, bytes, reply) = told
  BY DEF recvCb, given
<1> HIDE DEF told
<1>6. Whole(told)
  BY <1>4 DEF Whole
<1>7. /\ Quiet(cgiWebsocketClose(told).client) /\ cgiWebsocketClose(told).got = told.got
      /\ Alike(cgiWebsocketClose(told).priv, told.priv)
      /\ Quiet(cgiWebsocketSend(told, FALSE).client) /\ cgiWebsocketSend(told, FALSE).got = told.got
  BY <1>4, <1>6, SendKeeps
<1>8. cgiWebsocketSend(told, FALSE).priv = told.priv
  <2>1. Len(<<>>) \in Nat /\ 0 \in Nat
    BY EmptySeq
  <2> QED BY <1>4, <2>1, SendingTyped
<1>9. Alike(told.priv, c.priv)
  BY <1>4 DEF Alike, Is
<1> QED BY <1>4, <1>5, <1>7, <1>8, <1>9 DEF PieceGiven

\* A piece was taken off the payload.
Taken(v, w, c, f, k, sl, header) ==
    /\ v.r = w.r /\ v.skip = IF header THEN sl ELSE sl - 1
    /\ v.c.client = c.client /\ v.c.got = c.got
    /\ k + sl = f.n => v.c.priv.wsStatus = ST_FLAGS
    /\ k + sl # f.n => InPayload(v.c.priv, f, k + sl) /\ v.c.priv.frameCont = TRUE

\* After a piece the parser is where the payload goes on, or at the next frame.
LEMMA NextKeeps ==
    ASSUME NEW c0, NEW w \in Worlds(c0), NEW c, Same(w.c, c), Alike(c.priv, w.c.priv),
           NEW f \in Frame, NEW k \in Nat, InPayload(w.c.priv, f, k),
           NEW sl \in Nat, k + sl <= f.n, NEW header \in BOOLEAN
    PROVE  Taken(NextPayload(w, c, sl, header), w, c, f, k, sl, header)
<1> DEFINE left == w.c.priv.len - sl
           ctr == (c.priv.maskCtr + sl) % 256
           st == IF left = 0 THEN ST_FLAGS ELSE c.priv.wsStatus
           cont == c.priv.frameCont \/ left # 0
           priv == [c.priv EXCEPT !.len = left, !.maskCtr = ctr, !.wsStatus = st, !.frameCont = cont]
           v == NextPayload(w, c, sl, header)
           skip == IF header THEN sl ELSE sl - 1
<1>1. c \in Connections /\ c.priv \in Privs /\ w.c \in Connections /\ w.c.priv \in Privs
  BY DEF Same, Connections, Worlds
<1>2. v = [w EXCEPT !.c = [c EXCEPT !.priv = priv], !.skip = skip]
  BY DEF NextPayload
<1>3. f.n \in Nat /\ left = f.n - (k + sl) /\ k + sl \in 0 .. f.n
  BY DEF InPayload, Frame
<1>4. ctr % 4 = (k + sl) % 4
  <2>1. c.priv.maskCtr \in 0 .. 255 /\ c.priv.maskCtr = w.c.priv.maskCtr /\ w.c.priv.maskCtr % 4 = k % 4
    BY <1>1 DEF Privs, Alike, Is, InPayload
  <2> DEFINE a == c.priv.maskCtr
             b == a + sl
  <2>2. a \in Nat /\ a % 4 = k % 4
    BY <2>1
  <2> HIDE DEF a
  <2>3. b % 4 = (k + sl) % 4 /\ b \in Nat
    BY <2>2, InStep
  <2> HIDE DEF b
  <2>4. (b % 256) % 4 = b % 4
    BY <2>3, CtrWraps
  <2> QED BY <2>3, <2>4 DEF a, b
<1>5. /\ c.priv.op = f.op /\ c.priv.fin = f.fin /\ c.priv.wsStatus = ST_PAYLOAD /\ c.priv.masked = f.masked
  BY DEF Alike, Is, InPayload
<1>6. (left = 0 => st = ST_FLAGS) /\ (left # 0 => st = ST_PAYLOAD /\ cont = TRUE)
  BY <1>5
<1> HIDE DEF left, ctr, st, cont
<1>7. Is(priv, st, c.priv.op, c.priv.fin, c.priv.ext, c.priv.masked, left, ctr, cont)
  BY <1>1, PieceSet
<1> HIDE DEF priv, skip
<1>8. v.r = w.r /\ v.skip = skip /\ v.c.client = c.client /\ v.c.got = c.got /\ v.c.priv = priv
  BY <1>1, <1>2 DEF Connections, Worlds
<1>9. k + sl = f.n => priv.wsStatus = ST_FLAGS
  BY <1>3, <1>6, <1>7 DEF Is
<1>10. k + sl # f.n => InPayload(priv, f, k + sl) /\ priv.frameCont = TRUE
  BY <1>3, <1>4, <1>5, <1>6, <1>7 DEF Is, InPayload
<1> HIDE DEF v
<1> QED BY <1>8, <1>9, <1>10 DEF v, skip, Taken

\* What the client has when k bytes of the payload of a frame were dealt with.
ClientAt(client, f, k) == IF f.op = "PING" THEN PongAt(client, f.n, k) ELSE Quiet(client)

\* What has become of the world w when the piece of sl bytes behind the first k of the
\* payload of the frame f was dealt with.
Dealt(v, w, f, j, k, sl, header) ==
    IF v.r = "DONE"
    THEN Ends(f) /\ header /\ Quiet(v.c.client) /\ v.c.got = w.c.got
    ELSE /\ ~Ends(f) /\ v.skip = IF header THEN sl ELSE sl - 1
         /\ v.c.got = IF f.op \in Data THEN w.c.got \o Items(f, j, k, sl) ELSE w.c.got
         /\ ClientAt(v.c.client, f, k + sl)
         /\ k + sl = f.n => v.c.priv.wsStatus = ST_FLAGS
         /\ k + sl # f.n => InPayload(v.c.priv, f, k + sl) /\ v.c.priv.frameCont = TRUE

\* What a payload does is done for each piece, for all that there is of it in a fragment.
LEMMA PayloadKeeps ==
    ASSUME WebsocketAssumption, NEW c0, NEW w \in Worlds(c0), w.r = "MORE",
           NEW data \in Seq(StreamBytes), NEW i \in 1 .. Len(data) + 1,
           NEW header \in BOOLEAN, NEW reply \in Replies,
           NEW f \in Frame, NEW j \in Nat, NEW k \in Nat, InPayload(w.c.priv, f, k),
           w.c.priv.frameCont = ~header,
           header => k = 0 /\ Quiet(w.c.client),
           ~header => ~Ends(f) /\ ClientAt(w.c.client, f, k),
           NEW sl \in Nat, sl = IF Len(data) - i + 1 > f.n - k THEN f.n - k ELSE Len(data) - i + 1,
           PieceAt(data, i, sl, j, k)
    PROVE  Dealt(Payload(w, i, data, header, reply), w, f, j, k, sl, header)
<1> DEFINE p == w.c.priv
           bytes == Clear(j, k, sl)
           v == Payload(w, i, data, header, reply)
<1>1. /\ w.c \in Connections /\ p \in Privs /\ p.len = f.n - k /\ f.n \in Nat /\ k + sl <= f.n /\ p.len \in Nat
      /\ p.op = f.op /\ p.masked = f.masked /\ p.fin = f.fin
      /\ Same(w.c, w.c) /\ Alike(p, p) /\ Len(data) \in Nat
  <2>1. w.c \in Connections /\ p \in Privs /\ Same(w.c, w.c) /\ Alike(p, p) /\ Len(data) \in Nat
    BY LenProperties DEF Worlds, Connections, Same, Alike, Is
  <2>2. p.len = f.n - k /\ f.n \in Nat /\ k \in 0 .. f.n /\ p.op = f.op /\ p.masked = f.masked /\ p.fin = f.fin
    BY DEF InPayload, Frame
  <2> HIDE DEF p
  <2> QED BY <2>1, <2>2
<1>2. Unmasked(p, SubSeq(data, i, i + sl - 1)) = bytes
  BY <1>1, PieceClear
<1> DEFINE head == IF p.frameCont THEN w.c ELSE sendFrameHead(w.c, p.len)
<1>3. /\ p.op = "PING" /\ p.len > Short => v = Done(w, IF p.frameCont THEN w.c ELSE cgiWebsocketClose(w.c))
      /\ p.op = "PING" /\ ~(p.len > Short) => v = NextPayload(w, SendPayload(head, bytes), sl, header)
      /\ p.op \in Data /\ ~p.masked => v = Done(w, cgiWebsocketClose(w.c))
      /\ p.op \in Data /\ p.masked => v = NextPayload(w, recvCb(w.c, bytes, reply), sl, header)
      /\ p.op = "CLOSE" => v = Done(w, IF p.closedHere THEN w.c ELSE cgiWebsocketClose(w.c))
      /\ p.op \notin Data /\ p.op # "PING" /\ p.op # "CLOSE" => v = NextPayload(w, w.c, sl, header)
  <2> DEFINE rest == Len(data) - i + 1
             s == IF rest > p.len THEN p.len ELSE rest
             b == Unmasked(p, SubSeq(data, i, i + s - 1))
  <2>1. v = CASE p.op = "PING" /\ p.len > Short ->
                Done(w, IF p.frameCont THEN w.c ELSE cgiWebsocketClose(w.c))
          [] p.op = "PING" /\ p.len <= Short -> NextPayload(w, SendPayload(head, b), s, header)
          [] p.op \in Data /\ ~p.masked -> Done(w, cgiWebsocketClose(w.c))
          [] p.op \in Data /\ p.masked -> NextPayload(w, recvCb(w.c, b, reply), s, header)
          [] p.op = "CLOSE" -> Done(w, IF p.closedHere THEN w.c ELSE cgiWebsocketClose(w.c))
          [] OTHER -> NextPayload(w, w.c, s, header)
    BY DEF Payload
  <2>2. s = sl
    BY <1>1
  <2>3. b = bytes
    BY <1>2, <2>2
  <2>4. p.len <= Short <=> ~(p.len > Short)
    BY <1>1 DEF WebsocketAssumption
  <2> HIDE DEF v, s, b, bytes, p, head
  <2> QED BY <2>1, <2>2, <2>3, <2>4 DEF Data
<1> SUFFICES Dealt(v, w, f, j, k, sl, header)
  OBVIOUS
<1> HIDE DEF v, bytes
<1>4. ASSUME NEW c, v = Done(w, c), Quiet(c.client), c.got = w.c.got, Ends(f), header
      PROVE  Dealt(v, w, f, j, k, sl, header)
  <2>1. v.r = "DONE" /\ v.c = c
    BY <1>4 DEF Done, Worlds
  <2> QED BY <1>4, <2>1 DEF Dealt
<1>5. ASSUME NEW c, Same(w.c, c), Alike(c.priv, p), v = NextPayload(w, c, sl, header), ~Ends(f),
             c.got = IF f.op \in Data THEN w.c.got \o Items(f, j, k, sl) ELSE w.c.got,
             ClientAt(c.client, f, k + sl)
      PROVE  Dealt(v, w, f, j, k, sl, header)
  <2>1. Taken(v, w, c, f, k, sl, header)
    BY <1>1, <1>5, NextKeeps, Zenon
  <2>2. v.r # "DONE"
    BY <2>1 DEF Taken
  <2> QED BY <1>5, <2>1, <2>2, Zenon DEF Dealt, Taken
<1>6. header => Whole(w.c)
  BY DEF Whole
<1>7. header => Quiet(cgiWebsocketClose(w.c).client) /\ cgiWebsocketClose(w.c).got = w.c.got
  BY <1>1, <1>6, SendKeeps
<1>8. f.op \notin Data /\ f.op # "PING" => Quiet(w.c.client)
  BY DEF ClientAt
<1>9. CASE f.op = "PING" /\ p.len > Short
  <2>1. Ends(f)
    BY <1>1, <1>9 DEF Ends, WebsocketAssumption
  <2>2. header /\ p.frameCont = FALSE
    BY <2>1
  <2>3. v = Done(w, cgiWebsocketClose(w.c))
    BY <1>1, <1>3, <1>9, <2>2
  <2> QED BY <1>4, <1>7, <2>1, <2>2, <2>3, Zenon
<1>10. CASE f.op = "PING" /\ ~(p.len > Short)
  <2>1. ~Ends(f)
    <3>1. header => p.len = f.n
      BY <1>1
    <3>2. header => ~Ends(f)
      BY <1>10, <3>1 DEF Ends, Data
    <3> QED BY <3>2
  <2>2. Same(w.c, head) /\ head.priv = p /\ PongAt(head.client, f.n, k) /\ head.got = w.c.got
    <3>1. CASE header
      <4>1. /\ head = sendFrameHead(w.c, f.n) /\ k = 0
        <5>1. k = 0 /\ ~p.frameCont
          BY <3>1, Zenon
        <5>2. f.n - 0 = f.n
          BY <1>1
        <5> QED BY <1>1, <5>1, <5>2
      <4>2. Same(w.c, sendFrameHead(w.c, f.n)) /\ sendFrameHead(w.c, f.n).priv = p
        BY <1>1, SendingTyped, EmptySeq
      <4>3. PongAt(sendFrameHead(w.c, f.n).client, f.n, 0) /\ sendFrameHead(w.c, f.n).got = w.c.got
        BY <1>1, <3>1, HeadKeeps
      <4> QED BY <4>1, <4>2, <4>3
    <3>2. CASE ~header
      <4>1. head = w.c /\ PongAt(w.c.client, f.n, k)
        BY <1>10, <3>2 DEF ClientAt
      <4> QED BY <1>1, <4>1
    <3> QED BY <3>1, <3>2
  <2> HIDE DEF head
  <2>3. head \in Connections /\ Len(bytes) \in Nat
    BY <2>2 DEF Same, bytes
  <2>4. Same(head, SendPayload(head, bytes)) /\ SendPayload(head, bytes).priv = head.priv
    BY <1>1, <2>3, SendingTyped
  <2>5. PongAt(SendPayload(head, bytes).client, f.n, k + sl) /\ SendPayload(head, bytes).got = head.got
    <3>1. head \in Connections /\ k \in Nat /\ sl \in Nat /\ PongAt(head.client, f.n, k)
      BY <2>2, <2>3
    <3>2. PongSent(SendPayload(head, bytes), head, f.n, k + sl)
      BY ONLY <3>1, PongKeeps, Zenon DEF bytes
    <3> QED BY <3>2 DEF PongSent
  <2> DEFINE c == SendPayload(head, bytes)
  <2>6. /\ Same(w.c, c) /\ Alike(c.priv, p) /\ ClientAt(c.client, f, k + sl)
        /\ c.got = IF f.op \in Data THEN w.c.got \o Items(f, j, k, sl) ELSE w.c.got
    BY <1>1, <1>10, <2>2, <2>4, <2>5 DEF Same, ClientAt, Data
  <2>7. v = NextPayload(w, c, sl, header)
    BY <1>1, <1>3, <1>10
  <2> HIDE DEF c
  <2> QED BY <1>5, <2>1, <2>6, <2>7, Zenon
<1>11. CASE f.op \in Data /\ ~f.masked
  <2>1. Ends(f)
    BY <1>11 DEF Ends
  <2>2. v = Done(w, cgiWebsocketClose(w.c))
    BY <1>1, <1>3, <1>11
  <2> QED BY <1>4, <1>7, <2>1, <2>2, Zenon
<1>12. CASE f.op \in Data /\ f.masked
  <2>1. ~Ends(f) /\ f.op # "PING" /\ Quiet(w.c.client)
    BY <1>12 DEF Ends, Data, ClientAt
  <2> DEFINE c == recvCb(w.c, bytes, reply)
  <2>2. /\ Quiet(c.client) /\ Alike(c.priv, p)
        /\ c.got = w.c.got \o Items(f, j, k, sl)
    <3>1. /\ w.c \in Connections /\ Quiet(w.c.client) /\ reply \in Replies
          /\ k \in Nat /\ j \in Nat /\ sl \in Nat /\ f \in Frame
          /\ w.c.priv.op = f.op /\ w.c.priv.fin = f.fin
      BY <1>1, <2>1
    <3>2. PieceGiven(c, w.c, f, j, k, sl)
      BY ONLY <3>1, GivenKeeps, Zenon DEF bytes
    <3> QED BY <3>2 DEF PieceGiven
  <2>3. Same(w.c, c)
    <3>1. SubSeq(data, i, i + sl - 1) \in Seq(StreamBytes)
      <4>1. \A x \in i .. i + sl - 1 : data[x] \in StreamBytes
        BY <1>1, ElementOfSeq
      <4>2. i \in Int /\ i + sl - 1 \in Int
        OBVIOUS
      <4> QED BY <4>1, <4>2, SubSeqProperties
    <3> QED BY <1>1, <1>2, <3>1, RecvCbTyped
  <2>4. v = NextPayload(w, c, sl, header)
    BY <1>1, <1>3, <1>12
  <2> HIDE DEF c
  <2> QED BY <1>5, <1>12, <2>1, <2>2, <2>3, <2>4, Zenon DEF ClientAt
<1>13. CASE f.op = "CLOSE"
  <2>1. Ends(f) /\ header
    BY <1>13 DEF Ends
  <2> DEFINE c == IF p.closedHere THEN w.c ELSE cgiWebsocketClose(w.c)
  <2>2. v = Done(w, c)
    BY <1>1, <1>3, <1>13
  <2>3. Quiet(c.client) /\ c.got = w.c.got
    BY <1>7, <2>1
  <2> HIDE DEF c
  <2> QED BY <1>4, <2>1, <2>2, <2>3, Zenon
<1>14. CASE f.op \notin Data /\ f.op # "PING" /\ f.op # "CLOSE"
  <2>1. ~Ends(f)
    BY <1>14 DEF Ends
  <2>2. v = NextPayload(w, w.c, sl, header)
    BY <1>1, <1>3, <1>14
  <2>3. w.c.got = IF f.op \in Data THEN w.c.got \o Items(f, j, k, sl) ELSE w.c.got
    BY <1>14
  <2>4. ClientAt(w.c.client, f, k + sl)
    BY <1>8, <1>14 DEF ClientAt
  <2> QED BY <1>1, <1>5, <2>1, <2>2, <2>3, <2>4, Zenon
<1> QED BY <1>9, <1>10, <1>11, <1>12, <1>13, <1>14
-----------------------------------------------------------------------------
(* The loop over a fragment.                                               *)

\* The stream is read up to the frame j, behind s bytes, and none before ends the websocket.
Reached(frames, j, s) == Begins(frames, j, s) /\ \A i \in 1 .. j - 1 : ~Ends(frames[i])

\* The parser has o bytes of the frame j, and the client what is to be sent for them.
InFrame(c, j, o) ==
    LET f == c.frames[j]
        head == HeadLen(f)
    IN  /\ j # Len(c.frames) + 1
        /\ \/ InHeader(c.priv, f, o) /\ Quiet(c.client)
           \/ /\ o \in head .. FrameLen(f) - 1 /\ InPayload(c.priv, f, o - head) /\ c.priv.frameCont = TRUE
              /\ ~Ends(f) /\ ClientAt(c.client, f, o - head)

\* The parser has the first x bytes of its stream.
Parsed(c, x) ==
    \E j, s : /\ Reached(c.frames, j, s)
              /\ \/ x = s /\ c.priv.wsStatus = ST_FLAGS /\ Quiet(c.client)
                 \/ \E o \in Nat : x = s + o /\ InFrame(c, j, o)

\* Where a round leaves the loop that has come to the byte x: what is still to be skipped
\* is dealt with, and behind the end of the websocket nothing is given.
Ok(w, x) ==
    IF w.r = "DONE"
    THEN Quiet(w.c.client) /\ \A m \in x .. w.c.read : w.c.got = Content(w.c.frames)[m]
    ELSE /\ w.skip \in Nat /\ x + w.skip <= w.c.read
         /\ Parsed(w.c, x + w.skip) /\ w.c.got = Content(w.c.frames)[x + w.skip]

\* The fragment that c has read is the part of its stream behind the first r0 bytes.
Fragment(c, data, r0) ==
    /\ c \in Connections /\ data \in Seq(StreamBytes) /\ r0 \in Nat
    /\ c.read = r0 + Len(data) /\ c.read <= Len(Bytes[c.frames])
    /\ \A i \in 1 .. Len(data) : data[i] = Bytes[c.frames][r0 + i]

\* The payload of a frame is where it is looked for.
LEMMA PieceThere ==
    ASSUME WebsocketAssumption, NEW c, NEW data, NEW r0, Fragment(c, data, r0),
           NEW j, NEW s, Begins(c.frames, j, s), j # Len(c.frames) + 1,
           NEW k \in Nat, NEW i \in Nat \ {0}, s + HeadLen(c.frames[j]) + k = r0 + (i - 1),
           NEW sl \in Nat, k + sl <= c.frames[j].n, i + sl <= Len(data) + 1
    PROVE  PieceAt(data, i, sl, j, k)
<1> DEFINE frames == c.frames
           B == Bytes[frames]
           f == frames[j]
           h == HeadLen(f)
           l == FrameLen(f)
           n == f.n
<1>1. frames \in AllStreams /\ r0 \in Nat /\ Len(data) \in Nat /\ \A x \in 1 .. Len(data) : data[x] = B[r0 + x]
  BY LenProperties DEF Fragment, Connections
<1>2. FrameAt(frames, j, s)
  BY <1>1, FrameThere, Zenon
<1>3. /\ s \in Nat /\ j \in Nat /\ f \in Frame /\ h \in Nat /\ n \in Nat /\ l = h + n
      /\ k + sl <= n /\ s + h + k = r0 + (i - 1)
      /\ \A o \in 1 .. l : B[s + o] = FrameBytes(f, j)[o]
  BY <1>2, Zenon DEF FrameAt
<1>4. ASSUME NEW x \in 1 .. sl PROVE data[(i + x) - 1].k = k + x /\ data[(i + x) - 1].j = j
  <2> DEFINE o == h + k + x
  <2> HIDE DEF frames, B, f, h, l, n
  <2>1. /\ (i + x) - 1 \in 1 .. Len(data) /\ r0 + ((i + x) - 1) = s + o
        /\ o \in 1 .. l /\ o > h /\ o - h = k + x
    BY <1>1, <1>2, <1>3
  <2> HIDE DEF o
  <2>2. data[(i + x) - 1] = B[s + o]
    BY <1>1, <2>1
  <2>3. data[(i + x) - 1] = FrameBytes(f, j)[o]
    BY <1>3, <2>1, <2>2
  <2>4. FrameBytes(f, j)[o].j = j /\ FrameBytes(f, j)[o].k = k + x
    <3>1. o \in 1 .. FrameLen(f)
      BY <2>1 DEF l
    <3>2. ByteOf(FrameBytes(f, j)[o], f, j, o)
      BY <1>3, <3>1, FrameBytesOf, Zenon
    <3> QED BY <2>1, <3>2 DEF ByteOf, h
  <2> QED BY <2>3, <2>4
<1> QED BY <1>4 DEF PieceAt

\* When a piece of a payload was dealt with the loop is where it should be.
LEMMA DealtOk ==
    ASSUME WebsocketAssumption, NEW c0, NEW data, NEW r0, Fragment(c0, data, r0),
           NEW j, NEW s, Reached(c0.frames, j, s), j # Len(c0.frames) + 1,
           NEW k \in Nat, NEW i \in Nat \ {0}, NEW y, y = s + HeadLen(c0.frames[j]) + k, y = r0 + (i - 1),
           NEW sl \in Nat, k + sl <= c0.frames[j].n, i + sl <= Len(data) + 1,
           NEW header \in BOOLEAN, ~header => sl # 0,
           NEW w \in Worlds(c0), w.c.got = Content(c0.frames)[y],
           NEW v \in Worlds(c0), Dealt(v, w, c0.frames[j], j, k, sl, header)
    PROVE  Ok(v, IF header THEN y ELSE y + 1)
<1> DEFINE frames == c0.frames
           B == Bytes[frames]
           C == Content(frames)
           f == frames[j]
           h == HeadLen(f)
           l == FrameLen(f)
           n == f.n
           next == y + sl
<1>1. /\ frames \in AllStreams /\ r0 \in Nat /\ Len(data) \in Nat
      /\ c0.read = r0 + Len(data) /\ c0.read <= Len(B)
  BY LenProperties DEF Fragment, Connections
<1>2. Begins(frames, j, s) /\ \A x \in 1 .. j - 1 : ~Ends(frames[x])
  BY DEF Reached
<1>3. /\ s \in Nat /\ j \in Nat /\ j \in 1 .. Len(frames) /\ Len(frames) \in Nat /\ f \in Frame /\ Len(B) \in Nat
      /\ s + l <= Len(B) /\ Begins(frames, j + 1, s + l)
      /\ h \in Nat /\ n \in Nat /\ l = h + n
  <2>1. FrameAt(frames, j, s)
    BY <1>1, <1>2, FrameThere, Zenon
  <2> QED BY <2>1, Zenon DEF FrameAt
<1>4. k + sl <= n /\ y = s + h + k /\ y = r0 + (i - 1)
  OBVIOUS
<1>5. /\ v.c \in Connections /\ v.c.frames = frames /\ v.c.read = c0.read /\ w.c.frames = frames
      /\ w.c.got \in Seq(Given) /\ v.r \in {"MORE", "DONE"}
  BY DEF Worlds, Same, Connections
<1>6. C[y] \in Seq(Given) /\ w.c.got = C[y]
  BY <1>5
<1> HIDE DEF frames, B, C, f, h, l, n
<1>7. /\ y \in Nat /\ next \in Nat /\ next <= c0.read /\ y \in s .. Len(B) /\ next \in y .. Len(B)
      /\ next <= s + l /\ c0.read \in y .. Len(B)
  <2>1. y \in Nat /\ next \in Nat /\ y >= s /\ next >= y
    BY <1>3, <1>4
  <2>2. y + sl <= r0 + Len(data)
    <3>1. i + sl <= Len(data) + 1 /\ Len(data) \in Nat
      BY <1>1
    <3> DEFINE len == Len(data)
    <3> HIDE DEF len
    <3>2. r0 + (i - 1) + sl <= r0 + len
      BY <1>1, <3>1 DEF len
    <3> QED BY <1>4, <3>2 DEF len
  <2>3. y + sl <= s + l
    BY <1>3, <1>4
  <2> DEFINE read == c0.read
             len == Len(data)
             all == Len(B)
  <2>4. /\ read \in Nat /\ read <= all /\ all \in Nat /\ next <= read /\ next <= s + l
        /\ next \in Nat /\ s \in Nat
    BY <1>1, <1>3, <2>1, <2>2, <2>3
  <2> HIDE DEF read, all, next
  <2>5. y \in s .. all /\ next \in y .. all /\ read \in y .. all
    BY <2>1, <2>4
  <2> QED BY <2>1, <2>4, <2>5 DEF read, all
<1>8. CASE v.r = "DONE"
  <2>1. Ends(f) /\ header /\ Quiet(v.c.client) /\ v.c.got = w.c.got
    BY <1>8 DEF Dealt, f, frames
  <2>2. \A m \in y .. c0.read : C[m] = C[y]
    <3>1. NothingFor(frames, j, s, c0.read)
      BY <2>1 DEF NothingFor, f
    <3>2. SameFor(frames, y, c0.read)
      BY <1>1, <1>2, <1>7, <3>1, NoContent, Zenon DEF B, frames
    <3> QED BY <3>2 DEF SameFor, C
  <2> QED BY <1>5, <1>6, <1>8, <2>1, <2>2 DEF Ok, C
<1>9. CASE v.r # "DONE"
  <2>1. /\ ~Ends(f) /\ v.skip = IF header THEN sl ELSE sl - 1
        /\ v.c.got = IF f.op \in Data THEN w.c.got \o Items(f, j, k, sl) ELSE w.c.got
        /\ ClientAt(v.c.client, f, k + sl)
        /\ k + sl = n => v.c.priv.wsStatus = ST_FLAGS
        /\ k + sl # n => InPayload(v.c.priv, f, k + sl) /\ v.c.priv.frameCont = TRUE
    BY <1>9 DEF Dealt, f, frames, n
  <2>2. v.c.got = C[next]
    <3>1. CASE f.op \in Data
      <4>1. \A x \in 1 .. j : ~Ends(frames[x])
        BY <1>2, <1>3, <2>1 DEF f
      <4>2. C[next] = C[y] \o Items(f, j, k, sl)
        <5>1. GivenFor(frames, y, f, j, k, sl)
          BY <1>1, <1>2, <1>3, <1>4, <1>6, <3>1, <4>1, PieceContent, Zenon DEF C, f, h, frames, n
        <5> QED BY <5>1 DEF GivenFor, C
      <4> QED BY <1>6, <2>1, <3>1, <4>2
    <3>2. CASE f.op \notin Data
      <4>1. \A x \in y .. next : C[x] = C[y]
        <5>1. NothingFor(frames, j, s, next)
          BY <1>7, <3>2 DEF NothingFor, f, l
        <5>2. SameFor(frames, y, next)
          <6> HIDE DEF next
          <6> QED BY <1>1, <1>2, <1>7, <5>1, NoContent, Zenon DEF B, frames
        <5> QED BY <5>2 DEF SameFor, C
      <4>2. next \in y .. next
        BY <1>7
      <4> HIDE DEF next
      <4> QED BY <1>6, <2>1, <3>2, <4>1, <4>2
    <3> QED BY <3>1, <3>2
  <2>3. Parsed(v.c, next)
    <3>1. CASE k + sl = n
      <4>1. next = s + l /\ (j + 1) - 1 = j
        <5>1. s + h + k + sl = s + (h + n)
          BY <1>3, <3>1
        <5>2. (j + 1) - 1 = j
          BY <1>3
        <5> QED BY <1>3, <1>4, <5>1, <5>2
      <4>2. Reached(frames, j + 1, s + l)
        BY <1>2, <1>3, <2>1, <4>1 DEF Reached, f
      <4>3. Quiet(v.c.client)
        BY <2>1, <3>1 DEF ClientAt, Quiet, PongAt, n
      <4> QED BY <1>5, <2>1, <3>1, <4>1, <4>2, <4>3 DEF Parsed
    <3>2. CASE k + sl # n
      <4> DEFINE o == h + (k + sl)
      <4>1. o \in Nat /\ next = s + o /\ o \in h .. l - 1 /\ o - h = k + sl
        <5>1. /\ h + (k + sl) \in h .. l - 1 /\ (h + (k + sl)) - h = k + sl /\ h + (k + sl) \in Nat
              /\ (s + h + k) + sl = s + (h + (k + sl))
          BY <1>3, <1>4, <3>2
        <5> QED BY <1>4, <5>1
      <4> HIDE DEF o, next
      <4>2. InFrame(v.c, j, o)
        BY <1>3, <1>5, <2>1, <3>2, <4>1 DEF InFrame, f, h, l, frames
      <4> QED BY <1>2, <1>5, <4>1, <4>2 DEF Parsed, Reached
    <3> QED BY <3>1, <3>2
  <2>4. LET x == IF header THEN y ELSE y + 1
        IN  v.skip \in Nat /\ x + v.skip = next
    BY <1>7, <2>1
  <2> HIDE DEF next
  <2> QED BY <1>5, <1>7, <1>9, <2>2, <2>3, <2>4 DEF Ok, C
<1> QED BY <1>8, <1>9

\* A round of the loop takes the byte it is at, or more, or one that was dealt with.
LEMMA RoundStep ==
    ASSUME WebsocketAssumption, NEW c0, NEW data, NEW r0, Fragment(c0, data, r0),
           NEW reply \in Replies, NEW w \in Worlds(c0), NEW i \in 1 .. Len(data), Ok(w, r0 + (i - 1))
    PROVE  Ok(Byte(w, i, data, reply), r0 + i)
<1> DEFINE x == r0 + (i - 1)
           C == Content(c0.frames)
           read == c0.read
           v == Byte(w, i, data, reply)
<1>1. /\ c0.frames \in AllStreams /\ r0 \in Nat /\ Len(data) \in Nat /\ data \in Seq(StreamBytes)
      /\ read = r0 + Len(data) /\ read <= Len(Bytes[c0.frames])
      /\ data[i] = Bytes[c0.frames][r0 + i]
  BY LenProperties DEF Fragment, Connections
<1>2. /\ w.c \in Connections /\ w.c.priv \in Privs /\ w.r \in {"MORE", "DONE"}
      /\ w.c.frames = c0.frames /\ w.c.read = read
  BY DEF Worlds, Same, Connections
<1>3. x \in Nat /\ r0 + i = x + 1 /\ x + 1 <= read /\ i \in Nat /\ read \in Nat
  BY <1>1
<1>4. Ok(w, x)
  OBVIOUS
<1> SUFFICES Ok(v, x + 1)
  BY <1>3
<1> HIDE DEF x, read
<1>5. CASE w.r = "DONE"
  <2>1. v.r = "DONE" /\ v.c = w.c
    BY <1>5 DEF Byte, Worlds
  <2>2. Quiet(w.c.client) /\ \A m \in x .. read : w.c.got = C[m]
    BY <1>2, <1>4, <1>5 DEF Ok
  <2>3. \A m \in x + 1 .. read : m \in x .. read
    BY <1>3
  <2> HIDE DEF v, C
  <2> QED BY <1>2, <2>1, <2>2, <2>3 DEF Ok, C
<1>6. ASSUME w.r # "DONE"
      PROVE  w.skip \in Nat /\ x + w.skip <= read /\ Parsed(w.c, x + w.skip) /\ w.c.got = C[x + w.skip]
  BY <1>2, <1>4, <1>6 DEF Ok
<1>7. CASE w.r # "DONE" /\ w.skip > 0
  <2>1. v.r = w.r /\ v.c = w.c /\ v.skip = w.skip - 1
    BY <1>7 DEF Byte, Worlds
  <2>2. v.skip \in Nat /\ (x + 1) + v.skip = x + w.skip
    BY <1>3, <1>6, <1>7, <2>1
  <2> HIDE DEF v, C
  <2> QED BY <1>2, <1>6, <1>7, <2>1, <2>2 DEF Ok, C
<1>8. CASE w.r # "DONE" /\ ~(w.skip > 0)
  <2> DEFINE header == w.c.priv.wsStatus # ST_PAYLOAD
  <2>1. w.skip = 0 /\ x + w.skip = x /\ w.r = "MORE" /\ Parsed(w.c, x) /\ w.c.got = C[x]
    <3>1. w.skip \in Nat /\ Parsed(w.c, x + w.skip) /\ w.c.got = C[x + w.skip]
      BY <1>6, <1>8
    <3>2. w.skip = 0
      BY <1>8, <3>1
    <3>3. x + 0 = x
      BY <1>3
    <3> QED BY <1>2, <1>8, <3>1, <3>2, <3>3
  <2>2. PICK j, s : /\ Reached(c0.frames, j, s)
                    /\ \/ x = s /\ w.c.priv.wsStatus = ST_FLAGS /\ Quiet(w.c.client)
                       \/ \E o \in Nat : x = s + o /\ InFrame(w.c, j, o)
    BY <1>2, <2>1 DEF Parsed
  <2>3. Begins(c0.frames, j, s)
    BY <2>2 DEF Reached
  <2>4. j # Len(c0.frames) + 1
    <3> SUFFICES ASSUME j = Len(c0.frames) + 1 PROVE FALSE
      OBVIOUS
    <3>1. Behind(c0.frames, j, s)
      BY <1>1, <2>3, BeginsNext, Zenon
    <3>2. s = Len(Bytes[c0.frames])
      BY <3>1, Zenon DEF Behind
    <3>3. x = s
      BY <1>2, <2>2 DEF InFrame
    <3> QED BY <1>1, <1>3, <3>2, <3>3
  <2> DEFINE f == c0.frames[j]
             h == HeadLen(f)
             l == FrameLen(f)
             n == f.n
  <2>5. FrameAt(c0.frames, j, s)
    BY <1>1, <2>3, <2>4, FrameThere, Zenon
  <2>6. /\ s \in Nat /\ j \in Nat /\ f \in Frame /\ h \in Nat /\ n \in Nat /\ l = h + n
        /\ \A o \in 1 .. l : Bytes[c0.frames][s + o] = FrameBytes(f, j)[o]
    BY <2>5, Zenon DEF FrameAt
  <2> DEFINE rest(p) == Len(data) - p + 1
             Piece(p, k) == IF rest(p) > n - k THEN n - k ELSE rest(p)
  <2>7. ASSUME NEW p \in 1 .. Len(data) + 1, NEW k \in 0 .. n, s + h + k = r0 + (p - 1)
        PROVE  /\ Piece(p, k) \in Nat /\ k + Piece(p, k) <= n /\ p + Piece(p, k) <= Len(data) + 1
               /\ PieceAt(data, p, Piece(p, k), j, k)
    <3> DEFINE len == Len(data)
    <3>1. Piece(p, k) \in Nat /\ k + Piece(p, k) <= n /\ p + Piece(p, k) <= len + 1 /\ p \in Nat \ {0} /\ k \in Nat
      <4>1. len \in Nat /\ n \in Nat
        BY <1>1, <2>6
      <4> HIDE DEF len, n
      <4> QED BY <4>1 DEF len
    <3> HIDE DEF Piece
    <3>2. PieceAt(data, p, Piece(p, k), j, k)
      BY <2>3, <2>4, <2>7, <3>1, PieceThere, Zenon
    <3> QED BY <3>1, <3>2
  <2>8. CASE header
    <3>1. Quiet(w.c.client) /\ \E o \in Nat : /\ x = s + o
                                              /\ (o = 0 /\ w.c.priv.wsStatus = ST_FLAGS) \/ InHeader(w.c.priv, f, o)
      <4>1. CASE x = s /\ w.c.priv.wsStatus = ST_FLAGS /\ Quiet(w.c.client)
        <5>1. x = s + 0
          BY <2>6, <4>1
        <5> QED BY <4>1, <5>1
      <4>2. CASE \E o \in Nat : x = s + o /\ InFrame(w.c, j, o)
        BY <1>2, <2>8, <4>2 DEF InFrame, InPayload
      <4> QED BY <2>2, <4>1, <4>2
    <3>2. PICK o \in Nat : x = s + o /\ ((o = 0 /\ w.c.priv.wsStatus = ST_FLAGS) \/ InHeader(w.c.priv, f, o))
      BY <3>1
    <3>3. o + 1 \in 1 .. l /\ o + 1 <= h
      <4>1. o + 1 <= h
        <5>1. h >= 2
          BY <2>6 DEF HeadLen, ExtBytes
        <5>2. InHeader(w.c.priv, f, o) => o <= h - 1
          BY <2>6 DEF InHeader
        <5> HIDE DEF h
        <5> QED BY <2>6, <3>2, <5>1, <5>2
      <4> HIDE DEF h, l, n
      <4> QED BY <2>6, <4>1
    <3>4. data[i] = FrameBytes(f, j)[o + 1]
      <4>1. r0 + i = s + (o + 1)
        BY <1>3, <2>6, <3>2
      <4> QED BY <1>1, <2>6, <3>3, <4>1
    <3> DEFINE q == HeaderByte(w.c.priv, data[i])
               u == [w EXCEPT !.c.priv = q]
    <3>5. \/ InHeader(q, f, o + 1)
          \/ o + 1 = h /\ InPayload(q, f, 0) /\ q.frameCont = FALSE
      <4>1. HeaderTaken(HeaderByte(w.c.priv, FrameBytes(f, j)[o + 1]), f, o + 1)
        BY <1>2, <2>6, <3>2, HeaderStep, Zenon
      <4> QED BY <3>4, <4>1, Zenon DEF HeaderTaken
    <3>6. q \in Privs
      <4>1. data[i] \in StreamBytes
        BY <1>1, ElementOfSeq
      <4> QED BY <1>2, <2>8, <4>1, HeaderByteTyped
    <3>7. v = IF u.c.priv.wsStatus # ST_PAYLOAD THEN u ELSE Payload(u, i + 1, data, TRUE, reply)
      BY <1>8, <2>8 DEF Byte
    <3> HIDE DEF q
    <3>8. /\ u \in Worlds(c0) /\ u.c.priv = q /\ u.r = "MORE" /\ u.skip = 0
          /\ u.c.frames = c0.frames /\ u.c.read = read /\ u.c.client = w.c.client /\ u.c.got = w.c.got
      <4> DEFINE c == [w.c EXCEPT !.priv = q]
      <4>1. /\ c \in Connections /\ c.priv = q /\ c.frames = w.c.frames /\ c.read = w.c.read
            /\ c.state = w.c.state /\ c.client = w.c.client /\ c.got = w.c.got
        BY <1>2, <3>6 DEF Connections
      <4>2. u = [w EXCEPT !.c = c]
        OBVIOUS
      <4> HIDE DEF c, u
      <4> QED BY <1>2, <2>1, <4>1, <4>2 DEF Worlds, Same
    <3> HIDE DEF u
    <3>9. C[x + 1] = C[x]
      <4>1. x \in s .. Len(Bytes[c0.frames]) /\ x + 1 \in x .. Len(Bytes[c0.frames]) /\ x + 1 <= s + h
        <5> DEFINE len == Len(Bytes[c0.frames])
        <5>1. x >= s /\ x + 1 <= len /\ len \in Nat /\ x + 1 = s + (o + 1)
          BY <1>1, <1>3, <2>6, <3>2, BytesTyped, LenProperties
        <5> HIDE DEF len, h
        <5> QED BY <1>3, <2>6, <3>3, <5>1 DEF len
      <4>2. NothingFor(c0.frames, j, s, x + 1)
        BY <4>1 DEF NothingFor
      <4>3. SameFor(c0.frames, x, x + 1)
        BY <1>1, <2>3, <2>4, <4>1, <4>2, NoContent, Zenon
      <4>4. x + 1 \in x .. x + 1
        BY <1>3
      <4> QED BY <4>3, <4>4, Zenon DEF SameFor
    <3>10. CASE InHeader(q, f, o + 1)
      <4>1. v = u
        BY <2>6, <3>6, <3>7, <3>8, <3>10, HeaderStatus, Zenon
      <4>2. InFrame(u.c, j, o + 1)
        BY <2>4, <3>1, <3>8, <3>10 DEF InFrame
      <4>3. x + 1 = s + (o + 1) /\ o + 1 \in Nat
        BY <1>3, <2>6, <3>2
      <4>4. Parsed(u.c, x + 1)
        BY <2>2, <3>8, <4>2, <4>3 DEF Parsed
      <4>5. (x + 1) + 0 = x + 1
        BY <1>3
      <4> HIDE DEF v, C
      <4> QED BY <1>3, <2>1, <3>8, <3>9, <4>1, <4>4, <4>5 DEF Ok, C
    <3>11. CASE o + 1 = h /\ InPayload(q, f, 0) /\ q.frameCont = FALSE
      <4> DEFINE p == i + 1
                 y == x + 1
                 sl == Piece(p, 0)
      <4>1. v = Payload(u, p, data, TRUE, reply)
        BY <3>7, <3>8, <3>11 DEF InPayload
      <4>2. y = s + h + 0 /\ y = r0 + (p - 1) /\ p \in 1 .. Len(data) + 1 /\ p \in Nat \ {0} /\ 0 \in 0 .. n
        <5>1. y = s + (o + 1) /\ y = r0 + i
          BY <1>3, <2>6, <3>2
        <5> HIDE DEF y, h, n
        <5> QED BY <1>1, <1>3, <2>6, <3>11, <5>1
      <4>3. sl \in Nat /\ 0 + sl <= n /\ p + sl <= Len(data) + 1 /\ PieceAt(data, p, sl, j, 0)
        BY <2>7, <4>2
      <4>4. sl = IF Len(data) - p + 1 > n - 0 THEN n - 0 ELSE Len(data) - p + 1
        OBVIOUS
      <4> HIDE DEF sl, p, y
      <4>5. Dealt(Payload(u, p, data, TRUE, reply), u, f, j, 0, sl, TRUE)
        <5>1. /\ u \in Worlds(c0) /\ u.r = "MORE" /\ data \in Seq(StreamBytes) /\ p \in 1 .. Len(data) + 1
              /\ TRUE \in BOOLEAN /\ f \in Frame /\ j \in Nat /\ 0 \in Nat /\ InPayload(u.c.priv, f, 0)
              /\ u.c.priv.frameCont = ~TRUE /\ (TRUE => 0 = 0 /\ Quiet(u.c.client))
              /\ (~TRUE => ~Ends(f) /\ ClientAt(u.c.client, f, 0))
              /\ sl \in Nat /\ (sl = IF Len(data) - p + 1 > f.n - 0 THEN f.n - 0 ELSE Len(data) - p + 1)
              /\ PieceAt(data, p, sl, j, 0)
          BY <1>1, <2>6, <3>1, <3>8, <3>11, <4>2, <4>3, <4>4 DEF n
        <5> QED BY <5>1, PayloadKeeps, Zenon
      <4>6. v \in Worlds(c0)
        <5>1. /\ u \in Worlds(c0) /\ data \in Seq(StreamBytes) /\ p \in 1 .. Len(data) + 1 /\ TRUE \in BOOLEAN
          BY <1>1, <3>8, <4>2
        <5>2. Payload(u, p, data, TRUE, reply) \in Worlds(c0)
          BY <5>1, PayloadTyped, Zenon
        <5> HIDE DEF v
        <5> QED BY <4>1, <5>2
      <4>7. u.c.got = C[y]
        BY <2>1, <3>8, <3>9 DEF y
      <4>8. Ok(v, IF TRUE THEN y ELSE y + 1)
        <5>1. /\ j # Len(c0.frames) + 1 /\ 0 \in Nat /\ p \in Nat \ {0}
              /\ y = s + HeadLen(c0.frames[j]) + 0 /\ y = r0 + (p - 1)
              /\ sl \in Nat /\ 0 + sl <= c0.frames[j].n /\ p + sl <= Len(data) + 1
              /\ TRUE \in BOOLEAN /\ (~TRUE => sl # 0)
              /\ u \in Worlds(c0) /\ u.c.got = Content(c0.frames)[y] /\ v \in Worlds(c0)
              /\ Dealt(v, u, c0.frames[j], j, 0, sl, TRUE) /\ Reached(c0.frames, j, s)
          BY <2>2, <2>4, <3>8, <4>1, <4>2, <4>3, <4>5, <4>6, <4>7 DEF f, h, n, C
        <5> QED BY <5>1, DealtOk, Zenon
      <4> QED BY <4>8 DEF y
    <3> QED BY <3>5, <3>10, <3>11
  <2>9. CASE ~header
    <3>1. PICK o \in Nat : x = s + o /\ InFrame(w.c, j, o)
      BY <2>2, <2>9 DEF ST_PAYLOAD, ST_FLAGS
    <3> DEFINE k == o - h
               sl == Piece(i, k)
    <3>2. /\ o \in h .. l - 1 /\ InPayload(w.c.priv, f, k) /\ w.c.priv.frameCont = TRUE
          /\ ~Ends(f) /\ ClientAt(w.c.client, f, k)
      <4>1. ~InHeader(w.c.priv, f, o)
        BY <1>2, <2>6, <2>9, HeaderStatus, Zenon
      <4> QED BY <1>2, <3>1, <4>1 DEF InFrame
    <3>3. v = Payload(w, i, data, FALSE, reply)
      BY <1>8, <2>9 DEF Byte
    <3>4. /\ k \in Nat /\ k \in 0 .. n /\ n - k >= 1 /\ x = s + h + k /\ i \in 1 .. Len(data) + 1 /\ i \in Nat \ {0}
      <4> DEFINE len == Len(data)
      <4>1. /\ o \in h .. l - 1 /\ l = h + n /\ h \in Nat /\ n \in Nat /\ x = s + o /\ s \in Nat
            /\ i \in 1 .. len /\ len \in Nat
        BY <1>1, <2>6, <3>1, <3>2
      <4> HIDE DEF h, l, n, len
      <4>2. k \in Nat /\ k \in 0 .. n /\ n - k >= 1 /\ x = s + h + k
        BY <4>1
      <4>3. i \in 1 .. len + 1 /\ i \in Nat \ {0}
        BY <4>1
      <4> QED BY <4>2, <4>3 DEF len
    <3>5. sl \in Nat /\ k + sl <= n /\ i + sl <= Len(data) + 1 /\ PieceAt(data, i, sl, j, k)
      BY <2>7, <3>4 DEF x
    <3>6. sl = IF Len(data) - i + 1 > n - k THEN n - k ELSE Len(data) - i + 1
      OBVIOUS
    <3>7. sl # 0
      <4> HIDE DEF k, n
      <4> QED BY <1>1, <3>4, <3>6
    <3> HIDE DEF sl, k
    <3>8. Dealt(Payload(w, i, data, FALSE, reply), w, f, j, k, sl, FALSE)
      <4>1. /\ w \in Worlds(c0) /\ w.r = "MORE" /\ data \in Seq(StreamBytes) /\ i \in 1 .. Len(data) + 1
            /\ FALSE \in BOOLEAN /\ f \in Frame /\ j \in Nat /\ k \in Nat /\ InPayload(w.c.priv, f, k)
            /\ w.c.priv.frameCont = ~FALSE /\ (FALSE => k = 0 /\ Quiet(w.c.client))
            /\ (~FALSE => ~Ends(f) /\ ClientAt(w.c.client, f, k))
            /\ sl \in Nat /\ (sl = IF Len(data) - i + 1 > f.n - k THEN f.n - k ELSE Len(data) - i + 1)
            /\ PieceAt(data, i, sl, j, k)
        BY <1>1, <2>1, <2>6, <3>2, <3>4, <3>5, <3>6 DEF n
      <4> QED BY <4>1, PayloadKeeps, Zenon
    <3>9. v \in Worlds(c0)
      <4>1. w \in Worlds(c0) /\ data \in Seq(StreamBytes) /\ i \in 1 .. Len(data) + 1 /\ FALSE \in BOOLEAN
        BY <1>1, <3>4
      <4>2. Payload(w, i, data, FALSE, reply) \in Worlds(c0)
        BY <4>1, PayloadTyped, Zenon
      <4> HIDE DEF v
      <4> QED BY <3>3, <4>2
    <3>10. Ok(v, IF FALSE THEN x ELSE x + 1)
      <4> HIDE DEF v
      <4>1. /\ j # Len(c0.frames) + 1 /\ k \in Nat /\ i \in Nat \ {0}
            /\ x = s + HeadLen(c0.frames[j]) + k /\ x = r0 + (i - 1)
            /\ sl \in Nat /\ k + sl <= c0.frames[j].n /\ i + sl <= Len(data) + 1
            /\ FALSE \in BOOLEAN /\ (~FALSE => sl # 0)
            /\ w \in Worlds(c0) /\ w.c.got = Content(c0.frames)[x] /\ v \in Worlds(c0)
            /\ Dealt(v, w, c0.frames[j], j, k, sl, FALSE) /\ Reached(c0.frames, j, s)
        BY <2>1, <2>2, <2>4, <3>3, <3>4, <3>5, <3>7, <3>8, <3>9 DEF f, h, n, C, x
      <4> QED BY <4>1, DealtOk, Zenon
    <3> QED BY <3>10
  <2> QED BY <2>8, <2>9
<1> QED BY <1>5, <1>7, <1>8

\* Every round does.
LEMMA RoundsOk ==
    ASSUME WebsocketAssumption, NEW c \in Connections, NEW data \in Seq(StreamBytes),
           NEW reply \in Replies, NEW c0, c0 = [c EXCEPT !.read = c.read + Len(data)],
           Fragment(c0, data, c.read), Parsed(c, c.read), c.got = Content(c.frames)[c.read],
           NEW F, Rounds(F, c, data, reply)
    PROVE  \A m \in 0 .. Len(data) : F[m] \in Worlds(c0) /\ Ok(F[m], c.read + m)
<1> DEFINE n == Len(data)
           r0 == c.read
           Bad == {m \in 0 .. n : ~Ok(F[m], r0 + m)}
<1>1. n \in Nat /\ r0 \in Nat
  BY LenProperties DEF Connections
<1>2. \A m \in 0 .. n : F[m] \in Worlds(c0)
  BY RoundsTyped
<1>3. F[0] = [c |-> c0, r |-> "MORE", skip |-> 0] /\ \A m \in 1 .. n : F[m] = Byte(F[m - 1], m, data, reply)
  BY DEF Rounds
<1>4. Ok(F[0], r0 + 0)
  <2>1. /\ c0.frames = c.frames /\ c0.read = r0 + n /\ c0.priv = c.priv /\ c0.client = c.client
        /\ c0.got = c.got
    BY <1>1 DEF Connections
  <2>2. Parsed(c0, r0)
    BY <2>1 DEF Parsed, InFrame
  <2>3. F[0].c = c0 /\ F[0].r = "MORE" /\ F[0].skip = 0
    BY <1>3
  <2>4. r0 + 0 = r0 /\ r0 <= c0.read
    BY <1>1, <2>1
  <2> HIDE DEF r0
  <2>5. c0.got = Content(c0.frames)[r0]
    BY <2>1 DEF r0
  <2> QED BY <1>1, <2>2, <2>3, <2>4, <2>5 DEF Ok
<1> HIDE DEF n, r0
<1>5. Bad = {}
  <2> SUFFICES ASSUME Bad # {} PROVE FALSE
    OBVIOUS
  <2>1. PICK m \in Bad : \A k \in Bad : m <= k
    <3>1. Bad \subseteq Nat
      OBVIOUS
    <3> HIDE DEF Bad
    <3> QED BY <3>1, Least
  <2>2. m # 0
    BY <1>4, <2>1
  <2>3. m \in 1 .. n /\ m - 1 \in 0 .. n /\ ~(m <= m - 1)
    BY <1>1, <2>1, <2>2
  <2>4. Ok(F[m - 1], r0 + (m - 1))
    BY <2>1, <2>3
  <2>5. Fragment(c0, data, r0) /\ F[m - 1] \in Worlds(c0) /\ m \in 1 .. Len(data)
    BY <1>2, <2>3 DEF r0, n
  <2>6. Ok(Byte(F[m - 1], m, data, reply), r0 + m)
    BY <2>4, <2>5, RoundStep, Zenon
  <2> QED BY <1>3, <2>1, <2>3, <2>6
<1> QED BY <1>2, <1>5 DEF n, r0

\* A websocket that goes on is parsed as far as it is read, and one that ended has left the
\* client with whole frames; both were given what is in the bytes that are read.
RecvLeaves(w) ==
    /\ w.c.got = Content(w.c.frames)[w.c.read]
    /\ IF w.r = "DONE" THEN Quiet(w.c.client) ELSE Parsed(w.c, w.c.read)

LEMMA RecvOk ==
    ASSUME WebsocketAssumption, NEW c \in Connections, NEW n \in 1 .. Len(Bytes[c.frames]) - c.read,
           NEW reply \in Replies, Parsed(c, c.read), c.got = Content(c.frames)[c.read]
    PROVE  RecvLeaves(cgiWebSocketRecv(c, SubSeq(Bytes[c.frames], c.read + 1, c.read + n), reply))
<1> DEFINE all == Bytes[c.frames]
           data == SubSeq(all, c.read + 1, c.read + n)
           w == cgiWebSocketRecv(c, data, reply)
           c0 == [c EXCEPT !.read = c.read + Len(data)]
<1>1. c.frames \in AllStreams /\ c.read \in Nat
  BY DEF Connections
<1>2. all \in Seq(StreamBytes) /\ Len(all) \in Nat
  BY <1>1, BytesTyped, LenProperties
<1>3. \A i \in 1 .. Len(all) : all[i] \in StreamBytes
  BY <1>2, ElementOfSeq
<1> HIDE DEF all
<1>4. n \in Nat /\ c.read + n <= Len(all) /\ n >= 1
  BY <1>1, <1>2 DEF all
<1>5. data \in Seq(StreamBytes) /\ Len(data) = n /\ \A i \in 1 .. n : data[i] = all[c.read + i]
  <2>1. \A i \in c.read + 1 .. c.read + n : all[i] \in StreamBytes
    BY <1>1, <1>2, <1>3, <1>4
  <2>2. /\ data \in Seq(StreamBytes)
        /\ Len(data) = IF c.read + 1 <= c.read + n THEN (c.read + n) - (c.read + 1) + 1 ELSE 0
        /\ \A i \in 1 .. (c.read + n) - (c.read + 1) + 1 : data[i] = all[(c.read + 1) + i - 1]
    <3> DEFINE first == c.read + 1
               last == c.read + n
    <3>1. first \in Int /\ last \in Int
      BY <1>1, <1>4
    <3>2. \A i \in first .. last : all[i] \in StreamBytes
      BY <2>1
    <3> HIDE DEF first, last
    <3>3. /\ SubSeq(all, first, last) \in Seq(StreamBytes)
          /\ Len(SubSeq(all, first, last)) = IF first <= last THEN last - first + 1 ELSE 0
          /\ \A i \in 1 .. last - first + 1 : SubSeq(all, first, last)[i] = all[first + i - 1]
      BY <3>1, <3>2, SubSeqProperties
    <3> QED BY <3>3 DEF first, last
  <2> DEFINE r == c.read
  <2> HIDE DEF data
  <2>3. /\ (r + n) - (r + 1) + 1 = n /\ r + 1 <= r + n
        /\ \A i \in 1 .. n : (r + 1) + i - 1 = r + i
    <3>1. r \in Nat /\ n \in Nat /\ n >= 1
      BY <1>1, <1>4
    <3> HIDE DEF r
    <3> QED BY <3>1
  <2> HIDE DEF r
  <2> QED BY <2>2, <2>3 DEF r
<1> HIDE DEF data
<1>6. c0 \in Connections /\ c0.frames = c.frames /\ c0.read = c.read + n
  <2> DEFINE read == c.read + n
  <2>1. read \in Nat /\ c0 = [c EXCEPT !.read = read]
    BY <1>1, <1>4, <1>5
  <2> HIDE DEF read, c0
  <2>2. c0 \in Connections /\ c0.frames = c.frames /\ c0.read = read
    BY <2>1 DEF Connections
  <2> QED BY <2>2 DEF read
<1> HIDE DEF c0
<1>7. Fragment(c0, data, c.read)
  BY <1>1, <1>2, <1>4, <1>5, <1>6 DEF Fragment, all
<1>8. PICK F : Rounds(F, c, data, reply) /\ w = F[Len(data)]
  BY <1>5, RecvRounds
<1>9. F[n] \in Worlds(c0) /\ Ok(F[n], c.read + n)
  <2>1. n \in 0 .. Len(data)
    BY <1>4, <1>5
  <2>2. c0 = [c EXCEPT !.read = c.read + Len(data)]
    BY DEF c0
  <2>3. data \in Seq(StreamBytes) /\ Rounds(F, c, data, reply)
    BY <1>5, <1>8
  <2>4. \A m \in 0 .. Len(data) : F[m] \in Worlds(c0) /\ Ok(F[m], c.read + m)
    BY <1>7, <2>2, <2>3, RoundsOk, Zenon
  <2> QED BY <2>1, <2>4, Zenon
<1> HIDE DEF w
<1>10. w \in Worlds(c0) /\ Ok(w, w.c.read) /\ w.c.read \in Nat
  <2>1. w = F[n]
    BY <1>5, <1>8
  <2>2. w.c.read = c.read + n
    BY <1>6, <1>9, <2>1 DEF Worlds, Same
  <2> QED BY <1>1, <1>4, <1>9, <2>1, <2>2
<1>11. RecvLeaves(w)
  <2> DEFINE read == w.c.read
  <2>1. read \in read .. read
    BY <1>10
  <2>2. \A skip \in Nat : read + skip <= read => skip = 0 /\ read + skip = read
    BY <1>10
  <2> HIDE DEF read
  <2>3. CASE w.r = "DONE"
    BY <1>10, <2>1, <2>3 DEF RecvLeaves, Ok, read
  <2>4. CASE w.r # "DONE"
    <3>1. /\ w.skip \in Nat /\ read + w.skip <= read /\ Parsed(w.c, read + w.skip)
          /\ w.c.got = Content(w.c.frames)[read + w.skip]
      BY <1>10, <2>4 DEF Ok, read
    <3>2. read + w.skip = read
      BY <2>2, <3>1
    <3> QED BY <2>4, <3>1, <3>2 DEF RecvLeaves, read
  <2> QED BY <2>3, <2>4
<1> QED BY <1>11 DEF w, data, all
-----------------------------------------------------------------------------
(* The bytes of every connection.                                          *)

\* The application was given what is in the bytes that were read, and nothing else; an
\* open websocket is parsed as far as it is read, and of any other the client has whole
\* frames.
BytesOf(c) ==
    /\ c.got = Content(c.frames)[c.read]
    /\ IF c.state = "open" THEN Parsed(c, c.read) ELSE Quiet(c.client)

BytesInv == \A c \in Conn : BytesOf(conn[c])

\* A client that has the first bytes of a stream parsed has whole frames or a part of the
\* PONG to the PING that is read.
LEMMA ParsedWhole ==
    ASSUME NEW c, NEW x, Parsed(c, x)
    PROVE  Whole(c)
<1>1. PICK j, s : \/ x = s /\ c.priv.wsStatus = ST_FLAGS /\ Quiet(c.client)
                  \/ \E o \in Nat : x = s + o /\ InFrame(c, j, o)
  BY DEF Parsed
<1>2. ASSUME NEW o \in Nat, InFrame(c, j, o), ~Quiet(c.client) PROVE Whole(c)
  <2> DEFINE f == c.frames[j]
             k == o - HeadLen(f)
  <2>1. InPayload(c.priv, f, k) /\ c.priv.frameCont = TRUE /\ ClientAt(c.client, f, k)
    BY <1>2 DEF InFrame
  <2> HIDE DEF f, k
  <2> QED BY <1>2, <2>1 DEF ClientAt, PongAt, Quiet, Whole, InPong, InPayload
<1> QED BY <1>1, <1>2 DEF Whole

\* A frame sent in between leaves the parser where it is, and spoils the PONG it is in.
LEMMA SendBetween ==
    ASSUME NEW c \in Connections, NEW x, Parsed(c, x), NEW fits \in BOOLEAN
    PROVE  LET d == Open(cgiWebsocketSend(c, fits))
           IN  /\ d.state = c.state /\ d.frames = c.frames /\ d.read = c.read /\ d.got = c.got
               /\ Parsed(d, x)
<1> DEFINE sent == cgiWebsocketSend(c, fits)
           d == Open(sent)
<1>1. Same(c, sent) /\ sent.priv = c.priv
  <2>1. Len(<<>>) \in Nat /\ 0 \in Nat
    BY EmptySeq
  <2> QED BY <2>1, SendingTyped
<1>2. Quiet(sent.client) /\ sent.got = c.got
  BY ParsedWhole, SendKeeps
<1>3. InPong(c) => sent.client.stream = "spoilt"
  <2> SUFFICES ASSUME InPong(c) PROVE sent.client.stream = "spoilt"
    OBVIOUS
  <2> DEFINE spoilt == [c EXCEPT !.client.stream = "spoilt"]
             client == [Broken(spoilt.client, spoilt.client.k < spoilt.client.n) EXCEPT !.n = 0, !.k = 0]
  <2>1. c.client \in Decoders
    BY DEF Connections
  <2>2. spoilt \in Connections /\ spoilt.client \in Decoders /\ spoilt.client.stream = "spoilt"
    BY <2>1 DEF Connections, Decoders
  <2>3. sent = [spoilt EXCEPT !.client = client, !.notif = TRUE]
    BY DEF cgiWebsocketSend
  <2> HIDE DEF spoilt, sent
  <2>4. client.stream = "spoilt"
    BY <2>2 DEF Broken, Decoders
  <2> HIDE DEF client
  <2> QED BY <2>2, <2>3, <2>4 DEF Connections
<1> HIDE DEF sent
<1>4. /\ d.state = c.state /\ d.frames = c.frames /\ d.read = c.read /\ d.got = c.got
      /\ d.priv = c.priv /\ d.client = sent.client
  BY <1>1, <1>2 DEF Same, Open, Connections
<1> HIDE DEF d
<1>5. PICK j, s : /\ Reached(c.frames, j, s)
                  /\ \/ x = s /\ c.priv.wsStatus = ST_FLAGS /\ Quiet(c.client)
                     \/ \E o \in Nat : x = s + o /\ InFrame(c, j, o)
  BY DEF Parsed
<1>6. ASSUME NEW o \in Nat, InFrame(c, j, o) PROVE InFrame(d, j, o)
  <2> DEFINE f == c.frames[j]
             k == o - HeadLen(f)
  <2>1. CASE InHeader(c.priv, f, o)
    BY <1>2, <1>4, <1>6, <2>1 DEF InFrame
  <2>2. CASE ~InHeader(c.priv, f, o)
    <3>1. /\ InPayload(c.priv, f, k) /\ c.priv.frameCont = TRUE /\ ~Ends(f) /\ ClientAt(c.client, f, k)
          /\ o \in HeadLen(f) .. FrameLen(f) - 1 /\ j # Len(c.frames) + 1
      BY <1>6, <2>2 DEF InFrame
    <3>2. ClientAt(d.client, f, k)
      <4> HIDE DEF f, k
      <4>1. f.op = "PING" => InPong(c)
        BY <3>1 DEF InPong, InPayload
      <4> QED BY <1>2, <1>3, <1>4, <4>1 DEF ClientAt, PongAt
    <3> QED BY <1>4, <3>1, <3>2 DEF InFrame
  <2> QED BY <2>1, <2>2
<1>7. Parsed(d, x)
  BY <1>2, <1>4, <1>5, <1>6 DEF Parsed
<1> QED BY <1>4, <1>7 DEF d, sent

\* Nothing is known of a connection that is closed, and nothing was given.
LEMMA ClosedBytes ==
    ASSUME WebsocketAssumption
    PROVE  BytesOf(Closed)
<1>1. Closed.got = <<>> /\ Closed.frames = <<>> /\ Closed.read = 0 /\ Closed.state = "closed"
  BY DEF Closed
<1>2. Quiet(Closed.client)
  BY DEF Closed, Decoder, Quiet
<1>3. Content(<<>>)[0] = <<>>
  <2>1. <<>> \in AllStreams
    BY DEF AllStreams
  <2> QED BY <2>1, ContentIs
<1> HIDE DEF Content
<1> QED BY <1>1, <1>2, <1>3 DEF BytesOf

\* The parser of a websocket that was opened is at the first frame.
LEMMA OpenedBytes ==
    ASSUME WebsocketAssumption, NEW c \in Conn, NEW s \in Streams(c)
    PROVE  BytesOf([Closed EXCEPT !.state = "open", !.frames = s])
<1> DEFINE d == [Closed EXCEPT !.state = "open", !.frames = s]
<1>1. /\ d.got = <<>> /\ d.frames = s /\ d.read = 0 /\ d.state = "open" /\ d.priv.wsStatus = ST_FLAGS
      /\ Quiet(d.client)
  BY DEF Closed, Priv, Decoder, Quiet
<1> HIDE DEF d
<1>2. s \in AllStreams
  BY DEF AllStreams
<1>3. Content(s)[0] = <<>>
  BY <1>2, ContentIs
<1>4. Begins(s, 1, 0) /\ \A i \in 1 .. 1 - 1 : FALSE
  BY <1>2, BeginsFirst
<1>5. Parsed(d, 0)
  BY <1>1, <1>4 DEF Parsed, Reached
<1> QED BY <1>1, <1>3, <1>5 DEF BytesOf, d

\* A step changes the bytes of one connection, or of none.
LEMMA OneConnectionBytes ==
    ASSUME Shapes, BytesInv, NEW c, NEW d, conn' = [conn EXCEPT ![c] = d], BytesOf(d)
    PROVE  BytesInv'
<1>1. conn \in [Conn -> Connections]
  BY DEF Shapes
<1>2. \A x \in Conn : conn'[x] = IF x = c THEN d ELSE conn[x]
  BY <1>1
<1>3. \A x \in Conn : BytesOf(conn[x])
  BY DEF BytesInv
<1>4. \A x \in Conn : BytesOf(conn'[x])
  BY <1>2, <1>3
<1> QED BY <1>4 DEF BytesInv

\* Whatever arrives of a stream, its bytes are dealt with as they are.
LEMMA ReceiveBytes ==
    ASSUME WebsocketAssumption, WebsocketInv, BytesInv, NEW c \in Conn, Receive(c)
    PROVE  BytesInv'
<1>1. conn[c] \in Connections /\ conn[c].state = "open" /\ Shapes
  BY DEF WebsocketInv, Shapes, Receive
<1>2. Parsed(conn[c], conn[c].read) /\ conn[c].got = Content(conn[c].frames)[conn[c].read]
  <2>1. BytesOf(conn[c])
    BY DEF BytesInv
  <2> QED BY <1>1, <2>1 DEF BytesOf
<1>3. PICK n \in 1 .. Len(Bytes[conn[c].frames]) - conn[c].read, reply \in Replies :
         LET data == SubSeq(Bytes[conn[c].frames], conn[c].read + 1, conn[c].read + n)
             w == cgiWebSocketRecv(conn[c], data, reply)
         IN  IF w.r = "DONE"
             THEN /\ \E pending \in BOOLEAN :
                        conn' = [conn EXCEPT ![c] = [w.c EXCEPT !.state = "done", !.notif = @ \/ pending]]
                  /\ websockFree(c)
             ELSE conn' = [conn EXCEPT ![c] = Open(w.c)] /\ UNCHANGED <<ll, cast>>
  BY DEF Receive
<1> DEFINE data == SubSeq(Bytes[conn[c].frames], conn[c].read + 1, conn[c].read + n)
           w == cgiWebSocketRecv(conn[c], data, reply)
<1>4. w.c \in Connections /\ w.c.state = "open"
  BY <1>1, ReadOn
<1>5. RecvLeaves(w)
  BY <1>1, <1>2, RecvOk, Zenon
<1>6. CASE w.r = "DONE"
  <2>0. PICK pending \in BOOLEAN :
           conn' = [conn EXCEPT ![c] = [w.c EXCEPT !.state = "done", !.notif = @ \/ pending]]
    BY <1>3, <1>6
  <2> DEFINE d == [w.c EXCEPT !.state = "done", !.notif = w.c.notif \/ pending]
  <2>1. conn' = [conn EXCEPT ![c] = d]
    BY <1>4, <2>0 DEF Connections
  <2> HIDE DEF w
  <2>2. d.state = "done" /\ d.frames = w.c.frames /\ d.read = w.c.read /\ d.got = w.c.got /\ d.client = w.c.client
    BY <1>4 DEF Connections
  <2> HIDE DEF d
  <2>3. BytesOf(d)
    BY <1>5, <1>6, <2>2 DEF RecvLeaves, BytesOf
  <2> QED BY <1>1, <2>1, <2>3, OneConnectionBytes
<1>7. CASE w.r # "DONE"
  <2> DEFINE d == Open(w.c)
  <2>1. conn' = [conn EXCEPT ![c] = d]
    BY <1>3, <1>7
  <2> HIDE DEF w
  <2>2. /\ d.state = "open" /\ d.frames = w.c.frames /\ d.read = w.c.read /\ d.got = w.c.got
        /\ d.client = w.c.client /\ d.priv = w.c.priv
    BY <1>4 DEF Connections, Open
  <2> HIDE DEF d
  <2>3. Parsed(d, d.read)
    BY <1>5, <1>7, <2>2 DEF RecvLeaves, Parsed, InFrame
  <2>4. BytesOf(d)
    BY <1>5, <2>2, <2>3 DEF RecvLeaves, BytesOf
  <2> QED BY <1>1, <2>1, <2>4, OneConnectionBytes
<1> QED BY <1>6, <1>7

\* In every reachable state the bytes are where they should be.
THEOREM BytesInvariant == Spec => []BytesInv
<1>0. WebsocketAssumption
  BY WebsocketAssumption DEF WebsocketAssumption
<1>1. Init => BytesInv
  BY <1>0, ClosedBytes DEF Init, BytesInv
<1>2. WebsocketInv /\ BytesInv /\ [Next]_vars => BytesInv'
  <2> SUFFICES ASSUME WebsocketInv, BytesInv, [Next]_vars PROVE BytesInv'
    OBVIOUS
  <2>0. Shapes
    BY DEF WebsocketInv
  <2>1. ASSUME NEW c \in Conn, cgiWebsocket(c) PROVE BytesInv'
    <3>1. PICK s \in Streams(c) : conn' = [conn EXCEPT ![c] = [Closed EXCEPT !.state = "open", !.frames = s]]
      BY <2>1 DEF cgiWebsocket
    <3> DEFINE d == [Closed EXCEPT !.state = "open", !.frames = s]
    <3>2. BytesOf(d) /\ conn' = [conn EXCEPT ![c] = d]
      BY <1>0, <3>1, OpenedBytes
    <3> HIDE DEF d
    <3> QED BY <2>0, <3>2, OneConnectionBytes
  <2>2. ASSUME NEW c \in Conn, Receive(c) PROVE BytesInv'
    BY <1>0, <2>2, ReceiveBytes
  <2>3. ASSUME Restart PROVE BytesInv'
    BY <1>0, <2>3, ClosedBytes DEF Restart, BytesInv
  <2>4. ASSUME NEW c \in Conn, Sent(c) \/ Disconnect(c) PROVE BytesInv'
    <3>1. conn' = [conn EXCEPT ![c] = Closed]
      BY <2>4 DEF Sent, Disconnect
    <3> QED BY <1>0, <2>0, <3>1, ClosedBytes, OneConnectionBytes
  <2>5. ASSUME SendOne, ~Restart PROVE BytesInv'
    <3>1. PICK intact \in BOOLEAN :
             conn' = [conn EXCEPT ![cast.lw] = Open(cgiWebsocketSend(@, intact))]
      BY <2>5 DEF SendOne
    <3> DEFINE c == conn[cast.lw]
               d == Open(cgiWebsocketSend(c, intact))
    <3>2. c \in Connections /\ c.state = "open" /\ cast.lw \in Conn
      BY <2>5 DEF WebsocketInv, Shapes, ListIsOpen, WalkInv, SendOne, Walking
    <3>3. BytesOf(c)
      BY <3>2 DEF BytesInv
    <3>4. conn' = [conn EXCEPT ![cast.lw] = d]
      BY <3>1
    <3> HIDE DEF c
    <3>5. /\ d.state = c.state /\ d.frames = c.frames /\ d.read = c.read /\ d.got = c.got
          /\ Parsed(d, c.read)
      BY <3>2, <3>3, SendBetween DEF BytesOf
    <3> HIDE DEF d
    <3>6. BytesOf(d)
      BY <3>2, <3>3, <3>5 DEF BytesOf
    <3> QED BY <2>0, <3>4, <3>6, OneConnectionBytes
  <2>6. ASSUME UNCHANGED conn PROVE BytesInv'
    BY <2>6 DEF BytesInv
  <2> QED BY <2>1, <2>2, <2>3, <2>4, <2>5, <2>6
          DEF Next, ReceiveDone, Broadcast, NextWebsocket, Astray, vars
<1> QED BY <1>1, <1>2, WebsocketInvariant, PTL DEF Spec

\* The application is given the payload of the data frames, each byte once, unmasked and
\* in order, in whatever fragments the network makes of the stream.
THEOREM FragmentsCorrect == Spec => []FragmentsInvisible
<1>1. BytesInv => FragmentsInvisible
  BY DEF BytesInv, BytesOf, FragmentsInvisible
<1> QED BY <1>1, BytesInvariant, PTL

\* What a connection is given to send is whole frames, and PONGs that are their PINGs in
\* whatever fragments these came, unless the server was told to send into a PONG, to send
\* what does not fit, or had no memory to send it with.
THEOREM FramesCorrect == Spec => []FramesWhole
<1>1. BytesInv => FramesWhole
  <2> SUFFICES ASSUME BytesInv, NEW c \in Conn, conn[c].client.stream # "spoilt"
               PROVE  /\ conn[c].client.stream = "whole"
                      /\ InPong(conn[c]) \/ conn[c].client.k = conn[c].client.n
    BY DEF FramesWhole
  <2>1. BytesOf(conn[c])
    BY DEF BytesInv
  <2>2. Whole(conn[c])
    BY <2>1, ParsedWhole DEF BytesOf, Whole
  <2> QED BY <2>2 DEF Whole, Quiet
<1> QED BY <1>1, BytesInvariant, PTL
=============================================================================

-------------------------- MODULE HttpdCore_proofs --------------------------
(***************************************************************************)
(* Proofs about HttpdCore, for any number of slots and of remote ends, any *)
(* requests, and whatever write(), accept() and malloc() refuse.           *)
(*                                                                         *)
(* The pool and the loop each hold a table of connections and look the     *)
(* other's up by the remote end.  That the tables agree (Tables) is kept   *)
(* because a callback leaves the remote ends of its connection and of its  *)
(* socket alone, which is proved of every operator that makes up one.      *)
(*                                                                         *)
(* That the parts of an answer come in order (the second half of the       *)
(* module) needs more than what the client got: the parts that wait in the *)
(* send buffer or in the backlog follow those, the CGI goes on behind      *)
(* them, and at most one head is on its way, to a connection with nothing  *)
(* of an older answer left (Good).  It is carried through every operator   *)
(* of a callback, piece of input by piece of input.                        *)
(***************************************************************************)
EXTENDS HttpdCore, SequenceTheorems, FiniteSetTheorems, WellFoundedInduction, TLAPS

Part == [n : Nat, last : BOOLEAN]
Item == [type : {"head", "body"}, request : Requests]
Lens == {Header} \cup {request.chunks : request \in Requests}
RequestType == [chunks : Nat, http11 : BOOLEAN, url : BOOLEAN, found : BOOLEAN]

Ends == [state : {"closed", "pending", "open", "left"}, asked : {"none", "HTTP/1.1", "HTTP/1.0"},
         unsent : Seq(Item), inbox : Seq(Item), got : Seq(Part)]

Sockets == [peer : Peer \cup {Nobody}, notif : BOOLEAN, needsClose : BOOLEAN]

Connections ==
    [peer : Peer \cup {Nobody}, len : Lens, received : Nat, request : RequestType,
     cgi : BOOLEAN, chunked : BOOLEAN, discon : BOOLEAN, junk : BOOLEAN,
     backlog : Seq(Seq(Part)), parts : Nat, leaked : BOOLEAN]

Loops == [at : {"select", "accept", "write", "close", "sent", "read"}, x : Slots,
          reads : SUBSET Slots, writes : SUBSET Slots]

Shapes ==
    /\ peer \in [Peer -> Ends]
    /\ rconn \in [Slots -> Sockets]
    /\ connData \in [Slots -> Connections]
    /\ \A i \in Slots : Size(connData[i].backlog) <= MaxBacklog
    /\ loop \in Loops
    /\ open \subseteq Peer

InPool(p) == \E i \in Slots : connData[i].peer = p

NoLoss == Failing \cap {"connData", "post"} = {}

\* The two tables.
Tables ==
    /\ \A x, y \in Slots : rconn[x].peer = rconn[y].peer /\ rconn[x].peer # Nobody => x = y
    /\ \A i, j \in Slots : connData[i].peer = connData[j].peer /\ connData[i].peer # Nobody => i = j
    /\ \A i \in Slots : connData[i].peer # Nobody => \E x \in Slots : rconn[x].peer = connData[i].peer
    /\ \A x \in Slots : rconn[x].peer # Nobody => peer[rconn[x].peer].state \in {"open", "left"}
    /\ NoLoss => /\ \A x \in Slots : rconn[x].peer # Nobody => InPool(rconn[x].peer)
                 /\ \A i \in Slots : connData[i].peer = Nobody => connData[i] = NULL

\* What the loop remembers from one of its steps to the next is still so.
LoopInv ==
    /\ loop.at = "accept" => Free # {}
    /\ loop.at \in {"close", "sent"} => Socket.peer # Nobody
    /\ loop.at = "sent" => InPool(Socket.peer)
    /\ \A x \in Slots : rconn[x].peer # Nobody /\ rconn[x].notif /\ ~rconn[x].needsClose
                           => InPool(rconn[x].peer)

CoreInv == Shapes /\ Tables /\ LoopInv /\ NoCgiLeftBehind
-----------------------------------------------------------------------------
(* Induction, and the size of a backlog.                                   *)

\* A set of numbers has a least one: the form induction takes here.
LEMMA Least ==
    ASSUME NEW T, T \subseteq Nat, T # {}
    PROVE  \E x \in T : \A y \in T : x <= y
<1> DEFINE R == OpToRel(<, Nat)
<1>1. IsWellFoundedOn(R, Nat)
  BY NatLessThanWellFounded
<1>2. \A x, y \in Nat : <<y, x>> \in R <=> y < x
  BY DEF OpToRel
<1> HIDE DEF R
<1>3. PICK x \in T : \A y \in T : ~ (<<y, x>> \in R)
  BY <1>1, WFMin
<1>4. ASSUME NEW y \in T PROVE x <= y
  <2>1. x \in Nat /\ y \in Nat
    OBVIOUS
  <2>2. ~(y < x)
    BY <1>2, <1>3, <2>1, Zenon
  <2> QED BY <2>1, <2>2
<1> QED BY <1>3, <1>4

\* The running sums of the lengths of n packets, len, exist.
LEMMA SumsExist ==
    ASSUME NEW n \in Nat, NEW len \in [1 .. n -> Nat]
    PROVE  \E f : f = [m \in 0 .. n |-> IF m = 0 THEN 0 ELSE f[m - 1] + len[m]]
<1> DEFINE Fits(f, m) == f = [k \in 0 .. m |-> IF k = 0 THEN 0 ELSE f[k - 1] + len[k]]
           Unfit == {m \in 0 .. n : ~ \E f : Fits(f, m)}
<1>1. Unfit = {}
  <2> SUFFICES ASSUME Unfit # {} PROVE FALSE
    OBVIOUS
  <2>1. PICK m \in Unfit : \A k \in Unfit : m <= k
    <3>1. Unfit \subseteq Nat
      OBVIOUS
    <3> HIDE DEF Unfit
    <3> QED BY <3>1, Least
  <2>2. m # 0
    <3>1. Fits([k \in 0 .. 0 |-> 0], 0)
      OBVIOUS
    <3> QED BY <3>1
  <2>3. PICK f : Fits(f, m - 1)
    <3>1. m \in 0 .. n
      OBVIOUS
    <3>2. m - 1 \in 0 .. n /\ ~(m <= m - 1)
      BY <2>2, <3>1
    <3>3. m - 1 \notin Unfit
      <4> HIDE DEF Unfit
      <4> QED BY <2>1, <3>2
    <3> QED BY <3>2, <3>3
  <2>4. Fits([k \in 0 .. m |-> IF k = m THEN f[m - 1] + len[m] ELSE f[k]], m)
    BY <2>2, <2>3
  <2> QED BY <2>1, <2>4
<1>2. n \in 0 .. n /\ n \notin Unfit
  <2> HIDE DEF Unfit
  <2> QED BY <1>1
<1> QED BY <1>2, Zenon

\* What f sums up are the lengths of the packets of b.
Sums(f, b) == /\ f \in [0 .. Len(b) -> Nat] /\ f[0] = 0
              /\ \A m \in 1 .. Len(b) : f[m] = f[m - 1] + Len(b[m])

\* The size of a backlog is the last of the running sums of its packets.
LEMMA SizeIs ==
    ASSUME NEW b \in Seq(Seq(Part))
    PROVE  Size(b) \in Nat /\ \E f : Sums(f, b) /\ Size(b) = f[Len(b)]
<1> DEFINE n == Len(b)
           len == [m \in 1 .. n |-> Len(b[m])]
           Fits(f) == f = [m \in 0 .. n |-> IF m = 0 THEN 0 ELSE f[m - 1] + Len(b[m])]
           F == CHOOSE f : Fits(f)
<1>1. n \in Nat
  BY LenProperties
<1>2. \A m \in 1 .. n : Len(b[m]) \in Nat
  <2>1. \A m \in 1 .. n : b[m] \in Seq(Part)
    BY ElementOfSeq
  <2> QED BY <2>1, LenProperties
<1>3. \E f : Fits(f)
  <2>1. len \in [1 .. n -> Nat]
    BY <1>2
  <2>2. PICK f : f = [m \in 0 .. n |-> IF m = 0 THEN 0 ELSE f[m - 1] + len[m]]
    <3> HIDE DEF len, n
    <3> QED BY <1>1, <2>1, SumsExist
  <2>3. \A m \in 0 .. n : m # 0 => len[m] = Len(b[m])
    <3> HIDE DEF n
    <3>1. \A m \in 0 .. n : m # 0 => m \in 1 .. n
      BY <1>1
    <3> QED BY <3>1
  <2>4. Fits(f)
    <3> HIDE DEF len
    <3> QED BY <2>2, <2>3
  <2> QED BY <2>4
<1>4. Fits(F)
  BY <1>3
<1>5. Size(b) = F[n]
  BY DEF Size
<1>6. \A m \in 0 .. n : F[m] = IF m = 0 THEN 0 ELSE F[m - 1] + Len(b[m])
  BY <1>4
<1>7. DOMAIN F = 0 .. n /\ F = [m \in 0 .. n |-> F[m]]
  BY <1>4
<1> DEFINE Bad == {m \in 0 .. n : F[m] \notin Nat}
<1> HIDE DEF F, n
<1>8. Bad = {}
  <2> SUFFICES ASSUME Bad # {} PROVE FALSE
    OBVIOUS
  <2>1. PICK m \in Bad : \A k \in Bad : m <= k
    <3>1. Bad \subseteq Nat
      OBVIOUS
    <3> HIDE DEF Bad
    <3> QED BY <3>1, Least
  <2>2. m # 0
    BY <1>1, <1>6
  <2>3. m - 1 \in 0 .. n /\ F[m - 1] \in Nat /\ m \in 1 .. n
    BY <1>1, <2>1, <2>2
  <2> QED BY <1>2, <1>6, <2>2, <2>3
<1>9. \A m \in 0 .. n : F[m] \in Nat
  BY <1>8
<1>10. F \in [0 .. n -> Nat] /\ F[0] = 0 /\ F[n] \in Nat
  <2>1. 0 \in 0 .. n /\ n \in 0 .. n
    BY <1>1
  <2> QED BY <1>6, <1>7, <1>9, <2>1
<1>11. \A m \in 1 .. n : F[m] = F[m - 1] + Len(b[m])
  <2>1. \A m \in 1 .. n : m \in 0 .. n /\ m # 0
    BY <1>1
  <2> QED BY <1>6, <2>1
<1> QED BY <1>5, <1>10, <1>11 DEF Sums, n

\* A packet more makes the backlog larger by its length.
LEMMA SizeAppend ==
    ASSUME NEW b \in Seq(Seq(Part)), NEW d \in Seq(Part)
    PROVE  Size(Append(b, d)) = Size(b) + Len(d)
<1> DEFINE c == Append(b, d)
           n == Len(b)
<1>1. /\ c \in Seq(Seq(Part)) /\ n \in Nat /\ Len(c) = n + 1 /\ c[n + 1] = d
      /\ \A m \in 1 .. n : c[m] = b[m]
  BY AppendProperties, LenProperties
<1>2. PICK f : Sums(f, b) /\ Size(b) = f[Len(b)]
  BY SizeIs
<1>3. PICK g : Sums(g, c) /\ Size(c) = g[Len(c)]
  <2> HIDE DEF c
  <2> QED BY <1>1, SizeIs
<1> DEFINE Bad == {m \in 0 .. n : f[m] # g[m]}
<1> HIDE DEF c
<1>4. /\ f[0] = 0 /\ \A m \in 1 .. n : f[m] = f[m - 1] + Len(b[m])
      /\ g[0] = 0 /\ \A m \in 1 .. n + 1 : g[m] = g[m - 1] + Len(c[m])
  BY <1>1, <1>2, <1>3 DEF Sums
<1> HIDE DEF n
<1>5. Bad = {}
  <2> SUFFICES ASSUME Bad # {} PROVE FALSE
    OBVIOUS
  <2>1. PICK m \in Bad : \A k \in Bad : m <= k
    <3>1. Bad \subseteq Nat
      OBVIOUS
    <3> HIDE DEF Bad
    <3> QED BY <3>1, Least
  <2>2. m # 0
    BY <1>4
  <2>3. m - 1 \in 0 .. n /\ f[m - 1] = g[m - 1] /\ m \in 1 .. n /\ m \in 1 .. n + 1
    BY <1>1, <2>1, <2>2
  <2>4. f[m] = g[m]
    BY <1>1, <1>4, <2>3
  <2> QED BY <2>1, <2>4
<1>6. g[n + 1] = f[n] + Len(d)
  <2>1. n + 1 \in 1 .. n + 1 /\ (n + 1) - 1 = n /\ n \in 0 .. n
    BY <1>1
  <2>2. g[n + 1] = g[n] + Len(c[n + 1])
    BY <1>4, <2>1
  <2> QED BY <1>1, <1>5, <2>1, <2>2
<1> QED BY <1>1, <1>2, <1>3, <1>6 DEF n, c

\* A packet less makes it no larger.
LEMMA SizeTail ==
    ASSUME NEW b \in Seq(Seq(Part)), b # <<>>
    PROVE  Tail(b) \in Seq(Seq(Part)) /\ Head(b) \in Seq(Part) /\ Size(Tail(b)) <= Size(b)
<1> DEFINE c == Tail(b)
           n == Len(c)
<1>1. /\ c \in Seq(Seq(Part)) /\ Head(b) \in Seq(Part) /\ n \in Nat /\ Len(b) = n + 1
      /\ \A m \in 1 .. n : c[m] = b[m + 1]
      /\ Len(b[1]) \in Nat
  <2>1. /\ Head(b) = b[1] /\ Head(b) \in Seq(Part) /\ c \in Seq(Seq(Part)) /\ Len(c) = Len(b) - 1
        /\ \A m \in 1 .. Len(c) : c[m] = b[m + 1]
    BY HeadTailProperties
  <2>2. Len(b[1]) \in Nat /\ n \in Nat /\ Len(b) \in Nat
    BY <2>1, LenProperties
  <2> HIDE DEF c
  <2> QED BY <2>1, <2>2
<1>2. PICK f : Sums(f, b) /\ Size(b) = f[Len(b)]
  BY SizeIs
<1>3. PICK g : Sums(g, c) /\ Size(c) = g[Len(c)]
  <2> HIDE DEF c
  <2> QED BY <1>1, SizeIs
<1> DEFINE Bad == {m \in 0 .. n : f[m + 1] # g[m] + Len(b[1])}
<1> HIDE DEF c
<1>4. /\ f[0] = 0 /\ \A m \in 1 .. n + 1 : f[m] = f[m - 1] + Len(b[m])
      /\ g[0] = 0 /\ \A m \in 1 .. n : g[m] = g[m - 1] + Len(c[m])
      /\ \A m \in 0 .. n : g[m] \in Nat
  BY <1>1, <1>2, <1>3 DEF Sums
<1>5. \A m \in 2 .. n + 1 : Len(b[m]) \in Nat
  <2>1. \A m \in 2 .. n + 1 : m \in 1 .. Len(b)
    BY <1>1
  <2>2. \A m \in 1 .. Len(b) : b[m] \in Seq(Part)
    BY ElementOfSeq
  <2> QED BY <2>1, <2>2, LenProperties
<1> HIDE DEF n
<1>6. Bad = {}
  <2> SUFFICES ASSUME Bad # {} PROVE FALSE
    OBVIOUS
  <2>1. PICK m \in Bad : \A k \in Bad : m <= k
    <3>1. Bad \subseteq Nat
      OBVIOUS
    <3> HIDE DEF Bad
    <3> QED BY <3>1, Least
  <2>2. m # 0
    <3>1. 1 \in 1 .. n + 1 /\ 1 - 1 = 0 /\ 0 + 1 = 1
      BY <1>1
    <3>2. f[0 + 1] = g[0] + Len(b[1])
      BY <1>1, <1>4, <3>1
    <3> QED BY <2>1, <3>2
  <2>3. m - 1 \in 0 .. n /\ m \in 1 .. n /\ m + 1 \in 2 .. n + 1 /\ m + 1 \in 1 .. n + 1
        /\ (m - 1) + 1 = m /\ (m + 1) - 1 = m /\ ~(m <= m - 1)
    BY <1>1, <2>1, <2>2
  <2>4. f[m] = g[m - 1] + Len(b[1])
    BY <2>1, <2>3
  <2>5. f[m + 1] = f[m] + Len(b[m + 1]) /\ g[m] = g[m - 1] + Len(b[m + 1])
    BY <1>1, <1>4, <2>3
  <2>6. g[m - 1] \in Nat /\ Len(b[1]) \in Nat /\ Len(b[m + 1]) \in Nat
    BY <1>1, <1>4, <1>5, <2>3
  <2>7. f[m + 1] = g[m] + Len(b[1])
    BY <2>4, <2>5, <2>6
  <2> QED BY <2>1, <2>7
<1>7. f[n + 1] = g[n] + Len(b[1]) /\ g[n] \in Nat
  <2>1. n \in 0 .. n
    BY <1>1
  <2> QED BY <1>4, <1>6, <2>1
<1>8. Size(c) <= Size(b)
  BY <1>1, <1>2, <1>3, <1>7 DEF n
<1> QED BY <1>1, <1>8 DEF c

\* A connection without a backlog.
LEMMA SizeEmpty == Size(<<>>) = 0 /\ <<>> \in Seq(Seq(Part))
<1>1. <<>> \in Seq(Seq(Part)) /\ Len(<<>>) = 0
  BY EmptySeq
<1>2. PICK f : Sums(f, <<>>) /\ Size(<<>>) = f[Len(<<>>)]
  BY <1>1, SizeIs
<1> QED BY <1>1, <1>2 DEF Sums
-----------------------------------------------------------------------------
(* What a callback may do to the connection of the remote end p.           *)

Worlds(p) ==
    {w \in [c : Connections, r : Sockets, got : Seq(Part), buff : Seq(Part), open : BOOLEAN] :
        /\ w.c.peer = p /\ w.r.peer = p
        /\ Size(w.c.backlog) <= MaxBacklog
        /\ w.open => w.c.cgi}

\* The parts of a world changed for others of their types.
LEMMA WithConn ==
    ASSUME NEW p, NEW w \in Worlds(p), NEW d \in Connections,
           d.peer = p, Size(d.backlog) <= MaxBacklog, w.open => d.cgi
    PROVE  /\ [w EXCEPT !.c = d] \in Worlds(p)
           /\ [w EXCEPT !.c = d].c = d /\ [w EXCEPT !.c = d].open = w.open
           /\ [w EXCEPT !.c = d].buff = w.buff
BY DEF Worlds

\* The send buffer changed.
LEMMA WithBuff ==
    ASSUME NEW p, NEW w \in Worlds(p), NEW buff \in Seq(Part)
    PROVE  /\ [w EXCEPT !.buff = buff] \in Worlds(p)
           /\ [w EXCEPT !.buff = buff].c = w.c /\ [w EXCEPT !.buff = buff].open = w.open
BY DEF Worlds

\* httpdPlatSendData(), whether write() takes the data or refuses it.
LEMMA SendData ==
    ASSUME NEW p, NEW w \in Worlds(p), NEW data \in Seq(Part)
    PROVE  \A v \in Refused(w) \cup {Written(w, data)} :
              v \in Worlds(p) /\ v.c = w.c /\ v.open = w.open /\ v.buff = w.buff
<1> DEFINE yes == TRUE
           got == w.got \o data
           v == [w EXCEPT !.r.notif = yes]
           u == [w EXCEPT !.r.notif = yes, !.got = got]
<1>1. yes \in BOOLEAN
  OBVIOUS
<1>2. got \in Seq(Part)
  <2>1. w.got \in Seq(Part)
    BY DEF Worlds
  <2> QED BY <2>1, ConcatProperties
<1>3. Written(w, data) = u
  BY DEF Written
<1>4. Refused(w) \subseteq {v}
  BY DEF Refused
<1> DEFINE r == [w.r EXCEPT !.notif = yes]
<1> HIDE DEF yes, got
<1>5. r \in Sockets /\ r.peer = p
  BY <1>1 DEF Worlds, Sockets
<1>6. v = [w EXCEPT !.r = r] /\ u = [w EXCEPT !.r = r, !.got = got]
  BY DEF Worlds
<1> HIDE DEF r, v, u
<1>7. /\ v \in Worlds(p) /\ v.c = w.c /\ v.open = w.open /\ v.buff = w.buff
      /\ u \in Worlds(p) /\ u.c = w.c /\ u.open = w.open /\ u.buff = w.buff
  BY <1>2, <1>5, <1>6 DEF Worlds
<1> QED BY <1>3, <1>4, <1>7

\* A packet put at the end of the backlog or taken from its front.
LEMMA BacklogTyped ==
    ASSUME NEW p, NEW w \in Worlds(p), NEW b \in Seq(Seq(Part)), Size(b) <= MaxBacklog
    PROVE  /\ [w EXCEPT !.c.backlog = b] \in Worlds(p)
           /\ [w EXCEPT !.c.backlog = b].c.cgi = w.c.cgi
           /\ [w EXCEPT !.c.backlog = b].open = w.open
<1> DEFINE d == [w.c EXCEPT !.backlog = b]
<1>1. d \in Connections /\ d.peer = p /\ d.backlog = b /\ d.cgi = w.c.cgi
  BY DEF Worlds, Connections
<1>2. [w EXCEPT !.c.backlog = b] = [w EXCEPT !.c = d]
  BY DEF Worlds
<1>3. w.open => w.c.cgi
  BY DEF Worlds
<1> HIDE DEF d
<1>4. Size(d.backlog) <= MaxBacklog /\ (w.open => d.cgi)
  BY <1>1, <1>3
<1>5. /\ [w EXCEPT !.c = d] \in Worlds(p) /\ [w EXCEPT !.c = d].c = d
      /\ [w EXCEPT !.c = d].open = w.open
  BY <1>1, <1>4, WithConn
<1> QED BY <1>1, <1>2, <1>5

\* httpdFlushSendBuffer() leaves the CGI and the remote end as they are, and the
\* backlog within its limit.
LEMMA FlushKeeps ==
    ASSUME CoreAssumption, NEW p, NEW w \in Worlds(p)
    PROVE  \A v \in httpdFlushSendBuffer(w) : v \in Worlds(p) /\ v.c.cgi = w.c.cgi /\ v.open = w.open
<1> SUFFICES ASSUME NEW v \in httpdFlushSendBuffer(w)
             PROVE  v \in Worlds(p) /\ v.c.cgi = w.c.cgi /\ v.open = w.open
  OBVIOUS
<1>1. /\ <<>> \in Seq(Part) /\ w.buff \in Seq(Part) /\ Len(w.buff) \in Nat
      /\ w.c.backlog \in Seq(Seq(Part)) /\ MaxBacklog \in Nat
  BY EmptySeq, LenProperties DEF Worlds, Connections, CoreAssumption
<1>2. \A u \in Refused(w) \cup {Written(w, w.buff)} :
         u \in Worlds(p) /\ u.c = w.c /\ u.open = w.open /\ u.buff = w.buff
  BY <1>1, SendData
<1>3. CASE w.buff = <<>>
  BY <1>3 DEF httpdFlushSendBuffer
<1> DEFINE nil == <<>>
<1> HIDE DEF nil
<1>4. CASE v = [Written(w, w.buff) EXCEPT !.buff = <<>>]
  <2> DEFINE u == Written(w, w.buff)
  <2>1. u \in Worlds(p) /\ u.c = w.c /\ u.open = w.open
    BY <1>2
  <2>2. v = [u EXCEPT !.buff = nil] /\ nil \in Seq(Part)
    BY <1>1, <1>4 DEF nil
  <2> HIDE DEF u
  <2> QED BY <2>1, <2>2, WithBuff
<1>5. ASSUME w.buff # <<>>,
             NEW u \in Refused(w),
             v = IF Size(w.c.backlog) + Len(w.buff) > MaxBacklog
                 THEN [u EXCEPT !.buff = <<>>]
                 ELSE [u EXCEPT !.buff = <<>>, !.c.backlog = Append(u.c.backlog, w.buff)]
      PROVE  v \in Worlds(p) /\ v.c.cgi = w.c.cgi /\ v.open = w.open
  <2> DEFINE e == [u EXCEPT !.buff = nil]
             b == Append(w.c.backlog, w.buff)
  <2>1. e \in Worlds(p) /\ e.c = w.c /\ e.open = w.open
    <3>1. u \in Worlds(p) /\ u.c = w.c /\ u.open = w.open /\ nil \in Seq(Part)
      BY <1>1, <1>2, <1>5 DEF nil
    <3> QED BY <3>1, WithBuff
  <2>2. CASE Size(w.c.backlog) + Len(w.buff) > MaxBacklog
    BY <1>5, <2>1, <2>2 DEF nil
  <2>3. CASE ~(Size(w.c.backlog) + Len(w.buff) > MaxBacklog)
    <3>1. b \in Seq(Seq(Part)) /\ Size(b) <= MaxBacklog
      <4>1. Size(w.c.backlog) \in Nat /\ b \in Seq(Seq(Part)) /\ Size(b) = Size(w.c.backlog) + Len(w.buff)
        BY <1>1, SizeIs, SizeAppend, AppendProperties
      <4> QED BY <1>1, <2>3, <4>1
    <3>2. v = [e EXCEPT !.c.backlog = b]
      BY <1>2, <1>5, <2>3 DEF nil
    <3> HIDE DEF e, b
    <3>3. e \in Worlds(p) /\ b \in Seq(Seq(Part)) /\ Size(b) <= MaxBacklog
      BY <2>1, <3>1
    <3>4. /\ [e EXCEPT !.c.backlog = b] \in Worlds(p)
          /\ [e EXCEPT !.c.backlog = b].c.cgi = e.c.cgi
          /\ [e EXCEPT !.c.backlog = b].open = e.open
      BY <3>3, BacklogTyped, Zenon
    <3> QED BY <2>1, <3>2, <3>4
  <2> QED BY <2>2, <2>3
<1>6. CASE v \in Refused(w)
  BY <1>2, <1>6
<1>7. \/ w.buff = <<>>
      \/ v = [Written(w, w.buff) EXCEPT !.buff = <<>>]
      \/ v \in Refused(w)
      \/ /\ w.buff # <<>>
         /\ \E u \in Refused(w) : v = IF Size(w.c.backlog) + Len(w.buff) > MaxBacklog
                 THEN [u EXCEPT !.buff = <<>>]
                 ELSE [u EXCEPT !.buff = <<>>, !.c.backlog = Append(u.c.backlog, w.buff)]
  BY DEF httpdFlushSendBuffer
<1> QED BY <1>3, <1>4, <1>5, <1>6, <1>7

\* httpdCgiIsDone() of a CGI that is done.
LEMMA DoneKeeps ==
    ASSUME CoreAssumption, NEW p, NEW w \in Worlds(p), ~w.open
    PROVE  httpdCgiIsDone(w) \subseteq Worlds(p)
<1> SUFFICES ASSUME NEW v \in httpdCgiIsDone(w) PROVE v \in Worlds(p)
  OBVIOUS
<1> DEFINE d == [w.c EXCEPT !.cgi = FALSE]
           ended == [w EXCEPT !.c = d]
<1>1. w.c \in Connections /\ w.c.peer = p /\ Size(w.c.backlog) <= MaxBacklog
  BY DEF Worlds
<1>2. d \in Connections /\ d.peer = p /\ d.backlog = w.c.backlog
  BY <1>1 DEF Connections
<1>3. ended = [w EXCEPT !.c.cgi = FALSE]
  BY DEF Worlds
<1>4. ended \in Worlds(p) /\ ended.open = w.open
  <2> HIDE DEF d
  <2> QED BY <1>1, <1>2, WithConn
<1> HIDE DEF ended
<1>5. CASE w.c.chunked
  <2>1. PICK u \in httpdFlushSendBuffer(ended) :
           v = [u EXCEPT !.c.len = Header, !.c.received = 0, !.c.chunked = FALSE,
                         !.c.discon = FALSE, !.c.junk = FALSE, !.c.parts = 0]
    BY <1>3, <1>5 DEF httpdCgiIsDone
  <2>2. u \in Worlds(p) /\ u.open = w.open
    BY <1>4, FlushKeeps
  <2> DEFINE e == [u.c EXCEPT !.len = Header, !.received = 0, !.chunked = FALSE, !.discon = FALSE,
                              !.junk = FALSE, !.parts = 0]
  <2>3. e \in Connections /\ e.peer = u.c.peer /\ e.backlog = u.c.backlog
    <3> DEFINE n == 0
               no == FALSE
    <3>1. u.c \in Connections /\ Header \in Lens /\ n \in Nat /\ no \in BOOLEAN
      BY <2>2 DEF Worlds, Lens
    <3>2. e = [u.c EXCEPT !.len = Header, !.received = n, !.chunked = no, !.discon = no,
                          !.junk = no, !.parts = n]
      OBVIOUS
    <3> HIDE DEF n, no, e, Header
    <3> QED BY <3>1, <3>2 DEF Connections
  <2>4. v = [u EXCEPT !.c = e]
    BY <2>1, <2>2 DEF Worlds
  <2> HIDE DEF e
  <2>5. u.c.peer = p /\ Size(u.c.backlog) <= MaxBacklog
    BY <2>2 DEF Worlds
  <2> QED BY <2>2, <2>3, <2>4, <2>5, WithConn
<1>6. CASE ~w.c.chunked
  <2> DEFINE e == [d EXCEPT !.discon = TRUE]
  <2>1. v = [ended EXCEPT !.c.discon = TRUE]
    BY <1>3, <1>6 DEF httpdCgiIsDone
  <2>2. ended.c = d
    BY DEF ended, Worlds
  <2>3. v = [ended EXCEPT !.c = e]
    BY <1>4, <2>1, <2>2 DEF Worlds
  <2>4. e \in Connections /\ e.peer = p /\ e.backlog = w.c.backlog
    BY <1>2 DEF Connections
  <2> HIDE DEF e, d
  <2> QED BY <1>1, <1>4, <2>3, <2>4, WithConn
<1> QED BY <1>5, <1>6

\* A part sent by the CGI goes into the buffer of its connection.
LEMMA SendPartKeeps ==
    ASSUME NEW p, NEW w \in Worlds(p), NEW last \in BOOLEAN
    PROVE  LET v == SendPart(w, last)
           IN  v \in Worlds(p) /\ v.c.cgi = w.c.cgi /\ v.open = w.open
<1> DEFINE part == [n |-> w.c.parts + 1, last |-> last]
           buff == Append(w.buff, part)
           n == w.c.parts + 1
           d == [w.c EXCEPT !.parts = n]
<1>1. w.c \in Connections /\ w.c.peer = p /\ Size(w.c.backlog) <= MaxBacklog /\ w.buff \in Seq(Part)
      /\ w.c.parts \in Nat /\ (w.open => w.c.cgi)
  BY DEF Worlds, Connections
<1>2. n \in Nat /\ part \in Part
  BY <1>1 DEF Part
<1>3. buff \in Seq(Part)
  <2> HIDE DEF part
  <2> QED BY <1>1, <1>2, AppendProperties
<1>4. SendPart(w, last) = [w EXCEPT !.c = d, !.buff = buff]
  BY DEF SendPart, Worlds
<1> HIDE DEF n, buff
<1>5. d \in Connections /\ d.peer = p /\ d.backlog = w.c.backlog /\ d.cgi = w.c.cgi
  BY <1>1, <1>2 DEF Connections
<1> HIDE DEF d
<1> QED BY <1>1, <1>3, <1>4, <1>5 DEF Worlds

\* A CGI that says MORE has to be called again.
LEMMA MoreKeeps ==
    ASSUME NEW p, NEW w \in Worlds(p), w.c.cgi
    PROVE  More(w) \in Worlds(p) /\ More(w).c = w.c
BY DEF More, Worlds

\* A CGI that says DONE is not called again.
LEMMA DoneCloses ==
    ASSUME NEW p, NEW w \in Worlds(p)
    PROVE  Done(w) \in Worlds(p) /\ Done(w).c = w.c /\ Done(w).open = FALSE
BY DEF Done, Worlds

\* Whatever the CGI does, it stays attached while it has more to do.
LEMMA CgiKeeps ==
    ASSUME NEW p, NEW w \in Worlds(p), w.c.cgi
    PROVE  \A k \in cgi(w) : k.w \in Worlds(p) /\ (k.r = "DONE" => ~k.w.open)
<1> SUFFICES ASSUME NEW k \in cgi(w) PROVE k.w \in Worlds(p) /\ (k.r = "DONE" => ~k.w.open)
  OBVIOUS
<1>1. /\ SendPart(w, TRUE) \in Worlds(p)
      /\ SendPart(w, FALSE) \in Worlds(p) /\ SendPart(w, FALSE).c.cgi
  BY SendPartKeeps
<1>2. /\ Done(SendPart(w, TRUE)) \in Worlds(p) /\ Done(SendPart(w, TRUE)).open = FALSE
      /\ More(SendPart(w, FALSE)) \in Worlds(p)
      /\ More(w) \in Worlds(p)
  BY <1>1, MoreKeeps, DoneCloses
<1> DEFINE end == Done(SendPart(w, TRUE))
           part == More(SendPart(w, FALSE))
           later == More(w)
<1>3. \/ k = [r |-> "MORE", w |-> later]
      \/ k = [r |-> "DONE", w |-> end]
      \/ k = [r |-> "MORE", w |-> part]
  BY DEF cgi
<1>4. end \in Worlds(p) /\ end.open = FALSE /\ part \in Worlds(p) /\ later \in Worlds(p)
  BY <1>2
<1> HIDE DEF end, part, later
<1> QED BY <1>3, <1>4

\* The answer to a call of the CGI: the end of the response, or what there is of it.
LEMMA AnswerKeeps ==
    ASSUME CoreAssumption, NEW p, NEW k, k.w \in Worlds(p), k.r = "DONE" => ~k.w.open
    PROVE  (IF k.r = "DONE" THEN httpdCgiIsDone(k.w) ELSE {k.w}) \subseteq Worlds(p)
<1>1. CASE k.r = "DONE"
  BY <1>1, DoneKeeps
<1>2. CASE k.r # "DONE"
  BY <1>2
<1> QED BY <1>1, <1>2

\* httpdProcessRequest().
LEMMA ProcessKeeps ==
    ASSUME CoreAssumption, NEW p, NEW w \in Worlds(p)
    PROVE  httpdProcessRequest(w) \subseteq Worlds(p)
<1> SUFFICES ASSUME NEW v \in httpdProcessRequest(w) PROVE v \in Worlds(p)
  OBVIOUS
<1> DEFINE yes == TRUE
           d == [w.c EXCEPT !.cgi = yes]
           started == [w EXCEPT !.c.cgi = TRUE]
           calls == IF w.c.request.found THEN cgi(started)
                    ELSE {[r |-> "DONE", w |-> Done(SendPart(started, TRUE))]}
<1>1. started = [w EXCEPT !.c = d]
  BY DEF Worlds
<1>2. started \in Worlds(p) /\ started.c.cgi
  <2>1. w.c \in Connections /\ w.c.peer = p /\ Size(w.c.backlog) <= MaxBacklog
    BY DEF Worlds
  <2>2. d \in Connections /\ d.peer = p /\ d.backlog = w.c.backlog /\ d.cgi
    BY <2>1 DEF Connections
  <2> HIDE DEF d, started
  <2> QED BY <1>1, <2>1, <2>2, WithConn
<1> HIDE DEF started
<1>3. \A k \in calls : k.w \in Worlds(p) /\ (k.r = "DONE" => ~k.w.open)
  <2>1. CASE w.c.request.found
    BY <1>2, <2>1, CgiKeeps
  <2>2. CASE ~w.c.request.found
    <3>1. SendPart(started, TRUE) \in Worlds(p)
      BY <1>2, SendPartKeeps
    <3>2. Done(SendPart(started, TRUE)) \in Worlds(p) /\ Done(SendPart(started, TRUE)).open = FALSE
      BY <3>1, DoneCloses
    <3> DEFINE end == Done(SendPart(started, TRUE))
    <3>3. calls = {[r |-> "DONE", w |-> end]}
      BY <2>2
    <3>4. end \in Worlds(p) /\ end.open = FALSE
      BY <3>2
    <3> HIDE DEF end, calls
    <3> QED BY <3>3, <3>4
  <2> QED BY <2>1, <2>2
<1>4. CASE ~w.c.request.url
  BY <1>4 DEF httpdProcessRequest
<1>5. CASE w.c.request.url
  <2>1. PICK k \in calls :
           v \in IF k.r = "DONE" THEN httpdCgiIsDone(k.w) ELSE httpdFlushSendBuffer(k.w)
    BY <1>5 DEF httpdProcessRequest, started
  <2> HIDE DEF calls
  <2>2. k.w \in Worlds(p) /\ (k.r = "DONE" => ~k.w.open)
    BY <1>3
  <2>3. CASE k.r = "DONE"
    BY <2>1, <2>2, <2>3, DoneKeeps
  <2>4. CASE k.r # "DONE"
    BY <2>1, <2>2, <2>4, FlushKeeps
  <2> QED BY <2>3, <2>4
<1> QED BY <1>4, <1>5

\* httpdContinue(): a packet of the backlog, the end of the connection or the CGI.
LEMMA ContinueKeeps ==
    ASSUME CoreAssumption, NEW p, NEW w \in Worlds(p)
    PROVE  httpdContinue(w) \subseteq Worlds(p)
<1> SUFFICES ASSUME NEW v \in httpdContinue(w) PROVE v \in Worlds(p)
  OBVIOUS
<1>1. w.c.backlog \in Seq(Seq(Part)) /\ Size(w.c.backlog) <= MaxBacklog /\ MaxBacklog \in Nat
  BY DEF Worlds, Connections, CoreAssumption
<1>2. CASE w.c.backlog # <<>>
  <2>1. PICK u \in Refused(w) \cup {Written(w, Head(w.c.backlog))} :
           v = [u EXCEPT !.c.backlog = Tail(u.c.backlog)]
    BY <1>2 DEF httpdContinue
  <2> DEFINE b == Tail(w.c.backlog)
  <2>2. /\ b \in Seq(Seq(Part)) /\ Head(w.c.backlog) \in Seq(Part)
        /\ Size(b) <= Size(w.c.backlog) /\ Size(b) \in Nat /\ Size(w.c.backlog) \in Nat
    BY <1>1, <1>2, SizeTail, SizeIs
  <2>3. u \in Worlds(p) /\ u.c = w.c
    BY <2>2, SendData
  <2>4. v = [u EXCEPT !.c.backlog = b]
    BY <2>1, <2>3
  <2> HIDE DEF b
  <2>5. Size(b) <= MaxBacklog
    BY <1>1, <2>2
  <2> QED BY <2>2, <2>3, <2>4, <2>5, BacklogTyped
<1>3. CASE w.c.backlog = <<>> /\ w.c.discon
  <2> DEFINE yes == TRUE
             r == [w.r EXCEPT !.needsClose = yes, !.notif = yes]
  <2>1. v = [w EXCEPT !.r.needsClose = TRUE, !.r.notif = TRUE]
    BY <1>3 DEF httpdContinue
  <2>2. v = [w EXCEPT !.r = r]
    BY <2>1 DEF Worlds
  <2>3. yes \in BOOLEAN
    OBVIOUS
  <2> HIDE DEF yes
  <2>4. r \in Sockets /\ r.peer = p
    BY <2>3 DEF Worlds, Sockets
  <2> HIDE DEF r
  <2> QED BY <2>2, <2>4 DEF Worlds
<1>4. CASE w.c.backlog = <<>> /\ ~w.c.discon /\ w.c.cgi
  <2>1. CASE v = w
    BY <2>1
  <2>2. CASE v # w
    <3> DEFINE answer(k) == IF k.r = "DONE" THEN httpdCgiIsDone(k.w) ELSE {k.w}
               flushed(k) == UNION {httpdFlushSendBuffer(u) : u \in answer(k)}
    <3>0. v \in UNION {flushed(k) : k \in cgi(w)}
      BY <1>4, <2>2 DEF httpdContinue
    <3> HIDE DEF flushed
    <3>1. PICK k \in cgi(w) : v \in flushed(k)
      BY <3>0
    <3>2. k.w \in Worlds(p) /\ (k.r = "DONE" => ~k.w.open)
      BY <1>4, CgiKeeps
    <3>3. PICK u \in answer(k) : v \in httpdFlushSendBuffer(u)
      BY <3>1 DEF flushed
    <3>4. u \in Worlds(p)
      BY <3>2, <3>3, AnswerKeeps
    <3> QED BY <3>3, <3>4, FlushKeeps
  <2> QED BY <2>1, <2>2
<1>5. CASE w.c.backlog = <<>> /\ ~w.c.discon /\ ~w.c.cgi
  BY <1>5 DEF httpdContinue
<1> QED BY <1>2, <1>3, <1>4, <1>5

\* The end of the headers.
LEMMA HeadersKeep ==
    ASSUME CoreAssumption, NEW p, NEW w \in Worlds(p), NEW request \in RequestType, request.chunks \in Lens
    PROVE  EndOfHeaders(w, request) \subseteq Worlds(p)
<1> DEFINE len == request.chunks
           http11 == request.http11
           d == [w.c EXCEPT !.len = len, !.request = request, !.chunked = http11]
           parsed == [w EXCEPT !.c.len = request.chunks, !.c.request = request, !.c.chunked = request.http11]
<1>1. len \in Lens /\ http11 \in BOOLEAN
  BY DEF RequestType
<1>2. w.c \in Connections /\ w.c.peer = p /\ Size(w.c.backlog) <= MaxBacklog /\ (w.open => w.c.cgi)
  BY DEF Worlds
<1>3. parsed = [w EXCEPT !.c = d]
  BY DEF Worlds
<1>4. parsed \in Worlds(p)
  <2> HIDE DEF len, http11, parsed
  <2>1. d \in Connections /\ d.peer = p /\ d.backlog = w.c.backlog /\ d.cgi = w.c.cgi
    BY <1>1, <1>2 DEF Connections
  <2> HIDE DEF d
  <2> QED BY <1>2, <1>3, <2>1, WithConn
<1>5. EndOfHeaders(w, request) \in {httpdProcessRequest(parsed), {parsed}}
  BY DEF EndOfHeaders
<1> HIDE DEF parsed
<1> QED BY <1>4, <1>5, ProcessKeeps

\* A full POST buffer.
LEMMA ChunkKeeps ==
    ASSUME CoreAssumption, NEW p, NEW w \in Worlds(p)
    PROVE  PostChunk(w) \subseteq Worlds(p)
<1> SUFFICES ASSUME NEW v \in PostChunk(w) PROVE v \in Worlds(p)
  OBVIOUS
<1> DEFINE n == w.c.received + 1
           d == [w.c EXCEPT !.received = n]
           next == [w EXCEPT !.c.received = w.c.received + 1]
<1>1. w.c \in Connections /\ w.c.peer = p /\ Size(w.c.backlog) <= MaxBacklog /\ (w.open => w.c.cgi)
      /\ w.c.received \in Nat
  BY DEF Worlds, Connections
<1>2. next = [w EXCEPT !.c = d]
  BY DEF Worlds
<1>3. next \in Worlds(p)
  <2>1. n \in Nat
    BY <1>1
  <2> HIDE DEF n, next
  <2>2. d \in Connections /\ d.peer = p /\ d.backlog = w.c.backlog /\ d.cgi = w.c.cgi
    BY <1>1, <2>1 DEF Connections
  <2> HIDE DEF d
  <2> QED BY <1>1, <1>2, <2>2, WithConn
<1>4. \/ ~next.c.cgi /\ v \in httpdProcessRequest(next)
      \/ /\ next.c.cgi
         /\ \E k \in cgi(next) : v \in IF k.r = "DONE" THEN httpdCgiIsDone(k.w) ELSE {k.w}
  BY DEF PostChunk
<1> HIDE DEF next
<1>5. CASE ~next.c.cgi /\ v \in httpdProcessRequest(next)
  BY <1>3, <1>5, ProcessKeeps
<1>6. ASSUME next.c.cgi, NEW k \in cgi(next), v \in IF k.r = "DONE" THEN httpdCgiIsDone(k.w) ELSE {k.w}
      PROVE  v \in Worlds(p)
  <2>1. k.w \in Worlds(p) /\ (k.r = "DONE" => ~k.w.open)
    BY <1>3, <1>6, CgiKeeps
  <2> QED BY <1>6, <2>1, AnswerKeeps
<1> QED BY <1>4, <1>5, <1>6

\* Whatever arrives, in whatever state of the parser.
LEMMA FeedKeeps ==
    ASSUME CoreAssumption, NEW p, NEW w \in Worlds(p), NEW item \in Item
    PROVE  Feed(w, item) \subseteq Worlds(p)
<1> SUFFICES ASSUME NEW v \in Feed(w, item) PROVE v \in Worlds(p)
  OBVIOUS
<1> DEFINE request == item.request
<1>1. request \in Requests /\ request \in RequestType /\ request.chunks \in Lens
  BY DEF Item, Lens, CoreAssumption, RequestType
<1>2. NoUrl(request) \in RequestType /\ NoUrl(request).chunks = request.chunks
  BY <1>1 DEF NoUrl, RequestType
<1> HIDE DEF request
<1>3. EndOfHeaders(w, request) \subseteq Worlds(p) /\ EndOfHeaders(w, NoUrl(request)) \subseteq Worlds(p)
  BY <1>1, <1>2, HeadersKeep
<1>4. CASE w.c.len = Header /\ item.type = "head"
  <2>1. v \in EndOfHeaders(w, request) \/ v \in EndOfHeaders(w, NoUrl(request))
    BY <1>4 DEF Feed, HeadOf, request
  <2> QED BY <1>3, <2>1
<1>5. CASE w.c.len = Header /\ item.type = "body"
  <2> DEFINE yes == TRUE
             d == [w.c EXCEPT !.junk = yes]
  <2>0. Feed(w, item) = {[w EXCEPT !.c.junk = TRUE]}
    BY <1>5 DEF Feed, Header
  <2>1. v = [w EXCEPT !.c.junk = TRUE]
    BY <2>0
  <2>2. v = [w EXCEPT !.c = d] /\ yes \in BOOLEAN
    BY <2>1 DEF Worlds
  <2>3. w.c \in Connections /\ w.c.peer = p /\ Size(w.c.backlog) <= MaxBacklog /\ (w.open => w.c.cgi)
    BY DEF Worlds
  <2> HIDE DEF yes
  <2>4. d \in Connections /\ d.peer = p /\ d.backlog = w.c.backlog /\ d.cgi = w.c.cgi
    BY <2>2, <2>3 DEF Connections
  <2> HIDE DEF d
  <2> QED BY <2>2, <2>3, <2>4, WithConn
<1>6. CASE w.c.len # Header /\ w.c.len > 0 /\ item.type = "body"
  BY <1>6, ChunkKeeps DEF Feed
<1>7. CASE w.c.len # Header /\ ~(w.c.len > 0 /\ item.type = "body")
  BY <1>7 DEF Feed
<1> QED BY <1>4, <1>5, <1>6, <1>7 DEF Item

\* The worlds that feeding m pieces of the data ends in.
Fed(F, w, data) ==
    /\ F[0] = {w}
    /\ \A m \in 1 .. Len(data) : F[m] = UNION {Feed(v, data[m]) : v \in F[m - 1]}

\* httpdRecvCb() feeds the data piece by piece and then empties the send buffer.
LEMMA RecvFeeds ==
    ASSUME NEW w, NEW data \in Seq(Item)
    PROVE  \E F : /\ Fed(F, w, data)
                 /\ httpdRecvCb(w, data) = (UNION {httpdFlushSendBuffer(v) : v \in F[Len(data)]})
                                               \cup (IF "sendBuff" \in Failing THEN {w} ELSE {})
<1> DEFINE n == Len(data)
           Fits(f, m) == f = [k \in 0 .. m |-> IF k = 0 THEN {w} ELSE UNION {Feed(v, data[k]) : v \in f[k - 1]}]
           Unfit == {m \in 0 .. n : ~ \E f : Fits(f, m)}
<1>1. n \in Nat /\ \A m \in 1 .. n : data[m] \in Item
  BY LenProperties, ElementOfSeq
<1>2. Unfit = {}
  <2> SUFFICES ASSUME Unfit # {} PROVE FALSE
    OBVIOUS
  <2>1. PICK m \in Unfit : \A k \in Unfit : m <= k
    <3>1. Unfit \subseteq Nat
      OBVIOUS
    <3> HIDE DEF Unfit
    <3> QED BY <3>1, Least
  <2> HIDE DEF n
  <2>2. m # 0
    <3>1. Fits([k \in 0 .. 0 |-> {w}], 0)
      OBVIOUS
    <3> QED BY <3>1
  <2>3. PICK f : Fits(f, m - 1)
    <3>1. m \in 0 .. n
      OBVIOUS
    <3>2. m - 1 \in 0 .. n /\ ~(m <= m - 1)
      BY <1>1, <2>2, <3>1
    <3>3. m - 1 \notin Unfit
      <4> HIDE DEF Unfit
      <4> QED BY <2>1, <3>2
    <3> QED BY <3>2, <3>3
  <2> DEFINE next == UNION {Feed(v, data[m]) : v \in f[m - 1]}
             g == [k \in 0 .. m |-> IF k = m THEN next ELSE f[k]]
  <2>4. Fits(g, m)
    <3>1. m \in Nat
      BY <1>1
    <3>2. \A k \in 0 .. m : g[k] = IF k = m THEN next ELSE f[k]
      OBVIOUS
    <3>3. \A k \in 0 .. m - 1 : f[k] = IF k = 0 THEN {w} ELSE UNION {Feed(v, data[k]) : v \in f[k - 1]}
      BY <2>3
    <3>4. next = UNION {Feed(v, data[m]) : v \in f[m - 1]}
      OBVIOUS
    <3> HIDE DEF g, next
    <3>5. ASSUME NEW k \in 0 .. m
          PROVE  g[k] = IF k = 0 THEN {w} ELSE UNION {Feed(v, data[k]) : v \in g[k - 1]}
      <4>1. CASE k = 0
        <5>1. m - 1 \in Nat /\ 0 \in 0 .. m - 1 /\ 0 # m /\ 0 \in 0 .. m
          BY <2>2, <3>1
        <5>2. g[0] = f[0] /\ f[0] = {w}
          BY <3>2, <3>3, <5>1
        <5> QED BY <4>1, <5>2
      <4>2. CASE k = m
        <5>1. g[m] = next /\ g[m - 1] = f[m - 1]
          BY <2>2, <3>1, <3>2
        <5> QED BY <2>2, <3>4, <4>2, <5>1
      <4>3. CASE k # 0 /\ k # m
        <5>1. k \in 0 .. m - 1 /\ g[k] = f[k] /\ g[k - 1] = f[k - 1]
          BY <3>1, <3>2, <4>3
        <5> QED BY <3>3, <4>3, <5>1
      <4> QED BY <4>1, <4>2, <4>3
    <3> QED BY <3>5 DEF g
  <2> QED BY <2>1, <2>4
<1>3. \E f : Fits(f, n)
  <2>1. n \in 0 .. n
    BY <1>1
  <2>2. n \notin Unfit
    <3> HIDE DEF Unfit
    <3> QED BY <1>2
  <2> QED BY <2>1, <2>2, Zenon
<1> DEFINE F == CHOOSE f : Fits(f, n)
<1>4. Fits(F, n)
  BY <1>3
<1>5. httpdRecvCb(w, data) = (UNION {httpdFlushSendBuffer(v) : v \in F[n]})
                                \cup (IF "sendBuff" \in Failing THEN {w} ELSE {})
  BY DEF httpdRecvCb
<1>6. \A m \in 0 .. n : F[m] = IF m = 0 THEN {w} ELSE UNION {Feed(v, data[m]) : v \in F[m - 1]}
  BY <1>4
<1>7. Fed(F, w, data)
  <2> HIDE DEF F
  <2>1. 0 \in 0 .. n /\ \A m \in 1 .. n : m \in 0 .. n /\ m # 0
    BY <1>1
  <2> QED BY <1>6, <2>1 DEF Fed
<1> QED BY <1>5, <1>7

\* httpdRecvCb() of any amount of data.
LEMMA RecvKeeps ==
    ASSUME CoreAssumption, NEW p, NEW w \in Worlds(p), NEW data \in Seq(Item)
    PROVE  httpdRecvCb(w, data) \subseteq Worlds(p)
<1> DEFINE n == Len(data)
<1>1. n \in Nat /\ \A m \in 1 .. n : data[m] \in Item
  BY LenProperties, ElementOfSeq
<1>2. PICK F : /\ Fed(F, w, data)
               /\ httpdRecvCb(w, data) = (UNION {httpdFlushSendBuffer(v) : v \in F[n]})
                                             \cup (IF "sendBuff" \in Failing THEN {w} ELSE {})
  BY RecvFeeds
<1>3. F[0] = {w} /\ \A m \in 1 .. n : F[m] = UNION {Feed(v, data[m]) : v \in F[m - 1]}
  BY <1>2 DEF Fed
<1> HIDE DEF n
<1> DEFINE Bad == {m \in 0 .. n : ~(F[m] \subseteq Worlds(p))}
<1>4. Bad = {}
  <2> SUFFICES ASSUME Bad # {} PROVE FALSE
    OBVIOUS
  <2>1. PICK m \in Bad : \A k \in Bad : m <= k
    <3>1. Bad \subseteq Nat
      OBVIOUS
    <3> HIDE DEF Bad
    <3> QED BY <3>1, Least
  <2>2. m # 0
    BY <1>1, <1>3
  <2>3. m - 1 \in 0 .. n /\ F[m - 1] \subseteq Worlds(p) /\ m \in 1 .. n
    BY <1>1, <2>1, <2>2
  <2>4. \A v \in F[m - 1] : Feed(v, data[m]) \subseteq Worlds(p)
    BY <1>1, <2>3, FeedKeeps
  <2>5. F[m] = UNION {Feed(v, data[m]) : v \in F[m - 1]}
    BY <1>3, <2>3
  <2>6. F[m] \subseteq Worlds(p)
    BY <2>4, <2>5
  <2> QED BY <2>1, <2>6
<1>5. \A v \in F[n] : v \in Worlds(p)
  <2>1. n \in 0 .. n
    BY <1>1
  <2> QED BY <1>4, <2>1
<1>6. \A v \in F[n] : httpdFlushSendBuffer(v) \subseteq Worlds(p)
  BY <1>5, FlushKeeps
<1>7. UNION {httpdFlushSendBuffer(v) : v \in F[n]} \subseteq Worlds(p)
  BY <1>6
<1> QED BY <1>2, <1>7
-----------------------------------------------------------------------------
(* The steps.                                                              *)

\* An empty slot of the pool and a remote end that is not connected.
LEMMA ConstantsTyped ==
    ASSUME CoreAssumption
    PROVE  /\ NULL \in Connections /\ NULL.peer = Nobody /\ NULL.backlog = <<>>
           /\ Closed \in Ends
           /\ Select \in Loops
<1>1. <<>> \in Seq(Seq(Part)) /\ <<>> \in Seq(Item) /\ <<>> \in Seq(Part)
  BY EmptySeq
<1>2. NULL.request \in RequestType
  BY DEF NULL, RequestType
<1>3. Header \in Lens /\ Nobody \in Peer \cup {Nobody}
  BY DEF Lens
<1>4. NULL \in Connections /\ NULL.peer = Nobody /\ NULL.backlog = <<>>
  <2> DEFINE request == [chunks |-> 0, http11 |-> FALSE, url |-> FALSE, found |-> FALSE]
  <2>1. request \in RequestType
    BY DEF RequestType
  <2>2. NULL = [peer |-> Nobody, len |-> Header, received |-> 0, request |-> request,
                cgi |-> FALSE, chunked |-> FALSE, discon |-> FALSE, junk |-> FALSE,
                backlog |-> <<>>, parts |-> 0, leaked |-> FALSE]
    BY DEF NULL
  <2> HIDE DEF request
  <2> QED BY <1>1, <1>3, <2>1, <2>2 DEF Connections
<1>5. Closed \in Ends
  BY <1>1 DEF Closed, Ends
<1>6. Select \in Loops
  <2>1. 1 \in Slots
    BY DEF CoreAssumption, Slots
  <2> QED BY <2>1 DEF Select, Loops
<1> QED BY <1>4, <1>5, <1>6

\* The world of a connection that a callback finds is one of its remote end: a CGI that
\* has more to do is attached to it.
LEMMA WorldFound ==
    ASSUME CoreAssumption, CoreInv, NEW x \in Slots, rconn[x].peer # Nobody, NEW i \in Found(rconn[x].peer)
    PROVE  World(x, i) \in Worlds(rconn[x].peer)
<1> DEFINE p == rconn[x].peer
           c == connData[i]
           r == rconn[x]
           got == peer[p].got
           isOpen == p \in open
<1>1. /\ r \in Sockets /\ p \in Peer /\ i \in Slots /\ c \in Connections /\ c.peer = p
      /\ Size(c.backlog) <= MaxBacklog /\ got \in Seq(Part)
  <2>1. r \in Sockets /\ i \in Slots /\ c \in Connections /\ c.peer = p /\ Size(c.backlog) <= MaxBacklog
    BY DEF CoreInv, Shapes, Found
  <2>2. p \in Peer
    BY <2>1 DEF Sockets
  <2>3. peer[p] \in Ends
    BY <2>2 DEF CoreInv, Shapes
  <2> QED BY <2>1, <2>2, <2>3 DEF Ends
<1>2. isOpen => c.cgi
  <2> SUFFICES ASSUME p \in open PROVE c.cgi
    OBVIOUS
  <2>1. PICK y \in Slots, j \in Slots : rconn[y].peer = p /\ connData[j].peer = p /\ connData[j].cgi
    BY DEF CoreInv, NoCgiLeftBehind
  <2>2. i = j
    BY <1>1, <2>1 DEF CoreInv, Tables
  <2> QED BY <2>1, <2>2
<1>3. <<>> \in Seq(Part) /\ isOpen \in BOOLEAN
  BY EmptySeq
<1>4. World(x, i) = [c |-> c, r |-> r, got |-> got, buff |-> <<>>, open |-> isOpen]
  BY DEF World
<1>5. r.peer = p
  OBVIOUS
<1> HIDE DEF c, r, got, isOpen, p
<1>6. World(x, i) \in Worlds(p)
  BY <1>1, <1>2, <1>3, <1>4, <1>5 DEF Worlds
<1> QED BY <1>6 DEF p

\* The remote ends of the tables as they were.
SameEnds ==
    /\ \A x \in Slots : rconn'[x].peer = rconn[x].peer
    /\ \A i \in Slots : connData'[i].peer = connData[i].peer

\* A step that leaves the remote ends alone and the loop where it was, or takes it on to
\* a place that remembers nothing.
LEMMA LoopKept ==
    ASSUME LoopInv, SameEnds, loop \in Loops, loop' = loop \/ loop'.at \in {"select", "write", "read"}
    PROVE  /\ loop'.at = "accept" => Free' # {}
           /\ loop'.at \in {"close", "sent"} => Socket.peer' # Nobody
           /\ loop'.at = "sent" => InPool(Socket.peer)'
<1>1. CASE loop' = loop
  <2>1. Free' = Free
    BY DEF Free, SameEnds
  <2>2. Socket.peer' = Socket.peer
    BY <1>1 DEF Socket, SameEnds, Loops
  <2>3. InPool(Socket.peer) => InPool(Socket.peer)'
    BY <2>2 DEF InPool, SameEnds
  <2> QED BY <1>1, <2>1, <2>2, <2>3 DEF LoopInv
<1>2. CASE loop'.at \in {"select", "write", "read"}
  BY <1>2
<1> QED BY <1>1, <1>2

\* A callback changes one connection and its socket, and neither's remote end.
LEMMA BecomeStep ==
    ASSUME CoreAssumption, CoreInv, NEW x \in Slots, rconn[x].peer # Nobody, NEW i \in Found(rconn[x].peer),
           NEW w \in Worlds(rconn[x].peer), NEW inbox \in Seq(Item), Become(x, i, w, inbox),
           loop' \in Loops, loop' = loop \/ loop'.at \in {"select", "write", "read"}
    PROVE  CoreInv'
<1> DEFINE p == rconn[x].peer
<1>1. /\ p \in Peer /\ i \in Slots /\ connData[i].peer = p /\ peer[p] \in Ends
      /\ w.c \in Connections /\ w.c.peer = p /\ Size(w.c.backlog) <= MaxBacklog
      /\ w.r \in Sockets /\ w.r.peer = p /\ w.got \in Seq(Part) /\ (w.open => w.c.cgi)
  <2>1. rconn[x] \in Sockets
    BY DEF CoreInv, Shapes
  <2>2. p \in Peer
    BY <2>1 DEF Sockets
  <2>3. i \in Slots /\ connData[i].peer = p
    BY DEF Found
  <2>4. peer[p] \in Ends
    BY <2>2 DEF CoreInv, Shapes
  <2> QED BY <2>2, <2>3, <2>4 DEF Worlds
<1>2. /\ rconn \in [Slots -> Sockets] /\ connData \in [Slots -> Connections] /\ peer \in [Peer -> Ends]
      /\ open \subseteq Peer /\ loop \in Loops
  BY DEF CoreInv, Shapes
<1>3. connData' = [connData EXCEPT ![i] = w.c] /\ rconn' = [rconn EXCEPT ![x] = w.r]
  BY DEF Become
<1>4. open' = IF w.open THEN open \cup {p} ELSE open \ {p}
  BY DEF Become
<1>5. SameEnds
  BY <1>1, <1>2, <1>3 DEF SameEnds
<1> DEFINE got == IF peer[p].state = "open" THEN w.got ELSE peer[p].got
           e == [peer[p] EXCEPT !.got = got, !.inbox = inbox]
<1>6. peer' = [peer EXCEPT ![p] = e]
  BY <1>1, <1>2 DEF Become
<1>7. e \in Ends /\ e.state = peer[p].state
  <2>1. got \in Seq(Part)
    BY <1>1 DEF Ends
  <2> HIDE DEF got, p
  <2> QED BY <1>1, <2>1 DEF Ends
<1> HIDE DEF e
<1>8. Shapes'
  <2>1. peer' \in [Peer -> Ends]
    BY <1>1, <1>2, <1>6, <1>7
  <2>2. rconn' \in [Slots -> Sockets] /\ connData' \in [Slots -> Connections]
    BY <1>1, <1>2, <1>3
  <2>3. \A j \in Slots : Size(connData'[j].backlog) <= MaxBacklog
    <3>1. \A j \in Slots : connData'[j] = IF j = i THEN w.c ELSE connData[j]
      BY <1>2, <1>3
    <3>2. \A j \in Slots : Size(connData[j].backlog) <= MaxBacklog
      BY DEF CoreInv, Shapes
    <3> QED BY <1>1, <3>1, <3>2
  <2>4. open' \subseteq Peer
    BY <1>1, <1>2, <1>4
  <2> QED BY <2>1, <2>2, <2>3, <2>4 DEF Shapes
<1>9. \A q \in Peer : peer'[q].state = peer[q].state
  BY <1>1, <1>2, <1>6, <1>7
<1>10. \A q : InPool(q) => \E j \in Slots : connData'[j].peer = q
  BY <1>5 DEF InPool, SameEnds
<1>11. \A j \in Slots : connData[j].peer = Nobody => connData'[j] = connData[j]
  BY <1>1, <1>2, <1>3
<1>12. Tables'
  <2>1. \A y \in Slots : rconn[y].peer # Nobody => rconn[y].peer \in Peer
    BY <1>2 DEF Sockets
  <2>2. \A y \in Slots : rconn'[y].peer # Nobody => peer'[rconn'[y].peer].state \in {"open", "left"}
    BY <1>5, <1>9, <2>1 DEF CoreInv, Tables, SameEnds
  <2>3. NoLoss => /\ \A y \in Slots : rconn'[y].peer # Nobody
                                          => \E j \in Slots : connData'[j].peer = rconn'[y].peer
                  /\ \A j \in Slots : connData'[j].peer = Nobody => connData'[j] = NULL
    <3> SUFFICES ASSUME NoLoss
                 PROVE  /\ \A y \in Slots : rconn'[y].peer # Nobody
                                                => \E j \in Slots : connData'[j].peer = rconn'[y].peer
                        /\ \A j \in Slots : connData'[j].peer = Nobody => connData'[j] = NULL
      OBVIOUS
    <3>1. \A y \in Slots : rconn[y].peer # Nobody => InPool(rconn[y].peer)
      BY DEF CoreInv, Tables
    <3>2. \A j \in Slots : connData[j].peer = Nobody => connData[j] = NULL
      BY DEF CoreInv, Tables
    <3> QED BY <1>5, <1>10, <1>11, <3>1, <3>2 DEF SameEnds
  <2>4. /\ \A y, z \in Slots : rconn'[y].peer = rconn'[z].peer /\ rconn'[y].peer # Nobody => y = z
        /\ \A j, k \in Slots : connData'[j].peer = connData'[k].peer /\ connData'[j].peer # Nobody => j = k
        /\ \A j \in Slots : connData'[j].peer # Nobody => \E y \in Slots : rconn'[y].peer = connData'[j].peer
    BY <1>5 DEF CoreInv, Tables, SameEnds
  <2> QED BY <2>2, <2>3, <2>4 DEF Tables, InPool
<1>13. \A y \in Slots : rconn'[y].peer # Nobody /\ rconn'[y].notif /\ ~rconn'[y].needsClose
                           => \E j \in Slots : connData'[j].peer = rconn'[y].peer
  <2> SUFFICES ASSUME NEW y \in Slots, rconn'[y].peer # Nobody, rconn'[y].notif, ~rconn'[y].needsClose
               PROVE  \E j \in Slots : connData'[j].peer = rconn'[y].peer
    OBVIOUS
  <2>1. CASE y = x
    BY <1>1, <1>5, <2>1 DEF SameEnds
  <2>2. CASE y # x
    <3>1. rconn'[y] = rconn[y]
      BY <1>2, <1>3, <2>2
    <3>2. InPool(rconn[y].peer)
      BY <3>1 DEF CoreInv, LoopInv
    <3> QED BY <1>5, <3>1, <3>2 DEF InPool, SameEnds
  <2> QED BY <2>1, <2>2
<1>14. LoopInv'
  <2>1. /\ loop'.at = "accept" => Free' # {}
        /\ loop'.at \in {"close", "sent"} => Socket.peer' # Nobody
        /\ loop'.at = "sent" => InPool(Socket.peer)'
    BY <1>2, <1>5, LoopKept DEF CoreInv
  <2> QED BY <1>13, <2>1 DEF LoopInv, InPool
<1>15. NoCgiLeftBehind'
  <2> SUFFICES ASSUME NEW q \in open'
               PROVE  \E y \in Slots, j \in Slots :
                         rconn'[y].peer = q /\ connData'[j].peer = q /\ connData'[j].cgi
    BY DEF NoCgiLeftBehind
  <2>1. CASE q = p
    <3>1. w.c.cgi
      BY <1>1, <1>4, <2>1
    <3>2. connData'[i] = w.c /\ rconn'[x] = w.r
      BY <1>1, <1>2, <1>3
    <3> QED BY <1>1, <2>1, <3>1, <3>2
  <2>2. CASE q # p
    <3>1. q \in open
      BY <1>4, <2>2
    <3>2. PICK y \in Slots, j \in Slots : rconn[y].peer = q /\ connData[j].peer = q /\ connData[j].cgi
      BY <3>1 DEF CoreInv, NoCgiLeftBehind
    <3>3. connData'[j] = connData[j]
      BY <1>1, <1>2, <1>3, <2>2, <3>2
    <3> QED BY <1>5, <3>2, <3>3 DEF SameEnds
  <2> QED BY <2>1, <2>2
<1> QED BY <1>8, <1>12, <1>14, <1>15 DEF CoreInv

\* A disconnect takes the remote end of a socket out of both tables, and its CGI with it.
LEMMA HangupStep ==
    ASSUME CoreAssumption, CoreInv, NEW x \in Slots, rconn[x].peer # Nobody,
           NEW r \in Sockets, r.peer = Nobody, rconn' = [rconn EXCEPT ![x] = r],
           connData' = Retired(rconn[x].peer),
           peer' = [peer EXCEPT ![rconn[x].peer] = Closed],
           open' = IF \E i \in Found(rconn[x].peer) : connData[i].cgi
                   THEN open \ {rconn[x].peer} ELSE open,
           loop' \in Loops, loop'.at \in {"select", "write", "read"}
    PROVE  CoreInv'
<1> DEFINE p == rconn[x].peer
<1>1. /\ rconn \in [Slots -> Sockets] /\ connData \in [Slots -> Connections] /\ peer \in [Peer -> Ends]
      /\ open \subseteq Peer
  BY DEF CoreInv, Shapes
<1>2. p \in Peer
  <2>1. rconn[x] \in Sockets
    BY <1>1
  <2> QED BY <2>1 DEF Sockets
<1>3. /\ NULL \in Connections /\ NULL.peer = Nobody /\ NULL.backlog = <<>> /\ Closed \in Ends
  BY ConstantsTyped
<1>4. \A i \in Slots : IF connData[i].peer = p THEN connData'[i] = NULL ELSE connData'[i] = connData[i]
  BY <1>1 DEF Retired, Found
<1>5. \A y \in Slots : IF y = x THEN rconn'[y] = r ELSE rconn'[y] = rconn[y]
  BY <1>1
<1>6. \A y \in Slots : rconn[y].peer = p => y = x
  BY DEF CoreInv, Tables
<1>7. Shapes'
  <2>1. rconn' \in [Slots -> Sockets]
    BY <1>1
  <2>2. connData' \in [Slots -> Connections]
    <3>1. connData' = [i \in Slots |-> connData'[i]]
      BY DEF Retired
    <3>2. \A i \in Slots : connData'[i] \in Connections
      BY <1>1, <1>3, <1>4
    <3> QED BY <3>1, <3>2
  <2>3. peer' \in [Peer -> Ends]
    BY <1>1, <1>3
  <2>4. \A i \in Slots : Size(connData'[i].backlog) <= MaxBacklog
    <3> SUFFICES ASSUME NEW i \in Slots PROVE Size(connData'[i].backlog) <= MaxBacklog
      OBVIOUS
    <3>1. CASE connData'[i] = NULL
      <4>1. Size(<<>>) = 0 /\ MaxBacklog \in Nat
        BY SizeEmpty DEF CoreAssumption
      <4>2. connData'[i].backlog = <<>>
        BY <1>3, <3>1
      <4> QED BY <4>1, <4>2
    <3>2. CASE connData'[i] = connData[i]
      BY <3>2 DEF CoreInv, Shapes
    <3> QED BY <1>4, <3>1, <3>2
  <2>5. open' \subseteq Peer
    BY <1>1
  <2> QED BY <2>1, <2>2, <2>3, <2>4, <2>5 DEF Shapes
<1>8. \A q : q # p => /\ \A j \in Slots : connData[j].peer = q => connData'[j] = connData[j]
                      /\ \A y \in Slots : rconn[y].peer = q => rconn'[y] = rconn[y]
  BY <1>4, <1>5
<1>9. /\ \A j \in Slots : connData'[j].peer # Nobody => connData'[j] = connData[j] /\ connData[j].peer # p
      /\ \A y \in Slots : rconn'[y].peer # Nobody => rconn'[y] = rconn[y] /\ rconn[y].peer # p
  BY <1>3, <1>4, <1>5, <1>6
<1>10. Tables'
  <2>1. /\ \A y, z \in Slots : rconn'[y].peer = rconn'[z].peer /\ rconn'[y].peer # Nobody => y = z
        /\ \A i, j \in Slots : connData'[i].peer = connData'[j].peer /\ connData'[i].peer # Nobody => i = j
    <3>1. /\ \A y, z \in Slots : rconn[y].peer = rconn[z].peer /\ rconn[y].peer # Nobody => y = z
          /\ \A i, j \in Slots : connData[i].peer = connData[j].peer /\ connData[i].peer # Nobody => i = j
      BY DEF CoreInv, Tables
    <3> QED BY <1>9, <3>1
  <2>2. \A i \in Slots : connData'[i].peer # Nobody => \E y \in Slots : rconn'[y].peer = connData'[i].peer
    <3>1. \A i \in Slots : connData[i].peer # Nobody => \E y \in Slots : rconn[y].peer = connData[i].peer
      BY DEF CoreInv, Tables
    <3> QED BY <1>8, <1>9, <3>1
  <2>3. \A y \in Slots : rconn'[y].peer # Nobody => peer'[rconn'[y].peer].state \in {"open", "left"}
    <3>1. \A y \in Slots : rconn[y].peer # Nobody => peer[rconn[y].peer].state \in {"open", "left"}
      BY DEF CoreInv, Tables
    <3>2. \A y \in Slots : rconn[y].peer # Nobody => rconn[y].peer \in Peer
      BY <1>1 DEF Sockets
    <3> QED BY <1>1, <1>9, <3>1, <3>2
  <2>4. NoLoss => /\ \A y \in Slots : rconn'[y].peer # Nobody
                                          => \E j \in Slots : connData'[j].peer = rconn'[y].peer
                  /\ \A j \in Slots : connData'[j].peer = Nobody => connData'[j] = NULL
    <3>1. NoLoss => /\ \A y \in Slots : rconn[y].peer # Nobody
                                            => \E j \in Slots : connData[j].peer = rconn[y].peer
                    /\ \A j \in Slots : connData[j].peer = Nobody => connData[j] = NULL
      BY DEF CoreInv, Tables, InPool
    <3> QED BY <1>4, <1>8, <1>9, <3>1
  <2> QED BY <2>1, <2>2, <2>3, <2>4 DEF Tables, InPool
<1>11. LoopInv'
  <2>1. \A y \in Slots : rconn'[y].peer # Nobody /\ rconn'[y].notif /\ ~rconn'[y].needsClose
                            => \E j \in Slots : connData'[j].peer = rconn'[y].peer
    <3>1. \A y \in Slots : rconn[y].peer # Nobody /\ rconn[y].notif /\ ~rconn[y].needsClose
                              => \E j \in Slots : connData[j].peer = rconn[y].peer
      BY DEF CoreInv, LoopInv, InPool
    <3> SUFFICES ASSUME NEW y \in Slots, rconn'[y].peer # Nobody, rconn'[y].notif, ~rconn'[y].needsClose
                 PROVE  \E j \in Slots : connData'[j].peer = rconn'[y].peer
      OBVIOUS
    <3>2. rconn'[y] = rconn[y] /\ rconn[y].peer # p
      BY <1>9
    <3>3. PICK j \in Slots : connData[j].peer = rconn[y].peer
      BY <3>1, <3>2
    <3> QED BY <1>8, <3>2, <3>3
  <2> QED BY <2>1 DEF LoopInv, InPool
<1>12. NoCgiLeftBehind'
  <2> SUFFICES ASSUME NEW q \in open'
               PROVE  \E y \in Slots, j \in Slots :
                         rconn'[y].peer = q /\ connData'[j].peer = q /\ connData'[j].cgi
    BY DEF NoCgiLeftBehind
  <2>1. q \in open
    OBVIOUS
  <2>2. PICK y \in Slots, j \in Slots : rconn[y].peer = q /\ connData[j].peer = q /\ connData[j].cgi
    BY <2>1 DEF CoreInv, NoCgiLeftBehind
  <2>3. q # p
    BY <2>2 DEF Found
  <2>4. connData'[j] = connData[j] /\ rconn'[y] = rconn[y]
    BY <1>8, <2>2, <2>3
  <2> QED BY <2>2, <2>4
<1> QED BY <1>7, <1>10, <1>11, <1>12 DEF CoreInv

\* What the first of a set of slots is.
LEMMA FirstOf ==
    ASSUME NEW S, S \subseteq Nat, S # {}
    PROVE  First(S) \in S
<1>1. \E n \in S : \A k \in S : n <= k
  BY Least
<1> QED BY <1>1 DEF First

\* With a free socket, and nothing lost, the pool has a slot for the connection: each
\* connection of the pool has a socket of its own.
LEMMA PoolHasRoom ==
    ASSUME CoreAssumption, CoreInv, NoLoss, NEW x0 \in Slots, rconn[x0].peer = Nobody
    PROVE  Unused # {}
<1> SUFFICES ASSUME Unused = {} PROVE FALSE
  OBVIOUS
<1>1. \A i \in Slots : connData[i].peer # Nobody
  <2>1. \A i \in Slots : connData[i].peer = Nobody => connData[i] = NULL
    BY DEF CoreInv, Tables
  <2> QED BY <2>1 DEF Unused
<1> DEFINE f == [i \in Slots |-> CHOOSE x \in Slots : rconn[x].peer = connData[i].peer]
<1>2. \A i \in Slots : f[i] \in Slots /\ rconn[f[i]].peer = connData[i].peer
  <2> SUFFICES ASSUME NEW i \in Slots PROVE f[i] \in Slots /\ rconn[f[i]].peer = connData[i].peer
    OBVIOUS
  <2>1. \E x \in Slots : rconn[x].peer = connData[i].peer
    BY <1>1 DEF CoreInv, Tables
  <2>2. f[i] = CHOOSE x \in Slots : rconn[x].peer = connData[i].peer
    OBVIOUS
  <2> HIDE DEF f
  <2> QED BY <2>1, <2>2
<1>3. f \in [Slots -> Slots \ {x0}]
  <2>1. \A i \in Slots : f[i] \in Slots \ {x0}
    <3> HIDE DEF f
    <3> QED BY <1>1, <1>2
  <2> QED BY <2>1
<1>4. /\ IsFiniteSet(Slots) /\ Cardinality(Slots) \in Nat
      /\ IsFiniteSet(Slots \ {x0}) /\ Cardinality(Slots \ {x0}) < Cardinality(Slots)
  <2>1. MaxConn \in Nat
    BY DEF CoreAssumption
  <2>2. IsFiniteSet(Slots)
    BY <2>1, FS_Interval DEF Slots
  <2>3. Cardinality(Slots) \in Nat
    BY <2>2, FS_CardinalityType
  <2>4. IsFiniteSet(Slots \ {x0}) /\ Cardinality(Slots \ {x0}) = Cardinality(Slots) - 1
    BY <2>2, FS_RemoveElement
  <2> QED BY <2>2, <2>3, <2>4
<1> HIDE DEF f
<1>5. PICK i, j \in Slots : i # j /\ f[i] = f[j]
  BY <1>3, <1>4, FS_PigeonHole
<1>6. connData[i].peer = connData[j].peer /\ connData[i].peer # Nobody
  BY <1>1, <1>2, <1>5
<1> QED BY <1>5, <1>6 DEF CoreInv, Tables

\* What becomes of the pool when p is accepted: at most the slot i0, which was free, changes.
Pooled(p, i0) ==
    /\ connData' \in [Slots -> Connections]
    /\ \A j \in Slots : \/ connData'[j] = connData[j]
                        \/ /\ j = i0 /\ connData[j].peer = Nobody /\ connData'[j].peer \in {p, Nobody}
                           /\ connData'[j].backlog = <<>>
    /\ NoLoss => /\ \E j \in Slots : connData'[j].peer = p
                 /\ \A j \in Slots : connData'[j].peer = Nobody => connData'[j] = NULL

\* A connection is accepted into the first free socket, and into the pool unless that fails.
LEMMA AcceptStep ==
    ASSUME CoreAssumption, CoreInv, Accept
    PROVE  CoreInv'
<1> DEFINE x0 == First(Free)
           i0 == First(Unused)
<1>1. /\ rconn \in [Slots -> Sockets] /\ connData \in [Slots -> Connections] /\ peer \in [Peer -> Ends]
      /\ open \subseteq Peer /\ loop \in Loops
  BY DEF CoreInv, Shapes
<1>2. x0 \in Slots /\ rconn[x0].peer = Nobody
  <2>1. Free # {} /\ Free \subseteq Nat
    BY DEF CoreInv, LoopInv, Accept, Free, Slots
  <2>2. x0 \in Free
    BY <2>1, FirstOf
  <2> QED BY <2>2 DEF Free
<1>3. Unused # {} => i0 \in Slots /\ connData[i0] = NULL
  <2>1. Unused \subseteq Nat
    BY DEF Unused, Slots
  <2>2. Unused # {} => i0 \in Unused
    BY <2>1, FirstOf
  <2> QED BY <2>2 DEF Unused
<1>4. PICK p \in Pending : /\ rconn' = [rconn EXCEPT ![x0] = NewSocket(p)]
                           /\ peer' = [peer EXCEPT ![p].state = "open"]
                           /\ httpdConnectCb(p)
  BY DEF Accept
<1>5. loop' = [loop EXCEPT !.at = "write"] /\ open' = open
  BY DEF Accept
<1>6. p \in Peer /\ peer[p].state = "pending" /\ p # Nobody
  BY DEF Pending, CoreAssumption
<1>7. NULL \in Connections /\ NULL.peer = Nobody /\ NULL.backlog = <<>>
  BY ConstantsTyped
<1> HIDE DEF x0, i0
\* Nobody knows the new remote end yet.
<1>8. \A y \in Slots : rconn[y].peer # p
  BY <1>6 DEF CoreInv, Tables
<1>9. \A j \in Slots : connData[j].peer # p
  BY <1>6, <1>8 DEF CoreInv, Tables
<1>10. NewSocket(p).peer = p /\ NewSocket(p).notif = FALSE /\ NewSocket(p) \in Sockets
  BY <1>6 DEF NewSocket, Sockets
<1>11. \A y \in Slots : IF y = x0 THEN rconn'[y] = NewSocket(p) ELSE rconn'[y] = rconn[y]
  BY <1>1, <1>4
\* What becomes of the pool.
<1>12. Pooled(p, i0)
  <2>1. CASE UNCHANGED connData /\ (Unused = {} \/ "connData" \in Failing)
    <3>1. ~NoLoss
      BY <1>2, <2>1, PoolHasRoom DEF NoLoss
    <3> QED BY <1>1, <2>1, <3>1 DEF Pooled
  <2>2. ASSUME Unused # {}, NEW new, connData' = [connData EXCEPT ![i0] = new],
               new = NewConn(p) \/ (new = [NULL EXCEPT !.leaked = TRUE] /\ "post" \in Failing)
        PROVE  Pooled(p, i0)
    <3>1. new \in Connections /\ new.backlog = <<>> /\ new.peer \in {p, Nobody}
      <4>1. CASE new = NewConn(p)
        BY <1>6, <1>7, <4>1 DEF NewConn, Connections
      <4>2. CASE new = [NULL EXCEPT !.leaked = TRUE]
        BY <1>6, <1>7, <4>2 DEF Connections
      <4> QED BY <2>2, <4>1, <4>2
    <3>2. i0 \in Slots /\ connData[i0].peer = Nobody
      BY <1>3, <1>7, <2>2
    <3>3. connData' \in [Slots -> Connections]
      BY <1>1, <2>2, <3>1
    <3>4. \A j \in Slots : IF j = i0 THEN connData'[j] = new ELSE connData'[j] = connData[j]
      BY <1>1, <2>2, <3>2
    <3>5. ASSUME NoLoss
          PROVE  /\ \E j \in Slots : connData'[j].peer = p
                 /\ \A j \in Slots : connData'[j].peer = Nobody => connData'[j] = NULL
      <4>1. new.peer = p
        BY <1>7, <2>2, <3>5 DEF NewConn, NoLoss, Connections
      <4>2. \A j \in Slots : connData[j].peer = Nobody => connData[j] = NULL
        BY <3>5 DEF CoreInv, Tables
      <4> QED BY <1>6, <3>2, <3>4, <4>1, <4>2
    <3> QED BY <3>1, <3>2, <3>3, <3>4, <3>5 DEF Pooled
  <2> QED BY <1>4, <2>1, <2>2 DEF httpdConnectCb, i0
<1>13. Shapes'
  <2>1. rconn' \in [Slots -> Sockets]
    BY <1>1, <1>4, <1>10
  <2>2. peer' \in [Peer -> Ends]
    <3>1. [peer[p] EXCEPT !.state = "open"] \in Ends
      <4>1. peer[p] \in Ends
        BY <1>1, <1>6
      <4> QED BY <4>1 DEF Ends
    <3>2. peer' = [peer EXCEPT ![p] = [peer[p] EXCEPT !.state = "open"]]
      BY <1>4
    <3> QED BY <1>1, <1>6, <3>1, <3>2
  <2>3. \A j \in Slots : Size(connData'[j].backlog) <= MaxBacklog
    <3>1. Size(<<>>) = 0 /\ MaxBacklog \in Nat
      BY SizeEmpty DEF CoreAssumption
    <3>2. 0 <= MaxBacklog
      BY <3>1
    <3>3. \A j \in Slots : Size(connData[j].backlog) <= MaxBacklog
      BY DEF CoreInv, Shapes
    <3>4. \A j \in Slots : connData'[j] = connData[j] \/ connData'[j].backlog = <<>>
      BY <1>12 DEF Pooled
    <3> QED BY <3>1, <3>2, <3>3, <3>4
  <2>4. loop' \in Loops
    BY <1>1, <1>5 DEF Loops
  <2> QED BY <1>1, <1>5, <1>12, <2>1, <2>2, <2>3, <2>4 DEF Shapes, Pooled
<1>14. /\ \A j \in Slots : connData[j].peer # Nobody => connData'[j] = connData[j]
       /\ \A j \in Slots : connData'[j].peer \notin {p, Nobody} => connData'[j] = connData[j]
       /\ \A j \in Slots : connData'[j].peer = p => j = i0
  BY <1>9, <1>12 DEF Pooled
<1>15. Tables'
  <2>1. \A y, z \in Slots : rconn'[y].peer = rconn'[z].peer /\ rconn'[y].peer # Nobody => y = z
    <3>1. \A y, z \in Slots : rconn[y].peer = rconn[z].peer /\ rconn[y].peer # Nobody => y = z
      BY DEF CoreInv, Tables
    <3> QED BY <1>2, <1>8, <1>10, <1>11, <3>1
  <2>2. \A i, j \in Slots : connData'[i].peer = connData'[j].peer /\ connData'[i].peer # Nobody => i = j
    <3>1. \A i, j \in Slots : connData[i].peer = connData[j].peer /\ connData[i].peer # Nobody => i = j
      BY DEF CoreInv, Tables
    <3> SUFFICES ASSUME NEW i \in Slots, NEW j \in Slots, connData'[i].peer = connData'[j].peer,
                        connData'[i].peer # Nobody
                 PROVE  i = j
      OBVIOUS
    <3>2. CASE connData'[i].peer = p
      BY <1>14, <3>2
    <3>3. CASE connData'[i].peer # p
      BY <1>14, <3>1, <3>3
    <3> QED BY <3>2, <3>3
  <2>3. \A i \in Slots : connData'[i].peer # Nobody => \E y \in Slots : rconn'[y].peer = connData'[i].peer
    <3> SUFFICES ASSUME NEW i \in Slots, connData'[i].peer # Nobody
                 PROVE  \E y \in Slots : rconn'[y].peer = connData'[i].peer
      OBVIOUS
    <3>1. CASE connData'[i].peer = p
      BY <1>2, <1>10, <1>11, <3>1
    <3>2. CASE connData'[i].peer # p
      <4>1. connData'[i] = connData[i]
        BY <1>14, <3>2
      <4>2. PICK y \in Slots : rconn[y].peer = connData[i].peer
        BY <4>1 DEF CoreInv, Tables
      <4> QED BY <1>2, <1>11, <4>1, <4>2
    <3> QED BY <3>1, <3>2
  <2>4. \A y \in Slots : rconn'[y].peer # Nobody => peer'[rconn'[y].peer].state \in {"open", "left"}
    <3> SUFFICES ASSUME NEW y \in Slots, rconn'[y].peer # Nobody
                 PROVE  peer'[rconn'[y].peer].state \in {"open", "left"}
      OBVIOUS
    <3>1. CASE y = x0
      <4>1. peer[p] \in Ends
        BY <1>1, <1>6
      <4>2. peer'[p].state = "open"
        BY <1>1, <1>4, <1>6, <4>1 DEF Ends
      <4> QED BY <1>10, <1>11, <3>1, <4>2
    <3>2. CASE y # x0
      <4>1. rconn'[y] = rconn[y]
        BY <1>11, <3>2
      <4>2. peer[rconn[y].peer].state \in {"open", "left"}
        BY <4>1 DEF CoreInv, Tables
      <4>3. rconn[y] \in Sockets
        BY <1>1
      <4>4. rconn[y].peer \in Peer /\ rconn[y].peer # p
        BY <1>8, <4>1, <4>3 DEF Sockets
      <4>5. peer'[rconn[y].peer] = peer[rconn[y].peer]
        BY <1>1, <1>4, <4>4
      <4> QED BY <4>1, <4>2, <4>5
    <3> QED BY <3>1, <3>2
  <2>5. NoLoss => /\ \A y \in Slots : rconn'[y].peer # Nobody
                                          => \E j \in Slots : connData'[j].peer = rconn'[y].peer
                  /\ \A j \in Slots : connData'[j].peer = Nobody => connData'[j] = NULL
    <3> SUFFICES ASSUME NoLoss
                 PROVE  /\ \A y \in Slots : rconn'[y].peer # Nobody
                                                => \E j \in Slots : connData'[j].peer = rconn'[y].peer
                        /\ \A j \in Slots : connData'[j].peer = Nobody => connData'[j] = NULL
      OBVIOUS
    <3>1. \A y \in Slots : rconn[y].peer # Nobody => \E j \in Slots : connData[j].peer = rconn[y].peer
      BY DEF CoreInv, Tables, InPool
    <3>2. \A y \in Slots : rconn[y].peer # Nobody => \E j \in Slots : connData'[j].peer = rconn[y].peer
      BY <1>14, <3>1
    <3>3. /\ \E j \in Slots : connData'[j].peer = p
          /\ \A j \in Slots : connData'[j].peer = Nobody => connData'[j] = NULL
      BY <1>12 DEF Pooled
    <3> QED BY <1>10, <1>11, <3>2, <3>3
  <2> QED BY <2>1, <2>2, <2>3, <2>4, <2>5 DEF Tables, InPool
<1>16. LoopInv'
  <2>1. loop'.at = "write"
    BY <1>1, <1>5 DEF Loops
  <2>2. \A y \in Slots : rconn'[y].peer # Nobody /\ rconn'[y].notif /\ ~rconn'[y].needsClose
                            => \E j \in Slots : connData'[j].peer = rconn'[y].peer
    <3> SUFFICES ASSUME NEW y \in Slots, rconn'[y].peer # Nobody, rconn'[y].notif, ~rconn'[y].needsClose
                 PROVE  \E j \in Slots : connData'[j].peer = rconn'[y].peer
      OBVIOUS
    <3>1. rconn'[y] = rconn[y]
      BY <1>10, <1>11
    <3>2. PICK j \in Slots : connData[j].peer = rconn[y].peer
      BY <3>1 DEF CoreInv, LoopInv, InPool
    <3> QED BY <1>14, <3>1, <3>2
  <2> QED BY <2>1, <2>2 DEF LoopInv, InPool
<1>17. NoCgiLeftBehind'
  <2> SUFFICES ASSUME NEW q \in open'
               PROVE  \E y \in Slots, j \in Slots :
                         rconn'[y].peer = q /\ connData'[j].peer = q /\ connData'[j].cgi
    BY DEF NoCgiLeftBehind
  <2>1. q \in open /\ q # Nobody
    BY <1>1, <1>5 DEF CoreAssumption
  <2>2. PICK y \in Slots, j \in Slots : rconn[y].peer = q /\ connData[j].peer = q /\ connData[j].cgi
    BY <2>1 DEF CoreInv, NoCgiLeftBehind
  <2>3. connData'[j] = connData[j] /\ rconn'[y] = rconn[y]
    BY <1>2, <1>11, <1>14, <2>1, <2>2
  <2> QED BY <2>2, <2>3
<1> QED BY <1>13, <1>15, <1>16, <1>17 DEF CoreInv

\* A step that changes no more of the tables than the flags of a socket: a remote end that
\* is connected stays so, and what the loop remembers is so.
LEMMA SocketStep ==
    ASSUME CoreInv, NEW x \in Slots, NEW r \in Sockets, r.peer = rconn[x].peer,
           rconn' = [rconn EXCEPT ![x] = r], UNCHANGED <<connData, open>>,
           peer' \in [Peer -> Ends],
           \A q \in Peer : peer[q].state \in {"open", "left"} => peer'[q].state \in {"open", "left"},
           loop' \in Loops,
           loop'.at = "accept" => Free # {},
           loop'.at \in {"close", "sent"} => rconn[loop'.x].peer # Nobody,
           loop'.at = "sent" => InPool(rconn[loop'.x].peer),
           r.peer # Nobody /\ r.notif /\ ~r.needsClose => InPool(r.peer)
    PROVE  CoreInv'
<1>1. rconn \in [Slots -> Sockets]
  BY DEF CoreInv, Shapes
<1>2. \A y \in Slots : IF y = x THEN rconn'[y] = r ELSE rconn'[y] = rconn[y]
  BY <1>1
<1>3. \A y \in Slots : rconn'[y].peer = rconn[y].peer
  BY <1>2
<1>4. Shapes'
  <2>1. rconn' \in [Slots -> Sockets]
    BY <1>1
  <2> QED BY <2>1 DEF CoreInv, Shapes
<1>5. Tables'
  <2>1. \A y \in Slots : rconn'[y].peer # Nobody => peer'[rconn'[y].peer].state \in {"open", "left"}
    <3>1. \A y \in Slots : rconn[y].peer # Nobody => peer[rconn[y].peer].state \in {"open", "left"}
      BY DEF CoreInv, Tables
    <3>2. \A y \in Slots : rconn[y].peer # Nobody => rconn[y].peer \in Peer
      BY <1>1 DEF Sockets
    <3> QED BY <1>3, <3>1, <3>2
  <2>2. NoLoss => /\ \A y \in Slots : rconn'[y].peer # Nobody
                                          => \E j \in Slots : connData'[j].peer = rconn'[y].peer
                  /\ \A j \in Slots : connData'[j].peer = Nobody => connData'[j] = NULL
    <3>1. NoLoss => /\ \A y \in Slots : rconn[y].peer # Nobody
                                            => \E j \in Slots : connData[j].peer = rconn[y].peer
                    /\ \A j \in Slots : connData[j].peer = Nobody => connData[j] = NULL
      BY DEF CoreInv, Tables, InPool
    <3> QED BY <1>3, <3>1
  <2>3. /\ \A y, z \in Slots : rconn'[y].peer = rconn'[z].peer /\ rconn'[y].peer # Nobody => y = z
        /\ \A i, j \in Slots : connData'[i].peer = connData'[j].peer /\ connData'[i].peer # Nobody => i = j
        /\ \A i \in Slots : connData'[i].peer # Nobody => \E y \in Slots : rconn'[y].peer = connData'[i].peer
    BY <1>3 DEF CoreInv, Tables
  <2> QED BY <2>1, <2>2, <2>3 DEF Tables, InPool
<1>6. LoopInv'
  <2>1. Free' = Free
    BY <1>3 DEF Free
  <2>2. loop'.x \in Slots
    BY DEF Loops
  <2>3. Socket.peer' = rconn[loop'.x].peer
    BY <1>3, <2>2 DEF Socket
  <2>4. loop'.at = "sent" => \E j \in Slots : connData'[j].peer = Socket.peer'
    BY <2>3 DEF InPool
  <2>5. \A y \in Slots : rconn'[y].peer # Nobody /\ rconn'[y].notif /\ ~rconn'[y].needsClose
                            => \E j \in Slots : connData'[j].peer = rconn'[y].peer
    <3>1. \A y \in Slots : rconn[y].peer # Nobody /\ rconn[y].notif /\ ~rconn[y].needsClose
                              => \E j \in Slots : connData[j].peer = rconn[y].peer
      BY DEF CoreInv, LoopInv, InPool
    <3>2. r.peer # Nobody /\ r.notif /\ ~r.needsClose => \E j \in Slots : connData[j].peer = r.peer
      BY DEF InPool
    <3> QED BY <1>2, <3>1, <3>2
  <2> QED BY <2>1, <2>3, <2>4, <2>5 DEF LoopInv, InPool
<1>7. NoCgiLeftBehind'
  BY <1>3 DEF CoreInv, NoCgiLeftBehind
<1> QED BY <1>4, <1>5, <1>6, <1>7 DEF CoreInv

\* A step that leaves the tables alone.
LEMMA QuietStep ==
    ASSUME CoreAssumption, CoreInv, UNCHANGED <<rconn, connData, open>>,
           peer' \in [Peer -> Ends],
           \A q \in Peer : peer[q].state \in {"open", "left"} => peer'[q].state \in {"open", "left"},
           loop' \in Loops,
           loop' = loop \/ loop'.at \in {"select", "write", "read"} \/ (loop'.at = "accept" /\ Free # {})
    PROVE  CoreInv'
<1>1. 1 \in Slots /\ rconn \in [Slots -> Sockets]
  BY DEF CoreAssumption, Slots, CoreInv, Shapes
<1>2. rconn' = [rconn EXCEPT ![1] = rconn[1]] /\ rconn[1] \in Sockets
  BY <1>1
<1>3. /\ loop'.at = "accept" => Free # {}
      /\ loop'.at \in {"close", "sent"} => rconn[loop'.x].peer # Nobody
      /\ loop'.at = "sent" => InPool(rconn[loop'.x].peer)
  BY DEF CoreInv, LoopInv, Socket
<1>4. rconn[1].peer # Nobody /\ rconn[1].notif /\ ~rconn[1].needsClose => InPool(rconn[1].peer)
  BY <1>1 DEF CoreInv, LoopInv
<1> QED BY <1>1, <1>2, <1>3, <1>4, SocketStep

\* What the clients do.
LEMMA ClientStep ==
    ASSUME CoreAssumption, CoreInv, NEW p \in Peer, Connect(p) \/ Ask(p) \/ Deliver(p) \/ Leave(p)
    PROVE  CoreInv'
<1>1. peer \in [Peer -> Ends] /\ peer[p] \in Ends /\ loop \in Loops
  BY DEF CoreInv, Shapes
<1>2. ASSUME NEW e \in Ends, peer' = [peer EXCEPT ![p] = e], UNCHANGED <<rconn, connData, loop, open>>,
             peer[p].state \in {"open", "left"} => e.state \in {"open", "left"}
      PROVE  CoreInv'
  <2>1. /\ peer' \in [Peer -> Ends]
        /\ \A q \in Peer : peer[q].state \in {"open", "left"} => peer'[q].state \in {"open", "left"}
    BY <1>1, <1>2
  <2> QED BY <1>1, <1>2, <2>1, QuietStep
<1>3. CASE Connect(p)
  <2> DEFINE e == [peer[p] EXCEPT !.state = "pending"]
  <2>1. peer' = [peer EXCEPT ![p] = e] /\ peer[p].state = "closed" /\ UNCHANGED <<rconn, connData, loop, open>>
    BY <1>3 DEF Connect
  <2>2. e \in Ends
    BY <1>1 DEF Ends
  <2> HIDE DEF e
  <2> QED BY <1>2, <2>1, <2>2
<1>4. CASE Ask(p)
  <2>1. PICK request \in Requests :
           peer' = [peer EXCEPT ![p].asked = IF request.http11 THEN "HTTP/1.1" ELSE "HTTP/1.0",
                                ![p].unsent = Items(request), ![p].got = <<>>]
    BY <1>4 DEF Ask
  <2> DEFINE asked == IF request.http11 THEN "HTTP/1.1" ELSE "HTTP/1.0"
             unsent == Items(request)
             none == <<>>
             e == [peer[p] EXCEPT !.asked = asked, !.unsent = unsent, !.got = none]
  <2>2. unsent \in Seq(Item)
    <3> DEFINE head == [type |-> "head", request |-> request]
               body == [type |-> "body", request |-> request]
    <3>1. head \in Item /\ body \in Item
      BY DEF Item
    <3>2. request.chunks \in Nat
      BY DEF CoreAssumption
    <3> HIDE DEF head, body
    <3>3. <<head>> \in Seq(Item) /\ [n \in 1 .. request.chunks |-> body] \in Seq(Item)
      BY <3>1, <3>2, SeqDef
    <3>4. unsent = <<head>> \o [n \in 1 .. request.chunks |-> body]
      BY DEF Items, head, body
    <3> QED BY <3>3, <3>4, ConcatProperties
  <2>3. none \in Seq(Part) /\ asked \in {"HTTP/1.1", "HTTP/1.0"}
    BY EmptySeq
  <2>4. peer' = [peer EXCEPT ![p] = e]
    BY <1>1, <2>1
  <2> HIDE DEF asked, unsent, none
  <2>5. e \in Ends /\ e.state = peer[p].state
    BY <1>1, <2>2, <2>3 DEF Ends
  <2>6. UNCHANGED <<rconn, connData, loop, open>>
    BY <1>4 DEF Ask
  <2> HIDE DEF e
  <2> QED BY <1>2, <2>4, <2>5, <2>6
<1>5. CASE Deliver(p)
  <2>1. PICK n \in 1 .. Len(peer[p].unsent) :
           peer' = [peer EXCEPT ![p].inbox = @ \o SubSeq(peer[p].unsent, 1, n),
                                ![p].unsent = SubSeq(@, n + 1, Len(@))]
    BY <1>5 DEF Deliver
  <2> DEFINE s == peer[p].unsent
             inbox == peer[p].inbox \o SubSeq(s, 1, n)
             unsent == SubSeq(s, n + 1, Len(s))
             e == [peer[p] EXCEPT !.inbox = inbox, !.unsent = unsent]
  <2>2. inbox \in Seq(Item) /\ unsent \in Seq(Item)
    <3>1. s \in Seq(Item) /\ peer[p].inbox \in Seq(Item)
      BY <1>1 DEF Ends
    <3> HIDE DEF s
    <3>2. Len(s) \in Nat
      BY <3>1, LenProperties
    <3>3. SubSeq(s, 1, n) \in Seq(Item) /\ SubSeq(s, n + 1, Len(s)) \in Seq(Item)
      <4>1. \A k \in 1 .. n : s[k] \in Item
        BY <3>1, <3>2, <2>1, ElementOfSeq DEF s
      <4>2. \A k \in n + 1 .. Len(s) : s[k] \in Item
        BY <3>1, <3>2, <2>1, ElementOfSeq DEF s
      <4>3. n \in Int /\ n + 1 \in Int /\ Len(s) \in Int
        BY <3>2, <2>1 DEF s
      <4>4. SubSeq(s, 1, n) \in Seq(Item)
        BY <4>1, <4>3, SubSeqProperties
      <4>5. SubSeq(s, n + 1, Len(s)) \in Seq(Item)
        BY <4>2, <4>3, SubSeqProperties
      <4> QED BY <4>4, <4>5
    <3> QED BY <3>1, <3>3, ConcatProperties
  <2>3. peer' = [peer EXCEPT ![p] = e]
    BY <1>1, <2>1
  <2> HIDE DEF inbox, unsent
  <2>4. e \in Ends /\ e.state = peer[p].state
    BY <1>1, <2>2 DEF Ends
  <2>5. UNCHANGED <<rconn, connData, loop, open>>
    BY <1>5 DEF Deliver
  <2> HIDE DEF e
  <2> QED BY <1>2, <2>3, <2>4, <2>5
<1>6. CASE Leave(p)
  <2> DEFINE none == <<>>
             e == [peer[p] EXCEPT !.state = "left", !.unsent = none]
  <2>1. peer' = [peer EXCEPT ![p] = e] /\ UNCHANGED <<rconn, connData, loop, open>>
    BY <1>1, <1>6 DEF Leave
  <2>2. none \in Seq(Item)
    BY EmptySeq
  <2> HIDE DEF none
  <2>3. e \in Ends /\ e.state = "left"
    BY <1>1, <2>2 DEF Ends
  <2> HIDE DEF e
  <2> QED BY <1>2, <2>1, <2>3
<1> QED BY <1>3, <1>4, <1>5, <1>6

\* The slot the loop goes on to.
LEMMA NextSlotTyped ==
    ASSUME CoreAssumption, loop \in Loops, NextSlot
    PROVE  loop' \in Loops /\ loop'.at \in {"select", "write"}
<1>1. Select \in Loops /\ Select.at = "select"
  BY ConstantsTyped DEF Select
<1>2. CASE loop.x = MaxConn
  BY <1>1, <1>2 DEF NextSlot
<1>3. CASE loop.x # MaxConn
  <2> DEFINE x == loop.x + 1
  <2>1. loop' = [loop EXCEPT !.at = "write", !.x = x]
    BY <1>3 DEF NextSlot
  <2>2. x \in Slots
    BY <1>3 DEF CoreAssumption, Loops, Slots
  <2> HIDE DEF x
  <2> QED BY <2>1, <2>2 DEF Loops
<1> QED BY <1>2, <1>3

\* The steps of the loop that call no handler: the tables keep their connections.
LEMMA LoopStep ==
    ASSUME CoreAssumption, CoreInv,
           \/ SelectReturns \/ AcceptFails \/ SkipEmpty \/ CheckWritable
           \/ NotReadable \/ ReadClosed \/ ReceiveUnknown
    PROVE  CoreInv'
<1>1. /\ peer \in [Peer -> Ends] /\ rconn \in [Slots -> Sockets] /\ loop \in Loops /\ loop.x \in Slots
      /\ Socket \in Sockets
  BY DEF CoreInv, Shapes, Loops, Socket
<1>2. ASSUME UNCHANGED <<peer, rconn, connData, open>>, loop' \in Loops,
             loop'.at \in {"select", "write", "read"} \/ (loop'.at = "accept" /\ Free # {})
      PROVE  CoreInv'
  BY <1>1, <1>2, QuietStep
<1>3. CASE SelectReturns
  <2>1. PICK W \in SUBSET Notified :
           loop' = [at |-> IF CanAccept THEN "accept" ELSE "write",
                    x |-> 1, reads |-> Readable, writes |-> W]
    BY <1>3 DEF SelectReturns
  <2>2. 1 \in Slots /\ Readable \in SUBSET Slots /\ W \in SUBSET Slots
    BY DEF CoreAssumption, Slots, Readable, Notified
  <2>3. loop' \in Loops
    BY <2>1, <2>2 DEF Loops
  <2>4. loop'.at = "write" \/ (loop'.at = "accept" /\ Free # {})
    BY <2>1 DEF CanAccept
  <2> QED BY <1>2, <1>3, <2>3, <2>4 DEF SelectReturns
<1>4. CASE AcceptFails
  <2>1. Select \in Loops /\ Select.at = "select"
    BY ConstantsTyped DEF Select
  <2> QED BY <1>2, <1>4, <2>1 DEF AcceptFails
<1>5. CASE SkipEmpty \/ NotReadable
  <2>1. NextSlot /\ UNCHANGED <<peer, rconn, connData, open>>
    BY <1>5 DEF SkipEmpty, NotReadable
  <2> QED BY <1>1, <1>2, <2>1, NextSlotTyped
<1>6. CASE CheckWritable
  <2>1. CASE Socket.notif /\ loop.x \in loop.writes
    <3> DEFINE no == FALSE
               r == [Socket EXCEPT !.notif = no]
               at == IF Socket.needsClose THEN "close" ELSE "sent"
    <3>1. rconn' = [rconn EXCEPT ![loop.x] = r] /\ loop' = [loop EXCEPT !.at = at]
      BY <1>1, <1>6, <2>1 DEF CheckWritable, GoTo, Socket
    <3>2. at \in {"close", "sent"} /\ (at = "sent" => ~Socket.needsClose) /\ no \in BOOLEAN /\ ~no
      OBVIOUS
    <3>3. Socket.peer # Nobody /\ UNCHANGED <<peer, connData, open>>
      BY <1>6 DEF CheckWritable
    <3>4. at = "sent" => InPool(Socket.peer)
      BY <1>1, <2>1, <3>2, <3>3 DEF CoreInv, LoopInv, Socket
    <3> HIDE DEF at, no
    <3>5. r \in Sockets /\ r.peer = Socket.peer /\ ~r.notif
      BY <1>1, <3>2 DEF Sockets
    <3>6. loop' \in Loops /\ loop'.at = at /\ loop'.x = loop.x
      BY <1>1, <3>1, <3>2 DEF Loops
    <3> HIDE DEF r
    <3>7. rconn[loop'.x] = Socket
      BY <3>6 DEF Socket
    <3>8. \A q \in Peer : peer[q].state \in {"open", "left"} => peer'[q].state \in {"open", "left"}
      BY <3>3
    <3>9. peer' \in [Peer -> Ends] /\ UNCHANGED <<connData, open>>
      BY <1>1, <3>3
    <3>10. loop'.at # "accept" /\ rconn[loop'.x].peer # Nobody /\ r.peer = rconn[loop.x].peer
      BY <3>2, <3>3, <3>5, <3>6, <3>7 DEF Socket
    <3>11. loop'.at = "sent" => InPool(rconn[loop'.x].peer)
      BY <3>4, <3>6, <3>7
    <3> QED BY <1>1, <3>1, <3>5, <3>6, <3>8, <3>9, <3>10, <3>11, SocketStep
  <2>2. CASE ~(Socket.notif /\ loop.x \in loop.writes)
    <3>1. UNCHANGED <<peer, rconn, connData, open>> /\ loop' = [loop EXCEPT !.at = "read"]
      BY <1>6, <2>2 DEF CheckWritable, GoTo
    <3>2. loop' \in Loops /\ loop'.at = "read"
      BY <1>1, <3>1 DEF Loops
    <3> QED BY <1>2, <3>1, <3>2
  <2> QED BY <2>1, <2>2
\* A socket that asks for its close is not told that data is sent.
<1>7. ASSUME rconn' = [rconn EXCEPT ![loop.x] = AskClose(@)], NextSlot, UNCHANGED <<connData, open>>,
             peer' \in [Peer -> Ends],
             \A q \in Peer : peer[q].state \in {"open", "left"} => peer'[q].state \in {"open", "left"}
      PROVE  CoreInv'
  <2> DEFINE r == AskClose(Socket)
  <2>1. rconn' = [rconn EXCEPT ![loop.x] = r]
    BY <1>1, <1>7 DEF Socket
  <2>2. r \in Sockets /\ r.peer = Socket.peer /\ r.needsClose
    <3> DEFINE yes == TRUE
    <3>1. yes \in BOOLEAN /\ yes /\ r = [Socket EXCEPT !.needsClose = yes, !.notif = yes]
      BY DEF AskClose
    <3> HIDE DEF yes, r
    <3> QED BY <1>1, <3>1 DEF Sockets
  <2> HIDE DEF r
  <2>3. loop' \in Loops /\ loop'.at \in {"select", "write"}
    BY <1>1, <1>7, NextSlotTyped
  <2>4. r.peer = rconn[loop.x].peer
    BY <2>2 DEF Socket
  <2> QED BY <1>1, <1>7, <2>1, <2>2, <2>3, <2>4, SocketStep
<1>8. CASE ReadClosed
  <2>1. peer' = peer /\ rconn' = [rconn EXCEPT ![loop.x] = AskClose(@)] /\ NextSlot /\ UNCHANGED <<connData, open>>
    BY <1>8 DEF ReadClosed
  <2> QED BY <1>1, <1>7, <2>1
<1>9. CASE ReceiveUnknown
  <2> DEFINE q == Socket.peer
             none == <<>>
             e == [peer[q] EXCEPT !.inbox = none]
  <2>1. q \in Peer
    BY <1>1, <1>9 DEF ReceiveUnknown, Reads, Sockets
  <2>2. peer' = [peer EXCEPT ![q] = e]
    BY <1>9 DEF ReceiveUnknown
  <2>3. none \in Seq(Item) /\ peer[q] \in Ends
    BY <1>1, <2>1, EmptySeq
  <2> HIDE DEF none, q
  <2>4. e \in Ends /\ e.state = peer[q].state
    BY <2>3 DEF Ends
  <2> HIDE DEF e
  <2>5. /\ peer' \in [Peer -> Ends]
        /\ \A p \in Peer : peer[p].state \in {"open", "left"} => peer'[p].state \in {"open", "left"}
    BY <1>1, <2>1, <2>2, <2>4
  <2> QED BY <1>7, <1>9, <2>5 DEF ReceiveUnknown
<1> QED BY <1>3, <1>4, <1>5, <1>6, <1>8, <1>9

\* The three ways a socket is closed.
LEMMA DisconnectStep ==
    ASSUME CoreAssumption, CoreInv, CloseSocket \/ ReceiveNothing \/ NoReceiveBuffer
    PROVE  CoreInv'
<1> DEFINE x == loop.x
<1>1. loop \in Loops /\ x \in Slots /\ rconn \in [Slots -> Sockets] /\ rconn[x] \in Sockets
  BY DEF CoreInv, Shapes, Loops
<1>2. rconn[x].peer # Nobody
  BY DEF CloseSocket, ReceiveNothing, NoReceiveBuffer, Reads, Socket, CoreInv, LoopInv
<1>3. loop' \in Loops /\ loop'.at \in {"select", "write", "read"}
  <2>1. CASE CloseSocket
    BY <1>1, <2>1 DEF CloseSocket, GoTo, Loops
  <2>2. CASE ReceiveNothing \/ NoReceiveBuffer
    BY <1>1, <2>2, NextSlotTyped DEF ReceiveNothing, NoReceiveBuffer
  <2> QED BY <2>1, <2>2
<1>4. /\ connData' = Retired(rconn[x].peer)
      /\ peer' = [peer EXCEPT ![rconn[x].peer] = Closed]
      /\ open' = IF \E i \in Found(rconn[x].peer) : connData[i].cgi
                 THEN open \ {rconn[x].peer} ELSE open
  BY DEF CloseSocket, ReceiveNothing, NoReceiveBuffer, Disconnect, Hangup, Socket
<1> DEFINE asked == AskClose(rconn[x])
<1>5. asked \in Sockets
  <2> DEFINE yes == TRUE
  <2>1. yes \in BOOLEAN /\ asked = [rconn[x] EXCEPT !.needsClose = yes, !.notif = yes]
    BY DEF AskClose
  <2> HIDE DEF yes, asked
  <2> QED BY <1>1, <2>1 DEF Sockets
<1>6. \E s \in {rconn[x], asked} : rconn' = [rconn EXCEPT ![x] = [s EXCEPT !.peer = Nobody]]
  <2>1. CASE CloseSocket \/ ReceiveNothing
    BY <2>1 DEF CloseSocket, ReceiveNothing, Disconnect, Hangup, Closing
  <2>2. CASE NoReceiveBuffer
    BY <1>1, <2>2 DEF NoReceiveBuffer
  <2> QED BY <2>1, <2>2
<1>7. PICK s \in {rconn[x], asked} : rconn' = [rconn EXCEPT ![x] = [s EXCEPT !.peer = Nobody]]
  BY <1>6
<1>8. s \in Sockets
  BY <1>1, <1>5
<1>9. [s EXCEPT !.peer = Nobody] \in Sockets /\ [s EXCEPT !.peer = Nobody].peer = Nobody
  BY <1>8 DEF Sockets
<1> HIDE DEF x, asked
<1> QED BY <1>1, <1>2, <1>3, <1>4, <1>7, <1>9, HangupStep

\* The steps that call a handler for a connection the pool has: data is sent, data is
\* received, a task resumes a CGI.
LEMMA CallbackStep ==
    ASSUME CoreAssumption, CoreInv,
           Sent \/ Receive \/ \E x \in Slots : AsyncContinue(x)
    PROVE  CoreInv'
<1>1. loop \in Loops /\ loop.x \in Slots /\ peer \in [Peer -> Ends] /\ rconn \in [Slots -> Sockets]
  BY DEF CoreInv, Shapes, Loops
<1>2. \A x \in Slots : rconn[x].peer # Nobody => peer[rconn[x].peer].inbox \in Seq(Item)
  BY <1>1 DEF Sockets, Ends
<1>3. <<>> \in Seq(Item)
  BY EmptySeq
<1>4. ASSUME NEW x \in Slots, rconn[x].peer # Nobody, NEW i \in Found(rconn[x].peer)
      PROVE  /\ httpdContinue(World(x, i)) \subseteq Worlds(rconn[x].peer)
             /\ httpdRecvCb(World(x, i), peer[rconn[x].peer].inbox) \subseteq Worlds(rconn[x].peer)
  <2>1. World(x, i) \in Worlds(rconn[x].peer)
    BY <1>4, WorldFound
  <2>2. peer[rconn[x].peer].inbox \in Seq(Item)
    BY <1>2, <1>4
  <2>3. rconn[x].peer \in Peer
    BY <1>1, <1>4 DEF Sockets
  <2> QED BY <2>1, <2>2, <2>3, ContinueKeeps, RecvKeeps
<1>5. CASE Sent
  <2>1. rconn[loop.x].peer # Nobody
    BY <1>5 DEF Sent, CoreInv, LoopInv, Socket
  <2>2. PICK i \in Found(rconn[loop.x].peer) : \E w \in httpdContinue(World(loop.x, i)) :
           Become(loop.x, i, w, peer[rconn[loop.x].peer].inbox)
    BY <1>5 DEF Sent, Socket
  <2>3. PICK w \in httpdContinue(World(loop.x, i)) :
           Become(loop.x, i, w, peer[rconn[loop.x].peer].inbox)
    BY <2>2
  <2>4. loop' \in Loops /\ loop'.at = "read"
    BY <1>1, <1>5 DEF Sent, GoTo, Loops
  <2>5. w \in Worlds(rconn[loop.x].peer)
    BY <1>1, <1>4, <2>1, <2>3
  <2> QED BY <1>1, <1>2, <2>1, <2>3, <2>4, <2>5, BecomeStep
<1>6. CASE Receive
  <2>1. rconn[loop.x].peer # Nobody
    BY <1>6 DEF Receive, Reads, Socket
  <2>2. PICK i \in Found(rconn[loop.x].peer) : \E w \in httpdRecvCb(World(loop.x, i), peer[rconn[loop.x].peer].inbox) :
           Become(loop.x, i, w, <<>>)
    BY <1>6 DEF Receive, Socket
  <2>3. PICK w \in httpdRecvCb(World(loop.x, i), peer[rconn[loop.x].peer].inbox) :
           Become(loop.x, i, w, <<>>)
    BY <2>2
  <2>4. loop' \in Loops /\ loop'.at \in {"select", "write"}
    BY <1>1, <1>6, NextSlotTyped DEF Receive
  <2>5. w \in Worlds(rconn[loop.x].peer)
    BY <1>1, <1>4, <2>1, <2>3
  <2> QED BY <1>1, <1>3, <2>1, <2>3, <2>4, <2>5, BecomeStep
<1>7. CASE \E x \in Slots : AsyncContinue(x)
  <2>1. PICK x \in Slots : AsyncContinue(x)
    BY <1>7
  <2>2. PICK i \in Found(rconn[x].peer) : \E w \in httpdContinue(World(x, i)) :
           Become(x, i, w, peer[rconn[x].peer].inbox)
    BY <2>1 DEF AsyncContinue
  <2>3. PICK w \in httpdContinue(World(x, i)) :
           Become(x, i, w, peer[rconn[x].peer].inbox)
    BY <2>2
  <2>4. rconn[x].peer # Nobody /\ loop' = loop
    BY <2>1 DEF AsyncContinue
  <2>5. w \in Worlds(rconn[x].peer)
    BY <1>4, <2>3, <2>4
  <2> QED BY <1>1, <1>2, <2>3, <2>4, <2>5, BecomeStep
<1> QED BY <1>5, <1>6, <1>7

\* Nothing is connected at first.
LEMMA StartsEmpty ==
    ASSUME CoreAssumption, Init
    PROVE  CoreInv
<1>1. /\ NULL \in Connections /\ NULL.peer = Nobody /\ NULL.backlog = <<>>
      /\ Closed \in Ends /\ Select \in Loops /\ Select.at = "select"
  BY ConstantsTyped DEF Select
<1> DEFINE no == FALSE
           r == [peer |-> Nobody, notif |-> no, needsClose |-> no]
<1>2. r \in Sockets /\ r.peer = Nobody
  <2>1. no \in BOOLEAN
    OBVIOUS
  <2> HIDE DEF no
  <2> QED BY <2>1 DEF Sockets
<1>3. /\ peer = [p \in Peer |-> Closed] /\ rconn = [x \in Slots |-> r]
      /\ connData = [i \in Slots |-> NULL] /\ loop = Select /\ open = {}
  BY DEF Init
<1> HIDE DEF r
<1>4. \A x \in Slots : rconn[x].peer = Nobody /\ connData[x] = NULL
  BY <1>2, <1>3
<1>5. Shapes
  <2>1. Size(<<>>) <= MaxBacklog
    BY SizeEmpty DEF CoreAssumption
  <2>2. \A i \in Slots : Size(connData[i].backlog) <= MaxBacklog
    BY <1>1, <1>4, <2>1
  <2> QED BY <1>1, <1>2, <1>3, <2>2 DEF Shapes
<1>6. Tables
  BY <1>1, <1>4 DEF Tables
<1>7. LoopInv
  BY <1>1, <1>3, <1>4 DEF LoopInv
<1>8. NoCgiLeftBehind
  BY <1>3 DEF NoCgiLeftBehind
<1> QED BY <1>5, <1>6, <1>7, <1>8 DEF CoreInv
-----------------------------------------------------------------------------
(* The theorems.                                                           *)

\* The invariant of the core: the shapes of its records, the agreement of the pool and the
\* loop's table, what the loop remembers between two of its steps, and that a CGI with more
\* to do is attached to a connection with a socket.
THEOREM CoreInvariant == Spec => []CoreInv
<1>0. CoreAssumption
  BY CoreAssumption DEF CoreAssumption
<1>1. Init => CoreInv
  BY <1>0, StartsEmpty
<1>2. CoreInv /\ [Next]_vars => CoreInv'
  <2> SUFFICES ASSUME CoreInv, [Next]_vars PROVE CoreInv'
    OBVIOUS
  <2>1. CASE \E p \in Peer : Connect(p) \/ Ask(p) \/ Deliver(p) \/ Leave(p)
    BY <1>0, <2>1, ClientStep
  <2>2. CASE \E x \in Slots : AsyncContinue(x)
    BY <1>0, <2>2, CallbackStep
  <2>3. CASE Server
    <3>1. CASE Accept
      BY <1>0, <3>1, AcceptStep
    <3>2. CASE CloseSocket \/ ReceiveNothing \/ NoReceiveBuffer
      BY <1>0, <3>2, DisconnectStep
    <3>3. CASE Sent \/ Receive
      BY <1>0, <3>3, CallbackStep
    <3>4. CASE SelectReturns \/ AcceptFails \/ SkipEmpty \/ CheckWritable \/ NotReadable \/ ReadClosed \/ ReceiveUnknown
      BY <1>0, <3>4, LoopStep
    <3> QED BY <2>3, <3>1, <3>2, <3>3, <3>4 DEF Server
  <2>4. CASE UNCHANGED vars
    <3>1. peer' = peer /\ rconn' = rconn /\ connData' = connData /\ loop' = loop /\ open' = open
      BY <2>4 DEF vars
    <3>2. peer' \in [Peer -> Ends] /\ loop' \in Loops
      BY <3>1 DEF CoreInv, Shapes
    <3> QED BY <1>0, <3>1, <3>2, QuietStep
  <2> QED BY <2>1, <2>2, <2>3, <2>4 DEF Next
<1> QED BY <1>1, <1>2, PTL DEF Spec

\* The pool of connections and the sockets of the loop agree, whatever allocations fail, and
\* httpdSentCb always finds the connection (core/httpd.c:469, where httpdContinue would otherwise
\* return with the lock taken).
THEOREM PoolCorrect == Spec => []PoolInv
<1>0. CoreAssumption
  BY CoreAssumption DEF CoreAssumption
<1>1. CoreInv => PoolInv
  <2> SUFFICES ASSUME CoreInv PROVE PoolInv
    OBVIOUS
  <2>1. /\ peer \in [Peer -> Ends] /\ rconn \in [Slots -> Sockets] /\ connData \in [Slots -> Connections]
        /\ loop \in Loops /\ open \subseteq Peer
    BY DEF CoreInv, Shapes
  <2>2. TypeOK
    <3>1. \A i \in Slots : Size(connData[i].backlog) \in 0 .. MaxBacklog
      <4> SUFFICES ASSUME NEW i \in Slots PROVE Size(connData[i].backlog) \in 0 .. MaxBacklog
        OBVIOUS
      <4>1. connData[i].backlog \in Seq(Seq(Part))
        BY <2>1 DEF Connections
      <4>2. Size(connData[i].backlog) \in Nat
        BY <4>1, SizeIs
      <4>3. Size(connData[i].backlog) <= MaxBacklog /\ MaxBacklog \in Nat
        BY <1>0 DEF CoreInv, Shapes, CoreAssumption
      <4> QED BY <4>2, <4>3
    <3>2. \A p \in Peer : /\ peer[p].state \in {"closed", "pending", "open", "left"}
                          /\ peer[p].asked \in {"none", "HTTP/1.1", "HTTP/1.0"}
      BY <2>1 DEF Ends
    <3>3. \A i \in Slots : /\ connData[i].peer \in Peer \cup {Nobody}
                           /\ connData[i].len \in {Header} \cup {request.chunks : request \in Requests}
                           /\ connData[i].parts \in Nat
      <4> SUFFICES ASSUME NEW i \in Slots
                   PROVE  /\ connData[i].peer \in Peer \cup {Nobody}
                          /\ connData[i].len \in {Header} \cup {request.chunks : request \in Requests}
                          /\ connData[i].parts \in Nat
        OBVIOUS
      <4>1. connData[i] \in Connections
        BY <2>1
      <4> QED BY <4>1 DEF Connections, Lens
    <3>4. /\ loop.at \in {"select", "accept", "write", "close", "sent", "read"}
          /\ loop.x \in Slots /\ loop.reads \subseteq Slots /\ loop.writes \subseteq Slots
      BY <2>1 DEF Loops
    <3> QED BY <2>1, <3>1, <3>2, <3>3, <3>4 DEF TypeOK, Sockets
  <2>3. SocketsMatchPool
    <3> DEFINE taken == Slots \ Free
               sockets == {rconn[x].peer : x \in taken}
               pool == {connData[i].peer : i \in Live}
    <3>1. IsFiniteSet(taken) /\ IsFiniteSet(Live)
      <4>1. IsFiniteSet(Slots)
        BY <1>0, FS_Interval DEF Slots, CoreAssumption
      <4> QED BY <4>1, FS_Subset DEF Live
    <3>2. Cardinality(pool) = Cardinality(Live)
      <4> DEFINE f == [i \in Live |-> connData[i].peer]
      <4>1. f \in Surjection(Live, pool)
        BY DEF Surjection
      <4>2. f \in Injection(Live, pool)
        <5>1. \A i, j \in Live : connData[i].peer = connData[j].peer => i = j
          BY DEF CoreInv, Tables, Live
        <5> QED BY <5>1 DEF Injection, IsInjective
      <4> HIDE DEF f, pool
      <4> QED BY <3>1, <4>1, <4>2, FS_Surjection
    <3>3. Cardinality(sockets) = Cardinality(taken)
      <4> DEFINE f == [x \in taken |-> rconn[x].peer]
      <4>1. f \in Surjection(taken, sockets)
        BY DEF Surjection
      <4>2. f \in Injection(taken, sockets)
        <5>1. \A x, y \in taken : rconn[x].peer = rconn[y].peer => x = y
          BY DEF CoreInv, Tables, Free
        <5> QED BY <5>1 DEF Injection, IsInjective
      <4> HIDE DEF f, sockets, taken
      <4> QED BY <3>1, <4>1, <4>2, FS_Surjection
    <3>4. pool \subseteq sockets
      <4> SUFFICES ASSUME NEW i \in Live PROVE connData[i].peer \in sockets
        OBVIOUS
      <4>1. PICK x \in Slots : rconn[x].peer = connData[i].peer
        BY DEF CoreInv, Tables, Live
      <4>2. x \in taken
        BY <4>1 DEF Live, Free
      <4> QED BY <4>1, <4>2
    <3>5. NoLoss => sockets \subseteq pool
      <4> SUFFICES ASSUME NoLoss, NEW x \in taken PROVE rconn[x].peer \in pool
        OBVIOUS
      <4>1. rconn[x].peer # Nobody
        BY DEF Free
      <4>2. PICK i \in Slots : connData[i].peer = rconn[x].peer
        BY <4>1 DEF CoreInv, Tables, InPool
      <4>3. i \in Live
        BY <4>1, <4>2 DEF Live
      <4> QED BY <4>2, <4>3
    <3> QED BY <3>2, <3>3, <3>4, <3>5 DEF SocketsMatchPool, NoLoss
  <2>4. SentFindsConnection
    BY DEF CoreInv, LoopInv, InPool, SentFindsConnection, Found
  <2> QED BY <2>2, <2>3, <2>4 DEF PoolInv
<1> QED BY <1>1, CoreInvariant, PTL

\* A CGI that asked to be called again is still attached to a connection whose socket is open:
\* no disconnect, no end of a response and no failed allocation leaves one behind.
THEOREM CgiCorrect == Spec => []NoCgiLeftBehind
<1>1. CoreInv => NoCgiLeftBehind
  BY DEF CoreInv
<1> QED BY <1>1, CoreInvariant, PTL
-----------------------------------------------------------------------------
(* The order of the parts.  Line(w) is what the CGI has sent of an answer: *)
(* what the client got, and after it what waits, in the send buffer or in  *)
(* the backlog, which never holds more than one packet.                    *)

Rising(line) == \A j, k \in DOMAIN line : j < k => line[j].n < line[k].n

\* The parts come in order, and nothing comes after the last one.
Ordered(line) == Rising(line) /\ \A j \in DOMAIN line : line[j].last => j = Len(line)

Waiting(w) == IF w.c.backlog = <<>> THEN w.buff ELSE w.c.backlog[1]
Line(w) == w.got \o Waiting(w)
Nothing(w) == w.got = <<>> /\ w.buff = <<>> /\ w.c.backlog = <<>>

\* A packet in the backlog is alone.
Alone(w) == w.c.backlog # <<>> => Len(w.c.backlog) = 1 /\ w.c.backlog[1] # <<>> /\ w.buff = <<>>

\* The parts sent so far are parts up to m of an answer that goes on.
UpTo(line, m) == \A j \in DOMAIN line : line[j].n <= m /\ ~line[j].last

\* The line without what waits.
LEMMA CutLine ==
    ASSUME NEW got \in Seq(Part), NEW rest \in Seq(Part)
    PROVE  /\ Ordered(got \o rest) => Ordered(got)
           /\ \A m : UpTo(got \o rest, m) => UpTo(got, m)
<1> DEFINE line == got \o rest
<1>1. /\ Len(got) \in Nat /\ Len(rest) \in Nat /\ Len(line) = Len(got) + Len(rest)
      /\ DOMAIN got = 1 .. Len(got) /\ DOMAIN line = 1 .. Len(line)
      /\ \A j \in 1 .. Len(got) : line[j] = got[j]
  BY ConcatProperties, LenProperties
<1> HIDE DEF line
<1>2. \A j \in DOMAIN got : j \in DOMAIN line /\ line[j] = got[j]
  BY <1>1
<1>3. \A m : UpTo(line, m) => UpTo(got, m)
  BY <1>2 DEF UpTo
<1>4. ASSUME Ordered(line) PROVE Ordered(got)
  <2>1. Rising(got)
    BY <1>2, <1>4 DEF Ordered, Rising
  <2>2. ASSUME NEW j \in DOMAIN got, got[j].last PROVE j = Len(got)
    <3>1. j = Len(line)
      BY <1>2, <1>4, <2>2 DEF Ordered
    <3>2. j \in 1 .. Len(got)
      BY <1>1
    <3> DEFINE n == Len(got)
               m == Len(rest)
    <3>3. n \in Nat /\ m \in Nat /\ j = n + m /\ j \in 1 .. n
      BY <1>1, <3>1, <3>2
    <3> HIDE DEF n, m
    <3>4. j = n
      BY <3>3
    <3> QED BY <3>4 DEF n
  <2> QED BY <2>1, <2>2 DEF Ordered
<1> QED BY <1>3, <1>4 DEF line

\* The next part at the end of the line.
LEMMA LongerLine ==
    ASSUME NEW line \in Seq(Part), NEW m \in Nat, UpTo(line, m), Ordered(line), NEW last \in BOOLEAN
    PROVE  LET longer == Append(line, [n |-> m + 1, last |-> last])
           IN  Ordered(longer) /\ (~last => UpTo(longer, m + 1))
<1> DEFINE n == m + 1
           part == [n |-> n, last |-> last]
           longer == Append(line, part)
           len == Len(line)
<1>1. n \in Nat /\ part \in Part /\ part.n = n /\ part.last = last
  BY DEF Part
<1> HIDE DEF part
<1>2. /\ len \in Nat /\ DOMAIN line = 1 .. len /\ longer \in Seq(Part) /\ Len(longer) = len + 1
      /\ DOMAIN longer = 1 .. len + 1 /\ longer[len + 1] = part
      /\ \A j \in 1 .. len : longer[j] = line[j]
  BY <1>1, AppendProperties, LenProperties
<1>3. \A j \in 1 .. len : line[j] \in Part /\ line[j].n \in Nat
  <2>1. \A j \in 1 .. len : line[j] \in Part
    BY ElementOfSeq
  <2> QED BY <2>1 DEF Part
<1> HIDE DEF longer, len
<1>4. \A j \in 1 .. len : longer[j].n <= m /\ ~longer[j].last /\ longer[j].n \in Nat
  BY <1>2, <1>3 DEF UpTo
<1>5. \A j \in DOMAIN longer : j \in 1 .. len \/ j = len + 1
  BY <1>2
<1>6. Rising(longer)
  <2> SUFFICES ASSUME NEW j \in DOMAIN longer, NEW k \in DOMAIN longer, j < k
               PROVE  longer[j].n < longer[k].n
    BY DEF Rising
  <2>1. j \in 1 .. len
    BY <1>2
  <2>2. CASE k = len + 1
    <3>1. longer[k].n = n /\ longer[j].n <= m /\ longer[j].n \in Nat
      BY <1>1, <1>2, <1>4, <2>1, <2>2
    <3> QED BY <3>1
  <2>3. CASE k \in 1 .. len
    BY <1>2, <2>1, <2>3 DEF Ordered, Rising
  <2> QED BY <1>5, <2>2, <2>3
<1>7. \A j \in DOMAIN longer : longer[j].last => j = Len(longer)
  BY <1>2, <1>4, <1>5
<1>8. ASSUME ~last PROVE UpTo(longer, n)
  <2> SUFFICES ASSUME NEW j \in DOMAIN longer PROVE longer[j].n <= n /\ ~longer[j].last
    BY DEF UpTo
  <2>1. CASE j = len + 1
    BY <1>1, <1>2, <1>8, <2>1
  <2>2. CASE j \in 1 .. len
    BY <1>4, <2>2
  <2> QED BY <1>5, <2>1, <2>2
<1> QED BY <1>6, <1>7, <1>8 DEF Ordered, longer, part

\* What a world of a connection holds, in the types the sums and sequences need.
Typed(w) ==
    /\ w.got \in Seq(Part) /\ w.buff \in Seq(Part) /\ w.c.backlog \in Seq(Seq(Part))
    /\ Line(w) \in Seq(Part) /\ Waiting(w) \in Seq(Part)
    /\ w.c.parts \in Nat /\ w.c.received \in Nat /\ (w.c.len # Header => w.c.len \in Nat)

LEMMA WorldTyped ==
    ASSUME CoreAssumption, NEW p, NEW w \in Worlds(p)
    PROVE  Typed(w)
<1>1. /\ w.got \in Seq(Part) /\ w.buff \in Seq(Part) /\ w.c \in Connections
  BY DEF Worlds
<1>2. /\ w.c.backlog \in Seq(Seq(Part)) /\ w.c.parts \in Nat /\ w.c.received \in Nat /\ w.c.len \in Lens
  BY <1>1 DEF Connections
<1>3. w.c.len # Header => w.c.len \in Nat
  BY <1>2 DEF Lens, CoreAssumption
<1>4. Waiting(w) \in Seq(Part)
  <2>1. CASE w.c.backlog = <<>>
    BY <1>1, <2>1 DEF Waiting
  <2>2. CASE w.c.backlog # <<>>
    <3>1. 1 \in 1 .. Len(w.c.backlog)
      BY <1>2, <2>2, EmptySeq, LenProperties
    <3>2. w.c.backlog[1] \in Seq(Part)
      BY <1>2, <3>1, ElementOfSeq
    <3> QED BY <2>2, <3>2 DEF Waiting
  <2> QED BY <2>1, <2>2
<1>5. Line(w) \in Seq(Part)
  BY <1>1, <1>4, ConcatProperties DEF Line
<1> QED BY <1>1, <1>2, <1>3, <1>4, <1>5 DEF Typed

\* Two connections in the same phase of the same request.
Same(c, d) ==
    /\ d.len = c.len /\ d.received = c.received /\ d.request = c.request /\ d.parts = c.parts
    /\ d.cgi = c.cgi /\ d.chunked = c.chunked /\ d.discon = c.discon

\* What waits is passed on: sent, kept for later or given up.
Passed(w, v) ==
    /\ Same(w.c, v.c) /\ Alone(v)
    /\ Line(v) = Line(w) \/ Line(v) = w.got
    /\ Nothing(w) => Nothing(v)

\* write() takes the data, or says that it cannot.
LEMMA SentOrNot ==
    ASSUME NEW p, NEW w \in Worlds(p), NEW data
    PROVE  /\ Written(w, data).got = w.got \o data
           /\ Written(w, data).c = w.c /\ Written(w, data).buff = w.buff
           /\ \A v \in Refused(w) : v.got = w.got /\ v.c = w.c /\ v.buff = w.buff
BY DEF Written, Refused, Worlds

\* httpdFlushSendBuffer(): the send buffer never overtakes the backlog.
LEMMA FlushPasses ==
    ASSUME CoreAssumption, NEW p, NEW w \in Worlds(p), Alone(w)
    PROVE  \A v \in httpdFlushSendBuffer(w) : Passed(w, v)
<1> SUFFICES ASSUME NEW v \in httpdFlushSendBuffer(w) PROVE Passed(w, v)
  OBVIOUS
<1>1. Typed(w) /\ w.got \in Seq(Part) /\ w.buff \in Seq(Part)
  BY WorldTyped DEF Typed
<1>2. CASE w.buff = <<>>
  <2>1. v = w
    BY <1>2 DEF httpdFlushSendBuffer
  <2> QED BY <2>1 DEF Passed, Same
<1>3. ASSUME w.buff # <<>> PROVE w.c.backlog = <<>> /\ Line(w) = w.got \o w.buff /\ ~Nothing(w)
  BY <1>3 DEF Alone, Line, Waiting, Nothing
<1>4. ASSUME w.buff # <<>>, v.got = w.got \o w.buff, v.c = w.c, v.buff = <<>> PROVE Passed(w, v)
  <2>1. Line(v) = v.got \o <<>>
    BY <1>3, <1>4 DEF Line, Waiting
  <2>2. w.got \o w.buff \in Seq(Part)
    BY <1>1, ConcatProperties
  <2>3. Line(v) = Line(w)
    BY <1>3, <1>4, <2>1, <2>2, ConcatEmptySeq
  <2> QED BY <1>3, <1>4, <2>3 DEF Passed, Same, Alone
<1>5. ASSUME w.buff # <<>>, v.got = w.got, v.c = w.c, v.buff = <<>> PROVE Passed(w, v)
  <2>1. Line(v) = w.got \o <<>>
    BY <1>3, <1>5 DEF Line, Waiting
  <2>2. Line(v) = w.got
    BY <1>1, <2>1, ConcatEmptySeq
  <2> QED BY <1>3, <1>5, <2>2 DEF Passed, Same, Alone
<1>6. ASSUME w.buff # <<>>, v.got = w.got, v.buff = <<>>, Same(w.c, v.c), v.c.backlog = Append(<<>>, w.buff)
      PROVE  Passed(w, v)
  <2>1. v.c.backlog # <<>> /\ Len(v.c.backlog) = 1 /\ v.c.backlog[1] = w.buff
    <3>1. <<>> \in Seq(Seq(Part)) /\ Len(<<>>) = 0
      BY EmptySeq
    <3>2. v.c.backlog # <<>> /\ Len(v.c.backlog) = 0 + 1 /\ v.c.backlog[0 + 1] = w.buff
      BY <1>1, <1>6, <3>1, AppendProperties
    <3> QED BY <3>2
  <2>2. Line(v) = Line(w)
    BY <1>3, <1>6, <2>1 DEF Line, Waiting
  <2> QED BY <1>3, <1>6, <2>1, <2>2 DEF Passed, Alone
<1>7. ASSUME w.buff # <<>>, v \in Refused(w) PROVE Passed(w, v)
  <2>1. v.got = w.got /\ v.c = w.c /\ v.buff = w.buff
    BY <1>7, SentOrNot
  <2> QED BY <1>3, <1>7, <2>1 DEF Passed, Same, Alone, Line, Waiting
<1>8. ASSUME w.buff # <<>>, v = [Written(w, w.buff) EXCEPT !.buff = <<>>] PROVE Passed(w, v)
  <2>1. Written(w, w.buff).got = w.got \o w.buff /\ Written(w, w.buff).c = w.c /\ Written(w, w.buff) \in Worlds(p)
    BY <1>1, SentOrNot, SendData
  <2>2. v.got = w.got \o w.buff /\ v.c = w.c /\ v.buff = <<>>
    BY <1>8, <2>1 DEF Worlds
  <2> QED BY <1>4, <1>8, <2>2
<1>9. ASSUME w.buff # <<>>, NEW u \in Refused(w),
             v = IF Size(w.c.backlog) + Len(w.buff) > MaxBacklog
                 THEN [u EXCEPT !.buff = <<>>]
                 ELSE [u EXCEPT !.buff = <<>>, !.c.backlog = Append(u.c.backlog, w.buff)]
      PROVE  Passed(w, v)
  <2>1. u.got = w.got /\ u.c = w.c /\ u \in Worlds(p)
    BY <1>1, SentOrNot, SendData
  <2>2. CASE v = [u EXCEPT !.buff = <<>>]
    <3>1. v.got = w.got /\ v.c = w.c /\ v.buff = <<>>
      BY <2>1, <2>2 DEF Worlds
    <3> QED BY <1>5, <1>9, <3>1
  <2>3. CASE v = [u EXCEPT !.buff = <<>>, !.c.backlog = Append(u.c.backlog, w.buff)]
    <3> DEFINE b == Append(u.c.backlog, w.buff)
               nil == <<>>
    <3>1. v = [u EXCEPT !.buff = nil, !.c.backlog = b]
      BY <2>3
    <3>2. b = Append(<<>>, w.buff)
      BY <1>3, <1>9, <2>1
    <3> HIDE DEF b, nil
    <3>3. v.got = u.got /\ v.buff = nil /\ v.c = [u.c EXCEPT !.backlog = b]
      BY <2>1, <3>1 DEF Worlds
    <3>4. Same(u.c, v.c) /\ v.c.backlog = b
      BY <2>1, <3>3 DEF Worlds, Connections, Same
    <3>5. v.buff = <<>>
      BY <3>3 DEF nil
    <3> QED BY <1>6, <1>9, <2>1, <3>2, <3>3, <3>4, <3>5
  <2> QED BY <1>9, <2>2, <2>3
<1>10. \/ w.buff = <<>>
       \/ v = [Written(w, w.buff) EXCEPT !.buff = <<>>]
       \/ v \in Refused(w)
       \/ /\ w.buff # <<>>
          /\ \E u \in Refused(w) : v = IF Size(w.c.backlog) + Len(w.buff) > MaxBacklog
                 THEN [u EXCEPT !.buff = <<>>]
                 ELSE [u EXCEPT !.buff = <<>>, !.c.backlog = Append(u.c.backlog, w.buff)]
  BY DEF httpdFlushSendBuffer
<1> QED BY <1>2, <1>7, <1>8, <1>9, <1>10

\* The backlog's packet, sent or given up.
LEMMA PopPasses ==
    ASSUME CoreAssumption, NEW p, NEW w \in Worlds(p), Alone(w), w.c.backlog # <<>>,
           NEW u \in Refused(w) \cup {Written(w, Head(w.c.backlog))}
    PROVE  Passed(w, [u EXCEPT !.c.backlog = Tail(u.c.backlog)])
<1> DEFINE b == Tail(u.c.backlog)
           packet == w.c.backlog[1]
           v == [u EXCEPT !.c.backlog = b]
<1>1. Typed(w) /\ w.got \in Seq(Part) /\ w.c.backlog \in Seq(Seq(Part))
  BY WorldTyped DEF Typed
<1>2. w.buff = <<>> /\ Len(w.c.backlog) = 1
  BY DEF Alone
<1>3. Head(w.c.backlog) = packet /\ Tail(w.c.backlog) = <<>> /\ packet \in Seq(Part)
  <2>1. /\ Head(w.c.backlog) = packet /\ Tail(w.c.backlog) \in Seq(Seq(Part))
        /\ Len(Tail(w.c.backlog)) = Len(w.c.backlog) - 1 /\ Head(w.c.backlog) \in Seq(Part)
    BY <1>1, HeadTailProperties
  <2>2. Len(Tail(w.c.backlog)) = 0
    BY <1>2, <2>1
  <2> QED BY <2>1, <2>2, EmptySeq
<1>4. Line(w) = w.got \o packet /\ ~Nothing(w)
  BY DEF Line, Waiting, Nothing
<1>5. u.c = w.c /\ u.buff = w.buff /\ u \in Worlds(p) /\ (u.got = w.got \/ u.got = w.got \o packet)
  <2>1. Head(w.c.backlog) \in Seq(Part)
    BY <1>3
  <2>2. u \in Worlds(p) /\ u.c = w.c /\ u.buff = w.buff
    BY <2>1, SendData
  <2>3. u \in Refused(w) => u.got = w.got
    BY SentOrNot
  <2>4. Written(w, Head(w.c.backlog)).got = w.got \o Head(w.c.backlog)
    BY SentOrNot
  <2> QED BY <1>3, <2>2, <2>3, <2>4
<1>6. b = <<>>
  BY <1>3, <1>5
<1>7. u.got \in Seq(Part)
  BY <1>5, WorldTyped DEF Typed
<1> HIDE DEF b
<1>8. v.got = u.got /\ v.buff = <<>> /\ v.c = [u.c EXCEPT !.backlog = b]
  BY <1>2, <1>5 DEF Worlds
<1>9. Same(w.c, v.c) /\ v.c.backlog = <<>>
  BY <1>5, <1>6, <1>8 DEF Worlds, Connections, Same
<1> HIDE DEF v
<1>10. Line(v) = u.got \o <<>> /\ Alone(v)
  BY <1>8, <1>9 DEF Line, Waiting, Alone
<1>11. Line(v) = u.got
  BY <1>7, <1>10, ConcatEmptySeq
<1>12. Passed(w, v)
  BY <1>4, <1>5, <1>9, <1>10, <1>11 DEF Passed
<1> QED BY <1>12 DEF v, b

\* The answer is not complete.
Answering(c) == c.len # Header /\ ~c.discon

\* The line in its order, and open at its end as long as the CGI has more to say.
Stream(w) ==
    /\ Alone(w) /\ Ordered(Line(w))
    /\ Answering(w.c) => UpTo(Line(w), w.c.parts)

\* A request that gets one answer.
Single(request) == request.url /\ ~request.http11 /\ ~request.found => request.chunks <= 1

Phase(c) ==
    /\ c.len = Header => c.parts = 0 /\ c.received = 0 /\ ~c.cgi /\ ~c.discon
    /\ c.len # Header => /\ c.len = c.request.chunks /\ c.chunked = c.request.http11
                         /\ Single(c.request)
    /\ c.cgi => c.request.url
    /\ c.discon => ~c.chunked /\ c.request.url /\ c.received >= c.len /\ ~c.cgi

\* The heads among what comes in after the first k pieces of s.
Heads(s, k) == {h \in k + 1 .. Len(s) : s[h].type = "head"}

\* At most one head is on its way, to a connection that waits for it with nothing of an
\* older answer left, and behind a head there is no more than its body.
HeadAhead(w, s, h) ==
    /\ w.c.len = Header /\ Nothing(w)
    /\ Len(s) - h <= s[h].request.chunks /\ Heads(s, h) = {}
    /\ Single(s[h].request)

Ahead(w, s, k) ==
    /\ w.c.len # Header /\ w.c.received < w.c.len => Nothing(w)
    /\ \A h \in Heads(s, k) : HeadAhead(w, s, h)
    /\ Heads(s, k) = {} /\ w.c.len # Header => w.c.received + (Len(s) - k) <= w.c.len

\* What the client has asked, and the connection it asked on.
Of(asked, w, s, k) ==
    /\ asked = "none" => w.c.len = Header /\ Nothing(w) /\ Len(s) = k
    /\ asked = "HTTP/1.1" => /\ \A h \in Heads(s, k) : s[h].request.http11
                             /\ w.c.len # Header => w.c.chunked \/ ~w.c.request.url

Good(w, s, k, asked) == Stream(w) /\ Phase(w.c) /\ Ahead(w, s, k) /\ Of(asked, w, s, k)

\* Passing on what waits disturbs none of this.
LEMMA PassedGood ==
    ASSUME CoreAssumption, NEW p, NEW w \in Worlds(p), NEW v \in Worlds(p), Passed(w, v),
           NEW s, NEW k, NEW asked, Good(w, s, k, asked)
    PROVE  Good(v, s, k, asked)
<1>1. Same(w.c, v.c) /\ Alone(v) /\ (Nothing(w) => Nothing(v)) /\ (Line(v) = Line(w) \/ Line(v) = w.got)
  BY DEF Passed
<1>2. w.got \in Seq(Part) /\ Waiting(w) \in Seq(Part) /\ Line(w) = w.got \o Waiting(w)
  BY WorldTyped DEF Typed, Line
<1>3. Ordered(Line(w)) => Ordered(Line(v))
  <2>1. Ordered(Line(w)) => Ordered(w.got)
    BY <1>2, CutLine
  <2> QED BY <1>1, <2>1
<1>4. UpTo(Line(w), w.c.parts) => UpTo(Line(v), w.c.parts)
  <2>1. \A m : UpTo(w.got \o Waiting(w), m) => UpTo(w.got, m)
    BY <1>2, CutLine
  <2>2. UpTo(Line(w), w.c.parts) => UpTo(w.got, w.c.parts)
    BY <1>2, <2>1
  <2> QED BY <1>1, <2>2
<1>5. Stream(v)
  BY <1>1, <1>3, <1>4 DEF Good, Stream, Same, Answering
<1>6. Phase(v.c)
  BY <1>1 DEF Good, Phase, Same
<1>7. Ahead(v, s, k)
  BY <1>1 DEF Good, Ahead, HeadAhead, Same
<1>8. Of(asked, v, s, k)
  BY <1>1 DEF Good, Of, Same
<1> QED BY <1>5, <1>6, <1>7, <1>8 DEF Good

\* An answer that its last part completes.
Complete(w, s, k, asked) ==
    /\ Alone(w) /\ Ordered(Line(w)) /\ Answering(w.c) /\ Phase(w.c)
    /\ Heads(s, k) = {} /\ w.c.received + (Len(s) - k) <= w.c.len
    /\ w.c.chunked \/ w.c.received >= w.c.len
    /\ w.c.request.url /\ Of(asked, w, s, k)

\* A connection in another phase of the same or of no request, with the same line.
LEMMA Rephased ==
    ASSUME NEW p, NEW w \in Worlds(p), NEW d \in Connections, d.peer = p, d.backlog = w.c.backlog, w.open => d.cgi
    PROVE  LET v == [w EXCEPT !.c = d]
           IN  /\ v \in Worlds(p) /\ v.c = d /\ Line(v) = Line(w) /\ (Alone(w) <=> Alone(v))
               /\ (Nothing(w) <=> Nothing(v)) /\ v.got = w.got /\ v.buff = w.buff /\ v.open = w.open
<1> DEFINE v == [w EXCEPT !.c = d]
<1>1. v \in Worlds(p) /\ v.c = d /\ v.got = w.got /\ v.buff = w.buff /\ v.open = w.open
  BY DEF Worlds
<1> HIDE DEF v
<1>2. Line(v) = Line(w) /\ (Alone(w) <=> Alone(v)) /\ (Nothing(w) <=> Nothing(v))
  BY <1>1 DEF Line, Waiting, Alone, Nothing
<1> QED BY <1>1, <1>2 DEF v

\* httpdCgiIsDone(): the connection waits for the next head, or for its end.
LEMMA DoneGood ==
    ASSUME CoreAssumption, NEW p, NEW w \in Worlds(p), ~w.open, NEW s, NEW k, NEW asked,
           Complete(w, s, k, asked)
    PROVE  \A v \in httpdCgiIsDone(w) : Good(v, s, k, asked)
<1> SUFFICES ASSUME NEW v \in httpdCgiIsDone(w) PROVE Good(v, s, k, asked)
  OBVIOUS
<1> DEFINE d == [w.c EXCEPT !.cgi = FALSE]
           ended == [w EXCEPT !.c = d]
<1>1. w.c \in Connections /\ w.c.peer = p /\ Alone(w) /\ Ordered(Line(w)) /\ Phase(w.c) /\ Answering(w.c)
  BY DEF Worlds, Complete
<1>2. d \in Connections /\ d.peer = p /\ d.backlog = w.c.backlog
  BY <1>1 DEF Connections
<1>3. /\ d.len = w.c.len /\ d.received = w.c.received /\ d.request = w.c.request /\ d.parts = w.c.parts
      /\ d.chunked = w.c.chunked /\ d.discon = w.c.discon /\ ~d.cgi
  BY <1>1 DEF Connections
<1>4. ended = [w EXCEPT !.c.cgi = FALSE]
  BY DEF Worlds
<1> HIDE DEF d
<1>5. /\ ended \in Worlds(p) /\ ended.c = d /\ Line(ended) = Line(w) /\ Alone(ended)
      /\ ended.got = w.got /\ ended.open = w.open
  BY <1>1, <1>2, Rephased
<1> HIDE DEF ended
<1>6. CASE w.c.chunked
  <2>1. PICK u \in httpdFlushSendBuffer(ended) :
           v = [u EXCEPT !.c.len = Header, !.c.received = 0, !.c.chunked = FALSE,
                         !.c.discon = FALSE, !.c.junk = FALSE, !.c.parts = 0]
    BY <1>4, <1>6 DEF httpdCgiIsDone
  <2>2. u \in Worlds(p) /\ u.open = w.open /\ Passed(ended, u)
    BY <1>5, FlushKeeps, FlushPasses
  <2> DEFINE n == 0
             no == FALSE
             e == [u.c EXCEPT !.len = Header, !.received = n, !.chunked = no, !.discon = no,
                              !.junk = no, !.parts = n]
  <2>3. /\ e \in Connections /\ e.peer = p /\ e.backlog = u.c.backlog /\ e.cgi = u.c.cgi
        /\ e.len = Header /\ e.received = n /\ e.discon = no /\ e.parts = n
    <3>1. u.c \in Connections /\ u.c.peer = p /\ Header \in Lens /\ n \in Nat /\ no \in BOOLEAN
      BY <2>2 DEF Worlds, Lens
    <3> HIDE DEF n, no, Header
    <3> QED BY <3>1 DEF Connections
  <2>4. v = [u EXCEPT !.c = e]
    BY <2>1, <2>2 DEF Worlds
  <2> HIDE DEF e
  <2>5. v \in Worlds(p) /\ v.c = e /\ Line(v) = Line(u) /\ (Alone(u) <=> Alone(v))
    BY <1>5, <2>2, <2>3, <2>4, Rephased
  <2>6. ~v.c.cgi
    BY <1>3, <1>5, <2>2, <2>3, <2>5 DEF Passed, Same
  <2>7. Ordered(Line(v)) /\ Alone(v)
    <3>1. Line(u) = Line(ended) \/ Line(u) = ended.got
      BY <2>2 DEF Passed
    <3>2. w.got \in Seq(Part) /\ Waiting(w) \in Seq(Part) /\ Line(w) = w.got \o Waiting(w)
      BY WorldTyped DEF Typed, Line
    <3>3. Ordered(w.got)
      BY <1>1, <3>2, CutLine
    <3> QED BY <1>1, <1>5, <2>2, <2>5, <3>1, <3>3 DEF Passed
  <2>8. v.c.len = Header /\ v.c.received = 0 /\ v.c.parts = 0 /\ ~v.c.discon
    BY <2>3, <2>5
  <2>9. Heads(s, k) = {} /\ asked # "none"
    BY <1>1 DEF Complete, Of, Answering
  <2> QED BY <2>6, <2>7, <2>8, <2>9 DEF Good, Stream, Answering, Phase, Ahead, Of
<1>7. CASE ~w.c.chunked
  <2> DEFINE e == [d EXCEPT !.discon = TRUE]
  <2>1. v = [ended EXCEPT !.c.discon = TRUE]
    BY <1>4, <1>7 DEF httpdCgiIsDone
  <2>2. v = [ended EXCEPT !.c = e]
    BY <1>5, <2>1 DEF Worlds
  <2>3. /\ e \in Connections /\ e.peer = p /\ e.backlog = w.c.backlog
        /\ e.len = w.c.len /\ e.received = w.c.received /\ e.request = w.c.request
        /\ e.chunked = w.c.chunked /\ e.discon /\ ~e.cgi
    BY <1>2, <1>3 DEF Connections
  <2> HIDE DEF e
  <2>4. v.c = e /\ Line(v) = Line(w) /\ Alone(v)
    BY <1>2, <1>5, <2>2, <2>3, Rephased
  <2>5. Stream(v)
    BY <1>1, <2>3, <2>4 DEF Stream, Answering
  <2>6. Phase(v.c)
    BY <1>7, <2>3, <2>4 DEF Phase, Complete, Answering
  <2>7. Ahead(v, s, k)
    <3>1. w.c.received \in Nat /\ w.c.len \in Nat /\ w.c.received >= w.c.len
      BY <1>7, WorldTyped DEF Typed, Complete, Answering
    <3> QED BY <2>3, <2>4, <3>1 DEF Ahead, Complete
  <2>8. Of(asked, v, s, k)
    BY <1>1, <2>3, <2>4 DEF Of, Complete, Answering
  <2> QED BY <2>5, <2>6, <2>7, <2>8 DEF Good
<1> QED BY <1>6, <1>7

\* A part of the answer, sent when the backlog is empty, is the next one of the line.
LEMMA PartExtends ==
    ASSUME CoreAssumption, NEW p, NEW w \in Worlds(p), NEW last \in BOOLEAN,
           Stream(w), Answering(w.c), w.c.backlog = <<>>
    PROVE  LET v == SendPart(w, last)
           IN  /\ v \in Worlds(p) /\ Alone(v) /\ Ordered(Line(v))
               /\ v.c.backlog = <<>> /\ v.open = w.open
               /\ v.c.len = w.c.len /\ v.c.received = w.c.received /\ v.c.request = w.c.request
               /\ v.c.cgi = w.c.cgi /\ v.c.chunked = w.c.chunked /\ v.c.discon = w.c.discon
               /\ ~last => UpTo(Line(v), v.c.parts)
<1> DEFINE n == w.c.parts + 1
           part == [n |-> n, last |-> last]
           buff == Append(w.buff, part)
           d == [w.c EXCEPT !.parts = n]
           v == SendPart(w, last)
<1>1. w.c \in Connections /\ w.c.parts \in Nat /\ w.buff \in Seq(Part) /\ w.got \in Seq(Part) /\ Line(w) \in Seq(Part)
  BY WorldTyped DEF Worlds, Typed
<1>2. n \in Nat /\ part \in Part
  BY <1>1 DEF Part
<1>3. v = [w EXCEPT !.c = d, !.buff = buff]
  BY DEF SendPart, Worlds
<1>4. v \in Worlds(p) /\ v.open = w.open
  BY SendPartKeeps
<1>5. Line(w) = w.got \o w.buff
  BY DEF Line, Waiting
<1>6. w.got \o buff = Append(w.got \o w.buff, part)
  <2> HIDE DEF part
  <2>1. buff = w.buff \o <<part>> /\ <<part>> \in Seq(Part)
    BY <1>1, <1>2, AppendIsConcat
  <2>2. Append(w.got \o w.buff, part) = (w.got \o w.buff) \o <<part>>
    BY <1>1, <1>2, <1>5, AppendIsConcat
  <2>3. (w.got \o w.buff) \o <<part>> = w.got \o (w.buff \o <<part>>)
    <3> DEFINE one == <<part>>
    <3>1. one \in Seq(Part)
      BY <2>1
    <3> HIDE DEF one
    <3>2. \A a, b, c \in Seq(Part) : (a \o b) \o c = a \o (b \o c)
      BY ConcatAssociative
    <3>3. (w.got \o w.buff) \o one = w.got \o (w.buff \o one)
      BY <1>1, <3>1, <3>2, Zenon
    <3> QED BY <3>3 DEF one
  <2> QED BY <2>1, <2>2, <2>3
<1> HIDE DEF n
<1>7. /\ d.backlog = <<>> /\ d.len = w.c.len /\ d.received = w.c.received /\ d.request = w.c.request
      /\ d.cgi = w.c.cgi /\ d.chunked = w.c.chunked /\ d.discon = w.c.discon /\ d.parts = n
  BY <1>1, <1>2 DEF Connections
<1> HIDE DEF d, buff, v
<1>8. v.c = d /\ v.buff = buff /\ v.got = w.got
  BY <1>3 DEF Worlds
<1>9. Line(v) = Append(Line(w), part) /\ Alone(v)
  BY <1>5, <1>6, <1>7, <1>8 DEF Line, Waiting, Alone
<1>10. Ordered(Line(v)) /\ (~last => UpTo(Line(v), n))
  BY <1>1, <1>9, LongerLine DEF Stream, n, part
<1> QED BY <1>4, <1>7, <1>8, <1>9, <1>10 DEF v

\* The last part of an answer.
LEMMA LastPart ==
    ASSUME CoreAssumption, NEW p, NEW w \in Worlds(p), NEW s, NEW k, NEW asked,
           Good(w, s, k, asked), Answering(w.c), w.c.backlog = <<>>,
           w.c.chunked \/ w.c.received >= w.c.len, w.c.request.url
    PROVE  \A v \in httpdCgiIsDone(Done(SendPart(w, TRUE))) : Good(v, s, k, asked)
<1> DEFINE u == SendPart(w, TRUE)
           v == Done(u)
<1>1. /\ u \in Worlds(p) /\ Alone(u) /\ Ordered(Line(u)) /\ u.c.backlog = <<>>
      /\ u.c.len = w.c.len /\ u.c.received = w.c.received /\ u.c.request = w.c.request
      /\ u.c.cgi = w.c.cgi /\ u.c.chunked = w.c.chunked /\ u.c.discon = w.c.discon
  BY PartExtends DEF Good
<1> HIDE DEF u
<1>2. v \in Worlds(p) /\ v.c = u.c /\ ~v.open /\ v.got = u.got /\ v.buff = u.buff
  BY <1>1 DEF Done, Worlds
<1> HIDE DEF v
<1>3. Alone(v) /\ Ordered(Line(v))
  BY <1>1, <1>2 DEF Alone, Line, Waiting
<1>4. Answering(v.c) /\ Phase(v.c)
  BY <1>1, <1>2 DEF Answering, Phase, Good
<1>5. Heads(s, k) = {} /\ v.c.received + (Len(s) - k) <= v.c.len
  BY <1>1, <1>2 DEF Good, Ahead, HeadAhead, Answering
<1>6. asked # "none"
  BY DEF Good, Of, Answering
<1>7. Of(asked, v, s, k)
  BY <1>1, <1>2, <1>6 DEF Good, Of
<1>8. Complete(v, s, k, asked)
  BY <1>1, <1>2, <1>3, <1>4, <1>5, <1>7 DEF Complete
<1>9. \A x \in httpdCgiIsDone(v) : Good(x, s, k, asked)
  BY <1>2, <1>8, DoneGood
<1> QED BY <1>9 DEF v, u

\* A part that is not the last.
LEMMA NextPart ==
    ASSUME CoreAssumption, NEW p, NEW w \in Worlds(p), NEW s, NEW k, NEW asked,
           Good(w, s, k, asked), Answering(w.c), w.c.backlog = <<>>, w.c.cgi,
           w.c.received >= w.c.len
    PROVE  Good(More(SendPart(w, FALSE)), s, k, asked) /\ More(SendPart(w, FALSE)) \in Worlds(p)
<1> DEFINE u == SendPart(w, FALSE)
           v == More(u)
<1>1. /\ u \in Worlds(p) /\ Alone(u) /\ Ordered(Line(u)) /\ u.c.backlog = <<>>
      /\ u.c.len = w.c.len /\ u.c.received = w.c.received /\ u.c.request = w.c.request
      /\ u.c.cgi = w.c.cgi /\ u.c.chunked = w.c.chunked /\ u.c.discon = w.c.discon
      /\ UpTo(Line(u), u.c.parts)
  BY PartExtends DEF Good
<1> HIDE DEF u
<1>2. v \in Worlds(p) /\ v.c = u.c /\ v.got = u.got /\ v.buff = u.buff
  BY <1>1 DEF More, Worlds
<1> HIDE DEF v
<1>3. Stream(v)
  BY <1>1, <1>2 DEF Stream, Alone, Line, Waiting
<1>4. Phase(v.c)
  BY <1>1, <1>2 DEF Answering, Phase, Good
<1>5. Ahead(v, s, k)
  <2>1. v.c.received \in Nat /\ v.c.len \in Nat /\ v.c.received >= v.c.len
    BY <1>1, <1>2, WorldTyped DEF Answering, Typed
  <2>2. ~(v.c.received < v.c.len)
    BY <2>1
  <2> QED BY <1>1, <1>2, <2>2 DEF Good, Ahead, HeadAhead, Answering
<1>6. Of(asked, v, s, k)
  BY <1>1, <1>2 DEF Good, Of, Answering
<1>7. Good(v, s, k, asked) /\ v \in Worlds(p)
  BY <1>2, <1>3, <1>4, <1>5, <1>6 DEF Good
<1> QED BY <1>7 DEF v, u

\* A change that leaves the connection and what it sends alone.
LEMMA MoreGood ==
    ASSUME NEW p, NEW w \in Worlds(p), w.c.cgi, NEW s, NEW k, NEW asked, Good(w, s, k, asked)
    PROVE  Good(More(w), s, k, asked) /\ More(w) \in Worlds(p)
<1> DEFINE v == More(w)
<1>1. v \in Worlds(p) /\ v.c = w.c /\ v.got = w.got /\ v.buff = w.buff
  BY DEF More, Worlds
<1> HIDE DEF v
<1>2. Stream(v) /\ Ahead(v, s, k) /\ Of(asked, v, s, k)
  BY <1>1 DEF Good, Stream, Alone, Line, Waiting, Ahead, HeadAhead, Of, Nothing
<1>3. Good(v, s, k, asked) /\ v \in Worlds(p)
  BY <1>1, <1>2 DEF Good
<1> QED BY <1>3 DEF v

\* A call of the CGI, with the backlog empty: every way it may answer.
LEMMA CallGood ==
    ASSUME CoreAssumption, NEW p, NEW w \in Worlds(p), NEW s, NEW k, NEW asked,
           Good(w, s, k, asked), Answering(w.c), w.c.backlog = <<>>, w.c.cgi, NEW call \in cgi(w)
    PROVE  /\ call.w \in Worlds(p)
           /\ call.r = "DONE" => ~call.w.open /\ \A v \in httpdCgiIsDone(call.w) : Good(v, s, k, asked)
           /\ call.r # "DONE" => Good(call.w, s, k, asked)
<1> DEFINE end == Done(SendPart(w, TRUE))
           part == More(SendPart(w, FALSE))
           later == More(w)
<1>1. call.w \in Worlds(p) /\ (call.r = "DONE" => ~call.w.open)
  BY CgiKeeps
<1>2. \/ call = [r |-> "MORE", w |-> later]
      \/ w.c.received >= w.c.len /\ call = [r |-> "DONE", w |-> end]
      \/ w.c.received >= w.c.len /\ call = [r |-> "MORE", w |-> part]
  <2>1. w.c.len = w.c.request.chunks
    BY DEF Good, Phase, Answering
  <2>2. w.c.received \in Nat /\ w.c.len \in Nat
    BY WorldTyped DEF Typed, Answering
  <2>3. CASE w.c.received < w.c.len
    BY <2>1, <2>3 DEF cgi
  <2>4. CASE w.c.received >= w.c.len
    BY <2>4 DEF cgi
  <2>5. w.c.received < w.c.len \/ w.c.received >= w.c.len
    BY <2>2
  <2> QED BY <2>3, <2>4, <2>5
<1>3. Good(later, s, k, asked)
  BY MoreGood
<1>4. w.c.received >= w.c.len => Good(part, s, k, asked)
  BY NextPart
<1>5. w.c.request.url
  BY DEF Good, Phase
<1>6. w.c.received >= w.c.len => \A v \in httpdCgiIsDone(end) : Good(v, s, k, asked)
  BY <1>5, LastPart
<1> HIDE DEF end, part, later
<1> QED BY <1>1, <1>2, <1>3, <1>4, <1>6

\* httpdProcessRequest(), when no part is sent yet that waits.
LEMMA ProcessGood ==
    ASSUME CoreAssumption, NEW p, NEW w \in Worlds(p), NEW s, NEW k, NEW asked,
           Good(w, s, k, asked), Answering(w.c), w.c.backlog = <<>>,
           ~w.c.request.url \/ w.c.request.found \/ w.c.chunked \/ w.c.received >= w.c.len
    PROVE  \A v \in httpdProcessRequest(w) : Good(v, s, k, asked)
<1> SUFFICES ASSUME NEW v \in httpdProcessRequest(w) PROVE Good(v, s, k, asked)
  OBVIOUS
<1> DEFINE yes == TRUE
           d == [w.c EXCEPT !.cgi = yes]
           started == [w EXCEPT !.c.cgi = TRUE]
           calls == IF w.c.request.found THEN cgi(started)
                    ELSE {[r |-> "DONE", w |-> Done(SendPart(started, TRUE))]}
<1>1. CASE ~w.c.request.url
  BY <1>1 DEF httpdProcessRequest
<1>2. CASE w.c.request.url
  <2>1. started = [w EXCEPT !.c = d]
    BY DEF Worlds
  <2>2. w.c \in Connections /\ w.c.peer = p
    BY DEF Worlds
  <2>3. /\ d \in Connections /\ d.peer = p /\ d.backlog = w.c.backlog /\ d.cgi
        /\ d.len = w.c.len /\ d.received = w.c.received /\ d.request = w.c.request
        /\ d.parts = w.c.parts /\ d.chunked = w.c.chunked /\ d.discon = w.c.discon
    BY <2>2 DEF Connections
  <2> HIDE DEF d, started
  <2>4. /\ started \in Worlds(p) /\ started.c = d /\ Line(started) = Line(w) /\ Alone(started)
        /\ (Nothing(w) <=> Nothing(started))
    BY <2>1, <2>3, Rephased DEF Good, Stream
  <2>5. Good(started, s, k, asked) /\ Answering(started.c) /\ started.c.backlog = <<>> /\ started.c.cgi
    <3>1. Stream(started) /\ Answering(started.c)
      BY <2>3, <2>4 DEF Good, Stream, Answering
    <3>2. Phase(started.c)
      BY <1>2, <2>3, <2>4 DEF Good, Phase, Answering
    <3>3. Ahead(started, s, k) /\ Of(asked, started, s, k)
      BY <2>3, <2>4 DEF Good, Ahead, HeadAhead, Of, Answering
    <3> QED BY <2>3, <2>4, <3>1, <3>2, <3>3 DEF Good
  <2>6. PICK call \in calls :
           v \in IF call.r = "DONE" THEN httpdCgiIsDone(call.w) ELSE httpdFlushSendBuffer(call.w)
    BY <1>2 DEF httpdProcessRequest, started
  <2>7. CASE w.c.request.found
    <3>1. call \in cgi(started)
      BY <2>6, <2>7
    <3> HIDE DEF calls
    <3>2. /\ call.w \in Worlds(p)
          /\ call.r = "DONE" => ~call.w.open /\ \A u \in httpdCgiIsDone(call.w) : Good(u, s, k, asked)
          /\ call.r # "DONE" => Good(call.w, s, k, asked)
      BY <2>4, <2>5, <3>1, CallGood
    <3>3. CASE call.r = "DONE"
      BY <2>6, <3>2, <3>3
    <3>4. CASE call.r # "DONE"
      <4>1. v \in httpdFlushSendBuffer(call.w) /\ Good(call.w, s, k, asked) /\ Alone(call.w)
        BY <2>6, <3>2, <3>4 DEF Good, Stream
      <4>2. v \in Worlds(p) /\ Passed(call.w, v)
        BY <3>2, <4>1, FlushKeeps, FlushPasses
      <4> QED BY <3>2, <4>1, <4>2, PassedGood
    <3> QED BY <3>3, <3>4
  <2>8. CASE ~w.c.request.found
    <3> DEFINE end == Done(SendPart(started, TRUE))
    <3>1. call = [r |-> "DONE", w |-> end]
      BY <2>6, <2>8
    <3> HIDE DEF end, calls
    <3>2. v \in httpdCgiIsDone(end)
      BY <2>6, <3>1
    <3>3. started.c.chunked \/ started.c.received >= started.c.len
      BY <1>2, <2>3, <2>4, <2>8
    <3>4. started.c.request.url
      BY <1>2, <2>3, <2>4
    <3>5. \A u \in httpdCgiIsDone(end) : Good(u, s, k, asked)
      BY <2>4, <2>5, <3>3, <3>4, LastPart DEF end
    <3> QED BY <3>2, <3>5
  <2> QED BY <2>7, <2>8
<1> QED BY <1>1, <1>2

\* httpdContinue(): nothing new is sent before the backlog is empty.
LEMMA ContinueGood ==
    ASSUME CoreAssumption, NEW p, NEW w \in Worlds(p), NEW s, NEW k, NEW asked, Good(w, s, k, asked)
    PROVE  \A v \in httpdContinue(w) : Good(v, s, k, asked)
<1> SUFFICES ASSUME NEW v \in httpdContinue(w) PROVE Good(v, s, k, asked)
  OBVIOUS
<1>1. v \in Worlds(p)
  BY ContinueKeeps
<1>2. CASE w.c.backlog # <<>>
  <2>1. PICK u \in Refused(w) \cup {Written(w, Head(w.c.backlog))} :
           v = [u EXCEPT !.c.backlog = Tail(u.c.backlog)]
    BY <1>2 DEF httpdContinue
  <2>2. Passed(w, [u EXCEPT !.c.backlog = Tail(u.c.backlog)])
    BY <1>2, PopPasses DEF Good, Stream
  <2>3. Passed(w, v)
    BY <2>1, <2>2, Zenon
  <2> QED BY <1>1, <2>3, PassedGood
<1>3. CASE w.c.backlog = <<>> /\ w.c.discon
  <2>1. v = [w EXCEPT !.r.needsClose = TRUE, !.r.notif = TRUE]
    BY <1>3 DEF httpdContinue
  <2>2. v.c = w.c /\ v.got = w.got /\ v.buff = w.buff
    BY <2>1 DEF Worlds
  <2> QED BY <2>2 DEF Good, Stream, Alone, Line, Waiting, Ahead, HeadAhead, Of, Nothing
<1>4. CASE w.c.backlog = <<>> /\ ~w.c.discon /\ w.c.cgi
  <2>1. CASE v = w
    BY <2>1
  <2>2. CASE v # w
    <3> DEFINE answer(call) == IF call.r = "DONE" THEN httpdCgiIsDone(call.w) ELSE {call.w}
               flushed(call) == UNION {httpdFlushSendBuffer(u) : u \in answer(call)}
    <3>1. v \in UNION {flushed(call) : call \in cgi(w)}
      BY <1>4, <2>2 DEF httpdContinue
    <3> HIDE DEF flushed
    <3>2. PICK call \in cgi(w) : v \in flushed(call)
      BY <3>1
    <3>3. PICK u \in answer(call) : v \in httpdFlushSendBuffer(u)
      BY <3>2 DEF flushed
    <3>4. Answering(w.c)
      BY <1>4 DEF Good, Phase, Answering
    <3>5. /\ call.w \in Worlds(p)
          /\ call.r = "DONE" => ~call.w.open /\ \A y \in httpdCgiIsDone(call.w) : Good(y, s, k, asked)
          /\ call.r # "DONE" => Good(call.w, s, k, asked)
      BY <1>4, <3>4, CallGood
    <3>6. u \in Worlds(p)
      <4>1. call.r = "DONE" => ~call.w.open
        BY <3>5
      <4> QED BY <3>3, <3>5, <4>1, AnswerKeeps
    <3>7. Good(u, s, k, asked)
      BY <3>3, <3>5
    <3>8. Passed(u, v)
      BY <3>3, <3>6, <3>7, FlushPasses DEF Good, Stream
    <3> QED BY <1>1, <3>6, <3>7, <3>8, PassedGood
  <2> QED BY <2>1, <2>2
<1>5. CASE w.c.backlog = <<>> /\ ~w.c.discon /\ ~w.c.cgi
  BY <1>5 DEF httpdContinue
<1> QED BY <1>2, <1>3, <1>4, <1>5

\* A line on which nothing is sent is in order.
LEMMA NothingSent ==
    ASSUME NEW w, Nothing(w)
    PROVE  Line(w) = <<>> /\ Alone(w) /\ Ordered(Line(w)) /\ \A m : UpTo(Line(w), m)
<1>1. Line(w) = <<>> /\ DOMAIN Line(w) = {}
  BY DEF Nothing, Line, Waiting
<1> QED BY <1>1 DEF Nothing, Alone, Ordered, Rising, UpTo

\* A piece that is not a head is behind.
LEMMA BodyBehind ==
    ASSUME NEW s \in Seq(Item), NEW k \in Nat, k < Len(s), s[k + 1].type # "head"
    PROVE  Heads(s, k + 1) = Heads(s, k)
<1>1. Len(s) \in Nat
  BY LenProperties
<1>2. \A h \in k + 1 .. Len(s) : h = k + 1 \/ h \in (k + 1) + 1 .. Len(s)
  BY <1>1
<1>3. (k + 1) + 1 .. Len(s) \subseteq k + 1 .. Len(s)
  BY <1>1
<1> QED BY <1>2, <1>3 DEF Heads

\* A piece that is not a head and changes nothing.
LEMMA BodySkipped ==
    ASSUME CoreAssumption, NEW p, NEW w \in Worlds(p), NEW s \in Seq(Item), NEW k \in Nat, k < Len(s),
           s[k + 1].type # "head", NEW asked, Good(w, s, k, asked)
    PROVE  Good(w, s, k + 1, asked)
<1>1. Heads(s, k + 1) = Heads(s, k)
  BY BodyBehind
<1>2. Ahead(w, s, k + 1)
  <2> DEFINE n == Len(s)
             received == w.c.received
             len == w.c.len
  <2>1. n \in Nat /\ received \in Nat /\ (len # Header => len \in Nat)
    BY WorldTyped, LenProperties DEF Typed
  <2>2. len # Header /\ received + (n - k) <= len => received + (n - (k + 1)) <= len
    <3> HIDE DEF n, received, len, Header
    <3> QED BY <2>1
  <2> QED BY <1>1, <2>2 DEF Good, Ahead
<1>3. Of(asked, w, s, k + 1)
  <2>1. Len(s) # k
    BY LenProperties
  <2> QED BY <1>1, <2>1 DEF Good, Of
<1> QED BY <1>2, <1>3 DEF Good

\* The head that was ahead, and the request read from it.
LEMMA HeadersGood ==
    ASSUME CoreAssumption, NEW p, NEW w \in Worlds(p), NEW s \in Seq(Item), NEW k \in Nat, k < Len(s),
           NEW asked, Good(w, s, k, asked), s[k + 1].type = "head",
           NEW request \in {s[k + 1].request, NoUrl(s[k + 1].request)}
    PROVE  \A v \in EndOfHeaders(w, request) : Good(v, s, k + 1, asked)
<1> DEFINE len == request.chunks
           http11 == request.http11
           d == [w.c EXCEPT !.len = len, !.request = request, !.chunked = http11]
           parsed == [w EXCEPT !.c.len = request.chunks, !.c.request = request, !.c.chunked = request.http11]
           asks == s[k + 1].request
<1>1. k + 1 \in 1 .. Len(s) /\ Len(s) \in Nat
  BY LenProperties
<1>2. asks \in Requests /\ asks \in RequestType /\ asks.chunks \in Lens /\ asks.chunks \in Nat
  <2>1. s[k + 1] \in Item
    BY <1>1, ElementOfSeq
  <2> QED BY <2>1 DEF Item, Lens, CoreAssumption, RequestType
<1>3. NoUrl(asks) \in RequestType /\ NoUrl(asks).chunks = asks.chunks /\ ~NoUrl(asks).url
  BY <1>2 DEF NoUrl, RequestType
<1>4. HeadAhead(w, s, k + 1)
  <2>1. k + 1 \in Heads(s, k)
    BY <1>1 DEF Heads
  <2> QED BY <2>1 DEF Good, Ahead
<1>5. /\ request \in RequestType /\ request.chunks \in Nat /\ request.chunks \in Lens
      /\ Single(request) /\ Len(s) - (k + 1) <= request.chunks
      /\ request.http11 = asks.http11 \/ ~request.url
  <2>1. Single(asks) /\ Len(s) - (k + 1) <= asks.chunks
    BY <1>4 DEF HeadAhead
  <2> HIDE DEF asks
  <2> QED BY <1>2, <1>3, <2>1 DEF Single, asks
<1>6. len \in Lens /\ http11 \in BOOLEAN /\ len \in Nat
  BY <1>5 DEF RequestType
<1>7. w.c \in Connections /\ w.c.peer = p
  BY DEF Worlds
<1>8. parsed = [w EXCEPT !.c = d]
  BY DEF Worlds
<1>9. /\ w.c.parts = 0 /\ w.c.received = 0 /\ ~w.c.cgi /\ ~w.c.discon /\ Nothing(w) /\ ~w.open
  BY <1>4 DEF HeadAhead, Good, Phase, Worlds
<1>10. /\ d \in Connections /\ d.peer = p /\ d.backlog = w.c.backlog /\ ~d.cgi /\ ~d.discon
       /\ d.received = 0 /\ d.parts = 0 /\ d.len = len /\ d.request = request /\ d.chunked = http11
  <2>1. /\ d \in Connections /\ d.peer = p /\ d.backlog = w.c.backlog /\ d.cgi = w.c.cgi
        /\ d.discon = w.c.discon /\ d.received = w.c.received /\ d.parts = w.c.parts
        /\ d.len = len /\ d.request = request /\ d.chunked = http11
    <3> HIDE DEF len, http11
    <3> QED BY <1>5, <1>6, <1>7 DEF Connections
  <2> HIDE DEF d
  <2> QED BY <1>9, <2>1
<1> HIDE DEF d, parsed
<1>11. parsed \in Worlds(p) /\ parsed.c = d /\ Nothing(parsed)
  BY <1>8, <1>9, <1>10, Rephased
<1>12. len # Header
  BY <1>6 DEF Header
<1> HIDE DEF Header
<1>13. Good(parsed, s, k + 1, asked) /\ Answering(parsed.c)
  <2>1. Stream(parsed)
    BY <1>11, NothingSent DEF Stream
  <2>2. Answering(parsed.c) /\ Phase(parsed.c)
    BY <1>5, <1>10, <1>11, <1>12 DEF Phase, Answering
  <2>3. Ahead(parsed, s, k + 1)
    <3>1. Heads(s, k + 1) = {}
      BY <1>4 DEF HeadAhead
    <3>2. 0 + (Len(s) - (k + 1)) <= len
      BY <1>1, <1>5
    <3> QED BY <1>10, <1>11, <3>1, <3>2 DEF Ahead
  <2>4. Of(asked, parsed, s, k + 1)
    <3>1. asked # "none"
      BY <1>1 DEF Good, Of
    <3>2. ASSUME asked = "HTTP/1.1" PROVE d.chunked \/ ~d.request.url
      <4>1. k + 1 \in Heads(s, k)
        BY <1>1 DEF Heads
      <4>2. asks.http11
        BY <3>2, <4>1 DEF Good, Of
      <4> QED BY <1>5, <1>10, <4>2
    <3>3. Heads(s, k + 1) = {}
      BY <1>4 DEF HeadAhead
    <3> QED BY <1>11, <3>1, <3>2, <3>3 DEF Of
  <2> QED BY <2>1, <2>2, <2>3, <2>4 DEF Good
<1>14. CASE request.chunks = 0
  <2>1. EndOfHeaders(w, request) = httpdProcessRequest(parsed)
    BY <1>14 DEF EndOfHeaders, parsed
  <2>2. parsed.c.backlog = <<>> /\ parsed.c.received >= parsed.c.len
    BY <1>10, <1>11, <1>14 DEF Nothing
  <2>3. \A v \in httpdProcessRequest(parsed) : Good(v, s, k + 1, asked)
    BY <1>11, <1>13, <2>2, ProcessGood
  <2> QED BY <2>1, <2>3
<1>15. CASE request.chunks # 0
  BY <1>13, <1>15 DEF EndOfHeaders, parsed
<1> QED BY <1>14, <1>15

\* A piece of the body of a request that is read.
LEMMA ChunkGood ==
    ASSUME CoreAssumption, NEW p, NEW w \in Worlds(p), NEW s \in Seq(Item), NEW k \in Nat, k < Len(s),
           NEW asked, Good(w, s, k, asked), s[k + 1].type # "head", w.c.len # Header
    PROVE  \A v \in PostChunk(w) : Good(v, s, k + 1, asked)
<1> SUFFICES ASSUME NEW v \in PostChunk(w) PROVE Good(v, s, k + 1, asked)
  OBVIOUS
<1> DEFINE n == w.c.received + 1
           d == [w.c EXCEPT !.received = n]
           next == [w EXCEPT !.c.received = w.c.received + 1]
           len == w.c.len
           received == w.c.received
           size == Len(s)
<1>1. /\ w.c \in Connections /\ w.c.peer = p /\ (w.open => w.c.cgi)
      /\ received \in Nat /\ len \in Nat /\ size \in Nat
  BY WorldTyped, LenProperties DEF Worlds, Typed
<1>2. Heads(s, k) = {} /\ Heads(s, k + 1) = {}
  <2>1. Heads(s, k) = {}
    BY DEF Good, Ahead, HeadAhead
  <2> QED BY <2>1, BodyBehind
<1>3. received + (size - k) <= len
  BY <1>2 DEF Good, Ahead
<1>4. received < len /\ n <= len /\ n + (size - (k + 1)) <= len
  <2> HIDE DEF len, received
  <2>1. n = received + 1 /\ size > k
    BY DEF received
  <2> HIDE DEF n, size
  <2> QED BY <1>1, <1>3, <2>1
<1>5. Nothing(w) /\ ~w.c.discon
  <2>1. Nothing(w)
    BY <1>4 DEF Good, Ahead
  <2>2. ~(received >= len)
    <3> HIDE DEF received, len
    <3> QED BY <1>1, <1>4
  <2> QED BY <2>1, <2>2 DEF Good, Phase
<1>6. next = [w EXCEPT !.c = d]
  BY DEF Worlds
<1>7. n \in Nat
  BY <1>1
<1> HIDE DEF next
<1>8. /\ d \in Connections /\ d.peer = p /\ d.backlog = w.c.backlog /\ d.cgi = w.c.cgi
      /\ d.len = w.c.len /\ d.received = n /\ d.request = w.c.request
      /\ d.parts = w.c.parts /\ d.chunked = w.c.chunked /\ d.discon = w.c.discon
  <2> HIDE DEF n
  <2> QED BY <1>1, <1>7 DEF Connections
<1> HIDE DEF d
<1>9. next \in Worlds(p) /\ next.c = d /\ Nothing(next)
  BY <1>1, <1>5, <1>6, <1>8, Rephased
<1> HIDE DEF n
<1>10. Good(next, s, k + 1, asked) /\ Answering(next.c) /\ next.c.backlog = <<>>
  <2>1. Stream(next)
    BY <1>9, NothingSent DEF Stream
  <2>2. Phase(next.c) /\ Answering(next.c)
    BY <1>5, <1>8, <1>9 DEF Phase, Good, Answering
  <2>3. Ahead(next, s, k + 1)
    BY <1>2, <1>4, <1>8, <1>9 DEF Ahead
  <2>4. Of(asked, next, s, k + 1)
    BY <1>2, <1>8, <1>9 DEF Of, Good
  <2> QED BY <1>9, <2>1, <2>2, <2>3, <2>4 DEF Good, Nothing
<1>11. CASE ~next.c.cgi
  <2>1. v \in httpdProcessRequest(next)
    BY <1>11 DEF PostChunk, next
  <2>2. ~next.c.request.url \/ next.c.request.found \/ next.c.chunked \/ next.c.received >= next.c.len
    <3>1. w.c.len = w.c.request.chunks /\ w.c.chunked = w.c.request.http11 /\ Single(w.c.request)
      BY DEF Good, Phase
    <3>2. ASSUME w.c.request.url, ~w.c.request.found, ~w.c.chunked PROVE n >= len
      <4>1. len <= 1
        BY <3>1, <3>2 DEF Single
      <4>2. n = received + 1
        BY DEF n
      <4> HIDE DEF len, received
      <4> QED BY <1>1, <1>7, <4>1, <4>2
    <3> QED BY <1>8, <1>9, <3>2
  <2> QED BY <1>9, <1>10, <2>1, <2>2, ProcessGood
<1>12. CASE next.c.cgi
  <2>1. PICK call \in cgi(next) : v \in IF call.r = "DONE" THEN httpdCgiIsDone(call.w) ELSE {call.w}
    BY <1>12 DEF PostChunk, next
  <2>2. /\ call.r = "DONE" => \A u \in httpdCgiIsDone(call.w) : Good(u, s, k + 1, asked)
        /\ call.r # "DONE" => Good(call.w, s, k + 1, asked)
    BY <1>9, <1>10, <1>12, CallGood
  <2> QED BY <2>1, <2>2
<1> QED BY <1>11, <1>12

\* A piece of what the client sent.
LEMMA FeedGood ==
    ASSUME CoreAssumption, NEW p, NEW w \in Worlds(p), NEW s \in Seq(Item), NEW k \in Nat, k < Len(s),
           NEW asked, Good(w, s, k, asked)
    PROVE  \A v \in Feed(w, s[k + 1]) : Good(v, s, k + 1, asked)
<1> DEFINE item == s[k + 1]
<1> SUFFICES ASSUME NEW v \in Feed(w, item) PROVE Good(v, s, k + 1, asked)
  OBVIOUS
<1>1. k + 1 \in 1 .. Len(s) /\ item \in Item
  <2>1. k + 1 \in 1 .. Len(s)
    BY LenProperties
  <2> QED BY <2>1, ElementOfSeq
<1>2. CASE item.type = "head"
  <2>1. w.c.len = Header
    <3>1. k + 1 \in Heads(s, k)
      BY <1>1, <1>2 DEF Heads
    <3> QED BY <3>1 DEF Good, Ahead, HeadAhead
  <2>2. v \in EndOfHeaders(w, item.request) \/ v \in EndOfHeaders(w, NoUrl(item.request))
    BY <1>2, <2>1 DEF Feed, HeadOf
  <2>3. \A request \in {item.request, NoUrl(item.request)} :
           \A u \in EndOfHeaders(w, request) : Good(u, s, k + 1, asked)
    BY <1>2, HeadersGood
  <2> QED BY <2>2, <2>3
<1>3. CASE item.type # "head"
  <2>1. Good(w, s, k + 1, asked)
    BY <1>3, BodySkipped
  <2>2. CASE w.c.len = Header
    <3> DEFINE yes == TRUE
               d == [w.c EXCEPT !.junk = yes]
    <3>1. item.type = "body"
      BY <1>1, <1>3 DEF Item
    <3>2. Feed(w, item) = {[w EXCEPT !.c.junk = TRUE]}
      BY <1>3, <2>2, <3>1 DEF Feed, Header
    <3>3. v = [w EXCEPT !.c = d] /\ yes \in BOOLEAN
      BY <3>2 DEF Worlds
    <3>4. w.c \in Connections /\ w.c.peer = p /\ (w.open => w.c.cgi)
      BY DEF Worlds
    <3> HIDE DEF yes
    <3>5. /\ d \in Connections /\ d.peer = p /\ d.backlog = w.c.backlog /\ Same(w.c, d)
      BY <3>3, <3>4 DEF Connections, Same
    <3> HIDE DEF d
    <3>6. w.open => d.cgi
      BY <3>4, <3>5 DEF Same
    <3>7. /\ v \in Worlds(p) /\ v.c = d /\ Line(v) = Line(w) /\ (Alone(w) <=> Alone(v))
          /\ (Nothing(w) <=> Nothing(v))
      BY <3>3, <3>5, <3>6, Rephased
    <3>8. Passed(w, v)
      BY <2>1, <3>5, <3>7 DEF Passed, Good, Stream
    <3> QED BY <2>1, <3>7, <3>8, PassedGood
  <2>3. CASE w.c.len # Header /\ w.c.len > 0 /\ item.type = "body"
    <3>1. v \in PostChunk(w)
      BY <2>3 DEF Feed
    <3> QED BY <1>3, <2>3, <3>1, ChunkGood
  <2>4. CASE w.c.len # Header /\ ~(w.c.len > 0 /\ item.type = "body")
    <3>1. v = w
      BY <1>3, <2>4 DEF Feed
    <3> QED BY <2>1, <3>1
  <2> QED BY <2>2, <2>3, <2>4
<1> QED BY <1>2, <1>3

\* Without memory for the send buffer what has come in is not read.
LEMMA PiecesLost ==
    ASSUME CoreAssumption, NEW p, NEW w \in Worlds(p), NEW s \in Seq(Item), NEW n \in Nat, n <= Len(s),
           NEW asked, Good(w, s, 0, asked)
    PROVE  Good(w, s, n, asked)
<1>1. Len(s) \in Nat
  BY LenProperties
<1>2. Heads(s, n) \subseteq Heads(s, 0)
  <2>1. n + 1 .. Len(s) \subseteq 0 + 1 .. Len(s)
    BY <1>1
  <2> QED BY <2>1 DEF Heads
<1>3. Ahead(w, s, n)
  <2> DEFINE size == Len(s)
             received == w.c.received
             len == w.c.len
  <2>1. size \in Nat /\ received \in Nat /\ (len # Header => len \in Nat)
    BY <1>1, WorldTyped DEF Typed
  <2>2. len # Header /\ received + (size - 0) <= len => received + (size - n) <= len
    <3> HIDE DEF size, received, len, Header
    <3> QED BY <2>1
  <2>3. len # Header => Heads(s, 0) = {}
    BY DEF Good, Ahead, HeadAhead
  <2>4. len # Header => received + (size - n) <= len
    BY <2>2, <2>3 DEF Good, Ahead
  <2> QED BY <1>2, <2>4 DEF Good, Ahead
<1>4. Of(asked, w, s, n)
  BY <1>1, <1>2 DEF Good, Of
<1> QED BY <1>3, <1>4 DEF Good

\* httpdRecvCb() of all that has come in, the rest still to come.
LEMMA RecvGood ==
    ASSUME CoreAssumption, NEW p, NEW w \in Worlds(p), NEW data \in Seq(Item), NEW s \in Seq(Item),
           Len(data) <= Len(s), \A m \in 1 .. Len(data) : s[m] = data[m],
           NEW asked, Good(w, s, 0, asked)
    PROVE  \A v \in httpdRecvCb(w, data) : Good(v, s, Len(data), asked)
<1> DEFINE n == Len(data)
<1>1. /\ n \in Nat /\ Len(s) \in Nat /\ \A m \in 1 .. n : data[m] \in Item
  BY LenProperties, ElementOfSeq
<1>2. PICK F : /\ Fed(F, w, data)
               /\ httpdRecvCb(w, data) = (UNION {httpdFlushSendBuffer(v) : v \in F[n]})
                                             \cup (IF "sendBuff" \in Failing THEN {w} ELSE {})
  BY RecvFeeds
<1>3. F[0] = {w} /\ \A m \in 1 .. n : F[m] = UNION {Feed(v, s[m]) : v \in F[m - 1]}
  BY <1>2 DEF Fed
<1>4. \A m \in 1 .. n : s[m] \in Item /\ m <= Len(s)
  BY <1>1
<1> HIDE DEF n
<1> DEFINE Bad == {m \in 0 .. n : ~ \A v \in F[m] : v \in Worlds(p) /\ Good(v, s, m, asked)}
<1>5. Bad = {}
  <2> SUFFICES ASSUME Bad # {} PROVE FALSE
    OBVIOUS
  <2>1. PICK m \in Bad : \A k \in Bad : m <= k
    <3>1. Bad \subseteq Nat
      OBVIOUS
    <3> HIDE DEF Bad
    <3> QED BY <3>1, Least
  <2>2. m # 0
    BY <1>1, <1>3
  <2> DEFINE k == m - 1
  <2>3. k \in 0 .. n /\ m \in 1 .. n /\ k \in Nat /\ k + 1 = m /\ k < Len(s) /\ ~(m <= k)
    BY <1>1, <1>4, <2>1, <2>2
  <2>4. F[m] = UNION {Feed(v, s[m]) : v \in F[k]}
    BY <1>3, <2>3
  <2> HIDE DEF k
  <2>5. \A v \in F[k] : v \in Worlds(p) /\ Good(v, s, k, asked)
    BY <2>1, <2>3
  <2>6. ASSUME NEW v \in F[k]
        PROVE  \A u \in Feed(v, s[m]) : u \in Worlds(p) /\ Good(u, s, m, asked)
    <3>1. \A u \in Feed(v, s[k + 1]) : Good(u, s, k + 1, asked)
      BY <2>3, <2>5, FeedGood
    <3>2. Feed(v, s[m]) \subseteq Worlds(p)
      BY <1>4, <2>3, <2>5, FeedKeeps
    <3> QED BY <2>3, <3>1, <3>2
  <2>7. \A u \in F[m] : u \in Worlds(p) /\ Good(u, s, m, asked)
    BY <2>4, <2>6
  <2> QED BY <2>1, <2>7
<1>6. \A v \in F[n] : v \in Worlds(p) /\ Good(v, s, n, asked)
  <2>1. n \in 0 .. n
    BY <1>1
  <2> QED BY <1>5, <2>1
<1> HIDE DEF Bad
<1>7. ASSUME NEW u \in F[n], NEW v \in httpdFlushSendBuffer(u) PROVE Good(v, s, n, asked)
  <2>1. u \in Worlds(p) /\ Good(u, s, n, asked) /\ Alone(u)
    BY <1>6 DEF Good, Stream
  <2>2. v \in Worlds(p) /\ Passed(u, v)
    BY <2>1, FlushKeeps, FlushPasses
  <2> QED BY <2>1, <2>2, PassedGood
<1>8. Good(w, s, n, asked)
  BY <1>1, PiecesLost DEF n
<1> QED BY <1>2, <1>7, <1>8 DEF n

\* What is still to come does not depend on what has been read.
LEMMA RestToCome ==
    ASSUME NEW w, NEW data \in Seq(Item), NEW rest \in Seq(Item), NEW asked,
           Good(w, data \o rest, Len(data), asked)
    PROVE  Good(w, rest, 0, asked)
<1> DEFINE s == data \o rest
           n == Len(data)
           m == Len(rest)
<1>1. /\ n \in Nat /\ m \in Nat /\ Len(s) = n + m
      /\ \A j \in 1 .. n + m : s[j] = IF j <= n THEN data[j] ELSE rest[j - n]
  BY LenProperties, ConcatProperties
<1> HIDE DEF s, n
<1>2. \A j \in 1 .. m : s[n + j] = rest[j] /\ n + j \in n + 1 .. n + m
  <2> HIDE DEF m
  <2> SUFFICES ASSUME NEW j \in 1 .. m PROVE s[n + j] = rest[j] /\ n + j \in n + 1 .. n + m
    OBVIOUS
  <2>1. n + j \in 1 .. n + m /\ ~(n + j <= n) /\ (n + j) - n = j /\ n + j \in n + 1 .. n + m
    BY <1>1
  <2> QED BY <1>1, <2>1
<1>3. \A h \in 0 .. m : Heads(s, n + h) = {} => Heads(rest, h) = {}
  <2> SUFFICES ASSUME NEW h \in 0 .. m, NEW j \in Heads(rest, h) PROVE Heads(s, n + h) # {}
    OBVIOUS
  <2>1. j \in h + 1 .. m /\ rest[j].type = "head"
    BY DEF Heads
  <2> HIDE DEF m
  <2>2. j \in 1 .. m /\ n + j \in (n + h) + 1 .. n + m
    BY <1>1, <2>1
  <2>3. s[n + j].type = "head"
    BY <1>2, <2>1, <2>2
  <2> QED BY <1>1, <2>2, <2>3 DEF Heads
<1>4. \A h \in Heads(rest, 0) : h \in 1 .. m /\ n + h \in Heads(s, n) /\ s[n + h] = rest[h]
  <2> SUFFICES ASSUME NEW h \in Heads(rest, 0)
               PROVE  h \in 1 .. m /\ n + h \in Heads(s, n) /\ s[n + h] = rest[h]
    OBVIOUS
  <2>1. h \in 1 .. m /\ rest[h].type = "head"
    BY DEF Heads
  <2> HIDE DEF m
  <2> QED BY <1>1, <1>2, <2>1 DEF Heads
<1>5. \A h \in 1 .. m : h \in 0 .. m /\ (n + m) - (n + h) = m - h
  <2> HIDE DEF m
  <2> QED BY <1>1
<1>6. Heads(rest, 0) = {} => Heads(s, n) = {}
  <2> SUFFICES ASSUME NEW j \in Heads(s, n) PROVE Heads(rest, 0) # {}
    OBVIOUS
  <2>1. j \in n + 1 .. n + m /\ s[j].type = "head"
    BY <1>1 DEF Heads
  <2>2. j - n \in 0 + 1 .. m
    <3> HIDE DEF m
    <3> QED BY <1>1, <2>1
  <2>3. s[j] = rest[j - n]
    <3> HIDE DEF m
    <3>1. j \in 1 .. n + m /\ ~(j <= n)
      BY <1>1, <2>1
    <3> QED BY <1>1, <3>1
  <2> QED BY <2>1, <2>2, <2>3 DEF Heads
<1>7. Stream(w) /\ Phase(w.c) /\ Ahead(w, s, n) /\ Of(asked, w, s, n)
  BY DEF Good, s, n
<1>8. Ahead(w, rest, 0)
  <2>1. ASSUME NEW h \in Heads(rest, 0) PROVE HeadAhead(w, rest, h)
    <3>1. HeadAhead(w, s, n + h)
      BY <1>4, <1>7 DEF Ahead
    <3>2. Len(s) - (n + h) = m - h /\ s[n + h] = rest[h] /\ Heads(rest, h) = {}
      BY <1>1, <1>3, <1>4, <1>5, <3>1 DEF HeadAhead
    <3> QED BY <3>1, <3>2 DEF HeadAhead
  <2>2. (n + m) - n = m - 0
    <3> HIDE DEF m
    <3> QED BY <1>1
  <2> QED BY <1>1, <1>6, <1>7, <2>1, <2>2 DEF Ahead
<1>9. Of(asked, w, rest, 0)
  <2>1. n + m = n => m = 0
    <3> HIDE DEF m
    <3> QED BY <1>1
  <2> QED BY <1>1, <1>4, <1>7, <2>1 DEF Of
<1> QED BY <1>7, <1>8, <1>9 DEF Good

\* A callback ends: what is left in its send buffer is lost.
LEMMA BufferLost ==
    ASSUME CoreAssumption, NEW p, NEW w \in Worlds(p), NEW s, NEW k, NEW asked, Good(w, s, k, asked),
           NEW v, v.c = w.c, v.got = w.got, v.buff = <<>>
    PROVE  Good(v, s, k, asked)
<1> DEFINE nil == <<>>
           u == [w EXCEPT !.buff = nil]
<1>1. nil \in Seq(Part)
  BY EmptySeq
<1> HIDE DEF nil
<1>2. u \in Worlds(p) /\ u.c = w.c /\ u.got = w.got /\ u.buff = nil
  BY <1>1 DEF Worlds
<1> HIDE DEF u
<1>3. Passed(w, u)
  <2>1. Alone(w)
    BY DEF Good, Stream
  <2>2. Alone(u) /\ (Nothing(w) => Nothing(u))
    BY <1>2, <2>1 DEF Alone, Nothing, nil
  <2>3. CASE w.c.backlog = <<>>
    <3>1. Line(u) = w.got \o <<>> /\ w.got \in Seq(Part)
      BY <1>2, <2>3, WorldTyped DEF Line, Waiting, nil, Typed
    <3>2. Line(u) = w.got
      BY <3>1, ConcatEmptySeq
    <3> QED BY <1>2, <2>2, <3>2 DEF Passed, Same
  <2>4. CASE w.c.backlog # <<>>
    <3>1. Line(u) = Line(w)
      BY <1>2, <2>4 DEF Line, Waiting
    <3> QED BY <1>2, <2>2, <3>1 DEF Passed, Same
  <2> QED BY <2>3, <2>4
<1>4. Good(u, s, k, asked)
  BY <1>2, <1>3, PassedGood
<1>5. v.c = u.c /\ v.got = u.got /\ v.buff = u.buff
  BY <1>2 DEF nil
<1> QED BY <1>4, <1>5 DEF Good, Stream, Alone, Line, Waiting, Ahead, HeadAhead, Of, Nothing
-----------------------------------------------------------------------------
(* The order of the parts at every remote end.                             *)

\* A connection and its remote end between two callbacks.
Seen(c, e) == [c |-> c, got |-> e.got, buff |-> <<>>]

\* What the connection c does for the remote end e, as long as that stays.
Serves(c, e) == e.state = "open" => Good(Seen(c, e), e.inbox \o e.unsent, 0, e.asked)

\* A remote end that is not connected has asked nothing.
Unconnected(e) ==
    e.state \in {"closed", "pending"} =>
        e.asked = "none" /\ e.unsent = <<>> /\ e.inbox = <<>> /\ e.got = <<>>

PartsInv ==
    /\ \A p \in Peer : Rising(peer[p].got) /\ Unconnected(peer[p])
    /\ \A i \in Slots : connData[i].peer # Nobody => Serves(connData[i], peer[connData[i].peer])

\* The requests of the model get one answer each.
OneAnswer == \A request \in Requests : Single(request)

\* A step of the remote end p, and of the connections that are its own after it.
LEMMA PeerStep ==
    ASSUME CoreInv, PartsInv, NEW p \in Peer, NEW e, peer' = [peer EXCEPT ![p] = e],
           Rising(e.got), Unconnected(e),
           \A i \in Slots : connData'[i].peer \in {p, Nobody} \/ connData'[i] = connData[i],
           \A i \in Slots : connData'[i].peer = p => Serves(connData'[i], e)
    PROVE  PartsInv'
<1>1. peer \in [Peer -> Ends] /\ connData \in [Slots -> Connections]
  BY DEF CoreInv, Shapes
<1>2. peer'[p] = e /\ \A q \in Peer : q # p => peer'[q] = peer[q]
  BY <1>1
<1>3. \A q \in Peer : Rising(peer'[q].got) /\ Unconnected(peer'[q])
  BY <1>2 DEF PartsInv
<1>4. ASSUME NEW i \in Slots, connData'[i].peer # Nobody
      PROVE  Serves(connData'[i], peer'[connData'[i].peer])
  <2>1. CASE connData'[i].peer = p
    BY <1>2, <2>1
  <2>2. CASE connData'[i].peer # p
    <3>1. connData'[i] = connData[i]
      BY <1>4, <2>2
    <3>2. connData[i].peer \in Peer
      BY <1>1, <1>4, <3>1 DEF Connections
    <3>3. Serves(connData[i], peer[connData[i].peer])
      BY <1>4, <3>1 DEF PartsInv
    <3> QED BY <1>2, <2>2, <3>1, <3>2, <3>3
  <2> QED BY <2>1, <2>2
<1> QED BY <1>3, <1>4 DEF PartsInv, Rising, Unconnected, Serves, Seen, Good, Stream, Phase, Ahead, Of,
                          Alone, Ordered, Line, Waiting, Answering, UpTo, Nothing, HeadAhead

\* A callback that leaves its connection in order.
LEMMA BecomeInOrder ==
    ASSUME CoreAssumption, CoreInv, PartsInv, NEW x \in Slots, rconn[x].peer # Nobody,
           NEW i \in Found(rconn[x].peer), NEW w \in Worlds(rconn[x].peer), NEW inbox,
           Become(x, i, w, inbox),
           peer[rconn[x].peer].state = "open" =>
              Good(w, inbox \o peer[rconn[x].peer].unsent, 0, peer[rconn[x].peer].asked)
    PROVE  PartsInv'
<1> DEFINE p == rconn[x].peer
           got == IF peer[p].state = "open" THEN w.got ELSE peer[p].got
           e == [peer[p] EXCEPT !.got = got, !.inbox = inbox]
<1>1. /\ peer \in [Peer -> Ends] /\ connData \in [Slots -> Connections] /\ rconn \in [Slots -> Sockets]
  BY DEF CoreInv, Shapes
<1>2. p \in Peer /\ peer[p] \in Ends /\ i \in Slots /\ connData[i].peer = p /\ w.c.peer = p
  BY <1>1 DEF Sockets, Found, Worlds
<1>3. peer' = [peer EXCEPT ![p] = e]
  BY <1>1, <1>2 DEF Become
<1>4. \A j \in Slots : connData'[j] = IF j = i THEN w.c ELSE connData[j]
  BY <1>1 DEF Become
<1>5. /\ e.state = peer[p].state /\ e.got = got /\ e.inbox = inbox /\ e.unsent = peer[p].unsent
      /\ e.asked = peer[p].asked
  <2> HIDE DEF got, p
  <2> QED BY <1>2 DEF Ends
<1>6. peer[p].state \in {"open", "left"}
  BY DEF CoreInv, Tables
<1>7. ASSUME peer[p].state = "open" PROVE Serves(w.c, e) /\ Rising(e.got)
  <2>1. Good(w, inbox \o peer[p].unsent, 0, peer[p].asked)
    BY <1>7
  <2>2. Seen(w.c, e).c = w.c /\ Seen(w.c, e).got = w.got /\ Seen(w.c, e).buff = <<>>
    BY <1>5, <1>7 DEF Seen
  <2>3. Good(Seen(w.c, e), inbox \o peer[p].unsent, 0, peer[p].asked)
    BY <2>1, <2>2, BufferLost
  <2>4. Rising(w.got)
    <3>1. Ordered(Line(w)) /\ Line(w) = w.got \o Waiting(w)
      BY <2>1 DEF Good, Stream, Line
    <3>2. w.got \in Seq(Part) /\ Waiting(w) \in Seq(Part)
      BY WorldTyped DEF Typed
    <3>3. Ordered(w.got)
      BY <3>1, <3>2, CutLine
    <3> QED BY <3>3 DEF Ordered
  <2> QED BY <1>5, <1>7, <2>3, <2>4 DEF Serves
<1>8. ASSUME peer[p].state # "open" PROVE Serves(w.c, e) /\ Rising(e.got)
  BY <1>2, <1>5, <1>8 DEF Serves, PartsInv
<1>9. Unconnected(e)
  BY <1>5, <1>6 DEF Unconnected
<1> HIDE DEF e
<1>10. \A j \in Slots : connData'[j].peer = p => Serves(connData'[j], e)
  <2> SUFFICES ASSUME NEW j \in Slots, connData'[j].peer = p PROVE Serves(connData'[j], e)
    OBVIOUS
  <2>1. j = i
    <3>1. connData[j].peer = p
      BY <1>2, <1>4
    <3>2. p # Nobody
      OBVIOUS
    <3> QED BY <1>2, <3>1, <3>2 DEF CoreInv, Tables
  <2> QED BY <1>4, <1>7, <1>8, <2>1
<1>11. \A j \in Slots : connData'[j].peer \in {p, Nobody} \/ connData'[j] = connData[j]
  BY <1>2, <1>4
<1>12. Rising(e.got)
  BY <1>7, <1>8
<1> HIDE DEF p
<1> QED BY <1>2, <1>3, <1>9, <1>10, <1>11, <1>12, PeerStep

\* The callbacks: data is sent, data is received, a task resumes a CGI.
LEMMA CallbackInOrder ==
    ASSUME CoreAssumption, CoreInv, PartsInv, Sent \/ Receive \/ \E x \in Slots : AsyncContinue(x)
    PROVE  PartsInv'
<1>1. loop \in Loops /\ loop.x \in Slots /\ peer \in [Peer -> Ends] /\ rconn \in [Slots -> Sockets]
  BY DEF CoreInv, Shapes, Loops
<1>2. ASSUME NEW x \in Slots, rconn[x].peer # Nobody, NEW i \in Found(rconn[x].peer)
      PROVE  /\ World(x, i) \in Worlds(rconn[x].peer)
             /\ peer[rconn[x].peer] \in Ends
             /\ peer[rconn[x].peer].state = "open" =>
                   Good(World(x, i), peer[rconn[x].peer].inbox \o peer[rconn[x].peer].unsent, 0,
                        peer[rconn[x].peer].asked)
  <2> DEFINE p == rconn[x].peer
             e == peer[p]
             c == connData[i]
  <2>1. World(x, i) \in Worlds(p)
    BY <1>2, WorldFound
  <2>2. e \in Ends
    BY <1>1, <1>2 DEF Sockets
  <2>3. i \in Slots /\ c.peer = p
    BY DEF Found
  <2>4. Serves(c, e)
    BY <1>2, <2>3 DEF PartsInv
  <2>5. World(x, i).c = c /\ World(x, i).got = e.got /\ World(x, i).buff = <<>>
    BY DEF World
  <2>6. Seen(c, e).c = c /\ Seen(c, e).got = e.got /\ Seen(c, e).buff = <<>>
    BY DEF Seen
  <2> HIDE DEF c, e
  <2>7. \A s, asked : Good(Seen(c, e), s, 0, asked) => Good(World(x, i), s, 0, asked)
    BY <2>5, <2>6 DEF Good, Stream, Alone, Line, Waiting, Ahead, HeadAhead, Of, Nothing
  <2> QED BY <2>1, <2>2, <2>4, <2>7 DEF Serves, e
<1>3. ASSUME NEW x \in Slots, rconn[x].peer # Nobody, NEW i \in Found(rconn[x].peer),
             NEW w \in httpdContinue(World(x, i)), Become(x, i, w, peer[rconn[x].peer].inbox)
      PROVE  PartsInv'
  <2> DEFINE p == rconn[x].peer
  <2>1. World(x, i) \in Worlds(p)
    BY <1>2, <1>3
  <2>2. w \in Worlds(p)
    BY <1>3, <2>1, ContinueKeeps
  <2>3. peer[p].state = "open" => Good(w, peer[p].inbox \o peer[p].unsent, 0, peer[p].asked)
    BY <1>2, <1>3, <2>1, ContinueGood
  <2> QED BY <1>3, <2>2, <2>3, BecomeInOrder
<1>4. ASSUME NEW x \in Slots, rconn[x].peer # Nobody, NEW i \in Found(rconn[x].peer),
             NEW w \in httpdRecvCb(World(x, i), peer[rconn[x].peer].inbox), Become(x, i, w, <<>>)
      PROVE  PartsInv'
  <2> DEFINE p == rconn[x].peer
             data == peer[p].inbox
             rest == peer[p].unsent
             s == data \o rest
  <2>1. World(x, i) \in Worlds(p) /\ data \in Seq(Item) /\ rest \in Seq(Item)
    BY <1>2, <1>4 DEF Ends
  <2>2. w \in Worlds(p)
    BY <1>4, <2>1, RecvKeeps
  <2>3. s \in Seq(Item) /\ Len(data) <= Len(s) /\ \A m \in 1 .. Len(data) : s[m] = data[m]
    <3> HIDE DEF data, rest
    <3>1. Len(data) \in Nat /\ Len(rest) \in Nat
      BY <2>1, LenProperties
    <3>2. /\ s \in Seq(Item) /\ Len(s) = Len(data) + Len(rest)
          /\ \A m \in 1 .. Len(data) + Len(rest) : s[m] = IF m <= Len(data) THEN data[m] ELSE rest[m - Len(data)]
      BY <2>1, ConcatProperties
    <3> QED BY <3>1, <3>2
  <2>4. ASSUME peer[p].state = "open" PROVE Good(w, <<>> \o rest, 0, peer[p].asked)
    <3>1. Good(World(x, i), s, 0, peer[p].asked)
      BY <1>2, <1>4, <2>4
    <3> HIDE DEF s
    <3>2. Good(w, s, Len(data), peer[p].asked)
      BY <1>4, <2>1, <2>3, <3>1, RecvGood
    <3>3. Good(w, rest, 0, peer[p].asked)
      BY <2>1, <3>2, RestToCome DEF s
    <3> QED BY <2>1, <3>3, ConcatEmptySeq
  <2> QED BY <1>4, <2>2, <2>4, BecomeInOrder
<1>5. CASE Sent
  <2>1. rconn[loop.x].peer # Nobody
    BY <1>5 DEF Sent, CoreInv, LoopInv, Socket
  <2>2. PICK i \in Found(rconn[loop.x].peer) : \E w \in httpdContinue(World(loop.x, i)) :
           Become(loop.x, i, w, peer[rconn[loop.x].peer].inbox)
    BY <1>5 DEF Sent, Socket
  <2> QED BY <1>1, <1>3, <2>1, <2>2
<1>6. CASE Receive
  <2>1. rconn[loop.x].peer # Nobody
    BY <1>6 DEF Receive, Reads, Socket
  <2>2. PICK i \in Found(rconn[loop.x].peer) : \E w \in httpdRecvCb(World(loop.x, i), peer[rconn[loop.x].peer].inbox) :
           Become(loop.x, i, w, <<>>)
    BY <1>6 DEF Receive, Socket
  <2> QED BY <1>1, <1>4, <2>1, <2>2
<1>7. CASE \E x \in Slots : AsyncContinue(x)
  <2>1. PICK x \in Slots : AsyncContinue(x)
    BY <1>7
  <2>2. rconn[x].peer # Nobody
    BY <2>1 DEF AsyncContinue
  <2>3. PICK i \in Found(rconn[x].peer) : \E w \in httpdContinue(World(x, i)) :
           Become(x, i, w, peer[rconn[x].peer].inbox)
    BY <2>1 DEF AsyncContinue
  <2> QED BY <1>3, <2>2, <2>3
<1> QED BY <1>5, <1>6, <1>7

\* A disconnect takes its connection along.
LEMMA DisconnectInOrder ==
    ASSUME CoreAssumption, CoreInv, PartsInv, CloseSocket \/ ReceiveNothing \/ NoReceiveBuffer
    PROVE  PartsInv'
<1> DEFINE p == rconn[loop.x].peer
<1>1. loop \in Loops /\ loop.x \in Slots /\ rconn \in [Slots -> Sockets] /\ connData \in [Slots -> Connections]
  BY DEF CoreInv, Shapes, Loops
<1>2. p # Nobody
  BY DEF CloseSocket, ReceiveNothing, NoReceiveBuffer, Reads, Socket, CoreInv, LoopInv
<1>3. p \in Peer
  BY <1>1, <1>2 DEF Sockets
<1>4. connData' = Retired(p) /\ peer' = [peer EXCEPT ![p] = Closed]
  BY DEF CloseSocket, ReceiveNothing, NoReceiveBuffer, Disconnect, Hangup, Socket
<1> HIDE DEF p
<1>5. Rising(Closed.got) /\ Unconnected(Closed)
  BY DEF Rising, Unconnected, Closed
<1>6. NULL.peer = Nobody
  BY DEF NULL
<1>7. \A i \in Slots : connData'[i] = IF connData[i].peer = p THEN NULL ELSE connData[i]
  BY <1>4 DEF Retired, Found
<1>8. \A i \in Slots : connData'[i].peer # p
  BY <1>2, <1>6, <1>7
<1>9. \A i \in Slots : connData'[i].peer \in {p, Nobody} \/ connData'[i] = connData[i]
  BY <1>6, <1>7
<1> QED BY <1>3, <1>4, <1>5, <1>8, <1>9, PeerStep

\* A connection that is new has nothing to say and nothing on its way.
LEMMA NewGood ==
    ASSUME NEW p, NEW e, e.asked = "none", e.unsent = <<>>, e.inbox = <<>>, e.got = <<>>
    PROVE  Serves(NewConn(p), e)
<1> DEFINE w == Seen(NewConn(p), e)
<1>1. w.c = NewConn(p) /\ w.got = <<>> /\ w.buff = <<>>
  BY DEF Seen
<1> HIDE DEF w
<1>2. /\ w.c.len = Header /\ w.c.parts = 0 /\ w.c.received = 0 /\ ~w.c.cgi /\ ~w.c.discon
      /\ w.c.backlog = <<>>
  BY <1>1 DEF NewConn, NULL
<1>3. Nothing(w)
  BY <1>1, <1>2 DEF Nothing
<1>4. Stream(w) /\ Phase(w.c)
  BY <1>2, <1>3, NothingSent DEF Stream, Phase, Answering
<1>5. e.inbox \o e.unsent = <<>> /\ Len(<<>>) = 0
  OBVIOUS
<1>6. Heads(<<>>, 0) = {}
  BY DEF Heads
<1>7. Ahead(w, <<>>, 0) /\ Of(e.asked, w, <<>>, 0)
  BY <1>2, <1>3, <1>5, <1>6 DEF Ahead, Of
<1> QED BY <1>4, <1>5, <1>7 DEF Serves, Good, w

\* A connection is accepted.
LEMMA AcceptInOrder ==
    ASSUME CoreAssumption, CoreInv, PartsInv, Accept
    PROVE  PartsInv'
<1>1. PICK p \in Pending : peer' = [peer EXCEPT ![p].state = "open"] /\ httpdConnectCb(p)
  BY DEF Accept
<1> DEFINE e == [peer[p] EXCEPT !.state = "open"]
           i0 == First(Unused)
<1>2. peer \in [Peer -> Ends] /\ connData \in [Slots -> Connections] /\ rconn \in [Slots -> Sockets]
  BY DEF CoreInv, Shapes
<1>3. p \in Peer /\ p # Nobody /\ peer[p].state = "pending" /\ peer[p] \in Ends
  BY <1>2 DEF Pending, CoreAssumption
<1>4. /\ peer' = [peer EXCEPT ![p] = e] /\ e.state = "open"
      /\ e.asked = "none" /\ e.unsent = <<>> /\ e.inbox = <<>> /\ e.got = <<>>
  <2>1. Unconnected(peer[p])
    BY <1>3 DEF PartsInv
  <2>2. peer[p].asked = "none" /\ peer[p].unsent = <<>> /\ peer[p].inbox = <<>> /\ peer[p].got = <<>>
    BY <1>3, <2>1 DEF Unconnected
  <2> QED BY <1>1, <1>2, <1>3, <2>2 DEF Ends
<1> HIDE DEF e
<1>5. \A i \in Slots : connData[i].peer # p
  <2> SUFFICES ASSUME NEW i \in Slots, connData[i].peer = p PROVE FALSE
    OBVIOUS
  <2>1. PICK x \in Slots : rconn[x].peer = p
    BY <1>3 DEF CoreInv, Tables
  <2>2. peer[p].state \in {"open", "left"}
    BY <1>3, <2>1 DEF CoreInv, Tables
  <2> QED BY <1>3, <2>2
<1>6. \A i \in Slots : \/ connData'[i] = connData[i]
                       \/ connData'[i] = NewConn(p)
                       \/ connData'[i] = [NULL EXCEPT !.leaked = TRUE]
  BY <1>1, <1>2 DEF httpdConnectCb
<1>7. [NULL EXCEPT !.leaked = TRUE].peer = Nobody /\ NewConn(p).peer = p
  BY DEF NULL, NewConn
<1>8. \A i \in Slots : connData'[i].peer \in {p, Nobody} \/ connData'[i] = connData[i]
  BY <1>6, <1>7
<1>9. \A i \in Slots : connData'[i].peer = p => connData'[i] = NewConn(p)
  BY <1>3, <1>5, <1>6, <1>7
<1>10. Serves(NewConn(p), e)
  BY <1>4, NewGood
<1>11. Rising(e.got) /\ Unconnected(e)
  BY <1>4 DEF Rising, Unconnected
<1>12. \A i \in Slots : connData'[i].peer = p => Serves(connData'[i], e)
  BY <1>9, <1>10
<1> QED BY <1>3, <1>4, <1>8, <1>11, <1>12, PeerStep

\* The next request of a client that has its answer: nothing of the answer is left, and the
\* connection waits for a head.
LEMMA AskGood ==
    ASSUME CoreAssumption, NEW w, w.got \in Seq(Part), w.buff = <<>>, w.c.backlog \in Seq(Seq(Part)),
           NEW s \in Seq(Item), NEW asked \in {"none", "HTTP/1.1"}, Good(w, s, 0, asked),
           asked = "none" \/ (w.got # <<>> /\ w.got[Len(w.got)].last),
           NEW request \in Requests, Single(request),
           NEW v, v.c = w.c, v.got = <<>>, v.buff = <<>>
    PROVE  Good(v, s \o Items(request), 0, IF request.http11 THEN "HTTP/1.1" ELSE "HTTP/1.0")
<1>1. w.c.len = Header /\ w.c.backlog = <<>> /\ Heads(s, 0) = {}
  <2>1. CASE asked = "none"
    <3>1. w.c.len = Header /\ Nothing(w) /\ Len(s) = 0
      BY <2>1 DEF Good, Of
    <3>2. Heads(s, 0) = {}
      BY <3>1 DEF Heads
    <3> QED BY <3>1, <3>2 DEF Nothing
  <2>2. CASE asked = "HTTP/1.1" /\ w.got # <<>> /\ w.got[Len(w.got)].last
    <3> DEFINE n == Len(w.got)
               rest == Waiting(w)
    <3>1. rest \in Seq(Part)
      <4>1. CASE w.c.backlog = <<>>
        BY <4>1, EmptySeq DEF Waiting
      <4>2. CASE w.c.backlog # <<>>
        <5>1. Len(w.c.backlog) = 1
          BY <4>2 DEF Good, Stream, Alone
        <5>2. w.c.backlog[1] \in Seq(Part)
          BY <5>1, ElementOfSeq
        <5> QED BY <4>2, <5>2 DEF Waiting
      <4> QED BY <4>1, <4>2
    <3>2. /\ n \in Nat /\ n # 0 /\ Len(rest) \in Nat /\ Line(w) = w.got \o rest
          /\ Len(Line(w)) = n + Len(rest) /\ DOMAIN Line(w) = 1 .. n + Len(rest)
          /\ \A j \in 1 .. n + Len(rest) : j <= n => Line(w)[j] = w.got[j]
      <4>1. n \in Nat /\ n # 0 /\ Len(rest) \in Nat
        BY <2>2, <3>1, LenProperties, EmptySeq
      <4>2. Line(w) = w.got \o rest
        BY DEF Line
      <4> HIDE DEF rest
      <4>3. Line(w) \in Seq(Part) /\ Len(Line(w)) = n + Len(rest)
        BY <3>1, <4>2, ConcatProperties
      <4>4. \A j \in 1 .. n + Len(rest) : j <= n => Line(w)[j] = w.got[j]
        BY <3>1, <4>2, ConcatProperties
      <4>5. DOMAIN Line(w) = 1 .. n + Len(rest)
        BY <4>3, LenProperties
      <4> QED BY <4>1, <4>2, <4>3, <4>4, <4>5
    <3>3. n \in DOMAIN Line(w) /\ Line(w)[n].last
      <4> HIDE DEF n, rest
      <4>1. n \in 1 .. n + Len(rest) /\ n <= n
        BY <3>2
      <4>2. w.got[n].last
        BY <2>2 DEF n
      <4> QED BY <3>2, <4>1, <4>2
    <3>4. n = Len(Line(w)) /\ ~Answering(w.c)
      BY <3>3 DEF Good, Stream, Ordered, UpTo
    <3>5. Len(rest) = 0
      <4> HIDE DEF n, rest
      <4> QED BY <3>2, <3>4
    <3>6. rest = <<>>
      BY <3>1, <3>5, EmptySeq
    <3>7. w.c.backlog = <<>>
      BY <3>6 DEF Waiting, Good, Stream, Alone
    <3>8. w.c.len = Header
      BY <2>2, <3>4 DEF Answering, Good, Phase, Of
    <3>9. Heads(s, 0) = {}
      BY <2>2 DEF Good, Ahead, HeadAhead, Nothing
    <3> QED BY <3>7, <3>8, <3>9
  <2> QED BY <2>1, <2>2
<1> DEFINE t == s \o Items(request)
           n == Len(s)
           m == request.chunks
           now == IF request.http11 THEN "HTTP/1.1" ELSE "HTTP/1.0"
<1>2. /\ n \in Nat /\ m \in Nat /\ Len(t) = n + 1 + m
      /\ \A j \in 1 .. n : t[j] = s[j]
      /\ t[n + 1].type = "head" /\ t[n + 1].request = request
      /\ \A j \in n + 2 .. n + 1 + m : t[j].type # "head"
  <2> DEFINE head == [type |-> "head", request |-> request]
             body == [type |-> "body", request |-> request]
             bodies == [j \in 1 .. m |-> body]
             items == Items(request)
  <2>1. n \in Nat /\ m \in Nat
    BY LenProperties DEF CoreAssumption
  <2>2. head \in Item /\ body \in Item /\ head.type = "head" /\ head.request = request /\ body.type # "head"
    BY DEF Item
  <2>3. items = <<head>> \o bodies
    BY DEF Items
  <2> HIDE DEF head, body, items, m
  <2>4. <<head>> \in Seq(Item) /\ Len(<<head>>) = 1 /\ <<head>>[1] = head
    BY <2>2
  <2>5. bodies \in Seq(Item) /\ Len(bodies) = m /\ \A j \in 1 .. m : bodies[j] = body
    BY <2>1, <2>2, SeqDef, LenProperties
  <2> HIDE DEF bodies
  <2>6. /\ items \in Seq(Item) /\ Len(items) = 1 + m
        /\ \A j \in 1 .. 1 + m : items[j] = IF j <= 1 THEN <<head>>[j] ELSE bodies[j - 1]
    BY <2>3, <2>4, <2>5, ConcatProperties
  <2>7. items[1] = head /\ \A j \in 2 .. 1 + m : items[j] = body
    <3>1. 1 \in 1 .. 1 + m
      BY <2>1
    <3>2. \A j \in 2 .. 1 + m : j \in 1 .. 1 + m /\ ~(j <= 1) /\ j - 1 \in 1 .. m
      BY <2>1
    <3> QED BY <2>4, <2>5, <2>6, <3>1, <3>2
  <2>8. /\ Len(t) = n + Len(items)
        /\ \A j \in 1 .. n + Len(items) : t[j] = IF j <= n THEN s[j] ELSE items[j - n]
    <3>1. t = s \o items
      BY DEF items
    <3> HIDE DEF t
    <3> QED BY ONLY s \in Seq(Item), <2>6, <3>1, ConcatProperties DEF n
  <2> HIDE DEF t, n
  <2>9. Len(t) = n + 1 + m /\ \A j \in 1 .. n + 1 + m : t[j] = IF j <= n THEN s[j] ELSE items[j - n]
    BY <2>1, <2>6, <2>8
  <2>10. \A j \in 1 .. n : t[j] = s[j]
    <3>1. \A j \in 1 .. n : j \in 1 .. n + 1 + m /\ j <= n
      BY <2>1
    <3> QED BY <2>9, <3>1
  <2>11. t[n + 1] = head
    <3>1. n + 1 \in 1 .. n + 1 + m /\ ~(n + 1 <= n) /\ (n + 1) - n = 1
      BY <2>1
    <3> QED BY <2>7, <2>9, <3>1
  <2>12. \A j \in n + 2 .. n + 1 + m : t[j] = body
    <3>1. \A j \in n + 2 .. n + 1 + m : j \in 1 .. n + 1 + m /\ ~(j <= n) /\ j - n \in 2 .. 1 + m
      BY <2>1
    <3> QED BY <2>7, <2>9, <3>1
  <2> QED BY <2>1, <2>2, <2>9, <2>10, <2>11, <2>12
<1> HIDE DEF t, m
<1>3. Heads(t, 0) = {n + 1} /\ Heads(t, n + 1) = {}
  <2>1. \A j \in 1 .. n : s[j].type # "head"
    BY <1>1 DEF Heads
  <2> HIDE DEF n
  <2>2. \A j \in 0 + 1 .. n + 1 + m : j \in 1 .. n \/ j = n + 1 \/ j \in n + 2 .. n + 1 + m
    BY <1>2
  <2>3. n + 1 \in 0 + 1 .. n + 1 + m
    BY <1>2
  <2>4. (n + 1) + 1 .. n + 1 + m = n + 2 .. n + 1 + m
    BY <1>2
  <2> QED BY <1>2, <2>1, <2>2, <2>3, <2>4 DEF Heads
<1>4. Nothing(v) /\ v.c.len = Header
  BY <1>1 DEF Nothing
<1>5. Stream(v)
  BY <1>4, NothingSent DEF Stream, Answering
<1>6. Ahead(v, t, 0)
  <2>1. Len(t) - (n + 1) <= m
    <3> HIDE DEF n
    <3> QED BY <1>2
  <2>2. HeadAhead(v, t, n + 1)
    BY <1>2, <1>3, <1>4, <2>1 DEF HeadAhead, m
  <2> QED BY <1>3, <1>4, <2>2 DEF Ahead
<1>7. Of(now, v, t, 0)
  BY <1>2, <1>3, <1>4 DEF Of
<1> QED BY <1>5, <1>6, <1>7 DEF Good, t

\* What the clients do: connect, ask, send and leave.
LEMMA ClientInOrder ==
    ASSUME CoreAssumption, OneAnswer, CoreInv, PartsInv, NEW p \in Peer,
           Connect(p) \/ Ask(p) \/ Deliver(p) \/ Leave(p)
    PROVE  PartsInv'
<1>1. peer \in [Peer -> Ends] /\ peer[p] \in Ends /\ connData \in [Slots -> Connections]
  BY DEF CoreInv, Shapes
<1>2. p # Nobody /\ Rising(peer[p].got) /\ Unconnected(peer[p])
  BY DEF PartsInv, CoreAssumption
<1>3. \A i \in Slots : connData[i].peer = p => Serves(connData[i], peer[p]) /\ connData[i] \in Connections
  BY <1>1, <1>2 DEF PartsInv
<1>4. ASSUME NEW e, peer' = [peer EXCEPT ![p] = e], connData' = connData, Rising(e.got), Unconnected(e),
             \A c \in Connections : Serves(c, peer[p]) => Serves(c, e)
      PROVE  PartsInv'
  BY <1>3, <1>4, PeerStep
<1>5. CASE Connect(p)
  <2> DEFINE e == [peer[p] EXCEPT !.state = "pending"]
  <2>1. peer' = [peer EXCEPT ![p] = e] /\ peer[p].state = "closed" /\ connData' = connData
    BY <1>5 DEF Connect
  <2>2. /\ e.state = "pending" /\ e.asked = peer[p].asked /\ e.unsent = peer[p].unsent
        /\ e.inbox = peer[p].inbox /\ e.got = peer[p].got
    BY <1>1 DEF Ends
  <2> HIDE DEF e
  <2>3. Unconnected(e) /\ Rising(e.got)
    BY <1>2, <2>1, <2>2 DEF Unconnected
  <2>4. \A c : Serves(c, e)
    BY <2>2 DEF Serves
  <2> QED BY <1>4, <2>1, <2>3, <2>4
<1>6. CASE Ask(p)
  <2>1. PICK request \in Requests :
           peer' = [peer EXCEPT ![p].asked = IF request.http11 THEN "HTTP/1.1" ELSE "HTTP/1.0",
                                ![p].unsent = Items(request), ![p].got = <<>>]
    BY <1>6 DEF Ask
  <2> DEFINE asked == IF request.http11 THEN "HTTP/1.1" ELSE "HTTP/1.0"
             unsent == Items(request)
             none == <<>>
             e == [peer[p] EXCEPT !.asked = asked, !.unsent = unsent, !.got = none]
  <2>2. peer' = [peer EXCEPT ![p] = e]
    BY <1>1, <2>1
  <2>3. /\ peer[p].state = "open" /\ peer[p].unsent = <<>> /\ connData' = connData
        /\ peer[p].asked \in {"none", "HTTP/1.1"}
        /\ peer[p].asked = "none" \/ (peer[p].got # <<>> /\ peer[p].got[Len(peer[p].got)].last)
    BY <1>6 DEF Ask, HasAnswer
  <2> HIDE DEF asked, unsent, none
  <2>4. /\ e.state = "open" /\ e.asked = asked /\ e.unsent = unsent
        /\ e.inbox = peer[p].inbox /\ e.got = none
    BY <1>1, <2>3 DEF Ends
  <2> HIDE DEF e
  <2>5. Unconnected(e) /\ Rising(e.got)
    BY <2>4 DEF Unconnected, Rising, none
  <2>6. ASSUME NEW c \in Connections, Serves(c, peer[p]) PROVE Serves(c, e)
    <3> DEFINE w == Seen(c, peer[p])
               v == Seen(c, e)
               s == peer[p].inbox
    <3>1. /\ w.c = c /\ w.got = peer[p].got /\ w.buff = <<>>
          /\ v.c = c /\ v.got = none /\ v.buff = <<>>
      BY <2>4 DEF Seen
    <3>2. s \in Seq(Item) /\ peer[p].got \in Seq(Part) /\ c.backlog \in Seq(Seq(Part))
      BY <1>1 DEF Ends, Connections
    <3>3. s \o peer[p].unsent = s
      BY <2>3, <3>2, ConcatEmptySeq
    <3>4. Good(w, s, 0, peer[p].asked)
      BY <2>3, <2>6, <3>3 DEF Serves
    <3>5. Single(request)
      BY DEF OneAnswer
    <3> HIDE DEF w, v
    <3>6. Good(v, s \o Items(request), 0, asked)
      BY <2>3, <3>1, <3>2, <3>4, <3>5, AskGood DEF none, asked
    <3> QED BY <2>4, <3>6 DEF Serves, v, unsent
  <2> QED BY <1>4, <2>2, <2>3, <2>5, <2>6
<1>7. CASE Deliver(p)
  <2>1. PICK n \in 1 .. Len(peer[p].unsent) :
           peer' = [peer EXCEPT ![p].inbox = @ \o SubSeq(peer[p].unsent, 1, n),
                                ![p].unsent = SubSeq(@, n + 1, Len(@))]
    BY <1>7 DEF Deliver
  <2> DEFINE s == peer[p].unsent
             now == SubSeq(s, 1, n)
             unsent == SubSeq(s, n + 1, Len(s))
             inbox == peer[p].inbox \o now
             e == [peer[p] EXCEPT !.inbox = inbox, !.unsent = unsent]
  <2>2. peer[p].state = "open" /\ connData' = connData
    BY <1>7 DEF Deliver
  <2>3. peer' = [peer EXCEPT ![p] = e]
    BY <1>1, <2>1
  <2>4. inbox \o unsent = peer[p].inbox \o s
    <3>1. s \in Seq(Item) /\ peer[p].inbox \in Seq(Item)
      BY <1>1 DEF Ends
    <3> HIDE DEF s
    <3>2. Len(s) \in Nat
      BY <3>1, LenProperties
    <3>3. now \o unsent = s
      <4>1. n \in 1 .. Len(s)
        BY DEF s
      <4>2. 1 \in 1 .. Len(s) + 1 /\ n \in 1 .. Len(s) /\ 1 <= n + 1 /\ n + 1 <= Len(s) + 1
        BY <3>2, <4>1
      <4>3. SubSeq(s, 1, n) \o SubSeq(s, n + 1, Len(s)) = SubSeq(s, 1, Len(s))
        BY <3>1, <3>2, <4>1, <4>2, ConcatAdjacentSubSeq
      <4>4. SubSeq(s, 1, Len(s)) = s
        BY <3>1, SubSeqFull
      <4> QED BY <4>3, <4>4
    <3>4. now \in Seq(Item) /\ unsent \in Seq(Item)
      <4>1. n \in 1 .. Len(s)
        BY DEF s
      <4>2. \A k \in 1 .. n : s[k] \in Item
        BY <3>1, <3>2, <4>1, ElementOfSeq
      <4>3. \A k \in n + 1 .. Len(s) : s[k] \in Item
        BY <3>1, <3>2, <4>1, ElementOfSeq
      <4>4. n \in Int /\ n + 1 \in Int /\ Len(s) \in Int
        BY <3>2, <4>1
      <4>5. SubSeq(s, 1, n) \in Seq(Item)
        BY <3>1, <4>2, <4>4, SubSeqProperties
      <4>6. SubSeq(s, n + 1, Len(s)) \in Seq(Item)
        BY <3>1, <4>3, <4>4, SubSeqProperties
      <4> QED BY <4>5, <4>6
    <3>5. \A a, b, c \in Seq(Item) : (a \o b) \o c = a \o (b \o c)
      BY ConcatAssociative
    <3> HIDE DEF now, unsent
    <3>6. (peer[p].inbox \o now) \o unsent = peer[p].inbox \o (now \o unsent)
      BY <3>1, <3>4, <3>5, Zenon
    <3> QED BY <3>3, <3>6
  <2> HIDE DEF inbox, unsent
  <2>5. /\ e.state = "open" /\ e.asked = peer[p].asked /\ e.unsent = unsent
        /\ e.inbox = inbox /\ e.got = peer[p].got
    BY <1>1, <2>2 DEF Ends
  <2> HIDE DEF e
  <2>6. Unconnected(e) /\ Rising(e.got)
    BY <1>2, <2>5 DEF Unconnected
  <2>7. ASSUME NEW c \in Connections, Serves(c, peer[p]) PROVE Serves(c, e)
    <3>1. Seen(c, e) = Seen(c, peer[p])
      BY <2>5 DEF Seen
    <3>2. Good(Seen(c, peer[p]), peer[p].inbox \o s, 0, peer[p].asked)
      BY <2>2, <2>7 DEF Serves
    <3> QED BY <2>4, <2>5, <3>1, <3>2 DEF Serves
  <2> QED BY <1>4, <2>2, <2>3, <2>6, <2>7
<1>8. CASE Leave(p)
  <2> DEFINE none == <<>>
             e == [peer[p] EXCEPT !.state = "left", !.unsent = none]
  <2>1. peer' = [peer EXCEPT ![p] = e] /\ connData' = connData
    BY <1>1, <1>8 DEF Leave
  <2> HIDE DEF none
  <2>2. e.state = "left" /\ e.got = peer[p].got
    BY <1>1 DEF Ends
  <2> HIDE DEF e
  <2>3. Unconnected(e) /\ Rising(e.got)
    BY <1>2, <2>2 DEF Unconnected
  <2>4. \A c : Serves(c, e)
    BY <2>2 DEF Serves
  <2> QED BY <1>4, <2>1, <2>3, <2>4
<1> QED BY <1>5, <1>6, <1>7, <1>8

\* The steps of the loop that call no callback, and data for a connection that is not in the pool.
LEMMA LoopInOrder ==
    ASSUME CoreAssumption, CoreInv, PartsInv,
           \/ SelectReturns \/ AcceptFails \/ SkipEmpty \/ CheckWritable \/ NotReadable \/ ReadClosed
           \/ ReceiveUnknown \/ UNCHANGED vars
    PROVE  PartsInv'
<1>1. CASE UNCHANGED <<peer, connData>>
  <2>1. \A p \in Peer : Rising(peer'[p].got) /\ Unconnected(peer'[p])
    BY <1>1 DEF PartsInv
  <2>2. \A i \in Slots : connData'[i].peer # Nobody => Serves(connData'[i], peer'[connData'[i].peer])
    BY <1>1 DEF PartsInv
  <2> QED BY <2>1, <2>2 DEF PartsInv, Rising, Unconnected, Serves, Seen, Good, Stream, Phase, Ahead, Of,
                            Alone, Ordered, Line, Waiting, Answering, UpTo, Nothing, HeadAhead
<1>2. CASE ReceiveUnknown
  <2> DEFINE p == Socket.peer
             none == <<>>
             e == [peer[p] EXCEPT !.inbox = none]
  <2>1. peer \in [Peer -> Ends] /\ p \in Peer /\ peer[p] \in Ends
    BY <1>2 DEF ReceiveUnknown, Reads, Socket, CoreInv, Shapes, Loops, Sockets
  <2>2. peer' = [peer EXCEPT ![p] = e] /\ connData' = connData /\ \A i \in Slots : connData[i].peer # p
    BY <1>2, <2>1 DEF ReceiveUnknown, Found
  <2>3. peer[p].state \in {"open", "left"}
    BY <1>2 DEF ReceiveUnknown, Reads, Socket, CoreInv, Tables, Shapes, Loops
  <2> HIDE DEF none, p
  <2>4. e.state = peer[p].state /\ e.got = peer[p].got
    BY <2>1 DEF Ends
  <2> HIDE DEF e
  <2>5. Rising(e.got) /\ Unconnected(e)
    BY <2>1, <2>3, <2>4 DEF PartsInv, Unconnected
  <2> QED BY <2>1, <2>2, <2>5, PeerStep
<1> QED BY <1>1, <1>2 DEF SelectReturns, AcceptFails, SkipEmpty, CheckWritable, NotReadable, ReadClosed, vars

\* The parts of a response arrive in the order the CGI sent them in, whatever write() refuses and
\* the backlog holds, when every request gets one answer.
THEOREM OrderCorrect ==
    ASSUME OneAnswer
    PROVE  Spec => []InOrder
<1>1. Init => PartsInv
  <2> SUFFICES ASSUME Init PROVE PartsInv
    OBVIOUS
  <2>1. Rising(Closed.got) /\ Unconnected(Closed)
    BY DEF Rising, Unconnected, Closed
  <2>2. NULL.peer = Nobody
    BY DEF NULL
  <2> QED BY <2>1, <2>2 DEF Init, PartsInv
<1>2. CoreInv /\ PartsInv /\ [Next]_vars => PartsInv'
  <2> SUFFICES ASSUME CoreInv, PartsInv, [Next]_vars PROVE PartsInv'
    OBVIOUS
  <2>1. CASE \E p \in Peer : Connect(p) \/ Ask(p) \/ Deliver(p) \/ Leave(p)
    BY <2>1, CoreAssumption, ClientInOrder
  <2>2. CASE Accept
    BY <2>2, CoreAssumption, AcceptInOrder
  <2>3. CASE Sent \/ Receive \/ \E x \in Slots : AsyncContinue(x)
    BY <2>3, CoreAssumption, CallbackInOrder
  <2>4. CASE CloseSocket \/ ReceiveNothing \/ NoReceiveBuffer
    BY <2>4, CoreAssumption, DisconnectInOrder
  <2>5. CASE \/ SelectReturns \/ AcceptFails \/ SkipEmpty \/ CheckWritable \/ NotReadable \/ ReadClosed
             \/ ReceiveUnknown \/ UNCHANGED vars
    BY <2>5, CoreAssumption, LoopInOrder
  <2> QED BY <2>1, <2>2, <2>3, <2>4, <2>5 DEF Next, Server
<1>3. PartsInv => InOrder
  BY DEF PartsInv, Rising, InOrder
<1> QED BY <1>1, <1>2, <1>3, CoreInvariant, PTL DEF Spec
=============================================================================

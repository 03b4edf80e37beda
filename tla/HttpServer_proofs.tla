-------------------------- MODULE HttpServer_proofs --------------------------
(***************************************************************************)
(* Proofs about HttpServer, for any set of clients and of requests, in     *)
(* whatever pieces these arrive and wherever they are cut.                 *)
(*                                                                         *)
(* The parser is fed one symbol at a time.  Parsed says what its state is  *)
(* after the first n symbols of a request, in terms of the definitions     *)
(* that read the whole request at once (LineEnds, HeadersEnd, Body): it is *)
(* kept by every symbol, and with the last one it says that the two        *)
(* readings agree.                                                         *)
(***************************************************************************)
EXTENDS HttpServer, SequenceTheorems, WellFoundedInduction, TLAPS

Methods == {"UNDEFINED_METHOD"} \cup {RequestLine[t].method : t \in DOMAIN RequestLine}
Urls == {"NULL", "none"} \cup {RequestLine[t].method : t \in DOMAIN RequestLine}
                         \cup {RequestLine[t].url : t \in DOMAIN RequestLine}
Replies == [code : {0, 200, 400, 404}, url : Urls]
ClientRecord == [state : ClientStates, request : Requests \cup {<<>>}, arrived : Nat,
                 gone : BOOLEAN, reply : Replies]
Https == [status : Statuses, method : Methods, url : Urls, hasBody : BOOLEAN, bodyLen : Nat,
          body : Seq(Symbols), line : Seq(Symbols)]

\* Who is where: a connection waits once, and is served while no longer waiting.
QueueInv ==
    /\ client \in [Client -> ClientRecord]
    /\ \A c \in Client : IF client[c].state = "idle" THEN client[c] = Idle
                         ELSE client[c].request \in Requests
    /\ \A c \in Client : client[c].arrived <= Len(client[c].request)
    /\ backlog \in Seq(Client) /\ Len(backlog) <= Backlog
    /\ \A i, j \in DOMAIN backlog : backlog[i] = backlog[j] => i = j
    /\ \A i \in DOMAIN backlog : client[backlog[i]].state = "connected"
    /\ server \in {"accept", "reading", "dispatch", "close"}
    /\ cur \in Client /\ fed \in Nat /\ fed <= client[cur].arrived
    /\ server # "accept" => /\ client[cur].state = "connected"
                            /\ \A i \in DOMAIN backlog : backlog[i] # cur
    /\ quiet \in 0 .. MaxQuiet
    /\ threshold \in Nat /\ selectFailed \in BOOLEAN

\* What holds of the HTTP object and of the static whatever is fed.
Sound(h, prev) ==
    /\ h \in Https
    /\ h.status = "FIRST_LINE" => h.bodyLen = 0 /\ ~h.hasBody
    /\ h.status \in {"FIRST_LINE", "HTTP_HEADERS"} => h.body = <<>> /\ (h.bodyLen > 0 => h.hasBody)
    /\ h.status = "HTTP_BODY" => h.hasBody /\ Len(h.body) < h.bodyLen
    /\ h.status \notin {"FIRST_LINE", "HTTP_HEADERS"} => prev # CR

\* The first line of r as it is read, and what becomes of one that does not begin with its text.
Started(r, n, h) ==
    /\ h.status = "FIRST_LINE" => h.line = SubSeq(r, 1, n)
    /\ r[1] \in {CR, LF} /\ h.status \notin {"FIRST_LINE", "PARSE_ERROR"} => h.method = "UNDEFINED_METHOD"

\* The lengths given by the lines that end at e or before.
LengthsUpTo(r, e) == {i \in FirstEnd(r) .. e : i - 1 \in LineEnds(r) /\ r[i] \in DOMAIN HeaderLength}

\* The length that counts is the last one.
LengthIs(r, h, S) ==
    \/ S = {} /\ h.bodyLen = 0 /\ ~h.hasBody
    \/ h.hasBody /\ \E i \in S : h.bodyLen = HeaderLength[r[i]] /\ \A k \in S : k <= i

FromFirstLine(r, h) == /\ Line(r).hasUrl /\ Line(r).hasVersion
                       /\ h.method = Line(r).method /\ h.url = Line(r).url

\* The parser has made of the first n symbols of r what the definitions of HttpServer make of r.
ParsedHeaders(r, n, h, prev) == \E e \in LineEnds(r) :
    /\ e <= n /\ \A k \in LineEnds(r) : k <= e \/ n < k
    /\ \A i \in BlankEnds(r) : n < i
    /\ h.line = SubSeq(r, e + 1, n) /\ prev = IF n = e THEN "none" ELSE r[n]
    /\ LengthIs(r, h, LengthsUpTo(r, e))
    /\ FromFirstLine(r, h)

ParsedBody(r, n, h) ==
    /\ BlankEnds(r) # {} /\ HeadersEnd(r) <= n
    /\ n < HeadersEnd(r) + h.bodyLen
    /\ h.body = SubSeq(r, HeadersEnd(r) + 1, n)
    /\ LengthIs(r, h, Lengths(r))
    /\ FromFirstLine(r, h)

ParsedAll(r, h) ==
    /\ Complete(r) /\ h.body = Body(r)
    /\ FromFirstLine(r, h)

Parsed(r, n, h, prev) ==
    /\ h.status = "FIRST_LINE" => (\A i \in LineEnds(r) : n < i) /\ (n > 0 => prev = r[n])
    /\ h.status = "HTTP_HEADERS" => ParsedHeaders(r, n, h, prev)
    /\ h.status = "HTTP_BODY" => ParsedBody(r, n, h)
    /\ h.status = "END_PARSE" => ParsedAll(r, h)

\* What the task is doing fits the parser.
TaskInv ==
    /\ Sound(http, previousChar)
    /\ server = "reading" => http.status \in {"FIRST_LINE", "HTTP_HEADERS", "HTTP_BODY"}
    /\ server = "dispatch" => http.status = "END_PARSE"
    /\ server \in {"accept", "close"} /\ ~selectFailed => previousChar # CR
    /\ server \in {"reading", "dispatch"} =>
          LET r == client[cur].request
          IN  /\ Started(r, fed, http)
              /\ r[1] \notin {CR, LF} => Parsed(r, fed, http, previousChar)

HttpInv == QueueInv /\ TaskInv /\ AnswersOwnRequest /\ ThresholdFromWholeBody
-----------------------------------------------------------------------------
(* Least elements, and numbers.                                            *)

\* A set of numbers has a least one: the form induction takes here.
LEMMA LeastExists ==
    ASSUME NEW T, T \subseteq Nat, T # {}
    PROVE  LeastOf(T) \in T /\ \A y \in T : LeastOf(T) <= y
<1> DEFINE R == OpToRel(<, Nat)
<1>1. IsWellFoundedOn(R, Nat)
  BY NatLessThanWellFounded
<1>2. \A x, y \in Nat : <<y, x>> \in R <=> y < x
  BY DEF OpToRel
<1> HIDE DEF R
<1>3. PICK x \in T : \A y \in T : ~ (<<y, x>> \in R)
  BY <1>1, WFMin
<1>4. ASSUME NEW y \in T PROVE x <= y
  <2>1. x \in Nat /\ y \in Nat
    OBVIOUS
  <2>2. ~(y < x)
    BY <1>2, <1>3, <2>1, Zenon
  <2> QED BY <2>1, <2>2
<1> QED BY <1>3, <1>4 DEF LeastOf

\* A least or a greatest element is the only one.
LEMMA LeastIs ==
    ASSUME NEW S, S \subseteq Nat, NEW m \in S, \A k \in S : m <= k
    PROVE  LeastOf(S) = m
<1>1. LeastOf(S) \in S /\ \A k \in S : LeastOf(S) <= k
  BY LeastExists
<1>2. LeastOf(S) \in Nat /\ m \in Nat /\ LeastOf(S) <= m /\ m <= LeastOf(S)
  BY <1>1
<1> QED BY <1>2

\* The greatest element, when there is one.
LEMMA GreatestIs ==
    ASSUME NEW S, S \subseteq Nat, NEW m \in S, \A k \in S : k <= m
    PROVE  GreatestOf(S) = m
<1>1. GreatestOf(S) \in S /\ \A k \in S : k <= GreatestOf(S)
  BY DEF GreatestOf
<1>2. GreatestOf(S) \in Nat /\ m \in Nat /\ GreatestOf(S) <= m /\ m <= GreatestOf(S)
  BY <1>1
<1> QED BY <1>2

\* What atoi makes of digits is a number.
LEMMA AtoiNat ==
    ASSUME ServerAssumption, NEW body \in Seq(Symbols), AllDigits(body)
    PROVE  atoi(body) \in Nat
<1> DEFINE len == Len(body)
           Fits(f, m) == f = [i \in 0 .. m |-> IF i = 0 THEN 0 ELSE 10 * f[i - 1] + DigitValue[body[i]]]
           Unfit == {m \in 0 .. len : ~ \E f : Fits(f, m) /\ f \in [0 .. m -> Nat]}
<1>1. len \in Nat
  BY LenProperties
<1>2. \A i \in 1 .. len : DigitValue[body[i]] \in Nat
  BY LenProperties DEF AllDigits, ServerAssumption
<1> HIDE DEF len
<1>3. Unfit = {}
  <2> SUFFICES ASSUME Unfit # {} PROVE FALSE
    OBVIOUS
  <2>1. PICK m \in Unfit : \A k \in Unfit : m <= k
    <3>1. Unfit \subseteq Nat
      OBVIOUS
    <3> HIDE DEF Unfit
    <3> QED BY <3>1, LeastExists
  <2>2. m # 0
    <3>1. Fits([i \in 0 .. 0 |-> 0], 0) /\ [i \in 0 .. 0 |-> 0] \in [0 .. 0 -> Nat]
      OBVIOUS
    <3> QED BY <3>1
  <2>3. m \in 1 .. len /\ m - 1 \in 0 .. len /\ ~(m <= m - 1)
    BY <1>1, <2>2
  <2>4. PICK f : Fits(f, m - 1) /\ f \in [0 .. m - 1 -> Nat]
    <3>1. m - 1 \notin Unfit
      <4> HIDE DEF Unfit
      <4> QED BY <2>1, <2>3
    <3> QED BY <2>3, <3>1
  <2> DEFINE d == DigitValue[body[m]]
             next == 10 * f[m - 1] + d
             g == [i \in 0 .. m |-> IF i = m THEN next ELSE f[i]]
  <2>5. next \in Nat
    <3>1. d \in Nat /\ f[m - 1] \in Nat
      BY <1>2, <2>3, <2>4
    <3> HIDE DEF d
    <3> QED BY <3>1
  <2>6. Fits(g, m) /\ g \in [0 .. m -> Nat]
    <3>1. \A i \in 0 .. m : g[i] = IF i = m THEN next ELSE f[i]
      OBVIOUS
    <3>2. \A i \in 0 .. m - 1 : f[i] \in Nat /\ f[i] = IF i = 0 THEN 0 ELSE 10 * f[i - 1] + DigitValue[body[i]]
      BY <2>4
    <3>3. m \in Nat
      BY <1>1, <2>3
    <3>4. next = 10 * f[m - 1] + DigitValue[body[m]]
      OBVIOUS
    <3> HIDE DEF g, next
    <3>5. ASSUME NEW i \in 0 .. m
          PROVE  g[i] \in Nat /\ g[i] = IF i = 0 THEN 0 ELSE 10 * g[i - 1] + DigitValue[body[i]]
      <4>1. CASE i = m
        <5>1. g[i] = next /\ g[i - 1] = f[m - 1] /\ i # 0
          BY <2>2, <3>1, <3>3, <4>1
        <5> QED BY <2>5, <3>4, <4>1, <5>1
      <4>2. CASE i # m /\ i # 0
        <5>1. i \in 0 .. m - 1 /\ g[i] = f[i] /\ g[i - 1] = f[i - 1]
          BY <3>1, <3>3, <4>2
        <5> QED BY <3>2, <4>2, <5>1
      <4>3. CASE i # m /\ i = 0
        <5>1. i \in 0 .. m - 1 /\ g[i] = f[i]
          BY <3>1, <3>3, <4>3
        <5> QED BY <3>2, <4>3, <5>1
      <4> QED BY <4>1, <4>2, <4>3
    <3> QED BY <3>5 DEF g
  <2> HIDE DEF g, next
  <2> QED BY <2>1, <2>6
<1> DEFINE F == CHOOSE f : Fits(f, len)
<1>4. PICK f : Fits(f, len) /\ f \in [0 .. len -> Nat]
  <2>1. len \in 0 .. len /\ len \notin Unfit
    <3> HIDE DEF Unfit
    <3> QED BY <1>1, <1>3
  <2> QED BY <2>1
<1>5. Fits(F, len)
  BY <1>4
<1>6. \A i \in 0 .. len : F[i] = f[i]
  <2> DEFINE Bad == {i \in 0 .. len : F[i] # f[i]}
  <2> SUFFICES ASSUME Bad # {} PROVE FALSE
    OBVIOUS
  <2>1. PICK m \in Bad : \A k \in Bad : m <= k
    <3>1. Bad \subseteq Nat
      OBVIOUS
    <3> HIDE DEF Bad
    <3> QED BY <3>1, LeastExists
  <2>2. \A i \in 0 .. len : /\ F[i] = IF i = 0 THEN 0 ELSE 10 * F[i - 1] + DigitValue[body[i]]
                            /\ f[i] = IF i = 0 THEN 0 ELSE 10 * f[i - 1] + DigitValue[body[i]]
    BY <1>4, <1>5
  <2> HIDE DEF F
  <2>3. m # 0
    BY <1>1, <2>2
  <2>4. m - 1 \in 0 .. len /\ ~(m <= m - 1)
    BY <1>1, <2>3
  <2>5. F[m - 1] = f[m - 1]
    BY <2>1, <2>4
  <2> QED BY <2>2, <2>3, <2>5
<1>7. atoi(body) = F[len]
  BY DEF atoi, len
<1> HIDE DEF F
<1> QED BY <1>1, <1>4, <1>6, <1>7
-----------------------------------------------------------------------------
(* One symbol.                                                             *)

\* The alphabet: what a request is made of.
LEMMA SymbolsOf ==
    ASSUME ServerAssumption, NEW r \in Requests
    PROVE  r \in Seq(Symbols) /\ Len(r) \in Nat \ {0} /\ \A i \in 1 .. Len(r) : r[i] \in Symbols
<1>1. r \in Seq(Symbols) /\ r # <<>>
  BY DEF ServerAssumption
<1>2. Len(r) \in Nat /\ Len(r) # 0
  BY <1>1, LenProperties, EmptySeq
<1>3. \A i \in 1 .. Len(r) : r[i] \in Symbols
  BY <1>1, ElementOfSeq
<1> QED BY <1>1, <1>2, <1>3

\* A part of a request.
LEMMA PartOf ==
    ASSUME ServerAssumption, NEW r \in Requests, NEW m \in Nat, m > 0, NEW n \in Nat, n <= Len(r)
    PROVE  /\ SubSeq(r, m, n) \in Seq(Symbols)
           /\ Len(SubSeq(r, m, n)) = IF m <= n THEN n - m + 1 ELSE 0
           /\ \A i \in 1 .. n - m + 1 : SubSeq(r, m, n)[i] = r[m + i - 1]
<1>1. Len(r) \in Nat /\ \A i \in m .. n : r[i] \in Symbols
  BY SymbolsOf
<1>2. m \in Int /\ n \in Int
  OBVIOUS
<1> QED BY <1>1, <1>2, SubSeqProperties

\* A part of a request with the next symbol.
LEMMA PartGrows ==
    ASSUME ServerAssumption, NEW r \in Requests, NEW m \in Nat, m > 0, NEW n \in Nat, n < Len(r), m <= n + 1
    PROVE  Append(SubSeq(r, m, n), r[n + 1]) = SubSeq(r, m, n + 1)
<1> DEFINE s == SubSeq(r, m, n)
           t == SubSeq(r, m, n + 1)
<1>1. Len(r) \in Nat /\ r[n + 1] \in Symbols
  BY SymbolsOf
<1>2. s \in Seq(Symbols) /\ Len(s) = n - m + 1 /\ \A i \in 1 .. n - m + 1 : s[i] = r[m + i - 1]
  BY PartOf
<1>3. t \in Seq(Symbols) /\ Len(t) = n - m + 2 /\ \A i \in 1 .. n - m + 2 : t[i] = r[m + i - 1]
  BY <1>1, PartOf
<1> HIDE DEF s, t
<1>4. /\ Append(s, r[n + 1]) \in Seq(Symbols) /\ Len(Append(s, r[n + 1])) = n - m + 2
      /\ \A i \in 1 .. n - m + 1 : Append(s, r[n + 1])[i] = s[i]
      /\ Append(s, r[n + 1])[n - m + 2] = r[n + 1]
  BY <1>1, <1>2, AppendProperties
<1>5. \A i \in 1 .. n - m + 2 : Append(s, r[n + 1])[i] = t[i]
  <2> SUFFICES ASSUME NEW i \in 1 .. n - m + 2 PROVE Append(s, r[n + 1])[i] = t[i]
    OBVIOUS
  <2>1. CASE i = n - m + 2
    BY <1>3, <1>4, <2>1
  <2>2. CASE i # n - m + 2
    <3>1. i \in 1 .. n - m + 1
      BY <2>2
    <3> QED BY <1>2, <1>3, <1>4, <3>1
  <2> QED BY <2>1, <2>2
<1>6. Append(s, r[n + 1]) = t
  BY <1>3, <1>4, <1>5, SeqEqual
<1> QED BY <1>6 DEF s, t

\* The request line of which n symbols are read, and the CR: it is an error, or what
\* RequestLine says of the first text; of the first symbol, when that is the text.
LEMMA FirstLineParsed ==
    ASSUME ServerAssumption, NEW r \in Requests, NEW n \in Nat, n <= Len(r), NEW h \in Https,
           h.line = SubSeq(r, 1, n)
    PROVE  /\ parseFirstLine(h) \in Https /\ parseFirstLine(h).status \in {"PARSE_ERROR", "HTTP_HEADERS"}
           /\ parseFirstLine(h).body = h.body /\ parseFirstLine(h).bodyLen = h.bodyLen
           /\ parseFirstLine(h).hasBody = h.hasBody
           /\ parseFirstLine(h).status # "PARSE_ERROR" /\ r[1] \in {CR, LF}
                 => parseFirstLine(h).method = "UNDEFINED_METHOD"
           /\ parseFirstLine(h).status # "PARSE_ERROR" /\ n > 0 /\ r[1] \notin {CR, LF}
                 => FromFirstLine(r, parseFirstLine(h))
<1> DEFINE texts == {i \in DOMAIN h.line : h.line[i] \notin {CR, LF}}
           start == LeastOf(texts)
           line == RequestLine[h.line[start]]
           method == IF start = 1 THEN line.method ELSE "UNDEFINED_METHOD"
           url == IF start = 1 THEN line.url ELSE line.method
           error == texts = {} \/ (IF start = 1 THEN ~line.hasUrl \/ ~line.hasVersion ELSE ~line.hasRest)
<1>1. Len(r) \in Nat \ {0} /\ DOMAIN r = 1 .. Len(r)
  BY SymbolsOf, LenProperties
<1>2. DOMAIN h.line = 1 .. n /\ \A i \in 1 .. n : h.line[i] = r[i]
  <2>1. h.line \in Seq(Symbols) /\ Len(h.line) = n /\ \A i \in 1 .. n : h.line[i] = r[i]
    BY PartOf
  <2> QED BY <2>1, LenProperties
<1>3. parseFirstLine(h) = IF error THEN [h EXCEPT !.status = "PARSE_ERROR"]
                          ELSE [h EXCEPT !.status = "HTTP_HEADERS", !.method = method, !.url = url]
  BY DEF parseFirstLine
<1>4. texts \subseteq Nat /\ texts = {i \in 1 .. n : r[i] \notin {CR, LF}}
  BY <1>2
<1>5. ASSUME texts # {}
      PROVE  /\ start \in 1 .. n /\ r[start] \in DOMAIN RequestLine /\ line = RequestLine[r[start]]
             /\ r[1] \in {CR, LF} => start # 1
             /\ \A i \in texts : start <= i
  <2>1. start \in texts /\ \A i \in texts : start <= i
    <3> HIDE DEF texts
    <3> QED BY <1>4, <1>5, LeastExists
  <2>2. start \in 1 .. n /\ r[start] \notin {CR, LF}
    BY <1>4, <2>1
  <2>3. \A j \in 1 .. start - 1 : r[j] \in {CR, LF}
    <3> SUFFICES ASSUME NEW j \in 1 .. start - 1, r[j] \notin {CR, LF} PROVE FALSE
      OBVIOUS
    <3> HIDE DEF start
    <3>1. j \in texts /\ ~(start <= j)
      BY <1>4, <2>2
    <3> QED BY <2>1, <3>1
  <2>4. start \in DOMAIN r
    <3> HIDE DEF start
    <3> QED BY <1>1, <2>2
  <2>5. r[start] \in DOMAIN RequestLine
    <3> HIDE DEF start
    <3> QED BY <2>2, <2>3, <2>4 DEF ServerAssumption
  <2> HIDE DEF texts, start
  <2> QED BY <1>2, <2>1, <2>2, <2>5
<1>6. ASSUME ~error
      PROVE  method \in Methods /\ url \in Urls /\ (r[1] \in {CR, LF} => method = "UNDEFINED_METHOD")
  <2>1. line.method \in Methods /\ line.method \in Urls /\ line.url \in Urls /\ "UNDEFINED_METHOD" \in Methods
    <3> HIDE DEF start
    <3> QED BY <1>5, <1>6 DEF Methods, Urls
  <2> HIDE DEF start, line
  <2> QED BY <1>5, <1>6, <2>1
<1> DEFINE f == parseFirstLine(h)
<1>7. ASSUME n > 0, r[1] \notin {CR, LF}, ~error
      PROVE  Line(r).hasUrl /\ Line(r).hasVersion /\ method = Line(r).method /\ url = Line(r).url
  <2>1. 1 \in texts /\ \A i \in texts : 1 <= i
    BY <1>4, <1>7
  <2>2. start = 1
    <3> HIDE DEF texts
    <3> QED BY <1>4, <2>1, LeastIs
  <2>3. line = Line(r)
    <3> HIDE DEF texts, start
    <3> QED BY <1>5, <2>1, <2>2 DEF Line
  <2> HIDE DEF texts, start, line
  <2> QED BY <1>7, <2>1, <2>2, <2>3
<1>8. CASE error
  <2> DEFINE status == "PARSE_ERROR"
  <2>1. f = [h EXCEPT !.status = status] /\ status \in Statuses /\ status = "PARSE_ERROR"
    BY <1>3, <1>8 DEF Statuses
  <2> HIDE DEF status, f
  <2>2. f \in Https /\ f.status = status /\ f.body = h.body /\ f.bodyLen = h.bodyLen /\ f.hasBody = h.hasBody
    BY <2>1 DEF Https
  <2>3. f \in Https /\ f.status = "PARSE_ERROR" /\ f.body = h.body /\ f.bodyLen = h.bodyLen /\ f.hasBody = h.hasBody
    BY <2>1, <2>2
  <2> QED BY <2>3 DEF f
<1>9. CASE ~error
  <2> DEFINE status == "HTTP_HEADERS"
  <2>1. f = [h EXCEPT !.status = status, !.method = method, !.url = url]
    BY <1>3, <1>9
  <2>2. method \in Methods /\ url \in Urls /\ (r[1] \in {CR, LF} => method = "UNDEFINED_METHOD")
    BY <1>6, <1>9
  <2>3. status \in Statuses /\ status = "HTTP_HEADERS"
    BY DEF Statuses
  <2>4. n > 0 /\ r[1] \notin {CR, LF}
          => Line(r).hasUrl /\ Line(r).hasVersion /\ method = Line(r).method /\ url = Line(r).url
    <3> HIDE DEF error, method, url
    <3> QED BY <1>7, <1>9
  <2> HIDE DEF status, method, url, f
  <2>5. /\ f \in Https /\ f.status = status /\ f.body = h.body /\ f.bodyLen = h.bodyLen /\ f.hasBody = h.hasBody
        /\ f.method = method /\ f.url = url
    BY <2>1, <2>2, <2>3 DEF Https
  <2>6. n > 0 /\ r[1] \notin {CR, LF} => FromFirstLine(r, f)
    BY <2>4, <2>5 DEF FromFirstLine
  <2>7. /\ f \in Https /\ f.status = "HTTP_HEADERS" /\ f.body = h.body /\ f.bodyLen = h.bodyLen
        /\ f.hasBody = h.hasBody /\ (r[1] \in {CR, LF} => f.method = "UNDEFINED_METHOD")
    BY <2>2, <2>3, <2>5
  <2> QED BY <2>6, <2>7 DEF f
<1> QED BY <1>8, <1>9

\* Whatever the symbol, the HTTP object stays one, and no CR is left in the static when the
\* request ends.
LEMMA FeedSound ==
    ASSUME ServerAssumption, NEW r \in Requests, NEW n \in Nat, n < Len(r), NEW h, NEW prev,
           Sound(h, prev), Started(r, n, h), h.status \in {"FIRST_LINE", "HTTP_HEADERS", "HTTP_BODY"}
    PROVE  /\ Sound(feed(h, prev, r[n + 1]).http, feed(h, prev, r[n + 1]).prev)
           /\ Started(r, n + 1, feed(h, prev, r[n + 1]).http)
<1> DEFINE s == r[n + 1]
           x == feed(h, prev, s)
           none == <<>>
<1>1. s \in Symbols /\ Len(r) \in Nat /\ none \in Seq(Symbols) /\ Len(none) = 0
  BY SymbolsOf, EmptySeq
<1>2. h \in Https
  BY DEF Sound
<1>3. CASE h.status = "HTTP_BODY"
  <2> DEFINE status == IF Len(h.body) + 1 = h.bodyLen THEN "END_PARSE" ELSE "HTTP_BODY"
             body == Append(h.body, s)
  <2>1. x.http = [h EXCEPT !.body = body, !.status = status] /\ x.prev = prev
    BY <1>2, <1>3 DEF feed, feedBody, Https
  <2>2. Len(h.body) \in Nat /\ body \in Seq(Symbols) /\ Len(body) = Len(h.body) + 1
    BY <1>1, <1>2, AppendProperties, LenProperties DEF Https
  <2>3. status = "END_PARSE" \/ (status = "HTTP_BODY" /\ Len(body) # h.bodyLen)
    BY <2>2
  <2>4. h.bodyLen \in Nat /\ Len(h.body) < h.bodyLen /\ h.hasBody /\ prev # CR
    BY <1>2, <1>3 DEF Sound, Https
  <2>5. status \in Statuses
    BY <2>3 DEF Statuses
  <2> HIDE DEF status, body, s
  <2>6. /\ x.http \in Https /\ x.http.status = status /\ x.http.body = body
        /\ x.http.bodyLen = h.bodyLen /\ x.http.hasBody = h.hasBody /\ x.http.method = h.method
    BY <1>2, <2>1, <2>2, <2>5 DEF Https
  <2> HIDE DEF x
  <2>7. Sound(x.http, x.prev)
    BY <2>1, <2>2, <2>3, <2>4, <2>6 DEF Sound
  <2>8. Started(r, n + 1, x.http)
    BY <1>3, <2>3, <2>6 DEF Started
  <2> QED BY <2>7, <2>8 DEF x, s
<1>4. CASE h.status # "HTTP_BODY" /\ ~(prev = CR /\ s = LF)
  <2> DEFINE line == Append(h.line, s)
  <2>1. x.http = [h EXCEPT !.line = line] /\ x.prev = s
    BY <1>4 DEF feed
  <2>2. line \in Seq(Symbols)
    BY <1>1, <1>2, AppendProperties DEF Https
  <2>3. h.status = "FIRST_LINE" => line = SubSeq(r, 1, n + 1)
    BY PartGrows DEF Started
  <2> HIDE DEF line, s
  <2>4. /\ x.http \in Https /\ x.http.status = h.status /\ x.http.body = h.body /\ x.http.line = line
        /\ x.http.bodyLen = h.bodyLen /\ x.http.hasBody = h.hasBody /\ x.http.method = h.method
    BY <1>2, <2>1, <2>2 DEF Https
  <2> HIDE DEF x
  <2>5. Sound(x.http, x.prev)
    BY <1>4, <2>4 DEF Sound
  <2>6. Started(r, n + 1, x.http)
    BY <2>3, <2>4 DEF Started
  <2> QED BY <2>5, <2>6 DEF x, s
<1>5. CASE h.status = "FIRST_LINE" /\ prev = CR /\ s = LF
  <2> DEFINE f == parseFirstLine(h)
  <2>1. x.http = [f EXCEPT !.line = none] /\ x.prev = "none"
    BY <1>5 DEF feed, feedNewLine
  <2>2. h.bodyLen = 0 /\ ~h.hasBody /\ h.body = <<>>
    BY <1>5 DEF Sound
  <2>3. h.line = SubSeq(r, 1, n) /\ n <= Len(r)
    BY <1>1, <1>5 DEF Started
  <2>4. /\ f \in Https /\ f.status \in {"PARSE_ERROR", "HTTP_HEADERS"}
        /\ f.body = h.body /\ f.bodyLen = h.bodyLen /\ f.hasBody = h.hasBody
        /\ f.status # "PARSE_ERROR" /\ r[1] \in {CR, LF} => f.method = "UNDEFINED_METHOD"
    BY <1>2, <2>3, FirstLineParsed
  <2> HIDE DEF f, none, s
  <2>5. /\ x.http \in Https /\ x.http.status = f.status /\ x.http.body = f.body
        /\ x.http.bodyLen = f.bodyLen /\ x.http.hasBody = f.hasBody /\ x.http.method = f.method
    BY <1>1, <2>1, <2>4 DEF Https
  <2> HIDE DEF x
  <2>6. Sound(x.http, x.prev)
    BY <2>1, <2>2, <2>4, <2>5 DEF Sound, CR
  <2>7. Started(r, n + 1, x.http)
    BY <2>4, <2>5 DEF Started
  <2> QED BY <2>6, <2>7 DEF x, s
<1>6. CASE h.status = "HTTP_HEADERS" /\ prev = CR /\ s = LF
  <2> DEFINE f == feedNewLine(h)
  <2>1. x.http = [f EXCEPT !.line = none] /\ x.prev = "none"
    BY <1>6 DEF feed
  <2>2. h.body = <<>> /\ (h.bodyLen > 0 => h.hasBody) /\ h.bodyLen \in Nat /\ h.body \in Seq(Symbols)
    BY <1>2, <1>6 DEF Sound, Https
  <2>3. r[1] \in {CR, LF} => h.method = "UNDEFINED_METHOD"
    BY <1>6 DEF Started
  <2>4. /\ f \in Https /\ f.body = <<>> /\ f.method = h.method /\ (f.bodyLen > 0 => f.hasBody)
        /\ \/ f.status \in {"HTTP_HEADERS", "END_PARSE"}
           \/ f.status = "HTTP_BODY" /\ f.bodyLen > 0
    <3>1. CASE Head(h.line) = CR
      <4> DEFINE status == IF h.bodyLen > 0 THEN "HTTP_BODY" ELSE "END_PARSE"
      <4>1. f = [h EXCEPT !.status = status]
        BY <1>6, <3>1 DEF feedNewLine, endOfHeaders
      <4>2. status \in Statuses /\ (status = "END_PARSE" \/ (status = "HTTP_BODY" /\ h.bodyLen > 0))
        BY DEF Statuses
      <4> HIDE DEF status, f
      <4> QED BY <1>2, <2>2, <4>1, <4>2 DEF Https
    <3>2. CASE Head(h.line) # CR /\ Head(h.line) \in DOMAIN HeaderLength
      <4> DEFINE len == HeaderLength[Head(h.line)]
                 yes == TRUE
      <4>1. f = [h EXCEPT !.hasBody = yes, !.body = none, !.bodyLen = len]
        BY <1>6, <3>2 DEF feedNewLine, parseHeader
      <4>2. len \in Nat /\ yes \in BOOLEAN /\ yes
        BY <3>2 DEF ServerAssumption
      <4>3. none = <<>>
        OBVIOUS
      <4> HIDE DEF len, yes, none, f
      <4>4. /\ f \in Https /\ f.body = none /\ f.method = h.method /\ f.hasBody /\ f.status = h.status
        BY <1>1, <1>2, <4>1, <4>2 DEF Https
      <4> QED BY <1>6, <4>3, <4>4
    <3>3. CASE Head(h.line) # CR /\ Head(h.line) \notin DOMAIN HeaderLength
      <4>1. f = h
        BY <1>6, <3>3 DEF feedNewLine, parseHeader
      <4> HIDE DEF f
      <4> QED BY <1>2, <1>6, <2>2, <4>1
    <3> QED BY <3>1, <3>2, <3>3
  <2> HIDE DEF f, none, s
  <2>5. /\ x.http \in Https /\ x.http.status = f.status /\ x.http.body = f.body
        /\ x.http.bodyLen = f.bodyLen /\ x.http.hasBody = f.hasBody /\ x.http.method = f.method
    BY <1>1, <2>1, <2>4 DEF Https
  <2> HIDE DEF x
  <2>6. Sound(x.http, x.prev)
    <3>1. Len(x.http.body) = 0 /\ x.http.bodyLen \in Nat
      BY <2>4, <2>5, EmptySeq DEF Https
    <3> QED BY <2>1, <2>4, <2>5, <3>1 DEF Sound, CR
  <2>7. Started(r, n + 1, x.http)
    BY <2>3, <2>4, <2>5 DEF Started
  <2> QED BY <2>6, <2>7 DEF x, s
<1> QED BY <1>3, <1>4, <1>5, <1>6
-----------------------------------------------------------------------------
(* The symbol-by-symbol reading is the reading at once.                    *)

\* Where the lines of a request end.
LEMMA LineEndsAre ==
    ASSUME ServerAssumption, NEW r \in Requests
    PROVE  /\ LineEnds(r) \subseteq Nat /\ BlankEnds(r) \subseteq LineEnds(r)
           /\ \A n \in Nat : n < Len(r) => (n + 1 \in LineEnds(r) <=> n > 0 /\ r[n] = CR /\ r[n + 1] = LF)
<1>1. Len(r) \in Nat
  BY SymbolsOf
<1>2. LineEnds(r) \subseteq Nat /\ BlankEnds(r) \subseteq LineEnds(r)
  BY DEF LineEnds, BlankEnds
<1>3. ASSUME NEW n \in Nat, n < Len(r)
      PROVE  n + 1 \in LineEnds(r) <=> n > 0 /\ r[n] = CR /\ r[n + 1] = LF
  <2>1. (n + 1) - 1 = n /\ (n + 1 \in 2 .. Len(r) <=> n > 0)
    BY <1>1, <1>3
  <2> QED BY <2>1 DEF LineEnds
<1> QED BY <1>2, <1>3

\* The length the parser keeps is the one the whole request gives.
LEMMA LengthAgrees ==
    ASSUME NEW r, NEW h, LengthIs(r, h, Lengths(r)), FirstEnd(r) \in Nat, HeadersEnd(r) \in Nat
    PROVE  BodyLength(r) = h.bodyLen
<1>1. CASE Lengths(r) = {}
  BY <1>1 DEF LengthIs, BodyLength
<1>2. CASE Lengths(r) # {}
  <2>1. PICK i \in Lengths(r) : h.bodyLen = HeaderLength[r[i]] /\ \A k \in Lengths(r) : k <= i
    BY <1>2 DEF LengthIs
  <2>2. Lengths(r) \subseteq Nat
    BY DEF Lengths
  <2>3. GreatestOf(Lengths(r)) = i
    BY <2>1, <2>2, GreatestIs
  <2> QED BY <1>2, <2>1, <2>3 DEF BodyLength
<1> QED BY <1>1, <1>2

\* A symbol of the request line.
LEMMA FeedFirstLine ==
    ASSUME ServerAssumption, NEW r \in Requests, r[1] \notin {CR, LF}, NEW n \in Nat, n < Len(r), NEW h, NEW prev,
           Sound(h, prev), Started(r, n, h), h.status = "FIRST_LINE", Parsed(r, n, h, prev)
    PROVE  Parsed(r, n + 1, feed(h, prev, r[n + 1]).http, feed(h, prev, r[n + 1]).prev)
<1> DEFINE s == r[n + 1]
           x == feed(h, prev, s)
           f == parseFirstLine(h)
           none == <<>>
<1>1. h \in Https /\ h.bodyLen = 0 /\ ~h.hasBody /\ h.line = SubSeq(r, 1, n) /\ n <= Len(r)
  BY SymbolsOf DEF Sound, Started
<1>2. (\A i \in LineEnds(r) : n < i) /\ (n > 0 => prev = r[n])
  BY DEF Parsed
<1>3. LineEnds(r) \subseteq Nat /\ BlankEnds(r) \subseteq LineEnds(r)
      /\ (n + 1 \in LineEnds(r) <=> n > 0 /\ r[n] = CR /\ r[n + 1] = LF)
  BY LineEndsAre
<1>4. prev = CR /\ s = LF <=> n + 1 \in LineEnds(r)
  BY <1>2, <1>3
<1>5. CASE n + 1 \notin LineEnds(r)
  <2> DEFINE line == Append(h.line, s)
  <2>1. x.http = [h EXCEPT !.line = line] /\ x.prev = s
    BY <1>4, <1>5 DEF feed
  <2> HIDE DEF line
  <2>2. x.http.status = "FIRST_LINE"
    BY <1>1, <2>1 DEF Https
  <2>3. \A i \in LineEnds(r) : n + 1 < i
    BY <1>2, <1>3, <1>5
  <2> HIDE DEF x
  <2>4. Parsed(r, n + 1, x.http, x.prev)
    BY <2>1, <2>2, <2>3 DEF Parsed
  <2> QED BY <2>4 DEF x, s
<1>6. CASE n + 1 \in LineEnds(r)
  <2>1. x.http = [f EXCEPT !.line = none] /\ x.prev = "none"
    BY <1>4, <1>6 DEF feed, feedNewLine
  <2>2. /\ f \in Https /\ f.status \in {"PARSE_ERROR", "HTTP_HEADERS"}
        /\ f.bodyLen = 0 /\ ~f.hasBody
        /\ f.status # "PARSE_ERROR" => FromFirstLine(r, f)
    BY <1>1, <1>3, <1>6, FirstLineParsed
  <2>3. none \in Seq(Symbols)
    BY EmptySeq
  <2>4. none = SubSeq(r, (n + 1) + 1, n + 1)
    BY SubSeqEmpty
  <2> HIDE DEF f, none
  <2>5. /\ x.http.status = f.status /\ x.http.line = none /\ x.http.bodyLen = 0 /\ ~x.http.hasBody
        /\ x.http.method = f.method /\ x.http.url = f.url
    BY <2>1, <2>2, <2>3 DEF Https
  <2> HIDE DEF x
  <2>6. LengthIs(r, x.http, LengthsUpTo(r, n + 1))
    <3>1. LengthsUpTo(r, n + 1) = {}
      <4> SUFFICES ASSUME NEW i \in LengthsUpTo(r, n + 1) PROVE FALSE
        OBVIOUS
      <4>1. FirstEnd(r) \in Nat
        BY <1>3, <1>6, LeastExists DEF FirstEnd
      <4>2. i \in Int /\ i - 1 \in LineEnds(r) /\ i <= n + 1
        BY <4>1 DEF LengthsUpTo
      <4>3. n < i - 1
        BY <1>2, <4>2
      <4> QED BY <4>2, <4>3
    <3> QED BY <2>5, <3>1 DEF LengthIs
  <2>7. ASSUME x.http.status = "HTTP_HEADERS"
        PROVE  ParsedHeaders(r, n + 1, x.http, x.prev)
    <3>1. \A i \in BlankEnds(r) : n + 1 < i
      <4> SUFFICES ASSUME NEW i \in BlankEnds(r) PROVE n + 1 < i
        OBVIOUS
      <4>1. PICK j \in LineEnds(r) : j < i
        BY DEF BlankEnds
      <4>2. n < j /\ j \in Nat /\ i \in Nat
        BY <1>2, <1>3
      <4> QED BY <4>1, <4>2
    <3>2. FromFirstLine(r, x.http)
      BY <2>2, <2>5, <2>7 DEF FromFirstLine
    <3>3. \A k \in LineEnds(r) : k <= n + 1 \/ n + 1 < k
      BY <1>3
    <3>4. /\ n + 1 <= n + 1 /\ x.prev = IF n + 1 = n + 1 THEN "none" ELSE r[n + 1]
          /\ x.http.line = SubSeq(r, (n + 1) + 1, n + 1)
      BY <2>1, <2>4, <2>5
    <3> QED BY <1>6, <2>6, <3>1, <3>2, <3>3, <3>4, Zenon DEF ParsedHeaders
  <2>8. Parsed(r, n + 1, x.http, x.prev)
    BY <2>2, <2>5, <2>7 DEF Parsed
  <2> QED BY <2>8 DEF x, s
<1> QED BY <1>5, <1>6

\* A symbol of the headers.
LEMMA FeedHeaders ==
    ASSUME ServerAssumption, NEW r \in Requests, NEW n \in Nat, n < Len(r), NEW h, NEW prev,
           Sound(h, prev), h.status = "HTTP_HEADERS", Parsed(r, n, h, prev)
    PROVE  Parsed(r, n + 1, feed(h, prev, r[n + 1]).http, feed(h, prev, r[n + 1]).prev)
<1> DEFINE s == r[n + 1]
           x == feed(h, prev, s)
           none == <<>>
<1>1. h \in Https /\ h.body = <<>> /\ Len(r) \in Nat
  BY SymbolsOf DEF Sound
<1>2. LineEnds(r) \subseteq Nat /\ BlankEnds(r) \subseteq LineEnds(r)
      /\ (n + 1 \in LineEnds(r) <=> n > 0 /\ r[n] = CR /\ r[n + 1] = LF)
  BY LineEndsAre
<1>3. PICK e \in LineEnds(r) :
          /\ e <= n /\ \A k \in LineEnds(r) : k <= e \/ n < k
          /\ \A i \in BlankEnds(r) : n < i
          /\ h.line = SubSeq(r, e + 1, n) /\ prev = IF n = e THEN "none" ELSE r[n]
          /\ LengthIs(r, h, LengthsUpTo(r, e))
          /\ FromFirstLine(r, h)
  BY DEF Parsed, ParsedHeaders
<1>4. e \in Nat /\ e > 0 /\ r[e] = LF
  BY <1>2 DEF LineEnds
<1>5. prev = CR /\ s = LF <=> n + 1 \in LineEnds(r)
  BY <1>2, <1>3, <1>4 DEF CR, LF
<1>6. n + 1 \in LineEnds(r) => e < n
  BY <1>2, <1>3, <1>4 DEF CR, LF
<1>7. CASE n + 1 \notin LineEnds(r)
  <2> DEFINE line == Append(h.line, s)
  <2>1. x.http = [h EXCEPT !.line = line] /\ x.prev = s
    BY <1>5, <1>7 DEF feed
  <2>2. line = SubSeq(r, e + 1, n + 1)
    BY <1>3, <1>4, PartGrows
  <2> HIDE DEF line
  <2>3. /\ x.http.status = "HTTP_HEADERS" /\ x.http.line = line /\ x.http.bodyLen = h.bodyLen
        /\ x.http.hasBody = h.hasBody /\ x.http.method = h.method /\ x.http.url = h.url
    BY <1>1, <2>1 DEF Https
  <2> HIDE DEF x
  <2>4. /\ e <= n + 1 /\ \A k \in LineEnds(r) : k <= e \/ n + 1 < k
        /\ \A i \in BlankEnds(r) : n + 1 < i
    BY <1>2, <1>3, <1>4, <1>7
  <2>5. LengthIs(r, x.http, LengthsUpTo(r, e)) /\ FromFirstLine(r, x.http)
    BY <1>3, <2>3 DEF LengthIs, FromFirstLine
  <2>6. x.prev = IF n + 1 = e THEN "none" ELSE r[n + 1]
    BY <1>3, <1>4, <2>1
  <2>7. ParsedHeaders(r, n + 1, x.http, x.prev)
    BY <2>2, <2>3, <2>4, <2>5, <2>6 DEF ParsedHeaders
  <2>8. Parsed(r, n + 1, x.http, x.prev)
    BY <2>3, <2>7 DEF Parsed
  <2> QED BY <2>8 DEF x, s
<1>8. CASE n + 1 \in LineEnds(r)
  <2> DEFINE f == feedNewLine(h)
  <2>1. x.http = [f EXCEPT !.line = none] /\ x.prev = "none"
    BY <1>5, <1>8 DEF feed
  <2>2. Head(h.line) = r[e + 1]
    <3>1. h.line \in Seq(Symbols) /\ Len(h.line) = n - e /\ h.line[1] = r[e + 1]
      BY <1>3, <1>4, <1>6, <1>8, PartOf
    <3>2. h.line # <<>>
      BY <1>4, <1>6, <1>8, <3>1
    <3> QED BY <3>1, <3>2, HeadTailProperties
  <2>3. n + 1 \in BlankEnds(r) <=> r[e + 1] = CR
    <3>1. ASSUME r[e + 1] = CR PROVE n + 1 \in BlankEnds(r)
      <4>1. e < n + 1 /\ \A k \in LineEnds(r) : k <= e \/ n + 1 <= k
        BY <1>2, <1>3, <1>4
      <4> QED BY <1>8, <3>1, <4>1 DEF BlankEnds
    <3>2. ASSUME n + 1 \in BlankEnds(r) PROVE r[e + 1] = CR
      <4>1. PICK j \in LineEnds(r) : /\ j < n + 1 /\ r[j + 1] = CR
                                     /\ \A k \in LineEnds(r) : k <= j \/ n + 1 <= k
        BY <3>2 DEF BlankEnds
      <4>2. j \in Nat /\ e \in LineEnds(r)
        BY <1>2
      <4>3. j = e
        BY <1>3, <1>4, <4>1, <4>2
      <4> QED BY <4>1, <4>3
    <3> QED BY <3>1, <3>2
  \* Between the end of the last line and this one no line begins but at e + 1.
  <2>4. \A i : i - 1 \in LineEnds(r) /\ i \in Nat /\ i <= n + 1 => i <= e + 1
    <3> SUFFICES ASSUME NEW i \in Nat, i - 1 \in LineEnds(r), i <= n + 1 PROVE i <= e + 1
      OBVIOUS
    <3>1. i - 1 <= e \/ n < i - 1
      BY <1>3
    <3> QED BY <1>4, <3>1
  <2>5. FirstEnd(r) \in Nat /\ FirstEnd(r) <= e
    <3>1. LineEnds(r) # {}
      BY <1>8
    <3>2. FirstEnd(r) \in LineEnds(r) /\ \A k \in LineEnds(r) : FirstEnd(r) <= k
      BY <1>2, <3>1, LeastExists DEF FirstEnd
    <3> QED BY <1>2, <3>2
  <2>6. none = SubSeq(r, (n + 1) + 1, n + 1) /\ none \in Seq(Symbols) /\ none = h.body
    BY <1>1, SubSeqEmpty, EmptySeq
  <2>7. CASE r[e + 1] = CR
    <3> DEFINE status == IF h.bodyLen > 0 THEN "HTTP_BODY" ELSE "END_PARSE"
    <3>1. f = [h EXCEPT !.status = status]
      BY <2>2, <2>7 DEF feedNewLine, endOfHeaders
    <3>2. h.bodyLen \in Nat /\ status \in Statuses
      BY <1>1 DEF Https, Statuses
    <3>3. \/ status = "HTTP_BODY" /\ h.bodyLen > 0
          \/ status = "END_PARSE" /\ h.bodyLen = 0
      BY <3>2
    <3> HIDE DEF status, none
    <3>4. /\ x.http.status = status /\ x.http.bodyLen = h.bodyLen /\ x.http.hasBody = h.hasBody
          /\ x.http.body = none /\ x.http.method = h.method /\ x.http.url = h.url
      <4>1. /\ f \in Https /\ f.status = status /\ f.bodyLen = h.bodyLen /\ f.hasBody = h.hasBody
            /\ f.body = none /\ f.method = h.method /\ f.url = h.url
        <5> HIDE DEF f
        <5> QED BY <1>1, <2>6, <3>1, <3>2 DEF Https
      <4> HIDE DEF f
      <4> QED BY <2>1, <4>1, <2>6 DEF Https
    <3> HIDE DEF x
    <3>5. HeadersEnd(r) = n + 1 /\ BlankEnds(r) # {}
      <4>1. n + 1 \in BlankEnds(r) /\ BlankEnds(r) \subseteq Nat
        BY <1>2, <2>3, <2>7
      <4>2. \A i \in BlankEnds(r) : n + 1 <= i
        BY <1>2, <1>3
      <4> QED BY <4>1, <4>2, LeastIs DEF HeadersEnd
    <3>6. LengthIs(r, x.http, Lengths(r))
      <4>1. \A i : i \in Lengths(r) <=> i \in LengthsUpTo(r, e)
        <5>1. ASSUME NEW i \in Lengths(r) PROVE i \in LengthsUpTo(r, e)
          <6>1. i \in FirstEnd(r) .. n + 1 /\ i - 1 \in LineEnds(r) /\ r[i] \in DOMAIN HeaderLength
            BY <3>5 DEF Lengths
          <6>2. i <= e + 1 /\ i # e + 1
            BY <2>4, <2>5, <2>7, <6>1 DEF ServerAssumption, Texts
          <6>3. i \in FirstEnd(r) .. e
            BY <1>4, <2>5, <6>1, <6>2
          <6> QED BY <6>1, <6>3 DEF LengthsUpTo
        <5>2. ASSUME NEW i \in LengthsUpTo(r, e) PROVE i \in Lengths(r)
          BY <1>3, <1>4, <2>5, <3>5 DEF LengthsUpTo, Lengths
        <5> QED BY <5>1, <5>2
      <4>2. Lengths(r) = LengthsUpTo(r, e)
        BY <4>1
      <4> QED BY <1>3, <3>4, <4>2 DEF LengthIs
    <3>7. FromFirstLine(r, x.http)
      BY <1>3, <3>4 DEF FromFirstLine
    <3>8. BodyLength(r) = h.bodyLen
      BY <2>5, <3>4, <3>5, <3>6, LengthAgrees
    <3>9. CASE status = "HTTP_BODY"
      <4>1. HeadersEnd(r) <= n + 1 /\ n + 1 < HeadersEnd(r) + x.http.bodyLen
        BY <3>2, <3>3, <3>4, <3>5, <3>9
      <4>2. x.http.body = SubSeq(r, HeadersEnd(r) + 1, n + 1)
        BY <2>6, <3>4, <3>5
      <4>3. ParsedBody(r, n + 1, x.http)
        BY <3>5, <3>6, <3>7, <4>1, <4>2, Zenon DEF ParsedBody
      <4>4. Parsed(r, n + 1, x.http, x.prev)
        BY <3>4, <3>9, <4>3 DEF Parsed
      <4> QED BY <4>4 DEF x, s
    <3>10. CASE status = "END_PARSE"
      <4>1. Complete(r) /\ none = Body(r)
        BY <1>1, <2>6, <3>3, <3>5, <3>8, <3>10 DEF Complete, Body
      <4>2. ParsedAll(r, x.http)
        BY <3>4, <3>7, <4>1 DEF ParsedAll
      <4>3. Parsed(r, n + 1, x.http, x.prev)
        BY <3>4, <3>10, <4>2 DEF Parsed
      <4> QED BY <4>3 DEF x, s
    <3> QED BY <3>3, <3>9, <3>10
  <2>8. CASE r[e + 1] # CR
    <3>1. /\ \A k \in LineEnds(r) : k <= n + 1 \/ n + 1 < k
          /\ \A i \in BlankEnds(r) : n + 1 < i
      <4>1. ASSUME NEW k \in LineEnds(r) PROVE k <= n + 1 \/ n + 1 < k
        BY <1>2
      <4>2. ASSUME NEW i \in BlankEnds(r) PROVE n + 1 < i
        <5>1. i \in Nat /\ n < i /\ i # n + 1
          BY <1>2, <1>3, <2>3, <2>8
        <5> QED BY <5>1
      <4> QED BY <4>1, <4>2
    <3>2. /\ f \in Https /\ f.status = "HTTP_HEADERS" /\ f.method = h.method /\ f.url = h.url
          /\ LengthIs(r, f, LengthsUpTo(r, n + 1))
      <4>1. CASE r[e + 1] \in DOMAIN HeaderLength
        <5> DEFINE len == HeaderLength[r[e + 1]]
                   yes == TRUE
        <5>1. f = [h EXCEPT !.hasBody = yes, !.body = none, !.bodyLen = len]
          BY <2>2, <2>8, <4>1 DEF feedNewLine, parseHeader
        <5>2. len \in Nat /\ yes \in BOOLEAN /\ yes
          BY <4>1 DEF ServerAssumption
        <5> HIDE DEF yes, none, f
        <5>3. /\ f \in Https /\ f.status = "HTTP_HEADERS" /\ f.method = h.method /\ f.url = h.url
              /\ f.hasBody /\ f.bodyLen = len
          <6> HIDE DEF len
          <6> QED BY <1>1, <2>6, <5>1, <5>2 DEF Https
        <5>4. e + 1 \in LengthsUpTo(r, n + 1)
          BY <1>4, <1>6, <1>8, <2>5, <4>1 DEF LengthsUpTo
        <5>5. \A k \in LengthsUpTo(r, n + 1) : k <= e + 1
          <6> SUFFICES ASSUME NEW k \in LengthsUpTo(r, n + 1) PROVE k <= e + 1
            OBVIOUS
          <6>1. k \in Nat /\ k - 1 \in LineEnds(r) /\ k <= n + 1
            BY <2>5 DEF LengthsUpTo
          <6> QED BY <2>4, <6>1
        <5>6. LengthIs(r, f, LengthsUpTo(r, n + 1))
          BY <5>3, <5>4, <5>5 DEF LengthIs
        <5> QED BY <5>3, <5>6
      <4>2. CASE r[e + 1] \notin DOMAIN HeaderLength
        <5>1. f = h
          BY <2>2, <2>8, <4>2 DEF feedNewLine, parseHeader
        <5>2. LengthsUpTo(r, n + 1) = LengthsUpTo(r, e)
          <6>1. ASSUME NEW i \in LengthsUpTo(r, n + 1) PROVE i \in LengthsUpTo(r, e)
            <7>1. i \in FirstEnd(r) .. n + 1 /\ i - 1 \in LineEnds(r) /\ r[i] \in DOMAIN HeaderLength
              BY DEF LengthsUpTo
            <7>2. i <= e + 1 /\ i # e + 1
              BY <2>4, <2>5, <4>2, <7>1
            <7>3. i \in FirstEnd(r) .. e
              BY <1>4, <2>5, <7>1, <7>2
            <7> QED BY <7>1, <7>3 DEF LengthsUpTo
          <6>2. ASSUME NEW i \in LengthsUpTo(r, e) PROVE i \in LengthsUpTo(r, n + 1)
            BY <1>3, <1>4, <2>5 DEF LengthsUpTo
          <6> QED BY <6>1, <6>2
        <5> HIDE DEF f
        <5> QED BY <1>1, <1>3, <5>1, <5>2
      <4> QED BY <4>1, <4>2
    <3> HIDE DEF f, none
    <3>3. /\ x.http.status = "HTTP_HEADERS" /\ x.http.line = none /\ x.http.bodyLen = f.bodyLen
          /\ x.http.hasBody = f.hasBody /\ x.http.method = h.method /\ x.http.url = h.url
      BY <2>1, <2>6, <3>2 DEF Https
    <3> HIDE DEF x
    <3>4. LengthIs(r, x.http, LengthsUpTo(r, n + 1)) /\ FromFirstLine(r, x.http)
      BY <1>3, <3>2, <3>3 DEF LengthIs, FromFirstLine
    <3>5. ParsedHeaders(r, n + 1, x.http, x.prev)
      <4>1. /\ n + 1 <= n + 1 /\ x.prev = IF n + 1 = n + 1 THEN "none" ELSE r[n + 1]
            /\ x.http.line = SubSeq(r, (n + 1) + 1, n + 1)
        <5>1. n + 1 <= n + 1
          OBVIOUS
        <5>2. x.prev = "none"
          BY <2>1
        <5>3. x.http.line = SubSeq(r, (n + 1) + 1, n + 1)
          BY <2>6, <3>3, Zenon
        <5> QED BY <5>1, <5>2, <5>3
      <4> QED BY <1>8, <3>1, <3>4, <4>1, Zenon DEF ParsedHeaders
    <3>6. Parsed(r, n + 1, x.http, x.prev)
      BY <3>3, <3>5 DEF Parsed
    <3> QED BY <3>6 DEF x, s
  <2> QED BY <2>7, <2>8
<1> QED BY <1>7, <1>8

\* A symbol of the body.
LEMMA FeedBody ==
    ASSUME ServerAssumption, NEW r \in Requests, NEW n \in Nat, n < Len(r), NEW h, NEW prev,
           Sound(h, prev), h.status = "HTTP_BODY", Parsed(r, n, h, prev)
    PROVE  Parsed(r, n + 1, feed(h, prev, r[n + 1]).http, feed(h, prev, r[n + 1]).prev)
<1> DEFINE s == r[n + 1]
           x == feed(h, prev, s)
           end == HeadersEnd(r)
           status == IF Len(h.body) + 1 = h.bodyLen THEN "END_PARSE" ELSE "HTTP_BODY"
           body == Append(h.body, s)
<1>1. h \in Https /\ h.bodyLen \in Nat /\ Len(r) \in Nat
  BY SymbolsOf DEF Sound, Https
<1>2. LineEnds(r) \subseteq Nat /\ BlankEnds(r) \subseteq LineEnds(r)
  BY LineEndsAre
<1>3. /\ BlankEnds(r) # {} /\ end <= n /\ n < end + h.bodyLen
      /\ h.body = SubSeq(r, end + 1, n)
      /\ LengthIs(r, h, Lengths(r)) /\ FromFirstLine(r, h)
  BY DEF Parsed, ParsedBody
<1>4. end \in BlankEnds(r)
  BY <1>2, <1>3, LeastExists DEF HeadersEnd
<1>5. end \in Nat /\ end > 0
  BY <1>2, <1>4 DEF LineEnds
<1>6. x.http = [h EXCEPT !.body = body, !.status = status] /\ x.prev = prev
  BY <1>1 DEF feed, feedBody, Https
<1>7. body = SubSeq(r, end + 1, n + 1) /\ Len(h.body) = n - end /\ body \in Seq(Symbols)
  <2> HIDE DEF end
  <2>1. body = SubSeq(r, end + 1, n + 1)
    BY <1>3, <1>5, PartGrows
  <2>2. Len(h.body) = n - end
    BY <1>1, <1>3, <1>5, PartOf
  <2>3. SubSeq(r, end + 1, n + 1) \in Seq(Symbols)
    BY <1>1, <1>5, PartOf
  <2> QED BY <2>1, <2>2, <2>3
<1> HIDE DEF end, body
<1>8. \/ status = "END_PARSE" /\ n + 1 = end + h.bodyLen
      \/ status = "HTTP_BODY" /\ n + 1 < end + h.bodyLen
  <2> DEFINE bodyLen == h.bodyLen
             read == Len(h.body)
  <2>1. bodyLen \in Nat /\ read = n - end /\ n < end + bodyLen /\ end <= n
    BY <1>1, <1>3, <1>7
  <2>2. CASE read + 1 = bodyLen
    <3>1. n + 1 = end + bodyLen
      <4> HIDE DEF bodyLen, read, status
      <4> QED BY <1>5, <2>1, <2>2
    <3> QED BY <2>2, <3>1
  <2>3. CASE read + 1 # bodyLen
    <3>1. n + 1 < end + bodyLen
      <4> HIDE DEF bodyLen, read, status
      <4> QED BY <1>5, <2>1, <2>3
    <3> QED BY <2>3, <3>1
  <2> QED BY <2>2, <2>3
<1>9. status \in Statuses
  BY DEF Statuses
<1> HIDE DEF status
<1>10. /\ x.http.status = status /\ x.http.bodyLen = h.bodyLen /\ x.http.hasBody = h.hasBody
       /\ x.http.body = body /\ x.http.method = h.method /\ x.http.url = h.url
  BY <1>1, <1>6, <1>7, <1>9 DEF Https
<1> HIDE DEF x
<1>11. LengthIs(r, x.http, Lengths(r)) /\ FromFirstLine(r, x.http)
  BY <1>3, <1>10 DEF LengthIs, FromFirstLine
<1>12. CASE status = "HTTP_BODY"
  <2>1. ParsedBody(r, n + 1, x.http)
    BY <1>1, <1>3, <1>5, <1>7, <1>8, <1>10, <1>11, <1>12 DEF ParsedBody, end
  <2>2. Parsed(r, n + 1, x.http, x.prev)
    BY <1>10, <1>12, <2>1 DEF Parsed
  <2> QED BY <2>2 DEF x, s
<1>13. CASE status = "END_PARSE"
  <2>1. BodyLength(r) = h.bodyLen
    <3>1. FirstEnd(r) \in Nat
      <4>1. LineEnds(r) # {}
        BY <1>2, <1>4
      <4> QED BY <1>2, <4>1, LeastExists DEF FirstEnd
    <3> QED BY <1>3, <1>5, <3>1, LengthAgrees DEF end
  <2>2. end + BodyLength(r) = n + 1 /\ n + 1 <= Len(r)
    BY <1>1, <1>8, <1>13, <2>1
  <2>3. Complete(r)
    BY <1>3, <2>2 DEF Complete, end
  <2>4. body = Body(r)
    BY <1>7, <2>2 DEF Body, end
  <2>5. ParsedAll(r, x.http)
    BY <1>10, <1>11, <2>3, <2>4 DEF ParsedAll
  <2>6. Parsed(r, n + 1, x.http, x.prev)
    BY <1>10, <1>13, <2>5 DEF Parsed
  <2> QED BY <2>6 DEF x, s
<1> QED BY <1>8, <1>12, <1>13
\* A symbol, wherever the parser is.
LEMMA FeedParsed ==
    ASSUME ServerAssumption, NEW r \in Requests, r[1] \notin {CR, LF}, NEW n \in Nat, n < Len(r), NEW h, NEW prev,
           Sound(h, prev), Started(r, n, h), Parsed(r, n, h, prev),
           h.status \in {"FIRST_LINE", "HTTP_HEADERS", "HTTP_BODY"}
    PROVE  Parsed(r, n + 1, feed(h, prev, r[n + 1]).http, feed(h, prev, r[n + 1]).prev)
<1>1. CASE h.status = "FIRST_LINE"
  BY <1>1, FeedFirstLine
<1>2. CASE h.status = "HTTP_HEADERS"
  BY <1>2, FeedHeaders
<1>3. CASE h.status = "HTTP_BODY"
  BY <1>3, FeedBody
<1> QED BY <1>1, <1>2, <1>3
-----------------------------------------------------------------------------
(* The invariant.                                                          *)

\* A new HTTP object has read nothing, whatever the static holds.
LEMMA NewIsSound ==
    ASSUME ServerAssumption, NEW prev
    PROVE  /\ Sound(NewHTTP, prev) /\ NewHTTP.status = "FIRST_LINE"
           /\ \A r \in Requests : Started(r, 0, NewHTTP) /\ Parsed(r, 0, NewHTTP, prev)
<1> DEFINE none == <<>>
           no == FALSE
           zero == 0
<1>1. none \in Seq(Symbols) /\ no \in BOOLEAN /\ zero \in Nat /\ ~(zero > 0)
  BY EmptySeq
<1>2. "NULL" \in Urls /\ "UNDEFINED_METHOD" \in Methods
  BY DEF Urls, Methods
<1>3. /\ NewHTTP \in Https /\ NewHTTP.status = "FIRST_LINE" /\ NewHTTP.bodyLen = 0
      /\ ~NewHTTP.hasBody /\ NewHTTP.body = <<>> /\ NewHTTP.line = <<>>
  BY <1>1, <1>2 DEF NewHTTP, Https, Statuses
<1>4. Sound(NewHTTP, prev)
  BY <1>3 DEF Sound
<1>5. ASSUME NEW r \in Requests PROVE Started(r, 0, NewHTTP) /\ Parsed(r, 0, NewHTTP, prev)
  <2>1. SubSeq(r, 1, 0) = <<>>
    BY SubSeqEmpty
  <2>2. \A i \in LineEnds(r) : 0 < i
    BY DEF LineEnds
  <2> QED BY <1>3, <2>1, <2>2 DEF Started, Parsed
<1> QED BY <1>3, <1>4, <1>5

\* Nothing but an answer touches the answers, and nothing but a PUT /threshold the threshold.
LEMMA AnswersKept ==
    ASSUME ServerAssumption, QueueInv, AnswersOwnRequest, ThresholdFromWholeBody,
           \A c \in Client : client'[c].reply = client[c].reply,
           \A c \in Client : client'[c].request = client[c].request \/ client[c].state = "idle",
           threshold' = threshold \/ threshold' = InitThreshold
    PROVE  AnswersOwnRequest' /\ ThresholdFromWholeBody'
<1>1. \A c \in Client : client[c].state = "idle" => client[c].reply = NoReply /\ client[c].request = <<>>
  BY DEF QueueInv, Idle
<1>2. AnswersOwnRequest'
  BY <1>1 DEF AnswersOwnRequest
<1>3. ThresholdFromWholeBody'
  <2>1. CASE \E c \in Client : /\ client[c].request # <<>> /\ SetsThreshold(client[c].request)
                               /\ atoi(Body(client[c].request)) = threshold
    <3>1. PICK c \in Client : /\ client[c].request # <<>> /\ SetsThreshold(client[c].request)
                              /\ atoi(Body(client[c].request)) = threshold
      BY <2>1
    <3>2. client'[c].request = client[c].request
      BY <1>1, <3>1
    <3> QED BY <3>1, <3>2, Zenon DEF ThresholdFromWholeBody
  <2> QED BY <2>1 DEF ThresholdFromWholeBody
<1> QED BY <1>2, <1>3

\* What the task is doing fits the parser as long as both stay, with the request being read.
LEMMA TaskKept ==
    ASSUME TaskInv, UNCHANGED <<server, cur, fed, http, previousChar, selectFailed>>,
           server \in {"reading", "dispatch"} => client'[cur].request = client[cur].request
    PROVE  TaskInv'
<1>1. CASE server \in {"reading", "dispatch"}
  BY <1>1 DEF TaskInv
<1>2. CASE server \notin {"reading", "dispatch"}
  BY <1>2 DEF TaskInv
<1> QED BY <1>1, <1>2

\* The invariant holds when the server starts.
LEMMA InitInv == ServerAssumption /\ Init => HttpInv
<1> SUFFICES ASSUME ServerAssumption, Init PROVE HttpInv
  OBVIOUS
<1>1. Idle \in ClientRecord /\ Idle.state = "idle" /\ Idle.arrived = 0 /\ Idle.request = <<>> /\ Idle.reply = NoReply
  BY DEF Idle, NoReply, ClientRecord, ClientStates, Replies, Urls
<1>2. client \in [Client -> ClientRecord] /\ \A c \in Client : client[c] = Idle
  <2> HIDE DEF Idle, ClientRecord
  <2> QED BY <1>1 DEF Init
<1>3. cur \in Client
  BY DEF Init, ServerAssumption
<1>4. backlog = <<>> /\ backlog \in Seq(Client) /\ Len(backlog) = 0 /\ DOMAIN backlog = {}
  BY EmptySeq DEF Init
<1>5. QueueInv
  <2>1. \A c \in Client : client[c].arrived <= Len(client[c].request)
    BY <1>1, <1>2
  <2>2. \A c \in Client : client[c].state = "idle" /\ client[c] = Idle
    BY <1>1, <1>2
  <2>3. Len(backlog) <= Backlog /\ fed \in Nat /\ fed <= client[cur].arrived /\ quiet \in 0 .. MaxQuiet
    BY <1>1, <1>2, <1>3, <1>4 DEF Init, ServerAssumption
  <2>4. threshold \in Nat /\ selectFailed \in BOOLEAN /\ server = "accept"
    BY DEF Init, ServerAssumption
  <2> QED BY <1>2, <1>3, <1>4, <2>1, <2>2, <2>3, <2>4, Zenon DEF QueueInv
<1>6. TaskInv
  BY NewIsSound DEF Init, TaskInv, CR
<1>7. AnswersOwnRequest /\ ThresholdFromWholeBody
  BY <1>1, <1>2 DEF Init, AnswersOwnRequest, ThresholdFromWholeBody
<1> QED BY <1>5, <1>6, <1>7 DEF HttpInv

\* A connection joins the backlog: it was in it nowhere, and is not being served.
LEMMA ConnectStep ==
    ASSUME ServerAssumption, HttpInv, NEW c \in Client, Connect(c)
    PROVE  HttpInv'
<1>1. QueueInv /\ TaskInv /\ AnswersOwnRequest /\ ThresholdFromWholeBody
  BY DEF HttpInv
<1>2. PICK r \in Requests : client' = [client EXCEPT ![c].state = "connected", ![c].request = r]
  BY DEF Connect
<1>3. client[c].state = "idle" /\ client[c] = Idle /\ client[c] \in ClientRecord
  BY <1>1 DEF Connect, QueueInv
<1> DEFINE rec == [client[c] EXCEPT !.state = "connected", !.request = r]
<1>4. /\ rec \in ClientRecord /\ rec.state = "connected" /\ rec.request = r /\ rec.arrived = 0
      /\ rec.reply = client[c].reply
  <2>1. "connected" \in ClientStates /\ r \in Requests \cup {<<>>}
    BY DEF ClientStates
  <2>2. rec \in ClientRecord
    BY <1>3, <2>1 DEF ClientRecord
  <2>3. rec.state = "connected" /\ rec.request = r /\ rec.arrived = client[c].arrived /\ rec.reply = client[c].reply
    BY <1>3 DEF ClientRecord
  <2> QED BY <1>3, <2>2, <2>3 DEF Idle
<1>5. client' = [client EXCEPT ![c] = rec]
  BY <1>1, <1>2 DEF QueueInv
<1> HIDE DEF rec
<1>6. client' \in [Client -> ClientRecord] /\ client'[c] = rec /\ \A d \in Client : d # c => client'[d] = client[d]
  BY <1>1, <1>4, <1>5 DEF QueueInv
<1>7. UNCHANGED <<server, cur, fed, quiet, http, previousChar, threshold, selectFailed>>
  BY DEF Connect, parser
<1>8. \A i \in DOMAIN backlog : backlog[i] \in Client /\ backlog[i] # c
  BY <1>1, <1>3 DEF QueueInv
<1>9. /\ backlog' \in Seq(Client) /\ Len(backlog') = Len(backlog) + 1 /\ Len(backlog') <= Backlog
      /\ DOMAIN backlog = 1 .. Len(backlog) /\ DOMAIN backlog' = 1 .. Len(backlog) + 1 /\ Len(backlog) \in Nat
      /\ \A i \in DOMAIN backlog : backlog'[i] = backlog[i]
      /\ backlog'[Len(backlog) + 1] = c
  BY <1>1 DEF Connect, QueueInv, ServerAssumption
<1>10. \A i \in DOMAIN backlog' : i \in DOMAIN backlog \/ i = Len(backlog) + 1
  BY <1>9
<1>11. server # "accept" => cur # c
  BY <1>1, <1>3 DEF QueueInv
<1>12. QueueInv'
  <2>1. \A d \in Client : /\ IF client'[d].state = "idle" THEN client'[d] = Idle ELSE client'[d].request \in Requests
                          /\ client'[d].arrived <= Len(client'[d].request)
    <3>1. Len(r) \in Nat
      BY SymbolsOf
    <3> QED BY <1>1, <1>4, <1>6, <3>1 DEF QueueInv
  <2>2. \A i, j \in DOMAIN backlog' : backlog'[i] = backlog'[j] => i = j
    BY <1>1, <1>8, <1>9, <1>10 DEF QueueInv
  <2>3. \A i \in DOMAIN backlog' : client'[backlog'[i]].state = "connected"
    BY <1>1, <1>4, <1>6, <1>8, <1>9, <1>10 DEF QueueInv
  <2>4. server' # "accept" => /\ client'[cur'].state = "connected"
                              /\ \A i \in DOMAIN backlog' : backlog'[i] # cur'
    BY <1>1, <1>6, <1>7, <1>9, <1>10, <1>11 DEF QueueInv
  <2>5. cur' \in Client /\ fed' \in Nat /\ fed' <= client'[cur'].arrived
    <3>1. cur \in Client /\ fed \in Nat /\ fed <= client[cur].arrived
      BY <1>1 DEF QueueInv
    <3>2. client'[cur].arrived = client[cur].arrived
      BY <1>3, <1>4, <1>6, <3>1 DEF Idle
    <3> QED BY <1>7, <3>1, <3>2
  <2>6. /\ server' \in {"accept", "reading", "dispatch", "close"} /\ quiet' \in 0 .. MaxQuiet
        /\ threshold' \in Nat /\ selectFailed' \in BOOLEAN
    BY <1>1, <1>7 DEF QueueInv
  <2> QED BY <1>6, <1>9, <2>1, <2>2, <2>3, <2>4, <2>5, <2>6 DEF QueueInv
<1>13. TaskInv'
  BY <1>1, <1>6, <1>7, <1>11, TaskKept DEF QueueInv
<1>14. AnswersOwnRequest' /\ ThresholdFromWholeBody'
  BY <1>1, <1>3, <1>4, <1>6, <1>7, AnswersKept
<1> QED BY <1>12, <1>13, <1>14 DEF HttpInv

\* A step that leaves everybody's place and request as they are keeps the queue.
LEMMA QueueKept ==
    ASSUME QueueInv, UNCHANGED <<backlog, cur>>, server # "accept", server' \in {"reading", "dispatch", "close"},
           client' \in [Client -> ClientRecord],
           \A c \in Client : /\ client'[c].state = client[c].state /\ client'[c].request = client[c].request
                             /\ client'[c].arrived <= Len(client[c].request)
                             /\ c # cur => client'[c] = client[c],
           fed' \in Nat, fed' <= client'[cur].arrived, quiet' \in 0 .. MaxQuiet, threshold' \in Nat,
           selectFailed' \in BOOLEAN
    PROVE  QueueInv'
<1>1. client[cur].state = "connected" /\ cur \in Client
  BY DEF QueueInv
<1>2. \A c \in Client : IF client'[c].state = "idle" THEN client'[c] = Idle ELSE client'[c].request \in Requests
  BY <1>1 DEF QueueInv
<1>3. \A i \in DOMAIN backlog : client'[backlog[i]].state = "connected"
  BY DEF QueueInv
<1>4. client'[cur].state = "connected" /\ \A i \in DOMAIN backlog : backlog[i] # cur
  BY <1>1 DEF QueueInv
<1> QED BY <1>1, <1>2, <1>3, <1>4 DEF QueueInv

\* A symbol arrives at the connection being read, or its client leaves.
LEMMA DeliverStep ==
    ASSUME ServerAssumption, HttpInv, NEW c \in Client, Deliver(c) \/ Abandon(c)
    PROVE  HttpInv'
<1>1. QueueInv /\ TaskInv /\ AnswersOwnRequest /\ ThresholdFromWholeBody
  BY DEF HttpInv
<1>2. /\ server = "reading" /\ cur = c
      /\ UNCHANGED <<backlog, server, cur, fed, quiet, http, previousChar, threshold, selectFailed>>
  BY DEF Deliver, Abandon, parser
<1>3. client[c] \in ClientRecord /\ client[c].arrived \in Nat /\ Len(client[c].request) \in Nat
  <2>1. client[c] \in ClientRecord /\ client[c].request \in Requests
    BY <1>1, <1>2 DEF QueueInv
  <2> QED BY <2>1, SymbolsOf DEF ClientRecord
<1>4. /\ client' \in [Client -> ClientRecord] /\ \A d \in Client : d # c => client'[d] = client[d]
      /\ client'[c].state = client[c].state /\ client'[c].request = client[c].request
      /\ client'[c].reply = client[c].reply
      /\ client'[c].arrived >= client[c].arrived /\ client'[c].arrived <= Len(client[c].request)
  <2>1. CASE Deliver(c)
    <3> DEFINE more == client[c].arrived + 1
               rec == [client[c] EXCEPT !.arrived = more]
    <3>1. client' = [client EXCEPT ![c] = rec] /\ client[c].arrived < Len(client[c].request)
      BY <2>1 DEF Deliver
    <3>2. more \in Nat /\ more >= client[c].arrived /\ more <= Len(client[c].request)
      BY <1>3, <3>1
    <3> HIDE DEF more
    <3>3. /\ rec \in ClientRecord /\ rec.state = client[c].state /\ rec.request = client[c].request
          /\ rec.reply = client[c].reply /\ rec.arrived = more
      BY <1>3, <3>2 DEF ClientRecord
    <3> HIDE DEF rec
    <3> QED BY <1>1, <3>1, <3>2, <3>3 DEF QueueInv
  <2>2. CASE Abandon(c)
    <3> DEFINE yes == TRUE
               rec == [client[c] EXCEPT !.gone = yes]
    <3>1. client' = [client EXCEPT ![c] = rec]
      BY <2>2 DEF Abandon
    <3>2. yes \in BOOLEAN
      OBVIOUS
    <3> HIDE DEF yes
    <3>3. /\ rec \in ClientRecord /\ rec.state = client[c].state /\ rec.request = client[c].request
          /\ rec.reply = client[c].reply /\ rec.arrived = client[c].arrived
      BY <1>3, <3>2 DEF ClientRecord
    <3> HIDE DEF rec
    <3>4. client[c].arrived <= Len(client[c].request)
      BY <1>1 DEF QueueInv
    <3> QED BY <1>1, <1>3, <3>1, <3>3, <3>4 DEF QueueInv
  <2> QED BY <2>1, <2>2
<1>5. QueueInv'
  <2>1. \A d \in Client : /\ client'[d].state = client[d].state /\ client'[d].request = client[d].request
                          /\ client'[d].arrived <= Len(client[d].request)
                          /\ d # cur => client'[d] = client[d]
    BY <1>1, <1>2, <1>4 DEF QueueInv
  <2>2. fed' \in Nat /\ fed' <= client'[cur].arrived
    <3>1. client'[c].arrived \in Nat /\ fed \in Nat /\ fed <= client[c].arrived
      BY <1>1, <1>2, <1>4 DEF QueueInv, ClientRecord
    <3> QED BY <1>2, <1>3, <1>4, <3>1
  <2>3. quiet' \in 0 .. MaxQuiet /\ threshold' \in Nat /\ selectFailed' \in BOOLEAN
    BY <1>1, <1>2 DEF QueueInv
  <2> QED BY <1>1, <1>2, <1>4, <2>1, <2>2, <2>3, QueueKept
<1>6. TaskInv'
  BY <1>1, <1>2, <1>4, TaskKept
<1>7. AnswersOwnRequest' /\ ThresholdFromWholeBody'
  BY <1>1, <1>2, <1>4, AnswersKept
<1> QED BY <1>5, <1>6, <1>7 DEF HttpInv

\* The oldest connection of the backlog is taken, with a new HTTP object and the old static.
LEMMA AcceptStep ==
    ASSUME ServerAssumption, HttpInv, Accept
    PROVE  HttpInv'
<1>1. QueueInv /\ TaskInv /\ AnswersOwnRequest /\ ThresholdFromWholeBody
  BY DEF HttpInv
<1>2. /\ server = "accept" /\ backlog # <<>> /\ cur' = Head(backlog) /\ backlog' = Tail(backlog)
      /\ http' = NewHTTP /\ fed' = 0 /\ quiet' = 0 /\ server' = "reading"
      /\ UNCHANGED <<client, previousChar, threshold, selectFailed>>
  BY DEF Accept
<1>3. backlog \in Seq(Client) /\ Len(backlog) <= Backlog
  BY <1>1 DEF QueueInv
<1>4. /\ Len(backlog) \in Nat /\ Len(backlog) > 0 /\ DOMAIN backlog = 1 .. Len(backlog)
      /\ Head(backlog) = backlog[1] /\ 1 \in DOMAIN backlog
      /\ Tail(backlog) \in Seq(Client) /\ Len(Tail(backlog)) = Len(backlog) - 1
      /\ DOMAIN Tail(backlog) = 1 .. Len(backlog) - 1
      /\ \A i \in 1 .. Len(backlog) - 1 : Tail(backlog)[i] = backlog[i + 1]
  BY <1>2, <1>3
<1>5. \A i \in DOMAIN backlog' : i + 1 \in DOMAIN backlog /\ i + 1 # 1 /\ i \in Nat /\ backlog'[i] = backlog[i + 1]
  BY <1>2, <1>4
<1>6. cur' \in Client /\ client[cur'].state = "connected" /\ client[cur'].arrived \in Nat
      /\ client[cur'].request \in Requests
  <2>1. cur' \in Client /\ client[cur'].state = "connected"
    BY <1>1, <1>2, <1>3, <1>4 DEF QueueInv
  <2> QED BY <1>1, <2>1 DEF QueueInv, ClientRecord
<1>7. QueueInv'
  <2>1. \A i, j \in DOMAIN backlog' : backlog'[i] = backlog'[j] => i = j
    <3> SUFFICES ASSUME NEW i \in DOMAIN backlog', NEW j \in DOMAIN backlog', backlog'[i] = backlog'[j] PROVE i = j
      OBVIOUS
    <3>1. i + 1 = j + 1
      BY <1>1, <1>5 DEF QueueInv
    <3> QED BY <1>5, <3>1
  <2>2. \A i \in DOMAIN backlog' : client[backlog'[i]].state = "connected" /\ backlog'[i] # cur'
    BY <1>1, <1>2, <1>4, <1>5 DEF QueueInv
  <2>3. backlog' \in Seq(Client) /\ Len(backlog') <= Backlog
    BY <1>2, <1>3, <1>4 DEF ServerAssumption
  <2>4. fed' \in Nat /\ fed' <= client'[cur'].arrived /\ quiet' \in 0 .. MaxQuiet
    BY <1>2, <1>6 DEF ServerAssumption
  <2> QED BY <1>1, <1>2, <1>6, <2>1, <2>2, <2>3, <2>4 DEF QueueInv
<1>8. TaskInv'
  <2>1. client'[cur'].request \in Requests
    BY <1>2, <1>6
  <2>2. Sound(http', previousChar') /\ http'.status = "FIRST_LINE"
    BY <1>2, NewIsSound
  <2>3. /\ Started(client'[cur'].request, fed', http')
        /\ Parsed(client'[cur'].request, fed', http', previousChar')
    BY <1>2, <2>1, NewIsSound
  <2> QED BY <1>2, <2>2, <2>3 DEF TaskInv
<1>9. AnswersOwnRequest' /\ ThresholdFromWholeBody'
  BY <1>1, <1>2, AnswersKept
<1> QED BY <1>7, <1>8, <1>9 DEF HttpInv

\* One more symbol is fed.
LEMMA ReadByteStep ==
    ASSUME ServerAssumption, HttpInv, ReadByte
    PROVE  HttpInv'
<1>1. QueueInv /\ TaskInv /\ AnswersOwnRequest /\ ThresholdFromWholeBody
  BY DEF HttpInv
<1> DEFINE r == client[cur].request
           next == feed(http, previousChar, r[fed + 1])
<1>2. /\ server = "reading" /\ fed < client[cur].arrived /\ fed' = fed + 1 /\ quiet' = 0
      /\ http' = next.http /\ previousChar' = next.prev
      /\ UNCHANGED <<client, backlog, cur, threshold, selectFailed>>
  BY DEF ReadByte
<1>3. server' = IF next.http.status = "PARSE_ERROR" THEN "close"
                ELSE IF needMoreData(next.http) THEN "reading" ELSE "dispatch"
  BY DEF ReadByte
<1>4. /\ client[cur].state = "connected" /\ r \in Requests /\ client[cur].arrived \in Nat
      /\ fed \in Nat /\ client[cur].arrived <= Len(r) /\ Len(r) \in Nat
  <2>1. cur \in Client /\ client[cur].state = "connected" /\ client[cur] \in ClientRecord
    BY <1>1, <1>2 DEF QueueInv
  <2>2. r \in Requests
    BY <1>1, <2>1 DEF QueueInv
  <2> QED BY <1>1, <2>1, <2>2, SymbolsOf DEF QueueInv, ClientRecord
<1>5. /\ Sound(http, previousChar) /\ Started(r, fed, http)
      /\ r[1] \notin {CR, LF} => Parsed(r, fed, http, previousChar)
      /\ http.status \in {"FIRST_LINE", "HTTP_HEADERS", "HTTP_BODY"}
  BY <1>1, <1>2 DEF TaskInv
<1>6. fed < Len(r)
  BY <1>2, <1>4
<1> HIDE DEF r
<1>7. Sound(next.http, next.prev) /\ Started(r, fed + 1, next.http)
  BY <1>4, <1>5, <1>6, FeedSound
<1>8. r[1] \notin {CR, LF} => Parsed(r, fed + 1, next.http, next.prev)
  BY <1>4, <1>5, <1>6, FeedParsed
<1> HIDE DEF next
<1>9. next.http.status \in Statuses
  BY <1>7 DEF Sound, Https
<1>10. \/ server' = "close" /\ next.http.status = "PARSE_ERROR"
       \/ server' = "dispatch" /\ next.http.status = "END_PARSE"
       \/ server' = "reading" /\ next.http.status \in {"FIRST_LINE", "HTTP_HEADERS", "HTTP_BODY"}
  <2>1. CASE next.http.status = "PARSE_ERROR"
    BY <1>3, <2>1
  <2>2. CASE next.http.status = "END_PARSE"
    BY <1>3, <2>2 DEF needMoreData
  <2>3. CASE next.http.status \in {"FIRST_LINE", "HTTP_HEADERS", "HTTP_BODY"}
    <3>1. needMoreData(next.http) /\ next.http.status # "PARSE_ERROR"
      BY <2>3 DEF needMoreData
    <3>2. server' = "reading"
      BY <1>3, <3>1
    <3> QED BY <2>3, <3>2
  <2> QED BY <1>9, <2>1, <2>2, <2>3 DEF Statuses
<1>11. QueueInv'
  <2>1. fed' \in Nat /\ fed' <= client'[cur].arrived
    BY <1>2, <1>4
  <2>2. quiet' \in 0 .. MaxQuiet /\ threshold' \in Nat /\ selectFailed' \in BOOLEAN
    BY <1>1, <1>2 DEF QueueInv, ServerAssumption
  <2>3. /\ client' \in [Client -> ClientRecord]
        /\ \A c \in Client : client'[c] = client[c] /\ client'[c].arrived <= Len(client[c].request)
    BY <1>1, <1>2 DEF QueueInv
  <2>4. server # "accept" /\ server' \in {"reading", "dispatch", "close"} /\ UNCHANGED <<backlog, cur>>
    BY <1>2, <1>10
  <2> QED BY <1>1, <2>1, <2>2, <2>3, <2>4, QueueKept
<1>12. TaskInv'
  <2>1. client'[cur'].request = r
    BY <1>2 DEF r
  <2>2. Sound(http', previousChar') /\ Started(r, fed', http')
    BY <1>2, <1>7
  <2>3. r[1] \notin {CR, LF} => Parsed(r, fed', http', previousChar')
    BY <1>2, <1>8
  <2>4. server' = "close" => previousChar' # CR
    BY <1>2, <1>7, <1>10 DEF Sound
  <2> QED BY <1>2, <1>10, <2>1, <2>2, <2>3, <2>4 DEF TaskInv
<1>13. AnswersOwnRequest' /\ ThresholdFromWholeBody'
  BY <1>1, <1>2, AnswersKept
<1> QED BY <1>11, <1>12, <1>13 DEF HttpInv

\* A round of select without a byte, or with an error.
LEMMA SelectStep ==
    ASSUME ServerAssumption, HttpInv, SelectQuiet \/ SelectFails
    PROVE  HttpInv'
<1>1. QueueInv /\ TaskInv /\ AnswersOwnRequest /\ ThresholdFromWholeBody
  BY DEF HttpInv
<1>2. /\ server = "reading" /\ UNCHANGED <<client, backlog, cur, fed, http, previousChar, threshold>>
      /\ \/ server' = "close" /\ selectFailed' = TRUE /\ UNCHANGED quiet
         \/ UNCHANGED <<server, selectFailed>> /\ quiet' = quiet + 1 /\ quiet < MaxQuiet
  BY DEF SelectQuiet, SelectFails, parser
<1>3. QueueInv'
  <2>1. quiet' \in 0 .. MaxQuiet /\ selectFailed' \in BOOLEAN /\ server' \in {"reading", "dispatch", "close"}
    <3>1. quiet \in 0 .. MaxQuiet /\ selectFailed \in BOOLEAN /\ MaxQuiet \in Nat
      BY <1>1 DEF QueueInv, ServerAssumption
    <3>2. CASE server' = "close" /\ selectFailed' = TRUE /\ UNCHANGED quiet
      BY <3>1, <3>2
    <3>3. CASE UNCHANGED <<server, selectFailed>> /\ quiet' = quiet + 1 /\ quiet < MaxQuiet
      BY <1>2, <3>1, <3>3
    <3> QED BY <1>2, <3>2, <3>3
  <2> QED BY <1>1, <1>2, <2>1 DEF QueueInv
<1>4. TaskInv'
  <2>1. CASE server' = "close" /\ selectFailed' = TRUE
    BY <1>1, <1>2, <2>1 DEF TaskInv
  <2>2. CASE UNCHANGED <<server, selectFailed>>
    BY <1>1, <1>2, <2>2, TaskKept
  <2> QED BY <1>2, <2>1, <2>2
<1>5. AnswersOwnRequest' /\ ThresholdFromWholeBody'
  BY <1>1, <1>2, AnswersKept
<1> QED BY <1>3, <1>4, <1>5 DEF HttpInv

\* The connection is closed: what the parser has left in the static holds no CR.
LEMMA CloseStep ==
    ASSUME ServerAssumption, HttpInv, Close
    PROVE  HttpInv'
<1>1. QueueInv /\ TaskInv /\ AnswersOwnRequest /\ ThresholdFromWholeBody
  BY DEF HttpInv
<1> DEFINE closed == "closed"
           rec == [client[cur] EXCEPT !.state = closed]
<1>2. /\ server = "close" /\ server' = "accept" /\ client' = [client EXCEPT ![cur] = rec]
      /\ UNCHANGED <<backlog, cur, fed, quiet, http, previousChar, threshold, selectFailed>>
  BY DEF Close, parser
<1>3. cur \in Client /\ client[cur] \in ClientRecord /\ client[cur].state = "connected"
  BY <1>1, <1>2 DEF QueueInv
<1>4. closed \in ClientStates /\ closed # "idle"
  BY DEF ClientStates
<1>5. /\ rec \in ClientRecord /\ rec.state = closed /\ rec.request = client[cur].request
      /\ rec.arrived = client[cur].arrived /\ rec.reply = client[cur].reply
  <2> HIDE DEF closed
  <2> QED BY <1>3, <1>4 DEF ClientRecord
<1> HIDE DEF rec, closed
<1>6. client' \in [Client -> ClientRecord] /\ client'[cur] = rec /\ \A c \in Client : c # cur => client'[c] = client[c]
  BY <1>1, <1>2, <1>3, <1>5 DEF QueueInv
<1>7. QueueInv'
  <2>1. \A c \in Client : /\ IF client'[c].state = "idle" THEN client'[c] = Idle ELSE client'[c].request \in Requests
                          /\ client'[c].arrived <= Len(client'[c].request)
    BY <1>1, <1>3, <1>4, <1>5, <1>6 DEF QueueInv
  <2>2. \A i \in DOMAIN backlog : client'[backlog[i]].state = "connected"
    BY <1>1, <1>2, <1>6 DEF QueueInv
  <2>3. fed <= client'[cur].arrived
    BY <1>1, <1>5, <1>6 DEF QueueInv
  <2> QED BY <1>1, <1>2, <1>6, <2>1, <2>2, <2>3 DEF QueueInv
<1>8. TaskInv'
  BY <1>1, <1>2 DEF TaskInv
<1>9. AnswersOwnRequest' /\ ThresholdFromWholeBody'
  BY <1>1, <1>2, <1>3, <1>5, <1>6, AnswersKept
<1> QED BY <1>7, <1>8, <1>9 DEF HttpInv

\* An answer: it is the one the request deserves when the handler's code is.
LEMMA Answered ==
    ASSUME ServerAssumption, HttpInv, NEW code \in {200, 400, 404}, Answer(code),
           server = "dispatch", server' = "close",
           UNCHANGED <<backlog, cur, fed, quiet, http, previousChar, selectFailed>>, threshold' \in Nat,
           client[cur].request[1] \notin {CR, LF} => code = CodeOf(client[cur].request)
    PROVE  /\ QueueInv' /\ TaskInv' /\ AnswersOwnRequest'
           /\ \A c \in Client : client'[c].request = client[c].request
<1>1. QueueInv /\ TaskInv /\ AnswersOwnRequest
  BY DEF HttpInv
<1> DEFINE r == client[cur].request
           answer == [code |-> code, url |-> http.url]
           rec == [client[cur] EXCEPT !.reply = answer]
<1>2. cur \in Client /\ client[cur] \in ClientRecord /\ client[cur].state = "connected"
  BY <1>1 DEF QueueInv
<1>3. client' = [client EXCEPT ![cur] = rec]
  BY DEF Answer
<1>4. answer \in Replies
  BY <1>1 DEF TaskInv, Sound, Https, Replies
<1> HIDE DEF answer
<1>5. /\ rec \in ClientRecord /\ rec.state = "connected" /\ rec.request = r
      /\ rec.arrived = client[cur].arrived
  BY <1>2, <1>4 DEF ClientRecord
<1> HIDE DEF rec
<1>6. client' \in [Client -> ClientRecord] /\ client'[cur] = rec /\ \A c \in Client : c # cur => client'[c] = client[c]
  BY <1>1, <1>2, <1>3, <1>5 DEF QueueInv
<1>7. \A c \in Client : client'[c].request = client[c].request
  BY <1>2, <1>5, <1>6
<1>8. QueueInv'
  <2>1. \A c \in Client : /\ client'[c].state = client[c].state /\ client'[c].request = client[c].request
                          /\ client'[c].arrived <= Len(client[c].request)
                          /\ c # cur => client'[c] = client[c]
    BY <1>1, <1>2, <1>5, <1>6 DEF QueueInv
  <2>2. fed' \in Nat /\ fed' <= client'[cur].arrived /\ quiet' \in 0 .. MaxQuiet /\ selectFailed' \in BOOLEAN
    BY <1>1, <1>2, <1>5, <1>6 DEF QueueInv
  <2> QED BY <1>1, <1>6, <2>1, <2>2, QueueKept
<1>9. http.status = "END_PARSE"
  BY <1>1 DEF TaskInv
<1>10. TaskInv'
  BY <1>1, <1>9 DEF TaskInv, Sound
<1>11. r[1] \notin {CR, LF} => Complete(r)
  BY <1>1, <1>9 DEF TaskInv, Parsed, ParsedAll
<1>12. ASSUME NEW c \in Client, client'[c].reply # NoReply, client'[c].request[1] \notin {CR, LF}
       PROVE  Complete(client'[c].request) /\ client'[c].reply.code = CodeOf(client'[c].request)
  <2>1. CASE c = cur
    <3>1. client'[cur].reply = answer /\ answer.code = code
      <4>1. rec.reply = answer
        BY <1>2, <1>4 DEF rec, ClientRecord
      <4>2. answer.code = code
        BY DEF answer
      <4> QED BY <1>6, <4>1, <4>2
    <3> QED BY <1>7, <1>11, <1>12, <2>1, <3>1
  <2>2. CASE c # cur
    BY <1>1, <1>6, <1>12, <2>2 DEF AnswersOwnRequest
  <2> QED BY <2>1, <2>2
<1>13. AnswersOwnRequest'
  BY <1>12 DEF AnswersOwnRequest
<1> QED BY <1>7, <1>8, <1>10, <1>13

\* What the handlers see of a request that begins with its request line is what it says.
LEMMA Understood ==
    ASSUME ServerAssumption, HttpInv, server = "dispatch"
    PROVE  /\ client[cur].request \in Requests /\ cur \in Client
           /\ client[cur].request[1] \in {CR, LF} => http.method = "UNDEFINED_METHOD"
           /\ client[cur].request[1] \notin {CR, LF} =>
                 /\ ParsedAll(client[cur].request, http) /\ client[cur].request[1] \in DOMAIN RequestLine
                 /\ Found(http) <=> Found(Line(client[cur].request))
           /\ http \in Https
<1> DEFINE r == client[cur].request
<1>1. cur \in Client /\ r \in Requests
  BY DEF HttpInv, QueueInv
<1>2. Started(r, fed, http) /\ (r[1] \notin {CR, LF} => Parsed(r, fed, http, previousChar))
      /\ http.status = "END_PARSE" /\ http \in Https
  BY DEF HttpInv, TaskInv, Sound
<1>3. r[1] \in {CR, LF} => http.method = "UNDEFINED_METHOD"
  BY <1>2 DEF Started
<1>4. ASSUME r[1] \notin {CR, LF}
      PROVE  ParsedAll(r, http) /\ r[1] \in DOMAIN RequestLine /\ (Found(http) <=> Found(Line(r)))
  <2>1. ParsedAll(r, http)
    BY <1>2, <1>4 DEF Parsed
  <2>2. 1 \in DOMAIN r /\ 1 .. 1 - 1 = {}
    BY <1>1, SymbolsOf
  <2>3. r[1] \in DOMAIN RequestLine
    BY <1>1, <1>4, <2>2 DEF ServerAssumption
  <2>4. Found(http) <=> Found(Line(r))
    BY <2>1 DEF ParsedAll, FromFirstLine, Found
  <2> QED BY <2>1, <2>3, <2>4
<1> QED BY <1>1, <1>2, <1>3, <1>4

\* A handler that leaves the threshold alone, or none.
LEMMA DispatchOtherStep ==
    ASSUME ServerAssumption, HttpInv, DispatchOther
    PROVE  HttpInv'
<1> DEFINE r == client[cur].request
           code == IF Found(http) THEN 200 ELSE 404
<1>1. /\ server = "dispatch" /\ server' = "close" /\ Answer(code)
      /\ ~(http.method = "PUT" /\ http.url = "/threshold")
      /\ UNCHANGED <<backlog, cur, fed, quiet, http, previousChar, threshold, selectFailed>>
  BY DEF DispatchOther, parser
<1>2. code \in {200, 400, 404}
  OBVIOUS
<1>3. ASSUME r[1] \notin {CR, LF} PROVE code = CodeOf(r)
  <2>1. ParsedAll(r, http) /\ (Found(http) <=> Found(Line(r)))
    BY <1>1, <1>3, Understood
  <2>2. ~(Line(r).method = "PUT" /\ Line(r).url = "/threshold")
    BY <1>1, <2>1 DEF ParsedAll, FromFirstLine
  <2> QED BY <2>1, <2>2 DEF CodeOf
<1> HIDE DEF code
<1>4. threshold' \in Nat
  BY <1>1 DEF HttpInv, QueueInv
<1>5. QueueInv' /\ TaskInv' /\ AnswersOwnRequest' /\ \A c \in Client : client'[c].request = client[c].request
  BY <1>1, <1>2, <1>3, <1>4, Answered
<1>6. ThresholdFromWholeBody'
  BY <1>1, <1>5 DEF HttpInv, ThresholdFromWholeBody
<1> QED BY <1>5, <1>6 DEF HttpInv

\* setTemperature: a whole body of digits is stored, and answered as it deserves.
LEMMA DispatchThresholdStep ==
    ASSUME ServerAssumption, HttpInv, DispatchThreshold
    PROVE  HttpInv'
<1> DEFINE r == client[cur].request
           code == IF AllDigits(http.body) THEN 200 ELSE 400
<1>1. /\ server = "dispatch" /\ server' = "close" /\ Answer(code)
      /\ http.method = "PUT" /\ http.url = "/threshold"
      /\ threshold' = IF AllDigits(http.body) THEN atoi(http.body) ELSE threshold
      /\ UNCHANGED <<backlog, cur, fed, quiet, http, previousChar, selectFailed>>
  BY DEF DispatchThreshold, parser
<1>2. code \in {200, 400, 404}
  OBVIOUS
<1>3. /\ cur \in Client /\ r \in Requests /\ r[1] \notin {CR, LF} /\ http \in Https
      /\ ParsedAll(r, http) /\ r[1] \in DOMAIN RequestLine /\ (Found(http) <=> Found(Line(r)))
  BY <1>1, Understood
<1>4. /\ Line(r).method = "PUT" /\ Line(r).url = "/threshold" /\ http.body = Body(r) /\ Complete(r)
      /\ Line(r).hasUrl /\ Line(r).hasVersion
  BY <1>1, <1>3 DEF ParsedAll, FromFirstLine
<1>5. code = CodeOf(r)
  <2>1. Found(http)
    BY <1>1 DEF Found, matchersPut
  <2> QED BY <1>3, <1>4, <2>1 DEF CodeOf
<1>6. threshold' \in Nat
  <2>1. http.body \in Seq(Symbols)
    BY <1>3 DEF Https
  <2>2. threshold \in Nat
    BY DEF HttpInv, QueueInv
  <2> QED BY <1>1, <2>1, <2>2, AtoiNat
<1> HIDE DEF code
<1>7. QueueInv' /\ TaskInv' /\ AnswersOwnRequest' /\ \A c \in Client : client'[c].request = client[c].request
  BY <1>1, <1>2, <1>5, <1>6, Answered
<1>8. ThresholdFromWholeBody'
  <2>1. CASE AllDigits(http.body)
    <3>1. SetsThreshold(r) /\ r # <<>>
      BY <1>3, <1>4, <2>1 DEF SetsThreshold, ServerAssumption
    <3>2. threshold' = atoi(Body(r)) /\ client'[cur].request = r
      BY <1>1, <1>3, <1>4, <1>7, <2>1
    <3> QED BY <1>3, <3>1, <3>2, Zenon DEF ThresholdFromWholeBody
  <2>2. CASE ~AllDigits(http.body)
    BY <1>1, <1>7, <2>2 DEF HttpInv, ThresholdFromWholeBody
  <2> QED BY <2>1, <2>2
<1> QED BY <1>7, <1>8 DEF HttpInv

\* The chip reboots: everybody served or waiting is lost, and nothing is left of the parser.
LEMMA DispatchNullBodyStep ==
    ASSUME ServerAssumption, HttpInv, DispatchNullBody
    PROVE  HttpInv'
<1>1. QueueInv /\ TaskInv /\ AnswersOwnRequest /\ ThresholdFromWholeBody
  BY DEF HttpInv
<1> DEFINE lost == "lost"
           none == "none"
           rec(c) == IF client[c].state = "connected" THEN [client[c] EXCEPT !.state = lost] ELSE client[c]
<1>2. /\ server' = "accept" /\ backlog' = <<>> /\ http' = NewHTTP /\ previousChar' = none /\ none # CR
      /\ fed' = 0 /\ quiet' = 0 /\ threshold' = InitThreshold /\ UNCHANGED <<cur, selectFailed>>
      /\ client' = [c \in Client |-> rec(c)]
  BY DEF DispatchNullBody, CR
<1>3. lost \in ClientStates /\ lost # "idle"
  BY DEF ClientStates
<1>4. ASSUME NEW c \in Client
      PROVE  /\ rec(c) \in ClientRecord /\ rec(c).request = client[c].request
             /\ rec(c).reply = client[c].reply /\ rec(c).arrived = client[c].arrived
             /\ rec(c) = client[c] \/ (rec(c).state # "idle" /\ client[c].state # "idle")
  <2>1. client[c] \in ClientRecord
    BY <1>1 DEF QueueInv
  <2>2. CASE client[c].state = "connected"
    <3> DEFINE x == [client[c] EXCEPT !.state = lost]
    <3>1. rec(c) = x
      BY <2>2
    <3> HIDE DEF lost
    <3>2. x \in ClientRecord /\ x.request = client[c].request /\ x.state = lost
          /\ x.reply = client[c].reply /\ x.arrived = client[c].arrived
      BY <1>3, <2>1 DEF ClientRecord
    <3> HIDE DEF x, rec
    <3> QED BY <1>3, <2>2, <3>1, <3>2
  <2>3. CASE client[c].state # "connected"
    BY <2>1, <2>3
  <2> QED BY <2>2, <2>3
<1> HIDE DEF rec, lost
<1>5. client' \in [Client -> ClientRecord] /\ \A c \in Client : client'[c] = rec(c)
  BY <1>2, <1>4
<1>6. QueueInv'
  <2>1. backlog' \in Seq(Client) /\ DOMAIN backlog' = {} /\ Len(backlog') <= Backlog
    BY <1>2, EmptySeq DEF ServerAssumption
  <2>2. ASSUME NEW c \in Client
        PROVE  /\ IF client'[c].state = "idle" THEN client'[c] = Idle ELSE client'[c].request \in Requests
               /\ client'[c].arrived <= Len(client'[c].request)
    BY <1>1, <1>4, <1>5 DEF QueueInv
  <2>3. cur' \in Client /\ fed' \in Nat /\ fed' <= client'[cur'].arrived
    <3>1. cur \in Client
      BY <1>1 DEF QueueInv
    <3>2. client'[cur].arrived \in Nat
      BY <1>5, <3>1 DEF ClientRecord
    <3> QED BY <1>2, <3>1, <3>2
  <2>4. /\ server' = "accept" /\ quiet' \in 0 .. MaxQuiet /\ threshold' \in Nat /\ selectFailed' \in BOOLEAN
    BY <1>1, <1>2 DEF QueueInv, ServerAssumption
  <2> QED BY <1>5, <2>1, <2>2, <2>3, <2>4 DEF QueueInv
<1>7. TaskInv'
  <2>1. Sound(http', previousChar')
    BY <1>2, NewIsSound
  <2> QED BY <1>2, <2>1 DEF TaskInv
<1>8. AnswersOwnRequest' /\ ThresholdFromWholeBody'
  BY <1>1, <1>2, <1>4, <1>5, AnswersKept
<1> QED BY <1>6, <1>7, <1>8 DEF HttpInv

\* Every step keeps the invariant.
LEMMA StepInv == ServerAssumption /\ HttpInv /\ [Next]_vars => HttpInv'
<1> SUFFICES ASSUME ServerAssumption, HttpInv, [Next]_vars PROVE HttpInv'
  OBVIOUS
<1>1. ASSUME NEW c \in Client, Connect(c) PROVE HttpInv'
  BY <1>1, ConnectStep
<1>2. ASSUME NEW c \in Client, Deliver(c) \/ Abandon(c) PROVE HttpInv'
  BY <1>2, DeliverStep
<1>3. CASE Accept
  BY <1>3, AcceptStep
<1>4. CASE ReadByte
  BY <1>4, ReadByteStep
<1>5. CASE SelectQuiet \/ SelectFails
  BY <1>5, SelectStep
<1>6. CASE DispatchOther
  BY <1>6, DispatchOtherStep
<1>7. CASE DispatchThreshold
  BY <1>7, DispatchThresholdStep
<1>8. CASE DispatchNullBody
  BY <1>8, DispatchNullBodyStep
<1>9. CASE Close
  BY <1>9, CloseStep
<1>10. CASE UNCHANGED vars
  <2>1. QueueInv'
    BY <1>10 DEF vars, HttpInv, QueueInv
  <2>2. TaskInv'
    BY <1>10, TaskKept DEF vars, HttpInv
  <2>3. AnswersOwnRequest' /\ ThresholdFromWholeBody'
    BY <1>10, AnswersKept DEF vars, HttpInv
  <2> QED BY <2>1, <2>2, <2>3 DEF HttpInv
<1> QED BY <1>1, <1>2, <1>3, <1>4, <1>5, <1>6, <1>7, <1>8, <1>9, <1>10 DEF Next, Server
-----------------------------------------------------------------------------
(* The theorems.                                                           *)

\* Whatever the clients send and leave unsent, the task serves one connection at
\* a time and its parser has made of the bytes read what they say (readRequest,
\* HTTP::feed).
THEOREM HttpInvariant == Spec => []HttpInv
<1>0. ServerAssumption
  BY ServerAssumption DEF ServerAssumption
<1>1. Init => HttpInv
  BY <1>0, InitInv
<1>2. HttpInv /\ [Next]_vars => HttpInv'
  BY <1>0, StepInv
<1> QED BY <1>1, <1>2, PTL DEF Spec

\* The parser's state between requests and within one: a body in progress is
\* shorter than its length, and the static previousChar carries no CR from one
\* connection to the next, unless select failed (HTTP::feed, http.cpp's static).
THEOREM ParserCorrect == Spec => []ParserInv
<1>1. ServerAssumption /\ HttpInv => ParserInv
  <2> SUFFICES ASSUME ServerAssumption, HttpInv PROVE ParserInv
    OBVIOUS
  <2>1. ASSUME NEW c \in Client
        PROVE  /\ client[c].state \in ClientStates /\ client[c].request \in Requests \cup {<<>>}
               /\ client[c].arrived \in 0 .. Len(client[c].request)
               /\ client[c].reply.code \in {0, 200, 400, 404}
    <3>1. client[c] \in ClientRecord /\ client[c].arrived <= Len(client[c].request)
      BY DEF HttpInv, QueueInv
    <3>2. Len(client[c].request) \in Nat
      BY <3>1, SymbolsOf DEF ClientRecord
    <3> QED BY <3>1, <3>2 DEF ClientRecord, Replies
  <2>2. fed \in 0 .. client[cur].arrived
    BY <2>1 DEF HttpInv, QueueInv
  <2>3. TypeOK
    BY <2>1, <2>2 DEF TypeOK, HttpInv, QueueInv, TaskInv, Sound, Https
  <2>4. CleanFraming
    BY DEF CleanFraming, HttpInv, TaskInv
  <2> QED BY <2>3, <2>4 DEF ParserInv
<1>2. ServerAssumption
  BY ServerAssumption DEF ServerAssumption
<1> QED BY <1>1, <1>2, HttpInvariant, PTL

\* A request that begins with its request line gets the answer its own bytes
\* deserve, however they were cut up and whatever was served, dropped or left
\* unfinished before it (HTTP::feed, dispatch in httpd.cpp).
THEOREM AnswersCorrect == Spec => []AnswersOwnRequest
<1>1. HttpInv => AnswersOwnRequest
  BY DEF HttpInv
<1> QED BY <1>1, HttpInvariant, PTL

\* The threshold is the built-in one or the number in the whole body of some
\* complete PUT /threshold (setTemperature): no part of a body, no rejected
\* body and no request misread behind a CR or LF sets it.
THEOREM ThresholdCorrect == Spec => []ThresholdFromWholeBody
<1>1. HttpInv => ThresholdFromWholeBody
  BY DEF HttpInv
<1> QED BY <1>1, HttpInvariant, PTL
=============================================================================

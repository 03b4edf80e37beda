----------------------------- MODULE HttpServer -----------------------------
(***************************************************************************)
(* ovenFirmware's HTTP task (httpd.cpp, http.cpp): one task that accepts a *)
(* connection, feeds it to the parser byte by byte, calls the handler and  *)
(* closes, one connection after the other.                                 *)
(*                                                                         *)
(* A request is a sequence of symbols in the order they are sent: CR, LF,  *)
(* the digits and other single bytes of a body, and texts, each standing   *)
(* for a run of bytes without CR or LF (a request line, a header).  What   *)
(* the parser makes of a text is given by RequestLine and HeaderLength.    *)
(* Feeding a text byte by byte has the effect of one append to the line.   *)
(***************************************************************************)
EXTENDS Integers, Sequences, FiniteSets

CONSTANTS
    Client,        \* connections, one request each
    Requests,      \* what a client may send
    RequestLine,   \* text -> [method, url, hasUrl, hasVersion, hasRest]
    HeaderLength,  \* Content-Length header -> what atoi makes of it
    DigitValue,    \* digit -> its value
    Backlog,       \* listen(serverSocket, 5)
    InitThreshold, \* 110
    CanAbandon,    \* clients may leave, or stay silent, in mid-request
    MaxQuiet       \* bound on the rounds of select without a byte

CR == "CR"
LF == "LF"

Symbols == UNION {{r[i] : i \in DOMAIN r} : r \in Requests}
Texts == DOMAIN RequestLine \cup DOMAIN HeaderLength

\* RequestLine knows the first text of every request, whatever comes before it.
\* (A negative Content-Length is undefined behaviour in parseHeader, and left out.)
ASSUME ServerAssumption ==
    /\ Backlog \in Nat \ {0} /\ MaxQuiet \in Nat
    /\ InitThreshold \in Nat
    /\ CanAbandon \in BOOLEAN
    /\ Client # {}
    /\ Requests \subseteq Seq(Symbols) \ {<<>>}
    /\ {CR, LF} \cap Texts = {}
    /\ \A r \in Requests : \A i \in DOMAIN r :
          r[i] \notin {CR, LF} /\ (\A j \in 1 .. i - 1 : r[j] \in {CR, LF})
             => r[i] \in DOMAIN RequestLine
    /\ \A t \in DOMAIN RequestLine :
          {RequestLine[t].hasUrl, RequestLine[t].hasVersion, RequestLine[t].hasRest} \subseteq BOOLEAN
    /\ \A t \in DOMAIN HeaderLength : HeaderLength[t] \in Nat
    /\ \A d \in DOMAIN DigitValue : DigitValue[d] \in Nat

VARIABLES
    client,        \* client -> [state, request, arrived, gone, reply]
    backlog,       \* completed connections that wait for accept(), oldest first
    server,        \* where httpTask is
    cur,           \* the connection being served
    fed,           \* symbols of its request read so far
    quiet,         \* rounds of select without a byte since the last one
    http,          \* the HTTP object of this connection
    previousChar,  \* static of http.cpp: outlives the HTTP object
    threshold,     \* the global that PUT /threshold writes
    selectFailed   \* history: select() has returned an error

vars == <<client, backlog, server, cur, fed, quiet, http, previousChar,
          threshold, selectFailed>>

parser == <<fed, quiet, http, previousChar>>

Statuses == {"FIRST_LINE", "HTTP_HEADERS", "HTTP_BODY", "END_PARSE", "PARSE_ERROR"}

\* HTTP::HTTP(): the constructor leaves previousChar, and method, alone.
NewHTTP == [status |-> "FIRST_LINE", method |-> "UNDEFINED_METHOD", url |-> "NULL",
            hasBody |-> FALSE, bodyLen |-> 0, body |-> <<>>, line |-> <<>>]

NoReply == [code |-> 0, url |-> "none"]
Idle == [state |-> "idle", request |-> <<>>, arrived |-> 0, gone |-> FALSE, reply |-> NoReply]

Init ==
    /\ client = [c \in Client |-> Idle]
    /\ backlog = <<>>
    /\ server = "accept" /\ cur = CHOOSE c \in Client : TRUE
    /\ fed = 0 /\ quiet = 0
    /\ http = NewHTTP /\ previousChar = "none"
    /\ threshold = InitThreshold
    /\ selectFailed = FALSE
-----------------------------------------------------------------------------
(* The parser.                                                             *)

LeastOf(S) == CHOOSE n \in S : \A k \in S : n <= k
GreatestOf(S) == CHOOSE n \in S : \A k \in S : k <= n

\* The request line, read from the start of the buffer.  A CR or LF before it
\* hides the method from parseMethod, and its word is taken for the URL.  The
\* URL and the presence of 8 more bytes are checked (hasVersion; hasRest, behind
\* the word of the method), the version is not: the status PARSE_ERROR of an
\* unknown one is overwritten.
parseFirstLine(h) ==
    LET texts == {i \in DOMAIN h.line : h.line[i] \notin {CR, LF}}
        start == LeastOf(texts)
        r == RequestLine[h.line[start]]
    IN  IF texts = {} \/ (IF start = 1 THEN ~r.hasUrl \/ ~r.hasVersion ELSE ~r.hasRest)
        THEN [h EXCEPT !.status = "PARSE_ERROR"]
        ELSE [h EXCEPT !.status = "HTTP_HEADERS",
                       !.method = IF start = 1 THEN r.method ELSE "UNDEFINED_METHOD",
                       !.url = IF start = 1 THEN r.url ELSE r.method]

\* A header of no interest is skipped; a second Content-Length replaces the first.
parseHeader(h) ==
    IF Head(h.line) \in DOMAIN HeaderLength
    THEN [h EXCEPT !.hasBody = TRUE, !.body = <<>>,
                   !.bodyLen = HeaderLength[Head(h.line)]]
    ELSE h

endOfHeaders(h) ==
    [h EXCEPT !.status = IF h.bodyLen > 0 THEN "HTTP_BODY" ELSE "END_PARSE"]

\* The line holds its CR, so the line after the last header is <<CR>>.
feedNewLine(h) ==
    CASE h.status = "FIRST_LINE"                           -> parseFirstLine(h)
      [] h.status = "HTTP_HEADERS" /\ Head(h.line) = CR    -> endOfHeaders(h)
      [] h.status = "HTTP_HEADERS" /\ Head(h.line) # CR    -> parseHeader(h)
      [] OTHER                                             -> h

\* A body ended one byte late.
FeedBodyOneMore(h, s) ==
    [h EXCEPT !.body = Append(@, s),
              !.status = IF Len(h.body) = h.bodyLen THEN "END_PARSE" ELSE @]

\* A body ended one byte early.
FeedBodyOneLess(h, s) ==
    [h EXCEPT !.body = Append(@, s),
              !.status = IF Len(h.body) + 2 >= h.bodyLen THEN "END_PARSE" ELSE @]

feedBody(h, s) ==
    [h EXCEPT !.body = Append(@, s),
              !.status = IF Len(h.body) + 1 = h.bodyLen THEN "END_PARSE" ELSE @]

\* HTTP::feed without the reset of previousChar after a line.
FeedKeepsPrevious(h, prev, s) ==
    IF h.status = "HTTP_BODY"
    THEN [http |-> feedBody(h, s), prev |-> prev]
    ELSE IF prev = CR /\ s = LF
         THEN [http |-> [feedNewLine(h) EXCEPT !.line = <<>>], prev |-> prev]
         ELSE [http |-> [h EXCEPT !.line = Append(@, s)], prev |-> s]

\* HTTP::feed, the parser and the static previousChar after one more symbol.
feed(h, prev, s) ==
    IF h.status = "HTTP_BODY"
    THEN [http |-> feedBody(h, s), prev |-> prev]
    ELSE IF prev = CR /\ s = LF
         THEN [http |-> [feedNewLine(h) EXCEPT !.line = <<>>], prev |-> "none"]
         ELSE [http |-> [h EXCEPT !.line = Append(@, s)], prev |-> s]

needMoreData(h) == h.status \notin {"END_PARSE", "PARSE_ERROR"}
-----------------------------------------------------------------------------
(* The clients and the network.                                            *)

Connect(c) ==
    /\ client[c].state = "idle"
    /\ Len(backlog) < Backlog
    /\ \E r \in Requests :
          client' = [client EXCEPT ![c].state = "connected", ![c].request = r]
    /\ backlog' = Append(backlog, c)
    /\ UNCHANGED <<server, cur, parser, threshold, selectFailed>>

\* The next symbol arrives, at once or after any pause.  Nobody looks at what
\* arrives before it is read, and at a client that waits: for the server a
\* symbol arrives when it has read those before it.
Deliver(c) ==
    /\ server = "reading" /\ cur = c
    /\ client[c].state = "connected" /\ ~client[c].gone
    /\ fed = client[c].arrived /\ fed < Len(client[c].request)
    /\ client' = [client EXCEPT ![c].arrived = @ + 1]
    /\ UNCHANGED <<backlog, server, cur, parser, threshold, selectFailed>>

\* The client closes its side, or falls silent for good; seen as above.
Abandon(c) ==
    /\ CanAbandon
    /\ server = "reading" /\ cur = c
    /\ client[c].state = "connected" /\ ~client[c].gone
    /\ client' = [client EXCEPT ![c].gone = TRUE]
    /\ UNCHANGED <<backlog, server, cur, parser, threshold, selectFailed>>
-----------------------------------------------------------------------------
(* The server task.                                                        *)

Accept ==
    /\ server = "accept" /\ backlog # <<>>
    /\ cur' = Head(backlog) /\ backlog' = Tail(backlog)
    /\ http' = NewHTTP /\ fed' = 0 /\ quiet' = 0
    /\ server' = "reading"
    /\ UNCHANGED <<client, previousChar, threshold, selectFailed>>

\* readRequest: select says readable, one byte is read and fed; then error()
\* and needMoreData() decide whether to go on.
ReadByte ==
    /\ server = "reading" /\ fed < client[cur].arrived
    /\ LET next == feed(http, previousChar, client[cur].request[fed + 1])
       IN /\ http' = next.http /\ previousChar' = next.prev
          /\ server' = IF next.http.status = "PARSE_ERROR" THEN "close"
                    ELSE IF needMoreData(next.http) THEN "reading" ELSE "dispatch"
    /\ fed' = fed + 1 /\ quiet' = 0
    /\ UNCHANGED <<client, backlog, cur, threshold, selectFailed>>

\* select times out after its 10 s (0), or says readable because the client
\* closed and read() returns 0: neither feeds the parser, neither ends the loop.
SelectQuiet ==
    /\ server = "reading" /\ fed = client[cur].arrived
    /\ quiet' = quiet + 1 /\ quiet < MaxQuiet
    /\ UNCHANGED <<client, backlog, server, cur, fed, http, previousChar,
                   threshold, selectFailed>>

\* select returns an error: readRequest returns false.
SelectFails ==
    /\ CanAbandon
    /\ server = "reading"
    /\ server' = "close" /\ selectFailed' = TRUE
    /\ UNCHANGED <<client, backlog, cur, parser, threshold>>

matchersGet == {"/", "/whoareyou", "/temperature", "/threshold"}
matchersPut == {"/threshold", "/enable", "/restart"}

Found(h) == \/ h.method = "GET" /\ h.url \in matchersGet
            \/ h.method = "PUT" /\ h.url \in matchersPut

AllDigits(body) == \A i \in DOMAIN body : body[i] \in DOMAIN DigitValue

\* atoi on a body of digits; 0 for an empty one.
atoi(body) == LET n[i \in 0 .. Len(body)] ==
                    IF i = 0 THEN 0 ELSE 10 * n[i - 1] + DigitValue[body[i]]
              IN  n[Len(body)]

Answer(code) == client' = [client EXCEPT ![cur].reply = [code |-> code, url |-> http.url]]

\* dispatch() to a handler that writes none of this module's variables, or to
\* none: the GET handlers, and setEnable and setRestart (see OvenControl).
DispatchOther ==
    /\ server = "dispatch" /\ server' = "close"
    /\ ~(http.method = "PUT" /\ http.url \in matchersPut /\ ~http.hasBody)
    /\ ~(http.method = "PUT" /\ http.url = "/threshold")
    /\ Answer(IF Found(http) THEN 200 ELSE 404)
    /\ UNCHANGED <<backlog, cur, parser, threshold, selectFailed>>

\* setTemperature storing the number before it is known to be one.
SetBeforeCheck ==
    /\ server = "dispatch" /\ server' = "close"
    /\ http.method = "PUT" /\ http.url = "/threshold" /\ http.hasBody
    /\ threshold' = atoi(SelectSeq(http.body, LAMBDA d : d \in DOMAIN DigitValue))
    /\ Answer(IF AllDigits(http.body) THEN 200 ELSE 400)
    /\ UNCHANGED <<backlog, cur, parser, selectFailed>>

\* setTemperature: any body of digits, the empty one included, is stored.
DispatchThreshold ==
    /\ server = "dispatch" /\ server' = "close"
    /\ http.method = "PUT" /\ http.url = "/threshold" /\ http.hasBody
    /\ threshold' = IF AllDigits(http.body) THEN atoi(http.body) ELSE threshold
    /\ Answer(IF AllDigits(http.body) THEN 200 ELSE 400)
    /\ UNCHANGED <<backlog, cur, parser, selectFailed>>

\* A PUT without Content-Length has no body, and the handlers read through
\* the NULL pointer: undefined, on this chip an exception that reboots it.
\* Every connection and every static and global is lost.
DispatchNullBody ==
    /\ server = "dispatch"
    /\ http.method = "PUT" /\ http.url \in matchersPut /\ ~http.hasBody
    /\ client' = [c \in Client |-> IF client[c].state = "connected"
                                   THEN [client[c] EXCEPT !.state = "lost"] ELSE client[c]]
    /\ server' = "accept" /\ backlog' = <<>>
    /\ http' = NewHTTP /\ previousChar' = "none" /\ fed' = 0 /\ quiet' = 0
    /\ threshold' = InitThreshold
    /\ UNCHANGED <<cur, selectFailed>>

\* close(newConnection)
Close ==
    /\ server = "close" /\ server' = "accept"
    /\ client' = [client EXCEPT ![cur].state = "closed"]
    /\ UNCHANGED <<backlog, cur, parser, threshold, selectFailed>>

Server == \/ Accept \/ ReadByte
          \/ DispatchOther \/ DispatchThreshold \/ DispatchNullBody \/ Close

Next == \/ \E c \in Client : Connect(c) \/ Deliver(c) \/ Abandon(c)
        \/ Server \/ SelectQuiet \/ SelectFails

Spec == Init /\ [][Next]_vars

\* The task runs whenever it can (FreeRTOS); TCP delivers what was sent.
FairSpec == Spec /\ WF_vars(Server) /\ \A c \in Client : WF_vars(Deliver(c))
-----------------------------------------------------------------------------
(* What a request means, read off the whole sequence rather than fed.      *)

\* Positions of the LF of each line end in r.
LineEnds(r) == {i \in 2 .. Len(r) : r[i] = LF /\ r[i - 1] = CR}

FirstEnd(r) == LeastOf(LineEnds(r))

\* Ends of the lines after the first that begin with a CR: empty lines, unless
\* it is a stray one.
BlankEnds(r) == {i \in LineEnds(r) : \E j \in LineEnds(r) :
                    /\ j < i /\ r[j + 1] = CR
                    /\ \A k \in LineEnds(r) : k <= j \/ i <= k}

HeadersEnd(r) == LeastOf(BlankEnds(r))

\* First symbols of the header lines that carry a length.
Lengths(r) == {i \in FirstEnd(r) .. HeadersEnd(r) :
                  i - 1 \in LineEnds(r) /\ r[i] \in DOMAIN HeaderLength}

BodyLength(r) == IF Lengths(r) = {} THEN 0 ELSE HeaderLength[r[GreatestOf(Lengths(r))]]

Body(r) == SubSeq(r, HeadersEnd(r) + 1, HeadersEnd(r) + BodyLength(r))

Complete(r) == BlankEnds(r) # {} /\ HeadersEnd(r) + BodyLength(r) <= Len(r)

Line(r) == RequestLine[r[1]]

\* A complete PUT /threshold that is well formed from its first byte on.
SetsThreshold(r) ==
    /\ r[1] \in DOMAIN RequestLine /\ Complete(r)
    /\ Line(r).hasUrl /\ Line(r).hasVersion
    /\ Line(r).method = "PUT" /\ Line(r).url = "/threshold"
    /\ AllDigits(Body(r))

\* The status code the request deserves, from its own bytes.
CodeOf(r) ==
    LET known == Found(Line(r))
        put == Line(r).method = "PUT" /\ Line(r).url = "/threshold"
    IN  CASE ~known                       -> 404
          [] put /\ ~AllDigits(Body(r))   -> 400
          [] OTHER                        -> 200
-----------------------------------------------------------------------------
(* Correctness.                                                            *)

ClientStates == {"idle", "connected", "closed", "lost"}

TypeOK ==
    /\ \A c \in Client :
          /\ client[c].state \in ClientStates
          /\ client[c].request \in Requests \cup {<<>>}
          /\ client[c].arrived \in 0 .. Len(client[c].request)
          /\ client[c].reply.code \in {0, 200, 400, 404}
    /\ \A i \in DOMAIN backlog : backlog[i] \in Client
    /\ Len(backlog) <= Backlog
    /\ server \in {"accept", "reading", "dispatch", "close"}
    /\ cur \in Client
    /\ fed \in 0 .. client[cur].arrived
    /\ quiet \in 0 .. MaxQuiet
    /\ http.status \in Statuses
    /\ http.status = "HTTP_BODY" => http.hasBody /\ Len(http.body) < http.bodyLen
    /\ threshold \in Nat

\* Parsing byte by byte, with a state that outlives the connection, answers a
\* request that starts with its request line exactly as the whole request
\* deserves: whatever connections were served, dropped or cut before it.
AnswersOwnRequest ==
    \A c \in Client :
        /\ client[c].reply # NoReply
        /\ client[c].request[1] \notin {CR, LF}
        => /\ Complete(client[c].request)
           /\ client[c].reply.code = CodeOf(client[c].request)

\* Between connections the static previousChar never holds a CR that could
\* complete a line with the LF of the next connection, unless select failed.
CleanFraming == server = "accept" /\ ~selectFailed => previousChar # CR

\* The parser's state between requests and within one.
ParserInv == TypeOK /\ CleanFraming

\* The threshold is the built-in one or the number in the whole body of some
\* client's complete PUT /threshold: no part of a body, no rejected body and
\* no aborted request ever reaches it (readRequest, setTemperature).
ThresholdFromWholeBody ==
    \/ threshold = InitThreshold
    \/ \E c \in Client : /\ client[c].request # <<>>
                         /\ SetsThreshold(client[c].request)
                         /\ atoi(Body(client[c].request)) = threshold

\* The one being read has left, or it has sent all of a request without an end.
HeldBySilence ==
    /\ server = "reading" /\ fed = client[cur].arrived
    /\ client[cur].gone \/ (fed = Len(client[cur].request) /\ ~Complete(client[cur].request))

\* Everybody who connects is served and closed, in whatever order the bytes of
\* the clients arrive, unless a client that leaves in mid-request, or never
\* finishes it, is being read: the task waits for that one for ever.
EveryoneServed ==
    \A c \in Client : client[c].state = "connected"
                          ~> (client[c].state \in {"closed", "lost"} \/ HeldBySilence)
==============================================================================

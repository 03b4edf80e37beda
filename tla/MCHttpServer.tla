---------------------------- MODULE MCHttpServer ----------------------------
(* HttpServer for TLC: request lines, headers and bodies that reach every   *)
(* branch of the parser and every handler.                                  *)
EXTENDS HttpServer, TLC

Req(method, url) == [method |-> method, url |-> url, hasUrl |-> TRUE, hasVersion |-> TRUE, hasRest |-> TRUE]

MCRequestLine ==
       "GET /temperature HTTP/1.1" :> Req("GET", "/temperature")
    @@ "GET /nothing HTTP/9.9"     :> Req("GET", "/nothing")
    @@ "PUT /threshold HTTP/1.1"   :> Req("PUT", "/threshold")
    @@ "PUT /enable HTTP/1.1"      :> Req("PUT", "/enable")
    @@ "GET /temperature"          :> [Req("GET", "/temperature") EXCEPT !.hasVersion = FALSE]

\* atoi starts one byte after the colon, so the digit after "Length:" is lost.
MCHeaderLength ==
       "Content-Length: 2" :> 2
    @@ "Content-Length: 0" :> 0
    @@ "Content-Length:2"  :> 0

MCDigitValue == "0" :> 0 @@ "9" :> 9

EndOfLine == <<CR, LF>>
Blank == EndOfLine \o EndOfLine
PutThreshold == <<"PUT /threshold HTTP/1.1">> \o EndOfLine

MCRequests == {
    <<"GET /nothing HTTP/9.9">> \o EndOfLine \o <<"Host: oven">> \o EndOfLine \o <<CR, "x">> \o EndOfLine,
    PutThreshold \o <<"Content-Length: 2">> \o Blank \o <<"9", "0">>,
    PutThreshold \o <<"Content-Length: 2">> \o Blank \o <<"9", "x">>,
    PutThreshold \o <<"Content-Length: 0">> \o EndOfLine \o <<"Content-Length: 2">>
                 \o Blank \o <<CR, LF>>,
    <<"PUT /enable HTTP/1.1">> \o EndOfLine \o <<"Content-Length:2">> \o Blank \o <<"0">>,
    <<LF, "GET /temperature HTTP/1.1">> \o Blank,
    <<CR, "GET /temperature HTTP/1.1">> \o Blank,
    <<"GET /temperature">> \o Blank,
    <<LF, "GET /temperature">> \o Blank,
    <<CR, LF>>,
    PutThreshold \o EndOfLine}
=============================================================================

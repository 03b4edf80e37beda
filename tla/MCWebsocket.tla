---------------------------- MODULE MCWebsocket ----------------------------
(***************************************************************************)
(* Websocket with the streams of its run.                                  *)
(***************************************************************************)
EXTENDS Websocket

CONSTANTS Talker,    \* the connection whose client sends all kinds of frames
          Logger     \* the connection of another url

Of(op, n) == [op |-> op, fin |-> TRUE, masked |-> TRUE, n |-> n]

\* A length in the first byte, in two bytes and in eight, and none.
Short2 == Of("TEXT", 2)
Mid == [Of("BINARY", 3) EXCEPT !.fin = FALSE]
Eight == Of("CONTINUE", 4)
Unmasked1 == [Of("TEXT", 1) EXCEPT !.masked = FALSE]

MCStreams(c) ==
    IF c = Talker
    THEN {<<Short2, Mid>>, <<Eight>>, <<Of("PING", 2), Of("TEXT", 1)>>, <<Of("TEXT", 1), Of("PING", 2)>>,
          <<Of("PING", 0), Of("CLOSE", 2)>>, <<Of("PONG", 1), Of("PING", 3)>>,
          <<Of("TEXT", 1), Unmasked1>>, <<Of("CLOSE", 2), Of("TEXT", 1)>>}
    ELSE {<<>>}

MCUrl(c) == IF c = Logger THEN "/log" ELSE "/ws"
=============================================================================

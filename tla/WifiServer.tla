----------------------------- MODULE WifiServer -----------------------------
(***************************************************************************)
(* newOvenFirmware's station and web server (wifi.c, httpServer.c): the    *)
(* Wi-Fi driver posts events to a queue, the event task runs event_handler *)
(* on them one by one and starts or stops the HTTP server, whose own task  *)
(* meanwhile runs the URI handlers.                                        *)
(*                                                                         *)
(* The driver, the event queue and esp_http_server are libraries that the  *)
(* repository only calls: they are modelled from that use.                 *)
(***************************************************************************)
EXTENDS Integers, Sequences, SequencesExt

CONSTANTS
    MaxEvents,   \* bound on events waiting in the queue
    MaxServers,  \* servers the library can have at once
    MayFail,     \* httpd_start and esp_wifi_connect may return an error
    Bodies,      \* bodies of PUT /threshold: sequences of characters
    Leftovers,   \* what the stack holds behind a body
    InitThreshold

ASSUME WifiAssumption == /\ MaxEvents \in Nat \ {0}
                         /\ MaxServers \in Nat \ {0}
                         /\ MayFail \in BOOLEAN
                         /\ Bodies \cup Leftovers \subseteq Seq(Nat)
                         /\ InitThreshold \in Nat

NULL == 0
Handles == 1 .. MaxServers

\* A character stands for its distance from '0'.
isdigit(c) == c \in 0 .. 9

Uris == {"about", "temperature", "getThreshold", "setThreshold"}

VARIABLES
    link,      \* the driver: down, connecting or up
    events,    \* events posted and not yet handled, oldest first
    handler,   \* event_handler: idle, or inside stop_webserver
    server,    \* the global handle, NULL or a number
    running,   \* the servers that exist
    connected, \* VASO_CONNECTED_BIT
    busy,      \* the URI whose handler the server's task is inside, or none
    threshold, \* the global
    failed     \* history: the last httpd_start failed

station == <<link, events, handler, server, running, connected, failed>>
vars == <<station, busy, threshold>>

Events == {"STA_START", "GOT_IP", "DISCONNECTED"}

\* initWifi has registered the handler and started the driver.
Boot(l, e, h, s, r, c, b, f, n) ==
    /\ l = "down" /\ e = <<"STA_START">>
    /\ h = "idle" /\ s = NULL /\ r = {}
    /\ c = FALSE /\ b = "none" /\ f = FALSE
    /\ n = InitThreshold

Init == Boot(link, events, handler, server, running, connected, busy, failed, threshold)
-----------------------------------------------------------------------------
(* The driver and the server's task (external).                            *)

Post(e) == Len(events) < MaxEvents /\ events' = Append(events, e)

\* Association and DHCP succeed.
LinkUp ==
    /\ link = "connecting" /\ link' = "up"
    /\ Post("GOT_IP")
    /\ UNCHANGED <<handler, server, running, connected, busy, failed, threshold>>

\* A new lease while connected is another GOT_IP.
RenewLease ==
    /\ link = "up"
    /\ Post("GOT_IP")
    /\ UNCHANGED <<link, handler, server, running, connected, busy, failed, threshold>>

\* The connection is lost, or the attempt fails.
LinkDown ==
    /\ link \in {"connecting", "up"} /\ link' = "down"
    /\ Post("DISCONNECTED")
    /\ UNCHANGED <<handler, server, running, connected, busy, failed, threshold>>

\* The handler is called; setThresholdHandler may then wait for the body.
BeginRequest ==
    /\ running # {} /\ handler = "idle" /\ busy = "none"
    /\ busy' \in Uris
    /\ UNCHANGED <<station, threshold>>
-----------------------------------------------------------------------------
(* The URI handlers.  The server's task is the only one that writes        *)
(* threshold, and a handler waits for nothing but the body.                *)

Ends(uri) == busy = uri /\ busy' = "none"

\* aboutHandler, getTemperatureHandler and getThresholdHandler read and answer.
ReadingHandler ==
    /\ \E uri \in Uris \ {"setThreshold"} : Ends(uri)
    /\ UNCHANGED <<station, threshold>>

Number(digits) == FoldLeft(LAMBDA n, d : 10 * n + d, 0, digits)

\* The number the text starts with.
atoi(text) ==
    LET end == SelectInSeq(text, LAMBDA c : ~isdigit(c))
    IN  Number(IF end = 0 THEN text ELSE SubSeq(text, 1, end - 1))

\* httpd_req_recv gives the body or a part of it, or fails and gives nothing.
Received == UNION {{SubSeq(b, 1, n) : n \in 0 .. Len(b)} : b \in Bodies}

\* What is not all digits is refused.  Else the number is read from a text that no
\* 0 ends: from the digits and from what the stack holds behind them; from that
\* alone when nothing was received.  Whether the answer can be sent is not looked at.
setThresholdHandler ==
    /\ Ends("setThreshold")
    /\ \E got \in Received :
          \/ /\ \E i \in DOMAIN got : ~isdigit(got[i])
             /\ UNCHANGED threshold
          \/ /\ \A i \in DOMAIN got : isdigit(got[i])
             /\ \E stack \in Leftovers : threshold' = atoi(got \o stack)
    /\ UNCHANGED station

Handler == ReadingHandler \/ setThresholdHandler
-----------------------------------------------------------------------------
(* event_handler.                                                          *)

Take(e) == handler = "idle" /\ events # <<>> /\ Head(events) = e /\ events' = Tail(events)

\* esp_wifi_connect(); its success is only that the attempt begins.
Connect == link' = IF link = "down" THEN "connecting" ELSE link

OnStart ==
    /\ Take("STA_START")
    /\ Connect
    /\ UNCHANGED <<handler, server, running, connected, busy, failed, threshold>>

\* httpd_start gives a new server, or an error and start_webserver NULL.
start_webserver ==
    \/ \E h \in Handles \ running :
          server' = h /\ running' = running \cup {h} /\ failed' = FALSE
    \/ /\ MayFail \/ running = Handles
       /\ server' = NULL /\ failed' = TRUE /\ UNCHANGED running

\* A server started for every GOT_IP.
OnGotIpAlwaysStart ==
    /\ Take("GOT_IP")
    /\ start_webserver
    /\ connected' = TRUE
    /\ UNCHANGED <<link, handler, busy, threshold>>

\* The bit, which nothing clears, asked instead of the handle.
OnGotIpUnlessConnected ==
    /\ Take("GOT_IP")
    /\ \/ ~connected /\ start_webserver
       \/ connected /\ UNCHANGED <<server, running, failed>>
    /\ connected' = TRUE
    /\ UNCHANGED <<link, handler, busy, threshold>>

OnGotIp ==
    /\ Take("GOT_IP")
    /\ \/ server = NULL /\ start_webserver
       \/ server # NULL /\ UNCHANGED <<server, running, failed>>
    /\ connected' = TRUE
    /\ UNCHANGED <<link, handler, busy, threshold>>

\* DISCONNECTED: reconnect first, then stop_webserver, which waits for the
\* server's task.  VASO_CONNECTED_BIT stays set.
OnDisconnected ==
    /\ Take("DISCONNECTED")
    /\ Connect
    /\ handler' = IF server # NULL THEN "stopping" ELSE "idle"
    /\ UNCHANGED <<server, running, connected, busy, failed, threshold>>

\* The handle not cleared after httpd_stop.
ServerStoppedKeepsHandle ==
    /\ handler = "stopping" /\ busy = "none"
    /\ running' = running \ {server}
    /\ handler' = "idle"
    /\ UNCHANGED <<link, events, server, connected, busy, failed, threshold>>

\* httpd_stop(server) returns once no URI handler runs; then *server = NULL.
ServerStopped ==
    /\ handler = "stopping" /\ busy = "none"
    /\ running' = running \ {server}
    /\ server' = NULL
    /\ handler' = "idle"
    /\ UNCHANGED <<link, events, connected, busy, failed, threshold>>

\* ESP_ERROR_CHECK(esp_wifi_connect()): an error aborts and the chip reboots,
\* with every variable and every waiting event gone.
ConnectAborts ==
    /\ MayFail
    /\ handler = "idle" /\ events # <<>>
    /\ Head(events) \in {"STA_START", "DISCONNECTED"}
    /\ Boot(link', events', handler', server', running', connected', busy', failed',
            threshold')

EventTask == OnStart \/ OnGotIp \/ OnDisconnected \/ ServerStopped

Next == \/ LinkUp \/ RenewLease \/ LinkDown \/ BeginRequest \/ Handler
        \/ EventTask \/ ConnectAborts

Spec == Init /\ [][Next]_vars

\* The event task handles what is queued; a URI handler returns (it waits for
\* the network with a timeout).
FairSpec == Spec /\ WF_vars(EventTask) /\ WF_vars(Handler)
-----------------------------------------------------------------------------
(* Correctness.                                                            *)

\* The numbers the threshold can be: the built-in one, and what atoi reads.
Thresholds == {InitThreshold} \cup {atoi(got \o stack) : got \in Received, stack \in Leftovers}

TypeOK ==
    /\ link \in {"down", "connecting", "up"}
    /\ events \in Seq(Events) /\ Len(events) <= MaxEvents
    /\ handler \in {"idle", "stopping"}
    /\ server \in {NULL} \cup Handles
    /\ running \subseteq Handles
    /\ connected \in BOOLEAN /\ failed \in BOOLEAN
    /\ busy \in Uris \cup {"none"}
    /\ threshold \in Thresholds

\* The global handle always names the one server there is: no server is
\* leaked by a second GOT_IP or a lost handle, and no stopped one is kept.
HandleOwnsServer == running = IF server = NULL THEN {} ELSE {server}

\* No handler outlives its server, however the station comes and goes.
HandlerHasServer == busy # "none" => server \in running

\* The life of the server, of its handle and of its handlers.
ServerInv == TypeOK /\ HandleOwnsServer /\ HandlerHasServer

\* Once every event is handled the oven is served exactly when the station is
\* up, unless httpd_start failed; however the link moved while the event task
\* was blocked in httpd_stop.
ServerFollowsLink ==
    handler = "idle" /\ events = <<>>
        => (running # {} <=> link = "up" /\ ~failed)

\* A link that comes up for good is served for good, unless the last
\* httpd_start failed.
UpIsServed == <>[](link = "up" /\ ~failed) => <>[](running # {})
=============================================================================

------------------------------ MODULE WifiCgi ------------------------------
(***************************************************************************)
(* The Wi-Fi page of libesphttpd, util/cgiwifi.c: a scan for access points *)
(* whose result several clients list, an entry for each call of the CGI,   *)
(* and the attempt to join a network, driven by two timers.                *)
(*                                                                         *)
(* The station, the scan and the timers are the SDK's: it calls back       *)
(* between the calls of the CGIs.  A request may arm a timer anew for as   *)
(* long as its callback has not run.                                       *)
(***************************************************************************)
EXTENDS Integers, Sequences

CONSTANTS
    Clients,
    Found,        \* what a scan may find: sequences of access points
    Networks,     \* what a client may ask to join
    NoNetwork

ASSUME WifiCgiAssumption ==
    /\ NoNetwork \notin Networks
    /\ \A found \in Found : found \in Seq({found[k] : k \in DOMAIN found})

VARIABLES
    cgiWifiAps,   \* [scanInProgress, apData, noAps]; apData: <<>> stands for NULL too
    conn,         \* client -> [at, pos, out]; at "more": its list goes on
    joining,      \* [connTryStatus, stconf, reassTimer, resetTimer]
    sdk,          \* [scanning, opmode, config, gotIp]
    seen          \* history: [listed, met, lost]

vars == <<cgiWifiAps, conn, joining, sdk, seen>>

Idle == [at |-> "idle", pos |-> 0, out |-> <<>>]

Timers == {"reassTimer", "resetTimer"}
Times == {"off", "armed", "due"}    \* just armed; some of its time gone

NotJoining == [connTryStatus |-> "idle", stconf |-> NoNetwork, reassTimer |-> "off", resetTimer |-> "off"]

\* What a restart leaves of the memory; the mode and the network are in flash.
Fresh(opmode, config) ==
    /\ cgiWifiAps' = [scanInProgress |-> FALSE, apData |-> <<>>, noAps |-> 0]
    /\ conn' = [c \in Clients |-> Idle]
    /\ joining' = NotJoining
    /\ sdk' = [scanning |-> FALSE, opmode |-> opmode, config |-> config, gotIp |-> FALSE]
    /\ seen' = [listed |-> [c \in Clients |-> <<>>], met |-> {}, lost |-> FALSE]

Init ==
    /\ cgiWifiAps = [scanInProgress |-> FALSE, apData |-> <<>>, noAps |-> 0]
    /\ conn = [c \in Clients |-> Idle]
    /\ joining = NotJoining
    /\ sdk \in [scanning : {FALSE}, opmode : {2, 3}, config : {NoNetwork}, gotIp : {FALSE}]
    /\ seen = [listed |-> [c \in Clients |-> <<>>], met |-> {}, lost |-> FALSE]
-----------------------------------------------------------------------------
(* The scan.                                                               *)

NULL == "NULL"
Undefined == "undefined"

\* An entry that cannot be allocated ends the copy with the scan in progress.
CopyKeepsScanning(found, n) ==
    cgiWifiAps' = [cgiWifiAps EXCEPT
        !.scanInProgress = n <= Len(found),
        !.apData = [k \in DOMAIN found |-> IF k < n THEN found[k] ELSE IF k = n THEN NULL ELSE Undefined],
        !.noAps = Len(found)]

\* The result with the entries before the n-th, the first that has no memory.
Copy(found, n) ==
    cgiWifiAps' = [
        scanInProgress |-> FALSE,
        apData |-> [k \in DOMAIN found |-> IF k < n THEN found[k] ELSE IF k = n THEN NULL ELSE Undefined],
        noAps |-> Len(found)]

\* The old result is freed; without memory for the new one the scan goes on for
\* ever.  (malloc(0) may be NULL: then that is so when nothing was found.)
wifiScanDoneCb ==
    /\ sdk.scanning
    /\ sdk' = [sdk EXCEPT !.scanning = FALSE]
    /\ \/ /\ cgiWifiAps' = [cgiWifiAps EXCEPT !.scanInProgress = FALSE]    \* status # OK
          /\ UNCHANGED seen
       \/ /\ cgiWifiAps' = [cgiWifiAps EXCEPT !.apData = <<>>]
          /\ seen' = [seen EXCEPT !.lost = TRUE]
       \/ /\ \E found \in Found : \E n \in 1 .. Len(found) + 1 : Copy(found, n)
          /\ UNCHANGED seen
    /\ UNCHANGED <<conn, joining>>

\* free() of what was never stored.
FreeUndefined ==
    /\ sdk.scanning
    /\ \E k \in DOMAIN cgiWifiAps.apData : cgiWifiAps.apData[k] = Undefined
    /\ Fresh(sdk.opmode, sdk.config)

\* The SDK may refuse, and without its station it does; nothing looks at the result.
wifiStartScan(c) ==
    /\ cgiWifiAps' = [cgiWifiAps EXCEPT !.scanInProgress = TRUE]
    /\ \E started \in (IF sdk.opmode = 2 THEN {FALSE} ELSE BOOLEAN) :
          /\ sdk' = [sdk EXCEPT !.scanning = started]
          /\ seen' = [seen EXCEPT !.lost = ~started,
                                  !.met = @ \cup {d \in Clients : d # c /\ conn[d].at = "more"}]

Send(c, items, at, pos) ==
    conn' = [conn EXCEPT ![c] = [at |-> at, pos |-> pos,
                                 out |-> (IF @.at = "idle" THEN <<>> ELSE @.out) \o items]]

\* The last entry looked for one too far: each is followed by a comma.
TrailingComma(c) ==
    LET pos == conn[c].pos
    IN  IF pos - 1 < cgiWifiAps.noAps
        THEN <<<<cgiWifiAps.apData[pos], IF pos - 1 = cgiWifiAps.noAps THEN "" ELSE ",">>>>
        ELSE <<>>

Entry(c) ==
    LET pos == conn[c].pos
    IN  IF pos - 1 < cgiWifiAps.noAps
        THEN <<<<cgiWifiAps.apData[pos], IF pos = cgiWifiAps.noAps THEN "" ELSE ",">>>>
        ELSE <<>>

Listing(c) == conn[c].at = "more" /\ ~cgiWifiAps.scanInProgress

\* The entry to be sent is NULL.
Crashes(c) == Listing(c) /\ Entry(c) # <<>> /\ Entry(c)[1][1] = NULL

\* The next entry of a list; with the last one comes the end, and a new scan.
NextEntry(c) ==
    /\ Listing(c) /\ conn[c].pos < cgiWifiAps.noAps /\ ~Crashes(c)
    /\ Send(c, Entry(c), "more", conn[c].pos + 1)
    /\ UNCHANGED <<cgiWifiAps, sdk, seen, joining>>

LastEntry(c) ==
    /\ Listing(c) /\ conn[c].pos >= cgiWifiAps.noAps /\ ~Crashes(c)
    /\ Send(c, Entry(c) \o <<<<"end">>>>, "idle", 0)
    /\ wifiStartScan(c)
    /\ UNCHANGED joining

Crash(c) == Crashes(c) /\ Fresh(sdk.opmode, sdk.config)

\* A scan is in progress, for a new request as for a list that was begun.
Busy(c) ==
    /\ cgiWifiAps.scanInProgress
    /\ Send(c, <<<<"headers">>, <<"inProgress">>>>, "idle", 0)
    /\ UNCHANGED <<cgiWifiAps, joining, sdk, seen>>

OpenList(c) ==
    /\ conn[c].at = "idle" /\ ~cgiWifiAps.scanInProgress
    /\ Send(c, <<<<"headers">>, <<"APs">>>>, "more", 1)
    /\ cgiWifiAps' = [cgiWifiAps EXCEPT !.noAps = IF cgiWifiAps.apData = <<>> THEN 0 ELSE @]
    /\ seen' = [seen EXCEPT !.listed[c] = cgiWifiAps.apData, !.met = @ \ {c}]
    /\ UNCHANGED <<joining, sdk>>

cgiWiFiScan(c) == OpenList(c) \/ NextEntry(c) \/ LastEntry(c) \/ Busy(c) \/ Crash(c)

\* The client is gone: the CGI, which does not look, is called once more and
\* sends to nobody.
Disconnect(c) ==
    /\ conn[c].at = "more" /\ ~Crashes(c)
    /\ conn' = [conn EXCEPT ![c] = Idle]
    /\ IF Listing(c) /\ conn[c].pos >= cgiWifiAps.noAps THEN wifiStartScan(c)
       ELSE UNCHANGED <<cgiWifiAps, sdk, seen>>
    /\ UNCHANGED joining
-----------------------------------------------------------------------------
(* Joining a network.  os_timer_disarm and os_timer_arm together begin the *)
(* time of a timer anew, whatever was left of it.                          *)

\* Time passes: the callback runs next, unless a request arms the timer before that.
\* (However soon the request comes, some time has passed.)
Elapse(timer) ==
    /\ joining[timer] = "armed"
    /\ joining' = [joining EXCEPT ![timer] = "due"]
    /\ UNCHANGED <<cgiWifiAps, conn, sdk, seen>>

cgiWiFiConnect ==
    /\ \E network \in Networks : joining' = [joining EXCEPT !.stconf = network, !.reassTimer = "armed"]
    /\ UNCHANGED <<cgiWifiAps, conn, sdk, seen>>

\* The attempt; in station mode no time is set for it.
reassTimerCb ==
    /\ joining.reassTimer = "due"
    /\ joining' = [joining EXCEPT !.reassTimer = "off", !.connTryStatus = "working",
                                  !.resetTimer = IF sdk.opmode # 1 THEN "armed" ELSE @]
    /\ sdk' = [sdk EXCEPT !.config = joining.stconf, !.gotIp = FALSE]
    /\ UNCHANGED <<cgiWifiAps, conn, seen>>

\* Station mode, which takes a restart, or the end of the attempt.
resetTimerCb ==
    /\ joining.resetTimer = "due"
    /\ IF sdk.gotIp THEN Fresh(1, sdk.config)
       ELSE /\ joining' = [joining EXCEPT !.resetTimer = "off", !.connTryStatus = "fail"]
            /\ UNCHANGED <<cgiWifiAps, conn, sdk, seen>>

\* The timer that was running disarmed, and no other armed.
StatusDisarms ==
    /\ joining.connTryStatus = "working" /\ sdk.gotIp
    /\ joining' = [joining EXCEPT !.resetTimer = "off"]
    /\ UNCHANGED <<cgiWifiAps, conn, sdk, seen>>

\* The answer that changes anything: success, and the restart sooner.
cgiWiFiConnStatus ==
    /\ joining.connTryStatus = "working" /\ sdk.gotIp
    /\ joining' = [joining EXCEPT !.resetTimer = "armed"]
    /\ UNCHANGED <<cgiWifiAps, conn, sdk, seen>>

\* Without a mode in the request an unset buffer is read; the SDK ignores what is no mode.
cgiWiFiSetMode == \E mode \in 1 .. 3 : Fresh(mode, sdk.config)

\* The station joins the network it is set to, in a mode that has a station, or loses it.
Link ==
    /\ sdk.gotIp \/ (sdk.opmode # 2 /\ sdk.config # NoNetwork)
    /\ sdk' = [sdk EXCEPT !.gotIp = ~@]
    /\ UNCHANGED <<cgiWifiAps, conn, joining, seen>>
-----------------------------------------------------------------------------
Next ==
    \/ \E c \in Clients : cgiWiFiScan(c) \/ Disconnect(c)
    \/ wifiScanDoneCb \/ FreeUndefined
    \/ cgiWiFiConnect \/ reassTimerCb \/ resetTimerCb \/ cgiWiFiConnStatus \/ cgiWiFiSetMode
    \/ (\E timer \in Timers : Elapse(timer)) \/ Link

Spec == Init /\ [][Next]_vars

\* The SDK ends its scans, time passes, and the callback of a timer that no request
\* arms anew runs; requests that do so again and again put it off for ever.  httpd.c
\* calls a CGI that has more to send.
FairSpec ==
    /\ Spec
    /\ WF_vars(wifiScanDoneCb) /\ WF_vars(reassTimerCb) /\ WF_vars(resetTimerCb)
    /\ \A timer \in Timers : WF_vars(Elapse(timer))
    /\ \A c \in Clients : WF_vars(conn[c].at = "more" /\ cgiWiFiScan(c))
-----------------------------------------------------------------------------
(* Properties.                                                             *)

Entries == (UNION {{found[k] : k \in DOMAIN found} : found \in Found}) \cup {NULL, Undefined}

\* The values the variables take.
TypeOK ==
    /\ cgiWifiAps.scanInProgress \in BOOLEAN /\ cgiWifiAps.noAps \in Nat
    /\ \A k \in DOMAIN cgiWifiAps.apData : cgiWifiAps.apData[k] \in Entries
    /\ \A c \in Clients : conn[c].at \in {"idle", "more"} /\ conn[c].pos \in Nat
    /\ joining.connTryStatus \in {"idle", "working", "fail"}
    /\ joining.stconf \in Networks \cup {NoNetwork}
    /\ {joining.reassTimer, joining.resetTimer} \subseteq Times
    /\ sdk.opmode \in 1 .. 3 /\ sdk.config \in Networks \cup {NoNetwork}

\* Nobody reads past a result, or a result that is being replaced: out of a scan
\* there are as many entries as noAps says.  While an attempt is made its timer
\* is armed, whatever requests came in between, and the network tried is the one
\* asked for last, unless that one's timer is still to fire.
WifiCgiInv ==
    /\ TypeOK
    /\ ~cgiWifiAps.scanInProgress => Len(cgiWifiAps.apData) = cgiWifiAps.noAps
    /\ joining.connTryStatus = "working" =>
           /\ joining.resetTimer # "off" \/ sdk.opmode = 1
           /\ joining.reassTimer # "off" \/ sdk.config = joining.stconf

Listed(aps) == [k \in DOMAIN aps |-> <<aps[k], IF k = Len(aps) THEN "" ELSE ",">>]

\* An answer is that a scan is in progress, or the result of one scan, each of
\* its access points once and in order, unless the list of another client ended
\* in between and started a scan.
AnswerWhole ==
    \A c \in Clients :
        conn[c].at = "idle" /\ conn[c].out # <<>> =>
            \/ conn[c].out = <<<<"headers">>, <<"inProgress">>>>
            \/ conn[c].out = <<<<"headers">>, <<"APs">>>> \o Listed(seen.listed[c]) \o <<<<"end">>>>
            \/ c \in seen.met

\* The timer that would end the attempt is armed anew before its callback ran: by a
\* poll of the status, or by another attempt.
PutOff == joining.resetTimer = "due" /\ joining'.resetTimer = "armed"

\* A scan ends, with or without memory for its entries, unless the SDK refused it or
\* there was none for the result; a list ends, whatever the others do meanwhile.  An
\* attempt to join ends, in a restart or a failure, unless requests put that off
\* again and again, or in station mode, which sets it no time.
EverythingEnds ==
    /\ cgiWifiAps.scanInProgress ~> (~cgiWifiAps.scanInProgress \/ seen.lost)
    /\ \A c \in Clients : conn[c].at = "more" ~> conn[c].at = "idle"
    /\ \/ []<><<PutOff>>_joining
       \/ (joining.connTryStatus = "working" /\ sdk.opmode # 1) ~> (joining.connTryStatus # "working")
=============================================================================

--------------------------- MODULE WifiServer_proofs ---------------------------
(***************************************************************************)
(* Proofs about WifiServer, for every length of the event queue, every     *)
(* number of servers the library allows, every set of bodies and of        *)
(* leftovers, with and without failures.                                   *)
(*                                                                         *)
(* ServerInv is inductive as it stands.  ServerFollowsLink is not: what    *)
(* links the driver's state, which the event task never reads, to the      *)
(* server is the youngest event in the queue.                              *)
(***************************************************************************)
EXTENDS WifiServer, SequenceTheorems, TLAPS

\* The youngest event tells where the driver can have gone since it was posted:
\* it may have been sent connecting again by an older event, nothing else.
YoungestInv ==
    events # <<>> =>
        LET youngest == events[Len(events)]
        IN  /\ youngest = "GOT_IP" => link = "up"
            /\ youngest = "DISCONNECTED" => link \in {"down", "connecting"}
            /\ youngest = "STA_START" => link = "down" /\ Len(events) = 1 /\ server = NULL

\* With an empty queue the event task has done what the driver's last event asked
\* for, or is inside the httpd_stop that it asked for.
DoneInv ==
    events = <<>> =>
        /\ link # "down"
        /\ link = "up" => handler = "idle" /\ (server = NULL => failed)
        /\ link = "connecting" /\ handler = "idle" => server = NULL

LinkInv == ServerInv /\ YoungestInv /\ DoneInv /\ (server # NULL => ~failed)

USE WifiAssumption DEF NULL, Handles

\* Boot leaves one state, which satisfies the invariant; an abort leads to it again.
LEMMA BootInv == Init => LinkInv
<1> SUFFICES ASSUME Init PROVE LinkInv
  OBVIOUS
<1> USE DEF Init, Boot
<1>1. events \in Seq(Events) /\ Len(events) = 1 /\ events[1] = "STA_START"
  BY DEF Events
<1>2. threshold \in Thresholds
  BY DEF Thresholds
<1>3. TypeOK
  <2>1. connected \in BOOLEAN /\ failed \in BOOLEAN /\ busy = "none"
    OBVIOUS
  <2>2. Len(events) <= MaxEvents
    BY <1>1
  <2>3. link = "down" /\ handler = "idle" /\ server = NULL /\ running = {}
    OBVIOUS
  <2> QED BY <1>1, <1>2, <2>1, <2>2, <2>3, Zenon DEF TypeOK
<1>4. YoungestInv /\ DoneInv
  BY <1>1 DEF YoungestInv, DoneInv
<1> QED BY <1>3, <1>4 DEF LinkInv, ServerInv, HandleOwnsServer, HandlerHasServer

\* Appending an event makes it the youngest and keeps the queue one of events.
LEMMA PostSteps ==
    ASSUME NEW e \in Events, events \in Seq(Events), Len(events) <= MaxEvents, Post(e)
    PROVE  /\ events' \in Seq(Events) /\ Len(events') <= MaxEvents
           /\ events' # <<>> /\ events'[Len(events')] = e
           /\ Len(events') = Len(events) + 1
BY DEF Post

\* Taking the oldest event leaves the youngest where it is, unless it was the
\* only one.
LEMMA TakeSteps ==
    ASSUME NEW e \in Events, events \in Seq(Events), Len(events) <= MaxEvents, Take(e)
    PROVE  /\ events' \in Seq(Events) /\ Len(events') <= MaxEvents
           /\ handler = "idle" /\ events # <<>> /\ events[1] = e
           /\ Len(events') = Len(events) - 1
           /\ events' # <<>> => events'[Len(events')] = events[Len(events)]
           /\ events' = <<>> => events[Len(events)] = e
<1>1. events # <<>> /\ events[1] = e /\ handler = "idle" /\ events' = Tail(events)
  BY DEF Take
<1>2. Len(events) \in Nat /\ Len(events) > 0
  BY <1>1, EmptySeq
<1>3. events' \in Seq(Events) /\ Len(events') = Len(events) - 1
  BY <1>1, <1>2
<1>4. ASSUME events' # <<>> PROVE events'[Len(events')] = events[Len(events)]
  <2>1. Len(events') > 0
    BY <1>3, <1>4, EmptySeq
  <2> QED BY <1>1, <1>2, <1>3, <2>1
<1>5. ASSUME events' = <<>> PROVE events[Len(events)] = e
  <2>1. Len(events') = 0
    BY <1>5, EmptySeq
  <2>2. Len(events) = 1
    BY <1>2, <1>3, <2>1
  <2> QED BY <1>1, <2>2
<1>6. Len(events') <= MaxEvents
  BY <1>2, <1>3, WifiAssumption
<1> QED BY <1>1, <1>3, <1>4, <1>5, <1>6

\* The driver and the beginning of a request preserve the invariant.
LEMMA DriverPreservesInv ==
    LinkInv /\ (LinkUp \/ RenewLease \/ LinkDown \/ BeginRequest) => LinkInv'
<1> SUFFICES ASSUME LinkInv, LinkUp \/ RenewLease \/ LinkDown \/ BeginRequest
             PROVE  LinkInv'
  OBVIOUS
<1> USE DEF LinkInv, ServerInv, TypeOK, HandleOwnsServer, HandlerHasServer
<1>1. CASE LinkUp
  <2>1. "GOT_IP" \in Events
    BY DEF Events
  <2>2. events' \in Seq(Events) /\ Len(events') <= MaxEvents
    BY <1>1, <2>1, PostSteps DEF LinkUp
  <2>3. events' # <<>> /\ events'[Len(events')] = "GOT_IP"
    BY <1>1, <2>1, PostSteps DEF LinkUp
  <2> QED BY <1>1, <2>2, <2>3 DEF LinkUp, YoungestInv, DoneInv, Thresholds
<1>2. CASE RenewLease
  <2>1. "GOT_IP" \in Events
    BY DEF Events
  <2>2. events' \in Seq(Events) /\ Len(events') <= MaxEvents
    BY <1>2, <2>1, PostSteps DEF RenewLease
  <2>3. events' # <<>> /\ events'[Len(events')] = "GOT_IP"
    BY <1>2, <2>1, PostSteps DEF RenewLease
  <2> QED BY <1>2, <2>2, <2>3 DEF RenewLease, YoungestInv, DoneInv, Thresholds
<1>3. CASE LinkDown
  <2>1. "DISCONNECTED" \in Events
    BY DEF Events
  <2>2. events' \in Seq(Events) /\ Len(events') <= MaxEvents
    BY <1>3, <2>1, PostSteps DEF LinkDown
  <2>3. events' # <<>> /\ events'[Len(events')] = "DISCONNECTED"
    BY <1>3, <2>1, PostSteps DEF LinkDown
  <2> QED BY <1>3, <2>2, <2>3 DEF LinkDown, YoungestInv, DoneInv, Thresholds
<1>4. CASE BeginRequest
  BY <1>4 DEF BeginRequest, station, YoungestInv, DoneInv, Thresholds
<1> QED BY <1>1, <1>2, <1>3, <1>4

\* A URI handler stores only a number that atoi has read.
LEMMA HandlerPreservesInv == LinkInv /\ Handler => LinkInv'
<1> SUFFICES ASSUME LinkInv, Handler PROVE LinkInv'
  OBVIOUS
<1> USE DEF LinkInv, ServerInv, TypeOK, HandleOwnsServer, HandlerHasServer, station, Ends
<1>1. CASE ReadingHandler
  BY <1>1 DEF ReadingHandler, YoungestInv, DoneInv, Thresholds
<1>2. CASE setThresholdHandler
  <2>1. threshold' \in Thresholds
    BY <1>2 DEF setThresholdHandler, Thresholds
  <2>2. busy' = "none" /\ UNCHANGED station
    BY <1>2 DEF setThresholdHandler
  <2> QED BY <2>1, <2>2 DEF YoungestInv, DoneInv, Thresholds
<1> QED BY <1>1, <1>2 DEF Handler

\* Every case of event_handler, and the end of stop_webserver, preserve it.
LEMMA EventTaskPreservesInv == LinkInv /\ EventTask => LinkInv'
<1> SUFFICES ASSUME LinkInv, EventTask PROVE LinkInv'
  OBVIOUS
<1> USE DEF LinkInv, ServerInv, TypeOK, HandleOwnsServer, HandlerHasServer
<1>1. CASE OnStart
  <2>1. "STA_START" \in Events
    BY DEF Events
  <2>2. /\ events' \in Seq(Events) /\ Len(events') <= MaxEvents
        /\ events[1] = "STA_START" /\ events # <<>>
    BY <1>1, <2>1, TakeSteps DEF OnStart
  <2>3. events' # <<>> => events'[Len(events')] = events[Len(events)]
    BY <1>1, <2>1, TakeSteps DEF OnStart
  <2>4. Len(events') = Len(events) - 1 /\ (events' = <<>> => events[Len(events)] = "STA_START")
    BY <1>1, <2>1, TakeSteps DEF OnStart
  <2>5. link' \in {"connecting", "up"} /\ (link # "down" => link' = link)
        /\ (link = "down" => link' = "connecting")
    BY <1>1 DEF OnStart, Connect
  <2> QED BY <1>1, <2>2, <2>3, <2>4, <2>5 DEF OnStart, YoungestInv, DoneInv, Thresholds
<1>2. CASE OnGotIp
  <2>1. "GOT_IP" \in Events
    BY DEF Events
  <2>2. events' \in Seq(Events) /\ Len(events') <= MaxEvents /\ events # <<>> /\ handler = "idle"
    BY <1>2, <2>1, TakeSteps DEF OnGotIp
  <2>3. /\ events' # <<>> => events'[Len(events')] = events[Len(events)]
        /\ events' = <<>> => events[Len(events)] = "GOT_IP"
    BY <1>2, <2>1, TakeSteps DEF OnGotIp
  <2>4. events[1] = "GOT_IP"
    BY <1>2, <2>1, TakeSteps DEF OnGotIp
  <2>5. /\ server' \in {NULL} \cup Handles /\ running' \subseteq Handles /\ failed' \in BOOLEAN
        /\ HandleOwnsServer' /\ HandlerHasServer'
        /\ server' # NULL => ~failed'
        /\ server' = NULL => failed'
        /\ server # NULL => server' # NULL
    <3>1. CASE server # NULL
      BY <1>2, <3>1 DEF OnGotIp
    <3>2. CASE server = NULL
      <4>1. running = {} /\ busy = "none"
        BY <3>2
      <4>2. CASE \E h \in Handles \ running :
                    server' = h /\ running' = running \cup {h} /\ failed' = FALSE
        <5>1. PICK h \in Handles : server' = h /\ running' = running \cup {h} /\ failed' = FALSE
          BY <4>2
        <5>2. server' # NULL /\ running' = {server'} /\ failed' = FALSE /\ busy' = "none"
          BY <1>2, <4>1, <5>1 DEF OnGotIp
        <5> QED BY <3>2, <5>1, <5>2
      <4>3. CASE server' = NULL /\ failed' = TRUE /\ UNCHANGED running
        BY <1>2, <3>2, <4>1, <4>3 DEF OnGotIp
      <4> QED BY <1>2, <3>2, <4>2, <4>3 DEF OnGotIp, start_webserver
    <3> QED BY <3>1, <3>2
  <2>6. TypeOK'
    BY <1>2, <2>2, <2>5 DEF OnGotIp
  <2>7. YoungestInv'
    BY <1>2, <2>2, <2>3, <2>4 DEF OnGotIp, YoungestInv
  <2>8. DoneInv'
    BY <1>2, <2>2, <2>3, <2>5 DEF OnGotIp, YoungestInv, DoneInv
  <2> QED BY <2>5, <2>6, <2>7, <2>8
<1>3. CASE OnDisconnected
  <2>1. "DISCONNECTED" \in Events
    BY DEF Events
  <2>2. events' \in Seq(Events) /\ Len(events') <= MaxEvents /\ events # <<>> /\ handler = "idle"
    BY <1>3, <2>1, TakeSteps DEF OnDisconnected
  <2>3. /\ events' # <<>> => events'[Len(events')] = events[Len(events)]
        /\ events' = <<>> => events[Len(events)] = "DISCONNECTED"
    BY <1>3, <2>1, TakeSteps DEF OnDisconnected
  <2>4. events[1] = "DISCONNECTED"
    BY <1>3, <2>1, TakeSteps DEF OnDisconnected
  <2>5. link' = IF link = "down" THEN "connecting" ELSE link
    BY <1>3 DEF OnDisconnected, Connect
  <2>6. /\ handler' = IF server # NULL THEN "stopping" ELSE "idle"
        /\ UNCHANGED <<server, running, connected, busy, failed, threshold>>
    BY <1>3 DEF OnDisconnected
  <2>7. TypeOK' /\ HandleOwnsServer' /\ HandlerHasServer'
    BY <2>2, <2>5, <2>6
  <2>8. YoungestInv'
    BY <2>2, <2>3, <2>4, <2>5, <2>6 DEF YoungestInv
  <2>9. DoneInv'
    BY <2>2, <2>3, <2>5, <2>6 DEF YoungestInv, DoneInv
  <2> QED BY <2>6, <2>7, <2>8, <2>9
<1>4. CASE ServerStopped
  BY <1>4 DEF ServerStopped, YoungestInv, DoneInv
<1> QED BY <1>1, <1>2, <1>3, <1>4 DEF EventTask

\* An abort boots the chip anew.
LEMMA AbortPreservesInv == ConnectAborts => LinkInv'
<1> SUFFICES ASSUME ConnectAborts PROVE LinkInv'
  OBVIOUS
<1>1. Init'
  BY DEF ConnectAborts, Init
<1> QED BY <1>1, BootInv, PTL

\* LinkInv is inductive.
THEOREM LinkInvariant == Spec => []LinkInv
<1>1. LinkInv /\ [Next]_vars => LinkInv'
  <2> SUFFICES ASSUME LinkInv, [Next]_vars PROVE LinkInv'
    OBVIOUS
  <2>1. CASE Next
    BY <2>1, DriverPreservesInv, HandlerPreservesInv, EventTaskPreservesInv, AbortPreservesInv
       DEF Next
  <2>2. CASE UNCHANGED vars
    BY <2>2 DEF vars, station, LinkInv, ServerInv, TypeOK, HandleOwnsServer,
                HandlerHasServer, YoungestInv, DoneInv
  <2> QED BY <2>1, <2>2
<1> QED BY BootInv, <1>1, PTL DEF Spec

\* Whatever the driver posts and whatever fails, the handle owns the only server
\* (wifi.c:32-51) and no URI handler outlives its server.
THEOREM ServerCorrect == Spec => []ServerInv
<1>1. LinkInv => ServerInv
  BY DEF LinkInv
<1> QED BY <1>1, LinkInvariant, PTL

\* With no event waiting and the event task idle the oven is served exactly when
\* its station is up, unless the last httpd_start failed (wifi.c:32-51).
THEOREM ServerFollowsLinkCorrect == Spec => []ServerFollowsLink
<1>1. LinkInv => ServerFollowsLink
  BY DEF LinkInv, DoneInv, ServerInv, TypeOK, HandleOwnsServer, ServerFollowsLink
<1> QED BY <1>1, LinkInvariant, PTL
=============================================================================

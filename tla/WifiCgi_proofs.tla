--------------------------- MODULE WifiCgi_proofs ---------------------------
(***************************************************************************)
(* Proofs about WifiCgi, for any number of clients and whatever a scan may *)
(* find.  WifiCgiInv is not inductive: that noAps still counts the result  *)
(* when a scan ends badly needs that it does so while one is under way.    *)
(* Nor is AnswerWhole: what was sent of a list has to be its beginning.    *)
(***************************************************************************)
EXTENDS WifiCgi, SequenceTheorems, TLAPS

Items == {<<"headers">>, <<"APs">>, <<"inProgress">>, <<"end">>} \cup (Entries \X {"", ","})

Shapes ==
    /\ cgiWifiAps \in [scanInProgress : BOOLEAN, apData : Seq(Entries), noAps : Nat]
    /\ conn \in [Clients -> [at : {"idle", "more"}, pos : Nat, out : Seq(Items)]]
    /\ joining \in [connTryStatus : {"idle", "working", "fail"}, stconf : Networks \cup {NoNetwork},
                    reassTimer : Times, resetTimer : Times]
    /\ sdk \in [scanning : BOOLEAN, opmode : 1 .. 3, config : Networks \cup {NoNetwork}, gotIp : BOOLEAN]
    /\ seen \in [listed : [Clients -> Seq(Entries)], met : SUBSET Clients, lost : BOOLEAN]

\* The SDK scans only for a scan the CGI knows of, and until that one's result is
\* stored the old one is whole: it is given up only with the scan left in progress.
ScanInv ==
    /\ sdk.scanning => cgiWifiAps.scanInProgress
    /\ sdk.scanning \/ ~cgiWifiAps.scanInProgress => Len(cgiWifiAps.apData) = cgiWifiAps.noAps

JoinInv ==
    joining.connTryStatus = "working" =>
        /\ joining.resetTimer # "off" \/ sdk.opmode = 1
        /\ joining.reassTimer # "off" \/ sdk.config = joining.stconf

Headed == <<<<"headers">>, <<"APs">>>>

\* The beginning of a list: its headers and the first n of its entries.
Begun(aps, n) == Headed \o SubSeq(Listed(aps), 1, n)

\* A list that goes on has sent the entries before pos, and until a scan is started
\* in between they are the beginning of the result, which is still there.
ListInv ==
    \A c \in Clients : conn[c].at = "more" =>
        /\ conn[c].pos >= 1
        /\ c \notin seen.met =>
              /\ ~cgiWifiAps.scanInProgress
              /\ cgiWifiAps.apData = seen.listed[c]
              /\ conn[c].pos = 1 \/ conn[c].pos <= cgiWifiAps.noAps
              /\ conn[c].out = Begun(seen.listed[c], conn[c].pos - 1)

ScanJoinInv == Shapes /\ ScanInv /\ JoinInv /\ ListInv /\ AnswerWhole

USE WifiCgiAssumption
-----------------------------------------------------------------------------
\* What a list should send of a result is an item for each access point.
LEMMA ListedItems ==
    ASSUME NEW aps \in Seq(Entries)
    PROVE  /\ Listed(aps) \in Seq(Items)
           /\ Len(Listed(aps)) = Len(aps)
           /\ \A k \in 1 .. Len(aps) : Listed(aps)[k] = <<aps[k], IF k = Len(aps) THEN "" ELSE ",">>
<1>1. /\ DOMAIN aps = 1 .. Len(aps) /\ Len(aps) \in Nat
      /\ \A k \in 1 .. Len(aps) : aps[k] \in Entries
  BY LenProperties, ElementOfSeq
<1>2. Listed(aps) = [k \in 1 .. Len(aps) |-> <<aps[k], IF k = Len(aps) THEN "" ELSE ",">>]
  BY <1>1 DEF Listed
<1>3. \A k \in 1 .. Len(aps) : <<aps[k], IF k = Len(aps) THEN "" ELSE ",">> \in Items
  BY <1>1, Zenon DEF Items
<1>4. Listed(aps) \in Seq(Items) /\ Len(Listed(aps)) = Len(aps)
  <2> DEFINE item(k) == <<aps[k], IF k = Len(aps) THEN "" ELSE ",">>
  <2>1. [k \in 1 .. Len(aps) |-> item(k)] \in Seq(Items) /\ Len([k \in 1 .. Len(aps) |-> item(k)]) = Len(aps)
    <3>1. \A k \in 1 .. Len(aps) : item(k) \in Items
      BY <1>3
    <3> HIDE DEF item
    <3> QED BY <1>1, <3>1
  <2> QED BY <1>2, <2>1
<1> QED BY <1>1, <1>2, <1>4

\* Pieces of an answer may be joined in any order.
LEMMA ItemsAssociate == \A a, b, d \in Seq(Items) : (a \o b) \o d = a \o (b \o d)
<1> SUFFICES ASSUME NEW a \in Seq(Items), NEW b \in Seq(Items), NEW d \in Seq(Items)
             PROVE  (a \o b) \o d = a \o (b \o d)
  OBVIOUS
<1> QED BY ConcatAssociative

\* A list that has begun grows by an entry, and is whole with the last one.
LEMMA ListGrows ==
    ASSUME NEW aps \in Seq(Entries)
    PROVE  /\ Begun(aps, 0) = Headed
           /\ \A n \in 1 .. Len(aps) :
                 Begun(aps, n) = Begun(aps, n - 1) \o <<<<aps[n], IF n = Len(aps) THEN "" ELSE ",">>>>
           /\ Begun(aps, Len(aps)) = Headed \o Listed(aps)
<1> DEFINE L == Listed(aps)
<1>1. L \in Seq(Items) /\ Len(L) = Len(aps) /\ Len(aps) \in Nat
  BY ListedItems, LenProperties
<1>2. Headed \in Seq(Items)
  BY DEF Headed, Items
<1>3. Begun(aps, 0) = Headed
  <2>1. SubSeq(L, 1, 0) = <<>>
    BY SubSeqEmpty
  <2> QED BY <1>2, <2>1, ConcatEmptySeq DEF Begun
<1>4. ASSUME NEW n \in 1 .. Len(aps)
      PROVE  Begun(aps, n) = Begun(aps, n - 1) \o <<<<aps[n], IF n = Len(aps) THEN "" ELSE ",">>>>
  <2>1. SubSeq(L, 1, n) = SubSeq(L, 1, n - 1) \o <<L[n]>>
    BY <1>1, SubSeqRecursiveSecond
  <2>2. SubSeq(L, 1, n - 1) \in Seq(Items)
    BY <1>1, SubSeqProperties, ElementOfSeq
  <2>3. <<L[n]>> \in Seq(Items)
    BY <1>1, ElementOfSeq
  <2>4. Headed \o SubSeq(L, 1, n) = (Headed \o SubSeq(L, 1, n - 1)) \o <<L[n]>>
    <3>1. (Headed \o SubSeq(L, 1, n - 1)) \o <<L[n]>> = Headed \o (SubSeq(L, 1, n - 1) \o <<L[n]>>)
      <4> HIDE DEF L
      <4> QED BY <1>2, <2>2, <2>3, ItemsAssociate, Zenon
    <3> QED BY <2>1, <3>1
  <2>5. L[n] = <<aps[n], IF n = Len(aps) THEN "" ELSE ",">>
    BY ListedItems
  <2> QED BY <2>4, <2>5 DEF Begun
<1>5. Begun(aps, Len(aps)) = Headed \o Listed(aps)
  BY <1>1, SubSeqFull DEF Begun
<1> QED BY <1>3, <1>4, <1>5

\* A restart in a mode the station has leaves nothing to be wrong.
LEMMA RestartIsClean ==
    ASSUME NEW mode \in 1 .. 3, NEW network \in Networks \cup {NoNetwork}, Fresh(mode, network)
    PROVE  ScanJoinInv'
<1>1. <<>> \in Seq(Entries) /\ <<>> \in Seq(Items) /\ Len(<<>>) = 0
  BY EmptySeq
<1>2. Shapes'
  BY <1>1 DEF Fresh, Shapes, Idle, NotJoining, Times
<1>3. ScanInv' /\ JoinInv'
  BY <1>1 DEF Fresh, ScanInv, JoinInv, NotJoining
<1>4. ListInv' /\ AnswerWhole'
  BY DEF Fresh, ListInv, AnswerWhole, Idle
<1> QED BY <1>2, <1>3, <1>4 DEF ScanJoinInv

\* Nothing is going on when the chip has started.
LEMMA InitScanJoin == Init => ScanJoinInv
<1> SUFFICES ASSUME Init PROVE ScanJoinInv
  OBVIOUS
<1>1. <<>> \in Seq(Entries) /\ <<>> \in Seq(Items) /\ Len(<<>>) = 0
  BY EmptySeq
<1>2. /\ ~sdk.scanning
      /\ sdk \in [scanning : BOOLEAN, opmode : 1 .. 3, config : Networks \cup {NoNetwork}, gotIp : BOOLEAN]
  <2>1. sdk \in [scanning : {FALSE}, opmode : {2, 3}, config : {NoNetwork}, gotIp : {FALSE}]
    BY DEF Init
  <2>2. ~sdk.scanning /\ sdk.scanning \in BOOLEAN /\ sdk.gotIp \in BOOLEAN
    BY <2>1
  <2>3. sdk.opmode \in 1 .. 3 /\ sdk.config \in Networks \cup {NoNetwork}
    BY <2>1
  <2>4. sdk = [scanning |-> sdk.scanning, opmode |-> sdk.opmode, config |-> sdk.config, gotIp |-> sdk.gotIp]
    BY <2>1
  <2> QED BY <2>2, <2>3, <2>4
<1>3. Shapes
  BY <1>1, <1>2 DEF Init, Shapes, Idle, NotJoining, Times
<1>5. ScanInv /\ JoinInv
  BY <1>1, <1>2 DEF Init, ScanInv, JoinInv, NotJoining
<1>4. ListInv /\ AnswerWhole
  BY DEF Init, ListInv, AnswerWhole, Idle
<1> QED BY <1>3, <1>4, <1>5 DEF ScanJoinInv

\* A copied result has an entry for each access point found, whether or not
\* there was memory for it.
LEMMA CopyCounts ==
    ASSUME NEW found \in Found, NEW n \in 1 .. Len(found) + 1, Copy(found, n)
    PROVE  /\ cgiWifiAps' \in [scanInProgress : BOOLEAN, apData : Seq(Entries), noAps : Nat]
           /\ ~cgiWifiAps'.scanInProgress
           /\ Len(cgiWifiAps'.apData) = cgiWifiAps'.noAps
<1> DEFINE aps == [k \in DOMAIN found |-> IF k < n THEN found[k] ELSE IF k = n THEN NULL ELSE Undefined]
<1>1. /\ found \in Seq({found[k] : k \in DOMAIN found})
      /\ Len(found) \in Nat /\ DOMAIN found = 1 .. Len(found)
  BY LenProperties
<1>2. \A k \in DOMAIN found : aps[k] \in Entries
  <2>1. ASSUME NEW k \in DOMAIN found PROVE found[k] \in Entries
    <3>1. found[k] \in {found[j] : j \in DOMAIN found}
      OBVIOUS
    <3> QED BY <3>1, Zenon DEF Entries
  <2>2. NULL \in Entries /\ Undefined \in Entries
    BY DEF Entries
  <2> QED BY <2>1, <2>2
<1>3. aps \in Seq(Entries) /\ Len(aps) = Len(found)
  BY <1>1, <1>2
<1> QED BY <1>1, <1>3 DEF Copy
-----------------------------------------------------------------------------

\* httpdSend() adds to the answer of one connection and touches no other.
LEMMA SendAdds ==
    ASSUME Shapes, NEW c \in Clients, NEW items \in Seq(Items), NEW at \in {"idle", "more"},
           NEW pos \in Nat, Send(c, items, at, pos)
    PROVE  /\ conn' \in [Clients -> [at : {"idle", "more"}, pos : Nat, out : Seq(Items)]]
           /\ conn'[c].at = at /\ conn'[c].pos = pos
           /\ conn'[c].out = IF conn[c].at = "idle" THEN items ELSE conn[c].out \o items
           /\ \A d \in Clients : d # c => conn'[d] = conn[d]
<1>1. conn \in [Clients -> [at : {"idle", "more"}, pos : Nat, out : Seq(Items)]]
  BY DEF Shapes
<1>2. <<>> \o items = items /\ conn[c].out \o items \in Seq(Items)
  BY <1>1, ConcatEmptySeq, ConcatProperties
<1> DEFINE answer == [at |-> at, pos |-> pos,
                      out |-> IF conn[c].at = "idle" THEN items ELSE conn[c].out \o items]
<1>3. conn' = [conn EXCEPT ![c] = answer]
  BY <1>1, <1>2 DEF Send
<1>4. answer \in [at : {"idle", "more"}, pos : Nat, out : Seq(Items)]
  BY <1>2
<1> QED BY <1>1, <1>3, <1>4

\* A scan starts with the old result whole, and meets every list but the one whose
\* end started it.
LEMMA StartMeets ==
    ASSUME Shapes, ScanInv, ~cgiWifiAps.scanInProgress, NEW c \in Clients, wifiStartScan(c)
    PROVE  /\ cgiWifiAps' \in [scanInProgress : BOOLEAN, apData : Seq(Entries), noAps : Nat]
           /\ sdk' \in [scanning : BOOLEAN, opmode : 1 .. 3, config : Networks \cup {NoNetwork}, gotIp : BOOLEAN]
           /\ seen' \in [listed : [Clients -> Seq(Entries)], met : SUBSET Clients, lost : BOOLEAN]
           /\ ScanInv'
           /\ sdk'.opmode = sdk.opmode /\ sdk'.config = sdk.config
           /\ seen'.listed = seen.listed
           /\ \A d \in Clients : /\ d # c /\ conn[d].at = "more" => d \in seen'.met
                                 /\ d \in seen.met => d \in seen'.met
<1> USE DEF Shapes, wifiStartScan
<1>1. PICK started \in BOOLEAN :
         /\ sdk' = [sdk EXCEPT !.scanning = started]
         /\ seen' = [seen EXCEPT !.lost = ~started,
                                 !.met = @ \cup {d \in Clients : d # c /\ conn[d].at = "more"}]
  <2>1. CASE sdk.opmode = 2
    BY <2>1, Zenon
  <2>2. CASE sdk.opmode # 2
    BY <2>2, Zenon
  <2> QED BY <2>1, <2>2
<1>2. cgiWifiAps' = [cgiWifiAps EXCEPT !.scanInProgress = TRUE]
  OBVIOUS
<1>3. ScanInv'
  BY <1>2 DEF ScanInv
<1> QED BY <1>1, <1>2, <1>3

\* The entry a list is about to send is an item.
LEMMA EntryIsItem ==
    ASSUME Shapes, ScanInv, ListInv, NEW c \in Clients, Listing(c)
    PROVE  /\ Entry(c) \in Seq(Items)
           /\ conn[c].pos - 1 < cgiWifiAps.noAps =>
                 Entry(c) = <<<<cgiWifiAps.apData[conn[c].pos],
                               IF conn[c].pos = cgiWifiAps.noAps THEN "" ELSE ",">>>>
           /\ ~(conn[c].pos - 1 < cgiWifiAps.noAps) => Entry(c) = <<>>
<1> DEFINE pos == conn[c].pos
           item == <<cgiWifiAps.apData[pos], IF pos = cgiWifiAps.noAps THEN "" ELSE ",">>
<1>1. /\ cgiWifiAps.apData \in Seq(Entries) /\ cgiWifiAps.noAps \in Nat
      /\ Len(cgiWifiAps.apData) = cgiWifiAps.noAps
      /\ pos \in Nat /\ pos >= 1
  BY DEF Shapes, ScanInv, ListInv, Listing
<1>2. CASE pos - 1 < cgiWifiAps.noAps
  <2>1. pos \in 1 .. Len(cgiWifiAps.apData)
    BY <1>1, <1>2
  <2>2. cgiWifiAps.apData[pos] \in Entries
    <3> HIDE DEF pos
    <3> QED BY <1>1, <2>1, ElementOfSeq
  <2>3. item \in Items
    BY <2>2, Zenon DEF Items
  <2>4. <<item>> \in Seq(Items)
    <3> HIDE DEF item
    <3> QED BY <2>3
  <2> QED BY <1>2, <2>4 DEF Entry
<1>3. CASE ~(pos - 1 < cgiWifiAps.noAps)
  BY <1>3, EmptySeq DEF Entry
<1> QED BY <1>2, <1>3
-----------------------------------------------------------------------------
\* Every call of cgiWiFiScan(), and the last one for a client that is gone, keeps
\* the invariant.
LEMMA ListsPreserveInv ==
    ASSUME ScanJoinInv, NEW c \in Clients, cgiWiFiScan(c) \/ Disconnect(c)
    PROVE  ScanJoinInv'
<1> USE DEF ScanJoinInv
<1>1. CASE OpenList(c)
  <2> USE <1>1 DEF OpenList
  <2> DEFINE items == <<<<"headers">>, <<"APs">>>>
  <2>1. items \in Seq(Items)
    BY DEF Items
  <2>2. /\ conn' \in [Clients -> [at : {"idle", "more"}, pos : Nat, out : Seq(Items)]]
        /\ conn'[c].at = "more" /\ conn'[c].pos = 1 /\ conn'[c].out = items
        /\ \A d \in Clients : d # c => conn'[d] = conn[d]
    BY <2>1, SendAdds
  <2>3. /\ cgiWifiAps \in [scanInProgress : BOOLEAN, apData : Seq(Entries), noAps : Nat]
        /\ Len(cgiWifiAps.apData) = cgiWifiAps.noAps
    BY DEF Shapes, ScanInv
  <2>4. cgiWifiAps' = cgiWifiAps
    BY <2>3, EmptySeq
  <2>5. seen' = [seen EXCEPT !.listed = [@ EXCEPT ![c] = cgiWifiAps.apData], !.met = @ \ {c}]
    OBVIOUS
  <2>6. /\ seen' \in [listed : [Clients -> Seq(Entries)], met : SUBSET Clients, lost : BOOLEAN]
        /\ seen'.listed[c] = cgiWifiAps.apData
        /\ \A d \in Clients : d # c => /\ seen'.listed[d] = seen.listed[d]
                                       /\ d \in seen'.met <=> d \in seen.met
    <3>1. seen \in [listed : [Clients -> Seq(Entries)], met : SUBSET Clients, lost : BOOLEAN]
      BY DEF Shapes
    <3>2. [seen.listed EXCEPT ![c] = cgiWifiAps.apData] \in [Clients -> Seq(Entries)]
      BY <2>3, <3>1
    <3>3. seen'.listed = [seen.listed EXCEPT ![c] = cgiWifiAps.apData] /\ seen'.met = seen.met \ {c}
      BY <2>5, <3>1
    <3>4. seen' \in [listed : [Clients -> Seq(Entries)], met : SUBSET Clients, lost : BOOLEAN]
      BY <2>5, <3>1, <3>2
    <3> QED BY <3>1, <3>3, <3>4
  <2>7. Shapes' /\ ScanInv' /\ JoinInv'
    BY <2>2, <2>4, <2>6 DEF Shapes, ScanInv, JoinInv
  <2>8. items = Begun(seen'.listed[c], 0)
    BY <2>3, <2>6, ListGrows DEF Headed
  <2>9. ListInv'
    <3> SUFFICES ASSUME NEW d \in Clients, conn'[d].at = "more"
                 PROVE  /\ conn'[d].pos >= 1
                        /\ d \notin seen'.met =>
                              /\ ~cgiWifiAps'.scanInProgress
                              /\ cgiWifiAps'.apData = seen'.listed[d]
                              /\ conn'[d].pos = 1 \/ conn'[d].pos <= cgiWifiAps'.noAps
                              /\ conn'[d].out = Begun(seen'.listed[d], conn'[d].pos - 1)
      BY DEF ListInv
    <3>1. CASE d = c
      <4>1. conn'[d].out = Begun(seen'.listed[d], conn'[d].pos - 1)
        <5>1. conn'[c].pos - 1 = 0
          BY <2>2
        <5> QED BY <2>2, <2>8, <3>1, <5>1, Zenon
      <4> QED BY <2>2, <2>4, <2>6, <3>1, <4>1
    <3>2. CASE d # c
      BY <2>2, <2>4, <2>6, <3>2 DEF ListInv
    <3> QED BY <3>1, <3>2
  <2>10. AnswerWhole'
    BY <2>2, <2>6 DEF AnswerWhole
  <2> QED BY <2>7, <2>9, <2>10
<1>2. CASE NextEntry(c)
  <2> USE <1>2 DEF NextEntry
  <2> DEFINE pos == conn[c].pos
  <2>1. /\ Entry(c) \in Seq(Items) /\ conn[c].at = "more" /\ pos \in Nat /\ pos >= 1
        /\ cgiWifiAps.noAps \in Nat /\ pos + 1 \in Nat /\ pos < cgiWifiAps.noAps
        /\ cgiWifiAps.apData \in Seq(Entries) /\ Len(cgiWifiAps.apData) = cgiWifiAps.noAps
    <3>1. Entry(c) \in Seq(Items)
      BY EntryIsItem
    <3>2. conn[c] \in [at : {"idle", "more"}, pos : Nat, out : Seq(Items)]
      BY DEF Shapes
    <3>3. /\ conn[c].at = "more" /\ pos >= 1
          /\ cgiWifiAps.apData \in Seq(Entries) /\ cgiWifiAps.noAps \in Nat
          /\ Len(cgiWifiAps.apData) = cgiWifiAps.noAps
      BY DEF Shapes, ListInv, Listing, ScanInv
    <3>4. pos \in Nat /\ pos + 1 \in Nat
      BY <3>2
    <3> QED BY <3>1, <3>3, <3>4
  <2>2. /\ conn' \in [Clients -> [at : {"idle", "more"}, pos : Nat, out : Seq(Items)]]
        /\ conn'[c].at = "more" /\ conn'[c].pos = pos + 1 /\ conn'[c].out = conn[c].out \o Entry(c)
        /\ \A d \in Clients : d # c => conn'[d] = conn[d]
    BY <2>1, SendAdds
  <2>3. Shapes' /\ ScanInv' /\ JoinInv'
    BY <2>2 DEF Shapes, ScanInv, JoinInv
  <2>4. c \notin seen.met => conn'[c].out = Begun(seen.listed[c], pos)
    <3> SUFFICES ASSUME c \notin seen.met PROVE conn'[c].out = Begun(seen.listed[c], pos)
      OBVIOUS
    <3>1. cgiWifiAps.apData = seen.listed[c] /\ conn[c].out = Begun(seen.listed[c], pos - 1)
      BY <2>1 DEF ListInv
    <3>2. Entry(c) = <<<<seen.listed[c][pos], IF pos = Len(seen.listed[c]) THEN "" ELSE ",">>>>
      <4>1. pos - 1 < cgiWifiAps.noAps
        BY <2>1
      <4>2. Entry(c) = <<<<cgiWifiAps.apData[pos], IF pos = cgiWifiAps.noAps THEN "" ELSE ",">>>>
        BY <4>1, EntryIsItem
      <4> QED BY <2>1, <3>1, <4>2
    <3>3. pos \in 1 .. Len(seen.listed[c]) /\ seen.listed[c] \in Seq(Entries)
      BY <2>1, <3>1
    <3> HIDE DEF pos
    <3> QED BY <2>2, <3>1, <3>2, <3>3, ListGrows
  <2>5. ListInv'
    <3> SUFFICES ASSUME NEW d \in Clients, conn'[d].at = "more"
                 PROVE  /\ conn'[d].pos >= 1
                        /\ d \notin seen.met =>
                              /\ ~cgiWifiAps.scanInProgress
                              /\ cgiWifiAps.apData = seen.listed[d]
                              /\ conn'[d].pos = 1 \/ conn'[d].pos <= cgiWifiAps.noAps
                              /\ conn'[d].out = Begun(seen.listed[d], conn'[d].pos - 1)
      BY DEF ListInv
    <3>1. CASE d = c
      <4>1. conn'[c].pos - 1 = pos
        BY <2>1, <2>2
      <4>2. c \notin seen.met => cgiWifiAps.apData = seen.listed[c] /\ ~cgiWifiAps.scanInProgress
        BY <2>1 DEF ListInv
      <4>3. conn'[c].pos >= 1 /\ conn'[c].pos <= cgiWifiAps.noAps
        BY <2>1, <2>2
      <4>4. c \notin seen.met => conn'[c].out = Begun(seen.listed[c], conn'[c].pos - 1)
        BY <2>4, <4>1, Zenon
      <4> QED BY <3>1, <4>2, <4>3, <4>4
    <3>2. CASE d # c
      BY <2>2, <3>2 DEF ListInv
    <3> QED BY <3>1, <3>2
  <2>6. AnswerWhole'
    BY <2>2 DEF AnswerWhole
  <2> QED BY <2>3, <2>5, <2>6
<1>3. CASE LastEntry(c)
  <2> USE <1>3 DEF LastEntry
  <2> DEFINE pos == conn[c].pos
  <2>1. /\ Entry(c) \in Seq(Items) /\ conn[c].at = "more" /\ pos \in Nat /\ pos >= 1
        /\ cgiWifiAps.noAps \in Nat /\ pos >= cgiWifiAps.noAps /\ ~cgiWifiAps.scanInProgress
        /\ cgiWifiAps.apData \in Seq(Entries) /\ Len(cgiWifiAps.apData) = cgiWifiAps.noAps
        /\ conn[c].out \in Seq(Items)
    BY EntryIsItem DEF Shapes, ListInv, Listing, ScanInv
  <2>2. <<<<"end">>>> \in Seq(Items)
    BY DEF Items
  <2>3. Entry(c) \o <<<<"end">>>> \in Seq(Items)
    BY <2>1, <2>2, ConcatProperties
  <2>4. /\ conn' \in [Clients -> [at : {"idle", "more"}, pos : Nat, out : Seq(Items)]]
        /\ conn'[c].at = "idle" /\ conn'[c].out = conn[c].out \o (Entry(c) \o <<<<"end">>>>)
        /\ \A d \in Clients : d # c => conn'[d] = conn[d]
    BY <2>1, <2>3, SendAdds
  <2>5. /\ ScanInv' /\ sdk'.opmode = sdk.opmode /\ sdk'.config = sdk.config /\ seen'.listed = seen.listed
        /\ \A d \in Clients : /\ d # c /\ conn[d].at = "more" => d \in seen'.met
                              /\ d \in seen.met => d \in seen'.met
    BY <2>1, StartMeets
  <2>6. Shapes' /\ JoinInv'
    BY <2>1, <2>4, <2>5, StartMeets DEF Shapes, JoinInv
  <2>7. ListInv'
    BY <2>4, <2>5 DEF ListInv
  <2>8. c \notin seen.met =>
           conn'[c].out = <<<<"headers">>, <<"APs">>>> \o Listed(seen.listed[c]) \o <<<<"end">>>>
    <3> SUFFICES ASSUME c \notin seen.met
                 PROVE  conn'[c].out = (Headed \o Listed(seen.listed[c])) \o <<<<"end">>>>
      BY DEF Headed
    <3>1. /\ cgiWifiAps.apData = seen.listed[c] /\ conn[c].out = Begun(seen.listed[c], pos - 1)
          /\ pos = 1 \/ pos <= cgiWifiAps.noAps
      BY <2>1 DEF ListInv
    <3>2. conn[c].out \o Entry(c) = Headed \o Listed(seen.listed[c])
      <4>1. CASE cgiWifiAps.noAps = 0
        <5>1. pos - 1 = 0 /\ Entry(c) = <<>>
          <6>1. pos = 1 /\ ~(pos - 1 < cgiWifiAps.noAps)
            BY <2>1, <3>1, <4>1
          <6>2. Entry(c) = <<>>
            BY <6>1, EntryIsItem
          <6> QED BY <6>1, <6>2
        <5>2. conn[c].out \o Entry(c) = conn[c].out
          BY <2>1, <5>1, ConcatEmptySeq
        <5>3. conn[c].out = Begun(seen.listed[c], 0)
          BY <3>1, <5>1
        <5>4. Len(seen.listed[c]) = 0
          BY <2>1, <3>1, <4>1
        <5> QED BY <2>1, <3>1, <5>2, <5>3, <5>4, ListGrows
      <4>2. CASE cgiWifiAps.noAps # 0
        <5>1. pos = Len(seen.listed[c]) /\ pos \in 1 .. Len(seen.listed[c])
          BY <2>1, <3>1, <4>2
        <5>2. Entry(c) = <<<<seen.listed[c][pos], IF pos = Len(seen.listed[c]) THEN "" ELSE ",">>>>
          <6>1. pos - 1 < cgiWifiAps.noAps
            BY <2>1, <3>1, <4>2
          <6>2. Entry(c) = <<<<cgiWifiAps.apData[pos], IF pos = cgiWifiAps.noAps THEN "" ELSE ",">>>>
            BY <6>1, EntryIsItem
          <6> QED BY <2>1, <3>1, <6>2
        <5> HIDE DEF pos
        <5> QED BY <2>1, <3>1, <5>1, <5>2, ListGrows
      <4> QED BY <4>1, <4>2
    <3>3. (conn[c].out \o Entry(c)) \o <<<<"end">>>> = conn[c].out \o (Entry(c) \o <<<<"end">>>>)
      BY <2>1, <2>2, ItemsAssociate, Zenon
    <3> QED BY <2>4, <3>2, <3>3
  <2>9. AnswerWhole'
    <3> SUFFICES ASSUME NEW d \in Clients, conn'[d].at = "idle", conn'[d].out # <<>>, d \notin seen'.met
                 PROVE  \/ conn'[d].out = <<<<"headers">>, <<"inProgress">>>>
                        \/ conn'[d].out = <<<<"headers">>, <<"APs">>>> \o Listed(seen'.listed[d]) \o <<<<"end">>>>
      BY DEF AnswerWhole
    <3>1. CASE d = c
      BY <2>5, <2>8, <3>1
    <3>2. CASE d # c
      BY <2>4, <2>5, <3>2 DEF AnswerWhole
    <3> QED BY <3>1, <3>2
  <2> QED BY <2>5, <2>6, <2>7, <2>9
<1>4. CASE Busy(c)
  <2> USE <1>4 DEF Busy
  <2> DEFINE items == <<<<"headers">>, <<"inProgress">>>>
  <2>1. items \in Seq(Items)
    BY DEF Items
  <2>2. /\ conn' \in [Clients -> [at : {"idle", "more"}, pos : Nat, out : Seq(Items)]]
        /\ conn'[c].at = "idle"
        /\ conn[c].at = "idle" => conn'[c].out = items
        /\ \A d \in Clients : d # c => conn'[d] = conn[d]
    BY <2>1, SendAdds
  <2>3. Shapes' /\ ScanInv' /\ JoinInv'
    BY <2>2 DEF Shapes, ScanInv, JoinInv
  <2>4. conn[c].at # "idle" => c \in seen.met
    BY DEF ListInv, Shapes
  <2>5. ListInv'
    BY <2>2 DEF ListInv
  <2>6. AnswerWhole'
    BY <2>2, <2>4 DEF AnswerWhole
  <2> QED BY <2>3, <2>5, <2>6
<1>5. CASE Crash(c)
  <2>1. sdk.opmode \in 1 .. 3 /\ sdk.config \in Networks \cup {NoNetwork}
    BY DEF Shapes
  <2> QED BY <1>5, <2>1, RestartIsClean DEF Crash
<1>6. CASE Disconnect(c)
  <2> USE <1>6 DEF Disconnect
  <2>1. conn \in [Clients -> [at : {"idle", "more"}, pos : Nat, out : Seq(Items)]]
    BY DEF Shapes
  <2>2. Idle \in [at : {"idle", "more"}, pos : Nat, out : Seq(Items)] /\ Idle.at = "idle" /\ Idle.out = <<>>
    BY EmptySeq DEF Idle
  <2>3. /\ conn' \in [Clients -> [at : {"idle", "more"}, pos : Nat, out : Seq(Items)]]
        /\ conn'[c].at = "idle" /\ conn'[c].out = <<>>
        /\ \A d \in Clients : d # c => conn'[d] = conn[d]
    <3> HIDE DEF Idle
    <3> QED BY <2>1, <2>2
  <2>4. CASE Listing(c) /\ conn[c].pos >= cgiWifiAps.noAps
    <3>1. wifiStartScan(c) /\ ~cgiWifiAps.scanInProgress
      BY <2>4 DEF Listing
    <3>2. /\ ScanInv' /\ sdk'.opmode = sdk.opmode /\ sdk'.config = sdk.config /\ seen'.listed = seen.listed
          /\ \A d \in Clients : /\ d # c /\ conn[d].at = "more" => d \in seen'.met
                                /\ d \in seen.met => d \in seen'.met
      BY <3>1, StartMeets
    <3>3. Shapes' /\ JoinInv'
      BY <2>3, <3>1, <3>2, StartMeets DEF Shapes, JoinInv
    <3>4. ListInv' /\ AnswerWhole'
      BY <2>3, <3>2 DEF ListInv, AnswerWhole
    <3> QED BY <3>2, <3>3, <3>4
  <2>5. CASE ~(Listing(c) /\ conn[c].pos >= cgiWifiAps.noAps)
    <3>1. UNCHANGED <<cgiWifiAps, sdk, seen>>
      BY <2>5
    <3>2. Shapes' /\ ScanInv' /\ JoinInv'
      BY <2>3, <3>1 DEF Shapes, ScanInv, JoinInv
    <3>3. ListInv' /\ AnswerWhole'
      BY <2>3, <3>1 DEF ListInv, AnswerWhole
    <3> QED BY <3>2, <3>3
  <2> QED BY <2>4, <2>5
<1> QED BY <1>1, <1>2, <1>3, <1>4, <1>5, <1>6 DEF cgiWiFiScan

\* Whatever a scan ends with: its failure leaves the old result, no memory leaves
\* none and the scan in progress, and a result is counted.
LEMMA ScanDonePreservesInv ==
    ASSUME ScanJoinInv, wifiScanDoneCb
    PROVE  ScanJoinInv'
<1> USE DEF ScanJoinInv
<1>1. /\ cgiWifiAps \in [scanInProgress : BOOLEAN, apData : Seq(Entries), noAps : Nat]
      /\ Len(cgiWifiAps.apData) = cgiWifiAps.noAps /\ cgiWifiAps.scanInProgress
      /\ UNCHANGED <<conn, joining>>
      /\ sdk' = [sdk EXCEPT !.scanning = FALSE]
  BY DEF wifiScanDoneCb, Shapes, ScanInv
<1>2. /\ sdk' \in [scanning : BOOLEAN, opmode : 1 .. 3, config : Networks \cup {NoNetwork}, gotIp : BOOLEAN]
      /\ ~sdk'.scanning /\ sdk'.opmode = sdk.opmode /\ sdk'.config = sdk.config
  BY <1>1 DEF Shapes
<1>3. /\ cgiWifiAps' \in [scanInProgress : BOOLEAN, apData : Seq(Entries), noAps : Nat]
      /\ ~cgiWifiAps'.scanInProgress => Len(cgiWifiAps'.apData) = cgiWifiAps'.noAps
      /\ seen' \in [listed : [Clients -> Seq(Entries)], met : SUBSET Clients, lost : BOOLEAN]
      /\ seen'.met = seen.met /\ seen'.listed = seen.listed
  <2>1. CASE cgiWifiAps' = [cgiWifiAps EXCEPT !.scanInProgress = FALSE] /\ UNCHANGED seen
    BY <1>1, <2>1 DEF Shapes
  <2>2. CASE cgiWifiAps' = [cgiWifiAps EXCEPT !.apData = <<>>] /\ seen' = [seen EXCEPT !.lost = TRUE]
    BY <1>1, <2>2, EmptySeq DEF Shapes
  <2>3. CASE (\E found \in Found : \E n \in 1 .. Len(found) + 1 : Copy(found, n)) /\ UNCHANGED seen
    BY <2>3, CopyCounts DEF Shapes
  <2> QED BY <2>1, <2>2, <2>3 DEF wifiScanDoneCb
<1>4. Shapes' /\ ScanInv' /\ JoinInv'
  BY <1>1, <1>2, <1>3 DEF Shapes, ScanInv, JoinInv
\* No list is untouched by the scan that ends: it met them all when it began.
<1>5. ListInv'
  BY <1>1, <1>3 DEF ListInv
<1>6. AnswerWhole'
  BY <1>1, <1>3 DEF AnswerWhole
<1> QED BY <1>4, <1>5, <1>6

\* The CGIs and timers that join a network leave the scan and its lists alone, or
\* restart the chip.
LEMMA JoinPreservesInv ==
    ASSUME ScanJoinInv,
           \/ cgiWiFiConnect \/ reassTimerCb \/ resetTimerCb \/ cgiWiFiConnStatus \/ cgiWiFiSetMode
           \/ (\E timer \in Timers : Elapse(timer)) \/ Link
    PROVE  ScanJoinInv'
<1> USE DEF ScanJoinInv
<1> DEFINE Rest == /\ UNCHANGED <<cgiWifiAps, conn, seen>>
                   /\ sdk'.scanning = sdk.scanning
<1>1. sdk \in [scanning : BOOLEAN, opmode : 1 .. 3, config : Networks \cup {NoNetwork}, gotIp : BOOLEAN]
  BY DEF Shapes
<1>2. ASSUME Rest, JoinInv',
             joining' \in [connTryStatus : {"idle", "working", "fail"}, stconf : Networks \cup {NoNetwork},
                           reassTimer : Times, resetTimer : Times],
             sdk' \in [scanning : BOOLEAN, opmode : 1 .. 3, config : Networks \cup {NoNetwork}, gotIp : BOOLEAN]
      PROVE  ScanJoinInv'
  <2>1. Shapes' /\ ScanInv'
    BY <1>2 DEF Shapes, ScanInv
  <2>2. ListInv' /\ AnswerWhole'
    BY <1>2 DEF ListInv, AnswerWhole
  <2> QED BY <1>2, <2>1, <2>2
<1>3. CASE cgiWiFiConnect
  BY <1>2, <1>3 DEF cgiWiFiConnect, Shapes, JoinInv, Times
<1>4. CASE reassTimerCb
  BY <1>2, <1>4 DEF reassTimerCb, Shapes, JoinInv, Times
<1>5. CASE resetTimerCb
  <2>1. CASE sdk.gotIp
    BY <1>1, <1>5, <2>1, RestartIsClean DEF resetTimerCb
  <2>2. CASE ~sdk.gotIp
    BY <1>2, <1>5, <2>2 DEF resetTimerCb, Shapes, JoinInv, Times
  <2> QED BY <2>1, <2>2
<1>6. CASE cgiWiFiConnStatus
  BY <1>2, <1>6 DEF cgiWiFiConnStatus, Shapes, JoinInv, Times
<1>7. CASE cgiWiFiSetMode
  BY <1>1, <1>7, RestartIsClean DEF cgiWiFiSetMode
<1>8. CASE Link
  BY <1>2, <1>8 DEF Link, Shapes, JoinInv
<1>9. ASSUME NEW timer \in Timers, Elapse(timer) PROVE ScanJoinInv'
  BY <1>2, <1>9 DEF Elapse, Shapes, JoinInv, Timers, Times
<1> QED BY <1>3, <1>4, <1>5, <1>6, <1>7, <1>8, <1>9

\* The invariant of the Wi-Fi page: of the results of its scans, of the lists made
\* from them and of the attempt to join a network.
THEOREM ScanJoinInvariant == Spec => []ScanJoinInv
<1>1. Init => ScanJoinInv
  BY InitScanJoin
<1>2. ScanJoinInv /\ [Next]_vars => ScanJoinInv'
  <2> SUFFICES ASSUME ScanJoinInv, [Next]_vars PROVE ScanJoinInv'
    OBVIOUS
  <2>1. ASSUME NEW c \in Clients, cgiWiFiScan(c) \/ Disconnect(c) PROVE ScanJoinInv'
    BY <2>1, ListsPreserveInv
  <2>2. CASE wifiScanDoneCb
    BY <2>2, ScanDonePreservesInv
  <2>3. CASE FreeUndefined
    <3>1. sdk.opmode \in 1 .. 3 /\ sdk.config \in Networks \cup {NoNetwork}
      BY DEF ScanJoinInv, Shapes
    <3> QED BY <2>3, <3>1, RestartIsClean DEF FreeUndefined
  <2>4. CASE \/ cgiWiFiConnect \/ reassTimerCb \/ resetTimerCb \/ cgiWiFiConnStatus \/ cgiWiFiSetMode
             \/ (\E timer \in Timers : Elapse(timer)) \/ Link
    BY <2>4, JoinPreservesInv
  <2>5. CASE UNCHANGED vars
    BY <2>5 DEF vars, ScanJoinInv, Shapes, ScanInv, JoinInv, ListInv, AnswerWhole
  <2> QED BY <2>1, <2>2, <2>3, <2>4, <2>5 DEF Next
<1> QED BY <1>1, <1>2, PTL DEF Spec

\* Out of a scan noAps counts the result (util/cgiwifi.c), so that no list reads past
\* it, and an attempt to join tries what was asked for last, with its timer armed.
THEOREM WifiCgiCorrect == Spec => []WifiCgiInv
<1>1. ScanJoinInv => WifiCgiInv
  <2> SUFFICES ASSUME ScanJoinInv PROVE WifiCgiInv
    OBVIOUS
  <2>1. \A k \in DOMAIN cgiWifiAps.apData : cgiWifiAps.apData[k] \in Entries
    <3>1. cgiWifiAps.apData \in Seq(Entries)
      BY DEF ScanJoinInv, Shapes
    <3> QED BY <3>1, LenProperties, ElementOfSeq
  <2>2. TypeOK
    BY <2>1 DEF ScanJoinInv, Shapes, TypeOK
  <2> QED BY <2>2 DEF ScanJoinInv, ScanInv, JoinInv, WifiCgiInv
<1> QED BY <1>1, ScanJoinInvariant, PTL

\* Each answer of cgiWiFiScan() is one scan's result, whole and in order, unless a
\* scan that another list's end started came in between.
THEOREM AnswersAreWhole == Spec => []AnswerWhole
<1>1. ScanJoinInv => AnswerWhole
  BY DEF ScanJoinInv
<1> QED BY <1>1, ScanJoinInvariant, PTL
=============================================================================

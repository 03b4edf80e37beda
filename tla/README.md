# A TLA+ model of ESP-oven

ESP-oven keeps a small oven at a temperature: an ESP8266 reads a thermocouple
through a MAX6675, switches a heater, and is steered over HTTP; an Android
application shows the temperature and sets the threshold.  This directory holds
TLA+ modules of the program, the TLC configurations that check them on small
instances, and proofs that TLAPS checks for every instance.

Run a check with `tlc -config X.cfg M`, a proof with `tlapm M.tla`.
`PROJECT.json` lists the runs, the source lines behind each definition, a
mutant of the code for each property, the hazards, and the theorems.

## 1. Inventory

| part of the system | state it keeps | operations | talks to |
|---|---|---|---|
| **oven control task** (`temperature.cpp`, `PID.cpp`, in both firmwares) | globals `degree`, `threshold`, `enable`, `restart`; the heater pin; the locals of a cycle | `spi_task`, `warnup`, `readTemp`, `PID::calc`, `on_off` | shares the globals with the HTTP task, without a lock |
| **error history** (`errorHystory.cpp`) | `errors[50]`, `nextToAdd` | `addError`, `sumLast`, `maxMeanError`, `getSize` | called by the control task |
| **HTTP server of ovenFirmware** (`httpd.cpp`, `http.cpp`, `httpResponse.cpp`, `UrlMatcher.cpp`) | the parser object of the connection, and `buffer` and `previousChar`, statics that outlive it | accept, `readRequest`, `feed`, `dispatch`, seven handlers | clients over TCP; the globals of the control task |
| **station of ovenFirmware** (`main.c`) | `CONNECTED_BIT` | `event_handler`, `initialise_wifi` | Wi-Fi driver; the HTTP task waits for the bit once |
| **station and web server of newOvenFirmware** (`wifi.c`, `httpServer.c`, `main.c`) | the global handle `server`, `VASO_CONNECTED_BIT` | `event_handler`, `start_webserver`, `stop_webserver`, five URI handlers | driver event queue; the server's own task; the globals |
| **SPI driver** (`spi.c`) | registers | `spi_rx16` and friends | called by the control task |
| **Android client** (`MainActivity`, `Connect`, `RetrieveTemperature`, `RetrieveThreshold`, `SetThreshold`, `OvenVersion`) | two futures, the enabled widgets, the current `Connect` | `onCreate`, `onDestroy`, `reconnect`, `enable`, clicks, the polls | executor thread, UI queue, threads; HTTP to the oven |
| **libesphttpd, connection core** (`httpd/core/httpd.c`, `httpd-freertos.c`) | connection pool, send backlog, recursive lock | callbacks of the platform, CGI functions | kept in the tree; `ovenFirmware` has its own server instead |
| **websocket** (`util/cgiwebsocket.c`) | the list of websockets, the frame being parsed | `cgiWebSocketRecv`, `cgiWebsocketSend`, `cgiWebsockBroadcast`, `websockFree` | the core, the application, other tasks that broadcast |
| **flash CGIs** (`util/cgiflash.c`) | `UploadState` of a connection, the flash | `cgiUploadFirmware`, `cgiRebootFirmware`, `resetTimerCb` | POST chunks of the core; the boot loader; `mkupgimg` |
| **file system and templates** (`core/httpdespfs.c`, `espfs/espfs.c`) | an open file, a token being collected | `espFsOpen`, `espFsRead`, `cgiEspFsHook`, `cgiEspFsTemplate` | the core; images of `mkespfsimage`; `authBasic` in front |
| **Wi-Fi CGIs** (`util/cgiwifi.c`) | the last scan's result, `connTryStatus`, two timers | `cgiWiFiScan`, `wifiScanDoneCb`, `cgiWiFiConnect`, `cgiWiFiConnStatus`, `cgiWiFiSetMode` | the core; the SDK's station |
| **captive DNS** (`util/captdns.c`) | none | answers a packet | UDP |
| **tools and data** (mkespfsimage, mkupgimg, espfstest, gEDA, CMake) | none | - | - |

What is hard in it:

* *Shared globals without a lock.*  The control task reads `threshold` and
  `enable` once per cycle and then rests for up to two seconds; `setEnable` and
  `setRestart` assign a flag up to three times in a row.  What the control task
  sees depends on where it looks.
* *State that outlives its owner.*  `previousChar` survives the connection it was
  read from; the error history survives a restart of the control; the pin keeps
  the level of the last cycle when `on_off` does not touch it.
* *One task for everything.*  The old server has one task; a silent peer keeps it.
  In the new firmware the event task blocks in `httpd_stop` while events queue up.
* *Data cut anywhere.*  Requests, websocket frames, uploads, files and templates
  all come in pieces that end where the network, a buffer, a page or a sector
  ends, and every parser carries its state across.
* *Shared state between two calls of a CGI.*  Lists of access points, the list of
  websockets and the flash are used by several connections, and a call sees what
  the others did since the last one.
* *Callbacks in the wrong order.*  In the Android client the posts of a failing
  poll, of two `Connect` threads and of a cancelled poll mix on the UI thread.
* *Partial failure.*  `httpd_start`, `esp_wifi_connect`, select, an allocation, a
  receive or a request can fail half way through; an upload can be cut off by its
  client, by a reboot or by the power.

What makes each part correct is stated in section 3, part by part; the
`hazards` of `PROJECT.json` name the lines.

## 2. Modules

| module | models | composition |
|---|---|---|
| `SlidingWindow` | what the error history promises: the last *n* values pushed | abstract |
| `ErrorHistory` | `ErrorHistory`'s array and fill index | implements `SlidingWindow` (`ImplementsSlidingWindow`) |
| `OvenControl` | `spi_task` and the PUT handlers, each access to a shared global a step | EXTENDS `ErrorHistory` |
| `OvenControlObserved` | `OvenControl` with two history variables, a log of the errors and a count of late heating periods | EXTENDS `OvenControl` |
| `HttpServer` | the HTTP task of ovenFirmware with its clients and backlog | alone |
| `WifiServer` | event_handler, the life of the web server and its URI handlers in newOvenFirmware | alone |
| `OvenApp` | the Android client | alone |
| `HttpdCore` | libesphttpd's `core/httpd.c` under the select loop of `core/httpd-freertos.c` | alone |
| `Websocket` | `cgiwebsocket.c` with the callbacks of the core and a task that broadcasts | on the core's promises, see below |
| `FlashUpload` | `cgiflash.c`, the flash, the reboot | same |
| `Pages` | images of `mkespfsimage`, `espfs.c`, `httpdespfs.c`, `authBasic` | same |
| `WifiCgi` | `cgiwifi.c` with the scan and the timers of the SDK | same |
| `MC...` | values of the constants for TLC | EXTENDS the module |
| `OvenControl_proofs` | theorems about the error history and the control (section 4) | EXTENDS `OvenControlObserved` and `TLAPS` |
| `HttpServer_proofs`, `WifiServer_proofs`, `OvenApp_proofs`, `HttpdCore_proofs`, `Websocket_proofs`, `FlashUpload_proofs`, `WifiCgi_proofs` | theorems about one module each | EXTENDS the module and `TLAPS` |

The four CGI modules do not repeat `HttpdCore`: they use what its runs check,
that a CGI which asked for more is called again while its socket is open
(`NoCgiLeftBehind`, `Answered`), once more when it is closed, and that what it
sends arrives in order (`InOrder`).

Definitions keep the names of the code where they can.

**OvenControl.**  `pc` is the next step of `spi_task`, one label for each point
between two accesses to something the other task may write: `reset` is
`restart=false`, `target` the read of `threshold` in `warnup`, `read` the
conversion, `compute` the error, `addError` and `calc`, `gate` the read of
`enable`, `switchOn` and `switchOff` the two halves of `on_off` (the delays are
the time spent at the next label), `settled` the test at the end of `warnup`,
`loop` the test of `restart`.  `put` is the PUT handler that runs in the HTTP
task and the next `strcmp` of its chain.  The tests are written as the code has
them, `if (strcmp(...))`, so an assignment is made when the body *differs* from
the literal: with any body at all the last tests leave the flag FALSE.  The two
firmwares share the algorithm; they differ in `WaitsForTransfer`: ovenFirmware
reads `SPI_W0` right after starting a transfer and gets the previous or the new
conversion, newOvenFirmware's `spi_rx16` waits.

**HttpServer.**  A request is a sequence of symbols: CR, LF and single bytes
matter one by one, a run of bytes without CR or LF is one symbol, whose reading
is a constant (`RequestLine`, `HeaderLength`).  `feed` is `HTTP::feed` on one
symbol, with the parser record `http` and `previousChar` outside it.  The other
tasks of the firmware are not part of it: a handler that only reads a global or
writes `enable` or `restart` is the action `DispatchOther`.  A PUT without
Content-Length makes the handlers follow a NULL body; the build has no memory
protection at address 0 other than the exception of the chip, so the model
takes the reboot: connections and statics are lost, the threshold is the
built-in one.

**WifiServer.**  The driver posts `STA_START`, `GOT_IP` and `DISCONNECTED` to a
queue; `OnStart`, `OnGotIp`, `OnDisconnected` are the cases of `event_handler`.
`stop_webserver` waits for the running URI handler, so `OnDisconnected` and
`ServerStopped` are two steps between which the link may come up again (the
reconnection is requested first).  `ESP_ERROR_CHECK` on a failing
`esp_wifi_connect` is `ConnectAborts`: the chip reboots.  `busy` is the URI whose
handler the server's task is in; a handler ends in one step, since after the
receive, which `BeginRequest` waits for, it touches only `threshold`, and no other
task writes that; the answers, whose sending the code does not look at, are left out.
The text that `atoi` reads is what was received (`Received`:
the body, a part of it, or nothing after an error) followed by what the stack
held (`Leftovers`).

**OvenApp.**  `ui` is the queue of Runnables of the UI thread; `poll`, `kind`,
`temperature` and `threshold` are the scheduled tasks and the two futures;
`worker` and `step` are the executor's single thread.  `cancel(true)` on the
running poll may or may not break its request (`interruptBreaksIO`); a poll
whose `run()` throws is never run again while its future stays (`dead`), as
`ScheduledExecutorService` documents.  `bodyIsNumber` tells the firmwares apart, and
both are fixed in the initial state (`platform`):
newOvenFirmware ends its bodies with a newline (`"%d\n"`), which
`Integer.parseInt` refuses.  A `Connect` that hangs is a `Connect` that posts
nothing.

**HttpdCore.**  A callback of `httpd.c` runs under the recursive lock from its
first line to its last, so it is one step; between the callbacks move the
clients, a task that calls `httpdContinue`, and the steps of
`platHttpServerTask`: `SelectReturns`, `Accept`, and for each slot
`CheckWritable`, `CloseSocket` or `Sent`, and one of the reading actions.
`connData` is the pool, `rconn` the loop's own table; they find each other by
address and port (`Found`), as `httpdFindConnData` does.  Inside a callback a
*world* is the connection with its slot, the send buffer and what the client
received; each function of `httpd.c` gives the set of worlds it may end in, since
`write()`, an allocation or the CGI may go either way.  A response is numbered
parts, a request a head and the chunks of its body, and a CGI asks for more
until it has seen the body.  The comparison of `FD_ISSET(-1, ...)`, undefined
after the write half closed the slot, may say either (`NotReadable`,
`ReadClosed`).  The field `conn`, which only `httpdDisconCb` sets to NULL and only
for the CGI's last call, is left out.  A socket whose connection is not in the
pool is served by `ReceiveUnknown`; that `httpdSentCb` never meets one is the
property `SentFindsConnection`.  `junk` says that bytes of a body nobody took are
in front of the next head.

**Websocket.**  A stream is a sequence of frames and arrives byte by byte in any
grouping; a byte is known by what it stands for (`Part`).  `cgiWebSocketRecv` is a
recursive function over the bytes of one receive, whose round is the body of the
loop, `HeaderByte` for the header states and `Payload` for all the payload that is
there.  Whether a payload byte comes out clear is decided by `maskCtr`, as in the
code.  Receiving, the sent callback and the end of a connection hold the server's
lock.  `cgiWebsockBroadcast` does not, except while it sends: `SendOne` and
`NextWebsocket` are two steps, and `cast.stale` says that the websocket the walk
is at was freed meanwhile: then `Astray`, where reading `lw->priv->next` may end
the walk, lead it anywhere in the list, or crash.  `client` is what the receiver
makes of what is handed to the connection for it.  The stream is `spoilt` from the
first of three things on, all of which the code allows: a frame sent into the middle
of a PONG; a payload that `httpdSend` refuses, since it does not fit the 2048 bytes of
the send buffer (httpd.c:367), whose head goes out alone (cgiwebsocket.c:116-118); a
broadcast without memory for a send buffer (httpd.c:666-670), which then fills, sends
and frees the last one once more.  `Replies` is what the application may do when it
is given data: nothing, close the websocket, or send what does not fit.

**FlashUpload.**  A byte of flash is known by its file, part and place; `Written`
is `spi_flash_write`, which spoils what is not erased.  `cgiUploadFirmware` is the
loop over one POST buffer, `Round` its body; the loop is the recursive function
`after`, of as many rounds as it can need.  `ready` and `trusted` are history:
the upload that succeeded last, and whether the running image could have been
damaged by what the code is asked for (a plain firmware over the running one, a
reboot for which no upload is ready, since none was made or another one was begun).

**Pages.**  The image is a sequence of words and bytes made by `handleFile` and
`finishArchive`, and read by `Lookup` and `espFsRead`.  A compressed file is a
sequence of bytes, each standing for some characters, perhaps none: what the
heatshrink decoder holds is `dec`, its behaviour (`Rest`) external.  `Scan` is one
character of the template loop.  The uninitialised buffer of the Accept-Encoding
header may or may not hold "gzip" (`MayAccept`).

**WifiCgi.**  `cgiWifiAps` is the shared result; `conn` the clients' lists, one
entry a call.  `sdk` is the station, `joining` the attempt and its two timers.  A
timer is off, armed, or has had some of its time (`Elapse`), after which its callback
may run; until that has run, a request that disarms and arms it again
(cgiwifi.c:201-203, 228-234, 280-282) makes its time begin anew.  A restart leaves
mode and network, which the SDK keeps in flash (`Fresh`).

The driver, the event queue, `esp_http_server`, TCP and Java's executor are not
part of the repository: they are modelled from how the code uses them and marked
external.

## 3. What is checked

| run | instance | shows |
|---|---|---|
| `control` | two thresholds, three readings, all five kinds of body, capacity 2, old driver, fairness | the pin shows the duty and a cycle above target ends cold (`HeaterFollowsCycle`), the control loop always has enough history, warm-up is entered again only from inside PUT /restart, `enable` never comes back after a PUT; a disabled oven ends up off; a warm-up ends once the errors stay in the band |
| `control_observed` | capacity 3, warm-up of 3 errors, two bodies, new driver | the array is a sliding window (`ImplementsSlidingWindow`); `sumLast` sums the most recent errors and `maxMeanError` bounds every error of the window, of either sign (`ReadersAgree`); no heating above target on an old conversion; at most one late heating period; warm-up ends only after an unbroken streak in the band |
| `http` | two clients, ten requests (three of them begin with a stray CR or LF), any fragmentation, cut anywhere, backlog 2, fairness | every reply is the one its own request deserves, whatever came before it (`AnswersOwnRequest`); no CR survives a connection that ended by itself (in `ParserInv`); the threshold comes from whole bodies only; everybody is served unless a silent peer holds the task (`EveryoneServed`) |
| `wifi` | queue of 6 events, 2 servers, failures and aborts, two bodies, fairness | the handle owns the only server and no handler outlives its server (`ServerInv`); when the queue is empty the oven is served exactly when the link is up, unless `httpd_start` failed; a link that stays up is served |
| `app` | 3 scheduled tasks, load of 4 posts and threads, destruction, interrupts, both firmwares, fairness | every poll is owned by a future and the screen is enabled exactly while both polls have one (`PollsInv`); while Connect is disabled the temperature poll is alive; the temperature is shown again and again once the oven stays reachable and the user presses Connect; a press on Set ends in a reconnection, even behind dead polls |
| `core_safety` | 2 connections, 2 clients, an HTTP/1.0 GET and an HTTP/1.1 POST in two chunks, 2 parts, backlog of 1 part, failing writes, failing allocations, asynchronous CGIs | pool and sockets hold the same remote ends, and `httpdContinue` is never called with NULL (`PoolInv`); a CGI that asked for more is attached to an open socket; parts arrive in order |
| `core_live` | the same size, a GET that is kept alive and a 404 that is not, nothing fails, fairness | every client is answered; sockets of finished and departed clients are freed |
| `core_url` | **violation**: 1 client, an HTTP/1.1 POST in two chunks to an unknown URL | the rest of its body is read as a head, and the next request has no URL |
| `websocket` | 3 websockets at two urls, one of them with one of 8 streams of frames of all kinds and lengths, any fragmentation | the list is the open websockets; the application gets each payload byte once, unmasked and with its flags; a client is sent whole frames and its PING back, until the stream is spoilt (`FramesWhole`); a broadcast reaches every websocket that stays |
| `upload` | 2 clients, 6 files, pages of 2, sectors of 4, POST buffers of 6, images of 3 to 8 units | the running image stays whole and a boot finds the new one whole (`UploadInv`); what was reported written is in flash, byte by byte (`OkIsFlashed`) |
| `pages` | images of 2 files around the sizes of a word, a buffer (3) and a decoder's input (2), the name and the contents in front of the other file of every length modulo the word; every text of up to 7 characters with every placing of `%` | a file is found and sent whole, or rendered (`ServesFile`); no wrong 404, no page behind a login without it (`RightStatus`); nothing leaks (`PagesInv`) |
| `wifi_page` | 2 clients, scans that find nothing or 2 access points, 1 network, refused scans, failing allocations, fairness | nobody reads past a result and an attempt always has its timer (`WifiCgiInv`); a list shows one result, whole, unless another list ended within it (`AnswerWhole`); scans and lists end, and an attempt does, unless requests put its timer off again and again (`EverythingEnds`) |

*Bounds and why they are enough.*  The history of 50 errors and the windows of
20 become 2 and 3: `addError` has two cases (room, full), and a run fills the
array and shifts it several times; the band, the offset and the gains are the
program's own numbers, and the readings lie below, inside and above the band.
The integral window `MAX_INTEGRAL_SIZE` is below the capacity in
`control_observed`, as in the code.
`MaxQuiet` only counts rounds of `select`, each of which leaves the state as it
was.  Two clients are enough for state to leak from one connection into the
next; requests reach every branch of the parser.  `MaxEvents` lets a whole
disconnect-reconnect-disconnect sequence wait behind a blocked `httpd_stop`;
`MaxServers` 2 lets a leak happen; of the two bodies one is refused, when enough
of it has arrived, and the leftovers of the stack begin with a digit or not.  In
`OvenApp`, `MaxLoad` only stops new work
from being begun, never work under way; three scheduled tasks are the two the
code wants and one that a mistake would add.  In `HttpdCore` two slots and two clients
let one client come while another goes and take over its slot; two parts and a
backlog of one part reach the sent, the kept and the dropped packet (more never
waits, since the backlog is emptied before the CGI is called again); two chunks
are a body that is not complete at the first call of the CGI.

In `Websocket` the limits 125 and 65535 of the two short length fields become 2
and 3, so that a frame of 2, 3 or 4 bytes has each of the three headers; three
websockets are enough for one to vanish from the head, the middle and the end of
the list and for a walk to pass one of another url.  In `FlashUpload` a unit is 32
bytes: a page of 64 is 2; a sector is 4 instead of 128 and a POST buffer 6 instead
of 64, so that pages, sectors, chunks and parts end at different places, as with
the real sizes.  In `Pages` the buffer of 1024 is 3, the decoder's input of 16 is
2 and the token of 63 characters is 2; a text of 7 characters is two full buffers
and a rest, and all lengths up to there, 0, 3 and 6 included, occur.  A list of
two access points in `WifiCgi` has a first, a last and a place between two calls.  With
its one network, whether the attempt is made for the network asked for last cannot be
told apart there; with two the run is too long, and `WifiCgiCorrect` has it for any.

*Fairness.*  FreeRTOS gives tasks of equal priority their turn and ends their
delays (`WF_vars(Task)`), and a handler that was entered finishes
(`WF_vars(setEnable)`, `WF_vars(setRestart)`).  TCP delivers what was sent
(`WF_vars(Deliver(c))`).  The event task handles what is queued and a URI handler
returns (its receive has a timeout).  In the client the polls' and
`SetThreshold`'s requests have timeouts of 2 s, threads run, and
`scheduleAtFixedRate` returns to each poll again and again (strong fairness of
`StartTemperature`: the other poll takes the thread in between).  Nobody is
assumed to press a button, except by `ShownAgain`, whose user presses Connect
while the button stays enabled.  No fairness at all is put on the network coming
back, on clients sending, on readings or on the user pressing Set.

For `HttpdCore` the server task runs, TCP delivers, and `select` reports a socket
that stays writable (strong fairness for each slot: it may be reported in one
round and not in the next).  Clients are not assumed to ask or to leave; that a
response ends is the bound `MaxParts`.

In `WifiCgi` the SDK ends its scans, time passes, the callback of a timer that no
request arms anew runs, and the core calls a CGI that has more to send.  A client that
asks for the status more often than once a second, or for another attempt every few
seconds, puts the callback off for ever: each such request is a step `PutOff`, and
`EverythingEnds` says that an attempt ends unless these go on for ever.  A scan that
the SDK refused, or whose result found no memory (`lost`), never ends in the code, and
the property says so too.

*Deadlock* is checked for every module but two: `HttpServer` stops when every
client had its request (or keeps waiting for a silent one, at the bound
`MaxQuiet`), `OvenApp` may stop when it is destroyed.

*What the code does that a reader may not expect*, all of it in the models:

* Every PUT `/enable` and `/restart` ends with the flag FALSE
  (`EnableNeverRegained`), so a restart happens only when the control task tests
  the flag between two `strcmp` calls (`RewarmOnlyInsidePut`).  The heater pin is
  high from the configuration of the pin to the first `on_off`.
* In ovenFirmware an empty body with Content-Length 0 sets the threshold to 0, and
  a request with an unknown HTTP version is answered.
* In newOvenFirmware a receive that fails, or gives digits only up to its end, sets
  the threshold from what the stack held behind them, and a refused body is
  answered with nothing: `httpd_resp_set_status` sends nothing (httpServer.c:50-62).
* libesphttpd's core ignores the result of `httpdConnectCb`
  (httpd-freertos.c:180), so after a failed allocation a socket is served whose
  connection `httpdFindConnData` does not find; a packet in the backlog that is
  refused a second time is lost (httpd.c:474); a callback writes directly whatever
  the backlog holds (httpd.c:405), so two answers to one HTTP/1.0 POST may change
  places: `InOrder` is checked for requests that get one answer.
* A broadcast walks the list of websockets without the lock between two sends and
  reads one that was freed (cgiwebsocket.c:133); a frame sent between the fragments
  of a PING goes into the middle of the PONG (cgiwebsocket.c:226); of a frame whose
  payload does not fit the send buffer only the head is sent (cgiwebsocket.c:116-118).
  `BroadcastReachesAll` and `FramesWhole` say what holds as long as these do not
  happen.  Data that comes after the frame that ended a websocket still finds its
  `recvHdl`, which nothing clears (httpd.c:763-765), while `cgiData` is NULL: reading
  `ws->priv` resets the chip (`ReceiveDone`).
* A plain firmware is always written to the first region (cgiflash.c:180), also
  while that one runs; an upload that ends early is answered 200, with an error in
  its text (cgiflash.c:253); the lengths of the two parts of an image are not
  compared with the regions (cgiflash.c:152).  `UploadInv` speaks of the images the
  code is meant for (`trusted`).
* `scanInProgress` stays 1 when the allocation of the result fails
  (cgiwifi.c:73), and every later scan is refused; a list whose result was replaced
  may get the headers of a second answer in its middle (cgiwifi.c:127); in station
  mode an attempt has no time limit (cgiwifi.c:199); the timer that a comment says
  leads to "AP-only mode" leaves the access point off (cgiwifi.c:279).

## 4. What is proved

Every theorem holds for all values of the constants that the module's named
assumption allows, so for any number of clients, slots, events or polls, any
requests and any sizes, where TLC has a small instance.  The assumptions say what
kind of thing a constant is.  Four of them exclude something.
`ServerAssumption`: a `Content-Length` is not negative, since with a negative one
the code's comparison of signed and unsigned lengths has no sensible meaning; and
what follows the leading CRs and LFs of a request is its first line.
`WebsocketAssumption`: only data frames may come without a mask.
`CoreAssumption`: a request line with a version or a page has a URL.
`UploadAssumption`: pages divide sectors and sectors regions, a POST buffer is not
smaller than a header, and each part of an OTA image fits its region, which the code
does not test; other files may have any size.

Each proof has the same frame: an invariant `Inv` with `Init => Inv`, one lemma or
step for each action that says `Inv /\ Action => Inv'`, the property from `Inv`,
and `PTL` for the temporal conclusion.  Where the code loops, the model has a
recursive function; what it computes is proved by induction in the form of a least
counterexample (`Least`, `LeastExists`: a set of numbers that is not empty has a
least element, from the well-foundedness of `<`).  The existence of the recursive
function is proved the same way, one element of its domain at a time (`SumsExist`,
for instance), since a recursive definition by itself is only a `CHOOSE`.

**The error history and the control** (`OvenControl_proofs`).

* `HistoryTypeCorrect`, `HistoryImplementsWindow`: the array refines the sliding
  window, for every capacity.  The refinement maps `window` to the first
  `nextToAdd` cells; one lemma, `AddErrorPushes`, does the two cases.
  `WindowCorrect` is the same refinement inside the control task, whose steps add
  an error or leave the array alone (`HistoryStep`).
* `ControlInvariant`: `ControlInv` is inductive.  `TypeOK` is not inductive alone:
  that `err` is an error value needs the target of a warm-up cycle to come from a
  threshold (`FlowInv`), and the pin at the end of a cycle needs what happened
  at its middle (`DutyInv`).  `PutInv` follows a flag along the `strcmp` chain: up
  before the last test only for the body `"0"`, which the last test lowers.
* From it `TypeCorrect`; `HeaterCorrect`, that is `DutyCorrect` and
  `HotOvenCorrect` together; `HistoryCorrect`, `RestartCorrect`, `RewarmCorrect`,
  `EnableCorrect`.
* `FreshSampleCorrect`, assuming `WaitsForTransfer`, with `SampleInv`: between the
  conversion and the end of the cycle `degree` is the latest conversion.
* `LateHeatCorrect`, with `LateInv`: while `enable` is down and a late period was
  begun the task is past its gate or will be stopped by it.
* `RecentCorrect`, with `RecentInv`: the cells in use are, in their order, the errors
  of the latest cycles.  From it `ReadersCorrect` (`ReadersAgree`) and `StreakCorrect`
  (`SettledMeansStreak`).  `SumAgrees` is what they need of `sumLast`: the code sums
  up the cells and the reference sums the log from its newest element down, and at
  every cell what the one has summed and what the other has left make the same sum.
  `MaxMeanErrorIs` bounds the loop of `maxMeanError`.

**The HTTP server of ovenFirmware** (`HttpServer_proofs`).  `HttpInvariant`: `HttpInv`
is inductive.  `QueueInv` says who is where, `Sound` what holds of the parser and of
`previousChar` whatever was fed.  The heart is `Parsed`: after the first *n* symbols
of a request the parser's state is what the definitions that read the whole text
(`LineEnds`, `HeadersEnd`, `Lengths`, `Body`) make of these *n* symbols.  Each status
of the parser has a lemma that feeds one more symbol, and with the last one the two
readings agree: `AnswersCorrect` (`AnswersOwnRequest`), `ThresholdCorrect`
(`ThresholdFromWholeBody`), and `ParserCorrect` (`ParserInv`).

**Station and web server of newOvenFirmware** (`WifiServer_proofs`).
`ServerCorrect` (`ServerInv`) needs no strengthening.  `ServerFollowsLinkCorrect` does:
the event task does not read the state of the link, so the link between the two is
the youngest event in the queue (`YoungestInv`), and, with the queue empty, what the
last event made the task do (`DoneInv`); `LinkInvariant` has them together.

**Android client** (`OvenApp_proofs`).  `AppInv` adds to `PollsInv` what a future may
refer to (`FuturesInv`), what the executor's thread may be running (`WorkerInv`) and
which polls can have died (`DeathsInv`).  From it `PollsCorrect` and
`SomethingWatchesCorrect`.

**libesphttpd's core** (`HttpdCore_proofs`).  `CoreInv`: the shapes of the records, the
two tables (`Tables`), what the loop remembers between its steps (`LoopInv`), and that
no CGI is left behind.  The tables agree because a callback leaves the remote ends of
its connection and of its socket alone, which is proved of every operator that makes
one up, whatever `write()` and `malloc()` refuse; that a slot of the pool is free when
a socket is accepted is a counting argument (an injection of the pool into the
sockets).  `PoolCorrect` (`PoolInv`) and `CgiCorrect` (`NoCgiLeftBehind`).

`OrderCorrect` (`InOrder`) is about the parts of an answer, and what the client got
says too little for it.  `Line` is what the CGI has sent: what the client got, and
behind it what waits in the send buffer or in the backlog.  That the line rises, that
the CGI goes on behind it, and that the backlog holds one packet at most is `Stream`,
which every operator of a callback keeps, whatever `write()` refuses.  The next answer
must not begin while an older one waits: `Ahead` says that at most one head is on its
way, to a connection with nothing left of an older answer, and `Of` ties this to what
the client has asked and how (HTTP/1.1 and chunks, or HTTP/1.0 and the end of the
connection).  `Good` is all of it, taken through the reading of a packet one piece at
a time, and `PartsInv` says it of every connection.  The theorem has the hypothesis
`OneAnswer`: no request is an HTTP/1.0 POST in several chunks to a URL nobody serves.
The core answers 404 to each chunk of such a request, writes directly whatever the
backlog holds (httpd.c:405), and `InOrder` is false, as TLC shows when such a request
is added.  Every run that checks `InOrder` satisfies the hypothesis.

**Websocket** (`Websocket_proofs`).  `WebsocketInv`: the list has the open websockets,
each once, and while a broadcast walks, everyone it has still to reach is behind the
websocket it is at (`WalkInv`), however others come and go.  `ListCorrect`
(`ListInv`, with the types of the parser for any stream and any fragments) and
`BroadcastCorrect` (`BroadcastReachesAll`).

`FragmentsCorrect` (`FragmentsInvisible`) and `FramesCorrect` (`FramesWhole`) are about
the bytes, for streams of any frames in any fragments.  `Content` is what the bytes of
a stream should give the application, read one byte at a time and without a parser.
`Begins` says where in the stream a frame begins, and `FrameBytesOf` what its bytes
are.  `Parsed(c, x)` says what the parser holds after *x* bytes: it is between two
frames, or in the header of one (`InHeader`), or behind *k* bytes of a payload
(`InPayload`, where `maskCtr` and *k* agree modulo 4), and what the client has been
sent fits (`ClientAt`: whole frames, or the first *k* bytes of the PONG).  The loop
takes a payload in one round and then skips its bytes, so the statement about a round,
`Ok`, speaks of the place behind the bytes that are to be skipped; `HeaderStep` does a
byte of a header, `PayloadKeeps` a piece of a payload for each kind of frame,
`PieceContent` shows that what was given for the piece is what `Content` has there, and
`NoContent` that it has nothing for headers, control frames and whatever follows the
end of the websocket.  `RoundStep` puts them together, `RoundsOk` is the induction over
the rounds, and `BytesInv` the invariant of every connection: a broadcast that comes in
between leaves the parser where it is and spoils the PONG it is in (`SendBetween`).

**Wi-Fi page** (`WifiCgi_proofs`).  `WifiCgiInv` is not inductive: that `noAps` still
counts the result when a scan ends badly needs that it does while one is under way
(`ScanInv`), and `AnswerWhole` needs that what was sent of a list is its beginning
(`ListInv`).  `WifiCgiCorrect`, `AnswersAreWhole`.

**Flash** (`FlashUpload_proofs`).  `FlashInv` says of an upload two things.
`Position`: the state of `cgiUploadFirmware` is a function of the number of bytes it
was given, however these were cut into chunks, so the next byte of the chunk is the
next byte of the part that goes to flash.  `Stored`: the pages written so far are in
flash at their place, and what is left of the sector under way is erased, so that the
next page falls on erased flash (`spi_flash_write` only clears bits).  One lemma for
each branch of the loop's body keeps both, leaves the other regions alone (`Outside`)
and decreases `Measure`; from these the loop ends with the chunk taken whole
(`ChunkTaken`).  The rest is who writes where: two uploads to two urls have different
targets, two to one url know of each other (`RivalsInv`), and none writes to the
running region while `trusted` (`TrustInv`).  `UploadCorrect` (`UploadInv`),
`FlashedCorrect` (`OkIsFlashed`).

Only model-checked:

* every liveness property: fairness and `ENABLED` are out of the prover's reach;
* the properties of `Pages`, whose operators are RECURSIVE: what the reader makes of a
  directory it walks and of a compressed file is induction over data.

## 5. What is not modelled

* The station of ovenFirmware (`main.c`): a handler that asks the driver to connect
  and keeps a bit for which the HTTP task waits once.  Whether the station comes
  back is the driver's business; newOvenFirmware's handler, on which a server
  hangs, is in `WifiServer`.
* The registers of the SPI driver; `OvenControl` keeps what matters of it, whether a
  read waits for the transfer.
* The 100-byte line buffer of the old parser and heads longer than the buffer of the
  new one, where bytes would have to be counted one by one; the overflow of `atoi`,
  whose result nothing in the repository defines.
* The failing allocations that libesphttpd does not test, which stop the chip.  A
  fragment that the receive callback drops because it has no memory for a send buffer
  (httpd.c:695-699) is in `HttpdCore`, not among the fragmentations of `Websocket`.
  What a heap damaged by the double free of httpd.c:666-670 does later is not followed.
* In `HttpdCore`, a CGI that is done without having sent anything, to whose connection
  no sent callback comes.
* In `Pages`, `httpdSend`'s refusal of more than 2048 bytes in one call of a template
  (httpd.c:367; httpdespfs.c:158, 170, 186), and the several places that close a file
  after an error (httpdespfs.c:69, 132-140), which are one; in `Websocket` a PONG always
  fits, since the answers to a receive of 2048 bytes are shorter than it.
* An OTA body shorter than its own header, whose length would be negative
  (cgiflash.c:158, 218): `UploadAssumption` excludes it.
* In `OvenApp`, the exception of `Integer.parseInt` when the text to set is empty or no
  number (MainActivity.java:114), which ends the application.
* Pure conversions without a state: base64, SHA-1, the decoding of URLs and
  arguments, the answers of the captive DNS, JSON and other texts of replies, logs.
* `tplWlan` (a token to a text), `espFsInit` (a check of the image's first words) and
  the redirecting CGIs.
* The options of the host tools, their compressors, and `espfstest`; the non-OS
  platform of libesphttpd, of which `httpd-freertos.c` takes the place.
* Endpoint stubs that no code registers, schematics, the build.

## 6. Plan

1. Done: the control of the oven, both web servers with their handlers, the Android
   client, libesphttpd's core, websocket, flash, files and templates, Wi-Fi page.
2. Done, proofs: the safety of the control, of both web servers, of the client, of the
   core with the order of what it sends, of websockets from the bytes of a frame to the
   broadcast, of the flash and of the Wi-Fi page.
3. Next, proofs: the file reader of `Pages`, once its RECURSIVE operators are functions.
4. Then `HttpServer` and `OvenControl` composed, the handlers synchronised, so that a
   whole request is followed to the heater; the station of ovenFirmware in front.

---------------------------- MODULE FlashUpload ----------------------------
(***************************************************************************)
(* util/cgiflash.c: new firmware and file systems written to flash out of  *)
(* the chunks of a POST, and the reboot into what was written.             *)
(*                                                                         *)
(* The flash holds two firmware images, user1.bin and user2.bin, of which  *)
(* one is running, and behind them the file system.  An upload survives    *)
(* neither the end of its connection nor a power cut; the flash does.      *)
(***************************************************************************)
EXTENDS Integers, Sequences

CONSTANTS
    Conn,           \* connections
    Files,          \* what clients upload
    Factory,        \* the OTA image the flash holds at first
    PAGELEN,        \* bytes written at a time
    SEC_SIZE,       \* SPI_FLASH_SEC_SIZE, bytes erased at a time
    fwSize,         \* bytes of a region of the flash
    HeaderSize,     \* sizeof(OtaHeader)
    PostLen         \* HTTPD_MAX_POST_LEN

\* A file: for an OTA image the tag says whether it is for this device, and
\* len1 and len2 are the lengths of its two parts; other files have one part.
\* Of all its bytes, size are sent.
File == [type : {"OTA", "BIN", "ESPFS", "other"}, tag : BOOLEAN, len1 : Nat, len2 : Nat, size : Nat]

\* A chunk is larger than a header, and an OTA image is made for the device: the
\* code checks the sum of its parts and not that each fits its region.
ASSUME UploadAssumption ==
    /\ {PAGELEN, SEC_SIZE, fwSize, PostLen} \subseteq Nat \ {0}
    /\ SEC_SIZE % PAGELEN = 0 /\ fwSize % SEC_SIZE = 0
    /\ HeaderSize \in 1 .. PostLen
    /\ Factory \in File /\ Factory.type = "OTA" /\ Files \subseteq File
    /\ \A f \in Files \cup {Factory} :
          /\ f.size >= 1
          /\ f.type = "OTA" => /\ f.len1 <= fwSize /\ f.len2 <= fwSize
                               /\ f.size \in HeaderSize .. HeaderSize + f.len1 + f.len2
          /\ f.type # "OTA" => f.size = f.len1

\* Region 3 is the file system's.
Region == 1 .. 3
fwPos(r) == (r - 1) * fwSize
Cells(r) == fwPos(r) .. fwPos(r) + fwSize - 1

\* Byte k of part r of a file; part 0 is the header.
Part(f, r, n) == [k \in 1 .. n |-> [file |-> f, part |-> r, k |-> k]]

PartLen(f, r) == IF r = 2 THEN f.len2 ELSE f.len1

Erased == [file |-> Factory, part |-> 0, k |-> 0]
Mixed == [Erased EXCEPT !.k = -1]

VARIABLES
    flash,     \* address -> byte
    running,   \* the image that runs: system_upgrade_userbin_check() + 1
    upload,    \* connection -> [at, file, part, def, force, shared, received, s, result]
    timer,     \* resetTimer is armed
    ready,     \* history: the file of the last upload, if it succeeded, by its url
    trusted    \* history: the running image is not one somebody risked

vars == <<flash, running, upload, timer, ready, trusted>>

Url == {"FW", "ESPFS"}

\* UploadState, after memset.
State == [state |-> "START", pageData |-> <<>>, address |-> 0, len |-> 0, skip |-> 0]

\* result: what the client was told last; shared: a history, another upload to
\* the same url was under way.
NoUpload == [at |-> "idle", file |-> Factory, part |-> 1, def |-> "FW", force |-> FALSE,
             shared |-> FALSE, received |-> 0, s |-> State, result |-> "none"]

Init ==
    /\ flash = [a \in UNION {Cells(r) : r \in Region} |->
                  LET r == (a \div fwSize) + 1
                      k == (a % fwSize) + 1
                  IN  IF r \in 1 .. 2 /\ k <= PartLen(Factory, r)
                      THEN [file |-> Factory, part |-> r, k |-> k] ELSE Erased]
    /\ running \in 1 .. 2
    /\ upload = [c \in Conn |-> NoUpload]
    /\ timer = FALSE
    /\ ready = [def \in Url |-> {}]
    /\ trusted = TRUE
-----------------------------------------------------------------------------
(* cgiUploadFirmware.                                                      *)

\* mkupgimg puts both parts behind a header; the other files are one part, and
\* of the firmware it is the one that cgiGetFirmwareNext asked for.
Body(u) == LET f == u.file
               all == CASE f.type = "OTA" -> Part(f, 0, HeaderSize) \o Part(f, 1, f.len1) \o Part(f, 2, f.len2)
                        [] f.type = "BIN" -> Part(f, u.part, f.len1)
                        [] OTHER          -> Part(f, 3, f.len1)
           IN  SubSeq(all, 1, f.size)

PostTotal(u) == Len(Body(u))

cgiGetFirmwareNext == IF running = 2 THEN 1 ELSE 2

Starting(s, state, len, skip, address) ==
    [s EXCEPT !.state = state, !.len = len, !.skip = skip, !.address = address]

\* The part for the image that runs taken.
HeaderSwapsParts(w, u) ==
    LET f == u.file
        error == [w EXCEPT !.s.state = "ERROR"]
    IN  CASE u.def = "FW" /\ f.type = "OTA" ->
                IF (~f.tag /\ ~u.force) \/ PostTotal(u) > fwSize * 2 + HeaderSize THEN error
                ELSE [w EXCEPT !.data = SubSeq(@, HeaderSize + 1, Len(@)),
                               !.s = IF running = 1 THEN Starting(@, "WRITE", f.len1, f.len2, fwPos(1))
                                                    ELSE Starting(@, "SKIP", f.len2, f.len1, fwPos(2))]
          [] (u.def = "FW" /\ f.type = "BIN") \/ (u.def = "ESPFS" /\ f.type = "ESPFS") ->
                IF PostTotal(u) > fwSize THEN error
                ELSE [w EXCEPT !.s = Starting(@, "WRITE", PostTotal(u), 0,
                                              fwPos(IF u.def = "FW" THEN 1 ELSE 3))]
          [] OTHER -> error

\* The header of what is uploaded: the state it leads to, or an error.
Header(w, u) ==
    LET f == u.file
        error == [w EXCEPT !.s.state = "ERROR"]
    IN  CASE u.def = "FW" /\ f.type = "OTA" ->
                IF (~f.tag /\ ~u.force) \/ PostTotal(u) > fwSize * 2 + HeaderSize THEN error
                ELSE [w EXCEPT !.data = SubSeq(@, HeaderSize + 1, Len(@)),
                               !.s = IF running = 2 THEN Starting(@, "WRITE", f.len1, f.len2, fwPos(1))
                                                    ELSE Starting(@, "SKIP", f.len2, f.len1, fwPos(2))]
          [] (u.def = "FW" /\ f.type = "BIN") \/ (u.def = "ESPFS" /\ f.type = "ESPFS") ->
                IF PostTotal(u) > fwSize THEN error
                ELSE [w EXCEPT !.s = Starting(@, "WRITE", PostTotal(u), 0,
                                              fwPos(IF u.def = "FW" THEN 1 ELSE 3))]
          [] OTHER -> error

Skip(w) ==
    LET n == IF w.s.skip > Len(w.data) THEN Len(w.data) ELSE w.s.skip
    IN  [w EXCEPT !.data = SubSeq(@, n + 1, Len(@)), !.s.skip = @ - n,
                  !.s.state = IF w.s.skip > Len(w.data) THEN "SKIP"
                              ELSE IF w.s.len # 0 THEN "WRITE" ELSE "DONE"]

\* spi_flash_write can only clear bits: what is not erased is spoiled.
Written(fl, address, page) ==
    [a \in DOMAIN fl |->
        IF a \notin address .. address + Len(page) - 1 THEN fl[a]
        ELSE IF fl[a] = Erased THEN page[a - address + 1] ELSE Mixed]

ErasedSector(fl, address) ==
    [a \in DOMAIN fl |-> IF a \div SEC_SIZE = address \div SEC_SIZE THEN Erased ELSE fl[a]]

\* A sector is erased when the first page of it is written.
EraseSector(fl, address) == IF address % SEC_SIZE = 0 THEN ErasedSector(fl, address) ELSE fl

\* The last part of a page dropped when a chunk ends in it.
WriteDropsRest(w) ==
    LET s == w.s
        room == PAGELEN - Len(s.pageData)
        left == IF s.len < room THEN s.len ELSE room
        page == s.pageData \o SubSeq(w.data, 1, left)
    IN  IF Len(w.data) < left THEN [w EXCEPT !.data = <<>>, !.s.len = @ - Len(w.data)]
        ELSE [data |-> SubSeq(w.data, left + 1, Len(w.data)),
              flash |-> Written(EraseSector(w.flash, s.address), s.address, page),
              s |-> [s EXCEPT !.pageData = <<>>, !.address = @ + PAGELEN, !.len = @ - left,
                              !.state = IF s.len > left THEN "WRITE"
                                        ELSE IF s.skip # 0 THEN "SKIP" ELSE "DONE"]]

\* Bytes go to the page, and the page to flash when it or the image is complete.
Write(w) ==
    LET s == w.s
        room == PAGELEN - Len(s.pageData)
        left == IF s.len < room THEN s.len ELSE room
        page == s.pageData \o SubSeq(w.data, 1, left)
    IN  IF Len(w.data) < left
        THEN [w EXCEPT !.data = <<>>, !.s.pageData = @ \o w.data, !.s.len = @ - Len(w.data)]
        ELSE [data |-> SubSeq(w.data, left + 1, Len(w.data)),
              flash |-> Written(EraseSector(w.flash, s.address), s.address, page),
              s |-> [s EXCEPT !.pageData = <<>>, !.address = @ + PAGELEN, !.len = @ - left,
                              !.state = IF s.len > left THEN "WRITE"
                                        ELSE IF s.skip # 0 THEN "SKIP" ELSE "DONE"]]

Round(w, u) ==
    CASE w.s.state = "START" -> Header(w, u)
      [] w.s.state = "SKIP"  -> Skip(w)
      [] w.s.state = "WRITE" -> Write(w)
      [] OTHER               -> [w EXCEPT !.data = <<>>]

\* while (dataLen != 0)
Loop(w, u) == IF w.data = <<>> THEN w ELSE Round(w, u)

\* A round takes nothing only when it leaves the first state, or a part of the
\* image of which nothing is left, so these rounds are enough.
cgiUploadFirmware(w, u) ==
    LET rounds == 2 * Len(w.data) + 3
        after[i \in 0 .. rounds] == IF i = 0 THEN w ELSE Loop(after[i - 1], u)
    IN  after[rounds]

\* A status of 400, or of 200 with or without the text of an error.
Response(state) == CASE state = "ERROR" -> "refused"
                     [] state = "DONE"  -> "ok"
                     [] OTHER           -> "premature end"
-----------------------------------------------------------------------------
(* Clients, the server, the timer and the power.                           *)

Rivals(def) == {c \in Conn : upload[c].at = "posting" /\ upload[c].def = def}

\* A client posts a file, to the url of its type or to the other, and with
\* "force" or without.  A plain firmware goes to region 1, even if that runs.
Post(c) ==
    /\ upload[c].at = "idle"
    /\ \E f \in Files, def \in Url, force \in BOOLEAN :
          LET shared == Rivals(def) # {}
              new == [NoUpload EXCEPT !.at = "posting", !.file = f, !.part = cgiGetFirmwareNext,
                                      !.def = def, !.force = force, !.shared = shared]
          IN  /\ force => ~f.tag
              /\ upload' = [d \in Conn |-> IF d = c THEN new
                                           ELSE IF d \in Rivals(def) THEN [upload[d] EXCEPT !.shared = TRUE]
                                           ELSE upload[d]]
              /\ trusted' = (trusted /\ (f.type = "BIN" => running = 2))
              /\ ready' = [ready EXCEPT ![def] = {}]
    /\ UNCHANGED <<flash, running, timer>>

\* The POST buffer is full, or the body complete.
Receive(c) ==
    LET u == upload[c]
        rest == PostTotal(u) - u.received
        n == IF rest > PostLen THEN PostLen ELSE rest
        w == cgiUploadFirmware([s |-> u.s, flash |-> flash,
                                data |-> SubSeq(Body(u), u.received + 1, u.received + n)], u)
        placed == w.s.state = "DONE" /\ ~u.shared /\ (u.file.type = "BIN" => running = 2)
    IN  /\ u.at = "posting"
        /\ flash' = w.flash
        /\ IF n = rest
           THEN /\ upload' = [upload EXCEPT ![c] = [NoUpload EXCEPT !.def = u.def,
                                                                    !.result = Response(w.s.state)]]
                /\ ready' = [ready EXCEPT ![u.def] = IF placed THEN {u.file} ELSE {}]
           ELSE /\ upload' = [upload EXCEPT ![c].received = @ + n, ![c].s = w.s]
                /\ UNCHANGED ready
        /\ UNCHANGED <<running, timer, trusted>>

\* The connection goes away, and the CGI frees its state.
Abort(c) ==
    /\ upload[c].at = "posting"
    /\ upload' = [upload EXCEPT ![c] = NoUpload]
    /\ UNCHANGED <<flash, running, timer, ready, trusted>>

\* A client asks for the reboot, whatever is in the other region: in 200 ms.
cgiRebootFirmware(c) ==
    /\ upload[c].at = "idle"
    /\ timer' = TRUE
    /\ UNCHANGED <<flash, running, upload, ready, trusted>>

Boot == /\ upload' = [c \in Conn |-> NoUpload]
        /\ timer' = FALSE
        /\ ready' = [def \in Url |-> {}]
        /\ UNCHANGED flash

\* The other image is started, and what is in it is not looked at.
resetTimerCb ==
    /\ timer
    /\ running' = 3 - running
    /\ trusted' = (ready["FW"] # {})
    /\ Boot

PowerCut == Boot /\ UNCHANGED <<running, trusted>>

Next == \/ \E c \in Conn : Post(c) \/ Receive(c) \/ Abort(c) \/ cgiRebootFirmware(c)
        \/ resetTimerCb \/ PowerCut

Spec == Init /\ [][Next]_vars
-----------------------------------------------------------------------------
(* Properties.                                                             *)

TypeOK ==
    /\ running \in 1 .. 2 /\ {timer, trusted} \subseteq BOOLEAN
    /\ ready \in [Url -> SUBSET Files]
    /\ \A c \in Conn :
          LET u == upload[c] IN
          /\ u.at \in {"idle", "posting"} /\ u.received \in 0 .. PostTotal(u)
          /\ u.result \in {"none", "ok", "refused", "premature end"}
          /\ u.s.state \in {"START", "WRITE", "SKIP", "DONE", "ERROR"}
          /\ u.s.len >= 0 /\ u.s.skip >= 0 /\ Len(u.s.pageData) < PAGELEN

\* A plain firmware is only written to the first region, and no other holds one.
MadeFor(f, r) == IF r = 3 THEN f.type = "ESPFS" ELSE f.type = "OTA" \/ (f.type = "BIN" /\ r = 1)

\* The region r holds part r of a file made for it, from its first byte to its last.
Holds(r, f) == /\ MadeFor(f, r)
               /\ \A k \in 1 .. PartLen(f, r) :
                     flash[fwPos(r) + k - 1] = [file |-> f, part |-> r, k |-> k]

\* The image that runs is a whole image for its place, so that the device comes
\* up again: no upload, cut off or not, and no power cut touches it, and a boot
\* into a new one finds it whole.  Not so after a plain firmware was put over
\* the image that runs, or a boot for which no upload was ready: there was none,
\* or another was begun since.
RunningWhole == trusted => \E f \in Files \cup {Factory} : Holds(running, f)

\* The types of the upload, and the image that runs stays bootable.
UploadInv == TypeOK /\ RunningWhole

\* An upload that no other was under way with, and that was told of no error,
\* is in flash until the next one: every byte of the right part, at its place
\* and on erased flash, however chunks, pages and sectors fall.
OkIsFlashed ==
    /\ \A f \in ready["FW"] : Holds(3 - running, f)
    /\ \A f \in ready["ESPFS"] : Holds(3, f)
=============================================================================

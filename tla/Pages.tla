------------------------------- MODULE Pages -------------------------------
(***************************************************************************)
(* The pages of libesphttpd: mkespfsimage packs files into an image,       *)
(* espfs.c opens and reads them there, and the CGIs of httpdespfs.c send   *)
(* them, as they are or as templates, a buffer for each call; authBasic    *)
(* may stand in front of them.                                             *)
(*                                                                         *)
(* The connection is served by one callback at a time, each a step; between *)
(* two of them it may be closed.                                           *)
(***************************************************************************)
EXTENDS Integers, Sequences, SequencesExt

CONSTANTS
    Images,         \* lists of files an image may be made of
    Names,          \* what is asked for, in the image or not
    NameLen(_),     \* strlen of a name
    HeaderSize,     \* sizeof(EspFsHeader)
    BuffLen,        \* bytes the CGIs read at a time: 1024
    SinkLen,        \* bytes the decoder takes at a time: 16
    TokenLen        \* longest token of a template: 63

\* packed: what heatshrink or gzip make of the text, byte by byte the text it
\* stands for; gzip: the name has one of gzipExtensions.
ASSUME PagesAssumption ==
    /\ HeaderSize % 4 = 0 /\ HeaderSize > 0
    /\ {BuffLen, SinkLen, TokenLen} \subseteq Nat \ {0}
    /\ \A files \in Images : \A j \in DOMAIN files :
          /\ files[j].name \in Names /\ NameLen(files[j].name) \in Nat
          /\ FlattenSeq(files[j].packed) = files[j].text

VARIABLES
    files,    \* what the image was made of
    image,    \* the bytes in flash, from espFsData
    req,      \* [at, name, table, i, gzip, login, failed]
    file,     \* cgiData: a sequence of at most one EspFsFile, [h, posStart, posComp, posDecomp, dec]
    tpl,      \* the rest of TplData: a token being collected, or not: [in, token]
    out,      \* the response: [status, body]
    heap      \* history: [files, args], EspFsFiles and template arguments not yet freed

vars == <<files, image, req, file, tpl, out, heap>>
-----------------------------------------------------------------------------
(* mkespfsimage.                                                           *)

Zero == [kind |-> "zero", v |-> 0]
Zeros(n) == [k \in 1 .. n |-> Zero]
Padded(s) == s \o Zeros((4 - (Len(s) % 4)) % 4)

Header(flags, compression, nameLen, csize, size) ==
    <<[kind |-> "header", v |-> [flags |-> flags, compression |-> compression, nameLen |-> nameLen,
                                 fileLenComp |-> csize, fileLenDecomp |-> size]]>>
        \o Zeros(HeaderSize - 1)

Contents(s) == [k \in DOMAIN s |-> [kind |-> "data", v |-> s[k]]]

\* What the compressor makes of a file is not used if it is larger; heatshrink's
\* has its parameters in front.
handleFile(f) ==
    LET csize == Len(f.packed) + (IF f.gzip THEN 0 ELSE 1)
        plain == csize > Len(f.text)
        name == Padded([k \in 1 .. NameLen(f.name) |-> [kind |-> "name", v |-> <<f.name, k>>]] \o <<Zero>>)
        data == CASE plain             -> Contents(f.text)
                  [] ~plain /\ f.gzip  -> Contents(f.packed)
                  [] ~plain /\ ~f.gzip -> <<Zero>> \o Contents(f.packed)
    IN  Header(IF f.gzip /\ ~plain THEN {"GZIP"} ELSE {},
               IF f.gzip \/ plain THEN "NONE" ELSE "HEATSHRINK", Len(name), Len(data), Len(f.text))
            \o name \o Padded(data)

finishArchive == Header({"LASTFILE"}, "NONE", 0, 0, 0)

Image(fs) == FlattenSeq([j \in DOMAIN fs |-> handleFile(fs[j])]) \o finishArchive
-----------------------------------------------------------------------------
(* espfs.c.  Addresses count from espFsData, where the image is.           *)

At(p) == image[p + 1]
NameAt(p, n) == /\ \A k \in 1 .. NameLen(n) : At(p + k - 1) = [kind |-> "name", v |-> <<n, k>>]
                /\ At(p + NameLen(n)) = Zero

\* The next header looked for behind the file and not at the next word.
SkipUnaligned(p, h) == p + HeaderSize + h.nameLen + h.fileLenComp

SkipFile(p, h) == LET end == p + HeaderSize + h.nameLen + h.fileLenComp
                  IN  IF end % 4 = 0 THEN end ELSE end + 4 - (end % 4)

\* The header of the file, as a sequence of at most one address.
RECURSIVE Lookup(_, _)
Lookup(p, name) ==
    LET h == At(p).v
    IN  IF At(p).kind # "header" THEN <<>>
        ELSE IF "LASTFILE" \in h.flags THEN <<>>
        ELSE IF NameAt(p + HeaderSize, name) THEN <<p>>
        ELSE Lookup(SkipFile(p, h), name)

\* The decompressor's parameters are skipped.
Opened(p) ==
    LET h == At(p).v
        start == p + HeaderSize + h.nameLen
    IN  [h |-> h, posStart |-> start, posDecomp |-> 0, dec |-> <<>>,
         posComp |-> IF h.compression = "HEATSHRINK" THEN start + 1 ELSE start]

espFsOpen(name) == LET found == Lookup(0, name)
                   IN  IF found = <<>> THEN <<>> ELSE <<Opened(found[1])>>

Bytes(from, n) == [k \in 1 .. n |-> At(from + k - 1).v]
Smaller(a, b) == IF a < b THEN a ELSE b

ReadPlain(fh, len) ==
    LET n == Smaller(len, fh.h.fileLenComp - (fh.posComp - fh.posStart))
    IN  [fh |-> [fh EXCEPT !.posComp = @ + n, !.posDecomp = @ + n], buff |-> Bytes(fh.posComp, n)]

\* heatshrink_decoder_poll: n bytes of what has been sunk; what is left of it.
RECURSIVE Rest(_, _)
Rest(dec, n) ==
    IF dec = <<>> THEN <<>>
    ELSE IF Len(dec[1]) <= n THEN Rest(Tail(dec), n - Len(dec[1]))
    ELSE <<SubSeq(dec[1], n + 1, Len(dec[1]))>> \o Tail(dec)

\* Feed and poll, until the buffer or the file is at its end.
RECURSIVE ReadShrunk(_, _, _)
ReadShrunk(fh, buff, len) ==
    LET elen == fh.h.fileLenComp - (fh.posComp - fh.posStart)
        sunk == Smaller(Smaller(elen, SinkLen), SinkLen - Len(fh.dec))
        dec == fh.dec \o Bytes(fh.posComp, sunk)
        got == SubSeq(FlattenSeq(dec), 1, Smaller(Len(FlattenSeq(dec)), len - Len(buff)))
        next == [fh EXCEPT !.posComp = @ + sunk, !.posDecomp = @ + Len(got), !.dec = Rest(dec, Len(got))]
    IN  IF Len(buff) >= len THEN [fh |-> fh, buff |-> buff]
        ELSE IF elen = 0 THEN [fh |-> next, buff |-> buff \o got]
        ELSE ReadShrunk(next, buff \o got, len)

espFsRead(fh, len) ==
    IF fh.h.compression = "NONE" THEN ReadPlain(fh, len)
    ELSE IF fh.posDecomp = fh.h.fileLenDecomp THEN [fh |-> fh, buff |-> <<>>]
    ELSE ReadShrunk(fh, <<>>, len)
-----------------------------------------------------------------------------
(* The scan of a buffer for tokens, %name%.  t: a token is being           *)
(* collected; e, sp: where the text not yet sent begins, and its length.   *)

Callback(token) == [token |-> token]

\* One character of the buffer.
Scan(w, x, buff) ==
    LET c == buff[x] IN
    CASE ~w.in /\ c = "%"  -> [w EXCEPT !.out = @ \o SubSeq(buff, w.e, w.e + w.sp - 1), !.sp = 0,
                                        !.in = TRUE, !.token = <<>>]
      [] ~w.in /\ c # "%" -> [w EXCEPT !.sp = @ + 1]
      [] w.in /\ c = "%"   -> [w EXCEPT !.out = Append(@, IF w.token = <<>> THEN "%" ELSE Callback(w.token)),
                                        !.e = x + 1, !.in = FALSE, !.token = <<>>]
      [] w.in /\ c # "%"  -> [w EXCEPT !.token = IF Len(@) < TokenLen THEN Append(@, c) ELSE @]

\* Each buffer scanned as if it began with text.
ScannedAfresh(t, buff) ==
    LET w[x \in 0 .. Len(buff)] ==
          IF x = 0 THEN [in |-> FALSE, token |-> <<>>, e |-> 1, sp |-> 0, out |-> <<>>]
          ELSE Scan(w[x - 1], x, buff)
        end == w[Len(buff)]
    IN  [end EXCEPT !.out = @ \o SubSeq(buff, end.e, end.e + end.sp - 1)]

Scanned(t, buff) ==
    LET w[x \in 0 .. Len(buff)] ==
          IF x = 0 THEN [in |-> t.in, token |-> t.token, e |-> 1, sp |-> 0, out |-> <<>>]
          ELSE Scan(w[x - 1], x, buff)
        end == w[Len(buff)]
    IN  [end EXCEPT !.out = @ \o SubSeq(buff, end.e, end.e + end.sp - 1)]
-----------------------------------------------------------------------------
(* The CGIs.                                                               *)

\* The entries of the table of URLs that match a request.
Tables == {<<"hook">>, <<"template">>, <<"template", "hook">>, <<"auth", "hook">>}
NoToken == [in |-> FALSE, token |-> <<>>]
NoResponse == [status |-> 0, body |-> <<>>]
NoRequest == [at |-> "idle", name |-> CHOOSE n \in Names : TRUE, table |-> <<>>, i |-> 1, gzip |-> "no",
              login |-> FALSE, failed |-> FALSE]

Init ==
    /\ files \in Images
    /\ image = Image(files)
    /\ req = NoRequest
    /\ file = <<>>
    /\ tpl = NoToken
    /\ out = NoResponse
    /\ heap = [files |-> 0, args |-> 0]

\* A request arrives.  gzip: what Accept-Encoding says of it, or "absent".
Ask ==
    /\ req.at = "idle"
    /\ \E name \in Names, table \in Tables, gzip \in {"yes", "no", "absent"}, login \in BOOLEAN :
          /\ login => "auth" \in ToSet(table)
          /\ req' = [at |-> "process", name |-> name, table |-> table, i |-> 1, gzip |-> gzip,
                     login |-> login, failed |-> FALSE]
    /\ out' = NoResponse
    /\ UNCHANGED <<files, image, file, tpl, heap>>

Respond(status, body) ==
    /\ out' = [status |-> status, body |-> body]
    /\ req' = [req EXCEPT !.at = "idle"]
    /\ UNCHANGED <<files, image, file, tpl, heap>>

\* The next CGI of the table is asked, or none is left.
Entry(cgi) == req.at = "process" /\ req.i <= Len(req.table) /\ req.table[req.i] = cgi
NextEntry(failed) == /\ req' = [req EXCEPT !.i = @ + 1, !.failed = @ \/ failed]
                     /\ UNCHANGED <<files, image, file, tpl, out, heap>>

authBasic == Entry("auth") /\ (IF req.login THEN NextEntry(FALSE) ELSE Respond(401, <<>>))

Start(fh) ==
    /\ file' = fh
    /\ tpl' = NoToken
    /\ out' = [status |-> 200, body |-> <<>>]
    /\ req' = [req EXCEPT !.at = "send"]
    /\ UNCHANGED <<files, image>>

Cgi == req.table[req.i]
IsGzip(fh) == "GZIP" \in fh[1].h.flags

\* A missing header leaves the buffer as it was: there may be a "gzip" in it.
MayAccept == IF req.gzip = "absent" THEN BOOLEAN ELSE {req.gzip = "yes"}

\* The first call of cgiEspFsHook.  Without memory a file is not found.
OpenHook ==
    /\ Entry("hook")
    /\ LET fh == espFsOpen(req.name) IN
       \/ NextEntry(fh # <<>>)
       \/ /\ fh # <<>>
          /\ \E accepted \in MayAccept :
                IF IsGzip(fh) /\ ~accepted THEN Respond(501, <<>>)
                ELSE Start(fh) /\ heap' = [heap EXCEPT !.files = @ + 1]

\* The first call of cgiEspFsTemplate.
OpenTemplate ==
    /\ Entry("template")
    /\ LET fh == espFsOpen(req.name) IN
       \/ NextEntry(fh # <<>> /\ ~IsGzip(fh))
       \/ /\ fh # <<>> /\ ~IsGzip(fh)
          /\ Start(fh)
          /\ heap' = [files |-> heap.files + 1, args |-> heap.args + 1]

cgiNotFound ==
    /\ req.at = "process" /\ req.i > Len(req.table)
    /\ Respond(404, <<>>)

\* The end of a CGI: the file is closed, and the application told with a NULL token.
Finished(cgi) ==
    /\ heap' = [files |-> heap.files - 1, args |-> heap.args - (IF cgi = "template" THEN 1 ELSE 0)]
    /\ req' = [req EXCEPT !.at = "idle"]
    /\ file' = <<>>
    /\ tpl' = NoToken

\* The last buffer is the one that is not full.
Send ==
    /\ req.at = "send"
    /\ LET read == espFsRead(file[1], BuffLen)
           scan == Scanned(tpl, read.buff)
       IN  /\ out' = [out EXCEPT !.body = @ \o (IF Cgi = "hook" THEN read.buff ELSE scan.out)]
           /\ IF Len(read.buff) # BuffLen THEN Finished(Cgi)
              ELSE /\ file' = <<read.fh>>
                   /\ tpl' = IF Cgi = "hook" THEN tpl ELSE [in |-> scan.in, token |-> scan.token]
                   /\ UNCHANGED <<req, heap>>
    /\ UNCHANGED <<files, image>>

\* A file left open when the connection goes away.
AbortKeepsFile ==
    /\ req.at = "send"
    /\ req' = [req EXCEPT !.at = "idle"]
    /\ file' = <<>>
    /\ tpl' = NoToken
    /\ out' = NoResponse
    /\ UNCHANGED <<files, image, heap>>

\* The connection is closed while the CGI has more to send.
Abort ==
    /\ req.at = "send"
    /\ Finished(Cgi)
    /\ out' = NoResponse
    /\ UNCHANGED <<files, image>>

Next == Ask \/ authBasic \/ OpenHook \/ OpenTemplate \/ cgiNotFound \/ Send \/ Abort

Spec == Init /\ [][Next]_vars
-----------------------------------------------------------------------------
(* Properties.                                                             *)

\* The values the variables take.
TypeOK ==
    /\ files \in Images
    /\ req.at \in {"idle", "process", "send"} /\ req.name \in Names
    /\ Len(file) <= 1
    /\ Len(tpl.token) <= TokenLen
    /\ out.status \in {0, 200, 401, 404, 501}

\* Whatever ends a response, its last buffer or the end of the connection, an
\* open file and the argument of a template are freed then, once, and not before.
NothingLeaks ==
    /\ heap.files = Len(file)
    /\ heap.args = IF req.at = "send" /\ Cgi = "template" THEN 1 ELSE 0

\* What is open is what is being sent.
PagesInv == TypeOK /\ NothingLeaks

\* What a template stands for, of its whole text.
RECURSIVE Render(_)
Render(text) ==
    LET first == SelectInSeq(text, LAMBDA c : c = "%")
        rest == SubSeq(text, first + 1, Len(text))
        second == SelectInSeq(rest, LAMBDA c : c = "%")
        token == SubSeq(rest, 1, Smaller(second - 1, TokenLen))
    IN  IF first = 0 THEN text
        ELSE SubSeq(text, 1, first - 1)
             \o (IF second = 0 THEN <<>>
                 ELSE <<IF token = <<>> THEN "%" ELSE Callback(token)>>
                      \o Render(SubSeq(rest, second + 1, Len(rest))))

Kept(f) == f.gzip /\ Len(f.packed) <= Len(f.text)

\* A file in an image is found, whatever the lengths of the names and files
\* before it, and sent whole: as it is, or as a template with its tokens
\* replaced, wherever its length, its tokens and the steps of its decompression
\* fall between the buffers.  What gzip made smaller is sent compressed.
ServesFile ==
    req.at = "idle" /\ out.status = 200 =>
        \E f \in ToSet(files) :
            /\ f.name = req.name
            /\ out.body = IF Cgi = "template" THEN Render(f.text)
                          ELSE IF Kept(f) THEN f.packed ELSE f.text

\* No file behind a login is opened without it, and unless memory ran out a file
\* is said to be missing only if it is, or is asked for as a template and kept
\* compressed.
RightStatus ==
    req.at # "process" =>
        /\ out.status = 200 /\ "auth" \in ToSet(req.table) => req.login
        /\ out.status = 404 /\ ~req.failed =>
               \A f \in ToSet(files) : f.name = req.name => Kept(f) /\ req.table = <<"template">>
=============================================================================

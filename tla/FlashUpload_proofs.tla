-------------------------- MODULE FlashUpload_proofs --------------------------
(***************************************************************************)
(* Proofs about FlashUpload, for any number of connections, any files, any *)
(* sizes of a page, a sector, a region and a chunk that divide as the code *)
(* requires.                                                               *)
(*                                                                         *)
(* Position says where in the file the state of an upload is, however its  *)
(* bytes were cut into chunks; Stored what it has put into flash by then.  *)
(* A round of the loop keeps both and touches no cell of another region.   *)
(***************************************************************************)
EXTENDS FlashUpload, SequenceTheorems, WellFoundedInduction, TLAPS

Bytes == [file : Files \cup {Factory}, part : 0 .. 3, k : Int]
Addresses == UNION {Cells(r) : r \in Region}

States == [state : {"START", "WRITE", "SKIP", "DONE", "ERROR"}, pageData : Seq(Bytes),
           address : Nat, len : Nat, skip : Nat]

Uploads == [at : {"idle", "posting"}, file : Files \cup {Factory}, part : 1 .. 2, def : Url,
            force : BOOLEAN, shared : BOOLEAN, received : Nat, s : States,
            result : {"none", "ok", "refused", "premature end"}]

\* What the header of an upload asks for: the region it is written to, the part
\* of the file that goes there, how much of the file is in front of it, how long
\* it is, and how much is behind it.
Target(u) == IF u.def = "ESPFS" THEN 3 ELSE IF u.file.type = "BIN" THEN 1 ELSE 3 - running
PartOf(u) == IF u.def = "ESPFS" THEN 3 ELSE 3 - running
Before(u) == IF u.file.type # "OTA" THEN 0
             ELSE IF running = 1 THEN HeaderSize + u.file.len1 ELSE HeaderSize
Length(u) == IF u.file.type = "OTA" THEN PartLen(u.file, PartOf(u)) ELSE u.file.len1
After(u) == IF u.file.type = "OTA" /\ running = 2 THEN u.file.len2 ELSE 0

\* The files that are not refused for their type or for their size.
Accepted(u) == /\ IF u.def = "FW" THEN u.file.type \in {"OTA", "BIN"} ELSE u.file.type = "ESPFS"
               /\ u.file.type # "OTA" => u.file.len1 <= fwSize

\* Byte k of what goes to flash.
ByteOf(u, k) == [file |-> u.file, part |-> PartOf(u), k |-> k]

\* The state s of upload u after the first n bytes of its file.
Writing(u, s, n) ==
    LET done == s.address - fwPos(Target(u))
    IN  /\ done \in Nat /\ done % PAGELEN = 0
        /\ done + Len(s.pageData) + s.len = Length(u)
        /\ s.len = 0 => done = 0 /\ s.pageData = <<>>
        /\ n = Before(u) + done + Len(s.pageData)
        /\ \A j \in 1 .. Len(s.pageData) : s.pageData[j] = ByteOf(u, done + j)
        /\ s.skip = After(u)

Skipping(u, s, n) ==
    /\ u.file.type = "OTA" /\ s.pageData = <<>>
    /\ running = 1 => s.len = Length(u) /\ s.address = fwPos(Target(u)) /\ n + s.skip = Before(u)
    /\ running = 2 => s.len = 0 /\ n + s.skip = Before(u) + Length(u) + After(u)

Position(u, s, n) ==
    /\ s \in States /\ Len(s.pageData) < PAGELEN
    /\ s.state = "START" => s = State /\ n = 0
    /\ s.state \in {"WRITE", "SKIP", "DONE"} => Accepted(u)
    /\ s.state = "WRITE" => Writing(u, s, n)
    /\ s.state = "SKIP" => Skipping(u, s, n)

\* The first n bytes of what goes to flash are there.
Holding(u, n, fl) == \A k \in 1 .. n : fl[fwPos(Target(u)) + k - 1] = ByteOf(u, k)

\* The rest of the sector that is being written is erased.
RestErased(r, address, fl) ==
    address % SEC_SIZE # 0 =>
        \A a \in Cells(r) :
            a >= address /\ a \div SEC_SIZE = address \div SEC_SIZE => fl[a] = Erased

\* What an upload that no other was under way with has put into flash.
Stored(u, s, fl) ==
    /\ s.state = "WRITE" => /\ Holding(u, s.address - fwPos(Target(u)), fl)
                            /\ RestErased(Target(u), s.address, fl)
    /\ s.state = "DONE" \/ (s.state = "SKIP" /\ running = 2) => Holding(u, Length(u), fl)

Shapes ==
    /\ flash \in [Addresses -> Bytes]
    /\ running \in 1 .. 2 /\ timer \in BOOLEAN /\ trusted \in BOOLEAN
    /\ upload \in [Conn -> Uploads]
    /\ ready \in [Url -> SUBSET Files]

Posting(c) == upload[c].at = "posting"

\* An upload is where its bytes say, and what it wrote alone is there.
PostingInv ==
    \A c \in Conn :
        /\ upload[c].received <= PostTotal(upload[c])
        /\ Len(upload[c].s.pageData) < PAGELEN
        /\ Posting(c) => /\ upload[c].file \in Files /\ upload[c].part = 3 - running
                         /\ Position(upload[c], upload[c].s, upload[c].received)
                         /\ upload[c].shared \/ Stored(upload[c], upload[c].s, flash)

\* Two uploads to one url know of each other, and end what was ready there.
RivalsInv ==
    /\ \A c, d \in Conn : Posting(c) /\ Posting(d) /\ c # d /\ upload[c].def = upload[d].def
                             => upload[c].shared
    /\ \A c \in Conn : Posting(c) => ready[upload[c].def] = {}

\* Nobody writes to a region that runs and is trusted.
TrustInv == trusted => \A c \in Conn : Posting(c) /\ upload[c].file.type = "BIN" => running = 2

\* Flash fl holds part r of a file in region r, where there is place for it.
HoldsIn(fl, r, f) ==
    /\ MadeFor(f, r) /\ PartLen(f, r) <= fwSize
    /\ \A k \in 1 .. PartLen(f, r) : fl[fwPos(r) + k - 1] = [file |-> f, part |-> r, k |-> k]

\* What rd has is in flash fl.
ReadyIn(rd, fl) ==
    /\ \A f \in rd["FW"] : HoldsIn(fl, 3 - running, f)
    /\ \A f \in rd["ESPFS"] : HoldsIn(fl, 3, f)

WholeInv ==
    /\ ReadyIn(ready, flash)
    /\ trusted => \E f \in Files \cup {Factory} : HoldsIn(flash, running, f)

FlashInv == Shapes /\ PostingInv /\ RivalsInv /\ TrustInv /\ WholeInv
-----------------------------------------------------------------------------
(* Pages and sectors.                                                      *)

\* Division with a rest,
LEMMA DividedInt ==
    ASSUME NEW a \in Int, NEW b \in Int, b > 0
    PROVE  a = b * (a \div b) + (a % b)
BY SMT

\* which for lengths and addresses is a number,
LEMMA Divided ==
    ASSUME NEW a \in Nat, NEW b \in Nat \ {0}
    PROVE  a \div b \in Nat /\ a % b \in 0 .. b - 1 /\ a = b * (a \div b) + (a % b)
<1>1. a \div b \in Int /\ a % b \in 0 .. b - 1
  OBVIOUS
<1>2. a = b * (a \div b) + (a % b)
  <2>1. a \in Int /\ b \in Int /\ b > 0
    OBVIOUS
  <2> QED BY <2>1, DividedInt, Zenon
<1>3. a \div b >= 0
  <2> DEFINE q == a \div b
             r == a % b
  <2>1. q \in Int /\ r \in 0 .. b - 1 /\ a = b * q + r
    BY <1>1, <1>2
  <2> HIDE DEF q, r
  <2>2. ASSUME q <= -1 PROVE b * q <= -b
    BY <2>1, <2>2
  <2>3. q >= 0
    BY <2>1, <2>2
  <2> QED BY <2>3 DEF q
<1> QED BY <1>1, <1>2, <1>3

\* and unique.
LEMMA DividedOnce ==
    ASSUME NEW a \in Nat, NEW b \in Nat \ {0}, NEW q \in Int, NEW r \in Int, 0 <= r, r < b,
           a = b * q + r
    PROVE  a \div b = q /\ a % b = r
<1> DEFINE p == a \div b
           t == a % b
<1>1. p \in Nat /\ t \in 0 .. b - 1 /\ a = b * p + t /\ b * p + t = b * q + r
  BY Divided
<1> HIDE DEF p, t
<1>2. b * (q - p) = t - r /\ q - p \in Int
  BY <1>1
<1>3. -b < t - r /\ t - r < b
  BY <1>1
<1>4. q - p = 0
  <2>1. ASSUME NEW x \in Int, x >= 1 PROVE b * x >= b
    BY <2>1
  <2>2. ASSUME NEW x \in Int, x <= -1 PROVE b * x <= -b
    BY <2>2
  <2> DEFINE x == q - p
  <2>3. x \in Int /\ b * x = t - r
    BY <1>2
  <2> HIDE DEF x
  <2>4. ~(x >= 1)
    BY <1>3, <2>1, <2>3
  <2>5. ~(x <= -1)
    BY <1>3, <2>2, <2>3
  <2>6. x = 0
    BY <2>3, <2>4, <2>5
  <2> QED BY <2>6 DEF x
<1>5. p = q /\ t = r
  BY <1>1, <1>2, <1>4
<1> QED BY <1>5 DEF p, t

\* A multiple leaves no rest.
LEMMA Multiple ==
    ASSUME NEW a \in Nat, NEW b \in Nat \ {0}, NEW q \in Int, a = b * q
    PROVE  a % b = 0
<1>1. 0 \in Int /\ 0 <= 0 /\ 0 < b /\ a = b * q + 0
  OBVIOUS
<1> QED BY <1>1, DividedOnce

\* A page that begins at a multiple of its length lies in one sector, and the next
\* page begins in the same sector or at the beginning of one.
LEMMA PageInSector ==
    ASSUME NEW a \in Nat, a % PAGELEN = 0
    PROVE  /\ \A j \in 0 .. PAGELEN - 1 : (a + j) \div SEC_SIZE = a \div SEC_SIZE
           /\ (a + PAGELEN) % PAGELEN = 0
           /\ (a + PAGELEN) % SEC_SIZE # 0 => (a + PAGELEN) \div SEC_SIZE = a \div SEC_SIZE
<1> DEFINE q == a \div PAGELEN
           n == SEC_SIZE \div PAGELEN
           d == a \div SEC_SIZE
           m == a % SEC_SIZE
           p == q - n * d
<1>1. /\ PAGELEN \in Nat \ {0} /\ SEC_SIZE \in Nat \ {0} /\ q \in Nat /\ n \in Nat /\ d \in Nat
      /\ a = PAGELEN * q /\ SEC_SIZE = PAGELEN * n
      /\ a = SEC_SIZE * d + m /\ m \in 0 .. SEC_SIZE - 1
  <2>1. PAGELEN \in Nat \ {0} /\ SEC_SIZE \in Nat \ {0} /\ SEC_SIZE % PAGELEN = 0
    BY UploadAssumption
  <2>2. q \in Nat /\ a = PAGELEN * q
    BY <2>1, Divided
  <2>3. n \in Nat /\ SEC_SIZE = PAGELEN * n
    BY <2>1, Divided
  <2>4. d \in Nat /\ a = SEC_SIZE * d + m /\ m \in 0 .. SEC_SIZE - 1
    BY <2>1, Divided
  <2> QED BY <2>1, <2>2, <2>3, <2>4
<1> HIDE DEF q, n, d, m
<1>2. p \in Int /\ m = PAGELEN * p
  BY <1>1
<1> HIDE DEF p
<1>3. p < n
  <2>1. ASSUME p - n >= 0 PROVE PAGELEN * (p - n) >= 0
    BY <1>1, <1>2, <2>1
  <2>2. PAGELEN * (p - n) = m - SEC_SIZE
    BY <1>1, <1>2
  <2> QED BY <1>1, <1>2, <2>1, <2>2
<1>4. m + PAGELEN <= SEC_SIZE
  <2> DEFINE x == n - p - 1
  <2>1. x \in Nat /\ n = p + 1 + x
    BY <1>1, <1>2, <1>3
  <2> HIDE DEF x
  <2>2. SEC_SIZE = m + PAGELEN + PAGELEN * x
    BY <1>1, <1>2, <2>1
  <2>3. PAGELEN * x >= 0 /\ PAGELEN * x \in Int
    BY <1>1, <2>1
  <2> QED BY <1>1, <2>2, <2>3
<1>5. ASSUME NEW j \in 0 .. PAGELEN - 1 PROVE (a + j) \div SEC_SIZE = d
  <2> DEFINE r == m + j
  <2>1. r \in 0 .. SEC_SIZE - 1 /\ a + j = SEC_SIZE * d + r /\ a + j \in Nat
    BY <1>1, <1>4
  <2> HIDE DEF r
  <2> QED BY <1>1, <2>1, DividedOnce
<1>6. (a + PAGELEN) % PAGELEN = 0
  <2>1. a + PAGELEN = PAGELEN * (q + 1) + 0 /\ q + 1 \in Int /\ a + PAGELEN \in Nat
    BY <1>1
  <2> QED BY <1>1, <2>1, DividedOnce
<1>7. ASSUME (a + PAGELEN) % SEC_SIZE # 0 PROVE (a + PAGELEN) \div SEC_SIZE = d
  <2> DEFINE r == m + PAGELEN
  <2>1. a + PAGELEN = SEC_SIZE * d + r /\ a + PAGELEN \in Nat /\ r \in Int /\ 0 <= r
    BY <1>1
  <2>2. r # SEC_SIZE
    <3> SUFFICES ASSUME r = SEC_SIZE PROVE FALSE
      OBVIOUS
    <3>1. a + PAGELEN = SEC_SIZE * (d + 1) + 0 /\ d + 1 \in Int
      BY <1>1
    <3>2. (a + PAGELEN) % SEC_SIZE = 0
      BY <1>1, <2>1, <3>1, Multiple
    <3> QED BY <1>7, <3>2
  <2>3. r \in 0 .. SEC_SIZE - 1
    BY <1>1, <1>4, <2>1, <2>2
  <2> HIDE DEF r
  <2> QED BY <1>1, <2>1, <2>3, DividedOnce
<1> QED BY <1>5, <1>6, <1>7 DEF d

\* The address behind a multiple of a page's length, from the beginning of a region
\* on, is one too; the sector of an address of a region is in the region, and a
\* sector that begins at an address is not that of a smaller one.
LEMMA RegionInSectors ==
    ASSUME NEW r \in Region
    PROVE  /\ fwPos(r) \in Nat /\ fwPos(r) % PAGELEN = 0 /\ fwPos(r) % SEC_SIZE = 0
           /\ \A n \in Nat : n % PAGELEN = 0 => (fwPos(r) + n) % PAGELEN = 0
           /\ \A n \in Nat : (fwPos(r) + n) % PAGELEN = 0 => n % PAGELEN = 0
           /\ \A a \in Cells(r), b \in Nat : b \div SEC_SIZE = a \div SEC_SIZE => b \in Cells(r)
<1> DEFINE n == SEC_SIZE \div PAGELEN
           k == fwSize \div SEC_SIZE
           x == (r - 1) * k
           y == n * x
<1>1. /\ PAGELEN \in Nat \ {0} /\ SEC_SIZE \in Nat \ {0} /\ fwSize \in Nat \ {0} /\ n \in Nat /\ k \in Nat
      /\ SEC_SIZE = PAGELEN * n /\ fwSize = SEC_SIZE * k
  <2>1. /\ PAGELEN \in Nat \ {0} /\ SEC_SIZE \in Nat \ {0} /\ fwSize \in Nat \ {0}
        /\ SEC_SIZE % PAGELEN = 0 /\ fwSize % SEC_SIZE = 0
    BY UploadAssumption
  <2>2. n \in Nat /\ SEC_SIZE = PAGELEN * n
    BY <2>1, Divided
  <2>3. k \in Nat /\ fwSize = SEC_SIZE * k
    BY <2>1, Divided
  <2> QED BY <2>1, <2>2, <2>3
<1> HIDE DEF n, k
<1>2. x \in Nat /\ fwPos(r) = SEC_SIZE * x /\ fwPos(r) \in Nat
  BY <1>1 DEF Region, fwPos
<1>3. fwPos(r) + fwSize = SEC_SIZE * (x + k)
  BY <1>1, <1>2
<1> HIDE DEF x
<1>4. y \in Nat /\ fwPos(r) = PAGELEN * y
  BY <1>1, <1>2
<1> HIDE DEF y
<1> DEFINE f == fwPos(r)
<1>5. f % PAGELEN = 0 /\ f % SEC_SIZE = 0
  <2>1. f = PAGELEN * y /\ y \in Int /\ f \in Nat /\ PAGELEN \in Nat \ {0}
    BY <1>1, <1>2, <1>4
  <2>4. f = SEC_SIZE * x /\ x \in Int /\ SEC_SIZE \in Nat \ {0}
    BY <1>1, <1>2, <1>4
  <2> HIDE DEF f
  <2>2. f % PAGELEN = 0
    BY <2>1, Multiple
  <2>3. f % SEC_SIZE = 0
    BY <2>1, <2>4, Multiple
  <2> QED BY <2>2, <2>3
<1> HIDE DEF f
<1>6. ASSUME NEW m \in Nat PROVE (f + m) % PAGELEN = m % PAGELEN
  <2> DEFINE q == m \div PAGELEN
             t == m % PAGELEN
  <2>1. q \in Nat /\ t \in 0 .. PAGELEN - 1 /\ m = PAGELEN * q + t
    BY <1>1, Divided
  <2> HIDE DEF q, t
  <2>2. f + m = PAGELEN * (y + q) + t /\ y + q \in Int /\ f + m \in Nat
    BY <1>1, <1>4, <2>1 DEF f
  <2>3. (f + m) % PAGELEN = t
    BY <1>1, <2>1, <2>2, DividedOnce
  <2> QED BY <2>3 DEF t
<1>7. ASSUME NEW a \in Cells(r), NEW b \in Nat, b \div SEC_SIZE = a \div SEC_SIZE
      PROVE  b \in Cells(r)
  <2> DEFINE d == a \div SEC_SIZE
             s == a % SEC_SIZE
             t == b % SEC_SIZE
  <2>1. a \in Nat /\ f <= a /\ a < f + fwSize
    BY <1>1, <1>2 DEF Cells, f
  <2>2. /\ d \in Nat /\ a = SEC_SIZE * d + s /\ s \in 0 .. SEC_SIZE - 1
        /\ b = SEC_SIZE * d + t /\ t \in 0 .. SEC_SIZE - 1
    BY <1>1, <1>7, <2>1, Divided
  <2> HIDE DEF d, s, t
  <2>3. d >= x
    <3>1. ASSUME d + 1 - x <= 0 PROVE SEC_SIZE * (d + 1 - x) <= 0
      BY <1>1, <1>2, <2>2, <3>1
    <3>2. SEC_SIZE * (d + 1 - x) = a - s + SEC_SIZE - f
      BY <1>1, <1>2, <2>2 DEF f
    <3> QED BY <1>1, <1>2, <2>1, <2>2, <3>1, <3>2 DEF f
  <2>4. d + 1 <= x + k
    <3>1. ASSUME d - (x + k) >= 0 PROVE SEC_SIZE * (d - (x + k)) >= 0
      BY <1>1, <1>2, <2>2, <3>1
    <3>2. SEC_SIZE * (d - (x + k)) = a - s - (f + fwSize)
      BY <1>1, <1>2, <1>3, <2>2 DEF f
    <3> QED BY <1>1, <1>2, <2>1, <2>2, <3>1, <3>2 DEF f
  <2>5. SEC_SIZE * d >= f /\ SEC_SIZE * d + SEC_SIZE <= f + fwSize
    <3>1. SEC_SIZE * (d - x) >= 0 /\ SEC_SIZE * (x + k - d - 1) >= 0
      <4> DEFINE g == d - x
                 h == x + k - d - 1
      <4>1. g \in Nat /\ h \in Nat
        BY <1>1, <1>2, <2>2, <2>3, <2>4
      <4> HIDE DEF g, h
      <4>2. SEC_SIZE * g >= 0 /\ SEC_SIZE * h >= 0
        BY <1>1, <4>1
      <4> QED BY <4>2 DEF g, h
    <3>2. SEC_SIZE * (d - x) = SEC_SIZE * d - f
      BY <1>1, <1>2, <2>2 DEF f
    <3>3. SEC_SIZE * (x + k - d - 1) = f + fwSize - SEC_SIZE * d - SEC_SIZE
      BY <1>1, <1>2, <1>3, <2>2 DEF f
    <3> QED BY <1>1, <1>2, <2>2, <3>1, <3>2, <3>3 DEF f
  <2>6. SEC_SIZE * d \in Int /\ f \in Nat
    BY <1>1, <1>2, <2>2 DEF f
  <2> QED BY <1>1, <2>2, <2>5, <2>6 DEF Cells, f
<1> QED BY <1>2, <1>5, <1>6, <1>7 DEF f

\* What is before a sector is in another one.
LEMMA BeforeSector ==
    ASSUME NEW a \in Nat, NEW b \in Nat, a < b, b % SEC_SIZE = 0
    PROVE  a \div SEC_SIZE # b \div SEC_SIZE
<1>1. SEC_SIZE \in Nat \ {0}
  BY UploadAssumption
<1> DEFINE d == a \div SEC_SIZE
           e == b \div SEC_SIZE
           m == a % SEC_SIZE
<1>2. d \in Nat /\ e \in Nat /\ m \in 0 .. SEC_SIZE - 1 /\ a = SEC_SIZE * d + m /\ b = SEC_SIZE * e
  BY <1>1, Divided
<1> HIDE DEF d, e, m
<1>3. d # e
  <2>1. ASSUME d = e PROVE FALSE
    <3>1. a = b + m
      BY <1>2, <2>1
    <3> QED BY <1>1, <1>2, <3>1
  <2> QED BY <2>1
<1> QED BY <1>3 DEF d, e
-----------------------------------------------------------------------------
(* The bytes of a file.                                                    *)

\* An upload under way, whose client asked for the part of the other image.
Known(u) == u \in Uploads /\ u.file \in Files /\ u.part = 3 - running /\ running \in 1 .. 2

\* The lengths of a file fit a region, and each other.
LEMMA FileIs ==
    ASSUME NEW f \in Files \cup {Factory}
    PROVE  /\ f.type \in {"OTA", "BIN", "ESPFS", "other"} /\ f.tag \in BOOLEAN
           /\ f.len1 \in Nat /\ f.len2 \in Nat /\ f.size \in Nat \ {0}
           /\ f.type = "OTA" => f.len1 <= fwSize /\ f.len2 <= fwSize
           /\ f.type = "OTA" => f.size \in HeaderSize .. HeaderSize + f.len1 + f.len2
           /\ f.type # "OTA" => f.size = f.len1
           /\ fwSize \in Nat \ {0} /\ HeaderSize \in Nat \ {0} /\ HeaderSize <= PostLen /\ PostLen \in Nat
BY UploadAssumption DEF File

\* What is written of a file that is not refused fits a region.
LEMMA FitsRegion ==
    ASSUME NEW u, u.file \in Files \cup {Factory}, Accepted(u)
    PROVE  Length(u) \in 0 .. fwSize
<1> DEFINE l1 == u.file.len1
           l2 == u.file.len2
<1>1. fwSize \in Nat /\ l1 \in Nat /\ l2 \in Nat /\ l1 <= fwSize
      /\ (u.file.type = "OTA" => l2 <= fwSize)
  BY FileIs DEF Accepted
<1>2. Length(u) = l1 \/ (u.file.type = "OTA" /\ Length(u) = l2)
  BY DEF Length, PartLen
<1> HIDE DEF l1, l2
<1> QED BY <1>1, <1>2

\* A part is its bytes in their order.
LEMMA PartIs ==
    ASSUME NEW f \in Files \cup {Factory}, NEW r \in 0 .. 3, NEW n \in Nat
    PROVE  /\ Part(f, r, n) \in Seq(Bytes) /\ Len(Part(f, r, n)) = n
           /\ \A k \in 1 .. n : Part(f, r, n)[k] = [file |-> f, part |-> r, k |-> k]
<1>1. \A k \in 1 .. n : [file |-> f, part |-> r, k |-> k] \in Bytes
  BY DEF Bytes
<1>2. Part(f, r, n) = [k \in 1 .. n |-> [file |-> f, part |-> r, k |-> k]]
  BY DEF Part
<1> QED BY <1>1, <1>2

\* Where each byte of a part is in what the client sends.
LEMMA BodyIs ==
    ASSUME NEW u, Known(u)
    PROVE  /\ Body(u) \in Seq(Bytes) /\ Len(Body(u)) = u.file.size /\ PostTotal(u) = u.file.size
           /\ Accepted(u) => \A k \in 1 .. Length(u) :
                 Before(u) + k <= PostTotal(u) => Body(u)[Before(u) + k] = ByteOf(u, k)
<1> DEFINE f == u.file
           size == f.size
<1>1. /\ f \in Files \cup {Factory} /\ u.def \in Url /\ u.part \in 0 .. 3 /\ running \in 1 .. 2
      /\ u.part = 3 - running
  <2>1. u.file \in Files /\ u \in Uploads /\ u.part = 3 - running /\ running \in 1 .. 2
    BY DEF Known
  <2>2. u.def \in Url /\ u.part \in 1 .. 2
    BY <2>1 DEF Uploads
  <2> QED BY <2>1, <2>2
<1>2. /\ f.type \in {"OTA", "BIN", "ESPFS", "other"} /\ f.len1 \in Nat /\ f.len2 \in Nat /\ size \in Nat \ {0}
      /\ f.type = "OTA" => size \in HeaderSize .. HeaderSize + f.len1 + f.len2
      /\ f.type # "OTA" => size = f.len1
      /\ HeaderSize \in Nat
  BY <1>1, FileIs
<1> HIDE DEF f
<1>3. ASSUME NEW all \in Seq(Bytes), size <= Len(all), Body(u) = SubSeq(all, 1, size)
      PROVE  /\ Body(u) \in Seq(Bytes) /\ Len(Body(u)) = size
             /\ \A i \in 1 .. size : Body(u)[i] = all[i]
  BY <1>2, <1>3, SubSeqProperties
<1>4. CASE f.type = "OTA"
  <2> DEFINE p0 == Part(f, 0, HeaderSize)
             p1 == Part(f, 1, f.len1)
             p2 == Part(f, 2, f.len2)
             all == (p0 \o p1) \o p2
  <2>1. Body(u) = SubSeq(all, 1, size)
    BY <1>4 DEF Body, f
  <2>2. /\ p0 \in Seq(Bytes) /\ Len(p0) = HeaderSize
        /\ p1 \in Seq(Bytes) /\ Len(p1) = f.len1
        /\ \A k \in 1 .. f.len1 : p1[k] = [file |-> f, part |-> 1, k |-> k]
        /\ p2 \in Seq(Bytes) /\ Len(p2) = f.len2
        /\ \A k \in 1 .. f.len2 : p2[k] = [file |-> f, part |-> 2, k |-> k]
    <3>1. 0 \in 0 .. 3 /\ 1 \in 0 .. 3 /\ 2 \in 0 .. 3
      OBVIOUS
    <3>2. p0 \in Seq(Bytes) /\ Len(p0) = HeaderSize
      BY <1>1, <1>2, <3>1, PartIs
    <3>3. /\ p1 \in Seq(Bytes) /\ Len(p1) = f.len1
          /\ \A k \in 1 .. f.len1 : p1[k] = [file |-> f, part |-> 1, k |-> k]
      BY <1>1, <1>2, <3>1, PartIs
    <3>4. /\ p2 \in Seq(Bytes) /\ Len(p2) = f.len2
          /\ \A k \in 1 .. f.len2 : p2[k] = [file |-> f, part |-> 2, k |-> k]
      BY <1>1, <1>2, <3>1, PartIs
    <3> QED BY <3>2, <3>3, <3>4
  <2> DEFINE n1 == HeaderSize
             n2 == HeaderSize + f.len1
  <2> HIDE DEF p0, p1, p2
  <2>3. /\ all \in Seq(Bytes) /\ Len(all) = n2 + f.len2
        /\ \A k \in 1 .. f.len1 : all[n1 + k] = p1[k]
        /\ \A k \in 1 .. f.len2 : all[n2 + k] = p2[k]
    <3> DEFINE p01 == p0 \o p1
    <3>1. /\ p01 \in Seq(Bytes) /\ Len(p01) = n2
          /\ \A i \in 1 .. n2 : p01[i] = IF i <= n1 THEN p0[i] ELSE p1[i - n1]
      <4>1. /\ p01 \in Seq(Bytes) /\ Len(p01) = Len(p0) + Len(p1)
            /\ \A i \in 1 .. Len(p0) + Len(p1) : p01[i] = IF i <= Len(p0) THEN p0[i] ELSE p1[i - Len(p0)]
        BY <2>2, ConcatProperties
      <4> HIDE DEF p01
      <4> QED BY <2>2, <4>1
    <3> HIDE DEF p01
    <3>2. /\ p01 \o p2 \in Seq(Bytes) /\ Len(p01 \o p2) = n2 + f.len2
          /\ \A i \in 1 .. n2 + f.len2 : (p01 \o p2)[i] = IF i <= n2 THEN p01[i] ELSE p2[i - n2]
      <4> DEFINE p == p01 \o p2
      <4>0. p01 \in Seq(Bytes) /\ p2 \in Seq(Bytes)
        BY <2>2, <3>1
      <4>1. /\ p \in Seq(Bytes) /\ Len(p) = Len(p01) + Len(p2)
            /\ \A i \in 1 .. Len(p01) + Len(p2) : p[i] = IF i <= Len(p01) THEN p01[i] ELSE p2[i - Len(p01)]
        BY <4>0, ConcatProperties
      <4> HIDE DEF p
      <4>2. /\ p \in Seq(Bytes) /\ Len(p) = n2 + f.len2
            /\ \A i \in 1 .. n2 + f.len2 : p[i] = IF i <= n2 THEN p01[i] ELSE p2[i - n2]
        BY <2>2, <3>1, <4>1
      <4> QED BY <4>2 DEF p
    <3>3. ASSUME NEW k \in 1 .. f.len1 PROVE (p01 \o p2)[n1 + k] = p1[k]
      <4> DEFINE i == n1 + k
      <4>1. i \in 1 .. n2 + f.len2 /\ i <= n2 /\ i \in 1 .. n2 /\ ~(i <= n1) /\ i - n1 = k
        BY <1>2
      <4> HIDE DEF i
      <4>2. (p01 \o p2)[i] = p01[i] /\ p01[i] = p1[i - n1]
        BY <3>1, <3>2, <4>1
      <4> QED BY <4>1, <4>2 DEF i
    <3>4. ASSUME NEW k \in 1 .. f.len2 PROVE (p01 \o p2)[n2 + k] = p2[k]
      <4> DEFINE i == n2 + k
      <4>1. i \in 1 .. n2 + f.len2 /\ ~(i <= n2) /\ i - n2 = k
        BY <1>2
      <4> HIDE DEF i
      <4>2. (p01 \o p2)[i] = p2[i - n2]
        BY <3>2, <4>1
      <4> QED BY <4>1, <4>2 DEF i
    <3> QED BY <3>2, <3>3, <3>4 DEF p01
  <2> HIDE DEF all
  <2>4. /\ Body(u) \in Seq(Bytes) /\ Len(Body(u)) = size
        /\ \A i \in 1 .. size : Body(u)[i] = all[i]
    BY <1>2, <1>3, <1>4, <2>1, <2>3
  <2>5. ASSUME Accepted(u), NEW k \in 1 .. Length(u), Before(u) + k <= size
        PROVE  Body(u)[Before(u) + k] = ByteOf(u, k)
    <3>1. PartOf(u) = 3 - running
      BY <1>4, <2>5 DEF Accepted, PartOf, f
    <3>2. CASE running = 1
      <4>1. Length(u) = f.len2 /\ Before(u) = n2 /\ PartOf(u) = 2
        BY <1>4, <3>1, <3>2 DEF Length, Before, PartLen, f
      <4>2. n2 + k \in 1 .. size
        BY <1>2, <2>5, <4>1
      <4>3. Body(u)[n2 + k] = p2[k]
        BY <2>3, <2>4, <2>5, <4>1, <4>2
      <4> QED BY <2>2, <2>5, <4>1, <4>3 DEF ByteOf, f
    <3>3. CASE running = 2
      <4>1. Length(u) = f.len1 /\ Before(u) = n1 /\ PartOf(u) = 1
        BY <1>4, <3>1, <3>3 DEF Length, Before, PartLen, f
      <4>2. n1 + k \in 1 .. size
        BY <1>2, <2>5, <4>1
      <4>3. Body(u)[n1 + k] = p1[k]
        BY <2>3, <2>4, <2>5, <4>1, <4>2
      <4> QED BY <2>2, <2>5, <4>1, <4>3 DEF ByteOf, f
    <3> QED BY <1>1, <3>2, <3>3
  <2> QED BY <2>4, <2>5 DEF PostTotal, f
<1>5. CASE f.type # "OTA"
  <2> DEFINE r == IF f.type = "BIN" THEN u.part ELSE 3
             all == Part(f, r, f.len1)
  <2>1. Body(u) = SubSeq(all, 1, size)
    BY <1>2, <1>5 DEF Body, f
  <2>2. r \in 0 .. 3
    BY <1>1
  <2>3. Accepted(u) => r = PartOf(u)
    BY <1>1, <1>5 DEF Accepted, PartOf, f, Url
  <2> HIDE DEF r
  <2>4. /\ all \in Seq(Bytes) /\ Len(all) = f.len1
        /\ \A k \in 1 .. f.len1 : all[k] = [file |-> f, part |-> r, k |-> k]
    BY <1>1, <1>2, <2>2, PartIs
  <2> HIDE DEF all
  <2>5. /\ Body(u) \in Seq(Bytes) /\ Len(Body(u)) = size
        /\ \A i \in 1 .. size : Body(u)[i] = all[i]
    BY <1>2, <1>3, <1>5, <2>1, <2>4
  <2>6. Before(u) = 0 /\ Length(u) = f.len1
    BY <1>5 DEF Before, Length, f
  <2>7. ASSUME Accepted(u), NEW k \in 1 .. Length(u)
        PROVE  Body(u)[Before(u) + k] = ByteOf(u, k)
    <3>1. k \in 1 .. f.len1 /\ k \in 1 .. size /\ 0 + k = k
      BY <1>2, <1>5, <2>6
    <3> QED BY <2>3, <2>4, <2>5, <2>6, <2>7, <3>1 DEF ByteOf, f
  <2> QED BY <2>5, <2>7 DEF PostTotal, f
<1> QED BY <1>4, <1>5
-----------------------------------------------------------------------------
(* What the assignments of a round do.                                     *)

StateNames == {"START", "WRITE", "SKIP", "DONE", "ERROR"}

Worlds == [s : States, flash : [Addresses -> Bytes], data : Seq(Bytes)]

\* World v is w after a header was taken, of a chunk of which d is left.
Begun(w, v, d, st, len, skip, address) ==
    v = [w EXCEPT !.data = d, !.s = Starting(w.s, st, len, skip, address)]

\* The state and the rest of the chunk after a header was taken,
LEMMA StartedIs ==
    ASSUME NEW w \in Worlds, NEW d \in Seq(Bytes), NEW st \in StateNames,
           NEW len \in Nat, NEW skip \in Nat, NEW address \in Nat,
           NEW v, Begun(w, v, d, st, len, skip, address)
    PROVE  /\ v \in Worlds /\ v.data = d /\ v.flash = w.flash
           /\ v.s \in States /\ v.s.state = st /\ v.s.len = len /\ v.s.skip = skip
           /\ v.s.address = address /\ v.s.pageData = w.s.pageData
<1> DEFINE t == Starting(w.s, st, len, skip, address)
<1>1. w.s \in States /\ st \in StateNames /\ len \in Nat /\ skip \in Nat /\ address \in Nat
  BY DEF Worlds
<1>2. /\ t \in States /\ t.state = st /\ t.len = len /\ t.skip = skip /\ t.address = address
      /\ t.pageData = w.s.pageData
  BY ONLY <1>1 DEF Starting, States, StateNames
<1>3. v = [w EXCEPT !.data = d, !.s = t]
  BY DEF Begun
<1> HIDE DEF t
<1>4. v \in Worlds /\ v.s = t /\ v.data = d /\ v.flash = w.flash
  BY <1>2, <1>3 DEF Worlds
<1> QED BY <1>2, <1>4

\* after an error,
LEMMA ErrorIs ==
    ASSUME NEW w \in Worlds, NEW st \in StateNames, NEW v, v = [w EXCEPT !.s.state = st]
    PROVE  v \in Worlds /\ v.s.state = st /\ v.s.pageData = w.s.pageData /\ v.data = w.data /\ v.flash = w.flash
<1>1. w.s \in States /\ w.data \in Seq(Bytes) /\ w.flash \in [Addresses -> Bytes]
  BY DEF Worlds
<1> DEFINE t == [w.s EXCEPT !.state = st]
<1>2. t \in States /\ t.state = st /\ t.pageData = w.s.pageData
  BY <1>1 DEF States, StateNames
<1>3. v = [w EXCEPT !.s = t]
  BY DEF Worlds
<1> HIDE DEF t
<1>4. v \in Worlds /\ v.s = t /\ v.data = w.data /\ v.flash = w.flash
  BY <1>2, <1>3 DEF Worlds
<1> QED BY <1>2, <1>4

\* World v is w after n bytes were skipped, and d is left.
Skipped(w, v, d, n, st) == v = [w EXCEPT !.data = d, !.s.skip = @ - n, !.s.state = st]

\* after bytes were skipped,
LEMMA SkippedIs ==
    ASSUME NEW w \in Worlds, NEW d \in Seq(Bytes), NEW n \in Nat, n <= w.s.skip, NEW st \in StateNames,
           NEW v, Skipped(w, v, d, n, st)
    PROVE  /\ v \in Worlds /\ v.data = d /\ v.flash = w.flash
           /\ v.s \in States /\ v.s.state = st /\ v.s.skip = w.s.skip - n
           /\ v.s.len = w.s.len /\ v.s.address = w.s.address /\ v.s.pageData = w.s.pageData
<1>1. w.s \in States /\ w.data \in Seq(Bytes) /\ w.flash \in [Addresses -> Bytes] /\ w.s.skip - n \in Nat
  BY DEF Worlds, States
<1> DEFINE skip == w.s.skip - n
           t == [w.s EXCEPT !.skip = skip, !.state = st]
<1>2. v = [w EXCEPT !.data = d, !.s = t]
  BY DEF Worlds, Skipped
<1>3. skip \in Nat
  BY <1>1
<1> HIDE DEF skip
<1>4. t \in States /\ t.state = st /\ t.skip = skip /\ t.len = w.s.len /\ t.address = w.s.address
      /\ t.pageData = w.s.pageData
  BY <1>1, <1>3 DEF States, StateNames
<1> HIDE DEF t
<1>5. v \in Worlds /\ v.s = t /\ v.data = d /\ v.flash = w.flash
  BY <1>2, <1>4 DEF Worlds
<1> QED BY <1>4, <1>5 DEF skip

\* World v is w after n bytes went to the page, and d is left.
Paged(w, v, d, page, n) == v = [w EXCEPT !.data = d, !.s.pageData = page, !.s.len = @ - n]

\* after bytes went to the page,
LEMMA PagedIs ==
    ASSUME NEW w \in Worlds, NEW d \in Seq(Bytes), NEW page \in Seq(Bytes), NEW n \in Nat, n <= w.s.len,
           NEW v, Paged(w, v, d, page, n)
    PROVE  /\ v \in Worlds /\ v.data = d /\ v.flash = w.flash
           /\ v.s \in States /\ v.s.state = w.s.state /\ v.s.skip = w.s.skip
           /\ v.s.len = w.s.len - n /\ v.s.address = w.s.address /\ v.s.pageData = page
<1>1. w.s \in States /\ w.data \in Seq(Bytes) /\ w.flash \in [Addresses -> Bytes] /\ w.s.len - n \in Nat
  BY DEF Worlds, States
<1> DEFINE len == w.s.len - n
           t == [w.s EXCEPT !.pageData = page, !.len = len]
<1>2. v = [w EXCEPT !.data = d, !.s = t]
  BY DEF Worlds, Paged
<1>3. len \in Nat
  BY <1>1
<1> HIDE DEF len
<1>4. t \in States /\ t.state = w.s.state /\ t.skip = w.s.skip /\ t.len = len /\ t.address = w.s.address
      /\ t.pageData = page
  BY <1>1, <1>3 DEF States
<1> HIDE DEF t
<1>5. v \in Worlds /\ v.s = t /\ v.data = d /\ v.flash = w.flash
  BY <1>2, <1>4 DEF Worlds
<1> QED BY <1>4, <1>5 DEF len

\* World v is w after a page went to flash, which is gl then, and d is left.
Flashed(w, v, d, gl, address, len, st) ==
    v = [data |-> d, flash |-> gl,
         s |-> [w.s EXCEPT !.pageData = <<>>, !.address = address, !.len = len, !.state = st]]

\* and after a page went to flash.
LEMMA FlashedIs ==
    ASSUME NEW w \in Worlds, NEW d \in Seq(Bytes), NEW gl \in [Addresses -> Bytes],
           NEW address \in Nat, NEW len \in Nat, NEW st \in StateNames,
           NEW v, Flashed(w, v, d, gl, address, len, st)
    PROVE  /\ v \in Worlds /\ v.data = d /\ v.flash = gl
           /\ v.s \in States /\ v.s.state = st /\ v.s.skip = w.s.skip /\ v.s.len = len
           /\ v.s.address = address /\ v.s.pageData = <<>>
<1> DEFINE page == <<>>
           t == [w.s EXCEPT !.pageData = page, !.address = address, !.len = len, !.state = st]
<1>1. w.s \in States /\ page \in Seq(Bytes)
  BY DEF Worlds
<1>2. v = [data |-> d, flash |-> gl, s |-> t]
  BY DEF Flashed
<1> HIDE DEF page
<1>3. t \in States /\ t.state = st /\ t.skip = w.s.skip /\ t.len = len /\ t.address = address /\ t.pageData = page
  BY <1>1 DEF States, StateNames
<1> HIDE DEF t
<1>4. v \in Worlds /\ v.s = t /\ v.data = d /\ v.flash = gl
  BY <1>2, <1>3 DEF Worlds
<1> QED BY <1>3, <1>4 DEF page

\* The bytes of d are those of B that end at byte e.
Follows(B, d, e) == \A j \in 1 .. Len(d) : d[j] = B[e - Len(d) + j]

\* Of the bytes of a chunk that ends at byte e of the file, those behind the first n.
LEMMA RestIs ==
    ASSUME NEW B, NEW d \in Seq(Bytes), NEW e \in Nat, NEW n \in 0 .. Len(d),
           Follows(B, d, e)
    PROVE  LET r == SubSeq(d, n + 1, Len(d))
           IN  r \in Seq(Bytes) /\ Len(r) = Len(d) - n /\ Follows(B, r, e)
<1> DEFINE r == SubSeq(d, n + 1, Len(d))
           len == Len(d)
<1>1. len \in Nat /\ n \in 0 .. len
  OBVIOUS
<1>2. r \in Seq(Bytes) /\ Len(r) = len - n /\ \A j \in 1 .. len - n : r[j] = d[n + j]
  <2>1. CASE n = len
    <3>1. r = <<>>
      BY <1>1, <2>1, SubSeqProperties
    <3> QED BY <1>1, <2>1, <3>1
  <2>2. CASE n # len
    <3>1. /\ r \in Seq(Bytes) /\ Len(r) = len - (n + 1) + 1
          /\ \A j \in 1 .. len - (n + 1) + 1 : r[j] = d[(n + 1) + j - 1]
      BY <1>1, <2>2, SubSeqProperties
    <3>2. len - (n + 1) + 1 = len - n /\ \A j \in 1 .. len - n : (n + 1) + j - 1 = n + j
      BY <1>1
    <3> HIDE DEF r
    <3> QED BY <3>1, <3>2
  <2> QED BY <2>1, <2>2
<1> HIDE DEF r
<1>3. ASSUME NEW j \in 1 .. Len(r) PROVE r[j] = B[e - Len(r) + j]
  <2>1. n + j \in 1 .. len /\ e - len + (n + j) = e - Len(r) + j
    BY <1>1, <1>2
  <2>2. r[j] = d[n + j] /\ d[n + j] = B[e - len + (n + j)]
    BY <1>2, <2>1 DEF Follows
  <2> QED BY <2>1, <2>2
<1> QED BY <1>2, <1>3 DEF r, Follows
-----------------------------------------------------------------------------
(* A round of the loop.                                                    *)

\* The loop works on a chunk that ends at byte e of the file.
InLoop(u, w, e) ==
    /\ w \in Worlds /\ Len(w.data) <= e
    /\ Follows(Body(u), w.data, e)
    /\ Position(u, w.s, e - Len(w.data))

\* What a round takes, or gets ready to take, runs out.
Measure(w) ==
    2 * Len(w.data) + (IF w.s.state = "START" THEN 3
                       ELSE IF (w.s.state = "WRITE" /\ w.s.len = 0) \/ (w.s.state = "SKIP" /\ w.s.skip = 0)
                       THEN 1 ELSE 0)

\* No cell outside the region is touched.
Outside(r, fl, gl) == \A a \in Addresses \ Cells(r) : gl[a] = fl[a]
Kept(u, fl, gl) == Outside(Target(u), fl, gl)

Keeps(u, w, v, e) ==
    /\ InLoop(u, v, e) /\ Kept(u, w.flash, v.flash)
    /\ Stored(u, w.s, w.flash) => Stored(u, v.s, v.flash)
    /\ Measure(v) < Measure(w)

\* A chunk of upload u, which has its header if it is the first.
Chunk(u, e) == Known(u) /\ e \in Nat /\ e <= PostTotal(u) /\ (u.file.type = "OTA" => e >= HeaderSize)

\* Zero is where every page and every sector begins.
LEMMA ZeroIs == 0 % PAGELEN = 0
<1>1. 0 \in Nat /\ PAGELEN \in Nat \ {0} /\ 0 \in Int /\ 0 = PAGELEN * 0
  BY UploadAssumption
<1> QED BY <1>1, Multiple

\* What a header that is accepted leads to.
LEMMA HeaderAccepted ==
    ASSUME NEW u, NEW e, Chunk(u, e), NEW w, InLoop(u, w, e), w.s.state = "START", Accepted(u),
           NEW v, v \in Worlds, v.flash = w.flash, v.s.pageData = <<>>,
           NEW n \in Nat, n <= e, v.data \in Seq(Bytes), Len(v.data) = e - n,
           Follows(Body(u), v.data, e),
           v.s \in States,
           v.s.address = fwPos(Target(u)), v.s.len = Length(u),
           \/ v.s.state = "WRITE" /\ v.s.skip = After(u) /\ n = Before(u)
           \/ v.s.state = "SKIP" /\ running = 1 /\ u.file.type = "OTA" /\ n + v.s.skip = Before(u)
    PROVE  Keeps(u, w, v, e)
<1>1. Target(u) \in Region /\ running \in 1 .. 2 /\ e \in Nat /\ PAGELEN \in Nat \ {0} /\ Length(u) \in Nat
  <2>1. running \in 1 .. 2 /\ e \in Nat /\ u.file \in Files
    BY DEF Chunk, Known
  <2>2. u.file.len1 \in Nat /\ u.file.len2 \in Nat
    BY <2>1, FileIs
  <2> QED BY <2>1, <2>2, UploadAssumption DEF Target, Region, Length, PartLen
<1>2. fwPos(Target(u)) \in Nat /\ fwPos(Target(u)) % SEC_SIZE = 0
  BY <1>1, RegionInSectors
<1>3. e - Len(v.data) = n /\ Len(v.s.pageData) = 0
  BY <1>1
<1>6. Measure(v) < Measure(w)
  <2>1. Len(w.data) = e
    <3>1. e - Len(w.data) = 0 /\ w.data \in Seq(Bytes)
      BY DEF InLoop, Position, Worlds
    <3> QED BY <1>1, <3>1
  <2>2. Measure(w) = 2 * e + 3
    BY <2>1 DEF Measure
  <2>3. Measure(v) = 2 * (e - n) + 1 \/ Measure(v) = 2 * (e - n) + 0
    <3>1. v.s.state # "START"
      OBVIOUS
    <3> QED BY <3>1 DEF Measure
  <2> QED BY <1>1, <2>2, <2>3
<1>7. Kept(u, w.flash, v.flash)
  BY DEF Kept, Outside
<1>4. CASE v.s.state = "WRITE"
  <2>1. Writing(u, v.s, n)
    <3>1. v.s.skip = After(u) /\ n = Before(u)
      BY <1>4
    <3>2. v.s.address - fwPos(Target(u)) = 0
      BY <1>2
    <3> QED BY <1>1, <1>3, <3>1, <3>2, ZeroIs DEF Writing
  <2>2. Stored(u, v.s, v.flash)
    <3>1. Holding(u, v.s.address - fwPos(Target(u)), v.flash)
      BY <1>2 DEF Holding
    <3>2. RestErased(Target(u), v.s.address, v.flash)
      BY <1>2 DEF RestErased
    <3> QED BY <1>4, <3>1, <3>2 DEF Stored
  <2>3. Position(u, v.s, n)
    BY <1>1, <1>3, <1>4, <2>1 DEF Position
  <2>4. InLoop(u, v, e)
    BY <1>1, <1>3, <2>3 DEF InLoop
  <2> QED BY <1>6, <1>7, <2>2, <2>4 DEF Keeps
<1>5. CASE v.s.state = "SKIP"
  <2>1. Skipping(u, v.s, n)
    BY <1>5 DEF Skipping
  <2>2. Position(u, v.s, n)
    BY <1>1, <1>3, <1>5, <2>1 DEF Position
  <2>3. Stored(u, v.s, v.flash)
    BY <1>5 DEF Stored
  <2>4. InLoop(u, v, e)
    BY <1>1, <1>3, <2>2 DEF InLoop
  <2> QED BY <1>6, <1>7, <2>3, <2>4 DEF Keeps
<1> QED BY <1>4, <1>5

\* A state of error keeps what there is to be kept.
LEMMA ErrorKeeps ==
    ASSUME NEW u, NEW e, Chunk(u, e), NEW w, InLoop(u, w, e), w.s.state = "START",
           NEW v, v = [w EXCEPT !.s.state = "ERROR"]
    PROVE  Keeps(u, w, v, e)
<1>1. v \in Worlds /\ v.s.state = "ERROR" /\ v.s.pageData = w.s.pageData /\ v.data = w.data /\ v.flash = w.flash
  BY ErrorIs DEF InLoop, StateNames
<1>2. v.s \in States /\ w.s \in States /\ w.data \in Seq(Bytes)
  BY <1>1 DEF Worlds, InLoop
<1>3. Position(u, v.s, e - Len(v.data))
  BY <1>1, <1>2 DEF InLoop, Position
<1>4. Stored(u, v.s, v.flash)
  BY <1>1 DEF Stored
<1>5. Measure(v) < Measure(w)
  <2>1. Len(w.data) \in Nat
    BY <1>2
  <2>2. Measure(v) = 2 * Len(w.data) + 0
    BY <1>1 DEF Measure
  <2>3. Measure(w) = 2 * Len(w.data) + 3
    BY DEF Measure
  <2> QED BY <2>1, <2>2, <2>3
<1> QED BY <1>1, <1>3, <1>4, <1>5 DEF Keeps, InLoop, Kept, Outside

\* The first round takes the header, if there is one, for what it says.
LEMMA HeaderKeeps ==
    ASSUME NEW u, NEW e, Chunk(u, e), NEW w, InLoop(u, w, e), w.s.state = "START"
    PROVE  Keeps(u, w, Header(w, u), e)
<1> DEFINE f == u.file
           v == Header(w, u)
<1>1. /\ u \in Uploads /\ f \in Files /\ u.part = 3 - running /\ running \in 1 .. 2 /\ e \in Nat
      /\ u.def \in {"FW", "ESPFS"}
  BY DEF Chunk, Known, Uploads, Url
<1>2. /\ f.type \in {"OTA", "BIN", "ESPFS", "other"} /\ f.len1 \in Nat /\ f.len2 \in Nat
      /\ HeaderSize \in Nat /\ fwPos(1) \in Nat /\ fwPos(2) \in Nat /\ fwPos(3) \in Nat
      /\ PostTotal(u) \in Nat /\ (f.type # "OTA" => PostTotal(u) = f.len1)
  <2>1. /\ f.type \in {"OTA", "BIN", "ESPFS", "other"} /\ f.len1 \in Nat /\ f.len2 \in Nat
        /\ HeaderSize \in Nat /\ f.size \in Nat /\ (f.type # "OTA" => f.size = f.len1)
    BY <1>1, FileIs
  <2>2. PostTotal(u) = f.size
    BY BodyIs DEF Chunk
  <2>3. 1 \in Region /\ 2 \in Region /\ 3 \in Region
    BY DEF Region
  <2>4. fwPos(1) \in Nat /\ fwPos(2) \in Nat /\ fwPos(3) \in Nat
    BY <2>3, RegionInSectors
  <2> HIDE DEF f
  <2> QED BY <2>1, <2>2, <2>4
<1>3. /\ w \in Worlds /\ w.s \in States /\ w.data \in Seq(Bytes) /\ w.s.pageData = <<>>
      /\ Len(w.data) = e
      /\ Follows(Body(u), w.data, e)
  <2>1. w \in Worlds /\ w.s = State /\ e - Len(w.data) = 0
    BY DEF InLoop, Position
  <2>2. w.s \in States /\ w.data \in Seq(Bytes)
    BY <2>1 DEF Worlds
  <2> QED BY <1>1, <2>1, <2>2 DEF InLoop, State
<1>4. CASE v = [w EXCEPT !.s.state = "ERROR"]
  BY <1>4, ErrorKeeps
<1>5. CASE v # [w EXCEPT !.s.state = "ERROR"]
  <2>1. CASE u.def = "FW" /\ f.type = "OTA"
    <3> DEFINE d == SubSeq(w.data, HeaderSize + 1, Len(w.data))
    <3>2. HeaderSize \in 0 .. Len(w.data)
      BY <1>2, <1>3, <2>1 DEF Chunk
    <3>3. /\ d \in Seq(Bytes) /\ Len(d) = e - HeaderSize
          /\ Follows(Body(u), d, e)
      <4>1. e \in Nat /\ w.data \in Seq(Bytes) /\ Len(w.data) = e /\ Follows(Body(u), w.data, e)
        BY <1>1, <1>3
      <4>2. d \in Seq(Bytes) /\ Len(d) = Len(w.data) - HeaderSize /\ Follows(Body(u), d, e)
        BY ONLY <3>2, <4>1, RestIs
      <4> QED BY <4>1, <4>2
    <3>4. CASE running = 2
      <4>1. v = [w EXCEPT !.data = d, !.s = Starting(w.s, "WRITE", f.len1, f.len2, fwPos(1))]
        BY <1>3, <1>5, <2>1, <3>4 DEF Header, Worlds
      <4>2. Target(u) = 1 /\ Length(u) = f.len1 /\ Before(u) = HeaderSize /\ After(u) = f.len2 /\ Accepted(u)
        BY <2>1, <3>4 DEF Target, Length, PartLen, PartOf, Before, After, Accepted
      <4> HIDE DEF v, d
      <4>3. /\ v \in Worlds /\ v.data = d /\ v.flash = w.flash
            /\ v.s \in States /\ v.s.state = "WRITE" /\ v.s.len = f.len1 /\ v.s.skip = f.len2
            /\ v.s.address = fwPos(1) /\ v.s.pageData = w.s.pageData
        <5> DEFINE st == "WRITE"
        <5>1. st \in StateNames
          BY DEF StateNames
        <5>2. w \in Worlds /\ d \in Seq(Bytes) /\ f.len1 \in Nat /\ f.len2 \in Nat /\ fwPos(1) \in Nat
          BY <1>2, <1>3, <3>3
        <5>3. Begun(w, v, d, st, f.len1, f.len2, fwPos(1))
          BY <4>1 DEF Begun
        <5> HIDE DEF st, f
        <5>4. /\ v \in Worlds /\ v.data = d /\ v.flash = w.flash
              /\ v.s \in States /\ v.s.state = st /\ v.s.len = f.len1 /\ v.s.skip = f.len2
              /\ v.s.address = fwPos(1) /\ v.s.pageData = w.s.pageData
          BY <5>1, <5>2, <5>3, StartedIs
        <5> QED BY <5>4 DEF st
      <4>4. v.s.address = fwPos(Target(u)) /\ v.s.len = Length(u) /\ v.s.pageData = <<>>
        BY <1>3, <4>2, <4>3
      <4>5. v.s.state = "WRITE" /\ v.s.skip = After(u) /\ HeaderSize = Before(u)
        BY <4>2, <4>3
      <4>6. HeaderSize \in Nat /\ HeaderSize <= e /\ v.data \in Seq(Bytes) /\ Len(v.data) = e - HeaderSize
        BY <1>2, <1>3, <3>2, <3>3, <4>3
      <4>7. Follows(Body(u), v.data, e)
        BY <3>3, <4>3
      <4>8. Keeps(u, w, v, e)
        BY <4>2, <4>3, <4>4, <4>5, <4>6, <4>7, HeaderAccepted
      <4> QED BY <4>8 DEF v
    <3>5. CASE running # 2
      <4>1. v = [w EXCEPT !.data = d, !.s = Starting(w.s, "SKIP", f.len2, f.len1, fwPos(2))]
        BY <1>3, <1>5, <2>1, <3>5 DEF Header, Worlds
      <4>2. running = 1 /\ Target(u) = 2 /\ Length(u) = f.len2 /\ Before(u) = HeaderSize + f.len1 /\ Accepted(u)
        BY <1>1, <2>1, <3>5 DEF Target, Length, PartLen, PartOf, Before, Accepted
      <4> HIDE DEF v, d
      <4>3. /\ v \in Worlds /\ v.data = d /\ v.flash = w.flash
            /\ v.s \in States /\ v.s.state = "SKIP" /\ v.s.len = f.len2 /\ v.s.skip = f.len1
            /\ v.s.address = fwPos(2) /\ v.s.pageData = w.s.pageData
        <5> DEFINE st == "SKIP"
        <5>1. st \in StateNames
          BY DEF StateNames
        <5>2. w \in Worlds /\ d \in Seq(Bytes) /\ f.len1 \in Nat /\ f.len2 \in Nat /\ fwPos(2) \in Nat
          BY <1>2, <1>3, <3>3
        <5>3. Begun(w, v, d, st, f.len2, f.len1, fwPos(2))
          BY <4>1 DEF Begun
        <5> HIDE DEF st, f
        <5>4. /\ v \in Worlds /\ v.data = d /\ v.flash = w.flash
              /\ v.s \in States /\ v.s.state = st /\ v.s.len = f.len2 /\ v.s.skip = f.len1
              /\ v.s.address = fwPos(2) /\ v.s.pageData = w.s.pageData
          BY <5>1, <5>2, <5>3, StartedIs
        <5> QED BY <5>4 DEF st
      <4>4. v.s.address = fwPos(Target(u)) /\ v.s.len = Length(u) /\ v.s.pageData = <<>>
        BY <1>3, <4>2, <4>3
      <4>5. v.s.state = "SKIP" /\ running = 1 /\ u.file.type = "OTA" /\ HeaderSize + v.s.skip = Before(u)
        BY <2>1, <4>2, <4>3
      <4>6. HeaderSize \in Nat /\ HeaderSize <= e /\ v.data \in Seq(Bytes) /\ Len(v.data) = e - HeaderSize
        BY <1>2, <1>3, <3>2, <3>3, <4>3
      <4>7. Follows(Body(u), v.data, e)
        BY <3>3, <4>3
      <4>8. Keeps(u, w, v, e)
        BY <4>2, <4>3, <4>4, <4>5, <4>6, <4>7, HeaderAccepted
      <4> QED BY <4>8 DEF v
    <3> QED BY <3>4, <3>5
  <2>2. CASE ~(u.def = "FW" /\ f.type = "OTA")
    <3> DEFINE r == IF u.def = "FW" THEN 1 ELSE 3
               len == PostTotal(u)
    <3>1. /\ v = [w EXCEPT !.s = Starting(w.s, "WRITE", len, 0, fwPos(r))]
          /\ (u.def = "FW" /\ f.type = "BIN") \/ (u.def = "ESPFS" /\ f.type = "ESPFS")
      BY <1>3, <1>5, <2>2 DEF Header, Worlds
    <3>2. v = [w EXCEPT !.data = w.data, !.s = Starting(w.s, "WRITE", len, 0, fwPos(r))]
      BY <1>3, <3>1 DEF Worlds
    <3>3. fwPos(r) \in Nat /\ len = f.len1 /\ len \in Nat /\ 0 \in Nat
      BY <1>2, <3>1
    <3>4. Target(u) = r /\ Length(u) = f.len1 /\ Before(u) = 0 /\ After(u) = 0 /\ Accepted(u)
      <4>1. ~(len > fwSize)
        BY <1>3, <1>5, <2>2 DEF Header, Worlds
      <4>2. fwSize \in Nat
        BY UploadAssumption
      <4> DEFINE l == f.len1
      <4>3. l = len /\ l \in Nat
        BY <3>3
      <4> HIDE DEF len, l
      <4>4. l <= fwSize
        BY <4>1, <4>2, <4>3
      <4> QED BY <3>1, <4>4 DEF Target, Length, Before, After, Accepted, l
    <3> HIDE DEF v, r, len
    <3>5. /\ v \in Worlds /\ v.data = w.data /\ v.flash = w.flash
          /\ v.s \in States /\ v.s.state = "WRITE" /\ v.s.len = len /\ v.s.skip = 0
          /\ v.s.address = fwPos(r) /\ v.s.pageData = w.s.pageData
      <4> DEFINE st == "WRITE"
                 skip == 0
                 d == w.data
      <4>1. st \in StateNames
        BY DEF StateNames
      <4>2. w \in Worlds /\ d \in Seq(Bytes) /\ len \in Nat /\ skip \in Nat /\ fwPos(r) \in Nat
        BY <1>3, <3>3
      <4>3. Begun(w, v, d, st, len, skip, fwPos(r))
        BY <3>2 DEF Begun
      <4> HIDE DEF st, skip, d
      <4>4. /\ v \in Worlds /\ v.data = d /\ v.flash = w.flash
            /\ v.s \in States /\ v.s.state = st /\ v.s.len = len /\ v.s.skip = skip
            /\ v.s.address = fwPos(r) /\ v.s.pageData = w.s.pageData
        BY <4>1, <4>2, <4>3, StartedIs
      <4> QED BY <4>4 DEF st, skip, d
    <3>6. v.s.address = fwPos(Target(u)) /\ v.s.len = Length(u) /\ v.s.pageData = <<>>
      BY <1>3, <3>3, <3>4, <3>5
    <3>7. v.s.state = "WRITE" /\ v.s.skip = After(u) /\ 0 = Before(u)
      BY <3>4, <3>5
    <3>8. 0 \in Nat /\ 0 <= e /\ v.data \in Seq(Bytes) /\ Len(v.data) = e - 0
      BY <1>1, <1>3, <3>5
    <3>9. Follows(Body(u), v.data, e)
      BY <1>3, <3>5
    <3>10. Keeps(u, w, v, e)
      BY <3>4, <3>5, <3>6, <3>7, <3>8, <3>9, HeaderAccepted
    <3> QED BY <3>10 DEF v
  <2> QED BY <2>1, <2>2
<1> QED BY <1>4, <1>5

\* A round that skips does so to the end of what is to be skipped, or of the chunk.
LEMMA SkipKeeps ==
    ASSUME NEW u, NEW e, Chunk(u, e), NEW w, InLoop(u, w, e), w.s.state = "SKIP", w.data # <<>>
    PROVE  Keeps(u, w, Skip(w), e)
<1> DEFINE v == Skip(w)
           len == Len(w.data)
           skip == w.s.skip
           n == IF skip > len THEN len ELSE skip
           st == IF skip > len THEN "SKIP" ELSE IF w.s.len # 0 THEN "WRITE" ELSE "DONE"
           d == SubSeq(w.data, n + 1, Len(w.data))
           p == e - len
<1>1. /\ w \in Worlds /\ w.s \in States /\ w.data \in Seq(Bytes) /\ len \in Nat \ {0} /\ skip \in Nat
      /\ e \in Nat /\ len <= e /\ w.s.len \in Nat
      /\ Follows(Body(u), w.data, e)
      /\ running \in 1 .. 2 /\ Accepted(u) /\ Skipping(u, w.s, p)
      /\ p \in Nat
  <2>1. w \in Worlds /\ e \in Nat /\ len <= e /\ running \in 1 .. 2
    BY DEF InLoop, Chunk, Known
  <2>2. w.s \in States /\ w.data \in Seq(Bytes)
    BY <2>1 DEF Worlds
  <2>3. len \in Nat \ {0}
    BY <2>2
  <2>4. skip \in Nat /\ w.s.len \in Nat
    BY <2>2 DEF States
  <2>5. Accepted(u) /\ Skipping(u, w.s, p)
    BY DEF InLoop, Position
  <2>6. p \in Nat
    BY <2>1, <2>3
  <2> QED BY <2>1, <2>2, <2>3, <2>4, <2>5, <2>6 DEF InLoop
<1>2. Skipped(w, v, d, n, st)
  BY DEF Skip, Skipped
<1>3. n \in Nat /\ n <= skip /\ n \in 0 .. len /\ st \in StateNames
  BY <1>1 DEF StateNames
<1>4. /\ d \in Seq(Bytes) /\ Len(d) = len - n
      /\ Follows(Body(u), d, e)
  <2>1. /\ w.data \in Seq(Bytes) /\ e \in Nat /\ n \in 0 .. Len(w.data)
        /\ Follows(Body(u), w.data, e)
    BY <1>1, <1>3
  <2> HIDE DEF n
  <2> QED BY <2>1, RestIs
<1>5. /\ st = "SKIP" => skip > len /\ n = len
      /\ st # "SKIP" => n = skip /\ (st = "WRITE" <=> w.s.len # 0)
      /\ st \in {"SKIP", "WRITE", "DONE"}
  BY <1>1
<1> HIDE DEF v, d, n, st
<1>6. /\ v \in Worlds /\ v.data = d /\ v.flash = w.flash
      /\ v.s \in States /\ v.s.state = st /\ v.s.skip = skip - n
      /\ v.s.len = w.s.len /\ v.s.address = w.s.address /\ v.s.pageData = w.s.pageData
  BY <1>1, <1>2, <1>3, <1>4, SkippedIs
<1>7. e - Len(v.data) = p + n /\ Len(v.data) = len - n /\ p + n \in Nat
  <2>1. Len(v.data) = len - n
    BY <1>4, <1>6
  <2>2. n \in Nat /\ e \in Nat /\ len \in Nat /\ len <= e /\ n <= len
    BY <1>1, <1>3
  <2> HIDE DEF len
  <2> QED BY <2>1, <2>2
<1>8. v.s.pageData = <<>> /\ Len(v.s.pageData) = 0 /\ u.file.type = "OTA"
  BY <1>1, <1>6 DEF Skipping
<1>9. Target(u) \in Region /\ fwPos(Target(u)) \in Nat /\ PAGELEN \in Nat \ {0}
  <2>1. Target(u) \in Region
    BY <1>1 DEF Target, Region
  <2> QED BY <2>1, RegionInSectors, UploadAssumption
<1>10. /\ running = 1 => w.s.len = Length(u) /\ w.s.address = fwPos(Target(u)) /\ p + skip = Before(u)
       /\ running = 2 => w.s.len = 0 /\ p + skip = Before(u) + Length(u) + After(u)
  BY <1>1 DEF Skipping
<1>11. v.s.state = "SKIP" => Skipping(u, v.s, p + n)
  <2>1. p + n + (skip - n) = p + skip
    BY <1>1, <1>3
  <2> QED BY <1>6, <1>8, <1>10, <2>1 DEF Skipping
<1>12. v.s.state = "WRITE" => Writing(u, v.s, p + n) /\ v.s.address = fwPos(Target(u))
  <2> SUFFICES ASSUME v.s.state = "WRITE" PROVE Writing(u, v.s, p + n) /\ v.s.address = fwPos(Target(u))
    OBVIOUS
  <2>1. st = "WRITE" /\ n = skip /\ w.s.len # 0
    BY <1>5, <1>6
  <2>2. running = 1
    BY <1>1, <1>10, <2>1
  <2>3. v.s.len = Length(u) /\ v.s.address = fwPos(Target(u)) /\ p + n = Before(u) /\ v.s.skip = 0 /\ v.s.len # 0
    BY <1>1, <1>6, <1>10, <2>1, <2>2
  <2>4. After(u) = 0
    BY <2>2 DEF After
  <2>5. v.s.address - fwPos(Target(u)) = 0
    BY <1>9, <2>3
  <2>6. v.s.len \in Nat
    BY <1>1, <1>6
  <2>7. Before(u) \in Nat
    BY <1>7, <2>3
  <2> QED BY <1>8, <2>3, <2>4, <2>5, <2>6, <2>7, ZeroIs DEF Writing
<1>13. Position(u, v.s, p + n)
  <2>1. v.s.state # "START"
    BY <1>5, <1>6
  <2> QED BY <1>1, <1>6, <1>8, <1>9, <1>11, <1>12, <2>1 DEF Position
<1>14. ASSUME Stored(u, w.s, w.flash) PROVE Stored(u, v.s, v.flash)
  <2>1. CASE v.s.state = "WRITE"
    <3>0. fwPos(Target(u)) % SEC_SIZE = 0
      BY <1>9, RegionInSectors
    <3>1. v.s.address - fwPos(Target(u)) = 0 /\ v.s.address % SEC_SIZE = 0
      BY <1>9, <1>12, <2>1, <3>0
    <3>2. Holding(u, v.s.address - fwPos(Target(u)), v.flash) /\ RestErased(Target(u), v.s.address, v.flash)
      BY <3>1 DEF Holding, RestErased
    <3> QED BY <2>1, <3>2 DEF Stored
  <2>2. CASE v.s.state # "WRITE" /\ running = 2
    <3>1. Holding(u, Length(u), w.flash)
      BY <1>14, <2>2 DEF Stored
    <3> QED BY <1>6, <2>2, <3>1 DEF Stored
  <2>3. CASE v.s.state # "WRITE" /\ running = 1
    <3>1. CASE v.s.state = "DONE"
      <4>1. Length(u) = 0
        BY <1>1, <1>5, <1>6, <1>10, <2>3, <3>1
      <4>2. Holding(u, Length(u), v.flash)
        BY <4>1 DEF Holding
      <4> QED BY <2>3, <4>2 DEF Stored
    <3>2. CASE v.s.state # "DONE"
      BY <2>3, <3>2 DEF Stored
    <3> QED BY <3>1, <3>2
  <2> QED BY <1>1, <2>1, <2>2, <2>3
<1>15. Measure(v) < Measure(w)
  <2>1. CASE n = 0
    <3>1. st # "SKIP" /\ skip = 0
      BY <1>1, <1>5, <2>1
    <3>2. Measure(w) = 2 * len + 1
      BY <1>1, <3>1 DEF Measure
    <3>3. Measure(v) = 2 * len + 0
      <4>1. v.s.state # "START" /\ v.s.state # "SKIP" /\ ~(v.s.state = "WRITE" /\ v.s.len = 0)
        BY <1>5, <1>6, <3>1
      <4>2. Len(v.data) = len
        BY <1>1, <1>7, <2>1
      <4> QED BY <4>1, <4>2 DEF Measure
    <3> QED BY <1>1, <3>2, <3>3
  <2>2. CASE n # 0
    <3>1. Measure(w) = 2 * len + 0 \/ Measure(w) = 2 * len + 1
      BY DEF Measure
    <3>2. Measure(v) = 2 * (len - n) + 0
      <4>1. v.s.state # "START" /\ ~(v.s.state = "SKIP" /\ v.s.skip = 0) /\ ~(v.s.state = "WRITE" /\ v.s.len = 0)
        BY <1>1, <1>5, <1>6
      <4> QED BY <1>7, <4>1 DEF Measure
    <3> QED BY <1>1, <1>3, <2>2, <3>1, <3>2
  <2> QED BY <2>1, <2>2
<1>16. InLoop(u, v, e)
  <2>1. Len(v.data) <= e /\ v \in Worlds
    BY <1>1, <1>3, <1>6, <1>7
  <2>2. Follows(Body(u), v.data, e)
    BY <1>4, <1>6
  <2>3. Position(u, v.s, e - Len(v.data))
    BY <1>7, <1>13
  <2> QED BY <2>1, <2>2, <2>3 DEF InLoop
<1>17. Kept(u, w.flash, v.flash)
  BY <1>6 DEF Kept, Outside
<1>18. Keeps(u, w, v, e)
  BY <1>14, <1>15, <1>16, <1>17 DEF Keeps
<1> QED BY <1>18 DEF v
-----------------------------------------------------------------------------
(* A page goes to flash.                                                   *)

\* The address a is in the page, and in a sector that begins with the page.
InPage(a, address, page) == a \in address .. address + Len(page) - 1
InFresh(a, address) == address % SEC_SIZE = 0 /\ a \div SEC_SIZE = address \div SEC_SIZE

\* What there is at an address after the sector was erased, if the page is the
\* first of it, and the page was written.
LEMMA WrittenIs ==
    ASSUME NEW fl \in [Addresses -> Bytes], NEW address \in Nat, NEW page \in Seq(Bytes), NEW a \in Addresses,
           NEW gl, gl = Written(EraseSector(fl, address), address, page)
    PROVE  /\ gl[a] \in Bytes
           /\ ~InPage(a, address, page) /\ InFresh(a, address) => gl[a] = Erased
           /\ ~InPage(a, address, page) /\ ~InFresh(a, address) => gl[a] = fl[a]
           /\ InPage(a, address, page) /\ (InFresh(a, address) \/ fl[a] = Erased) => gl[a] = page[a - address + 1]
<1> DEFINE el == EraseSector(fl, address)
<1>1. Erased \in Bytes /\ Mixed \in Bytes
  BY DEF Erased, Mixed, Bytes
<1>2. el \in [Addresses -> Bytes] /\ el[a] = IF InFresh(a, address) THEN Erased ELSE fl[a]
  BY <1>1 DEF EraseSector, ErasedSector, InFresh
<1> HIDE DEF el
<1>3. gl[a] = IF ~InPage(a, address, page) THEN el[a] ELSE IF el[a] = Erased THEN page[a - address + 1] ELSE Mixed
  BY <1>2 DEF Written, InPage, el
<1>4. InPage(a, address, page) => page[a - address + 1] \in Bytes
  <2> SUFFICES ASSUME InPage(a, address, page) PROVE page[a - address + 1] \in Bytes
    OBVIOUS
  <2>1. Len(page) \in Nat
    OBVIOUS
  <2>2. a - address + 1 \in 1 .. Len(page)
    BY <2>1 DEF InPage
  <2> QED BY <2>2
<1>5. gl[a] \in Bytes
  BY <1>1, <1>2, <1>3, <1>4
<1> QED BY <1>2, <1>3, <1>5

\* Flash gl is fl after the page was written behind the first bytes of a region.
PageWritten(gl, fl, r, done, page) == gl = Written(EraseSector(fl, fwPos(r) + done), fwPos(r) + done, page)

\* A page written at its place stays inside its region,
LEMMA PageKept ==
    ASSUME NEW fl \in [Addresses -> Bytes], NEW r \in Region, NEW done \in Nat, done < fwSize,
           NEW page \in Seq(Bytes), done + Len(page) <= fwSize,
           NEW gl, PageWritten(gl, fl, r, done, page)
    PROVE  gl \in [Addresses -> Bytes] /\ Outside(r, fl, gl)
<1> DEFINE address == fwPos(r) + done
<1>1. fwPos(r) \in Nat /\ fwSize \in Nat /\ address \in Nat /\ address \in Cells(r) /\ Len(page) \in Nat
  BY RegionInSectors, UploadAssumption DEF Cells
<1>2. address + Len(page) <= fwPos(r) + fwSize
  BY <1>1
<1>0. gl = Written(EraseSector(fl, address), address, page)
  BY DEF PageWritten
<1> HIDE DEF address
<1>3. gl = [b \in Addresses |-> gl[b]] /\ \A a \in Addresses : gl[a] \in Bytes
  <2>1. Erased \in Bytes
    BY DEF Erased, Bytes
  <2>2. ASSUME NEW a \in Addresses PROVE gl[a] \in Bytes
    BY <1>0, <1>1, WrittenIs
  <2>3. gl = [b \in Addresses |-> gl[b]]
    <3>1. DOMAIN EraseSector(fl, address) = Addresses
      BY DEF EraseSector, ErasedSector
    <3> QED BY <1>0, <3>1 DEF Written
  <2> QED BY <2>2, <2>3
<1>4. ASSUME NEW a \in Addresses \ Cells(r) PROVE gl[a] = fl[a]
  <2>1. a \in Nat
    <3>1. PICK q \in Region : a \in Cells(q)
      BY DEF Addresses
    <3>2. fwPos(q) \in Nat
      BY RegionInSectors
    <3> QED BY <1>1, <3>1, <3>2 DEF Cells
  <2>2. ~InPage(a, address, page)
    <3>1. ~(a >= fwPos(r) /\ a <= fwPos(r) + fwSize - 1)
      BY <1>1, <2>1 DEF Cells
    <3>2. address >= fwPos(r)
      BY <1>1 DEF Cells
    <3> QED BY <1>1, <1>2, <2>1, <3>1, <3>2 DEF InPage
  <2>3. ~InFresh(a, address)
    BY <1>1, <2>1, RegionInSectors DEF InFresh
  <2> QED BY <1>0, <1>1, <2>2, <2>3, WrittenIs
<1> QED BY <1>3, <1>4 DEF Outside

\* The first bytes of the region are in gl what they are in fl.
InFront(r, n, fl, gl) == \A k \in 1 .. n : gl[fwPos(r) + k - 1] = fl[fwPos(r) + k - 1]

\* keeps what is in front of it,
LEMMA FrontKept ==
    ASSUME NEW fl \in [Addresses -> Bytes], NEW r \in Region, NEW done \in Nat, done < fwSize,
           NEW page \in Seq(Bytes),
           NEW gl, PageWritten(gl, fl, r, done, page)
    PROVE  InFront(r, done, fl, gl)
<1> SUFFICES ASSUME NEW k \in 1 .. done PROVE gl[fwPos(r) + k - 1] = fl[fwPos(r) + k - 1]
  BY DEF InFront
<1> DEFINE address == fwPos(r) + done
           a == fwPos(r) + k - 1
<1>1. fwPos(r) \in Nat /\ fwSize \in Nat /\ address \in Nat /\ a \in Nat /\ a < address /\ a \in Cells(r)
  <2>1. fwPos(r) \in Nat /\ fwSize \in Nat
    BY RegionInSectors, UploadAssumption
  <2> QED BY <2>1 DEF Cells
<1>2. a \in Addresses
  BY <1>1 DEF Addresses
<1>0. gl = Written(EraseSector(fl, address), address, page)
  BY DEF PageWritten
<1> HIDE DEF address, a
<1>3. ~InPage(a, address, page)
  BY <1>1 DEF InPage
<1>4. ~InFresh(a, address)
  BY <1>1, BeforeSector DEF InFresh
<1>5. gl[a] = fl[a]
  BY <1>0, <1>1, <1>2, <1>3, <1>4, WrittenIs
<1> QED BY <1>5 DEF a

\* The page is in flash behind the first bytes of the region.
IsAt(r, n, page, gl) == \A j \in 1 .. Len(page) : gl[fwPos(r) + n + j - 1] = page[j]

\* is there, if the sector is erased,
LEMMA PageThere ==
    ASSUME NEW fl \in [Addresses -> Bytes], NEW r \in Region, NEW done \in Nat, done % PAGELEN = 0, done < fwSize,
           NEW page \in Seq(Bytes), Len(page) <= PAGELEN, done + Len(page) <= fwSize,
           RestErased(r, fwPos(r) + done, fl),
           NEW gl, PageWritten(gl, fl, r, done, page)
    PROVE  IsAt(r, done, page, gl)
<1> SUFFICES ASSUME NEW j \in 1 .. Len(page) PROVE gl[fwPos(r) + done + j - 1] = page[j]
  BY DEF IsAt
<1> DEFINE address == fwPos(r) + done
           a == fwPos(r) + done + j - 1
<1>1. /\ fwPos(r) \in Nat /\ fwSize \in Nat /\ PAGELEN \in Nat \ {0} /\ Len(page) \in Nat
      /\ address \in Nat /\ address % PAGELEN = 0
  <2>1. fwPos(r) \in Nat /\ (fwPos(r) + done) % PAGELEN = 0
    BY RegionInSectors
  <2>2. fwSize \in Nat /\ PAGELEN \in Nat \ {0} /\ Len(page) \in Nat
    BY UploadAssumption
  <2> QED BY <2>1, <2>2
<1>2. a \in Cells(r) /\ a >= address /\ j - 1 \in 0 .. PAGELEN - 1 /\ a = address + (j - 1)
      /\ InPage(a, address, page) /\ a - address + 1 = j
  <2>1. j \in Nat /\ 1 <= j /\ j <= Len(page)
    BY <1>1
  <2>2. a \in fwPos(r) .. fwPos(r) + fwSize - 1
    BY <1>1, <2>1
  <2>3. a = address + (j - 1) /\ address \in Nat /\ Len(page) <= PAGELEN
    BY <1>1, <2>1
  <2> HIDE DEF a, address
  <2>4. a \in Cells(r)
    BY <2>2 DEF Cells
  <2>5. a >= address /\ j - 1 \in 0 .. PAGELEN - 1 /\ a - address + 1 = j
    BY <1>1, <2>1, <2>3
  <2>6. InPage(a, address, page)
    BY <1>1, <2>1, <2>3 DEF InPage
  <2> QED BY <2>3, <2>4, <2>5, <2>6
<1>3. a \in Addresses
  BY <1>2 DEF Addresses
<1> HIDE DEF address, a
<1>4. a \div SEC_SIZE = address \div SEC_SIZE
  BY <1>1, <1>2, PageInSector
<1>5. InFresh(a, address) \/ fl[a] = Erased
  BY <1>2, <1>4 DEF RestErased, InFresh, address
<1>6. gl[a] = page[j]
  <2>1. gl = Written(EraseSector(fl, address), address, page)
    BY DEF address, PageWritten
  <2>2. a \in Addresses /\ address \in Nat /\ InPage(a, address, page)
    BY <1>1, <1>2, <1>3
  <2>3. gl[a] = page[a - address + 1]
    BY <1>5, <2>1, <2>2, WrittenIs
  <2> QED BY <1>2, <2>3
<1> QED BY <1>6 DEF a

\* and leaves the rest of its sector erased for the next one.
LEMMA RestKept ==
    ASSUME NEW fl \in [Addresses -> Bytes], NEW r \in Region, NEW done \in Nat, done % PAGELEN = 0, done < fwSize,
           NEW page \in Seq(Bytes), Len(page) <= PAGELEN,
           RestErased(r, fwPos(r) + done, fl),
           NEW gl, PageWritten(gl, fl, r, done, page)
    PROVE  RestErased(r, fwPos(r) + done + PAGELEN, gl)
<1> DEFINE address == fwPos(r) + done
           next == fwPos(r) + done + PAGELEN
<1>1. /\ fwPos(r) \in Nat /\ PAGELEN \in Nat \ {0} /\ Len(page) \in Nat
      /\ address \in Nat /\ address % PAGELEN = 0 /\ next = address + PAGELEN
  <2>1. fwPos(r) \in Nat /\ (fwPos(r) + done) % PAGELEN = 0
    BY RegionInSectors
  <2>2. PAGELEN \in Nat \ {0} /\ Len(page) \in Nat
    BY UploadAssumption
  <2> QED BY <2>1, <2>2
<1> HIDE DEF address, next
<1> SUFFICES ASSUME next % SEC_SIZE # 0, NEW a \in Cells(r), a >= next, a \div SEC_SIZE = next \div SEC_SIZE
             PROVE  gl[a] = Erased
  BY DEF RestErased, next
<1>2. a \div SEC_SIZE = address \div SEC_SIZE
  BY <1>1, PageInSector
<1>3. a \in Addresses /\ a \in Int
  BY RegionInSectors DEF Addresses, Cells
<1>4. a >= address /\ ~InPage(a, address, page)
  BY <1>1, <1>3 DEF InPage
<1>5. InFresh(a, address) \/ fl[a] = Erased
  BY <1>2, <1>4 DEF RestErased, InFresh, address
<1>6. gl = Written(EraseSector(fl, address), address, page)
  BY DEF address, PageWritten
<1> QED BY <1>1, <1>3, <1>4, <1>5, <1>6, WrittenIs

-----------------------------------------------------------------------------
(* A round that writes.                                                    *)

\* How much is in flash.
Done(u, s) == s.address - fwPos(Target(u))

\* What a state in which the loop writes says, and the next bytes of the chunk
\* are the next ones of what goes to flash.
LEMMA WritingIs ==
    ASSUME NEW u, NEW e, Chunk(u, e), NEW w, InLoop(u, w, e), w.s.state = "WRITE"
    PROVE  /\ w \in Worlds /\ w.s \in States /\ w.data \in Seq(Bytes) /\ w.flash \in [Addresses -> Bytes]
           /\ e \in Nat /\ Len(w.data) \in Nat /\ Len(w.data) <= e
           /\ running \in 1 .. 2 /\ Accepted(u) /\ Target(u) \in Region /\ fwPos(Target(u)) \in Nat
           /\ Length(u) \in 0 .. fwSize /\ Before(u) \in Nat /\ After(u) \in Nat
           /\ fwSize \in Nat \ {0} /\ PAGELEN \in Nat \ {0}
           /\ w.s.pageData \in Seq(Bytes) /\ Len(w.s.pageData) \in Nat /\ Len(w.s.pageData) < PAGELEN
           /\ w.s.len \in Nat /\ w.s.skip = After(u) /\ w.s.address \in Nat
           /\ w.s.address = fwPos(Target(u)) + Done(u, w.s)
           /\ Done(u, w.s) \in Nat /\ Done(u, w.s) % PAGELEN = 0
           /\ Done(u, w.s) + Len(w.s.pageData) + w.s.len = Length(u)
           /\ (w.s.len = 0 => Done(u, w.s) = 0 /\ w.s.pageData = <<>>)
           /\ e - Len(w.data) = Before(u) + Done(u, w.s) + Len(w.s.pageData)
           /\ \A j \in 1 .. Len(w.s.pageData) : w.s.pageData[j] = ByteOf(u, Done(u, w.s) + j)
           /\ \A i \in 1 .. Len(w.data) :
                 i <= w.s.len => w.data[i] = ByteOf(u, Done(u, w.s) + Len(w.s.pageData) + i)
<1> DEFINE m == Len(w.s.pageData)
           done == Done(u, w.s)
           len == Len(w.data)
<1>1. w \in Worlds /\ e \in Nat /\ len <= e /\ running \in 1 .. 2 /\ e <= PostTotal(u) /\ Known(u)
  BY DEF InLoop, Chunk, Known
<1>2. w.s \in States /\ w.data \in Seq(Bytes) /\ w.flash \in [Addresses -> Bytes]
  BY <1>1 DEF Worlds
<1>3. w.s.pageData \in Seq(Bytes) /\ w.s.len \in Nat /\ w.s.address \in Nat
  BY <1>2 DEF States
<1>4. m \in Nat /\ len \in Nat
  BY <1>2, <1>3
<1>5. Accepted(u) /\ Writing(u, w.s, e - len) /\ m < PAGELEN
  BY DEF InLoop, Position
<1>6. /\ done \in Nat /\ done % PAGELEN = 0 /\ done + m + w.s.len = Length(u)
      /\ (w.s.len = 0 => done = 0 /\ w.s.pageData = <<>>)
      /\ e - len = Before(u) + done + m
      /\ \A j \in 1 .. m : w.s.pageData[j] = ByteOf(u, done + j)
      /\ w.s.skip = After(u)
  BY <1>5 DEF Writing, Done
<1>7. /\ Length(u) \in 0 .. fwSize /\ Before(u) \in Nat /\ After(u) \in Nat
      /\ fwSize \in Nat \ {0} /\ PAGELEN \in Nat \ {0}
  <2>1. u.file \in Files \cup {Factory}
    BY <1>1 DEF Known
  <2>2. /\ u.file.len1 \in Nat /\ u.file.len2 \in Nat /\ HeaderSize \in Nat \ {0} /\ fwSize \in Nat \ {0}
        /\ u.file.type = "OTA" => u.file.len1 <= fwSize /\ u.file.len2 <= fwSize
    BY <2>1, FileIs
  <2>3. Length(u) \in 0 .. fwSize
    BY <1>5, <2>1, FitsRegion
  <2> QED BY <2>2, <2>3, UploadAssumption DEF Before, After
<1>8. Target(u) \in Region /\ fwPos(Target(u)) \in Nat
  <2>1. Target(u) \in Region
    BY <1>1 DEF Target, Region
  <2> QED BY <2>1, RegionInSectors
<1>9. w.s.address = fwPos(Target(u)) + done
  BY <1>3, <1>8 DEF Done
<1> HIDE DEF m, done, len
<1>10. ASSUME NEW i \in 1 .. len, i <= w.s.len PROVE w.data[i] = ByteOf(u, done + m + i)
  <2> DEFINE k == done + m + i
  <2>1. k \in 1 .. Length(u) /\ Before(u) + k <= PostTotal(u) /\ e - len + i = Before(u) + k
    <3>1. i \in Nat /\ i >= 1 /\ i <= len
      BY <1>4
    <3>2. k \in 1 .. Length(u)
      BY <1>3, <1>4, <1>6, <1>7, <1>10, <3>1
    <3>3. e - len + i = Before(u) + k
      BY <1>1, <1>4, <1>6, <1>7, <3>1
    <3>4. PostTotal(u) \in Nat
      <4>1. Body(u) \in Seq(Bytes)
        BY <1>1, BodyIs
      <4> QED BY <4>1 DEF PostTotal
    <3>5. e - len + i <= PostTotal(u)
      BY <1>1, <1>4, <3>1, <3>4
    <3> QED BY <3>2, <3>3, <3>5
  <2>2. Body(u)[Before(u) + k] = ByteOf(u, k)
    BY <1>1, <1>5, <2>1, BodyIs
  <2>3. w.data[i] = Body(u)[e - len + i]
    BY DEF InLoop, Follows, len
  <2> QED BY <2>1, <2>2, <2>3
<1> QED BY <1>1, <1>2, <1>3, <1>4, <1>5, <1>6, <1>7, <1>8, <1>9, <1>10 DEF m, done, len

\* Sequence d starts with x.
Starts(x, d) == \A i \in 1 .. Len(x) : x[i] = d[i]

\* The page with n bytes more, all of them the right ones.
Grown(u, w, page, n) ==
    /\ page \in Seq(Bytes) /\ Len(page) = Len(w.s.pageData) + n
    /\ \A j \in 1 .. Len(page) : page[j] = ByteOf(u, Done(u, w.s) + j)

\* The page with the next bytes of the chunk put behind it.
LEMMA PageIs ==
    ASSUME NEW u, NEW e, Chunk(u, e), NEW w, InLoop(u, w, e), w.s.state = "WRITE",
           NEW x \in Seq(Bytes), Len(x) <= w.s.len, Len(x) <= Len(w.data),
           Starts(x, w.data),
           NEW page, page = w.s.pageData \o x
    PROVE  Grown(u, w, page, Len(x))
<1> DEFINE m == Len(w.s.pageData)
           done == Done(u, w.s)
           len == Len(w.data)
           n == Len(x)
<1>1. /\ w.s.pageData \in Seq(Bytes) /\ m \in Nat /\ done \in Nat /\ n \in Nat /\ len \in Nat /\ w.s.len \in Nat
      /\ \A j \in 1 .. m : w.s.pageData[j] = ByteOf(u, done + j)
      /\ \A i \in 1 .. len : i <= w.s.len => w.data[i] = ByteOf(u, done + m + i)
  <2>1. w.s.pageData \in Seq(Bytes) /\ m \in Nat /\ done \in Nat /\ len \in Nat /\ w.s.len \in Nat
    BY WritingIs
  <2>2. \A j \in 1 .. m : w.s.pageData[j] = ByteOf(u, done + j)
    BY WritingIs
  <2>3. \A i \in 1 .. len : i <= w.s.len => w.data[i] = ByteOf(u, done + m + i)
    BY WritingIs
  <2>4. n \in Nat
    OBVIOUS
  <2> HIDE DEF m, done, len, n
  <2> QED BY <2>1, <2>2, <2>3, <2>4
<1>2. /\ page \in Seq(Bytes) /\ Len(page) = m + n
      /\ \A j \in 1 .. m + n : page[j] = IF j <= m THEN w.s.pageData[j] ELSE x[j - m]
  BY <1>1, ConcatProperties
<1> HIDE DEF m, done, len
<1>3. ASSUME NEW j \in 1 .. m + n PROVE page[j] = ByteOf(u, done + j)
  <2>1. CASE j <= m
    <3>1. j \in 1 .. m
      BY <1>1, <2>1
    <3>2. page[j] = w.s.pageData[j]
      BY <1>2, <2>1
    <3>3. w.s.pageData[j] = ByteOf(u, done + j)
      BY <1>1, <3>1
    <3> QED BY <3>2, <3>3
  <2>2. CASE ~(j <= m)
    <3> DEFINE i == j - m
    <3>1. i \in 1 .. n /\ i \in 1 .. len /\ i <= w.s.len /\ done + m + i = done + j
      BY <1>1, <2>2 DEF len
    <3>2. page[j] = x[i]
      BY <1>2, <2>2
    <3> HIDE DEF i
    <3>3. x[i] = w.data[i] /\ w.data[i] = ByteOf(u, done + m + i)
      BY <1>1, <3>1 DEF Starts
    <3> QED BY <3>1, <3>2, <3>3
  <2> QED BY <2>1, <2>2
<1> QED BY <1>2, <1>3 DEF m, done, Grown

\* A round at whose end the page is not full takes the whole chunk.
LEMMA PageTakes ==
    ASSUME NEW u, NEW e, Chunk(u, e), NEW w, InLoop(u, w, e), w.s.state = "WRITE", w.data # <<>>,
           Len(w.data) < w.s.len, Len(w.data) < PAGELEN - Len(w.s.pageData),
           NEW v, Paged(w, v, <<>>, w.s.pageData \o w.data, Len(w.data))
    PROVE  Keeps(u, w, v, e)
<1> DEFINE m == Len(w.s.pageData)
           done == Done(u, w.s)
           len == Len(w.data)
           page == w.s.pageData \o w.data
           d == <<>>
           before == Before(u)
           total == Length(u)
           wanted == w.s.len
<1>1. w \in Worlds /\ w.data \in Seq(Bytes) /\ Accepted(u) /\ w.s.skip = After(u)
  BY WritingIs
<1>2. /\ e \in Nat /\ len \in Nat /\ wanted \in Nat /\ m \in Nat /\ PAGELEN \in Nat /\ done \in Nat
      /\ before \in Nat /\ total \in Nat
  BY WritingIs
<1>3. done + m + wanted = total /\ e - len = before + done + m /\ len <= e
  BY WritingIs
<1>4. done % PAGELEN = 0
  BY WritingIs
<1>5. len < wanted /\ len < PAGELEN - m
  OBVIOUS
<1>6. len # 0
  BY <1>1
<1>7. page \in Seq(Bytes) /\ Len(page) = m + len /\ \A j \in 1 .. Len(page) : page[j] = ByteOf(u, done + j)
  <2>1. Len(w.data) <= w.s.len
    BY <1>2, <1>5
  <2>2. Len(w.data) <= Len(w.data)
    BY <1>2
  <2>3. Starts(w.data, w.data)
    BY DEF Starts
  <2>4. w.data \in Seq(Bytes) /\ Chunk(u, e) /\ InLoop(u, w, e) /\ w.s.state = "WRITE"
    BY <1>1
  <2> HIDE DEF page
  <2>8. page = w.s.pageData \o w.data
    BY DEF page
  <2>5. Grown(u, w, page, Len(w.data))
    BY <2>1, <2>2, <2>3, <2>4, <2>8, PageIs, Zenon
  <2> QED BY <2>5 DEF Grown
<1>8. d \in Seq(Bytes) /\ Len(d) = 0 /\ Paged(w, v, d, page, len)
  OBVIOUS
<1> HIDE DEF d, page, len, m, done, before, total, wanted
<1>9. /\ v \in Worlds /\ v.data = d /\ v.flash = w.flash
      /\ v.s \in States /\ v.s.state = w.s.state /\ v.s.skip = w.s.skip
      /\ v.s.len = w.s.len - len /\ v.s.address = w.s.address /\ v.s.pageData = page
  <2>1. len <= wanted
    BY <1>2, <1>5
  <2>2. page \in Seq(Bytes) /\ d \in Seq(Bytes) /\ len \in Nat /\ w \in Worlds /\ len <= w.s.len
    BY <1>1, <1>2, <1>7, <1>8, <2>1 DEF wanted
  <2>3. Paged(w, v, d, page, len)
    BY <1>8
  <2>4. v \in Worlds /\ v.data = d /\ v.flash = w.flash
    BY <2>2, <2>3, PagedIs
  <2>5. v.s \in States /\ v.s.state = w.s.state /\ v.s.skip = w.s.skip
    BY <2>2, <2>3, PagedIs
  <2>6. v.s.len = w.s.len - len
    BY <2>2, <2>3, PagedIs
  <2>7. v.s.address = w.s.address /\ v.s.pageData = page
    BY <2>2, <2>3, PagedIs
  <2> QED BY <2>4, <2>5, <2>6, <2>7
<1>10. Done(u, v.s) = done
  BY <1>9 DEF Done, done
<1>11. Writing(u, v.s, e)
  <2>1. Len(v.s.pageData) = m + len /\ v.s.len = wanted - len
    BY <1>7, <1>9 DEF wanted
  <2>2. done + (m + len) + (wanted - len) = total /\ wanted - len # 0 /\ e = before + done + (m + len)
    BY <1>2, <1>3, <1>5
  <2>3. \A j \in 1 .. Len(v.s.pageData) : v.s.pageData[j] = ByteOf(u, done + j)
    BY <1>7, <1>9
  <2>4. v.s.skip = After(u)
    BY <1>1, <1>9
  <2>5. v.s.address - fwPos(Target(u)) = done
    BY <1>10 DEF Done
  <2>6. /\ done \in Nat /\ done % PAGELEN = 0
        /\ done + Len(v.s.pageData) + v.s.len = Length(u)
        /\ v.s.len # 0
        /\ e = Before(u) + done + Len(v.s.pageData)
    BY <1>2, <1>4, <2>1, <2>2 DEF before, total
  <2> QED BY <2>3, <2>4, <2>5, <2>6 DEF Writing
<1>12. Len(v.data) = 0 /\ e - Len(v.data) = e
  BY <1>2, <1>8, <1>9
<1>13. Position(u, v.s, e)
  <2>1. Len(v.s.pageData) = m + len
    BY <1>7, <1>9
  <2>2. Len(v.s.pageData) < PAGELEN
    BY <1>2, <1>5, <2>1
  <2> QED BY <1>1, <1>9, <1>11, <2>2 DEF Position
<1>14. InLoop(u, v, e)
  <2>1. Follows(Body(u), v.data, e)
    BY <1>12 DEF Follows
  <2>2. Len(v.data) <= e
    BY <1>2, <1>12
  <2> QED BY <1>9, <1>12, <1>13, <2>1, <2>2 DEF InLoop
<1>15. Kept(u, w.flash, v.flash)
  BY <1>9 DEF Kept, Outside
<1>16. Stored(u, w.s, w.flash) => Stored(u, v.s, v.flash)
  BY <1>9 DEF Stored
<1>17. Measure(v) < Measure(w)
  <2>1. v.s.len # 0 /\ w.s.len # 0
    <3>1. wanted - len # 0 /\ wanted # 0
      BY <1>2, <1>5
    <3> QED BY <1>9, <3>1 DEF wanted
  <2>2. v.s.state = "WRITE"
    BY <1>9
  <2>3. Measure(v) = 2 * 0 + 0
    BY <1>12, <2>1, <2>2 DEF Measure
  <2>4. Measure(w) = 2 * len + 0
    BY <2>1 DEF Measure, len
  <2> QED BY <1>2, <1>6, <2>3, <2>4
<1> QED BY <1>14, <1>15, <1>16, <1>17 DEF Keeps

\* A round that fills the page, or takes the last bytes of the image, flashes it.
LEMMA PageFlashes ==
    ASSUME NEW u, NEW e, Chunk(u, e), NEW w, InLoop(u, w, e), w.s.state = "WRITE",
           NEW left \in Nat, left <= w.s.len, left <= PAGELEN - Len(w.s.pageData),
           left = w.s.len \/ left = PAGELEN - Len(w.s.pageData), left <= Len(w.data),
           NEW page, page = w.s.pageData \o SubSeq(w.data, 1, left),
           NEW st, st = IF w.s.len > left THEN "WRITE" ELSE IF w.s.skip # 0 THEN "SKIP" ELSE "DONE",
           NEW v, Flashed(w, v, SubSeq(w.data, left + 1, Len(w.data)),
                          Written(EraseSector(w.flash, w.s.address), w.s.address, page),
                          w.s.address + PAGELEN, w.s.len - left, st)
    PROVE  Keeps(u, w, v, e)
<1> DEFINE m == Len(w.s.pageData)
           done == Done(u, w.s)
           len == Len(w.data)
           d == SubSeq(w.data, left + 1, Len(w.data))
           r == Target(u)
           gl == Written(EraseSector(w.flash, w.s.address), w.s.address, page)
           next == w.s.address + PAGELEN
           more == w.s.len - left
           rest == e - Len(v.data)
           before == Before(u)
           total == Length(u)
           after == After(u)
           wanted == w.s.len
           addr == w.s.address
           pos == fwPos(r)
           size == Len(page)
<1>1. /\ w \in Worlds /\ w.data \in Seq(Bytes) /\ w.flash \in [Addresses -> Bytes]
      /\ running \in 1 .. 2 /\ r \in Region /\ Accepted(u) /\ w.s.skip = after
  BY WritingIs
<1>2. /\ e \in Nat /\ len \in Nat /\ wanted \in Nat /\ m \in Nat /\ addr \in Nat /\ done \in Nat
      /\ PAGELEN \in Nat \ {0} /\ fwSize \in Nat \ {0} /\ pos \in Nat /\ left \in Nat
      /\ before \in Nat /\ total \in 0 .. fwSize /\ after \in Nat
  BY WritingIs
<1>3. /\ addr = pos + done /\ m < PAGELEN /\ len <= e
      /\ done + m + wanted = total
      /\ e - len = before + done + m
      /\ wanted = 0 => done = 0
  BY WritingIs
<1>4. done % PAGELEN = 0
  BY WritingIs
<1>5. left <= wanted /\ left <= PAGELEN - m /\ (left = wanted \/ left = PAGELEN - m) /\ left <= len
  OBVIOUS
<1>6. page \in Seq(Bytes) /\ size = m + left /\ \A j \in 1 .. size : page[j] = ByteOf(u, done + j)
  <2> DEFINE x == SubSeq(w.data, 1, left)
  <2>1. x \in Seq(Bytes) /\ Len(x) = left /\ \A i \in 1 .. left : x[i] = w.data[i]
    <3>1. CASE left = 0
      <4>1. x = <<>>
        BY <1>1, <3>1
      <4> QED BY <3>1, <4>1
    <3>2. CASE left # 0
      <4>1. 1 \in 1 .. len + 1 /\ left \in 1 - 1 .. len
        BY <1>2, <1>5, <3>2
      <4> QED BY <1>1, <4>1, SubSeqProperties
    <3> QED BY <3>1, <3>2
  <2>2. page = w.s.pageData \o x
    OBVIOUS
  <2> HIDE DEF x
  <2>3. Len(x) <= w.s.len /\ Len(x) <= Len(w.data)
    BY <2>1
  <2>4. Starts(x, w.data)
    BY <2>1 DEF Starts
  <2>5. x \in Seq(Bytes)
    BY <2>1
  <2>6. Grown(u, w, page, Len(x))
    BY <2>2, <2>3, <2>4, <2>5, PageIs, Zenon
  <2> QED BY <2>1, <2>6 DEF Grown
<1>7. d \in Seq(Bytes) /\ Len(d) = len - left /\ Follows(Body(u), d, e)
  <2>1. left \in 0 .. Len(w.data)
    BY <1>2, <1>5
  <2>2. Follows(Body(u), w.data, e)
    BY DEF InLoop
  <2> QED BY <1>1, <1>2, <2>1, <2>2, RestIs
<1>8. Flashed(w, v, d, gl, next, more, st)
  OBVIOUS
<1>9. /\ st = "WRITE" => wanted > left
      /\ st # "WRITE" => ~(wanted > left)
      /\ st = "SKIP" => w.s.skip # 0
      /\ st \in {"WRITE", "SKIP", "DONE"}
  OBVIOUS
<1>10. next = addr + PAGELEN /\ more = wanted - left
  OBVIOUS
<1>11. PageWritten(gl, w.flash, r, done, page)
  BY <1>3 DEF PageWritten
<1> HIDE DEF m, done, len, d, gl, next, more, rest, before, total, after, wanted, addr, size
<1> HIDE DEF pos
<1> HIDE DEF r
<1>12. done < fwSize /\ done + size <= fwSize /\ size <= PAGELEN /\ size \in Nat /\ size = Len(page)
  <2>1. done < fwSize
    <3>1. CASE wanted = 0
      BY <1>2, <1>3, <3>1
    <3>2. CASE wanted # 0
      BY <1>2, <1>3, <3>2
    <3> QED BY <3>1, <3>2
  <2>2. size = m + left
    BY <1>6
  <2>3. done + size <= fwSize /\ size <= PAGELEN /\ size \in Nat
    BY <1>2, <1>3, <1>5, <2>2
  <2> QED BY <2>1, <2>3 DEF size
<1>13. next \in Nat /\ more \in Nat /\ st \in StateNames /\ next = pos + done + PAGELEN
  <2>1. next \in Nat /\ more \in Nat /\ next = pos + done + PAGELEN
    BY <1>2, <1>3, <1>5, <1>10
  <2> QED BY <1>9, <2>1 DEF StateNames
<1>14. (st = "WRITE" <=> more # 0) /\ (st = "SKIP" => after # 0)
  <2>1. wanted > left <=> more # 0
    BY <1>2, <1>5, <1>10
  <2> QED BY <1>1, <1>9, <2>1
<1>15. gl \in [Addresses -> Bytes] /\ Outside(r, w.flash, gl)
  <2>1. w.flash \in [Addresses -> Bytes] /\ r \in Region /\ done \in Nat /\ page \in Seq(Bytes)
    BY <1>1, <1>2, <1>6
  <2>2. done < fwSize /\ done + Len(page) <= fwSize
    BY <1>12
  <2> QED BY <1>11, <2>1, <2>2, PageKept, Zenon
<1>16. /\ v \in Worlds /\ v.data = d /\ v.flash = gl
       /\ v.s \in States /\ v.s.state = st /\ v.s.skip = w.s.skip /\ v.s.len = more
       /\ v.s.address = next /\ v.s.pageData = <<>>
  <2>1. w \in Worlds /\ d \in Seq(Bytes) /\ gl \in [Addresses -> Bytes]
    BY <1>1, <1>7, <1>15
  <2> QED BY <1>8, <1>13, <2>1, FlashedIs
<1>17. Len(v.s.pageData) = 0 /\ Len(v.data) = len - left /\ rest = before + done + m + left /\ rest \in Nat
  <2>1. Len(v.s.pageData) = 0 /\ Len(v.data) = len - left
    BY <1>7, <1>16
  <2>2. e - (len - left) = before + done + m + left
    BY <1>2, <1>3, <1>5
  <2>3. before + done + m + left \in Nat
    BY <1>2
  <2>4. rest = before + done + m + left
    BY <2>1, <2>2 DEF rest
  <2> QED BY <2>1, <2>3, <2>4
<1>18. Done(u, v.s) = done + PAGELEN
  <2> DEFINE a == v.s.address
  <2>1. a = pos + done + PAGELEN
    BY <1>13, <1>16
  <2> HIDE DEF a
  <2>2. a - pos = done + PAGELEN
    BY <1>2, <2>1
  <2> QED BY <2>2 DEF Done, a, pos, r
<1>19. ASSUME st = "WRITE" PROVE size = PAGELEN /\ Writing(u, v.s, rest)
  <2>1. m + left = PAGELEN
    BY <1>2, <1>5, <1>9, <1>19
  <2>2. (done + PAGELEN) % PAGELEN = 0
    BY <1>2, <1>4, PageInSector
  <2>3. more # 0
    BY <1>14, <1>19
  <2>4. done + PAGELEN + 0 + more = total /\ done + PAGELEN \in Nat
    BY <1>2, <1>3, <1>10, <2>1
  <2>5. rest = before + (done + PAGELEN) + 0
    BY <1>2, <1>17, <2>1
  <2>6. Len(v.s.pageData) = 0 /\ v.s.len = more /\ v.s.skip = after
    BY <1>1, <1>16, <1>17
  <2>7. \A j \in 1 .. Len(v.s.pageData) : v.s.pageData[j] = ByteOf(u, done + PAGELEN + j)
    BY <2>6
  <2>8. v.s.address - fwPos(Target(u)) = done + PAGELEN
    BY <1>18 DEF Done
  <2>9. Writing(u, v.s, rest)
    BY <2>2, <2>3, <2>4, <2>5, <2>6, <2>7, <2>8 DEF Writing, before, total, after
  <2> QED BY <1>6, <2>1, <2>9
<1>20. ASSUME st = "SKIP" PROVE Skipping(u, v.s, rest)
  <2>1. u.file.type = "OTA" /\ running = 2
    BY <1>14, <1>20 DEF After, after
  <2>2. more = 0
    BY <1>14, <1>20
  <2>3. v.s.len = 0 /\ v.s.skip = after
    BY <1>1, <1>16, <2>2
  <2>4. rest + after = before + total + after
    BY <1>2, <1>3, <1>10, <1>17, <2>2
  <2> QED BY <1>16, <2>1, <2>3, <2>4 DEF Skipping, before, total, after
<1>21. Position(u, v.s, rest)
  <2>1. Len(v.s.pageData) < PAGELEN
    BY <1>2, <1>17
  <2> QED BY <1>1, <1>9, <1>16, <1>19, <1>20, <2>1 DEF Position
<1>22. InLoop(u, v, e)
  <2>1. Len(v.data) <= e
    <3> DEFINE ahead == Len(v.data)
    <3>1. ahead = len - left
      BY <1>17
    <3> HIDE DEF ahead
    <3>2. ahead <= e
      BY <1>2, <1>3, <3>1
    <3> QED BY <3>2 DEF ahead
  <2> QED BY <1>7, <1>16, <1>21, <2>1 DEF InLoop, rest
<1>23. Kept(u, w.flash, v.flash)
  BY <1>15, <1>16 DEF Kept, r
<1>24. ASSUME Stored(u, w.s, w.flash) PROVE Stored(u, v.s, v.flash)
  <2>1. Holding(u, done, w.flash) /\ RestErased(r, pos + done, w.flash)
    BY <1>3, <1>24 DEF Stored, Done, done, r, pos, addr
  <2>2. w.flash \in [Addresses -> Bytes] /\ r \in Region /\ done \in Nat /\ page \in Seq(Bytes)
    BY <1>1, <1>2, <1>6
  <2>3. done % PAGELEN = 0 /\ done < fwSize /\ done + Len(page) <= fwSize /\ Len(page) <= PAGELEN
    BY <1>4, <1>12
  <2>7. InFront(r, done, w.flash, gl)
    BY <1>11, <2>2, <2>3, FrontKept, Zenon
  <2>8. IsAt(r, done, page, gl)
    BY <1>11, <2>1, <2>2, <2>3, PageThere, Zenon DEF pos
  <2>4. ASSUME NEW k \in 1 .. done + size PROVE gl[pos + k - 1] = ByteOf(u, k)
    <3>0. pos \in Nat /\ done \in Nat /\ size \in Nat /\ k \in Nat /\ 1 <= k /\ k <= done + size
      <4>1. pos \in Nat /\ done \in Nat /\ size \in Nat
        BY <1>2, <1>12
      <4> QED BY <4>1
    <3>1. CASE k <= done
      <4>1. k \in 1 .. done
        BY <3>0, <3>1
      <4>2. gl[pos + k - 1] = w.flash[pos + k - 1]
        BY <2>7, <4>1 DEF InFront, pos
      <4>3. w.flash[pos + k - 1] = ByteOf(u, k)
        BY <2>1, <4>1 DEF Holding, r, pos
      <4> QED BY <4>2, <4>3
    <3>2. CASE ~(k <= done)
      <4> DEFINE j == k - done
      <4>1. j \in 1 .. size /\ pos + done + j - 1 = pos + k - 1 /\ done + j = k
        BY <3>0, <3>2
      <4> HIDE DEF j
      <4>2. j \in 1 .. Len(page)
        BY <4>1 DEF size
      <4>3. gl[pos + done + j - 1] = page[j]
        BY <2>8, <4>2 DEF IsAt, pos
      <4>4. page[j] = ByteOf(u, done + j)
        BY <1>6, <4>1
      <4> QED BY <4>1, <4>3, <4>4
    <3> QED BY <3>1, <3>2
  <2>5. CASE st = "WRITE"
    <3>1. RestErased(r, pos + done + PAGELEN, gl)
      BY <1>11, <2>1, <2>2, <2>3, RestKept, Zenon DEF pos
    <3>2. size = PAGELEN /\ v.s.address - fwPos(Target(u)) = done + PAGELEN
      BY <1>18, <1>19, <2>5 DEF Done
    <3>3. Holding(u, v.s.address - fwPos(Target(u)), v.flash)
      BY <1>16, <2>4, <3>2 DEF Holding, r, pos, size
    <3>4. RestErased(Target(u), v.s.address, v.flash)
      BY <1>13, <1>16, <3>1 DEF r
    <3> QED BY <1>16, <2>5, <3>3, <3>4 DEF Stored
  <2>6. CASE st # "WRITE"
    <3>1. more = 0 /\ size = m + left
      BY <1>6, <1>14, <2>6
    <3>2. done + size = total
      BY <1>2, <1>3, <1>10, <3>1
    <3>3. Holding(u, total, v.flash)
      BY <1>16, <2>4, <3>2 DEF Holding, r, pos
    <3> QED BY <1>16, <2>6, <3>3 DEF Stored, total
  <2> QED BY <2>5, <2>6
<1>25. Measure(v) < Measure(w)
  <2>1. Measure(v) = 2 * (len - left) + 0
    <3>1. /\ v.s.state # "START" /\ ~(v.s.state = "WRITE" /\ v.s.len = 0)
          /\ ~(v.s.state = "SKIP" /\ v.s.skip = 0)
      BY <1>1, <1>9, <1>14, <1>16
    <3> QED BY <1>17, <3>1 DEF Measure
  <2>2. CASE wanted = 0
    <3>1. Measure(w) = 2 * len + 1
      BY <2>2 DEF Measure, len, wanted
    <3> QED BY <1>2, <1>5, <2>1, <3>1
  <2>3. CASE wanted # 0
    <3>1. left # 0
      BY <1>2, <1>3, <1>5, <2>3
    <3>2. Measure(w) = 2 * len + 0
      BY <2>3 DEF Measure, len, wanted
    <3> QED BY <1>2, <1>5, <2>1, <3>1, <3>2
  <2> QED BY <2>2, <2>3
<1> QED BY <1>22, <1>23, <1>24, <1>25 DEF Keeps

\* A round that writes takes bytes to the page, and flashes it or not.
LEMMA WriteKeeps ==
    ASSUME NEW u, NEW e, Chunk(u, e), NEW w, InLoop(u, w, e), w.s.state = "WRITE", w.data # <<>>
    PROVE  Keeps(u, w, Write(w), e)
<1> DEFINE room == PAGELEN - Len(w.s.pageData)
           left == IF w.s.len < room THEN w.s.len ELSE room
           page == w.s.pageData \o SubSeq(w.data, 1, left)
           st == IF w.s.len > left THEN "WRITE" ELSE IF w.s.skip # 0 THEN "SKIP" ELSE "DONE"
           d == SubSeq(w.data, left + 1, Len(w.data))
           gl == Written(EraseSector(w.flash, w.s.address), w.s.address, page)
           v == Write(w)
<1>1. /\ w \in Worlds /\ w.s.len \in Nat /\ PAGELEN \in Nat /\ Len(w.s.pageData) \in Nat
      /\ Len(w.s.pageData) < PAGELEN /\ Len(w.data) \in Nat
  BY WritingIs
<1>2. room \in Nat
  BY <1>1
<1> DEFINE wanted == w.s.len
<1> HIDE DEF room
<1>3. left \in Nat /\ left <= wanted /\ left <= room /\ (left = wanted \/ left = room)
  <2>1. wanted \in Nat
    BY <1>1
  <2> HIDE DEF wanted
  <2>2. left = IF wanted < room THEN wanted ELSE room
    BY DEF wanted
  <2> HIDE DEF left
  <2> QED BY <1>2, <2>1, <2>2
<1>4. CASE Len(w.data) < left
  <2>1. Paged(w, v, <<>>, w.s.pageData \o w.data, Len(w.data))
    BY <1>1, <1>4 DEF Write, Paged, Worlds, room
  <2>2. Len(w.data) < w.s.len /\ Len(w.data) < PAGELEN - Len(w.s.pageData)
    <3> DEFINE len == Len(w.data)
    <3>1. len \in Nat /\ wanted \in Nat
      BY <1>1
    <3>2. len < left
      BY <1>4
    <3> HIDE DEF len, left, wanted
    <3>3. len < wanted /\ len < room
      BY <1>2, <1>3, <3>1, <3>2
    <3> QED BY <3>3 DEF len, wanted, room
  <2> HIDE DEF v
  <2>3. Keeps(u, w, v, e)
    BY <2>1, <2>2, PageTakes, Zenon
  <2> QED BY <2>3 DEF v
<1>5. CASE ~(Len(w.data) < left)
  <2>1. Flashed(w, v, d, gl, w.s.address + PAGELEN, w.s.len - left, st)
    BY <1>1, <1>5 DEF Write, Flashed, Worlds, room
  <2>2. left <= Len(w.data)
    <3> HIDE DEF left
    <3> QED BY <1>1, <1>3, <1>5
  <2>3. left \in Nat /\ left <= w.s.len /\ left <= PAGELEN - Len(w.s.pageData)
        /\ (left = w.s.len \/ left = PAGELEN - Len(w.s.pageData))
    BY <1>3 DEF room
  <2>4. page = w.s.pageData \o SubSeq(w.data, 1, left)
    OBVIOUS
  <2>5. st = IF w.s.len > left THEN "WRITE" ELSE IF w.s.skip # 0 THEN "SKIP" ELSE "DONE"
    OBVIOUS
  <2>6. Flashed(w, v, SubSeq(w.data, left + 1, Len(w.data)),
                Written(EraseSector(w.flash, w.s.address), w.s.address, page),
                w.s.address + PAGELEN, w.s.len - left, st)
    BY <2>1
  <2> HIDE DEF v, st, page, left
  <2>7. Keeps(u, w, v, e)
    BY <2>2, <2>3, <2>4, <2>5, <2>6, PageFlashes, Zenon
  <2> QED BY <2>7 DEF v
<1> QED BY <1>4, <1>5

\* Every round keeps what there is to be kept.
LEMMA RoundKeeps ==
    ASSUME NEW u, NEW e, Chunk(u, e), NEW w, InLoop(u, w, e), w.data # <<>>
    PROVE  Keeps(u, w, Round(w, u), e)
<1>1. CASE w.s.state = "START"
  <2>1. Round(w, u) = Header(w, u)
    BY <1>1 DEF Round
  <2> QED BY <1>1, <2>1, HeaderKeeps
<1>2. CASE w.s.state = "SKIP"
  <2>1. Round(w, u) = Skip(w)
    BY <1>2 DEF Round
  <2> QED BY <1>2, <2>1, SkipKeeps
<1>3. CASE w.s.state = "WRITE"
  <2>1. Round(w, u) = Write(w)
    BY <1>3 DEF Round
  <2> QED BY <1>3, <2>1, WriteKeeps
<1>4. CASE w.s.state \notin {"START", "SKIP", "WRITE"}
  <2> DEFINE d == <<>>
             v == [w EXCEPT !.data = d]
  <2>1. Round(w, u) = v
    BY <1>4 DEF Round
  <2>2. w \in Worlds /\ d \in Seq(Bytes) /\ Len(d) = 0 /\ e \in Nat /\ w.data \in Seq(Bytes)
        /\ Position(u, w.s, e - Len(w.data))
    BY DEF InLoop, Chunk, Worlds
  <2> HIDE DEF d
  <2>3. v \in Worlds /\ v.s = w.s /\ v.data = d /\ v.flash = w.flash
    BY <2>2 DEF Worlds
  <2> HIDE DEF v
  <2>4. Position(u, v.s, e)
    BY <1>4, <2>2, <2>3 DEF Position
  <2>5. Len(v.data) = 0 /\ e - Len(v.data) = e
    BY <2>2, <2>3
  <2>6. Len(w.data) \in Nat \ {0}
    BY <2>2
  <2>7. InLoop(u, v, e)
    BY <2>2, <2>3, <2>4, <2>5 DEF InLoop, Follows
  <2>8. Measure(v) < Measure(w)
    <3>1. Measure(v) = 2 * 0 + 0 /\ Measure(w) = 2 * Len(w.data) + 0
      BY <1>4, <2>3, <2>5 DEF Measure
    <3> QED BY <2>6, <3>1
  <2>9. Keeps(u, w, v, e)
    BY <2>3, <2>7, <2>8 DEF Keeps, Kept, Outside
  <2> QED BY <2>1, <2>9
<1> QED BY <1>1, <1>2, <1>3, <1>4
-----------------------------------------------------------------------------
(* The loop.  Induction over its rounds is a look at a least one that goes *)
(* wrong.                                                                  *)

\* A set of numbers has a least one.
LEMMA LeastExists ==
    ASSUME NEW T, T \subseteq Nat, T # {}
    PROVE  \E x \in T : \A y \in T : x <= y
<1> DEFINE R == OpToRel(<, Nat)
<1>1. IsWellFoundedOn(R, Nat)
  BY NatLessThanWellFounded
<1>2. \A x, y \in Nat : <<y, x>> \in R <=> y < x
  BY DEF OpToRel
<1> HIDE DEF R
<1>3. PICK x \in T : \A y \in T : ~ (<<y, x>> \in R)
  BY <1>1, WFMin
<1>4. ASSUME NEW y \in T PROVE x <= y
  <2>1. x \in Nat /\ y \in Nat
    OBVIOUS
  <2>2. ~(y < x)
    BY <1>2, <1>3, <2>1, Zenon
  <2> QED BY <2>1, <2>2
<1> QED BY <1>3, <1>4

\* The worlds after each of n rounds.
Rounds(f, w, u, n) == f = [i \in 0 .. n |-> IF i = 0 THEN w ELSE Loop(f[i - 1], u)]

\* There is such a function.
LEMMA RoundsExist ==
    ASSUME NEW w, NEW u, NEW n \in Nat
    PROVE  \E f : Rounds(f, w, u, n)
<1> DEFINE Fits(f, m) == f = [i \in 0 .. m |-> IF i = 0 THEN w ELSE Loop(f[i - 1], u)]
           Unfit == {m \in 0 .. n : ~ \E f : Fits(f, m)}
<1> SUFFICES ASSUME Unfit # {} PROVE FALSE
  <2>1. n \in 0 .. n
    OBVIOUS
  <2> QED BY <2>1 DEF Rounds
<1>1. PICK m \in Unfit : \A k \in Unfit : m <= k
  <2>1. Unfit \subseteq Nat
    OBVIOUS
  <2> HIDE DEF Unfit
  <2> QED BY <2>1, LeastExists
<1>2. m # 0
  <2>1. Fits([i \in 0 .. 0 |-> w], 0)
    OBVIOUS
  <2> QED BY <2>1
<1>3. m \in Nat /\ m \in 1 .. n /\ m - 1 \in 0 .. n /\ ~(m <= m - 1)
  BY <1>2
<1>4. PICK f : Fits(f, m - 1)
  <2>1. m - 1 \notin Unfit
    <3> HIDE DEF Unfit
    <3> QED BY <1>1, <1>3
  <2> QED BY <1>3, <2>1
<1> DEFINE next == Loop(f[m - 1], u)
           g == [i \in 0 .. m |-> IF i = m THEN next ELSE f[i]]
<1>5. \A i \in 0 .. m : g[i] = IF i = m THEN next ELSE f[i]
  OBVIOUS
<1>6. \A i \in 0 .. m - 1 : f[i] = IF i = 0 THEN w ELSE Loop(f[i - 1], u)
  BY <1>4
<1>7. next = Loop(f[m - 1], u)
  OBVIOUS
<1>8. g = [i \in 0 .. m |-> g[i]]
  OBVIOUS
<1> HIDE DEF g, next
<1>9. ASSUME NEW i \in 0 .. m PROVE g[i] = IF i = 0 THEN w ELSE Loop(g[i - 1], u)
  <2>1. CASE i = m
    <3>1. g[i] = next /\ g[i - 1] = f[m - 1] /\ i # 0
      BY <1>2, <1>3, <1>5, <2>1
    <3> QED BY <1>7, <3>1
  <2>2. CASE i # m /\ i # 0
    <3>1. i \in 0 .. m - 1 /\ g[i] = f[i] /\ g[i - 1] = f[i - 1]
      BY <1>3, <1>5, <2>2
    <3> QED BY <1>6, <2>2, <3>1
  <2>3. CASE i # m /\ i = 0
    <3>1. i \in 0 .. m - 1 /\ g[i] = f[i]
      BY <1>3, <1>5, <2>3
    <3> QED BY <1>6, <2>3, <3>1
  <2> QED BY <2>1, <2>2, <2>3
<1>10. Fits(g, m)
  BY <1>8, <1>9
<1> QED BY <1>1, <1>10

\* A world that the loop can have after i rounds.
Reached(u, w, v, e, i) ==
    /\ InLoop(u, v, e) /\ Kept(u, w.flash, v.flash)
    /\ Stored(u, w.s, w.flash) => Stored(u, v.s, v.flash)
    /\ v.data = <<>> \/ Measure(v) + i <= Measure(w)

\* A measure is a number.
LEMMA MeasureIs ==
    ASSUME NEW u, NEW e, NEW w, InLoop(u, w, e)
    PROVE  Measure(w) \in Nat /\ Measure(w) <= 2 * Len(w.data) + 3 /\ (w.data # <<>> => Measure(w) >= 2)
<1>1. w.data \in Seq(Bytes) /\ Len(w.data) \in Nat
  BY DEF InLoop, Worlds
<1>2. w.data # <<>> => Len(w.data) # 0
  BY <1>1
<1> DEFINE n == IF w.s.state = "START" THEN 3
                ELSE IF (w.s.state = "WRITE" /\ w.s.len = 0) \/ (w.s.state = "SKIP" /\ w.s.skip = 0)
                THEN 1 ELSE 0
<1>3. n \in 0 .. 3 /\ Measure(w) = 2 * Len(w.data) + n
  BY DEF Measure
<1> HIDE DEF n
<1> QED BY <1>1, <1>2, <1>3

\* From such a world, one more round leads to such a world.
LEMMA LoopKeeps ==
    ASSUME NEW u, NEW e, Chunk(u, e), NEW w, InLoop(u, w, e), NEW v, NEW i \in Nat, Reached(u, w, v, e, i)
    PROVE  Reached(u, w, Loop(v, u), e, i + 1)
<1>1. CASE v.data = <<>>
  <2>1. Loop(v, u) = v
    BY <1>1 DEF Loop
  <2> QED BY <1>1, <2>1 DEF Reached
<1>2. CASE v.data # <<>>
  <2> DEFINE x == Loop(v, u)
  <2>1. x = Round(v, u)
    BY <1>2 DEF Loop
  <2>2. InLoop(u, v, e)
    BY DEF Reached
  <2> HIDE DEF x
  <2>3. Keeps(u, v, x, e)
    BY <1>2, <2>1, <2>2, RoundKeeps
  <2>4. InLoop(u, x, e) /\ Kept(u, v.flash, x.flash) /\ (Stored(u, v.s, v.flash) => Stored(u, x.s, x.flash))
        /\ Measure(x) < Measure(v)
    BY <2>3 DEF Keeps
  <2>5. Kept(u, w.flash, x.flash)
    BY <2>4 DEF Reached, Kept, Outside
  <2>6. Measure(x) + (i + 1) <= Measure(w)
    <3> DEFINE mx == Measure(x)
               mv == Measure(v)
               mw == Measure(w)
    <3>1. mx \in Nat /\ mv \in Nat /\ mw \in Nat
      BY <2>2, <2>4, MeasureIs
    <3>2. mx < mv /\ mv + i <= mw
      BY <1>2, <2>4 DEF Reached
    <3> HIDE DEF mx, mv, mw
    <3>3. mx + (i + 1) <= mw
      BY <3>1, <3>2
    <3> QED BY <3>3 DEF mx, mw
  <2>7. Reached(u, w, x, e, i + 1)
    BY <2>4, <2>5, <2>6 DEF Reached
  <2> QED BY <2>7 DEF x
<1> QED BY <1>1, <1>2

\* The loop takes the whole chunk.  What it leaves stands at the chunk's end, and
\* what was stored is, and nothing is written elsewhere.
LEMMA ChunkTaken ==
    ASSUME NEW u, NEW e, Chunk(u, e), NEW w, InLoop(u, w, e)
    PROVE  LET v == cgiUploadFirmware(w, u)
           IN  /\ v.s \in States /\ v.flash \in [Addresses -> Bytes] /\ Position(u, v.s, e)
               /\ Outside(Target(u), w.flash, v.flash)
               /\ Stored(u, w.s, w.flash) => Stored(u, v.s, v.flash)
<1> DEFINE rounds == 2 * Len(w.data) + 3
           after == CHOOSE f : Rounds(f, w, u, rounds)
           v == cgiUploadFirmware(w, u)
<1>1. e \in Nat /\ w.data \in Seq(Bytes) /\ rounds \in Nat
  BY DEF InLoop, Worlds, Chunk
<1>2. v = after[rounds]
  BY DEF cgiUploadFirmware, Rounds
<1> HIDE DEF rounds, v
<1>3. \E f : Rounds(f, w, u, rounds)
  BY <1>1, RoundsExist
<1>4. Rounds(after, w, u, rounds)
  BY <1>3, Zenon
<1> HIDE DEF after
<1>5. \A i \in 0 .. rounds : after[i] = IF i = 0 THEN w ELSE Loop(after[i - 1], u)
  BY <1>4 DEF Rounds
<1>6. Reached(u, w, after[0], e, 0)
  <2>1. after[0] = w /\ Measure(w) \in Nat
    BY <1>1, <1>5, MeasureIs
  <2> QED BY <2>1 DEF Reached, Kept, Outside
<1> DEFINE Bad == {i \in 0 .. rounds : ~Reached(u, w, after[i], e, i)}
<1>7. Bad = {}
  <2> SUFFICES ASSUME Bad # {} PROVE FALSE
    OBVIOUS
  <2>1. PICK m \in Bad : \A k \in Bad : m <= k
    <3>1. Bad \subseteq Nat
      OBVIOUS
    <3> HIDE DEF Bad
    <3> QED BY <3>1, LeastExists
  <2>2. m \in 0 .. rounds /\ ~Reached(u, w, after[m], e, m) /\ m # 0
    BY <1>6
  <2> DEFINE n == m - 1
  <2>3. n \in Nat /\ n \in 0 .. rounds /\ n + 1 = m /\ ~(m <= n)
    BY <1>1, <2>2
  <2>4. n \notin Bad
    <3> HIDE DEF Bad, n
    <3> QED BY <2>1, <2>3
  <2>5. after[m] = Loop(after[n], u)
    BY <1>5, <2>2
  <2> HIDE DEF n
  <2>6. Reached(u, w, after[n], e, n)
    BY <2>3, <2>4
  <2>7. Reached(u, w, Loop(after[n], u), e, n + 1)
    BY <2>3, <2>6, LoopKeeps
  <2> QED BY <2>2, <2>3, <2>5, <2>7
<1>8. Reached(u, w, v, e, rounds)
  <2>1. rounds \in 0 .. rounds
    BY <1>1
  <2> QED BY <1>2, <1>7, <2>1
<1>9. v.data = <<>>
  <2> SUFFICES ASSUME v.data # <<>> PROVE FALSE
    OBVIOUS
  <2> DEFINE mv == Measure(v)
             mw == Measure(w)
  <2>1. InLoop(u, v, e) /\ mv + rounds <= mw
    BY <1>8 DEF Reached
  <2>2. mv \in Nat /\ mv >= 2 /\ mw \in Nat /\ mw <= rounds
    BY <2>1, MeasureIs DEF rounds
  <2> HIDE DEF mv, mw
  <2> QED BY <1>1, <2>1, <2>2
<1>10. v \in Worlds /\ Position(u, v.s, e)
  <2>1. v \in Worlds /\ Position(u, v.s, e - Len(v.data))
    BY <1>8 DEF Reached, InLoop
  <2>2. e - Len(v.data) = e
    BY <1>1, <1>9
  <2> QED BY <2>1, <2>2
<1>11. v.s \in States /\ v.flash \in [Addresses -> Bytes]
  BY <1>10 DEF Worlds
<1> QED BY <1>8, <1>10, <1>11 DEF Reached, Kept, v
-----------------------------------------------------------------------------
(* Regions and uploads.                                                    *)

\* A cell of one region is of no other.
LEMMA RegionsApart ==
    ASSUME NEW r \in Region, NEW q \in Region, r # q, NEW a \in Cells(r)
    PROVE  a \in Addresses \ Cells(q)
<1>1. fwSize \in Nat \ {0}
  BY UploadAssumption
<1>2. fwPos(1) = 0 /\ fwPos(2) = fwSize /\ fwPos(3) = fwSize + fwSize
  BY <1>1 DEF fwPos
<1>3. a \in Addresses
  BY DEF Addresses
<1>4. a \notin Cells(q)
  <2>1. r \in {1, 2, 3} /\ q \in {1, 2, 3} /\ r # q
    BY DEF Region
  <2>2. CASE r = 1
    <3>1. a \in 0 .. fwSize - 1
      BY <1>1, <1>2, <2>2 DEF Cells
    <3> QED BY <1>1, <1>2, <2>1, <2>2, <3>1 DEF Cells
  <2>3. CASE r = 2
    <3>1. a \in fwSize .. fwSize + fwSize - 1
      BY <1>1, <1>2, <2>3 DEF Cells
    <3> QED BY <1>1, <1>2, <2>1, <2>3, <3>1 DEF Cells
  <2>4. CASE r = 3
    <3>1. a \in fwSize + fwSize .. fwSize + fwSize + fwSize - 1
      BY <1>1, <1>2, <2>4 DEF Cells
    <3> QED BY <1>1, <1>2, <2>1, <2>4, <3>1 DEF Cells
  <2> QED BY <2>1, <2>2, <2>3, <2>4
<1> QED BY <1>3, <1>4

\* The first fwSize bytes of a region are its cells.
LEMMA CellIs ==
    ASSUME NEW r \in Region, NEW k \in 1 .. fwSize
    PROVE  fwPos(r) + k - 1 \in Cells(r)
<1>1. fwPos(r) \in Nat /\ fwSize \in Nat
  BY RegionInSectors, UploadAssumption
<1> DEFINE p == fwPos(r)
<1>2. p \in Nat
  BY <1>1
<1> HIDE DEF p
<1>3. p + k - 1 \in p .. p + fwSize - 1
  BY <1>1, <1>2
<1> QED BY <1>3 DEF p, Cells

\* What a region holds is not touched by a write to another one,
LEMMA HoldsKept ==
    ASSUME NEW fl, NEW gl, NEW r \in Region, NEW q \in Region, r # q, Outside(q, fl, gl),
           NEW f \in Files \cup {Factory}, HoldsIn(fl, r, f)
    PROVE  HoldsIn(gl, r, f)
<1> SUFFICES ASSUME NEW k \in 1 .. PartLen(f, r)
             PROVE  gl[fwPos(r) + k - 1] = [file |-> f, part |-> r, k |-> k]
  BY DEF HoldsIn
<1> DEFINE n == PartLen(f, r)
<1>1. n \in Nat /\ n <= fwSize /\ fwSize \in Nat /\ MadeFor(f, r)
  BY FileIs DEF PartLen, HoldsIn
<1>2. k \in 1 .. fwSize
  <2>1. k \in 1 .. n
    OBVIOUS
  <2> HIDE DEF n
  <2> QED BY <1>1, <2>1
<1> DEFINE a == fwPos(r) + k - 1
<1>3. a \in Cells(r)
  BY <1>2, CellIs
<1>4. fl[a] = [file |-> f, part |-> r, k |-> k]
  BY DEF HoldsIn
<1> HIDE DEF a
<1>5. a \in Addresses \ Cells(q)
  BY <1>3, RegionsApart
<1>6. gl[a] = fl[a]
  BY <1>5 DEF Outside
<1> QED BY <1>4, <1>6 DEF a

\* nor is what an upload to another region has stored.
LEMMA StoredKept ==
    ASSUME NEW u, Known(u), NEW s, NEW n, Position(u, s, n), NEW q \in Region, q # Target(u),
           NEW fl, NEW gl, Outside(q, fl, gl), Stored(u, s, fl)
    PROVE  Stored(u, s, gl)
<1> SUFFICES ASSUME s.state \in {"WRITE", "SKIP", "DONE"} PROVE Stored(u, s, gl)
  BY DEF Stored
<1>1. Target(u) \in Region /\ Length(u) \in 0 .. fwSize /\ fwSize \in Nat
  <2>1. running \in 1 .. 2 /\ u.file \in Files /\ Accepted(u)
    BY DEF Known, Position
  <2>2. Length(u) \in 0 .. fwSize
    BY <2>1, FitsRegion
  <2> QED BY <2>1, <2>2, UploadAssumption DEF Target, Region
<1>2. ASSUME NEW m, m \in Nat, m <= Length(u), Holding(u, m, fl) PROVE Holding(u, m, gl)
  <2> SUFFICES ASSUME NEW k \in 1 .. m PROVE gl[fwPos(Target(u)) + k - 1] = ByteOf(u, k)
    BY DEF Holding
  <2>1. k \in 1 .. fwSize
    <3> DEFINE l == Length(u)
    <3>1. l \in 0 .. fwSize /\ m <= l
      BY <1>1, <1>2
    <3> HIDE DEF l
    <3> QED BY <1>1, <1>2, <3>1
  <2> DEFINE a == fwPos(Target(u)) + k - 1
  <2>2. a \in Cells(Target(u))
    BY <1>1, <2>1, CellIs
  <2>3. fl[a] = ByteOf(u, k)
    BY <1>2 DEF Holding
  <2> HIDE DEF a
  <2>4. a \in Addresses \ Cells(q)
    BY <1>1, <2>2, RegionsApart
  <2>5. gl[a] = fl[a]
    BY <2>4 DEF Outside
  <2> QED BY <2>3, <2>5 DEF a
<1>3. ASSUME NEW address, RestErased(Target(u), address, fl) PROVE RestErased(Target(u), address, gl)
  <2>1. \A a \in Cells(Target(u)) : gl[a] = fl[a]
    BY <1>1, RegionsApart DEF Outside
  <2> QED BY <1>3, <2>1 DEF RestErased
<1>4. CASE s.state = "WRITE"
  <2> DEFINE done == s.address - fwPos(Target(u))
             m == Len(s.pageData)
             len == s.len
             l == Length(u)
  <2>1. done \in Nat /\ m \in Nat /\ len \in Nat /\ done + m + len = l /\ l \in Nat
    <3>1. s.pageData \in Seq(Bytes) /\ len \in Nat
      BY DEF Position, States
    <3> QED BY <1>1, <1>4, <3>1 DEF Position, Writing
  <2>2. Holding(u, done, fl) /\ RestErased(Target(u), s.address, fl)
    BY <1>4 DEF Stored
  <2>3. done <= l
    <3> HIDE DEF done, m, len, l
    <3> QED BY <2>1
  <2>4. Holding(u, done, gl)
    BY <1>2, <2>1, <2>2, <2>3
  <2>5. RestErased(Target(u), s.address, gl)
    BY <1>3, <2>2
  <2> QED BY <1>4, <2>4, <2>5 DEF Stored
<1>5. CASE s.state # "WRITE"
  <2>1. Length(u) \in Nat /\ Length(u) <= Length(u)
    BY <1>1
  <2>2. Holding(u, Length(u), fl) => Holding(u, Length(u), gl)
    BY <1>2, <2>1
  <2> QED BY <1>5, <2>2 DEF Stored
<1> QED BY <1>4, <1>5

\* A part of a file has its length.
LEMMA PartHas ==
    ASSUME NEW f \in Files \cup {Factory}, NEW r \in 0 .. 3, NEW n \in Nat
    PROVE  Part(f, r, n) \in Seq(Bytes) /\ Len(Part(f, r, n)) = n
BY PartIs

\* Any upload has a number of bytes.
LEMMA TotalIs ==
    ASSUME NEW u \in Uploads
    PROVE  PostTotal(u) \in Nat
<1> DEFINE f == u.file
           p0 == Part(f, 0, HeaderSize)
           p1 == Part(f, 1, f.len1)
           p2 == Part(f, 2, f.len2)
           ota == (p0 \o p1) \o p2
           bin == Part(f, u.part, f.len1)
           one == Part(f, 3, f.len1)
           all == IF f.type = "OTA" THEN ota ELSE IF f.type = "BIN" THEN bin ELSE one
<1>1. f \in Files \cup {Factory} /\ u.part \in 1 .. 2
  BY DEF Uploads
<1>2. /\ f.len1 \in Nat /\ f.len2 \in Nat /\ f.size \in Nat \ {0} /\ HeaderSize \in Nat
      /\ f.type = "OTA" => f.size \in HeaderSize .. HeaderSize + f.len1 + f.len2
      /\ f.type # "OTA" => f.size = f.len1
  BY <1>1, FileIs
<1>3. /\ p0 \in Seq(Bytes) /\ Len(p0) = HeaderSize /\ p1 \in Seq(Bytes) /\ Len(p1) = f.len1
      /\ p2 \in Seq(Bytes) /\ Len(p2) = f.len2 /\ bin \in Seq(Bytes) /\ Len(bin) = f.len1
      /\ one \in Seq(Bytes) /\ Len(one) = f.len1
  <2>1. 0 \in 0 .. 3 /\ 1 \in 0 .. 3 /\ 2 \in 0 .. 3 /\ 3 \in 0 .. 3 /\ u.part \in 0 .. 3
    BY <1>1
  <2>2. p0 \in Seq(Bytes) /\ Len(p0) = HeaderSize
    <3>1. f \in Files \cup {Factory} /\ 0 \in 0 .. 3 /\ HeaderSize \in Nat
      BY <1>1, <1>2, <2>1
    <3> HIDE DEF f
    <3> QED BY <3>1, PartHas, Zenon
  <2>3. p1 \in Seq(Bytes) /\ Len(p1) = f.len1
    <3>1. f \in Files \cup {Factory} /\ 1 \in 0 .. 3 /\ f.len1 \in Nat
      BY <1>1, <1>2, <2>1
    <3> HIDE DEF f
    <3> QED BY <3>1, PartHas, Zenon
  <2>4. p2 \in Seq(Bytes) /\ Len(p2) = f.len2
    <3>1. f \in Files \cup {Factory} /\ 2 \in 0 .. 3 /\ f.len2 \in Nat
      BY <1>1, <1>2, <2>1
    <3> HIDE DEF f
    <3> QED BY <3>1, PartHas, Zenon
  <2>5. bin \in Seq(Bytes) /\ Len(bin) = f.len1
    <3>1. f \in Files \cup {Factory} /\ u.part \in 0 .. 3 /\ f.len1 \in Nat
      BY <1>1, <1>2, <2>1
    <3> HIDE DEF f
    <3>2. bin \in Seq(Bytes)
      BY <3>1, PartHas, Zenon
    <3>3. Len(bin) = f.len1
      BY <3>1, PartHas, Zenon
    <3> QED BY <3>2, <3>3
  <2>6. one \in Seq(Bytes) /\ Len(one) = f.len1
    <3>1. f \in Files \cup {Factory} /\ 3 \in 0 .. 3 /\ f.len1 \in Nat
      BY <1>1, <1>2, <2>1
    <3> HIDE DEF f
    <3>2. one \in Seq(Bytes)
      BY <3>1, PartHas, Zenon
    <3>3. Len(one) = f.len1
      BY <3>1, PartHas, Zenon
    <3> QED BY <3>2, <3>3
  <2> QED BY <2>2, <2>3, <2>4, <2>5, <2>6
<1>4. Body(u) = SubSeq(all, 1, f.size)
  BY DEF Body
<1> HIDE DEF p0, p1, p2, bin, one
<1>5. ota \in Seq(Bytes) /\ Len(ota) = HeaderSize + f.len1 + f.len2
  <2> DEFINE p01 == p0 \o p1
  <2>1. p01 \in Seq(Bytes) /\ Len(p01) = HeaderSize + f.len1
    BY <1>3, ConcatProperties
  <2> HIDE DEF p01
  <2> DEFINE p == p01 \o p2
             n1 == f.len1
             n2 == f.len2
  <2>2. p \in Seq(Bytes) /\ Len(p) = Len(p01) + Len(p2)
    BY <1>3, <2>1, ConcatProperties
  <2>3. n1 \in Nat /\ n2 \in Nat /\ HeaderSize \in Nat /\ Len(p01) = HeaderSize + n1 /\ Len(p2) = n2
    BY <1>2, <1>3, <2>1
  <2> HIDE DEF p, n1, n2
  <2>4. p \in Seq(Bytes) /\ Len(p) = HeaderSize + n1 + n2
    BY <2>2, <2>3
  <2> QED BY <2>4 DEF p01, p, n1, n2
<1> HIDE DEF ota
<1>6. all \in Seq(Bytes) /\ f.size <= Len(all)
  <2> DEFINE size == f.size
             l1 == f.len1
             l2 == f.len2
  <2>1. f.type = "OTA" => size <= HeaderSize + l1 + l2
    BY <1>2
  <2>2. f.type # "OTA" => size <= l1
    BY <1>2
  <2> QED BY <1>3, <1>5, <2>1, <2>2
<1> HIDE DEF all
<1>7. Body(u) \in Seq(Bytes)
  BY <1>2, <1>4, <1>6, SubSeqProperties
<1> QED BY <1>7 DEF PostTotal

\* The state of an upload that has received nothing.
LEMMA StateIs == State \in States /\ State.state = "START" /\ State.pageData = <<>>
<1> DEFINE st == "START"
           page == <<>>
           zero == 0
<1>1. st \in StateNames /\ page \in Seq(Bytes) /\ zero \in Nat
  BY DEF StateNames
<1>2. State = [state |-> st, pageData |-> page, address |-> zero, len |-> zero, skip |-> zero]
  BY DEF State
<1> HIDE DEF st, page, zero
<1>3. State \in States /\ State.state = st /\ State.pageData = page
  BY <1>1, <1>2 DEF States, StateNames
<1> QED BY <1>3 DEF st, page

\* An upload of these.
Made(u, at, f, part, def, force, shared, n, s, result) ==
    u = [at |-> at, file |-> f, part |-> part, def |-> def, force |-> force,
         shared |-> shared, received |-> n, s |-> s, result |-> result]

Ats == {"idle", "posting"}
Parts == 1 .. 2
Results == {"none", "ok", "refused", "premature end"}

\* These are what an upload is made of.
Fields(at, f, part, def, force, shared, n, s, result) ==
    /\ at \in Ats /\ f \in Files \cup {Factory} /\ part \in Parts /\ def \in Url
    /\ force \in BOOLEAN /\ shared \in BOOLEAN /\ n \in Nat /\ s \in States /\ result \in Results

\* An upload has these.
Has(u, at, f, part, def, shared, n, s) ==
    /\ u \in Uploads /\ u.at = at /\ u.file = f /\ u.part = part /\ u.def = def
    /\ u.shared = shared /\ u.received = n /\ u.s = s

\* An upload of a connection's fields has them.
LEMMA MadeIs ==
    ASSUME NEW at, NEW f, NEW part, NEW def, NEW force, NEW shared, NEW n, NEW s, NEW result,
           Fields(at, f, part, def, force, shared, n, s, result),
           NEW u, Made(u, at, f, part, def, force, shared, n, s, result)
    PROVE  Has(u, at, f, part, def, shared, n, s)
<1> DEFINE AF == Files \cup {Factory}
           B == BOOLEAN
           N == Nat
<1>1. /\ at \in Ats /\ f \in AF /\ part \in Parts /\ def \in Url /\ force \in B /\ shared \in B
      /\ n \in N /\ s \in States /\ result \in Results
  BY DEF Fields
<1>2. Uploads = [at : Ats, file : AF, part : Parts, def : Url, force : B, shared : B, received : N,
                 s : States, result : Results]
  BY DEF Uploads, Ats, Parts, Results
<1>3. u = [at |-> at, file |-> f, part |-> part, def |-> def, force |-> force,
           shared |-> shared, received |-> n, s |-> s, result |-> result]
  BY DEF Made
<1> HIDE DEF AF, B, N
<1>4. u \in Uploads
  <2>1. [at |-> at, file |-> f, part |-> part, def |-> def, force |-> force,
         shared |-> shared, received |-> n, s |-> s, result |-> result]
           \in [at : Ats, file : AF, part : Parts, def : Url, force : B, shared : B, received : N,
                s : States, result : Results]
    BY <1>1
  <2> QED BY <2>1, <1>2, <1>3, Zenon
<1>5. u.at = at
  BY <1>3
<1>6. u.file = f /\ u.part = part /\ u.def = def
  BY <1>3
<1>7. u.shared = shared /\ u.received = n /\ u.s = s
  BY <1>3
<1> QED BY <1>4, <1>5, <1>6, <1>7 DEF Has

\* A connection that carries no upload.
LEMMA NoUploadIs ==
    NoUpload \in Uploads /\ NoUpload.at # "posting" /\ NoUpload.received <= PostTotal(NoUpload)
    /\ Len(NoUpload.s.pageData) < PAGELEN
<1> DEFINE at == "idle"
           part == 1
           def == "FW"
           no == FALSE
           zero == 0
           result == "none"
<1>1. Fields(at, Factory, part, def, no, no, zero, State, result) /\ at # "posting"
  BY StateIs DEF Fields, Ats, Parts, Url, Results
<1>2. Made(NoUpload, at, Factory, part, def, no, no, zero, State, result)
  BY DEF NoUpload, Made
<1>3. Len(State.pageData) < PAGELEN
  <2>1. PAGELEN \in Nat \ {0} /\ Len(State.pageData) = 0
    BY StateIs, UploadAssumption
  <2> QED BY <2>1
<1> DEFINE u == NoUpload
<1> HIDE DEF at, part, def, no, zero, result, u
<1>4. u \in Uploads /\ u.at = at /\ u.received = zero /\ u.s = State
  <2>1. Has(u, at, Factory, part, def, no, zero, State)
    BY <1>1, <1>2, MadeIs, Zenon DEF u
  <2> QED BY <2>1 DEF Has
<1>5. u.received <= PostTotal(u)
  <2>1. PostTotal(u) \in Nat
    BY <1>4, TotalIs
  <2>2. u.received = 0
    BY <1>4 DEF zero
  <2> QED BY <2>1, <2>2
<1> QED BY <1>1, <1>3, <1>4, <1>5 DEF u

\* Upload u begins, of file f to a url.
Begins(u, f, part, def, force, shared) ==
    u = [NoUpload EXCEPT !.at = "posting", !.file = f, !.part = part,
                         !.def = def, !.force = force, !.shared = shared]

\* An upload that begins has received nothing.
LEMMA NewIs ==
    ASSUME NEW f \in Files, NEW part \in Parts, NEW def \in Url, NEW force \in BOOLEAN, NEW shared \in BOOLEAN,
           NEW u, Begins(u, f, part, def, force, shared)
    PROVE  /\ u \in Uploads /\ u.at = "posting" /\ u.file = f /\ u.part = part /\ u.def = def
           /\ u.shared = shared /\ u.received = 0 /\ u.s = State
<1> DEFINE at == "posting"
           zero == 0
           result == "none"
<1>1. Fields(at, f, part, def, force, shared, zero, State, result)
  BY StateIs DEF Fields, Ats, Results
<1>2. Made(u, at, f, part, def, force, shared, zero, State, result)
  BY DEF NoUpload, Made, Begins
<1> HIDE DEF at, zero, result
<1>3. Has(u, at, f, part, def, shared, zero, State)
  BY <1>1, <1>2, MadeIs, Zenon
<1> QED BY <1>3 DEF Has, at, zero

\* An upload is the record of its fields.
LEMMA FieldsAre ==
    ASSUME NEW u \in Uploads
    PROVE  /\ Fields(u.at, u.file, u.part, u.def, u.force, u.shared, u.received, u.s, u.result)
           /\ Made(u, u.at, u.file, u.part, u.def, u.force, u.shared, u.received, u.s, u.result)
<1>1. Fields(u.at, u.file, u.part, u.def, u.force, u.shared, u.received, u.s, u.result)
  BY DEF Fields, Uploads, Ats, Parts, Results
<1>2. Made(u, u.at, u.file, u.part, u.def, u.force, u.shared, u.received, u.s, u.result)
  BY DEF Uploads, Made
<1> QED BY <1>1, <1>2

\* An upload that learns of another one.
LEMMA SharedIs ==
    ASSUME NEW u \in Uploads, NEW v, v = [u EXCEPT !.shared = TRUE]
    PROVE  /\ v \in Uploads /\ v.at = u.at /\ v.file = u.file /\ v.part = u.part /\ v.def = u.def
           /\ v.shared = TRUE /\ v.received = u.received /\ v.s = u.s
<1> DEFINE yes == TRUE
<1>1. Made(v, u.at, u.file, u.part, u.def, u.force, yes, u.received, u.s, u.result)
  <2>1. u = [at |-> u.at, file |-> u.file, part |-> u.part, def |-> u.def, force |-> u.force,
             shared |-> u.shared, received |-> u.received, s |-> u.s, result |-> u.result]
    BY FieldsAre DEF Made
  <2>2. v = [[at |-> u.at, file |-> u.file, part |-> u.part, def |-> u.def, force |-> u.force,
              shared |-> u.shared, received |-> u.received, s |-> u.s, result |-> u.result] EXCEPT !.shared = yes]
    BY <2>1
  <2> QED BY ONLY <2>2 DEF Made
<1>2. Fields(u.at, u.file, u.part, u.def, u.force, yes, u.received, u.s, u.result)
  BY FieldsAre DEF Fields
<1> HIDE DEF yes
<1>3. Has(v, u.at, u.file, u.part, u.def, yes, u.received, u.s)
  BY <1>1, <1>2, MadeIs, Zenon
<1> QED BY <1>3 DEF Has, yes

\* Upload v is u after n bytes of it were received.
Takes(u, v, n, s) == v = [u EXCEPT !.received = n, !.s = s]

\* An upload that took a chunk.
LEMMA TakenIs ==
    ASSUME NEW u \in Uploads, NEW n \in Nat, NEW s \in States, NEW v, Takes(u, v, n, s)
    PROVE  /\ v \in Uploads /\ v.at = u.at /\ v.file = u.file /\ v.part = u.part /\ v.def = u.def
           /\ v.shared = u.shared /\ v.received = n /\ v.s = s
<1>1. Made(v, u.at, u.file, u.part, u.def, u.force, u.shared, n, s, u.result)
  <2>1. u = [at |-> u.at, file |-> u.file, part |-> u.part, def |-> u.def, force |-> u.force,
             shared |-> u.shared, received |-> u.received, s |-> u.s, result |-> u.result]
    BY FieldsAre DEF Made
  <2>2. v = [[at |-> u.at, file |-> u.file, part |-> u.part, def |-> u.def, force |-> u.force,
              shared |-> u.shared, received |-> u.received, s |-> u.s, result |-> u.result]
                EXCEPT !.received = n, !.s = s]
    BY <2>1 DEF Takes
  <2> QED BY ONLY <2>2 DEF Made
<1>2. Fields(u.at, u.file, u.part, u.def, u.force, u.shared, n, s, u.result)
  BY FieldsAre DEF Fields
<1>3. Has(v, u.at, u.file, u.part, u.def, u.shared, n, s)
  BY <1>1, <1>2, MadeIs, Zenon
<1> QED BY <1>3 DEF Has

\* What an upload is for is said by its file, its part and its url.
Alike(u, v) == v.file = u.file /\ v.part = u.part /\ v.def = u.def

\* Two uploads alike stand at the same place.
LEMMA AlikeIs ==
    ASSUME NEW u, NEW v, Alike(u, v), NEW s, NEW n
    PROVE  /\ PostTotal(v) = PostTotal(u) /\ Target(v) = Target(u)
           /\ Position(u, s, n) => Position(v, s, n)
<1>1. /\ Target(v) = Target(u) /\ PartOf(v) = PartOf(u) /\ Before(v) = Before(u)
      /\ After(v) = After(u) /\ (Accepted(v) <=> Accepted(u)) /\ v.file = u.file
  BY DEF Alike, Target, PartOf, Before, After, Accepted
<1>2. Length(v) = Length(u)
  BY <1>1 DEF Alike, Length
<1>3. Body(v) = Body(u)
  BY DEF Alike, Body
<1>4. PostTotal(v) = PostTotal(u)
  BY <1>3 DEF PostTotal
<1>5. ASSUME Position(u, s, n) PROVE Position(v, s, n)
  <2>1. \A k : ByteOf(v, k) = ByteOf(u, k)
    BY <1>1 DEF ByteOf
  <2>2. Writing(u, s, n) => Writing(v, s, n)
    BY <1>1, <1>2, <2>1 DEF Writing
  <2>3. Skipping(u, s, n) => Skipping(v, s, n)
    BY <1>1, <1>2 DEF Skipping
  <2> QED BY <1>1, <1>5, <2>2, <2>3 DEF Position
<1> QED BY <1>1, <1>4, <1>5

\* and have stored the same.
LEMMA AlikeStored ==
    ASSUME NEW u, NEW v, Alike(u, v), NEW s, NEW fl, Stored(u, s, fl)
    PROVE  Stored(v, s, fl)
<1>1. Target(v) = Target(u) /\ PartOf(v) = PartOf(u) /\ v.file = u.file
  BY DEF Alike, Target, PartOf
<1>2. Length(v) = Length(u)
  BY <1>1 DEF Alike, Length
<1>3. \A k : ByteOf(v, k) = ByteOf(u, k)
  BY <1>1 DEF ByteOf
<1>4. \A m : Holding(u, m, fl) => Holding(v, m, fl)
  BY <1>1, <1>3 DEF Holding
<1> QED BY <1>1, <1>2, <1>4 DEF Stored

\* The upload u of a connection, where its bytes say, over flash fl.
Fits(u, fl) ==
    /\ u.received <= PostTotal(u) /\ Len(u.s.pageData) < PAGELEN
    /\ u.at = "posting" => /\ u.file \in Files /\ u.part = 3 - running
                           /\ Position(u, u.s, u.received)
                           /\ u.shared \/ Stored(u, u.s, fl)

\* The uploads up know of each other, and rd has nothing of theirs.
Rivalry(up, rd) ==
    /\ \A c, d \in Conn : up[c].at = "posting" /\ up[d].at = "posting" /\ c # d /\ up[c].def = up[d].def
                             => up[c].shared
    /\ \A c \in Conn : up[c].at = "posting" => rd[up[c].def] = {}

\* A step that does not start another image keeps the invariant if what it
\* leaves fits.
LEMMA StepFits ==
    ASSUME running' = running, \A c \in Conn : Fits(upload'[c], flash')
    PROVE  PostingInv'
<1> SUFFICES ASSUME NEW c \in Conn
             PROVE  (/\ upload[c].received <= PostTotal(upload[c])
                     /\ Len(upload[c].s.pageData) < PAGELEN
                     /\ Posting(c) => /\ upload[c].file \in Files /\ upload[c].part = 3 - running
                                      /\ Position(upload[c], upload[c].s, upload[c].received)
                                      /\ upload[c].shared \/ Stored(upload[c], upload[c].s, flash))'
  BY DEF PostingInv
<1> DEFINE v == upload'[c]
           s == v.s
           n == v.received
<1>1. Fits(v, flash')
  OBVIOUS
<1>2. /\ Target(upload[c])' = Target(v) /\ PartOf(upload[c])' = PartOf(v) /\ Before(upload[c])' = Before(v)
      /\ After(upload[c])' = After(v) /\ (Accepted(upload[c])' <=> Accepted(v))
  BY DEF Target, PartOf, Before, After, Accepted
<1>3. Length(upload[c])' = Length(v)
  BY DEF Length, PartLen, PartOf
<1>4. PostTotal(upload[c])' = PostTotal(v)
  BY DEF PostTotal, Body
<1>5. fwPos(Target(upload[c]))' = fwPos(Target(v)) /\ \A k : ByteOf(upload[c], k)' = ByteOf(v, k)
  BY <1>2 DEF fwPos, ByteOf
<1>6. Writing(v, s, n) => Writing(upload[c], upload[c].s, upload[c].received)'
  BY <1>2, <1>3, <1>5 DEF Writing
<1>7. Skipping(v, s, n) => Skipping(upload[c], upload[c].s, upload[c].received)'
  BY <1>2, <1>3, <1>5 DEF Skipping
<1>8. Position(v, s, n) => Position(upload[c], upload[c].s, upload[c].received)'
  BY <1>2, <1>6, <1>7 DEF Position
<1>9. \A m : Holding(v, m, flash') => Holding(upload[c], m, flash)'
  BY <1>5 DEF Holding
<1>10. RestErased(Target(v), s.address, flash') => RestErased(Target(upload[c]), upload[c].s.address, flash)'
  BY <1>2 DEF RestErased, Cells, fwPos
<1>11. Stored(v, s, flash') => Stored(upload[c], upload[c].s, flash)'
  BY <1>3, <1>5, <1>9, <1>10 DEF Stored
<1> QED BY <1>1, <1>4, <1>8, <1>11 DEF Fits, Posting

\* The invariant, in terms of what the uploads, ready and flash are.
LEMMA InvFits ==
    ASSUME FlashInv
    PROVE  /\ \A c \in Conn : upload[c] \in Uploads /\ Fits(upload[c], flash)
           /\ Rivalry(upload, ready) /\ ReadyIn(ready, flash)
           /\ trusted => \E f \in Files \cup {Factory} : HoldsIn(flash, running, f)
<1>1. \A c \in Conn : upload[c] \in Uploads
  BY DEF FlashInv, Shapes
<1>2. \A c \in Conn : Fits(upload[c], flash)
  BY DEF FlashInv, PostingInv, Posting, Fits
<1>3. Rivalry(upload, ready)
  BY DEF FlashInv, RivalsInv, Posting, Rivalry
<1>4. ReadyIn(ready, flash)
  BY DEF FlashInv, WholeInv
<1>5. trusted => \E f \in Files \cup {Factory} : HoldsIn(flash, running, f)
  BY DEF FlashInv, WholeInv
<1> QED BY <1>1, <1>2, <1>3, <1>4, <1>5

\* A step that does not start another image keeps the invariant if what it
\* leaves does.
LEMMA StepKeeps ==
    ASSUME running' = running, Shapes', TrustInv', \A c \in Conn : Fits(upload'[c], flash'),
           Rivalry(upload', ready'), ReadyIn(ready', flash'),
           trusted' => \E f \in Files \cup {Factory} : HoldsIn(flash', running, f)
    PROVE  FlashInv'
<1>1. PostingInv'
  BY StepFits
<1>2. RivalsInv'
  BY DEF RivalsInv, Posting, Rivalry
<1>3. WholeInv'
  BY DEF WholeInv, HoldsIn, ReadyIn, fwPos, PartLen, MadeFor
<1> QED BY <1>1, <1>2, <1>3 DEF FlashInv

\* An upload begins.
LEMMA PostKeeps ==
    ASSUME FlashInv, NEW c \in Conn, Post(c)
    PROVE  FlashInv'
<1> USE DEF FlashInv
<1>1. PICK f \in Files, def \in Url, force \in BOOLEAN :
        LET shared == Rivals(def) # {}
            new == [NoUpload EXCEPT !.at = "posting", !.file = f, !.part = cgiGetFirmwareNext,
                                    !.def = def, !.force = force, !.shared = shared]
        IN  /\ upload' = [d \in Conn |-> IF d = c THEN new
                                         ELSE IF d \in Rivals(def) THEN [upload[d] EXCEPT !.shared = TRUE]
                                         ELSE upload[d]]
            /\ trusted' = (trusted /\ (f.type = "BIN" => running = 2))
            /\ ready' = [ready EXCEPT ![def] = {}]
  BY DEF Post
<1> DEFINE shared == Rivals(def) # {}
           new == [NoUpload EXCEPT !.at = "posting", !.file = f, !.part = cgiGetFirmwareNext,
                                   !.def = def, !.force = force, !.shared = shared]
<1>2. running \in 1 .. 2 /\ upload \in [Conn -> Uploads] /\ ready \in [Url -> SUBSET Files]
      /\ flash \in [Addresses -> Bytes] /\ timer \in BOOLEAN /\ trusted \in BOOLEAN
  BY DEF Shapes
<1>3. flash' = flash /\ running' = running /\ timer' = timer
  BY DEF Post
<1>4. cgiGetFirmwareNext = 3 - running /\ cgiGetFirmwareNext \in Parts
  BY <1>2 DEF cgiGetFirmwareNext, Parts
<1>5. /\ new \in Uploads /\ new.at = "posting" /\ new.file = f /\ new.part = cgiGetFirmwareNext
      /\ new.def = def /\ new.shared = shared /\ new.received = 0 /\ new.s = State
  <2>1. shared \in BOOLEAN
    OBVIOUS
  <2> DEFINE part == cgiGetFirmwareNext
  <2> HIDE DEF shared, part
  <2>2. part \in Parts
    BY <1>4 DEF part
  <2>3. Begins(new, f, part, def, force, shared)
    BY DEF part, Begins
  <2> HIDE DEF new
  <2>4. /\ new \in Uploads /\ new.at = "posting" /\ new.file = f /\ new.part = part
        /\ new.def = def /\ new.shared = shared /\ new.received = 0 /\ new.s = State
    BY ONLY <2>1, <2>2, <2>3, f \in Files, def \in Url, force \in BOOLEAN, NewIs
  <2> QED BY <2>4 DEF part
<1> HIDE DEF new
<1>6. ASSUME NEW d \in Conn, d \in Rivals(def), d # c
      PROVE  /\ upload'[d] \in Uploads /\ upload'[d].at = upload[d].at /\ Alike(upload[d], upload'[d])
             /\ upload'[d].shared = TRUE /\ upload'[d].received = upload[d].received
             /\ upload'[d].s = upload[d].s /\ upload[d].def = def /\ upload[d].at = "posting"
  <2>1. upload'[d] = [upload[d] EXCEPT !.shared = TRUE] /\ upload[d] \in Uploads
    BY <1>1, <1>2, <1>6
  <2>2. upload[d].def = def /\ upload[d].at = "posting"
    BY <1>6 DEF Rivals
  <2> QED BY <2>1, <2>2, SharedIs DEF Alike
<1>7. upload'[c] = new
  BY <1>1 DEF new
<1>8. ASSUME NEW d \in Conn, d \notin Rivals(def), d # c PROVE upload'[d] = upload[d]
  BY <1>1, <1>8
<1>9. upload' \in [Conn -> Uploads]
  <2>1. \A d \in Conn : upload'[d] \in Uploads
    BY <1>2, <1>5, <1>6, <1>7, <1>8
  <2>2. \E g : upload' = [d \in Conn |-> g[d]]
    <3>1. upload' = [d \in Conn |-> upload'[d]]
      BY <1>1
    <3> QED BY <3>1
  <2> QED BY <2>1, <2>2
<1>10. ready' = [ready EXCEPT ![def] = {}] /\ trusted' = (trusted /\ (f.type = "BIN" => running = 2))
  BY <1>1
<1>11. Shapes'
  BY <1>2, <1>3, <1>9, <1>10 DEF Shapes, Addresses, Cells, fwPos
<1>12. ASSUME NEW d \in Conn PROVE Fits(upload'[d], flash')
  <2>1. Fits(upload[d], flash) /\ upload[d] \in Uploads
    BY InvFits
  <2>2. CASE d = c
    <3>1. PostTotal(new) \in Nat /\ PAGELEN \in Nat \ {0} /\ State \in States /\ State.state = "START"
          /\ Len(State.pageData) = 0
      BY <1>5, TotalIs, StateIs, UploadAssumption
    <3>2. new.received <= PostTotal(new) /\ Len(new.s.pageData) < PAGELEN
      <4>1. new.received = 0 /\ Len(new.s.pageData) = 0
        BY <1>5, <3>1
      <4> QED BY <3>1, <4>1
    <3>3. Position(new, new.s, new.received)
      BY <1>5, <3>1, <3>2 DEF Position
    <3>4. Stored(new, new.s, flash')
      BY <1>5, <3>1 DEF Stored
    <3> QED BY <1>4, <1>5, <1>7, <2>2, <3>2, <3>3, <3>4 DEF Fits
  <2>3. CASE d # c /\ d \in Rivals(def)
    <3> DEFINE v == upload'[d]
               u == upload[d]
    <3>1. /\ v.at = u.at /\ Alike(u, v) /\ v.shared = TRUE /\ v.received = u.received /\ v.s = u.s
          /\ u.at = "posting"
      BY <1>6, <2>3
    <3> HIDE DEF v, u
    <3>2. PostTotal(v) = PostTotal(u) /\ (Position(u, u.s, u.received) => Position(v, u.s, u.received))
      BY <3>1, AlikeIs
    <3>3. v.file = u.file /\ v.part = u.part
      BY <3>1 DEF Alike
    <3>4. Fits(u, flash)
      BY <2>1 DEF u
    <3> QED BY <3>1, <3>2, <3>3, <3>4 DEF Fits, v
  <2>4. CASE d # c /\ d \notin Rivals(def)
    BY <1>3, <1>8, <2>1, <2>4
  <2> QED BY <2>2, <2>3, <2>4
<1>13. ASSUME NEW d \in Conn, d # c
       PROVE  /\ upload'[d].at = upload[d].at /\ upload'[d].def = upload[d].def /\ upload'[d].file = upload[d].file
              /\ upload[d].shared => upload'[d].shared
  <2>1. upload[d].shared \in BOOLEAN
    BY <1>2 DEF Uploads
  <2> QED BY <1>6, <1>8, <1>13, <2>1 DEF Alike
<1>14. Rivalry(upload', ready')
  <2>0. Rivalry(upload, ready)
    BY InvFits
  <2>1. ASSUME NEW d \in Conn, NEW e \in Conn, upload'[d].at = "posting", upload'[e].at = "posting", d # e,
               upload'[d].def = upload'[e].def
        PROVE  upload'[d].shared
    <3>1. CASE d = c
      <4>1. upload[e].at = "posting" /\ upload[e].def = def
        BY <1>5, <1>7, <1>13, <2>1, <3>1
      <4>2. e \in Rivals(def)
        BY <4>1 DEF Rivals
      <4> QED BY <1>5, <1>7, <3>1, <4>2
    <3>2. CASE e = c
      <4>1. upload[d].at = "posting" /\ upload[d].def = def
        BY <1>5, <1>7, <1>13, <2>1, <3>2
      <4>2. d \in Rivals(def)
        BY <4>1 DEF Rivals
      <4> QED BY <1>6, <2>1, <3>2, <4>2
    <3>3. CASE d # c /\ e # c
      <4>1. upload[d].shared
        BY <1>13, <2>0, <2>1, <3>3 DEF Rivalry
      <4> QED BY <1>13, <3>3, <4>1
    <3> QED BY <3>1, <3>2, <3>3
  <2>2. ASSUME NEW d \in Conn, upload'[d].at = "posting" PROVE ready'[upload'[d].def] = {}
    <3>1. CASE d = c
      BY <1>2, <1>5, <1>7, <1>10, <3>1
    <3>2. CASE d # c
      <4>1. ready[upload[d].def] = {} /\ upload'[d].def = upload[d].def /\ upload[d].def \in Url
        BY <1>2, <1>13, <2>0, <2>2, <3>2 DEF Rivalry, Uploads
      <4> QED BY <1>2, <1>10, <4>1
    <3> QED BY <3>1, <3>2
  <2> QED BY <2>1, <2>2 DEF Rivalry
<1>15. TrustInv'
  <2> SUFFICES ASSUME trusted', NEW d \in Conn, Posting(d)', (upload[d].file.type = "BIN")'
               PROVE  running' = 2
    BY DEF TrustInv
  <2>1. trusted /\ (f.type = "BIN" => running = 2)
    BY <1>10
  <2>2. CASE d = c
    BY <1>3, <1>5, <1>7, <2>1, <2>2
  <2>3. CASE d # c
    BY <1>3, <1>13, <2>1, <2>3 DEF TrustInv, Posting
  <2> QED BY <2>2, <2>3
<1>16. ReadyIn(ready', flash')
  <2>1. ReadyIn(ready, flash)
    BY InvFits
  <2>2. ready'["FW"] \subseteq ready["FW"] /\ ready'["ESPFS"] \subseteq ready["ESPFS"]
    BY <1>2, <1>10 DEF Url
  <2> QED BY <1>3, <2>1, <2>2 DEF ReadyIn
<1>17. trusted' => \E g \in Files \cup {Factory} : HoldsIn(flash', running, g)
  BY <1>3, <1>10, InvFits
<1> QED BY <1>3, <1>11, <1>12, <1>14, <1>15, <1>16, <1>17, StepKeeps
-----------------------------------------------------------------------------
(* A chunk is received.                                                    *)

\* The bytes behind the first r of a file.
LEMMA NextBytes ==
    ASSUME NEW B \in Seq(Bytes), NEW r \in Nat, NEW n \in Nat, r + n <= Len(B)
    PROVE  LET d == SubSeq(B, r + 1, r + n)
           IN  d \in Seq(Bytes) /\ Len(d) = n /\ Follows(B, d, r + n)
<1> DEFINE d == SubSeq(B, r + 1, r + n)
<1>1. CASE n = 0
  <2>1. d = <<>>
    BY <1>1, SubSeqProperties
  <2>2. d \in Seq(Bytes) /\ Len(d) = 0
    BY <2>1
  <2> HIDE DEF d
  <2>3. Follows(B, d, r + n)
    BY <2>2 DEF Follows
  <2> QED BY <1>1, <2>2, <2>3 DEF d
<1>2. CASE n # 0
  <2>1. r + 1 \in 1 .. Len(B) /\ r + n \in r + 1 - 1 .. Len(B)
    BY <1>2
  <2>2. /\ d \in Seq(Bytes) /\ Len(d) = r + n - (r + 1) + 1
        /\ \A i \in 1 .. r + n - (r + 1) + 1 : d[i] = B[(r + 1) + i - 1]
    BY <1>2, <2>1, SubSeqProperties
  <2>3. r + n - (r + 1) + 1 = n
    OBVIOUS
  <2> HIDE DEF d
  <2>4. Len(d) = n /\ \A i \in 1 .. n : d[i] = B[(r + 1) + i - 1]
    BY <2>2, <2>3
  <2>5. ASSUME NEW j \in 1 .. n PROVE d[j] = B[r + n - n + j]
    <3>1. (r + 1) + j - 1 = r + n - n + j
      OBVIOUS
    <3> QED BY <2>4, <3>1
  <2> QED BY <2>2, <2>4, <2>5 DEF d, Follows
<1> QED BY <1>1, <1>2

\* What is received of upload u: n bytes,
Got(u, n) == n = IF PostTotal(u) - u.received > PostLen THEN PostLen ELSE PostTotal(u) - u.received

\* with which the loop begins.
World(u, fl, n) == [s |-> u.s, flash |-> fl, data |-> SubSeq(Body(u), u.received + 1, u.received + n)]

\* An upload under way is known, and stands where its bytes say.
LEMMA PostingIs ==
    ASSUME FlashInv, NEW c \in Conn, upload[c].at = "posting"
    PROVE  LET u == upload[c]
           IN  /\ Known(u) /\ Position(u, u.s, u.received) /\ u.s \in States /\ u.received \in Nat
               /\ u.received <= PostTotal(u) /\ (u.shared \/ Stored(u, u.s, flash)) /\ u.shared \in BOOLEAN
               /\ Target(u) \in Region /\ u.def \in Url
<1> DEFINE u == upload[c]
<1>1. u \in Uploads /\ Fits(u, flash) /\ u.at = "posting" /\ running \in 1 .. 2
  BY InvFits DEF FlashInv, Shapes
<1> HIDE DEF u
<1>2. /\ u.s \in States /\ u.received \in Nat /\ u.shared \in BOOLEAN /\ u.def \in Url
  BY <1>1 DEF Uploads
<1>3. Target(u) \in Region
  BY <1>1 DEF Target, Region
<1> QED BY <1>1, <1>2, <1>3 DEF Fits, Known, u

\* The first chunk holds the header.
LEMMA GotIs ==
    ASSUME FlashInv, NEW c \in Conn, upload[c].at = "posting", NEW n, Got(upload[c], n)
    PROVE  LET u == upload[c]
           IN  n \in Nat /\ Chunk(u, u.received + n) /\ InLoop(u, World(u, flash, n), u.received + n)
<1> DEFINE u == upload[c]
           r == u.received
           e == r + n
           d == SubSeq(Body(u), r + 1, r + n)
           w == World(u, flash, n)
           total == PostTotal(u)
           size == u.file.size
<1>1. /\ Known(u) /\ Position(u, u.s, r) /\ u.s \in States /\ r \in Nat /\ r <= total
      /\ flash \in [Addresses -> Bytes]
  BY PostingIs DEF FlashInv, Shapes
<1>2. Got(u, n)
  OBVIOUS
<1> HIDE DEF u
<1>3. Body(u) \in Seq(Bytes) /\ Len(Body(u)) = size /\ total = size
  BY <1>1, BodyIs
<1>4. PostLen \in Nat /\ HeaderSize \in Nat /\ HeaderSize <= PostLen
  BY UploadAssumption
<1>5. size \in Nat /\ (u.file.type = "OTA" => HeaderSize <= size)
  <2>1. u.file \in Files
    BY <1>1 DEF Known
  <2>2. size \in Nat \ {0} /\ (u.file.type = "OTA" => size \in HeaderSize .. HeaderSize + u.file.len1 + u.file.len2)
        /\ u.file.len1 \in Nat /\ u.file.len2 \in Nat
    BY <2>1, FileIs
  <2> QED BY <1>4, <2>2
<1> HIDE DEF r, size, total
<1>6. n = IF total - r > PostLen THEN PostLen ELSE total - r
  BY <1>2 DEF Got, total, r
<1>7. n \in Nat /\ r + n <= size /\ (HeaderSize <= size => HeaderSize <= r + n)
  BY <1>1, <1>3, <1>4, <1>5, <1>6
<1>8. d \in Seq(Bytes) /\ Len(d) = n /\ Follows(Body(u), d, r + n)
  BY <1>1, <1>3, <1>7, NextBytes
<1> HIDE DEF d
<1>9. w.s = u.s /\ w.flash = flash /\ w.data = d /\ w \in Worlds
  <2>1. w = [s |-> u.s, flash |-> flash, data |-> d]
    BY DEF World, d, r
  <2> HIDE DEF w
  <2> QED BY <1>1, <1>8, <2>1 DEF Worlds
<1> HIDE DEF w
<1>10. e - Len(d) = r /\ Len(d) <= e
  BY <1>1, <1>7, <1>8
<1>11. InLoop(u, w, e)
  BY <1>1, <1>8, <1>9, <1>10 DEF InLoop
<1>12. Chunk(u, e)
  BY <1>1, <1>3, <1>5, <1>7 DEF Chunk, total
<1> QED BY <1>7, <1>11, <1>12 DEF u, r, w

\* Uploads to two urls write to two regions.
LEMMA TargetsApart ==
    ASSUME FlashInv, NEW c \in Conn, NEW d \in Conn, c # d, upload[c].at = "posting", upload[d].at = "posting",
           ~upload[d].shared
    PROVE  Target(upload[d]) # Target(upload[c])
<1>1. upload[c].def # upload[d].def
  BY InvFits DEF Rivalry
<1>2. upload[c].def \in Url /\ upload[d].def \in Url /\ running \in 1 .. 2
  BY PostingIs DEF FlashInv, Shapes
<1> QED BY <1>1, <1>2 DEF Target, Url

\* What an upload that succeeded stored is the whole part for its region.
LEMMA DoneHolds ==
    ASSUME NEW u, Known(u), NEW s, NEW n, Position(u, s, n), NEW fl, Stored(u, s, fl), s.state = "DONE",
           u.file.type = "BIN" => running = 2
    PROVE  HoldsIn(fl, IF u.def = "FW" THEN 3 - running ELSE 3, u.file)
<1>1. Accepted(u) /\ Holding(u, Length(u), fl) /\ running \in 1 .. 2 /\ u.def \in Url
  BY DEF Position, Stored, Known, Uploads
<1>2. Target(u) = PartOf(u) /\ Target(u) = (IF u.def = "FW" THEN 3 - running ELSE 3)
  BY <1>1 DEF Target, PartOf, Url
<1>3. Length(u) = PartLen(u.file, PartOf(u))
  BY <1>1 DEF Length, PartLen, PartOf, Accepted, Url
<1>4. MadeFor(u.file, Target(u))
  BY <1>1, <1>2 DEF MadeFor, Accepted, Url
<1>5. PartLen(u.file, Target(u)) <= fwSize
  <2>1. u.file \in Files
    BY DEF Known
  <2>2. Length(u) \in 0 .. fwSize /\ Length(u) = PartLen(u.file, Target(u)) /\ fwSize \in Nat
    BY <1>1, <1>2, <1>3, <2>1, FitsRegion, UploadAssumption
  <2> DEFINE l == PartLen(u.file, Target(u))
  <2>3. l \in 0 .. fwSize
    BY <2>2
  <2> HIDE DEF l
  <2>4. l <= fwSize
    BY <2>2, <2>3
  <2> QED BY <2>4 DEF l
<1> QED BY <1>1, <1>2, <1>3, <1>4, <1>5 DEF HoldsIn, Holding, ByteOf

\* An upload to a url has ended.
Ends(u, def, result) == u = [NoUpload EXCEPT !.def = def, !.result = result]

\* A connection whose upload ended.
LEMMA EndIs ==
    ASSUME NEW def \in Url, NEW result \in Results, NEW u, Ends(u, def, result)
    PROVE  u \in Uploads /\ u.at # "posting" /\ u.received <= PostTotal(u) /\ Len(u.s.pageData) < PAGELEN
<1> DEFINE at == "idle"
           part == 1
           no == FALSE
           zero == 0
<1>1. Fields(at, Factory, part, def, no, no, zero, State, result)
  BY StateIs DEF Fields, Ats, Parts
<1>2. at # "posting"
  OBVIOUS
<1>3. Made(u, at, Factory, part, def, no, no, zero, State, result)
  BY DEF NoUpload, Made, Ends
<1>4. Len(State.pageData) < PAGELEN
  <2>1. PAGELEN \in Nat \ {0} /\ Len(State.pageData) = 0
    BY StateIs, UploadAssumption
  <2> QED BY <2>1
<1> HIDE DEF at, part, no, zero
<1>5. u \in Uploads /\ u.at = at /\ u.received = zero /\ u.s = State
  <2>1. Has(u, at, Factory, part, def, no, zero, State)
    BY <1>1, <1>3, MadeIs, Zenon
  <2> QED BY <2>1 DEF Has
<1>6. u.received <= PostTotal(u)
  <2>1. PostTotal(u) \in Nat
    BY <1>5, TotalIs
  <2>2. u.received = 0
    BY <1>5 DEF zero
  <2> QED BY <2>1, <2>2
<1> QED BY <1>2, <1>4, <1>5, <1>6

\* A chunk of upload c was taken: flash is fl, and its state is s.
TookChunk(c, n, s, fl) ==
    LET u == upload[c]
    IN  /\ n \in Nat /\ s \in States /\ fl \in [Addresses -> Bytes]
        /\ u.received + n <= PostTotal(u) /\ Position(u, s, u.received + n)
        /\ Outside(Target(u), flash, fl)
        /\ Stored(u, u.s, flash) => Stored(u, s, fl)

\* The loop takes a chunk.
LEMMA LoopTakes ==
    ASSUME FlashInv, NEW c \in Conn, upload[c].at = "posting", NEW n, Got(upload[c], n)
    PROVE  LET w == cgiUploadFirmware(World(upload[c], flash, n), upload[c])
           IN  TookChunk(c, n, w.s, w.flash)
<1> DEFINE u == upload[c]
           w0 == World(u, flash, n)
           e == u.received + n
           w == cgiUploadFirmware(w0, u)
<1>1. n \in Nat /\ Chunk(u, e) /\ InLoop(u, w0, e)
  BY GotIs
<1>2. w0.s = u.s /\ w0.flash = flash
  BY DEF World
<1> HIDE DEF w0, e, u
<1>3. /\ w.s \in States /\ w.flash \in [Addresses -> Bytes] /\ Position(u, w.s, e)
      /\ Outside(Target(u), w0.flash, w.flash)
      /\ Stored(u, w0.s, w0.flash) => Stored(u, w.s, w.flash)
  BY <1>1, ChunkTaken
<1> HIDE DEF w
<1>4. e <= PostTotal(u)
  BY <1>1 DEF Chunk
<1> QED BY <1>1, <1>2, <1>3, <1>4 DEF TookChunk, u, e, w, w0

\* Another upload still fits.
LEMMA OthersFit ==
    ASSUME FlashInv, NEW c \in Conn, upload[c].at = "posting", NEW n, NEW s, NEW fl, TookChunk(c, n, s, fl),
           NEW d \in Conn, d # c
    PROVE  Fits(upload[d], fl)
<1> DEFINE u == upload[c]
           v == upload[d]
<1>1. Fits(v, flash)
  BY InvFits
<1>2. Outside(Target(u), flash, fl)
  BY DEF TookChunk
<1>3. CASE v.at = "posting" /\ ~v.shared
  <2>1. Known(v) /\ Position(v, v.s, v.received) /\ Stored(v, v.s, flash)
    BY <1>3, PostingIs
  <2>2. Target(u) \in Region /\ Target(u) # Target(v)
    BY <1>3, PostingIs, TargetsApart
  <2> HIDE DEF u, v
  <2>3. Stored(v, v.s, fl)
    BY <1>2, <2>1, <2>2, StoredKept
  <2> QED BY <1>1, <2>3 DEF Fits, v
<1>4. CASE v.at # "posting" \/ v.shared
  BY <1>1, <1>4 DEF Fits
<1> QED BY <1>3, <1>4

\* The image that runs is not written to, if nobody risked it.
LEMMA RunningKept ==
    ASSUME FlashInv, NEW c \in Conn, upload[c].at = "posting", NEW n, NEW s, NEW fl, TookChunk(c, n, s, fl), trusted
    PROVE  \E f \in Files \cup {Factory} : HoldsIn(fl, running, f)
<1>1. PICK f \in Files \cup {Factory} : HoldsIn(flash, running, f)
  BY InvFits
<1> DEFINE q == Target(upload[c])
<1>2. q \in Region /\ Outside(q, flash, fl)
  BY PostingIs DEF TookChunk
<1>3. running \in 1 .. 2 /\ (upload[c].file.type = "BIN" => running = 2)
  BY DEF FlashInv, Shapes, TrustInv, Posting
<1>4. running \in Region /\ running # q
  BY <1>3 DEF Target, Region
<1> HIDE DEF q
<1>5. HoldsIn(fl, running, f)
  BY <1>1, <1>2, <1>4, HoldsKept
<1> QED BY <1>5

\* The other url's file stays where it is.
LEMMA OtherKept ==
    ASSUME FlashInv, NEW c \in Conn, upload[c].at = "posting", NEW n, NEW s, NEW fl, TookChunk(c, n, s, fl),
           NEW def \in Url, NEW f \in ready[def], NEW r, r = IF def = "FW" THEN 3 - running ELSE 3
    PROVE  HoldsIn(fl, r, f)
<1>1. running \in 1 .. 2 /\ f \in Files
  BY DEF FlashInv, Shapes
<1>2. upload[c].def # def /\ upload[c].def \in Url
  BY InvFits, PostingIs DEF Rivalry
<1> DEFINE q == Target(upload[c])
<1>3. q \in Region /\ Outside(q, flash, fl)
  BY PostingIs DEF TookChunk
<1>4. r \in Region /\ r # q
  BY <1>1, <1>2 DEF Target, Region, Url
<1>5. HoldsIn(flash, r, f)
  BY InvFits DEF ReadyIn, Url
<1> HIDE DEF q
<1> QED BY <1>1, <1>3, <1>4, <1>5, HoldsKept

\* A chunk is received, and the file may be complete.
LEMMA ReceiveKeeps ==
    ASSUME FlashInv, NEW c \in Conn, Receive(c)
    PROVE  FlashInv'
<1> DEFINE u == upload[c]
           rest == PostTotal(u) - u.received
           n == IF rest > PostLen THEN PostLen ELSE rest
           w == cgiUploadFirmware(World(u, flash, n), u)
           placed == w.s.state = "DONE" /\ ~u.shared /\ (u.file.type = "BIN" => running = 2)
           ended == [NoUpload EXCEPT !.def = u.def, !.result = Response(w.s.state)]
           taken == [u EXCEPT !.received = @ + n, !.s = w.s]
<1>1. /\ u.at = "posting" /\ flash' = w.flash
      /\ IF n = rest
         THEN /\ upload' = [upload EXCEPT ![c] = ended]
              /\ ready' = [ready EXCEPT ![u.def] = IF placed THEN {u.file} ELSE {}]
         ELSE /\ upload' = [upload EXCEPT ![c].received = @ + n, ![c].s = w.s]
              /\ ready' = ready
      /\ running' = running /\ timer' = timer /\ trusted' = trusted
  BY DEF Receive, World
<1>2. running \in 1 .. 2 /\ upload \in [Conn -> Uploads] /\ ready \in [Url -> SUBSET Files]
      /\ flash \in [Addresses -> Bytes] /\ timer \in BOOLEAN /\ trusted \in BOOLEAN
  BY DEF FlashInv, Shapes
<1>3. Got(u, n)
  BY DEF Got
<1> DEFINE s == w.s
           fl == w.flash
<1>4. TookChunk(c, n, s, fl)
  BY <1>1, <1>3, LoopTakes
<1>5. n \in Nat /\ s \in States /\ fl \in [Addresses -> Bytes]
  BY <1>4 DEF TookChunk
<1>6. u \in Uploads /\ u.def \in Url /\ u.received \in Nat /\ Known(u) /\ Position(u, s, u.received + n)
      /\ (u.shared \/ Stored(u, s, fl)) /\ u.received + n <= PostTotal(u) /\ Len(s.pageData) < PAGELEN
  <2>1. u \in Uploads /\ u.def \in Url /\ u.received \in Nat /\ Known(u) /\ (u.shared \/ Stored(u, u.s, flash))
    BY <1>1, <1>2, PostingIs
  <2>2. /\ Position(u, s, u.received + n) /\ u.received + n <= PostTotal(u)
        /\ (Stored(u, u.s, flash) => Stored(u, s, fl))
    BY <1>4 DEF TookChunk
  <2>3. Len(s.pageData) < PAGELEN
    BY <2>2 DEF Position
  <2> QED BY <2>1, <2>2, <2>3
<1>7. s.state \in StateNames
  BY <1>5 DEF States, StateNames
<1>8. upload' = [upload EXCEPT ![c] = IF n = rest THEN ended ELSE taken]
  BY <1>1, <1>2
<1>9. ended \in Uploads /\ ended.at # "posting" /\ ended.received <= PostTotal(ended)
      /\ Len(ended.s.pageData) < PAGELEN
  <2> DEFINE result == Response(w.s.state)
             def == u.def
  <2>1. result \in Results
    BY DEF Response, Results
  <2>2. Ends(ended, def, result) /\ def \in Url
    BY <1>6 DEF Ends
  <2> HIDE DEF result, def, ended
  <2> QED BY ONLY <2>1, <2>2, EndIs
<1>10. /\ taken \in Uploads /\ taken.at = "posting" /\ taken.file = u.file /\ taken.part = u.part
       /\ taken.def = u.def /\ taken.shared = u.shared /\ taken.received = u.received + n /\ taken.s = s
  <2> DEFINE m == u.received + n
  <2>1. m \in Nat /\ Takes(u, taken, m, s)
    BY <1>5, <1>6 DEF Takes
  <2> HIDE DEF m, taken, s, u
  <2>2. /\ taken \in Uploads /\ taken.at = u.at /\ taken.file = u.file /\ taken.part = u.part
        /\ taken.def = u.def /\ taken.shared = u.shared /\ taken.received = m /\ taken.s = s
    <3>1. u \in Uploads /\ s \in States
      BY <1>5, <1>6
    <3> QED BY ONLY <2>1, <3>1, TakenIs
  <2> QED BY <1>1, <2>2 DEF m, u
<1> HIDE DEF w, n, rest, ended, taken
<1>11. upload'[c] = (IF n = rest THEN ended ELSE taken) /\ \A d \in Conn : d # c => upload'[d] = upload[d]
  BY <1>2, <1>8
<1>12. ready' \in [Url -> SUBSET Files]
  <2>1. u.file \in Files
    BY <1>6 DEF Known
  <2> QED BY <1>1, <1>2, <2>1
<1>13. Shapes'
  <2>1. upload' \in [Conn -> Uploads]
    BY <1>2, <1>8, <1>9, <1>10
  <2> QED BY <1>1, <1>2, <1>5, <1>12, <2>1 DEF Shapes, Addresses, Cells, fwPos
<1>14. ASSUME NEW d \in Conn PROVE Fits(upload'[d], flash')
  <2>1. CASE d # c
    BY <1>1, <1>4, <1>11, <2>1, OthersFit
  <2>2. CASE d = c /\ n = rest
    BY <1>9, <1>11, <2>2 DEF Fits
  <2>3. CASE d = c /\ n # rest
    <3>1. Alike(u, taken)
      BY <1>10 DEF Alike
    <3> DEFINE m == u.received + n
    <3>2. Position(u, s, m) /\ m <= PostTotal(u) /\ taken.received = m /\ taken.s = s
      BY <1>6, <1>10
    <3> HIDE DEF s, m, u
    <3>3. PostTotal(taken) = PostTotal(u) /\ Position(taken, s, m)
      BY <3>1, <3>2, AlikeIs
    <3>4. u.shared \/ Stored(taken, s, fl)
      BY <1>6, <3>1, AlikeStored
    <3>5. taken.file \in Files /\ taken.part = 3 - running
      BY <1>6, <1>10 DEF Known
    <3>6. taken.shared = u.shared
      BY <1>10
    <3>7. taken.received <= PostTotal(taken) /\ Len(taken.s.pageData) < PAGELEN
      BY <1>6, <3>2, <3>3
    <3>8. Fits(taken, fl)
      BY <3>2, <3>3, <3>4, <3>5, <3>6, <3>7 DEF Fits
    <3> QED BY <1>1, <1>11, <2>3, <3>8
  <2> QED BY <2>1, <2>2, <2>3
<1>15. ASSUME NEW d \in Conn, upload'[d].at = "posting"
       PROVE  /\ upload[d].at = "posting" /\ upload'[d].def = upload[d].def
              /\ upload'[d].shared = upload[d].shared /\ upload'[d].file = upload[d].file
              /\ d = c => n # rest
  BY <1>1, <1>9, <1>10, <1>11, <1>15
<1>16. Rivalry(upload', ready')
  <2>0. Rivalry(upload, ready)
    BY InvFits
  <2>1. ASSUME NEW d \in Conn, NEW e \in Conn, upload'[d].at = "posting", upload'[e].at = "posting", d # e,
               upload'[d].def = upload'[e].def
        PROVE  upload'[d].shared
    BY <1>15, <2>0, <2>1 DEF Rivalry
  <2>2. ASSUME NEW d \in Conn, upload'[d].at = "posting" PROVE ready'[upload'[d].def] = {}
    <3>1. upload'[d].def = upload[d].def /\ ready[upload[d].def] = {} /\ (d = c => n # rest)
      BY <1>15, <2>0, <2>2 DEF Rivalry
    <3>2. CASE n # rest
      BY <1>1, <3>1, <3>2
    <3>3. CASE n = rest /\ upload[d].def # u.def
      <4>1. upload[d].def \in Url
        BY <1>15, <2>2, PostingIs
      <4> QED BY <1>1, <1>2, <3>1, <3>3, <4>1
    <3>4. CASE n = rest /\ upload[d].def = u.def
      <4>1. u.shared
        BY <1>1, <1>15, <2>0, <2>2, <3>1, <3>4 DEF Rivalry
      <4>2. ready' = [ready EXCEPT ![u.def] = {}]
        BY <1>1, <3>4, <4>1
      <4> QED BY <1>2, <1>6, <3>1, <3>4, <4>2
    <3> QED BY <3>2, <3>3, <3>4
  <2> QED BY <2>1, <2>2 DEF Rivalry
<1>17. TrustInv'
  <2> SUFFICES ASSUME trusted', NEW d \in Conn, Posting(d)', (upload[d].file.type = "BIN")'
               PROVE  running' = 2
    BY DEF TrustInv
  <2>1. upload'[d].at = "posting"
    BY DEF Posting
  <2>2. upload[d].at = "posting" /\ upload'[d].file = upload[d].file
    BY <1>15, <2>1
  <2> QED BY <1>1, <2>2 DEF FlashInv, TrustInv, Posting
<1>18. ASSUME NEW def \in Url, NEW f \in ready'[def], NEW r, r = IF def = "FW" THEN 3 - running ELSE 3
       PROVE  HoldsIn(flash', r, f)
  <2>1. CASE f \in ready[def]
    BY <1>1, <1>4, <2>1, <1>18, OtherKept
  <2>2. CASE f \notin ready[def]
    <3>1. n = rest /\ def = u.def /\ placed /\ f = u.file
      BY <1>1, <1>2, <1>18, <2>2
    <3>2. s.state = "DONE" /\ Stored(u, s, fl) /\ (u.file.type = "BIN" => running = 2)
      BY <1>6, <3>1
    <3> HIDE DEF s, u
    <3>3. HoldsIn(fl, IF u.def = "FW" THEN 3 - running ELSE 3, u.file)
      BY <1>6, <3>2, DoneHolds
    <3> QED BY <1>1, <1>18, <3>1, <3>3
  <2> QED BY <2>1, <2>2
<1>19. ReadyIn(ready', flash')
  <2>1. "FW" \in Url /\ "ESPFS" \in Url
    BY DEF Url
  <2>2. \A f \in ready'["FW"] : HoldsIn(flash', 3 - running, f)
    BY <1>18, <2>1
  <2>3. \A f \in ready'["ESPFS"] : HoldsIn(flash', 3, f)
    BY <1>18, <2>1
  <2> QED BY <2>2, <2>3 DEF ReadyIn
<1>20. trusted' => \E f \in Files \cup {Factory} : HoldsIn(flash', running, f)
  BY <1>1, <1>4, RunningKept
<1> QED BY <1>1, <1>13, <1>14, <1>16, <1>17, <1>19, <1>20, StepKeeps
-----------------------------------------------------------------------------
(* The other steps, and the theorems.                                      *)

\* A connection that goes away takes only its own upload with it.
LEMMA AbortKeeps ==
    ASSUME FlashInv, NEW c \in Conn, Abort(c)
    PROVE  FlashInv'
<1>1. /\ upload' = [upload EXCEPT ![c] = NoUpload] /\ flash' = flash /\ running' = running
      /\ timer' = timer /\ ready' = ready /\ trusted' = trusted
  BY DEF Abort
<1>2. running \in 1 .. 2 /\ upload \in [Conn -> Uploads] /\ ready \in [Url -> SUBSET Files]
      /\ flash \in [Addresses -> Bytes] /\ timer \in BOOLEAN /\ trusted \in BOOLEAN
  BY DEF FlashInv, Shapes
<1>3. upload' \in [Conn -> Uploads] /\ upload'[c] = NoUpload /\ \A d \in Conn : d # c => upload'[d] = upload[d]
  BY <1>1, <1>2, NoUploadIs
<1>4. Shapes'
  BY <1>1, <1>2, <1>3 DEF Shapes, Addresses, Cells, fwPos
<1>5. ASSUME NEW d \in Conn PROVE Fits(upload'[d], flash')
  <2>1. CASE d = c
    BY <1>3, <2>1, NoUploadIs DEF Fits
  <2>2. CASE d # c
    BY <1>1, <1>3, <2>2, InvFits
  <2> QED BY <2>1, <2>2
<1>6. ASSUME NEW d \in Conn, upload'[d].at = "posting" PROVE upload'[d] = upload[d]
  BY <1>3, <1>6, NoUploadIs
<1>7. Rivalry(upload', ready')
  BY <1>1, <1>6, InvFits DEF Rivalry
<1>8. TrustInv'
  <2> SUFFICES ASSUME trusted', NEW d \in Conn, Posting(d)', (upload[d].file.type = "BIN")'
               PROVE  running' = 2
    BY DEF TrustInv
  <2>1. upload'[d] = upload[d] /\ upload'[d].at = "posting"
    BY <1>6 DEF Posting
  <2> QED BY <1>1, <2>1 DEF FlashInv, TrustInv, Posting
<1>9. ReadyIn(ready', flash') /\ (trusted' => \E f \in Files \cup {Factory} : HoldsIn(flash', running, f))
  BY <1>1, InvFits
<1> QED BY <1>1, <1>4, <1>5, <1>7, <1>8, <1>9, StepKeeps

\* The reboot is asked for, and nothing else changes,
LEMMA RebootKeeps ==
    ASSUME FlashInv, NEW c \in Conn, cgiRebootFirmware(c)
    PROVE  FlashInv'
<1>1. /\ upload' = upload /\ flash' = flash /\ running' = running
      /\ timer' = TRUE /\ ready' = ready /\ trusted' = trusted
  BY DEF cgiRebootFirmware
<1>2. Shapes'
  BY <1>1 DEF FlashInv, Shapes, Addresses, Cells, fwPos
<1>3. \A d \in Conn : Fits(upload'[d], flash')
  BY <1>1, InvFits
<1>4. TrustInv'
  BY <1>1 DEF FlashInv, TrustInv, Posting
<1>5. Rivalry(upload', ready') /\ ReadyIn(ready', flash')
      /\ (trusted' => \E f \in Files \cup {Factory} : HoldsIn(flash', running, f))
  BY <1>1, InvFits
<1> QED BY <1>1, <1>2, <1>3, <1>4, <1>5, StepKeeps

\* nor does it when no variable changes.
LEMMA StutterKeeps ==
    ASSUME FlashInv, UNCHANGED vars
    PROVE  FlashInv'
<1>1. /\ upload' = upload /\ flash' = flash /\ running' = running
      /\ timer' = timer /\ ready' = ready /\ trusted' = trusted
  BY DEF vars
<1>2. Shapes'
  BY <1>1 DEF FlashInv, Shapes, Addresses, Cells, fwPos
<1>3. \A d \in Conn : Fits(upload'[d], flash')
  BY <1>1, InvFits
<1>4. TrustInv'
  BY <1>1 DEF FlashInv, TrustInv, Posting
<1>5. Rivalry(upload', ready') /\ ReadyIn(ready', flash')
      /\ (trusted' => \E f \in Files \cup {Factory} : HoldsIn(flash', running, f))
  BY <1>1, InvFits
<1> QED BY <1>1, <1>2, <1>3, <1>4, <1>5, StepKeeps

\* After a boot there is no upload, so that what runs is all that matters.
LEMMA BootKeeps ==
    ASSUME FlashInv, Boot, running' \in 1 .. 2, trusted' \in BOOLEAN,
           trusted' => \E f \in Files \cup {Factory} : HoldsIn(flash, running', f)
    PROVE  FlashInv'
<1>1. /\ upload' = [c \in Conn |-> NoUpload] /\ timer' = FALSE /\ flash' = flash
      /\ ready' = [def \in Url |-> {}]
  BY DEF Boot
<1>2. \A c \in Conn : upload'[c] = NoUpload
  BY <1>1
<1>3. Shapes'
  <2>1. flash \in [Addresses -> Bytes]
    BY DEF FlashInv, Shapes
  <2> QED BY <1>1, <2>1, NoUploadIs DEF Shapes, Addresses, Cells, fwPos
<1>4. \A c \in Conn : ~Posting(c)'
  BY <1>2, NoUploadIs DEF Posting
<1>5. PostingInv'
  <2> SUFFICES ASSUME NEW c \in Conn
               PROVE  (/\ upload[c].received <= PostTotal(upload[c])
                       /\ Len(upload[c].s.pageData) < PAGELEN)'
    BY <1>4 DEF PostingInv
  <2> QED BY <1>2, NoUploadIs DEF PostTotal, Body
<1>6. RivalsInv' /\ TrustInv'
  BY <1>4 DEF RivalsInv, TrustInv
<1>7. WholeInv'
  <2>1. ReadyIn(ready, flash)'
    BY <1>1 DEF ReadyIn, Url
  <2>2. (trusted => \E f \in Files \cup {Factory} : HoldsIn(flash, running, f))'
    BY <1>1 DEF HoldsIn, fwPos, PartLen, MadeFor
  <2> QED BY <2>1, <2>2 DEF WholeInv
<1> QED BY <1>3, <1>5, <1>6, <1>7 DEF FlashInv

\* The image that is started is whole, if an upload had put it there,
LEMMA TimerKeeps ==
    ASSUME FlashInv, resetTimerCb
    PROVE  FlashInv'
<1>1. running' = 3 - running /\ trusted' = (ready["FW"] # {}) /\ Boot /\ flash' = flash
  BY DEF resetTimerCb, Boot
<1>2. running' \in 1 .. 2 /\ trusted' \in BOOLEAN
  BY <1>1 DEF FlashInv, Shapes
<1>3. trusted' => \E f \in Files \cup {Factory} : HoldsIn(flash, running', f)
  <2> SUFFICES ASSUME trusted' PROVE \E f \in Files \cup {Factory} : HoldsIn(flash, running', f)
    OBVIOUS
  <2>1. PICK f : f \in ready["FW"]
    BY <1>1
  <2>2. f \in Files /\ HoldsIn(flash, 3 - running, f)
    <3>1. ready \in [Url -> SUBSET Files] /\ "FW" \in Url
      BY DEF FlashInv, Shapes, Url
    <3> QED BY <2>1, <3>1, InvFits DEF ReadyIn
  <2> QED BY <1>1, <2>2
<1> QED BY <1>1, <1>2, <1>3, BootKeeps

\* and a power cut starts the one that ran.
LEMMA PowerCutKeeps ==
    ASSUME FlashInv, PowerCut
    PROVE  FlashInv'
<1>1. running' = running /\ trusted' = trusted /\ Boot /\ flash' = flash
  BY DEF PowerCut, Boot
<1>2. running' \in 1 .. 2 /\ trusted' \in BOOLEAN
  BY <1>1 DEF FlashInv, Shapes
<1>3. trusted' => \E f \in Files \cup {Factory} : HoldsIn(flash, running', f)
  BY <1>1, InvFits
<1> QED BY <1>1, <1>2, <1>3, BootKeeps

\* The flash holds the factory's image where it runs.
LEMMA FlashInit == Init => FlashInv
<1> SUFFICES ASSUME Init PROVE FlashInv
  OBVIOUS
<1> DEFINE cell(a) == LET r == (a \div fwSize) + 1
                          k == (a % fwSize) + 1
                      IN  IF r \in 1 .. 2 /\ k <= PartLen(Factory, r)
                          THEN [file |-> Factory, part |-> r, k |-> k] ELSE Erased
<1>1. /\ flash = [a \in Addresses |-> cell(a)] /\ running \in 1 .. 2 /\ upload = [c \in Conn |-> NoUpload]
      /\ timer = FALSE /\ ready = [def \in Url |-> {}] /\ trusted = TRUE
  BY DEF Init, Addresses
<1>2. fwSize \in Nat \ {0} /\ Factory \in Files \cup {Factory} /\ Factory.type = "OTA"
  BY UploadAssumption
<1>3. Addresses \subseteq Nat
  <2>1. \A r \in Region : fwPos(r) \in Nat
    BY RegionInSectors
  <2> QED BY <1>2, <2>1 DEF Addresses, Cells
<1>4. ASSUME NEW a \in Addresses PROVE cell(a) \in Bytes
  <2> DEFINE r == (a \div fwSize) + 1
             k == (a % fwSize) + 1
  <2>1. r \in Int /\ k \in Int
    <3>1. a \in Nat
      BY <1>3
    <3> QED BY <1>2, <3>1
  <2> HIDE DEF r, k
  <2>2. Erased \in Bytes
    BY <1>2 DEF Erased, Bytes
  <2>3. r \in 1 .. 2 => [file |-> Factory, part |-> r, k |-> k] \in Bytes
    BY <1>2, <2>1 DEF Bytes
  <2>4. cell(a) = IF r \in 1 .. 2 /\ k <= PartLen(Factory, r)
                  THEN [file |-> Factory, part |-> r, k |-> k] ELSE Erased
    BY DEF r, k
  <2> HIDE DEF cell
  <2> QED BY <2>2, <2>3, <2>4
<1>5. Shapes
  BY <1>1, <1>4, NoUploadIs DEF Shapes
<1>6. \A c \in Conn : upload[c] = NoUpload /\ ~Posting(c)
  BY <1>1, NoUploadIs DEF Posting
<1>7. PostingInv /\ RivalsInv /\ TrustInv
  BY <1>6, NoUploadIs DEF PostingInv, RivalsInv, TrustInv
<1>8. PartLen(Factory, running) \in Nat /\ PartLen(Factory, running) <= fwSize
  BY <1>2, FileIs DEF PartLen
<1>9. HoldsIn(flash, running, Factory)
  <2> SUFFICES ASSUME NEW k \in 1 .. PartLen(Factory, running)
               PROVE  flash[fwPos(running) + k - 1] = [file |-> Factory, part |-> running, k |-> k]
    <3>1. MadeFor(Factory, running)
      BY <1>1, <1>2 DEF MadeFor
    <3> QED BY <1>8, <3>1 DEF HoldsIn
  <2>1. k \in 1 .. fwSize
    <3> DEFINE n == PartLen(Factory, running)
    <3>1. n \in Nat /\ n <= fwSize /\ k \in 1 .. n
      BY <1>8
    <3> HIDE DEF n
    <3> QED BY <1>2, <3>1
  <2> DEFINE a == fwPos(running) + k - 1
             q == running - 1
             j == k - 1
  <2>2. running \in Region /\ q \in Int /\ q + 1 = running /\ j \in Int /\ 0 <= j /\ j < fwSize /\ j + 1 = k
    BY <1>1, <1>2, <2>1 DEF Region
  <2>3. a \in Cells(running)
    BY <2>1, <2>2, CellIs
  <2>4. a \in Addresses
    BY <2>2, <2>3 DEF Addresses
  <2>5. a = fwSize * q + j
    <3>1. fwPos(running) = fwSize * q
      <4>1. running = 1 \/ running = 2
        BY <1>1
      <4>2. CASE running = 1
        BY <1>2, <4>2 DEF fwPos
      <4>3. CASE running = 2
        BY <1>2, <4>3 DEF fwPos
      <4> QED BY <4>1, <4>2, <4>3
    <3> DEFINE p == fwPos(running)
               m == fwSize * q
    <3>2. p \in Nat /\ p = m /\ a = p + k - 1
      BY <2>2, <3>1, RegionInSectors
    <3> HIDE DEF p, m, a
    <3>3. a = m + j
      BY <2>1, <3>2
    <3> QED BY <3>3 DEF m
  <2> HIDE DEF a, q, j
  <2>6. a \div fwSize = q /\ a % fwSize = j
    <3>1. a \in Nat
      BY <1>3, <2>4
    <3> QED BY <1>2, <2>2, <2>5, <3>1, DividedOnce
  <2>7. cell(a) = [file |-> Factory, part |-> running, k |-> k]
    <3>1. (a \div fwSize) + 1 = running /\ (a % fwSize) + 1 = k
      BY <2>2, <2>6
    <3>2. running \in 1 .. 2 /\ k <= PartLen(Factory, running)
      <4>1. PartLen(Factory, running) \in Nat
        BY <1>8
      <4> QED BY <1>1, <4>1
    <3> QED BY <3>1, <3>2
  <2> HIDE DEF cell
  <2>8. flash[a] = cell(a)
    BY <1>1, <2>4
  <2> QED BY <2>7, <2>8 DEF a
<1>10. WholeInv
  <2>1. ReadyIn(ready, flash)
    BY <1>1 DEF ReadyIn, Url
  <2> QED BY <1>2, <1>9, <2>1 DEF WholeInv
<1> QED BY <1>5, <1>7, <1>10 DEF FlashInv

\* Every step of the device and its clients keeps the invariant.
LEMMA FlashNext == FlashInv /\ [Next]_vars => FlashInv'
<1> SUFFICES ASSUME FlashInv, [Next]_vars PROVE FlashInv'
  OBVIOUS
<1>1. ASSUME NEW c \in Conn, Post(c) PROVE FlashInv'
  BY <1>1, PostKeeps
<1>2. ASSUME NEW c \in Conn, Receive(c) PROVE FlashInv'
  BY <1>2, ReceiveKeeps
<1>3. ASSUME NEW c \in Conn, Abort(c) PROVE FlashInv'
  BY <1>3, AbortKeeps
<1>4. ASSUME NEW c \in Conn, cgiRebootFirmware(c) PROVE FlashInv'
  BY <1>4, RebootKeeps
<1>5. CASE resetTimerCb
  BY <1>5, TimerKeeps
<1>6. CASE PowerCut
  BY <1>6, PowerCutKeeps
<1>7. CASE UNCHANGED vars
  BY <1>7, StutterKeeps
<1> QED BY <1>1, <1>2, <1>3, <1>4, <1>5, <1>6, <1>7 DEF Next

\* cgiflash.c: wherever chunks, pages and sectors fall, an upload stands where
\* the bytes it received say and stored them at their place, two uploads to one
\* url know of each other, and what runs and what is ready is whole in flash.
THEOREM UploadInvariant == Spec => []FlashInv
<1>1. Init => FlashInv
  BY FlashInit
<1>2. FlashInv /\ [Next]_vars => FlashInv'
  BY FlashNext
<1> QED BY <1>1, <1>2, PTL DEF Spec

\* The image that runs stays whole, unless a plain firmware was put over it or
\* the device was booted with no upload ready, or another one begun since.
THEOREM UploadCorrect == Spec => []UploadInv
<1>1. FlashInv => UploadInv
  <2> SUFFICES ASSUME FlashInv PROVE UploadInv
    OBVIOUS
  <2>1. TypeOK
    <3>1. /\ running \in 1 .. 2 /\ timer \in BOOLEAN /\ trusted \in BOOLEAN
          /\ ready \in [Url -> SUBSET Files]
      BY DEF FlashInv, Shapes
    <3>2. ASSUME NEW c \in Conn
          PROVE  LET u == upload[c]
                 IN  /\ u.at \in {"idle", "posting"} /\ u.received \in 0 .. PostTotal(u)
                     /\ u.result \in {"none", "ok", "refused", "premature end"}
                     /\ u.s.state \in {"START", "WRITE", "SKIP", "DONE", "ERROR"}
                     /\ u.s.len >= 0 /\ u.s.skip >= 0 /\ Len(u.s.pageData) < PAGELEN
      <4> DEFINE u == upload[c]
                 r == u.received
                 total == PostTotal(u)
      <4>1. u \in Uploads /\ r <= total /\ Len(u.s.pageData) < PAGELEN
        BY InvFits DEF Fits
      <4>2. total \in Nat
        BY <4>1, TotalIs
      <4>3. /\ u.at \in {"idle", "posting"} /\ r \in Nat /\ u.s \in States
            /\ u.result \in {"none", "ok", "refused", "premature end"}
        BY <4>1 DEF Uploads
      <4>4. u.s.state \in {"START", "WRITE", "SKIP", "DONE", "ERROR"} /\ u.s.len >= 0 /\ u.s.skip >= 0
        <5> DEFINE s == u.s
                   len == s.len
                   skip == s.skip
        <5>1. s \in States
          BY <4>3
        <5> HIDE DEF s
        <5>2. s.state \in {"START", "WRITE", "SKIP", "DONE", "ERROR"} /\ len \in Nat /\ skip \in Nat
          BY <5>1 DEF States
        <5> HIDE DEF len, skip
        <5>3. len >= 0 /\ skip >= 0
          BY <5>2
        <5> QED BY <5>2, <5>3 DEF s, len, skip
      <4>5. r \in 0 .. total
        <5>1. r \in Nat /\ r <= total
          BY <4>1, <4>3
        <5> HIDE DEF r, total
        <5> QED BY <4>2, <5>1
      <4> QED BY <4>1, <4>3, <4>4, <4>5
    <3> QED BY <3>1, <3>2 DEF TypeOK
  <2>2. RunningWhole
    BY InvFits DEF RunningWhole, Holds, HoldsIn
  <2> QED BY <2>1, <2>2 DEF UploadInv
<1> QED BY <1>1, UploadInvariant, PTL

\* An upload that was told "ok", and that no other was under way with, is in
\* flash byte for byte until the next one to its url.
THEOREM FlashedCorrect == Spec => []OkIsFlashed
<1>1. FlashInv => OkIsFlashed
  BY InvFits DEF OkIsFlashed, Holds, HoldsIn, ReadyIn
<1> QED BY <1>1, UploadInvariant, PTL
===============================================================================

--------------------------- MODULE MCFlashUpload ---------------------------
(***************************************************************************)
(* FlashUpload with the files of its run, at one unit for 32 bytes.        *)
(***************************************************************************)
EXTENDS FlashUpload, TLC

Ota(tag, len1, len2, size) ==
    [type |-> "OTA", tag |-> tag, len1 |-> len1, len2 |-> len2, size |-> size]
One(type, len) == [type |-> type, tag |-> TRUE, len1 |-> len, len2 |-> 0, size |-> len]

MCFactory == Ota(TRUE, 7, 8, 17)

\* Images whose parts end in the middle of a page, of a sector and of a chunk;
\* one of them for another device and cut off; plain firmwares, of which one is
\* larger than a region, and a file system.
MCFiles == {Ota(TRUE, 5, 8, 15), Ota(FALSE, 7, 3, 10),
            One("BIN", 5), One("BIN", 9), One("ESPFS", 5), One("other", 2)}

Symmetry == Permutations(Conn)
=============================================================================

------------------------------ MODULE MCPages ------------------------------
(***************************************************************************)
(* Pages with the files of its run: every text of up to 7 characters as a  *)
(* template, and files behind files of all kinds whose names and contents  *)
(* have every remainder by the word of 4 bytes.                            *)
(***************************************************************************)
EXTENDS Pages

MCNames == {"a", "bb", "ccc", "dddd"}
MCNameLen(n) == CASE n = "a" -> 1 [] n = "bb" -> 2 [] n = "ccc" -> 3 [] n = "dddd" -> 4

Named(name, gzip, text, packed) == [name |-> name, gzip |-> gzip, text |-> text, packed |-> packed]
Bare(text) == [k \in DOMAIN text |-> <<text[k]>>]

\* Shorter, as long and longer in the image, each with bytes that stand for
\* nothing, for one character and for several.
Shrunk ==
    {<<<<"1", "2">>, <<>>, <<"3">>, <<"4", "5", "6">>>>, <<<<"1">>, <<"2", "3", "4", "5", "6">>, <<>>>>, <<<<"1">>, <<"2", "3">>>>, <<<<"1">>>>}

\* Every placing of "%" among different characters.
Texts == UNION {{[k \in 1 .. n |-> IF k \in percents THEN "%" ELSE ToString(k)] : percents \in SUBSET (1 .. n)}
                    : n \in 0 .. 7}

MCImages ==
    {<<Named(name, FALSE, text, Bare(text)),
       Named(IF name = "ccc" THEN "bb" ELSE "ccc", gzip, FlattenSeq(packed), packed)>>
        : name \in MCNames, text \in {<<"x", "%", "x", "x", "x">>, <<"x">>, <<"x", "x">>, <<"x", "x", "x">>},
          packed \in Shrunk, gzip \in BOOLEAN}
    \cup {<<Named("dddd", TRUE, <<"1", "2", "3">>, <<<<"1", "2", "3">>>>), Named("ccc", FALSE, text, Bare(text))>>
            : text \in Texts}
=============================================================================

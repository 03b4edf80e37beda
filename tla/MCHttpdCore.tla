---------------------------- MODULE MCHttpdCore ----------------------------
(***************************************************************************)
(* HttpdCore with the requests of its runs.                                *)
(***************************************************************************)
EXTENDS HttpdCore, TLC

Request(chunks, http11, found) ==
    [chunks |-> chunks, http11 |-> http11, url |-> TRUE, found |-> found]

\* A GET that is not kept alive and a POST in two chunks that is.
Usual == {Request(0, FALSE, TRUE), Request(2, TRUE, TRUE)}

\* A request that is kept alive, and one for no known URL that is not.
Gets == {Request(0, TRUE, TRUE), Request(0, FALSE, FALSE)}

\* A POST in two chunks to a URL that is not known.
LostPost == {Request(2, TRUE, FALSE)}

Symmetry == Permutations(Peer)
=============================================================================

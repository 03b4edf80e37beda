----------------------------- MODULE MCWifiCgi -----------------------------
(***************************************************************************)
(* WifiCgi with two clients, so that the list of one ends within that of   *)
(* the other, and scans that find nothing or two access points.            *)
(***************************************************************************)
EXTENDS WifiCgi

MCFound == {<<>>, <<"b", "a">>}
=============================================================================

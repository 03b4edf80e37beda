---------------------------- MODULE MCWifiServer ----------------------------
(***************************************************************************)
(* WifiServer with the bodies of its run: digits, and one that ends in a   *)
(* character that is none; behind them a digit or none.                    *)
(***************************************************************************)
EXTENDS WifiServer

MCBodies == {<<9, 0>>, <<9, 72>>}
MCLeftovers == {<<>>, <<5, 40>>}
=============================================================================

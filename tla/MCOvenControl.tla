---------------------------- MODULE MCOvenControl ----------------------------
(* OvenControl for TLC: thresholds and readings chosen so that warm-up errors *)
(* and control errors fall on both sides of zero and of the warm-up band.     *)
EXTENDS OvenControl

MCThresholds == {110, 120}
MCRawSamples == {0, 32 * 100, 32 * 111 + 31}
MCErrorValue == {0} \cup {t - d - o : t \in MCThresholds, o \in {0, WarmupOffset},
                                     d \in {r \div 32 : r \in MCRawSamples}}
AllBodies == {"1", "true", "0", "false", "other"}
=============================================================================

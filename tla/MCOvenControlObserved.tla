------------------------ MODULE MCOvenControlObserved ------------------------
(* OvenControlObserved for TLC, with the thresholds and readings of           *)
(* MCOvenControl.                                                             *)
EXTENDS OvenControlObserved

MCThresholds == {110, 120}
MCRawSamples == {0, 32 * 100, 32 * 111 + 31}
MCErrorValue == {0} \cup {t - d - o : t \in MCThresholds, o \in {0, WarmupOffset},
                                     d \in {r \div 32 : r \in MCRawSamples}}
TwoBodies == {"true", "0"}
==============================================================================

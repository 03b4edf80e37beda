------------------------- MODULE OvenControlObserved -------------------------
(***************************************************************************)
(* OvenControl with two history variables, which no step of the program    *)
(* reads: the errors of the latest cycles, and how many heating periods    *)
(* were begun since enable went down.                                      *)
(***************************************************************************)
EXTENDS OvenControl

VARIABLES
    recent,     \* the latest errors, oldest first (up to the capacity)
    lateHeats   \* heating periods begun since enable last went down (up to 2)

obsVars == <<vars, recent, lateHeats>>

Least(a, b) == IF a < b THEN a ELSE b
LastOf(s, n) == SubSeq(s, Len(s) - Least(n, Len(s)) + 1, Len(s))

\* The sum of the n latest elements of s, or of all of them, newest first.
SumOfLatest(s, n) ==
    LET sum[k \in 0 .. Len(s)] == IF k = 0 THEN 0 ELSE sum[k - 1] + s[Len(s) - k + 1]
    IN  sum[Least(n, Len(s))]

Observe ==
    /\ recent' = IF pc = "compute" /\ pc' = "gate"
                 THEN LastOf(Append(recent, err'), MAX_ERROR_HYSTORY) ELSE recent
    /\ lateHeats' = IF enable' THEN 0
                    ELSE IF pc = "switchOn" /\ pc' = "switchOff" /\ on_perc > 0
                         THEN Least(lateHeats + 1, 2) ELSE lateHeats

ObsInit == Init /\ recent = <<>> /\ lateHeats = 0

ObsNext == Next /\ Observe

ObsSpec == ObsInit /\ [][ObsNext]_obsVars

\* Integral term: for every horizon up to the capacity of the history,
\* sumLast(n) is the sum of the errors of the n latest cycles, or of all of
\* them when there are fewer, through every warm-up and restart.
SumsTheMostRecent ==
    \A n \in 1 .. MAX_ERROR_HYSTORY :
        sumLast(errors, nextToAdd, n) = SumOfLatest(recent, n)

\* Warm-up test: maxMeanError() is below a bound exactly when the error of each
\* of the latest MAX_ERROR_HYSTORY cycles is within it on either side of 0.
BoundsEveryRecentError ==
    \A bound \in {Abs(e) + k : e \in ErrorValue, k \in {0, 1}} :
        (maxMeanError(errors, nextToAdd) < bound) <=>
            bound > 0 /\ \A i \in DOMAIN recent : Abs(recent[i]) < bound

\* What the controller reads off the array is what the latest cycles measured.
ReadersAgree == SumsTheMostRecent /\ BoundsEveryRecentError

\* Disabling takes effect with the next cycle: whatever the interleaving of
\* PUT /enable with the cycle, at most one heating period is begun while
\* enable is down (the one whose cycle had already passed its test of enable).
AtMostOneLateHeat == lateHeats <= 1

\* When warm-up is left the oven has been within WarmupBand of its targets,
\* above or below them, for more than WarmupSize consecutive cycles; after a
\* restart the cycles of the control loop before it count as well, which the
\* code allows.
SettledMeansStreak ==
    [][pc = "settled" /\ phase' = "control" =>
           /\ Len(recent) > WarmupSize
           /\ \A i \in DOMAIN LastOf(recent, WarmupSize + 1) :
                 Abs(LastOf(recent, WarmupSize + 1)[i]) < WarmupBand]_obsVars
==============================================================================

---------------------------- MODULE ErrorHistory ----------------------------
(***************************************************************************)
(* class ErrorHistory (ovenFirmware/errorHistory.h, errorHystory.cpp): the *)
(* control errors of the last MAX_ERROR_HYSTORY cycles, kept in a C array  *)
(* that is filled from cell 0 and shifted down once it is full.  The new   *)
(* firmware carries the same class.                                        *)
(***************************************************************************)
EXTENDS Integers, Sequences, FiniteSets
LOCAL INSTANCE FiniteSetsExt

CONSTANTS
    MAX_ERROR_HYSTORY,  \* cells of the array (50 in ovenConfig.h)
    ErrorValue          \* the errors the controller can compute

ASSUME HistoryAssumption == /\ MAX_ERROR_HYSTORY \in Nat \ {0}
                            /\ ErrorValue \subseteq Int
                            /\ 0 \in ErrorValue

VARIABLES errors,    \* the array; cells from nextToAdd on are never read
          nextToAdd  \* number of cells in use

historyVars == <<errors, nextToAdd>>

Cells == 0 .. MAX_ERROR_HYSTORY - 1

Abs(n) == IF n < 0 THEN -n ELSE n

HistoryTypeOK == /\ errors \in [Cells -> ErrorValue]
                 /\ nextToAdd \in 0 .. MAX_ERROR_HYSTORY

\* The constructor sets nextToAdd only; cells that no operation reads before
\* writing them start as 0 here.
HistoryInit == /\ errors = [c \in Cells |-> 0]
               /\ nextToAdd = 0

\* A shift that stops one cell early: the newest but one error is lost.
AddErrorShortShift(e) ==
    IF nextToAdd < MAX_ERROR_HYSTORY
    THEN /\ errors' = [errors EXCEPT ![nextToAdd] = e]
         /\ nextToAdd' = nextToAdd + 1
    ELSE /\ errors' = [c \in Cells |->
                         IF c = MAX_ERROR_HYSTORY - 1 THEN e
                         ELSE IF c = MAX_ERROR_HYSTORY - 2 THEN errors[c]
                         ELSE errors[c + 1]]
         /\ UNCHANGED nextToAdd

\* A history that ignores errors once it is full.
AddErrorDropWhenFull(e) ==
    IF nextToAdd < MAX_ERROR_HYSTORY
    THEN /\ errors' = [errors EXCEPT ![nextToAdd] = e]
         /\ nextToAdd' = nextToAdd + 1
    ELSE UNCHANGED historyVars

addError(e) ==
    IF nextToAdd < MAX_ERROR_HYSTORY
    THEN /\ errors' = [errors EXCEPT ![nextToAdd] = e]
         /\ nextToAdd' = nextToAdd + 1
    ELSE /\ errors' = [c \in Cells |-> IF c = MAX_ERROR_HYSTORY - 1
                                       THEN e ELSE errors[c + 1]]
         /\ UNCHANGED nextToAdd

\* The loop of sumLast over the cells from first on: its sum when iter is at end.
SumCells(array, first, end) ==
    LET sum[iter \in first .. end] ==
            IF iter = first THEN 0 ELSE sum[iter - 1] + array[iter - 1]
    IN  sum[end]

\* sumLast with the two ends of the partly filled array swapped.
SumLastFromStart(array, size, lastCount) ==
    SumCells(array, 0, IF size < lastCount THEN size ELSE lastCount)

sumLast(array, size, lastCount) ==
    SumCells(array, IF size < lastCount THEN 0 ELSE size - lastCount, size)

\* maxMeanError without abs(): an oven far too hot looks settled.
MaxSignedError(array, size) ==
    Max({0} \cup {array[c] : c \in 0 .. size - 1})

\* The largest absolute error of the WHOLE history, whatever its name says.
maxMeanError(array, size) ==
    Max({0} \cup {Abs(array[c]) : c \in 0 .. size - 1})
-----------------------------------------------------------------------------
(* As a component of its own: any error may be added at any time.          *)

HistoryNext == \E e \in ErrorValue : addError(e)

HistorySpec == HistoryInit /\ [][HistoryNext]_historyVars

\* The array read as the sequence it stands for.
Window == [i \in 1 .. nextToAdd |-> errors[i - 1]]

Sliding == INSTANCE SlidingWindow
              WITH Width <- MAX_ERROR_HYSTORY,
                   Value <- ErrorValue,
                   window <- Window

\* The array, its fill index and the shift behave as a window over the last
\* MAX_ERROR_HYSTORY errors (ErrorHistory::addError).
ImplementsSlidingWindow == Sliding!Spec
==============================================================================

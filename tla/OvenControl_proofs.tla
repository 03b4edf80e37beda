-------------------------- MODULE OvenControl_proofs --------------------------
(***************************************************************************)
(* Proofs about OvenControl, for every size of the history, every warm-up  *)
(* rule, every set of thresholds, readings and request bodies, and both    *)
(* firmwares.  TypeOK alone is not inductive, nor are the safety           *)
(* invariants: ControlInv relates the locals of a cycle to the place the   *)
(* task has reached in it, and a flag to the place its handler has         *)
(* reached in the strcmp chain.                                            *)
(***************************************************************************)
EXTENDS OvenControlObserved, SequenceTheorems, WellFoundedInduction, TLAPS
LOCAL INSTANCE FiniteSetsExt
-----------------------------------------------------------------------------
(* The error history: the fill index stays inside the array, and array and *)
(* index implement the sliding window.                                     *)

\* Adding an error keeps the array and its fill index well formed.
LEMMA AddErrorType ==
    ASSUME HistoryTypeOK, NEW e \in ErrorValue, addError(e)
    PROVE  HistoryTypeOK'
BY HistoryAssumption DEF HistoryTypeOK, addError, Cells, historyVars

\* For every capacity: addError never writes outside errors[] and never moves
\* nextToAdd past its end (ErrorHistory::addError).
THEOREM HistoryTypeCorrect == HistorySpec => []HistoryTypeOK
<1>1. HistoryInit => HistoryTypeOK
  BY HistoryAssumption DEF HistoryInit, HistoryTypeOK, Cells
<1>2. HistoryTypeOK /\ [HistoryNext]_historyVars => HistoryTypeOK'
  <2> SUFFICES ASSUME HistoryTypeOK, [HistoryNext]_historyVars
               PROVE  HistoryTypeOK'
    OBVIOUS
  <2>1. CASE HistoryNext
    BY <2>1, AddErrorType DEF HistoryNext
  <2>2. CASE UNCHANGED historyVars
    BY <2>2 DEF HistoryTypeOK, historyVars
  <2> QED BY <2>1, <2>2
<1> QED BY <1>1, <1>2, PTL DEF HistorySpec

\* A sequence is the function of its elements.
LEMMA SeqIsFunction ==
    ASSUME NEW S, NEW s \in Seq(S)
    PROVE  s = [i \in 1 .. Len(s) |-> s[i]]
OBVIOUS

\* One addError on the array is one Push on the window it stands for.
LEMMA AddErrorPushes ==
    ASSUME HistoryTypeOK, NEW e \in ErrorValue, addError(e)
    PROVE  Sliding!Push(e)
<1>1. Window \in Seq(ErrorValue) /\ Len(Window) = nextToAdd
  BY HistoryAssumption DEF HistoryTypeOK, Window, Cells
<1>2. \A i \in 1 .. nextToAdd : Window[i] = errors[i - 1]
  BY DEF Window
<1>3. CASE nextToAdd < MAX_ERROR_HYSTORY
  <2>1. nextToAdd' = nextToAdd + 1 /\ errors' = [errors EXCEPT ![nextToAdd] = e]
    BY <1>3 DEF addError
  <2>2. Append(Window, e) = Window'
    <3>1. \A i \in 1 .. nextToAdd + 1 :
             Append(Window, e)[i] = IF i = nextToAdd + 1 THEN e ELSE errors[i - 1]
      BY <1>1, <1>2 DEF HistoryTypeOK
    <3>2. \A i \in 1 .. nextToAdd + 1 : Window'[i] = errors'[i - 1]
      BY <2>1 DEF Window
    <3>3. \A i \in 1 .. nextToAdd + 1 :
             errors'[i - 1] = IF i = nextToAdd + 1 THEN e ELSE errors[i - 1]
      <4> SUFFICES ASSUME NEW i \in 1 .. nextToAdd + 1
                   PROVE  errors'[i - 1] = IF i = nextToAdd + 1 THEN e ELSE errors[i - 1]
        OBVIOUS
      <4>1. i - 1 \in Cells /\ nextToAdd \in Cells
        BY <1>3, HistoryAssumption DEF HistoryTypeOK, Cells
      <4>2. errors'[i - 1] = IF i - 1 = nextToAdd THEN e ELSE errors[i - 1]
        BY <2>1, <4>1 DEF HistoryTypeOK
      <4> QED BY <4>2, <1>3, HistoryAssumption DEF HistoryTypeOK
    <3>4. /\ Append(Window, e) = [i \in 1 .. nextToAdd + 1 |-> Append(Window, e)[i]]
          /\ Window' = [i \in 1 .. nextToAdd + 1 |-> Window'[i]]
      BY <1>1, <2>1 DEF Window, HistoryTypeOK
    <3> QED BY <3>1, <3>2, <3>3, <3>4
  <2> QED BY <1>1, <1>3, <2>2 DEF Sliding!Push
<1>4. CASE ~(nextToAdd < MAX_ERROR_HYSTORY)
  <2>1. nextToAdd = MAX_ERROR_HYSTORY
    BY <1>4, HistoryAssumption DEF HistoryTypeOK
  <2>2. /\ nextToAdd' = nextToAdd
        /\ \A c \in Cells : errors'[c] = IF c = MAX_ERROR_HYSTORY - 1
                                         THEN e ELSE errors[c + 1]
    BY <1>4 DEF addError, HistoryTypeOK
  <2>3. Append(Tail(Window), e) = Window'
    <3> DEFINE N == MAX_ERROR_HYSTORY
    <3>1. Tail(Window) \in Seq(ErrorValue) /\ Len(Tail(Window)) = N - 1
      BY <1>1, <2>1, HistoryAssumption, HeadTailProperties
    <3>2. \A i \in 1 .. N - 1 : Tail(Window)[i] = errors[i]
      BY <1>1, <1>2, <2>1, HistoryAssumption, HeadTailProperties
    <3>3. \A i \in 1 .. N : Append(Tail(Window), e)[i] = IF i = N THEN e ELSE errors[i]
      BY <3>1, <3>2, HistoryAssumption
    <3>4. \A i \in 1 .. N : Window'[i] = IF i = N THEN e ELSE errors[i]
      BY <2>1, <2>2, HistoryAssumption DEF Window, Cells
    <3>5. Append(Tail(Window), e) = [i \in 1 .. N |-> Append(Tail(Window), e)[i]]
      <4>1. /\ Append(Tail(Window), e) \in Seq(ErrorValue)
            /\ Len(Append(Tail(Window), e)) = N
        BY <3>1, AppendProperties, HistoryAssumption
      <4>2. Append(Tail(Window), e) =
              [i \in 1 .. Len(Append(Tail(Window), e)) |-> Append(Tail(Window), e)[i]]
        BY <4>1, SeqIsFunction
      <4> QED BY <4>1, <4>2
    <3>6. Window' = [i \in 1 .. N |-> Window'[i]]
      BY <2>1, <2>2 DEF Window
    <3> QED BY <3>3, <3>4, <3>5, <3>6
  <2> QED BY <1>1, <2>1, <2>3 DEF Sliding!Push
<1> QED BY <1>3, <1>4

\* For every capacity: the array with its fill index implements the sliding
\* window over the last MAX_ERROR_HYSTORY errors.
THEOREM HistoryImplementsWindow == HistorySpec => ImplementsSlidingWindow
<1>1. HistoryInit => Sliding!Init
  BY DEF HistoryInit, Sliding!Init, Window
<1>2. HistoryTypeOK /\ [HistoryNext]_historyVars => [Sliding!Next]_Window
  <2> SUFFICES ASSUME HistoryTypeOK, [HistoryNext]_historyVars
               PROVE  [Sliding!Next]_Window
    OBVIOUS
  <2>1. CASE HistoryNext
    BY <2>1, AddErrorPushes DEF HistoryNext, Sliding!Next
  <2>2. CASE UNCHANGED historyVars
    BY <2>2 DEF historyVars, Window
  <2> QED BY <2>1, <2>2
<1> QED BY <1>1, <1>2, HistoryTypeCorrect, PTL
        DEF HistorySpec, ImplementsSlidingWindow, Sliding!Spec
-----------------------------------------------------------------------------
(* What sumLast and maxMeanError compute.  Both are loops over the cells in *)
(* use; induction over them is a look at a least cell that goes wrong.      *)

\* A set of numbers has a least one.
LEMMA LeastExists ==
    ASSUME NEW T, T \subseteq Nat, T # {}
    PROVE  \E x \in T : \A y \in T : x <= y
<1> DEFINE R == OpToRel(<, Nat)
<1>1. IsWellFoundedOn(R, Nat)
  BY NatLessThanWellFounded
<1>2. \A x, y \in Nat : <<y, x>> \in R <=> y < x
  BY DEF OpToRel
<1> HIDE DEF R
<1>3. PICK x \in T : \A y \in T : ~ (<<y, x>> \in R)
  BY <1>1, WFMin
<1>4. ASSUME NEW y \in T PROVE x <= y
  <2>1. x \in Nat /\ y \in Nat
    OBVIOUS
  <2>2. ~(y < x)
    BY <1>2, <1>3, <2>1, Zenon
  <2> QED BY <2>1, <2>2
<1> QED BY <1>3, <1>4

\* There is a function of the sums of d up to each place.
LEMMA SumsExist ==
    ASSUME NEW a \in Nat, NEW b \in Nat, a <= b, NEW d \in [a + 1 .. b -> Int]
    PROVE  \E f : /\ f = [c \in a .. b |-> f[c]]
                  /\ \A c \in a .. b : f[c] = IF c = a THEN 0 ELSE f[c - 1] + d[c]
<1> DEFINE Fits(f, m) == /\ f = [c \in a .. m |-> f[c]]
                         /\ \A c \in a .. m : f[c] = IF c = a THEN 0 ELSE f[c - 1] + d[c]
           Unfit == {m \in a .. b : ~ \E f : Fits(f, m)}
<1> SUFFICES ASSUME Unfit # {} PROVE FALSE
  <2>1. b \in a .. b
    OBVIOUS
  <2> QED BY <2>1
<1>1. PICK m \in Unfit : \A k \in Unfit : m <= k
  <2>1. Unfit \subseteq Nat
    OBVIOUS
  <2> HIDE DEF Unfit
  <2> QED BY <2>1, LeastExists
<1>2. m # a
  <2>1. Fits([c \in a .. a |-> 0], a)
    OBVIOUS
  <2> QED BY <2>1
<1>3. m \in Nat /\ m \in a + 1 .. b /\ m - 1 \in a .. b /\ ~(m <= m - 1)
  BY <1>2
<1>4. PICK f : Fits(f, m - 1)
  <2>1. m - 1 \notin Unfit
    <3> HIDE DEF Unfit
    <3> QED BY <1>1, <1>3
  <2> QED BY <1>3, <2>1
<1> DEFINE next == f[m - 1] + d[m]
           g == [c \in a .. m |-> IF c = m THEN next ELSE f[c]]
<1>5. \A c \in a .. m : g[c] = IF c = m THEN next ELSE f[c]
  OBVIOUS
<1>6. \A c \in a .. m - 1 : f[c] = IF c = a THEN 0 ELSE f[c - 1] + d[c]
  BY <1>4
<1>7. next = f[m - 1] + d[m]
  OBVIOUS
<1>8. g = [c \in a .. m |-> g[c]]
  OBVIOUS
<1> HIDE DEF g, next
<1>9. ASSUME NEW c \in a .. m PROVE g[c] = IF c = a THEN 0 ELSE g[c - 1] + d[c]
  <2>1. CASE c = m
    <3>1. g[c] = next /\ g[c - 1] = f[m - 1] /\ c # a
      BY <1>2, <1>3, <1>5, <2>1
    <3> QED BY <1>7, <2>1, <3>1
  <2>2. CASE c # m /\ c # a
    <3>1. c \in a .. m - 1 /\ g[c] = f[c] /\ g[c - 1] = f[c - 1]
      BY <1>3, <1>5, <2>2
    <3> QED BY <1>6, <2>2, <3>1
  <2>3. CASE c # m /\ c = a
    <3>1. c \in a .. m - 1 /\ g[c] = f[c]
      BY <1>3, <1>5, <2>3
    <3> QED BY <1>6, <2>3, <3>1
  <2> QED BY <2>1, <2>2, <2>3
<1>10. Fits(g, m)
  BY <1>8, <1>9
<1> QED BY <1>1, <1>10

\* Sums of integers are integers.
LEMMA SumsAreInt ==
    ASSUME NEW a \in Nat, NEW b \in Nat, NEW d \in [a + 1 .. b -> Int],
           NEW F, \A c \in a .. b : F[c] = IF c = a THEN 0 ELSE F[c - 1] + d[c]
    PROVE  \A c \in a .. b : F[c] \in Int
<1> DEFINE Bad == {c \in a .. b : F[c] \notin Int}
<1> SUFFICES ASSUME Bad # {} PROVE FALSE
  OBVIOUS
<1>1. PICK m \in Bad : \A k \in Bad : m <= k
  <2>1. Bad \subseteq Nat
    OBVIOUS
  <2> HIDE DEF Bad
  <2> QED BY <2>1, LeastExists
<1>2. m # a
  OBVIOUS
<1>3. m \in Nat /\ m \in a + 1 .. b /\ m - 1 \in a .. b /\ ~(m <= m - 1)
  BY <1>2
<1>4. F[m - 1] \in Int
  BY <1>1, <1>3
<1>5. F[m] = F[m - 1] + d[m] /\ d[m] \in Int
  BY <1>2, <1>3
<1> QED BY <1>4, <1>5

\* The cells from a to b - 1 hold numbers.
Numbers(array, a, b) == \A c \in a .. b - 1 : array[c] \in Int

\* The loop of sumLast, one cell after the other.
LEMMA SumCellsSteps ==
    ASSUME NEW a \in Nat, NEW b \in Nat, a <= b, NEW array, Numbers(array, a, b)
    PROVE  \E F : /\ SumCells(array, a, b) = F[b]
                  /\ \A c \in a .. b : F[c] \in Int /\ F[c] = IF c = a THEN 0 ELSE F[c - 1] + array[c - 1]
<1> DEFINE Fits(f) == f = [iter \in a .. b |-> IF iter = a THEN 0 ELSE f[iter - 1] + array[iter - 1]]
           F == CHOOSE f : Fits(f)
           d == [c \in a + 1 .. b |-> array[c - 1]]
<1>1. d \in [a + 1 .. b -> Int] /\ \A c \in a + 1 .. b : d[c] = array[c - 1]
  BY DEF Numbers
<1> HIDE DEF d
<1>2. PICK f : f = [c \in a .. b |-> f[c]] /\ \A c \in a .. b : f[c] = IF c = a THEN 0 ELSE f[c - 1] + d[c]
  BY <1>1, SumsExist
<1>3. \A c \in a .. b : IF c = a THEN TRUE ELSE d[c] = array[c - 1]
  BY <1>1
<1>4. Fits(f)
  BY <1>2, <1>3
<1>5. Fits(F)
  BY <1>4
<1>6. SumCells(array, a, b) = F[b]
  BY DEF SumCells
<1> HIDE DEF F
<1>7. \A c \in a .. b : F[c] = IF c = a THEN 0 ELSE F[c - 1] + array[c - 1]
  BY <1>5
<1>8. \A c \in a .. b : F[c] = IF c = a THEN 0 ELSE F[c - 1] + d[c]
  BY <1>3, <1>7
<1>9. \A c \in a .. b : F[c] \in Int
  BY <1>1, <1>8, SumsAreInt
<1> QED BY <1>6, <1>7, <1>9

\* The loop of maxMeanError finds the largest absolute error of the cells in use.
LEMMA MaxMeanErrorIs ==
    ASSUME NEW array, NEW size \in Nat, Numbers(array, 0, size)
    PROVE  /\ maxMeanError(array, size) \in Nat
           /\ \A c \in 0 .. size - 1 : Abs(array[c]) <= maxMeanError(array, size)
           /\ \/ maxMeanError(array, size) = 0
              \/ \E c \in 0 .. size - 1 : maxMeanError(array, size) = Abs(array[c])
<1> DEFINE S(m) == {0} \cup {Abs(array[c]) : c \in 0 .. m - 1}
           Greatest(m, x) == x \in S(m) /\ \A y \in S(m) : x >= y
           Without == {m \in 0 .. size : ~ \E x : Greatest(m, x)}
<1>1. \A c \in 0 .. size - 1 : Abs(array[c]) \in Nat
  BY DEF Abs, Numbers
<1>2. Without = {}
  <2> SUFFICES ASSUME Without # {} PROVE FALSE
    OBVIOUS
  <2>1. PICK m \in Without : \A k \in Without : m <= k
    <3>1. Without \subseteq Nat
      OBVIOUS
    <3> HIDE DEF Without
    <3> QED BY <3>1, LeastExists
  <2>2. m # 0
    <3>1. S(0) = {0}
      OBVIOUS
    <3>2. Greatest(0, 0)
      BY <3>1
    <3> QED BY <3>2
  <2>3. m \in Nat /\ m - 1 \in 0 .. size /\ m - 1 \in 0 .. size - 1 /\ ~(m <= m - 1)
    BY <2>2
  <2>4. PICK x : Greatest(m - 1, x)
    <3>1. m - 1 \notin Without
      <4> HIDE DEF Without
      <4> QED BY <2>1, <2>3
    <3> QED BY <2>3, <3>1
  <2> DEFINE z == Abs(array[m - 1])
  <2>5. \A y : y \in S(m) <=> y \in S(m - 1) \/ y = z
    <3>1. \A c : c \in 0 .. m - 1 <=> c \in 0 .. (m - 1) - 1 \/ c = m - 1
      BY <2>3
    <3> QED BY <3>1
  <2>6. z \in Nat /\ x \in Nat /\ S(m - 1) \subseteq Nat
    <3>1. \A c \in 0 .. (m - 1) - 1 : c \in 0 .. size - 1
      BY <2>3
    <3>2. S(m - 1) \subseteq Nat
      BY <1>1, <3>1
    <3> QED BY <1>1, <2>3, <2>4, <3>2
  <2> HIDE DEF S, z
  <2>7. Greatest(m, x) \/ Greatest(m, z)
    <3>1. CASE x >= z
      BY <2>4, <2>5, <3>1
    <3>2. CASE ~(x >= z)
      <4>1. ASSUME NEW y \in S(m - 1) PROVE z >= y
        <5>1. x >= y /\ y \in Nat
          BY <2>4, <2>6
        <5> QED BY <2>6, <3>2, <5>1
      <4> QED BY <2>5, <2>6, <4>1
    <3> QED BY <3>1, <3>2
  <2> QED BY <2>1, <2>7
<1>3. PICK x : Greatest(size, x)
  <2>1. size \in 0 .. size
    OBVIOUS
  <2> HIDE DEF Greatest, S
  <2> QED BY <1>2, <2>1
<1>4. Greatest(size, maxMeanError(array, size))
  BY <1>3 DEF maxMeanError, Max
<1> QED BY <1>1, <1>4
-----------------------------------------------------------------------------
(* The control task.                                                       *)

\* The control flow: the loop on restart belongs to the control phase, the
\* test at the end of warnup() to the warm-up, and a warm-up cycle that has
\* read its target holds one made from a threshold.
FlowInv ==
    /\ pc = "loop" => phase = "control"
    /\ pc = "settled" => phase = "warmup"
    /\ phase = "warmup" /\ pc \in {"read", "compute"}
         => \E t \in Thresholds : tempThreshold = t - WarmupOffset
    /\ phase = "control" => nextToAdd > WarmupSize

AfterCompute == {"gate", "switchOn", "switchOff", "settled", "loop"}

\* The duty and the pin along a cycle.
DutyInv ==
    /\ pc \in AfterCompute /\ err < 0 => on_perc = 0
    /\ pc = "switchOff" /\ on_perc > 0 => pin = 1
    /\ pc \in {"settled", "loop"} => (pin = 1 <=> on_perc = 100)

\* A flag that is still up before the last test of the chain belongs to the
\* body "0", which the last test lowers.
PutInv ==
    /\ restart => put.flag = "restart" /\ put.test > 1
    /\ put.flag = "restart" /\ put.test = 4 /\ restart => put.body = "0"
    /\ put.flag = "enable" /\ put.test = 4 /\ enable => put.body = "0"

ControlInv == TypeOK /\ FlowInv /\ DutyInv /\ PutInv

\* Clamp always gives a percentage.
LEMMA ClampRange == \A u : Clamp(u) \in 0 .. 100
BY DEF Clamp

\* PID::calc always gives a percentage, whatever error and history it is given.
LEMMA CalcRange == \A e, array, size : calc(e, array, size) \in 0 .. 100
BY ClampRange DEF calc

\* What readTempNoPrint stores is a temperature.
LEMMA DegreeRange == \A raw \in RawSamples : raw \div 32 \in Degrees
BY DEF Degrees

\* addError keeps the history well formed and never forgets how full it is.
LEMMA AddErrorGrows ==
    ASSUME HistoryTypeOK, NEW e \in ErrorValue, addError(e)
    PROVE  HistoryTypeOK' /\ nextToAdd' >= nextToAdd
BY HistoryAssumption DEF HistoryTypeOK, addError, Cells, historyVars

\* The boot state satisfies the inductive invariant.
LEMMA InitInv == Init => ControlInv
<1> SUFFICES ASSUME Init PROVE ControlInv
  OBVIOUS
<1>1. HistoryTypeOK
  BY HistoryAssumption DEF Init, HistoryInit, HistoryTypeOK, Cells
<1>2. 0 \in Degrees
  BY ControlAssumption DEF Degrees
<1>3. TypeOK
  <2>1. put \in Puts
    BY DEF Init, Puts
  <2>2. enable \in BOOLEAN /\ restart \in BOOLEAN
    BY DEF Init
  <2>3. spiW0 \in RawSamples /\ threshold \in Thresholds
    BY ControlAssumption DEF Init
  <2>4. degree \in Degrees /\ err \in ErrorValue
    BY <1>2, HistoryAssumption DEF Init
  <2>5. pin \in {0, 1} /\ on_perc \in 0 .. 100 /\ tempThreshold \in Int
    BY DEF Init
  <2>6. pc \in Labels /\ phase \in {"warmup", "control"}
    BY DEF Init, Labels
  <2> QED BY <1>1, <2>1, <2>2, <2>3, <2>4, <2>5, <2>6 DEF TypeOK
<1>4. FlowInv /\ DutyInv /\ PutInv
  BY DEF Init, FlowInv, DutyInv, PutInv, AfterCompute, NoPut
<1> QED BY <1>3, <1>4 DEF ControlInv

\* Every step of the control task (spi_task) preserves the inductive invariant.
LEMMA TaskPreservesInv == ControlInv /\ Task => ControlInv'
<1> SUFFICES ASSUME ControlInv, Task PROVE ControlInv'
  OBVIOUS
<1> USE DEF ControlInv
<1>1. CASE StartTask
  BY <1>1 DEF StartTask, Goto, TypeOK, FlowInv, DutyInv, PutInv, AfterCompute,
              Labels, HistoryTypeOK, globals, locals, historyVars
<1>2. CASE ResetRestart
  BY <1>2 DEF ResetRestart, Goto, TypeOK, FlowInv, DutyInv, PutInv, AfterCompute,
              Labels, HistoryTypeOK, locals, historyVars
<1>3. CASE ReadTarget
  <2>1. TypeOK'
    BY <1>3, ControlAssumption
       DEF ReadTarget, Goto, TypeOK, Labels, HistoryTypeOK, globals, historyVars
  <2>2. FlowInv'
    BY <1>3 DEF ReadTarget, Goto, TypeOK, FlowInv, globals, historyVars
  <2>3. DutyInv' /\ PutInv'
    BY <1>3 DEF ReadTarget, Goto, DutyInv, PutInv, AfterCompute, globals
  <2> QED BY <2>1, <2>2, <2>3
<1>4. CASE readTemp
  <2>1. degree' \in Degrees /\ spiW0' \in RawSamples
    BY <1>4, DegreeRange DEF readTemp, TypeOK
  <2>2. TypeOK'
    BY <1>4, <2>1 DEF readTemp, Goto, TypeOK, Labels, HistoryTypeOK, locals, historyVars
  <2>3. FlowInv'
    BY <1>4 DEF readTemp, Goto, FlowInv, locals, historyVars
  <2>4. DutyInv' /\ PutInv'
    BY <1>4 DEF readTemp, Goto, DutyInv, PutInv, AfterCompute, locals
  <2> QED BY <2>2, <2>3, <2>4
<1>5. CASE Compute
  <2>1. err' \in ErrorValue
    <3>1. CASE phase = "warmup"
      <4>1. PICK t \in Thresholds : tempThreshold = t - WarmupOffset
        BY <1>5, <3>1 DEF Compute, Goto, FlowInv
      <4>2. err' = t - WarmupOffset - degree
        BY <1>5, <3>1, <4>1 DEF Compute
      <4> QED BY <4>2, ControlAssumption DEF TypeOK
    <3>2. CASE phase = "control"
      <4>1. err' = threshold - degree
        BY <1>5, <3>2 DEF Compute
      <4> QED BY <4>1, ControlAssumption DEF TypeOK
    <3> QED BY <3>1, <3>2 DEF TypeOK
  <2>2. HistoryTypeOK' /\ nextToAdd' >= nextToAdd
    <3>1. addError(err')
      BY <1>5 DEF Compute
    <3> QED BY <2>1, <3>1, AddErrorGrows DEF TypeOK
  <2>3. on_perc' = calc(err', errors', nextToAdd')
    BY <1>5 DEF Compute
  <2>4. on_perc' \in 0 .. 100
    BY <2>3, CalcRange
  <2>5. err' < 0 => on_perc' = 0
    BY <2>3 DEF calc
  <2>6. TypeOK'
    BY <1>5, <2>1, <2>2, <2>4 DEF Compute, Goto, TypeOK, Labels, globals
  <2>7. FlowInv'
    BY <1>5, <2>2, ControlAssumption DEF Compute, Goto, TypeOK, HistoryTypeOK, FlowInv
  <2>8. DutyInv'
    BY <1>5, <2>5 DEF Compute, Goto, DutyInv
  <2>9. PutInv'
    BY <1>5 DEF Compute, PutInv, globals
  <2> QED BY <2>6, <2>7, <2>8, <2>9
<1>6. CASE Gate
  <2>1. TypeOK'
    BY <1>6 DEF Gate, Goto, TypeOK, Labels, HistoryTypeOK, globals, historyVars
  <2>2. FlowInv' /\ PutInv'
    BY <1>6 DEF Gate, Goto, FlowInv, PutInv, globals, historyVars
  <2>3. DutyInv'
    BY <1>6 DEF Gate, Goto, DutyInv, AfterCompute
  <2> QED BY <2>1, <2>2, <2>3
<1>7. CASE SwitchOn
  <2>1. TypeOK'
    BY <1>7 DEF SwitchOn, Goto, TypeOK, Labels, HistoryTypeOK, globals, locals, historyVars
  <2>2. FlowInv' /\ PutInv'
    BY <1>7 DEF SwitchOn, Goto, FlowInv, PutInv, globals, locals, historyVars
  <2>3. DutyInv'
    BY <1>7 DEF SwitchOn, Goto, DutyInv, AfterCompute, locals
  <2> QED BY <2>1, <2>2, <2>3
<1>8. CASE SwitchOff
  <2>1. TypeOK'
    BY <1>8 DEF SwitchOff, TypeOK, Labels, HistoryTypeOK, globals, locals, historyVars
  <2>2. FlowInv' /\ PutInv'
    BY <1>8 DEF SwitchOff, TypeOK, FlowInv, PutInv, globals, locals, historyVars
  <2>3. DutyInv'
    BY <1>8 DEF SwitchOff, TypeOK, DutyInv, AfterCompute, locals
  <2> QED BY <2>1, <2>2, <2>3
<1>9. CASE TestSettled
  <2>1. TypeOK'
    BY <1>9 DEF TestSettled, TypeOK, Labels, HistoryTypeOK, globals, locals, historyVars
  <2>2. FlowInv' /\ PutInv'
    BY <1>9 DEF TestSettled, FlowInv, PutInv, globals, locals, historyVars
  <2>3. DutyInv'
    BY <1>9 DEF TestSettled, DutyInv, AfterCompute, locals
  <2> QED BY <2>1, <2>2, <2>3
<1>10. CASE TestRestart
  <2>1. TypeOK'
    BY <1>10 DEF TestRestart, TypeOK, Labels, HistoryTypeOK, globals, locals, historyVars
  <2>2. FlowInv' /\ PutInv'
    BY <1>10 DEF TestRestart, FlowInv, PutInv, globals, locals, historyVars
  <2>3. DutyInv'
    BY <1>10 DEF TestRestart, DutyInv, AfterCompute, locals
  <2> QED BY <2>1, <2>2, <2>3
<1> QED BY <1>1, <1>2, <1>3, <1>4, <1>5, <1>6, <1>7, <1>8, <1>9, <1>10 DEF Task

\* The strcmp chain read as a lemma: where it leaves a flag.
LEMMA ChainSteps ==
    ASSUME NEW flag \in BOOLEAN
    PROVE  /\ put.test \in 1 .. 4 => AfterTest(flag, put.test) \in BOOLEAN
           /\ put.test = 3 /\ AfterTest(flag, put.test) => put.body = "0"
           /\ put.test = 4 /\ (flag => put.body = "0") => ~AfterTest(flag, put.test)
<1>1. put.test \in 1 .. 4 => Assigned[put.test] \in BOOLEAN
  <2>1. /\ Assigned[1] = TRUE /\ Assigned[2] = TRUE
        /\ Assigned[3] = FALSE /\ Assigned[4] = FALSE
    BY DEF Assigned
  <2>2. put.test \in 1 .. 4 => put.test \in {1, 2, 3, 4}
    OBVIOUS
  <2> QED BY <2>1, <2>2, Zenon
<1>2. put.test \in 1 .. 4 => AfterTest(flag, put.test) \in BOOLEAN
  BY <1>1 DEF AfterTest
<1>3. Literal[3] = "0" /\ Literal[4] = "false" /\ ~Assigned[3] /\ ~Assigned[4]
  BY DEF Literal, Assigned
<1>4. put.test = 3 /\ AfterTest(flag, put.test) => put.body = "0"
  BY <1>3 DEF AfterTest
<1>5. put.test = 4 /\ (flag => put.body = "0") => ~AfterTest(flag, put.test)
  BY <1>3 DEF AfterTest
<1> QED BY <1>2, <1>4, <1>5

\* Every step of the PUT handlers preserves the inductive invariant.
LEMMA HttpPreservesInv == ControlInv /\ Http => ControlInv'
<1> SUFFICES ASSUME ControlInv, Http PROVE ControlInv'
  OBVIOUS
<1> USE DEF ControlInv
<1>1. CASE setTemperature
  BY <1>1 DEF setTemperature, task, TypeOK, FlowInv, DutyInv, PutInv, AfterCompute,
              Labels, HistoryTypeOK, locals, historyVars
<1>2. CASE BeginPut
  <2>1. PICK f \in {"enable", "restart"}, b \in Bodies :
           put' = [flag |-> f, body |-> b, test |-> 1]
    BY <1>2 DEF BeginPut
  <2>2. put' \in Puts
    BY <2>1 DEF Puts
  <2>3. TypeOK' /\ FlowInv' /\ DutyInv'
    BY <1>2, <2>2 DEF BeginPut, task, TypeOK, FlowInv, DutyInv, AfterCompute,
                      HistoryTypeOK, globals, locals, historyVars
  <2>4. PutInv'
    BY <1>2, <2>1 DEF BeginPut, PutInv, NoPut, globals
  <2> QED BY <2>3, <2>4
<1>3. CASE setEnable
  <2>1. put \in [flag : {"enable", "restart"}, body : Bodies, test : 1 .. 4]
    BY <1>3 DEF setEnable, TypeOK, Puts, NoPut
  <2>2. enable' \in BOOLEAN /\ put' \in Puts
    BY <1>3, <2>1, ChainSteps DEF setEnable, NextTest, Puts, TypeOK
  <2>3. TypeOK' /\ FlowInv' /\ DutyInv'
    BY <1>3, <2>2 DEF setEnable, task, TypeOK, FlowInv, DutyInv, AfterCompute,
                      HistoryTypeOK, locals, historyVars
  <2>4. PutInv'
    BY <1>3, <2>1, ChainSteps DEF setEnable, NextTest, PutInv, NoPut, TypeOK
  <2> QED BY <2>3, <2>4
<1>4. CASE setRestart
  <2>1. put \in [flag : {"enable", "restart"}, body : Bodies, test : 1 .. 4]
    BY <1>4 DEF setRestart, TypeOK, Puts, NoPut
  <2>2. restart' \in BOOLEAN /\ put' \in Puts
    BY <1>4, <2>1, ChainSteps DEF setRestart, NextTest, Puts, TypeOK
  <2>3. TypeOK' /\ FlowInv' /\ DutyInv'
    BY <1>4, <2>2 DEF setRestart, task, TypeOK, FlowInv, DutyInv, AfterCompute,
                      HistoryTypeOK, locals, historyVars
  <2>4. PutInv'
    BY <1>4, <2>1, ChainSteps DEF setRestart, NextTest, PutInv, NoPut, TypeOK
  <2> QED BY <2>3, <2>4
<1> QED BY <1>1, <1>2, <1>3, <1>4 DEF Http

\* The inductive invariant holds in every reachable state, for every interleaving
\* of spi_task with the PUT handlers.
THEOREM ControlInvariant == Spec => []ControlInv
<1>1. ControlInv /\ [Next]_vars => ControlInv'
  <2>1. ControlInv /\ UNCHANGED vars => ControlInv'
    BY DEF vars, ControlInv, TypeOK, FlowInv, DutyInv, PutInv, AfterCompute, HistoryTypeOK
  <2> QED BY <2>1, TaskPreservesInv, HttpPreservesInv DEF Next
<1> QED BY <1>1, InitInv, PTL DEF Spec

\* Every variable keeps its type; in particular the duty is always a percentage
\* (PID::calc) and the fill index stays inside errors[].
THEOREM TypeCorrect == Spec => []TypeOK
BY ControlInvariant, PTL DEF ControlInv

\* The cycle adds one error, of those the history is made for, and no other
\* step touches the array.
LEMMA HistoryStep ==
    ASSUME ControlInv, [Next]_vars
    PROVE  [HistoryNext]_historyVars
<1>1. CASE Compute
  <2>1. TypeOK'
    BY <1>1, TaskPreservesInv DEF Task, ControlInv
  <2> QED BY <1>1, <2>1 DEF Compute, HistoryNext, TypeOK
<1>2. CASE Task /\ ~Compute
  BY <1>2 DEF Task, StartTask, ResetRestart, ReadTarget, readTemp, Gate, SwitchOn,
              SwitchOff, TestSettled, TestRestart
<1>3. CASE Http
  BY <1>3 DEF Http, setTemperature, BeginPut, setEnable, setRestart, task
<1>4. CASE UNCHANGED vars
  BY <1>4 DEF vars, historyVars
<1> QED BY <1>1, <1>2, <1>3, <1>4 DEF Next

\* In the controller, through every warm-up and restart, the array is the sliding
\* window over the errors of its cycles.
THEOREM WindowCorrect == Spec => ImplementsSlidingWindow
<1>1. Init => HistoryInit
  BY DEF Init
<1>2. ControlInv /\ [Next]_vars => [HistoryNext]_historyVars
  BY HistoryStep
<1>3. Spec => HistorySpec
  BY <1>1, <1>2, ControlInvariant, PTL DEF Spec, HistorySpec
<1> QED BY <1>3, HistoryImplementsWindow, PTL

\* The heater pin at the end of every cycle shows the duty of that cycle.
THEOREM DutyCorrect == Spec => []DutyDelivered
<1>1. ControlInv => DutyDelivered
  BY DEF ControlInv, DutyInv, DutyDelivered
<1> QED BY <1>1, ControlInvariant, PTL

\* A cycle above its target ends with the heater off.
THEOREM HotOvenCorrect == Spec => []HotOvenCoasts
<1>1. ControlInv => HotOvenCoasts
  BY DEF ControlInv, TypeOK, DutyInv, AfterCompute, HotOvenCoasts
<1> QED BY <1>1, ControlInvariant, PTL

\* Both at once: what a cycle leaves on the pin is what its measurement asked for.
THEOREM HeaterCorrect == Spec => []HeaterFollowsCycle
BY DutyCorrect, HotOvenCorrect, PTL DEF HeaterFollowsCycle

\* The control loop runs only with enough history behind it.
THEOREM HistoryCorrect == Spec => []ControlHasHistory
<1>1. ControlInv => ControlHasHistory
  BY DEF ControlInv, FlowInv, ControlHasHistory
<1> QED BY <1>1, ControlInvariant, PTL

\* restart is up only inside the handler of PUT /restart.
THEOREM RestartCorrect == Spec => []RestartOnlyInHandler
<1>1. ControlInv => RestartOnlyInHandler
  BY DEF ControlInv, PutInv, RestartOnlyInHandler
<1> QED BY <1>1, ControlInvariant, PTL

\* A new warm-up begins only in the middle of a PUT /restart.
THEOREM RewarmCorrect == Spec => RewarmOnlyInsidePut
<1>1. ControlInv /\ [Next]_vars
        => [pc = "loop" /\ pc' = "reset" => put.flag = "restart" /\ put.test > 1]_vars
  <2> SUFFICES ASSUME ControlInv, Next, pc = "loop", pc' = "reset"
               PROVE  put.flag = "restart" /\ put.test > 1
    OBVIOUS
  <2>1. restart
    BY DEF Next, Task, Http, StartTask, ResetRestart, ReadTarget, readTemp, Compute,
           Gate, SwitchOn, SwitchOff, TestSettled, TestRestart, Goto, setTemperature,
           BeginPut, setEnable, setRestart, task
  <2> QED BY <2>1 DEF ControlInv, PutInv
<1> QED BY <1>1, ControlInvariant, PTL DEF Spec, RewarmOnlyInsidePut

\* enable, once lowered by a finished PUT /enable, is never up again at rest.
THEOREM EnableCorrect == Spec => EnableNeverRegained
<1>1. ControlInv /\ [Next]_vars
        => [enable' /\ put'.flag # "enable" => enable /\ put.flag # "enable"]_vars
  <2> SUFFICES ASSUME ControlInv, Next, enable', put'.flag # "enable"
               PROVE  enable /\ put.flag # "enable"
    OBVIOUS
  <2>1. CASE Task
    BY <2>1 DEF Task, StartTask, ResetRestart, ReadTarget, readTemp, Compute, Gate,
                SwitchOn, SwitchOff, TestSettled, TestRestart, globals
  <2>2. CASE setTemperature
    BY <2>2 DEF setTemperature
  <2>3. CASE setEnable
    <3>1. put \in [flag : {"enable", "restart"}, body : Bodies, test : 1 .. 4]
      BY <2>3 DEF setEnable, ControlInv, TypeOK, Puts, NoPut
    <3>2. put.test = 4
      BY <2>3, <3>1 DEF setEnable, NextTest
    <3>3. ~enable'
      BY <2>3, <3>2, ChainSteps DEF setEnable, ControlInv, TypeOK, PutInv
    <3> QED BY <3>3
  <2>4. CASE BeginPut
    BY <2>4 DEF BeginPut, NoPut, globals
  <2>5. CASE setRestart
    BY <2>5 DEF setRestart
  <2> QED BY <2>1, <2>2, <2>3, <2>4, <2>5 DEF Next, Http
<1> QED BY <1>1, ControlInvariant, PTL DEF Spec, EnableNeverRegained
-----------------------------------------------------------------------------
(* newOvenFirmware: readTemp waits for the transfer.                         *)

\* From the reading on, degree is the conversion of the last transfer.
SampleInv == pc = "compute" \/ pc \in AfterCompute => degree = spiW0 \div 32

\* With a transfer that is waited for, degree is always the latest conversion.
LEMMA SampleStep ==
    ASSUME WaitsForTransfer = TRUE, SampleInv, [Next]_vars
    PROVE  SampleInv'
<1>1. CASE readTemp
  <2>1. \E raw \in RawSamples : \E got \in {raw} : spiW0' = raw /\ degree' = got \div 32
    BY <1>1 DEF readTemp
  <2> QED BY <2>1 DEF SampleInv
<1>2. CASE StartTask \/ ResetRestart \/ ReadTarget
  BY <1>2 DEF StartTask, ResetRestart, ReadTarget, Goto, SampleInv, AfterCompute
<1>3. CASE Compute \/ Gate \/ SwitchOn
  BY <1>3 DEF Compute, Gate, SwitchOn, Goto, SampleInv, AfterCompute, globals
<1>4. CASE SwitchOff \/ TestSettled \/ TestRestart
  BY <1>4 DEF SwitchOff, TestSettled, TestRestart, SampleInv, AfterCompute, globals
<1>5. CASE Http
  BY <1>5 DEF Http, setTemperature, BeginPut, setEnable, setRestart, SampleInv,
              globals, task
<1>6. CASE UNCHANGED vars
  BY <1>6 DEF vars, SampleInv
<1> QED BY <1>1, <1>2, <1>3, <1>4, <1>5, <1>6 DEF Next, Task

\* With a transfer that is waited for, no heating cycle rests on a conversion
\* above its target.
THEOREM FreshSampleCorrect ==
    ASSUME WaitsForTransfer = TRUE
    PROVE  Spec => []HeatsOnFreshSample
<1>1. Init => SampleInv
  BY DEF Init, SampleInv, AfterCompute
<1>2. SampleInv /\ [Next]_vars => SampleInv'
  BY SampleStep
<1>3. ControlInv /\ SampleInv => HeatsOnFreshSample
  <2> SUFFICES ASSUME ControlInv, SampleInv, on_perc > 0,
                      pc \in {"switchOff", "settled", "loop"}
               PROVE  spiW0 \div 32 <= err + degree
    BY DEF HeatsOnFreshSample
  <2>1. degree = spiW0 \div 32
    BY DEF SampleInv, AfterCompute
  <2>2. ~(err < 0)
    BY DEF ControlInv, TypeOK, DutyInv, AfterCompute
  <2>3. err \in Int /\ degree \in Int
    BY HistoryAssumption, ControlAssumption DEF ControlInv, TypeOK, Degrees
  <2> QED BY <2>1, <2>2, <2>3
<1> QED BY <1>1, <1>2, <1>3, ControlInvariant, PTL DEF Spec
-----------------------------------------------------------------------------
(* The history variables of OvenControlObserved.                             *)

\* A late heating period can only be the one of a cycle that passed its test of
\* enable before enable went down, so there is none left once it has begun.
LateInv ==
    /\ lateHeats \in 0 .. 1
    /\ enable => lateHeats = 0
    /\ lateHeats = 1 => ~(pc = "switchOn" /\ on_perc > 0)

\* Every step preserves the invariant behind AtMostOneLateHeat.
LEMMA LateStep ==
    ASSUME ControlInv, LateInv, ObsNext
    PROVE  LateInv'
<1> USE DEF LateInv, ObsNext, Observe
<1>1. CASE enable'
  BY <1>1
<1>2. CASE ~enable' /\ pc = "switchOn" /\ pc' = "switchOff" /\ on_perc > 0
  <2>1. lateHeats = 0
    BY <1>2
  <2> QED BY <1>2, <2>1 DEF Least
<1>3. CASE ~enable' /\ ~(pc = "switchOn" /\ pc' = "switchOff" /\ on_perc > 0)
  <2>1. lateHeats' = lateHeats
    BY <1>3
  <2>2. CASE Gate
    <3>1. enable' = enable /\ on_perc' = 0
      BY <2>2, <1>3 DEF Gate, globals
    <3> QED BY <2>1, <3>1, <1>3
  <2>3. CASE Task /\ ~Gate
    <3>1. enable' = enable /\ pc' # "switchOn"
      BY <2>3 DEF Task, StartTask, ResetRestart, ReadTarget, readTemp, Compute, SwitchOn,
                  SwitchOff, TestSettled, TestRestart, Goto, globals
    <3> QED BY <2>1, <3>1, <1>3
  <2>4. CASE Http
    <3>1. pc' = pc /\ on_perc' = on_perc
      BY <2>4 DEF Http, setTemperature, BeginPut, setEnable, setRestart, task, locals
    <3> QED BY <2>1, <3>1, <1>3
  <2> QED BY <2>2, <2>3, <2>4 DEF Next
<1> QED BY <1>1, <1>2, <1>3

\* For every interleaving: at most one heating period begins while enable is
\* down.
THEOREM LateHeatCorrect == ObsSpec => []AtMostOneLateHeat
<1>1. ObsInit => ControlInv /\ LateInv
  BY InitInv DEF ObsInit, Init, LateInv
<1>2. ControlInv /\ LateInv /\ [ObsNext]_obsVars => (ControlInv /\ LateInv)'
  <2> SUFFICES ASSUME ControlInv, LateInv, [ObsNext]_obsVars
               PROVE  (ControlInv /\ LateInv)'
    OBVIOUS
  <2>1. CASE ObsNext
    BY <2>1, LateStep, TaskPreservesInv, HttpPreservesInv DEF ObsNext, Next
  <2>2. CASE UNCHANGED obsVars
    BY <2>2 DEF obsVars, vars, LateInv, ControlInv, TypeOK, FlowInv, DutyInv, PutInv,
                AfterCompute, HistoryTypeOK
  <2> QED BY <2>1, <2>2
<1>3. LateInv => AtMostOneLateHeat
  BY DEF LateInv, AtMostOneLateHeat
<1> QED BY <1>1, <1>2, <1>3, PTL DEF ObsSpec
-----------------------------------------------------------------------------
(* What the controller reads off the array.                                *)

\* The sums of the latest elements of a sequence, newest first.
LEMMA LatestSteps ==
    ASSUME NEW s \in Seq(Int), NEW n \in Nat
    PROVE  \E F : /\ SumOfLatest(s, n) = F[Least(n, Len(s))]
                  /\ \A k \in 0 .. Len(s) : F[k] \in Int /\ F[k] = IF k = 0 THEN 0 ELSE F[k - 1] + s[Len(s) - k + 1]
<1> DEFINE len == Len(s)
           Fits(f) == f = [k \in 0 .. len |-> IF k = 0 THEN 0 ELSE f[k - 1] + s[len - k + 1]]
           F == CHOOSE f : Fits(f)
           d == [k \in 0 + 1 .. len |-> s[len - k + 1]]
<1>1. len \in Nat /\ 0 \in Nat /\ 0 <= len /\ \A i \in 1 .. len : s[i] \in Int
  OBVIOUS
<1>2. SumOfLatest(s, n) = F[Least(n, len)]
  BY DEF SumOfLatest
<1> HIDE DEF len
<1>3. d \in [0 + 1 .. len -> Int] /\ \A k \in 1 .. len : d[k] = s[len - k + 1]
  <2>1. \A k \in 1 .. len : len - k + 1 \in 1 .. len
    BY <1>1
  <2>2. \A k \in 1 .. len : s[len - k + 1] \in Int
    BY <1>1, <2>1
  <2>3. 0 + 1 = 1
    OBVIOUS
  <2> QED BY <2>2, <2>3
<1> HIDE DEF d
<1>4. PICK f : f = [c \in 0 .. len |-> f[c]] /\ \A c \in 0 .. len : f[c] = IF c = 0 THEN 0 ELSE f[c - 1] + d[c]
  BY <1>1, <1>3, SumsExist
<1>5. \A k \in 0 .. len : IF k = 0 THEN TRUE ELSE d[k] = s[len - k + 1]
  BY <1>1, <1>3
<1>6. Fits(f)
  BY <1>4, <1>5
<1>7. Fits(F)
  BY <1>6
<1> HIDE DEF F
<1>8. \A k \in 0 .. len : F[k] = IF k = 0 THEN 0 ELSE F[k - 1] + s[len - k + 1]
  BY <1>7
<1>9. \A k \in 0 .. len : F[k] = IF k = 0 THEN 0 ELSE F[k - 1] + d[k]
  BY <1>5, <1>8
<1>10. \A k \in 0 .. len : F[k] \in Int
  BY <1>1, <1>3, <1>9, SumsAreInt
<1> QED BY <1>2, <1>8, <1>10 DEF len

\* sumLast, which goes up the cells, is the sum of the latest elements of the
\* sequence in them: what is summed of the one and what is left of the other
\* make the same sum at every cell.
LEMMA SumAgrees ==
    ASSUME NEW array, NEW size \in Nat, NEW s \in Seq(Int), Len(s) = size,
           \A i \in 1 .. size : s[i] = array[i - 1], NEW n \in Nat
    PROVE  sumLast(array, size, n) = SumOfLatest(s, n)
<1> DEFINE m == Least(n, size)
           start == IF size < n THEN 0 ELSE size - n
<1>1. m \in 0 .. size /\ start = size - m /\ start \in Nat /\ start <= size
  BY DEF Least
<1> HIDE DEF m
<1>2. \A c \in 0 .. size - 1 : array[c] = s[c + 1] /\ array[c] \in Int
  <2> SUFFICES ASSUME NEW c \in 0 .. size - 1 PROVE array[c] = s[c + 1] /\ array[c] \in Int
    OBVIOUS
  <2> DEFINE i == c + 1
  <2>1. i \in 1 .. size /\ i - 1 = c
    OBVIOUS
  <2> HIDE DEF i
  <2>2. s[i] = array[i - 1] /\ s[i] \in Int
    BY <2>1
  <2>3. array[c] = s[i] /\ array[c] \in Int
    BY <2>1, <2>2
  <2> QED BY <2>3 DEF i
<1>3. PICK P : /\ SumCells(array, start, size) = P[size]
               /\ \A c \in start .. size : P[c] \in Int /\ P[c] = IF c = start THEN 0 ELSE P[c - 1] + array[c - 1]
  <2>1. Numbers(array, start, size)
    BY <1>1, <1>2 DEF Numbers
  <2>2. start \in Nat /\ size \in Nat /\ start <= size
    BY <1>1
  <2> HIDE DEF start
  <2>3. \E P : /\ SumCells(array, start, size) = P[size]
               /\ \A c \in start .. size : P[c] \in Int /\ P[c] = IF c = start THEN 0 ELSE P[c - 1] + array[c - 1]
    BY <2>1, <2>2, SumCellsSteps
  <2> QED BY <2>3, Zenon
<1>4. PICK F : /\ SumOfLatest(s, n) = F[m]
               /\ \A k \in 0 .. size : F[k] \in Int /\ F[k] = IF k = 0 THEN 0 ELSE F[k - 1] + s[size - k + 1]
  <2>1. \E F : /\ SumOfLatest(s, n) = F[Least(n, Len(s))]
               /\ \A k \in 0 .. Len(s) : F[k] \in Int /\ F[k] = IF k = 0 THEN 0 ELSE F[k - 1] + s[Len(s) - k + 1]
    BY LatestSteps, Zenon
  <2>2. Len(s) = size
    OBVIOUS
  <2> QED BY <2>1, <2>2, Zenon DEF m
<1>5. sumLast(array, size, n) = P[size]
  BY <1>3 DEF sumLast
<1> HIDE DEF start
<1> DEFINE Bad == {k \in 0 .. m : P[size] # P[size - k] + F[k]}
<1>6. Bad = {}
  <2> SUFFICES ASSUME Bad # {} PROVE FALSE
    OBVIOUS
  <2>1. PICK k \in Bad : \A j \in Bad : k <= j
    <3>1. Bad \subseteq Nat
      BY <1>1
    <3> HIDE DEF Bad
    <3> QED BY <3>1, LeastExists
  <2>2. k \in 0 .. m /\ P[size] # P[size - k] + F[k]
    OBVIOUS
  <2>3. k # 0
    <3>1. F[0] = 0 /\ P[size] \in Int
      BY <1>1, <1>3, <1>4
    <3> QED BY <2>2, <3>1
  <2>4. k - 1 \in 0 .. m /\ ~(k <= k - 1)
    BY <1>1, <2>2, <2>3
  <2>5. P[size] = P[size - (k - 1)] + F[k - 1]
    <3>1. k - 1 \notin Bad
      <4> HIDE DEF Bad
      <4> QED BY <2>1, <2>4
    <3> QED BY <2>4, <3>1
  <2> DEFINE c == size - (k - 1)
  <2>6. c \in start .. size /\ c # start /\ c - 1 = size - k /\ c - 1 \in start .. size
        /\ c - 1 \in 0 .. size - 1 /\ (c - 1) + 1 = size - k + 1
    BY <1>1, <2>2, <2>3
  <2>7. P[c] = P[c - 1] + array[c - 1] /\ P[c - 1] \in Int /\ array[c - 1] \in Int
    BY <1>2, <1>3, <2>6
  <2>8. array[c - 1] = s[size - k + 1]
    BY <1>2, <2>6
  <2>9. F[k] = F[k - 1] + s[size - k + 1] /\ F[k - 1] \in Int
    <3>1. k \in 0 .. size /\ k - 1 \in 0 .. size
      BY <1>1, <2>2, <2>4
    <3> QED BY <1>4, <2>3, <3>1
  <2>10. P[size] = (P[c - 1] + array[c - 1]) + F[k - 1] /\ F[k] = F[k - 1] + array[c - 1]
    BY <2>5, <2>7, <2>8, <2>9
  <2>11. P[size] = P[c - 1] + F[k]
    BY <2>7, <2>9, <2>10
  <2> QED BY <2>2, <2>6, <2>11
<1>7. P[size] = P[size - m] + F[m]
  <2>1. m \in 0 .. m
    BY <1>1
  <2> QED BY <1>6, <2>1
<1>8. P[size - m] = 0
  BY <1>1, <1>3
<1>9. F[m] \in Int
  BY <1>1, <1>4
<1> QED BY <1>4, <1>5, <1>7, <1>8, <1>9
-----------------------------------------------------------------------------

\* The array holds the latest errors.
RecentInv ==
    /\ recent \in Seq(ErrorValue) /\ Len(recent) = nextToAdd
    /\ \A i \in 1 .. nextToAdd : recent[i] = errors[i - 1]

\* The latest n elements of a sequence.
LEMMA LastOfIs ==
    ASSUME NEW S, NEW s \in Seq(S), NEW n \in Nat
    PROVE  /\ LastOf(s, n) \in Seq(S) /\ Len(LastOf(s, n)) = Least(n, Len(s))
           /\ DOMAIN LastOf(s, n) = 1 .. Least(n, Len(s))
           /\ \A i \in 1 .. Least(n, Len(s)) :
                 /\ Len(s) - Least(n, Len(s)) + i \in 1 .. Len(s)
                 /\ LastOf(s, n)[i] = s[Len(s) - Least(n, Len(s)) + i]
<1> DEFINE len == Len(s)
           m == Least(n, len)
           first == len - m + 1
<1>1. len \in Nat /\ m \in 0 .. len
  BY DEF Least
<1>2. LastOf(s, n) = SubSeq(s, first, len)
  BY DEF LastOf
<1> HIDE DEF m, len
<1>3. first \in 1 .. len + 1 /\ \A i \in 1 .. m : len - m + i \in 1 .. len /\ first + i - 1 = len - m + i
  BY <1>1
<1>4. CASE m = 0
  <2>1. first > len
    BY <1>1, <1>4
  <2>2. SubSeq(s, first, len) = <<>>
    BY <1>1, <1>3, <2>1 DEF len
  <2>3. <<>> \in Seq(S) /\ Len(<<>>) = 0 /\ DOMAIN <<>> = 1 .. 0
    OBVIOUS
  <2> QED BY <1>1, <1>2, <1>4, <2>2, <2>3 DEF m, len
<1>5. CASE m # 0
  <2>1. first \in 1 .. len
    BY <1>1, <1>3, <1>5
  <2>2. /\ SubSeq(s, first, len) \in Seq(S) /\ Len(SubSeq(s, first, len)) = m
        /\ \A i \in 1 .. m : SubSeq(s, first, len)[i] = s[first + i - 1]
    <3>1. len - first + 1 = m
      BY <1>1
    <3> QED BY <1>1, <2>1, <3>1, SubSeqProperties DEF len
  <2>3. DOMAIN SubSeq(s, first, len) = 1 .. m
    BY <2>2
  <2> QED BY <1>2, <1>3, <2>2, <2>3 DEF m, len
<1> QED BY <1>4, <1>5

\* A cycle adds its error at the end of both; no other step touches either.
LEMMA RecentStep ==
    ASSUME ControlInv, RecentInv, ObsNext
    PROVE  RecentInv'
<1>1. CASE Compute
  <2> DEFINE e == err'
             s == Append(recent, e)
  <2>1. e \in ErrorValue /\ addError(e)
    <3>1. TypeOK'
      BY <1>1, TaskPreservesInv DEF Task, ControlInv
    <3> QED BY <1>1, <3>1 DEF Compute, TypeOK
  <2>2. recent' = LastOf(s, MAX_ERROR_HYSTORY)
    BY <1>1 DEF ObsNext, Observe, Compute, Goto
  <2> HIDE DEF e
  <2>3. /\ nextToAdd \in Nat /\ nextToAdd <= MAX_ERROR_HYSTORY /\ MAX_ERROR_HYSTORY \in Nat \ {0}
        /\ errors \in [Cells -> ErrorValue]
    BY HistoryAssumption DEF ControlInv, TypeOK, HistoryTypeOK
  <2>4. /\ s \in Seq(ErrorValue) /\ Len(s) = nextToAdd + 1
        /\ \A i \in 1 .. nextToAdd : s[i] = errors[i - 1]
        /\ s[nextToAdd + 1] = e
    BY <2>1, <2>3 DEF RecentInv
  <2> HIDE DEF s
  <2>5. CASE nextToAdd < MAX_ERROR_HYSTORY
    <3>1. nextToAdd' = nextToAdd + 1 /\ errors' = [errors EXCEPT ![nextToAdd] = e]
      BY <2>1, <2>5 DEF addError
    <3>2. Least(MAX_ERROR_HYSTORY, Len(s)) = nextToAdd + 1
      BY <2>3, <2>4, <2>5 DEF Least
    <3>3. /\ recent' \in Seq(ErrorValue) /\ Len(recent') = nextToAdd + 1
          /\ \A i \in 1 .. nextToAdd + 1 : recent'[i] = s[Len(s) - (nextToAdd + 1) + i]
      <4> DEFINE m == Least(MAX_ERROR_HYSTORY, Len(s))
                 L == LastOf(s, MAX_ERROR_HYSTORY)
      <4>1. MAX_ERROR_HYSTORY \in Nat /\ s \in Seq(ErrorValue)
        BY <2>3, <2>4
      <4>2. /\ L \in Seq(ErrorValue) /\ Len(L) = m
            /\ \A i \in 1 .. m : L[i] = s[Len(s) - m + i]
        BY <4>1, LastOfIs
      <4> HIDE DEF m, L
      <4>3. m = nextToAdd + 1 /\ recent' = L
        BY <2>2, <3>2 DEF m, L
      <4> QED BY <4>2, <4>3
    <3>4. ASSUME NEW i \in 1 .. nextToAdd + 1 PROVE recent'[i] = errors'[i - 1]
      <4>1. Len(s) - (nextToAdd + 1) + i = i
        BY <2>3, <2>4
      <4>2. recent'[i] = s[i]
        BY <3>3, <4>1
      <4>3. i - 1 \in Cells /\ nextToAdd \in Cells
        BY <2>3, <2>5 DEF Cells
      <4>4. CASE i = nextToAdd + 1
        <5>1. i - 1 = nextToAdd
          BY <2>3, <4>4
        <5> QED BY <2>3, <2>4, <3>1, <4>2, <4>3, <4>4, <5>1
      <4>5. CASE i # nextToAdd + 1
        <5>1. i \in 1 .. nextToAdd /\ i - 1 # nextToAdd
          BY <2>3, <4>5
        <5> QED BY <2>3, <2>4, <3>1, <4>2, <4>3, <5>1
      <4> QED BY <4>4, <4>5
    <3> QED BY <3>1, <3>3, <3>4 DEF RecentInv
  <2>6. CASE ~(nextToAdd < MAX_ERROR_HYSTORY)
    <3>1. /\ nextToAdd' = nextToAdd /\ nextToAdd = MAX_ERROR_HYSTORY
          /\ \A c \in Cells : errors'[c] = IF c = MAX_ERROR_HYSTORY - 1 THEN e ELSE errors[c + 1]
      BY <2>1, <2>3, <2>6 DEF addError
    <3>2. Least(MAX_ERROR_HYSTORY, Len(s)) = nextToAdd
      BY <2>3, <2>4, <3>1 DEF Least
    <3>3. /\ recent' \in Seq(ErrorValue) /\ Len(recent') = nextToAdd
          /\ \A i \in 1 .. nextToAdd : recent'[i] = s[Len(s) - nextToAdd + i]
      BY <2>2, <2>3, <2>4, <3>2, LastOfIs
    <3>4. ASSUME NEW i \in 1 .. nextToAdd PROVE recent'[i] = errors'[i - 1]
      <4>1. Len(s) - nextToAdd + i = i + 1
        BY <2>3, <2>4
      <4>2. recent'[i] = s[i + 1]
        BY <3>3, <4>1
      <4>3. i - 1 \in Cells /\ (i - 1) + 1 = i
        BY <2>3, <3>1 DEF Cells
      <4>4. errors'[i - 1] = IF i - 1 = MAX_ERROR_HYSTORY - 1 THEN e ELSE errors[i]
        BY <3>1, <4>3
      <4>5. CASE i = nextToAdd
        BY <2>4, <3>1, <4>2, <4>4, <4>5
      <4>6. CASE i # nextToAdd
        <5>1. i + 1 \in 1 .. nextToAdd /\ (i + 1) - 1 = i /\ i - 1 # MAX_ERROR_HYSTORY - 1
          BY <2>3, <3>1, <4>6
        <5>2. s[i + 1] = errors[i]
          BY <2>4, <5>1
        <5> QED BY <4>2, <4>4, <5>1, <5>2
      <4> QED BY <4>5, <4>6
    <3> QED BY <3>1, <3>3, <3>4 DEF RecentInv
  <2> QED BY <2>5, <2>6
<1>2. CASE ~Compute
  <2>1. UNCHANGED historyVars /\ ~(pc = "compute" /\ pc' = "gate")
    <3>1. CASE Task
      BY <1>2, <3>1 DEF Task, StartTask, ResetRestart, ReadTarget, readTemp, Gate, SwitchOn,
                        SwitchOff, TestSettled, TestRestart, Goto
    <3>2. CASE Http
      BY <3>2 DEF Http, setTemperature, BeginPut, setEnable, setRestart, task
    <3> QED BY <3>1, <3>2 DEF ObsNext, Next
  <2>2. recent' = recent
    BY <2>1 DEF ObsNext, Observe
  <2> QED BY <2>1, <2>2 DEF RecentInv, historyVars
<1> QED BY <1>1, <1>2

\* In the controller, with everything the HTTP task may do in between, the array
\* holds the errors of the latest cycles in their order (ErrorHistory::addError).
THEOREM RecentCorrect == ObsSpec => [](ControlInv /\ RecentInv)
<1>1. ObsInit => ControlInv /\ RecentInv
  BY InitInv DEF ObsInit, Init, HistoryInit, RecentInv
<1>2. ControlInv /\ RecentInv /\ [ObsNext]_obsVars => (ControlInv /\ RecentInv)'
  <2> SUFFICES ASSUME ControlInv, RecentInv, [ObsNext]_obsVars
               PROVE  (ControlInv /\ RecentInv)'
    OBVIOUS
  <2>1. CASE ObsNext
    BY <2>1, RecentStep, TaskPreservesInv, HttpPreservesInv DEF ObsNext, Next
  <2>2. CASE UNCHANGED obsVars
    BY <2>2 DEF obsVars, vars, RecentInv, ControlInv, TypeOK, FlowInv, DutyInv, PutInv,
                AfterCompute, HistoryTypeOK
  <2> QED BY <2>1, <2>2
<1> QED BY <1>1, <1>2, PTL DEF ObsSpec

\* What maxMeanError gives of the array is the largest absolute error of the latest cycles.
LEMMA LargestRecent ==
    ASSUME HistoryTypeOK, RecentInv
    PROVE  /\ maxMeanError(errors, nextToAdd) \in Nat
           /\ \A i \in DOMAIN recent : Abs(recent[i]) \in Nat /\ Abs(recent[i]) <= maxMeanError(errors, nextToAdd)
           /\ \/ maxMeanError(errors, nextToAdd) = 0
              \/ \E i \in DOMAIN recent : maxMeanError(errors, nextToAdd) = Abs(recent[i])
<1>1. nextToAdd \in Nat /\ nextToAdd <= MAX_ERROR_HYSTORY /\ DOMAIN recent = 1 .. nextToAdd
  BY HistoryAssumption DEF HistoryTypeOK, RecentInv
<1>2. \A c \in 0 .. nextToAdd - 1 : errors[c] \in Int
  <2>1. \A c \in 0 .. nextToAdd - 1 : c \in Cells
    BY <1>1, HistoryAssumption DEF Cells
  <2>2. \A c \in Cells : errors[c] \in Int
    BY HistoryAssumption DEF HistoryTypeOK
  <2> QED BY <2>1, <2>2
<1>3. Numbers(errors, 0, nextToAdd)
  BY <1>2 DEF Numbers
<1> DEFINE M == maxMeanError(errors, nextToAdd)
<1>4. /\ M \in Nat /\ \A c \in 0 .. nextToAdd - 1 : Abs(errors[c]) <= M
      /\ M = 0 \/ \E c \in 0 .. nextToAdd - 1 : M = Abs(errors[c])
  BY <1>1, <1>3, MaxMeanErrorIs
<1> HIDE DEF M
<1>5. \A i \in 1 .. nextToAdd : i - 1 \in 0 .. nextToAdd - 1 /\ recent[i] = errors[i - 1]
  BY <1>1 DEF RecentInv
<1>6. \A i \in DOMAIN recent : Abs(recent[i]) \in Nat /\ Abs(recent[i]) <= M
  <2> SUFFICES ASSUME NEW i \in 1 .. nextToAdd PROVE Abs(recent[i]) \in Nat /\ Abs(recent[i]) <= M
    BY <1>1
  <2>1. recent[i] \in Int
    BY <1>2, <1>5
  <2> QED BY <1>4, <1>5, <2>1 DEF Abs
<1>7. ASSUME NEW c \in 0 .. nextToAdd - 1, M = Abs(errors[c])
      PROVE  \E i \in DOMAIN recent : M = Abs(recent[i])
  <2>1. c + 1 \in 1 .. nextToAdd /\ (c + 1) - 1 = c
    BY <1>1
  <2>2. recent[c + 1] = errors[c]
    BY <1>5, <2>1
  <2> QED BY <1>1, <1>7, <2>1, <2>2
<1> QED BY <1>4, <1>6, <1>7 DEF M

\* Whatever the tasks interleaved, every sum and every maximum the controller
\* reads off its array is that of the latest cycles (sumLast, maxMeanError).
THEOREM ReadersCorrect == ObsSpec => []ReadersAgree
<1>1. ControlInv /\ RecentInv => SumsTheMostRecent
  <2> SUFFICES ASSUME ControlInv, RecentInv, NEW n \in 1 .. MAX_ERROR_HYSTORY
               PROVE  sumLast(errors, nextToAdd, n) = SumOfLatest(recent, n)
    BY DEF SumsTheMostRecent
  <2>1. nextToAdd \in Nat /\ n \in Nat
    BY HistoryAssumption DEF ControlInv, TypeOK, HistoryTypeOK
  <2>2. recent \in Seq(Int)
    <3>1. recent \in Seq(ErrorValue) /\ ErrorValue \subseteq Int
      BY HistoryAssumption DEF RecentInv
    <3> QED BY <3>1, SeqMonotonic
  <2>3. Len(recent) = nextToAdd /\ \A i \in 1 .. nextToAdd : recent[i] = errors[i - 1]
    BY DEF RecentInv
  <2> QED BY <2>1, <2>2, <2>3, SumAgrees
<1>2. ControlInv /\ RecentInv => BoundsEveryRecentError
  <2> DEFINE M == maxMeanError(errors, nextToAdd)
  <2> SUFFICES ASSUME ControlInv, RecentInv,
                      NEW e \in ErrorValue, NEW k \in {0, 1}, NEW bound, bound = Abs(e) + k
               PROVE  (M < bound) <=> bound > 0 /\ \A i \in DOMAIN recent : Abs(recent[i]) < bound
    BY DEF BoundsEveryRecentError
  <2>1. bound \in Nat
    <3>1. e \in Int
      BY HistoryAssumption
    <3> QED BY <3>1 DEF Abs
  <2>2. /\ M \in Nat
        /\ \A i \in DOMAIN recent : Abs(recent[i]) \in Nat /\ Abs(recent[i]) <= M
        /\ M = 0 \/ \E i \in DOMAIN recent : M = Abs(recent[i])
    BY LargestRecent DEF ControlInv, TypeOK
  <2> HIDE DEF M
  <2> QED BY <2>1, <2>2
<1>3. ControlInv /\ RecentInv => ReadersAgree
  BY <1>1, <1>2 DEF ReadersAgree
<1> QED BY <1>3, RecentCorrect, PTL

\* Warm-up is left only after more than WarmupSize cycles in a row within the
\* band, whatever the HTTP task writes meanwhile (OvenControl::warnup).
THEOREM StreakCorrect == ObsSpec => SettledMeansStreak
<1> DEFINE Streak == pc = "settled" /\ phase' = "control" =>
                         /\ Len(recent) > WarmupSize
                         /\ \A i \in DOMAIN LastOf(recent, WarmupSize + 1) :
                               Abs(LastOf(recent, WarmupSize + 1)[i]) < WarmupBand
           M == maxMeanError(errors, nextToAdd)
<1>1. ASSUME ControlInv, RecentInv, [ObsNext]_obsVars, pc = "settled", phase' = "control"
      PROVE  nextToAdd > WarmupSize /\ M < WarmupBand
  <2>1. phase = "warmup"
    BY <1>1 DEF ControlInv, FlowInv
  <2>2. CASE Task
    <3>1. TestSettled
      <4>1. pc = "settled"
        BY <1>1
      <4> QED BY <4>1, <2>2 DEF Task, StartTask, ResetRestart, ReadTarget, readTemp, Compute, Gate,
                                SwitchOn, SwitchOff, TestRestart, Goto
    <3>2. phase' = IF nextToAdd > WarmupSize /\ M < WarmupBand THEN "control" ELSE "warmup"
      BY <3>1 DEF TestSettled
    <3> QED BY <1>1, <3>2
  <2>3. CASE Http
    BY <1>1, <2>1, <2>3 DEF Http, setTemperature, BeginPut, setEnable, setRestart, task
  <2>4. CASE UNCHANGED obsVars
    BY <1>1, <2>1, <2>4 DEF obsVars, vars
  <2> QED BY <1>1, <2>2, <2>3, <2>4 DEF ObsNext, Next
<1>2. ASSUME ControlInv, RecentInv, nextToAdd > WarmupSize, M < WarmupBand
      PROVE  /\ Len(recent) > WarmupSize
             /\ \A i \in DOMAIN LastOf(recent, WarmupSize + 1) :
                   Abs(LastOf(recent, WarmupSize + 1)[i]) < WarmupBand
  <2> DEFINE n == WarmupSize + 1
             L == LastOf(recent, n)
             m == Least(n, Len(recent))
  <2>1. n \in Nat /\ WarmupBand \in Nat /\ recent \in Seq(ErrorValue) /\ Len(recent) = nextToAdd
    BY <1>2, ControlAssumption DEF RecentInv
  <2>2. /\ DOMAIN L = 1 .. m
        /\ \A i \in 1 .. m : Len(recent) - m + i \in 1 .. Len(recent) /\ L[i] = recent[Len(recent) - m + i]
    <3> HIDE DEF n
    <3> QED BY <2>1, LastOfIs
  <2>3. /\ M \in Nat
        /\ \A i \in DOMAIN recent : Abs(recent[i]) \in Nat /\ Abs(recent[i]) <= M
    BY <1>2, LargestRecent DEF ControlInv, TypeOK
  <2> HIDE DEF L, m, M
  <2>4. ASSUME NEW i \in DOMAIN L PROVE Abs(L[i]) < WarmupBand
    <3> DEFINE j == Len(recent) - m + i
    <3>1. j \in DOMAIN recent /\ L[i] = recent[j]
      BY <2>1, <2>2
    <3> HIDE DEF j
    <3>2. Abs(recent[j]) \in Nat /\ Abs(recent[j]) <= M
      BY <2>3, <3>1
    <3> QED BY <1>2, <2>1, <2>3, <3>1, <3>2
  <2> QED BY <1>2, <2>1, <2>4 DEF L
<1>3. ControlInv /\ RecentInv /\ [ObsNext]_obsVars => Streak
  BY <1>1, <1>2
<1>4. ControlInv /\ RecentInv /\ [ObsNext]_obsVars => [Streak]_obsVars
  BY <1>3
<1> QED BY <1>4, RecentCorrect, PTL DEF ObsSpec, SettledMeansStreak
==============================================================================

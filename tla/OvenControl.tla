---------------------------- MODULE OvenControl ----------------------------
(***************************************************************************)
(* The oven's control task (spi_task and warnup in temperature.cpp, with   *)
(* PID.cpp and errorHystory.cpp) running beside the PUT handlers of the    *)
(* HTTP task (setTemperature, setEnable and setRestart in httpd.cpp).      *)
(* The two FreeRTOS tasks share four plain globals, degree, threshold,     *)
(* enable and restart, with no lock: every access of a task to one of them *)
(* that the other may write is a step of its own.                          *)
(*                                                                         *)
(* The calls of vTaskDelay inside on_off are not steps: a delay is the     *)
(* time the task rests at the label after the pin was set.                 *)
(***************************************************************************)
EXTENDS ErrorHistory

CONSTANTS
    MAX_INTEGRAL_SIZE,  \* errors summed by the integral term (20)
    WarmupSize,         \* warm-up needs more errors than this (20)
    WarmupBand,         \* ... each closer to zero than this (5)
    WarmupOffset,       \* warm-up aims this far below the threshold (10)
    Thresholds,         \* the thresholds a client may PUT, and the initial one
    InitThreshold,      \* 110
    RawSamples,         \* readings of the MAX6675: SPI_W0 >> 16
    Bodies,             \* bodies of PUT /enable and PUT /restart
    WaitsForTransfer    \* FALSE: ovenFirmware, TRUE: newOvenFirmware's spi_rx16

Degrees == {raw \div 32 : raw \in RawSamples}

ASSUME ControlAssumption ==
    /\ MAX_INTEGRAL_SIZE \in Nat
    /\ WarmupSize \in Nat /\ WarmupSize < MAX_ERROR_HYSTORY
    /\ WarmupBand \in Nat /\ WarmupOffset \in Nat
    /\ Thresholds \subseteq Nat /\ InitThreshold \in Thresholds
    /\ RawSamples \subseteq Nat /\ 0 \in RawSamples
    /\ WaitsForTransfer \in BOOLEAN
    /\ \A t \in Thresholds, d \in Degrees :
          {t - d, t - WarmupOffset - d} \subseteq ErrorValue

\* The four string literals of the strcmp chain and what each test assigns.
Literal == <<"1", "true", "0", "false">>
Assigned == <<TRUE, TRUE, FALSE, FALSE>>

NoPut == [flag |-> "none", body |-> "none", test |-> 0]
Puts == {NoPut} \cup [flag : {"enable", "restart"}, body : Bodies, test : 1 .. 4]

VARIABLES
    degree, threshold, enable, restart,  \* the shared globals
    put,             \* the PUT handler running in the HTTP task, and its next test
    spiW0,           \* SPI data register: result of the last complete transfer
    pin,             \* GPIO2, the heater
    pc,              \* next step of spi_task
    phase,           \* inside warnup() or in the loop on restart
    tempThreshold,   \* locals of the cycle
    err, on_perc

globals == <<degree, threshold, enable, restart>>
locals == <<tempThreshold, err, on_perc>>
vars == <<degree, threshold, enable, restart, put, spiW0, pin, pc, phase,
          tempThreshold, err, on_perc, errors, nextToAdd>>

Labels == {"start", "reset", "target", "read", "compute", "gate",
           "switchOn", "switchOff", "settled", "loop"}

TypeOK ==
    /\ HistoryTypeOK
    /\ degree \in Degrees
    /\ threshold \in Thresholds
    /\ enable \in BOOLEAN /\ restart \in BOOLEAN
    /\ put \in Puts
    /\ spiW0 \in RawSamples
    /\ pin \in {0, 1}
    /\ pc \in Labels
    /\ phase \in {"warmup", "control"}
    /\ tempThreshold \in Int
    /\ err \in ErrorValue
    /\ on_perc \in 0 .. 100

Init ==
    /\ HistoryInit
    /\ degree = 0 /\ threshold = InitThreshold
    /\ enable = TRUE /\ restart = FALSE
    /\ put = NoPut
    /\ spiW0 \in RawSamples
    /\ pin = 0
    /\ pc = "start" /\ phase = "warmup"
    /\ tempThreshold = 0 /\ err = 0 /\ on_perc = 0
-----------------------------------------------------------------------------
(* The control task.                                                       *)

Goto(from, to) == pc = from /\ pc' = to

\* Before the first cycle the heater pin is configured and set.
StartTask ==
    /\ Goto("start", "reset")
    /\ pin' = 1
    /\ UNCHANGED <<globals, put, spiW0, phase, locals, historyVars>>

\* Top of while(true): withdraw any restart and enter warnup().
ResetRestart ==
    /\ Goto("reset", "target")
    /\ restart' = FALSE
    /\ phase' = "warmup"
    /\ UNCHANGED <<degree, threshold, enable, put, spiW0, pin, locals, historyVars>>

\* The target of this warm-up cycle, from the threshold as it is now.
ReadTarget ==
    /\ Goto("target", "read")
    /\ tempThreshold' = threshold - WarmupOffset
    /\ UNCHANGED <<globals, put, spiW0, pin, phase, err, on_perc, historyVars>>

\* The transfer not waited for by either firmware.
ReadWithoutWaiting ==
    /\ Goto("read", "compute")
    /\ \E raw \in RawSamples : \E got \in {raw, spiW0} :
          /\ spiW0' = raw
          /\ degree' = got \div 32
    /\ UNCHANGED <<threshold, enable, restart, put, pin, phase, locals, historyVars>>

\* ovenFirmware starts a transfer and reads SPI_W0 at once, so it gets what
\* the register holds at that moment; spi_rx16 waits for the transfer.
readTemp ==
    /\ Goto("read", "compute")
    /\ \E raw \in RawSamples :
        \E got \in IF WaitsForTransfer THEN {raw} ELSE {raw, spiW0} :
          /\ spiW0' = raw
          /\ degree' = got \div 32
    /\ UNCHANGED <<threshold, enable, restart, put, pin, phase, locals, historyVars>>

\* PID::calc limited from above only.
ClampAboveOnly(u) == IF u > 100 THEN 100 ELSE u

\* PID::calc limits the controller output to a percentage.
Clamp(u) == IF u \in 0 .. 100 THEN u ELSE IF u < 0 THEN 0 ELSE 100

\* PID::calc without its early return for an oven above its target.
CalcNoEarlyReturn(e, array, size) ==
    Clamp(e * 10 + sumLast(array, size, MAX_INTEGRAL_SIZE))

\* PID::calc, on the history that already holds e.
calc(e, array, size) ==
    IF e < 0
    THEN 0
    ELSE Clamp(e * 10 + sumLast(array, size, MAX_INTEGRAL_SIZE))

\* err, addError and pid.calc: in warm-up against tempThreshold, in the loop
\* against the threshold read now.
Compute ==
    /\ Goto("compute", "gate")
    /\ err' = (IF phase = "warmup" THEN tempThreshold ELSE threshold) - degree
    /\ addError(err')
    /\ on_perc' = calc(err', errors', nextToAdd')
    /\ UNCHANGED <<globals, put, spiW0, pin, phase, tempThreshold>>

\* The enable switch consulted in the loop only.
GateControlOnly ==
    /\ Goto("gate", "switchOn")
    /\ on_perc' = IF enable \/ phase = "warmup" THEN on_perc ELSE 0
    /\ UNCHANGED <<globals, put, spiW0, pin, phase, tempThreshold, err, historyVars>>

\* if (!enable) on_perc = 0
Gate ==
    /\ Goto("gate", "switchOn")
    /\ on_perc' = IF enable THEN on_perc ELSE 0
    /\ UNCHANGED <<globals, put, spiW0, pin, phase, tempThreshold, err, historyVars>>

\* on_off, first half: set the pin and rest for the on period, if there is one.
SwitchOn ==
    /\ Goto("switchOn", "switchOff")
    /\ pin' = IF on_perc > 0 THEN 1 ELSE pin
    /\ UNCHANGED <<globals, put, spiW0, phase, locals, historyVars>>

\* on_off with the off period tested as the on period is.
SwitchOffOnlyAfterOn ==
    /\ pc = "switchOff"
    /\ pc' = IF phase = "warmup" THEN "settled" ELSE "loop"
    /\ pin' = IF on_perc > 0 /\ on_perc < 100 THEN 0 ELSE pin
    /\ UNCHANGED <<globals, put, spiW0, phase, locals, historyVars>>

\* on_off, second half: clear the pin and rest for the off period, if any.
SwitchOff ==
    /\ pc = "switchOff"
    /\ pc' = IF phase = "warmup" THEN "settled" ELSE "loop"
    /\ pin' = IF on_perc < 100 THEN 0 ELSE pin
    /\ UNCHANGED <<globals, put, spiW0, phase, locals, historyVars>>

\* Warm-up left on the band alone, without enough errors to judge by.
TestSettledByBandOnly ==
    /\ pc = "settled"
    /\ LET done == maxMeanError(errors, nextToAdd) < WarmupBand
       IN /\ pc' = IF done THEN "loop" ELSE "target"
          /\ phase' = IF done THEN "control" ELSE "warmup"
    /\ UNCHANGED <<globals, put, spiW0, pin, locals, historyVars>>

\* The last test of a warm-up cycle: leave warnup(), or do another cycle.
TestSettled ==
    /\ pc = "settled"
    /\ LET done == /\ nextToAdd > WarmupSize
                   /\ maxMeanError(errors, nextToAdd) < WarmupBand
       IN /\ pc' = IF done THEN "loop" ELSE "target"
          /\ phase' = IF done THEN "control" ELSE "warmup"
    /\ UNCHANGED <<globals, put, spiW0, pin, locals, historyVars>>

\* while (!restart)
TestRestart ==
    /\ pc = "loop"
    /\ pc' = IF restart THEN "reset" ELSE "read"
    /\ UNCHANGED <<globals, put, spiW0, pin, phase, locals, historyVars>>

Task ==
    \/ StartTask \/ ResetRestart \/ ReadTarget \/ readTemp \/ Compute
    \/ Gate \/ SwitchOn \/ SwitchOff \/ TestSettled \/ TestRestart
-----------------------------------------------------------------------------
(* The HTTP task: one request at a time.                                   *)

task == <<spiW0, pin, pc, phase, locals, historyVars>>

\* PUT /threshold with a body of digits.
setTemperature ==
    /\ put = NoPut
    /\ threshold' \in Thresholds
    /\ UNCHANGED <<degree, enable, restart, put, task>>

BeginPut ==
    /\ put = NoPut
    /\ \E f \in {"enable", "restart"}, b \in Bodies :
          put' = [flag |-> f, body |-> b, test |-> 1]
    /\ UNCHANGED <<globals, task>>

NextTest == put' = IF put.test = 4 THEN NoPut ELSE [put EXCEPT !.test = @ + 1]

\* The value a flag has after test n of the chain.
AfterTestEqual(flag, n) == IF put.body = Literal[n] THEN Assigned[n] ELSE flag

\* strcmp is non-zero, and the assignment made, when the body is NOT the literal.
AfterTest(flag, n) == IF put.body # Literal[n] THEN Assigned[n] ELSE flag

\* One if (strcmp(...)) of setEnable.
setEnable ==
    /\ put.flag = "enable"
    /\ enable' = AfterTest(enable, put.test)
    /\ NextTest
    /\ UNCHANGED <<degree, threshold, restart, task>>

\* One if (strcmp(...)) of setRestart.
setRestart ==
    /\ put.flag = "restart"
    /\ restart' = AfterTest(restart, put.test)
    /\ NextTest
    /\ UNCHANGED <<degree, threshold, enable, task>>

Http == setTemperature \/ BeginPut \/ setEnable \/ setRestart
-----------------------------------------------------------------------------
Next == Task \/ Http

Spec == Init /\ [][Next]_vars

\* FreeRTOS gives both tasks, of equal priority, their turn; a delay ends; a
\* handler that was entered is run to its end.  Clients owe nothing.
FairSpec == Spec /\ WF_vars(Task) /\ WF_vars(setEnable) /\ WF_vars(setRestart)
-----------------------------------------------------------------------------
(* Correctness.                                                            *)

\* At the end of every cycle the heater pin is high exactly when the duty of
\* the cycle was the full 100%: a shorter duty always ends with the pin low,
\* whatever the pin was when the cycle began (on_off leaves it alone twice).
DutyDelivered ==
    pc \in {"settled", "loop"} => (pin = 1 <=> on_perc = 100)

\* A cycle that measured a temperature above its target ends with the heater
\* off, even when the cycle before it left the heater on (calc, on_off).
HotOvenCoasts ==
    pc \in {"settled", "loop"} /\ err < 0 => pin = 0

\* What a cycle leaves on the heater pin is what its measurement asked for,
\* whatever the pin was when the cycle began.
HeaterFollowsCycle == DutyDelivered /\ HotOvenCoasts

\* With spi_rx16, which waits for the transfer, the oven is never heated in a
\* cycle whose latest conversion of the thermocouple was above the target the
\* cycle uses (err + degree).
HeatsOnFreshSample ==
    pc \in {"switchOff", "settled", "loop"} /\ on_perc > 0
        => spiW0 \div 32 <= err + degree

\* The control loop is only ever entered, and re-entered after a restart, with
\* more than WarmupSize errors recorded (the test at the end of warnup).
ControlHasHistory == phase = "control" => nextToAdd > WarmupSize

\* Outside the handler of PUT /restart the flag restart is down: the request
\* exists only while its handler runs between two tests of the strcmp chain.
RestartOnlyInHandler == restart => put.flag = "restart" /\ put.test > 1

\* The control task leaves its loop for a new warm-up only by looking at
\* restart in the middle of a PUT /restart: a restart requested while the
\* task rests in a delay is lost.
RewarmOnlyInsidePut ==
    [][pc = "loop" /\ pc' = "reset" => put.flag = "restart" /\ put.test > 1]_vars

\* enable is TRUE from the start and never again once a PUT /enable finished:
\* a state with enable up and no PUT running follows only such a state,
\* whichever body the client sent ("1" and "true" included).
EnableNeverRegained ==
    [][enable' /\ put'.flag # "enable" => enable /\ put.flag # "enable"]_vars

\* Disabling works: when enable stays down the heater goes off and stays off,
\* also from a cycle at full duty that never lowers the pin itself.
DisabledOvenCools == <>[](~enable) => <>[](pin = 0)

\* A warm-up ends, also one that was entered with old errors far outside the
\* band: once every new error is in the band the control loop is reached again
\* and again.
WarmupEnds == <>[](Abs(err) < WarmupBand) => []<>(phase = "control")
==============================================================================

------------------------------ MODULE OvenApp ------------------------------
(***************************************************************************)
(* The Android client (MainActivity.java and the classes under runnable/): *)
(* the UI thread with its queue of posted Runnables, the single thread of  *)
(* the scheduled executor that runs the two polls, and the threads made    *)
(* for Connect and SetThreshold.  onCreate has run in the initial state.   *)
(*                                                                         *)
(* Temperatures and thresholds shown are left out; what matters is which   *)
(* poll is scheduled, which is running and what is posted.                 *)
(***************************************************************************)
EXTENDS Integers, Sequences, FiniteSets

CONSTANTS
    Poll,              \* scheduled tasks that can exist at once
    NoPoll,            \* a future that is null
    MaxLoad            \* bound on work in flight (see Load)

ASSUME AppAssumption == NoPoll \notin Poll /\ MaxLoad \in Nat

VARIABLES
    platform,   \* [bodyIsNumber, interruptBreaksIO], one or the other for ever
    ovenUp,     \* the oven answers
    ui,         \* Runnables posted to the UI thread, oldest first
    status,     \* argument of the last enable(status); the connect button is its negation
    temperature, threshold,  \* retrieveTemperatureFuture, retrieveThresholdFuture
    poll,       \* task -> free, scheduled, cancelled or dead (its run() threw)
    kind,       \* task -> temperature or threshold
    worker,     \* the poll in the executor's thread, or NoPoll
    step,       \* where its run() is
    connects, sets,          \* threads in flight
    destroyed,
    shown       \* the last thing a poll showed, for liveness

vars == <<platform, ovenUp, ui, status, temperature, threshold, poll, kind, worker, step,
          connects, sets, destroyed, shown>>

\* bodyIsNumber: parseInt accepts the body, which ovenFirmware sends and
\* newOvenFirmware ends with a newline.  interruptBreaksIO: cancel(true) may make
\* the running request throw.
Platforms == [bodyIsNumber : BOOLEAN, interruptBreaksIO : BOOLEAN]

polls == <<temperature, threshold, poll, kind>>
threads == <<worker, step, connects, sets>>

Posts == {"reconnect", "enable", "disable", "showTemperature", "showThreshold"}

TypeOK ==
    /\ platform \in Platforms
    /\ ovenUp \in BOOLEAN /\ status \in BOOLEAN /\ destroyed \in BOOLEAN
    /\ ui \in Seq(Posts)
    /\ {temperature, threshold, worker} \subseteq Poll \cup {NoPoll}
    /\ poll \in [Poll -> {"free", "scheduled", "cancelled", "dead"}]
    /\ kind \in [Poll -> {"temperature", "threshold"}]
    /\ step \in {"idle", "request", "disable"}
    /\ (step = "idle") <=> (worker = NoPoll)
    /\ connects \in Nat /\ sets \in Nat
    /\ shown \in {"nothing", "temperature"}

\* After onCreate: enable(false), then reconnect() to the stored address.
Init ==
    /\ platform \in Platforms
    /\ ovenUp \in BOOLEAN
    /\ ui = <<>> /\ status = FALSE
    /\ temperature = NoPoll /\ threshold = NoPoll
    /\ poll = [p \in Poll |-> "free"]
    /\ kind = [p \in Poll |-> "temperature"]
    /\ worker = NoPoll /\ step = "idle"
    /\ connects = 1 /\ sets = 0
    /\ destroyed = FALSE /\ shown = "nothing"
\* Runnables posted and Runnables that the threads in flight may still post.
\* Only steps that begin something new are kept below MaxLoad, so the bound
\* never holds back work under way.
Load == Len(ui) + connects + sets
          + (CASE step = "request" -> 2 [] step = "disable" -> 1 [] OTHER -> 0)
-----------------------------------------------------------------------------
(* What runs on the UI thread.                                             *)

\* A cancelled poll that is not running is gone; a running one ends its run().
Cancel(futures) ==
    poll' = [p \in Poll |-> IF p \notin futures THEN poll[p]
                            ELSE IF p = worker THEN "cancelled" ELSE "free"]

\* The threshold future forgotten but not cancelled.
CancelOnlyTemperature ==
    /\ Cancel({temperature})
    /\ temperature' = NoPoll /\ threshold' = NoPoll

\* removeThreads(): cancel(true) and forget both futures.
removeThreads ==
    /\ Cancel({temperature, threshold})
    /\ temperature' = NoPoll /\ threshold' = NoPoll

enableFalse == removeThreads /\ status' = FALSE /\ UNCHANGED kind

\* reconnect(): enable(false) and a new Connect thread.
reconnect ==
    /\ enableFalse
    /\ connects' = connects + 1
    /\ UNCHANGED <<worker, step, sets>>

Free == {p \in Poll : poll[p] = "free"}

\* enable(): schedule the polls that are missing, then enable(true).
enable ==
    /\ \E t \in IF temperature = NoPoll THEN Free ELSE {temperature} :
       \E h \in IF threshold = NoPoll THEN Free \ {t} ELSE {threshold} :
          /\ temperature' = t /\ threshold' = h
          /\ poll' = [p \in Poll |-> IF p \in {t, h} /\ poll[p] = "free"
                                     THEN "scheduled" ELSE poll[p]]
          /\ kind' = [kind EXCEPT ![t] = "temperature", ![h] = "threshold"]
    /\ status' = TRUE

Next1(q) == ui # <<>> /\ Head(ui) = q /\ ui' = Tail(ui)

RunReconnect ==
    /\ Next1("reconnect") /\ reconnect
    /\ UNCHANGED <<platform, ovenUp, destroyed, shown>>

RunEnable ==
    /\ Next1("enable") /\ enable
    /\ UNCHANGED <<platform, ovenUp, threads, destroyed, shown>>

RunDisable ==
    /\ Next1("disable") /\ enableFalse
    /\ UNCHANGED <<platform, ovenUp, threads, destroyed, shown>>

RunShow ==
    /\ \/ Next1("showTemperature") /\ shown' = "temperature"
       \/ Next1("showThreshold") /\ shown' = "nothing"
    /\ UNCHANGED <<platform, ovenUp, status, polls, threads, destroyed>>

\* onClick, for the button that is enabled.
ClickConnect ==
    /\ ~status /\ ~destroyed /\ Load < MaxLoad
    /\ reconnect
    /\ UNCHANGED <<platform, ovenUp, ui, destroyed, shown>>

ClickSet ==
    /\ status /\ ~destroyed /\ Load < MaxLoad
    /\ sets' = sets + 1
    /\ UNCHANGED <<platform, ovenUp, ui, status, polls, worker, step, connects, destroyed, shown>>

onDestroy ==
    /\ ~destroyed
    /\ removeThreads
    /\ destroyed' = TRUE
    /\ UNCHANGED <<platform, ovenUp, ui, status, kind, threads, shown>>
-----------------------------------------------------------------------------
(* The threads.                                                            *)

Post(q) == ui' = Append(ui, q)

\* Connect.run(): post enable() if the oven says who it is, else just end.  A
\* thread that hangs, as OvenVersion sets no timeout, is one that posts nothing.
ConnectDone ==
    /\ connects > 0 /\ connects' = connects - 1
    /\ IF ovenUp THEN Post("enable") ELSE UNCHANGED ui
    /\ UNCHANGED <<platform, ovenUp, status, polls, worker, step, sets, destroyed, shown>>

\* SetThreshold.run() reconnecting only after an answer.
SetDoneIfAnswered ==
    /\ sets > 0 /\ sets' = sets - 1
    /\ IF ovenUp THEN Post("reconnect") ELSE UNCHANGED ui
    /\ UNCHANGED <<platform, ovenUp, status, polls, worker, step, connects, destroyed, shown>>

\* SetThreshold.run(): PUT, then reconnect() whatever came of it.
SetDone ==
    /\ sets > 0 /\ sets' = sets - 1
    /\ Post("reconnect")
    /\ UNCHANGED <<platform, ovenUp, status, polls, worker, step, connects, destroyed, shown>>

\* The executor's thread takes a poll whose time has come.
StartPoll ==
    /\ worker = NoPoll /\ Load + 2 <= MaxLoad
    /\ \E p \in Poll : poll[p] = "scheduled" /\ worker' = p
    /\ step' = "request"
    /\ UNCHANGED <<platform, ovenUp, ui, status, polls, connects, sets, destroyed, shown>>

\* run() returns, or throws: a poll that throws is never run again, though its
\* future stays; a cancelled one is gone either way.
EndRun(threw) ==
    /\ worker' = NoPoll /\ step' = "idle"
    /\ poll' = [poll EXCEPT ![worker] =
                  IF @ = "cancelled" THEN "free" ELSE IF threw THEN "dead" ELSE @]
    /\ UNCHANGED <<temperature, threshold, kind>>

Answers == ovenUp /\ step = "request"
Fails == /\ step = "request"
         /\ ~ovenUp \/ (platform.interruptBreaksIO /\ poll[worker] = "cancelled")

\* A number came back: post it.
PollOK ==
    /\ Answers /\ platform.bodyIsNumber
    /\ Post(IF kind[worker] = "temperature" THEN "showTemperature" ELSE "showThreshold")
    /\ EndRun(FALSE)
    /\ UNCHANGED <<platform, ovenUp, status, connects, sets, destroyed, shown>>

\* parseInt throws, outside any try: run() throws.
PollNotNumber ==
    /\ Answers /\ ~platform.bodyIsNumber
    /\ EndRun(TRUE)
    /\ UNCHANGED <<platform, ovenUp, ui, status, connects, sets, destroyed, shown>>

\* RetrieveTemperature without its catch.
TemperatureThrows ==
    /\ Fails /\ kind[worker] = "temperature"
    /\ EndRun(TRUE)
    /\ UNCHANGED <<platform, ovenUp, ui, status, connects, sets, destroyed, shown>>

\* RetrieveTemperature catches the exception and posts reconnect() ...
TemperatureFailed ==
    /\ Fails /\ kind[worker] = "temperature"
    /\ Post("reconnect")
    /\ step' = "disable"
    /\ UNCHANGED <<platform, ovenUp, status, polls, worker, connects, sets, destroyed, shown>>

\* ... and, as the status code is still BAD_REQUEST, enable(false) after it.
TemperatureDisables ==
    /\ step = "disable"
    /\ Post("disable")
    /\ EndRun(FALSE)
    /\ UNCHANGED <<platform, ovenUp, status, connects, sets, destroyed, shown>>

\* RetrieveThreshold has no try: the exception ends the poll silently.
ThresholdFailed ==
    /\ Fails /\ kind[worker] = "threshold"
    /\ EndRun(TRUE)
    /\ UNCHANGED <<platform, ovenUp, ui, status, connects, sets, destroyed, shown>>

OvenChanges ==
    /\ ovenUp' = ~ovenUp
    /\ UNCHANGED <<platform, ui, status, polls, threads, destroyed, shown>>
-----------------------------------------------------------------------------
UIThread == RunReconnect \/ RunEnable \/ RunDisable \/ RunShow
Run == \/ PollOK \/ PollNotNumber \/ TemperatureFailed
       \/ TemperatureDisables \/ ThresholdFailed

Next == \/ UIThread \/ ClickConnect \/ ClickSet \/ onDestroy
        \/ ConnectDone \/ SetDone \/ StartPoll \/ Run \/ OvenChanges

Spec == Init /\ [][Next]_vars

\* Threads run, the requests of the polls and of SetThreshold end (they have
\* timeouts), and each scheduled poll gets the executor's thread again and
\* again (scheduleAtFixedRate).
StartTemperature == StartPoll /\ worker' = temperature

FairSpec ==
    /\ Spec
    /\ WF_vars(UIThread) /\ WF_vars(ConnectDone) /\ WF_vars(SetDone)
    /\ WF_vars(Run) /\ WF_vars(StartPoll) /\ SF_vars(StartTemperature)
-----------------------------------------------------------------------------
(* Correctness.                                                            *)

\* Every poll that will run again belongs to one of the two futures, so that
\* the next removeThreads stops it: however many Connect threads answered and
\* however their enable() mixed with cancellations.
NoOrphanPoll ==
    \A p \in Poll : poll[p] \in {"scheduled", "dead"} => p \in {temperature, threshold}

\* The two polls come and go together and the screen says so: the fields are
\* enabled, and Connect disabled, exactly while both polls have a future.
ScreenShowsPolling ==
    ~destroyed => /\ status <=> temperature # NoPoll
                  /\ status <=> threshold # NoPoll

\* The polls, their futures and the screen always agree.
PollsInv == TypeOK /\ NoOrphanPoll /\ ScreenShowsPolling

\* While Connect is disabled the temperature poll, the only thing that would
\* enable it again, is alive (with an oven whose body parses as a number; the
\* threshold poll may be dead behind it).
SomethingWatches ==
    platform.bodyIsNumber /\ status /\ ~destroyed => poll[temperature] = "scheduled"

\* A press on Set brings back a screen that reconnects, whatever became of the
\* PUT and even when both polls have died behind an enabled screen.
SetReconnects == sets > 0 ~> ~status

\* Once the oven stays reachable the temperature is shown again and again to a
\* user who presses Connect, unless a press on Set intervenes for ever: with
\* ovenFirmware, where a cancelled poll ends in peace, until the activity ends.
ShownAgain ==
    /\ platform = [bodyIsNumber |-> TRUE, interruptBreaksIO |-> FALSE]
    /\ WF_vars(ClickConnect)
    /\ <>[](ovenUp /\ sets = 0 /\ ~destroyed)
    => []<>(shown = "temperature")
=============================================================================

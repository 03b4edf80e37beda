---------------------------- MODULE OvenApp_proofs ----------------------------
(***************************************************************************)
(* Proofs about OvenApp, for every number of scheduled tasks and every     *)
(* load.  PollsInv and SomethingWatches are not inductive: that the next   *)
(* removeThreads finds every poll needs what a future may refer to and     *)
(* what the executor's thread may be running, and that the temperature     *)
(* poll is alive needs which polls may have died.                          *)
(***************************************************************************)
EXTENDS OvenApp, SequenceTheorems, TLAPS

\* A future refers to a poll of its own kind that was not cancelled, and the two
\* futures are null together.
FuturesInv ==
    /\ temperature = NoPoll <=> threshold = NoPoll
    /\ temperature # NoPoll => /\ poll[temperature] \in {"scheduled", "dead"}
                               /\ kind[temperature] = "temperature"
    /\ threshold # NoPoll => /\ poll[threshold] \in {"scheduled", "dead"}
                             /\ kind[threshold] = "threshold"

\* The executor's thread runs a poll that is scheduled or was cancelled since.
WorkerInv == worker # NoPoll => poll[worker] \in {"scheduled", "cancelled"}

\* With an oven whose body parses, only the threshold poll can die.
DeathsInv ==
    platform.bodyIsNumber => \A p \in Poll : poll[p] = "dead" => kind[p] = "threshold"

\* What PollsInv says of everything but the queue of Runnables, with the three parts
\* that make it inductive.
PollsOnly ==
    /\ platform \in Platforms
    /\ ovenUp \in BOOLEAN /\ status \in BOOLEAN /\ destroyed \in BOOLEAN
    /\ {temperature, threshold, worker} \subseteq Poll \cup {NoPoll}
    /\ poll \in [Poll -> {"free", "scheduled", "cancelled", "dead"}]
    /\ kind \in [Poll -> {"temperature", "threshold"}]
    /\ step \in {"idle", "request", "disable"}
    /\ (step = "idle") <=> (worker = NoPoll)
    /\ connects \in Nat /\ sets \in Nat
    /\ shown \in {"nothing", "temperature"}
    /\ NoOrphanPoll /\ ScreenShowsPolling
    /\ FuturesInv /\ WorkerInv /\ DeathsInv

AppInv == ui \in Seq(Posts) /\ PollsOnly

USE AppAssumption

\* The invariant holds of an activity just created: no poll and nothing posted.
LEMMA InitApp == Init => AppInv
<1> SUFFICES ASSUME Init PROVE ui \in Seq(Posts) /\ PollsOnly
  BY DEF AppInv
<1>1. ui \in Seq(Posts)
  BY EmptySeq DEF Init
<1>2. PollsOnly
  BY DEF Init, PollsOnly, NoOrphanPoll, ScreenShowsPolling, FuturesInv, WorkerInv, DeathsInv
<1> QED BY <1>1, <1>2

\* The queue holds Runnables, whichever end it is used at.
LEMMA QueueSteps ==
    ASSUME NEW q \in Posts, ui \in Seq(Posts)
    PROVE  /\ Post(q) => ui' \in Seq(Posts)
           /\ Next1(q) => ui' \in Seq(Posts)
BY AppendProperties, HeadTailProperties DEF Post, Next1

\* removeThreads() leaves no future and no poll that would run again: the one
\* that is running ends its run cancelled.
LEMMA RemoveThreadsClears ==
    ASSUME PollsOnly, removeThreads
    PROVE  /\ poll' \in [Poll -> {"free", "scheduled", "cancelled", "dead"}]
           /\ temperature' = NoPoll /\ threshold' = NoPoll
           /\ \A p \in Poll : poll'[p] \in {"free", "cancelled"}
           /\ worker # NoPoll => poll'[worker] = "cancelled"
<1> USE DEF PollsOnly, removeThreads, Cancel
<1>1. /\ temperature' = NoPoll /\ threshold' = NoPoll
      /\ poll' = [p \in Poll |-> IF p \notin {temperature, threshold} THEN poll[p]
                                 ELSE IF p = worker THEN "cancelled" ELSE "free"]
  OBVIOUS
<1>2. ASSUME NEW p \in Poll PROVE poll'[p] \in {"free", "cancelled"}
  BY <1>1, <1>2 DEF NoOrphanPoll
<1>3. worker # NoPoll => poll'[worker] = "cancelled"
  BY <1>1 DEF NoOrphanPoll, WorkerInv
<1> QED BY <1>1, <1>2, <1>3

\* enable() gives both futures a poll of their kind that will run again, and
\* takes none that is running or whose future is another.
LEMMA EnableSchedules ==
    ASSUME PollsOnly, enable, UNCHANGED <<platform, ovenUp, threads, destroyed, shown>>
    PROVE  PollsOnly'
<1> USE DEF threads
<1>1. PICK t \in IF temperature = NoPoll THEN Free ELSE {temperature} :
        \E h \in IF threshold = NoPoll THEN Free \ {t} ELSE {threshold} :
          /\ temperature' = t /\ threshold' = h
          /\ poll' = [p \in Poll |-> IF p \in {t, h} /\ poll[p] = "free"
                                     THEN "scheduled" ELSE poll[p]]
          /\ kind' = [kind EXCEPT ![t] = "temperature", ![h] = "threshold"]
  BY Zenon DEF enable
<1>2. PICK h \in IF threshold = NoPoll THEN Free \ {t} ELSE {threshold} :
          /\ temperature' = t /\ threshold' = h
          /\ poll' = [p \in Poll |-> IF p \in {t, h} /\ poll[p] = "free"
                                     THEN "scheduled" ELSE poll[p]]
          /\ kind' = [kind EXCEPT ![t] = "temperature", ![h] = "threshold"]
  BY <1>1
<1>3. t \in Poll /\ h \in Poll /\ t # h
  BY DEF PollsOnly, FuturesInv, Free
<1>4. /\ poll' \in [Poll -> {"free", "scheduled", "cancelled", "dead"}]
      /\ kind' \in [Poll -> {"temperature", "threshold"}]
      /\ kind'[t] = "temperature" /\ kind'[h] = "threshold"
      /\ \A p \in Poll \ {t, h} : kind'[p] = kind[p] /\ poll'[p] = poll[p]
      /\ \A p \in {t, h} : poll'[p] = IF poll[p] = "free" THEN "scheduled" ELSE poll[p]
  BY <1>2, <1>3 DEF PollsOnly
<1>5. poll[t] \in {"free", "scheduled", "dead"} /\ poll[h] \in {"free", "scheduled", "dead"}
  BY DEF PollsOnly, FuturesInv, Free
<1>6. status' = TRUE
  BY DEF enable
<1>7. NoOrphanPoll'
  BY <1>2, <1>3, <1>4 DEF PollsOnly, NoOrphanPoll, FuturesInv, Free
<1>8. FuturesInv' /\ ScreenShowsPolling'
  BY <1>2, <1>3, <1>4, <1>5, <1>6 DEF FuturesInv, ScreenShowsPolling
<1>9. WorkerInv'
  BY <1>3, <1>4, <1>5 DEF PollsOnly, WorkerInv
<1>10. DeathsInv'
  <2>1. ASSUME platform.bodyIsNumber, poll'[t] = "dead" PROVE FALSE
    BY <1>3, <1>4, <2>1 DEF PollsOnly, DeathsInv, FuturesInv, Free
  <2> QED BY <1>3, <1>4, <2>1 DEF PollsOnly, DeathsInv
<1> QED BY <1>2, <1>3, <1>4, <1>6, <1>7, <1>8, <1>9, <1>10 DEF PollsOnly

\* What runs on the UI thread, and the clicks, preserve the invariant.
LEMMA UIPreservesInv ==
    AppInv /\ (UIThread \/ ClickConnect \/ ClickSet \/ onDestroy) => AppInv'
<1> SUFFICES ASSUME AppInv, UIThread \/ ClickConnect \/ ClickSet \/ onDestroy
             PROVE  AppInv'
  OBVIOUS
<1>1. ui \in Seq(Posts) /\ PollsOnly
  BY DEF AppInv
<1>2. CASE RunEnable
  <2>1. ui' \in Seq(Posts)
    BY <1>1, <1>2, QueueSteps DEF RunEnable, Posts
  <2>2. PollsOnly'
    BY <1>1, <1>2, EnableSchedules DEF RunEnable
  <2> QED BY <2>1, <2>2 DEF AppInv
<1>3. ASSUME removeThreads, UNCHANGED <<platform, kind, worker, step>>,
             ovenUp' \in BOOLEAN, connects' \in Nat, sets' \in Nat, shown' = shown,
             \/ status' = FALSE /\ destroyed' = destroyed
             \/ status' = status /\ destroyed' = TRUE
      PROVE  PollsOnly'
  <2>1. /\ poll' \in [Poll -> {"free", "scheduled", "cancelled", "dead"}]
        /\ temperature' = NoPoll /\ threshold' = NoPoll
        /\ \A p \in Poll : poll'[p] \in {"free", "cancelled"}
        /\ worker # NoPoll => poll'[worker] = "cancelled"
    BY <1>1, <1>3, RemoveThreadsClears
  <2>2. NoOrphanPoll' /\ ScreenShowsPolling' /\ FuturesInv'
    BY <1>3, <2>1 DEF NoOrphanPoll, ScreenShowsPolling, FuturesInv
  <2>3. WorkerInv' /\ DeathsInv'
    BY <1>3, <2>1 DEF WorkerInv, DeathsInv
  <2> QED BY <1>1, <1>3, <2>1, <2>2, <2>3 DEF PollsOnly
<1>4. CASE RunReconnect
  <2>1. ui' \in Seq(Posts)
    BY <1>1, <1>4, QueueSteps DEF RunReconnect, Posts
  <2>2. connects' \in Nat
    BY <1>1, <1>4 DEF RunReconnect, reconnect, PollsOnly
  <2>3. PollsOnly'
    BY <1>1, <1>3, <1>4, <2>2 DEF RunReconnect, reconnect, enableFalse, PollsOnly
  <2> QED BY <2>1, <2>3 DEF AppInv
<1>5. CASE RunDisable
  <2>1. ui' \in Seq(Posts)
    BY <1>1, <1>5, QueueSteps DEF RunDisable, Posts
  <2>2. PollsOnly'
    BY <1>1, <1>3, <1>5 DEF RunDisable, enableFalse, threads, PollsOnly
  <2> QED BY <2>1, <2>2 DEF AppInv
<1>6. CASE RunShow
  <2>1. ui' \in Seq(Posts)
    BY <1>1, <1>6, QueueSteps DEF RunShow, Posts
  <2>2. PollsOnly'
    BY <1>1, <1>6 DEF RunShow, PollsOnly, polls, threads, NoOrphanPoll, ScreenShowsPolling,
                      FuturesInv, WorkerInv, DeathsInv
  <2> QED BY <2>1, <2>2 DEF AppInv
<1>7. CASE ClickConnect
  <2>1. connects' \in Nat
    BY <1>1, <1>7 DEF ClickConnect, reconnect, PollsOnly
  <2>2. PollsOnly' /\ ui' = ui
    BY <1>1, <1>3, <1>7, <2>1 DEF ClickConnect, reconnect, enableFalse, PollsOnly
  <2> QED BY <1>1, <2>2 DEF AppInv
<1>8. CASE ClickSet
  <2>1. PollsOnly' /\ ui' = ui
    BY <1>1, <1>8 DEF ClickSet, PollsOnly, polls, NoOrphanPoll, ScreenShowsPolling,
                      FuturesInv, WorkerInv, DeathsInv
  <2> QED BY <1>1, <2>1 DEF AppInv
<1>9. CASE onDestroy
  <2>1. PollsOnly' /\ ui' = ui
    BY <1>1, <1>3, <1>9 DEF onDestroy, threads, PollsOnly
  <2> QED BY <1>1, <2>1 DEF AppInv
<1> QED BY <1>2, <1>4, <1>5, <1>6, <1>7, <1>8, <1>9 DEF UIThread

\* A run that ends leaves its poll to its future, dead if it threw, or free if it
\* was cancelled meanwhile.
LEMMA EndRunSteps ==
    ASSUME PollsOnly, NEW threw \in BOOLEAN, EndRun(threw), worker # NoPoll,
           threw /\ platform.bodyIsNumber => kind[worker] = "threshold",
           UNCHANGED <<platform, ovenUp, status, connects, sets, destroyed, shown>>
    PROVE  PollsOnly'
<1> USE DEF EndRun, PollsOnly
<1>1. worker \in Poll /\ poll[worker] \in {"scheduled", "cancelled"}
  BY DEF WorkerInv
<1>2. poll'[worker] \in IF poll[worker] = "cancelled" THEN {"free"}
                        ELSE IF threw THEN {"dead"} ELSE {"scheduled"}
  BY <1>1
<1>3. /\ poll' \in [Poll -> {"free", "scheduled", "cancelled", "dead"}]
      /\ \A p \in Poll \ {worker} : poll'[p] = poll[p]
  BY <1>1
<1>4. NoOrphanPoll' /\ ScreenShowsPolling' /\ WorkerInv'
  BY <1>1, <1>2, <1>3 DEF NoOrphanPoll, ScreenShowsPolling, WorkerInv
<1>5. FuturesInv'
  BY <1>1, <1>2, <1>3 DEF FuturesInv
<1>6. DeathsInv'
  BY <1>1, <1>2, <1>3 DEF DeathsInv
<1> QED BY <1>1, <1>3, <1>4, <1>5, <1>6

\* The threads preserve the invariant.
LEMMA ThreadsPreserveInv ==
    AppInv /\ (ConnectDone \/ SetDone \/ StartPoll \/ Run \/ OvenChanges) => AppInv'
<1> SUFFICES ASSUME AppInv, ConnectDone \/ SetDone \/ StartPoll \/ Run \/ OvenChanges
             PROVE  AppInv'
  OBVIOUS
<1>1. ui \in Seq(Posts) /\ PollsOnly
  BY DEF AppInv
<1>2. CASE ConnectDone
  <2>1. ui' \in Seq(Posts)
    BY <1>1, <1>2, QueueSteps DEF ConnectDone, Posts
  <2>2. PollsOnly'
    BY <1>1, <1>2 DEF ConnectDone, PollsOnly, polls, NoOrphanPoll, ScreenShowsPolling,
                      FuturesInv, WorkerInv, DeathsInv
  <2> QED BY <2>1, <2>2 DEF AppInv
<1>3. CASE SetDone
  <2>1. ui' \in Seq(Posts)
    BY <1>1, <1>3, QueueSteps DEF SetDone, Posts
  <2>2. PollsOnly'
    BY <1>1, <1>3 DEF SetDone, PollsOnly, polls, NoOrphanPoll, ScreenShowsPolling,
                      FuturesInv, WorkerInv, DeathsInv
  <2> QED BY <2>1, <2>2 DEF AppInv
<1>4. CASE StartPoll
  <2>1. PollsOnly' /\ ui' = ui
    BY <1>1, <1>4 DEF StartPoll, PollsOnly, polls, NoOrphanPoll, ScreenShowsPolling,
                      FuturesInv, WorkerInv, DeathsInv
  <2> QED BY <1>1, <2>1 DEF AppInv
<1>5. CASE PollOK
  <2>1. ui' \in Seq(Posts)
    BY <1>1, <1>5, QueueSteps DEF PollOK, Posts
  <2>2. PollsOnly'
    BY <1>1, <1>5, EndRunSteps DEF PollOK, Answers, PollsOnly
  <2> QED BY <2>1, <2>2 DEF AppInv
<1>6. CASE PollNotNumber
  <2>1. PollsOnly' /\ ui' = ui
    BY <1>1, <1>6, EndRunSteps DEF PollNotNumber, Answers, PollsOnly
  <2> QED BY <1>1, <2>1 DEF AppInv
<1>7. CASE TemperatureFailed
  <2>1. ui' \in Seq(Posts)
    BY <1>1, <1>7, QueueSteps DEF TemperatureFailed, Posts
  <2>2. PollsOnly'
    BY <1>1, <1>7 DEF TemperatureFailed, Fails, PollsOnly, polls, NoOrphanPoll,
                      ScreenShowsPolling, FuturesInv, WorkerInv, DeathsInv
  <2> QED BY <2>1, <2>2 DEF AppInv
<1>8. CASE TemperatureDisables
  <2>1. ui' \in Seq(Posts)
    BY <1>1, <1>8, QueueSteps DEF TemperatureDisables, Posts
  <2>2. PollsOnly'
    BY <1>1, <1>8, EndRunSteps DEF TemperatureDisables, PollsOnly
  <2> QED BY <2>1, <2>2 DEF AppInv
<1>9. CASE ThresholdFailed
  <2>1. PollsOnly' /\ ui' = ui
    BY <1>1, <1>9, EndRunSteps DEF ThresholdFailed, Fails, PollsOnly
  <2> QED BY <1>1, <2>1 DEF AppInv
<1>10. CASE OvenChanges
  <2>1. PollsOnly' /\ ui' = ui
    BY <1>1, <1>10 DEF OvenChanges, PollsOnly, polls, threads, NoOrphanPoll,
                       ScreenShowsPolling, FuturesInv, WorkerInv, DeathsInv
  <2> QED BY <1>1, <2>1 DEF AppInv
<1> QED BY <1>2, <1>3, <1>4, <1>5, <1>6, <1>7, <1>8, <1>9, <1>10 DEF Run

\* AppInv is inductive.
THEOREM AppInvariant == Spec => []AppInv
<1>1. AppInv /\ [Next]_vars => AppInv'
  <2> SUFFICES ASSUME AppInv, [Next]_vars PROVE AppInv'
    OBVIOUS
  <2>1. CASE Next
    BY <2>1, UIPreservesInv, ThreadsPreserveInv DEF Next
  <2>2. CASE UNCHANGED vars
    BY <2>2 DEF vars, AppInv, PollsOnly, NoOrphanPoll, ScreenShowsPolling,
                FuturesInv, WorkerInv, DeathsInv
  <2> QED BY <2>1, <2>2
<1> QED BY InitApp, <1>1, PTL DEF Spec

\* However many Connect threads answer, and however the posts of failing polls mix
\* with cancellations, every poll that runs again has a future, and the screen is
\* enabled exactly while both polls have one (MainActivity.enable, removeThreads).
THEOREM PollsCorrect == Spec => []PollsInv
<1>1. AppInv => PollsInv
  BY DEF AppInv, PollsOnly, PollsInv, TypeOK
<1> QED BY <1>1, AppInvariant, PTL

\* With an oven whose body parses as a number the temperature poll is alive while
\* Connect is disabled: RetrieveTemperature catches what RetrieveThreshold does not.
THEOREM SomethingWatchesCorrect == Spec => []SomethingWatches
<1>1. AppInv => SomethingWatches
  <2> SUFFICES ASSUME AppInv, platform.bodyIsNumber, status, ~destroyed
               PROVE  poll[temperature] = "scheduled"
    BY DEF SomethingWatches
  <2>1. temperature # NoPoll
    BY DEF AppInv, PollsOnly, ScreenShowsPolling
  <2>2. poll[temperature] \in {"scheduled", "dead"} /\ kind[temperature] = "temperature"
    BY <2>1 DEF AppInv, PollsOnly, FuturesInv
  <2> QED BY <2>1, <2>2 DEF AppInv, PollsOnly, DeathsInv
<1> QED BY <1>1, AppInvariant, PTL
=============================================================================

----------------------- MODULE UpdaterLifecycleProofs -----------------------
(***************************************************************************)
(* What holds of UpdaterLifecycle for any number of concurrent callers of   *)
(* ForceUpdate: its types, the stop order, and that a caller is answered    *)
(* for its own cycle although the channels carry no identity.               *)
(***************************************************************************)
EXTENDS UpdaterLifecycle, TLAPS

(* main waits for the run goroutine before it stops the database.           *)
StopOrder ==
  /\ main \in {"stopDatabase", "returned"} => run = "returned"
  /\ dbStopped => main = "returned"

(* Somebody waits for a result only while run works on that very request:   *)
(* run takes no other before it has handed over the result. A caller that    *)
(* gave up leaves run with nobody to answer, never with somebody else.      *)
OneRequest ==
  \A c \in Callers : caller[c] = "waiting" => run \in {"forced", "sendResult"} /\ serving = c

IInv == TypeOK /\ StopOrder /\ OneRequest

-----------------------------------------------------------------------------
LEMMA InitEstablishes == Init => IInv
<1> SUFFICES ASSUME Init PROVE IInv
  OBVIOUS
<1>1. TypeOK
  BY DEF Init, TypeOK, Callers, Nobody
<1>2. StopOrder /\ OneRequest
  BY DEF Init, StopOrder, OneRequest, Callers
<1> QED
  BY <1>1, <1>2 DEF IInv

(* The steps of the run goroutine.                                         *)
LEMMA RunningPreserves == IInv /\ Running => IInv'
<1> SUFFICES ASSUME IInv, Running PROVE IInv'
  OBVIOUS
<1> USE DEF IInv, TypeOK, StopOrder, OneRequest
<1>1. CASE RunReady
  BY <1>1 DEF RunReady
<1>2. CASE TickerCycle
  BY <1>2 DEF TickerCycle, Selecting
<1>3. CASE CycleEnds
  BY <1>3 DEF CycleEnds
<1>4. CASE RunReturns
  BY <1>4 DEF RunReturns
<1>5. ASSUME NEW c \in Callers, TakeForce(c) PROVE IInv'
  <2>1. \A d \in Callers : caller[d] # "waiting"
    BY <1>5 DEF TakeForce, Selecting
  <2>2. \A d \in Callers : caller'[d] = "waiting" => d = c
    BY <1>5, <2>1 DEF TakeForce
  <2> QED
    BY <1>5, <2>2 DEF TakeForce, Selecting
<1>6. ASSUME NEW c \in Callers, SendResult(c) PROVE IInv'
  <2>1. \A d \in Callers : caller'[d] # "waiting"
    BY <1>6 DEF SendResult
  <2> QED
    BY <1>6, <2>1 DEF SendResult
<1> QED
  BY <1>1, <1>2, <1>3, <1>4, <1>5, <1>6 DEF Running

(* The steps of the callers of ForceUpdate.                                 *)
LEMMA CallingPreserves == IInv /\ Calling => IInv'
<1> SUFFICES ASSUME IInv, NEW c \in Callers, CallForce(c) \/ GiveUp(c) \/ RequestEnds(c)
             PROVE IInv'
  BY DEF Calling
<1>1. /\ caller' \in [Callers -> {"idle", "sending", "waiting", "answered", "gaveUp"}]
      /\ \A d \in Callers : caller'[d] = "waiting" => caller[d] = "waiting"
  BY DEF IInv, TypeOK, CallForce, GiveUp, RequestEnds
<1>2. UNCHANGED <<ctx, runCtx, run, serving, main, dbStopped, report>>
  BY DEF CallForce, GiveUp, RequestEnds
<1> QED
  BY <1>1, <1>2 DEF IInv, TypeOK, StopOrder, OneRequest

(* The steps of main leave the callers alone; only the start of the run       *)
(* goroutine changes run.                                                  *)
LEMMA MainPreserves ==
  IInv /\ (Starting \/ Signal \/ Stopping \/ CriticalError \/ Reporting) => IInv'
<1> SUFFICES ASSUME IInv, Starting \/ Signal \/ Stopping \/ CriticalError \/ Reporting
             PROVE IInv'
  OBVIOUS
<1> USE DEF Starting, Stopping, Reporting, StartUpdater, Started, StartInterrupted,
            StartAborted, Signal, StopServers, StopUpdater, UpdaterStopped, StopDatabase,
            CriticalError, ReportStopped, ReportTimeout, RunReturned
<1>1. ctx' \in BOOLEAN /\ runCtx' \in BOOLEAN /\ dbStopped' \in BOOLEAN
  <2>1. (ctx' = ctx \/ ctx' = TRUE) /\ (runCtx' = runCtx \/ runCtx' = TRUE)
    BY Zenon
  <2>2. dbStopped' = dbStopped \/ dbStopped' = TRUE
    BY Zenon
  <2> QED
    BY <2>1, <2>2 DEF IInv, TypeOK
<1>2. /\ UNCHANGED <<serving, caller>>
      /\ \/ run' = run
         \/ run = "notStarted" /\ run' = "starting"
  OBVIOUS
<1>3. /\ main' \in {"starting", "interrupted", "running", "stopServers", "stopUpdater",
                    "stopDatabase", "returned", "failed"}
      /\ report' \in {"none", "Shutdown successful", "Shutdown timed out"}
  BY DEF IInv, TypeOK
<1>4. StopOrder'
  <2>1. main' \in {"stopDatabase", "returned"} => run' = "returned"
    BY DEF IInv, StopOrder
  <2>2. \/ dbStopped' = dbStopped /\ (main' = main \/ main # "returned")
        \/ main' = "returned"
    BY Zenon
  <2>3. CASE dbStopped' = dbStopped
    <3>1. dbStopped' => main = "returned"
      BY <2>3, Zenon DEF IInv, StopOrder
    <3> QED
      BY <2>1, <2>2, <3>1 DEF StopOrder
  <2>4. CASE main' = "returned"
    BY <2>1, <2>4 DEF StopOrder
  <2> QED
    BY <2>2, <2>3, <2>4
<1> HIDE DEF Starting, Stopping, Reporting, Signal, CriticalError
<1>5. TypeOK'
  BY <1>1, <1>2, <1>3 DEF IInv, TypeOK
<1>6. OneRequest'
  BY <1>2 DEF IInv, OneRequest
<1> QED
  BY <1>4, <1>5, <1>6 DEF IInv

LEMMA StepPreserves == IInv /\ [Next]_vars => IInv'
<1> SUFFICES ASSUME IInv, [Next]_vars PROVE IInv'
  OBVIOUS
<1>1. CASE Next
  BY <1>1, RunningPreserves, CallingPreserves, MainPreserves DEF Next
<1>2. CASE UNCHANGED vars
  BY <1>2 DEF vars, IInv, TypeOK, StopOrder, OneRequest
<1> QED
  BY <1>1, <1>2

LEMMA Inductive == Spec => []IInv
  BY InitEstablishes, StepPreserves, PTL DEF Spec

-----------------------------------------------------------------------------
(* The variables keep their types, with any set of callers.                *)
THEOREM TypeCorrect == Spec => []TypeOK
<1>1. IInv => TypeOK
  BY DEF IInv
<1> QED
  BY Inductive, <1>1, PTL

(* data.Database.Stop returns only after the run goroutine has returned:
   nothing writes updates.json afterwards.                                  *)
THEOREM DatabaseStopsLastHolds == Spec => []DatabaseStopsLast
<1>1. IInv => DatabaseStopsLast
  BY DEF IInv, StopOrder, DatabaseStopsLast
<1> QED
  BY Inductive, <1>1, PTL

(* ForceUpdate returns the errors of the cycle its caller asked for, however
   many callers there are and whoever of them has given up.                 *)
THEOREM OwnResultHolds == Spec => OwnResult
<1>1. IInv => \A c \in Callers : caller[c] = "waiting" => serving = c
  BY DEF IInv, OneRequest
<1>2. IInv => [\A c \in Callers : caller[c] = "waiting" /\ caller'[c] = "answered"
                                    => serving = c]_vars
  BY <1>1
<1> QED
  BY Inductive, <1>2, PTL DEF OwnResult
-----------------------------------------------------------------------------
(* What a shutdown without a failed service adds to IInv.                   *)
CleanStop ==
  /\ main # "failed"
  /\ main = "returned" => dbStopped
  /\ report = "Shutdown successful" => main = "returned"

LEMMA CleanStopPreserved ==
  ASSUME ~Criticals, CleanStop, [Next]_vars
  PROVE  CleanStop'
<1>1. CASE UNCHANGED vars
  BY <1>1 DEF vars, CleanStop
<1>2. CASE Next
  <2>1. ~Exited
    BY <1>2 DEF Next
  <2>2. CASE Running \/ Calling
    <3>1. UNCHANGED <<main, dbStopped, report>>
      BY <2>2, Zenon DEF Running, Calling, RunReady, TickerCycle, CycleEnds, RunReturns,
                         TakeForce, SendResult, CallForce, GiveUp, RequestEnds
    <3> QED
      BY <3>1, Zenon DEF CleanStop
  <2>3. CASE Starting \/ Signal
    BY <2>1, <2>3, Zenon DEF Starting, StartUpdater, Started, StartInterrupted, StartAborted,
                             Signal, CleanStop, Exited
  <2>4. CASE Stopping
    BY <2>1, <2>4, Zenon DEF Stopping, StopServers, StopUpdater, UpdaterStopped, StopDatabase,
                             CleanStop, Exited
  <2>5. CASE CriticalError
    BY <2>5 DEF CriticalError
  <2>6. CASE Reporting
    BY <2>6, Zenon DEF Reporting, ReportStopped, ReportTimeout, CleanStop
  <2> QED
    BY <1>2, <2>2, <2>3, <2>4, <2>5, <2>6 DEF Next
<1> QED
  BY <1>1, <1>2

(* As long as no service fails by itself, main logs "Shutdown successful" only
   when the run goroutine has returned and the database is stopped.         *)
THEOREM SuccessMeansStoppedHolds ==
  ASSUME ~Criticals
  PROVE  Spec => []SuccessMeansStopped
<1>1. Init => CleanStop
  BY DEF Init, CleanStop
<1>2. CleanStop /\ [Next]_vars => CleanStop'
  BY CleanStopPreserved
<1>3. IInv /\ CleanStop => SuccessMeansStopped
  BY DEF IInv, StopOrder, CleanStop, SuccessMeansStopped
<1> QED
  BY Inductive, <1>1, <1>2, <1>3, PTL DEF Spec
=============================================================================

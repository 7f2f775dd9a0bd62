-------------------------- MODULE UpdaterLifecycle --------------------------
(***************************************************************************)
(* The goroutines around the update cycle: main and its shutdown,          *)
(* Service.Start, Service.run, Service.Stop, and the callers of             *)
(* Service.ForceUpdate, which meet run on two unbuffered channels. A cycle  *)
(* is one opaque activity here; UpdateCycle models what it does.            *)
(***************************************************************************)
EXTENDS Naturals, FiniteSets

CONSTANTS
  Launch,       \* the goroutine main starts with go updaterService.ForceUpdate(ctx)
  Requests,     \* web requests that call ForceUpdate
  Signals,      \* TRUE: an OS signal may arrive
  Criticals,    \* TRUE: a service may fail while it runs (runError)
  GraceExpires  \* TRUE: shutdownGracePeriod may be over before main has stopped

ASSUME CallersAssumption == IsFiniteSet(Requests) /\ Launch \notin Requests
ASSUME SwitchesAssumption == {Signals, Criticals, GraceExpires} \subseteq BOOLEAN

Callers == Requests \cup {Launch}
Nobody == "nobody"
ASSUME NobodyAssumption == Nobody \notin Callers

VARIABLES
  ctx,       \* main's context is done: every caller and handler holds it
  runCtx,    \* the run context is done (Service.runCancel)
  run,       \* the run goroutine
  serving,   \* the caller whose force request run took last
  caller,    \* where each caller is in ForceUpdate
  main,      \* _main
  dbStopped, \* data.Database.Stop has returned
  report     \* what main logged last before os.Exit(1)

vars == <<ctx, runCtx, run, serving, caller, main, dbStopped, report>>

(* A bug: a request is taken while the answer to another is pending.        *)
ReceivesEarly == run \in {"select", "sendResult"}

(* The select of run.                                                      *)
Selecting == run = "select"

(* A bug: Stop does not wait for the run goroutine.                         *)
RunIsOver == run # "notStarted"

(* close(done): what <-s.done waits for.                                    *)
RunReturned == run = "returned"

Exited == report # "none"

-----------------------------------------------------------------------------
(* Service.run                                                             *)

RunReady ==
  /\ run = "starting"
  /\ run' = "select"
  /\ UNCHANGED <<ctx, runCtx, serving, caller, main, dbStopped, report>>

TickerCycle ==
  /\ Selecting
  /\ run' = "cycle"
  /\ UNCHANGED <<ctx, runCtx, serving, caller, main, dbStopped, report>>

(* A bug: the errors of a forced cycle are not handed over.                 *)
CycleEndsSilently ==
  /\ run \in {"cycle", "forced"}
  /\ run' = "select"
  /\ UNCHANGED <<ctx, runCtx, serving, caller, main, dbStopped, report>>

(* A bug: a cycle of the ticker is answered for as well.                    *)
CycleEndsSending ==
  /\ run \in {"cycle", "forced"}
  /\ run' = "sending"
  /\ UNCHANGED <<ctx, runCtx, serving, caller, main, dbStopped, report>>

CycleEnds ==
  /\ run \in {"cycle", "forced"}
  /\ run' = IF run = "cycle" THEN "select" ELSE "sendResult"
  /\ UNCHANGED <<ctx, runCtx, serving, caller, main, dbStopped, report>>

(* s.force <- struct{}{} meets <-s.force: ForceUpdate then waits.           *)
TakeForce(c) ==
  /\ Selecting
  /\ caller[c] = "sending"
  /\ run' = "forced" /\ serving' = c
  /\ caller' = [caller EXCEPT ![c] = "waiting"]
  /\ UNCHANGED <<ctx, runCtx, main, dbStopped, report>>

(* s.forceResult <- errors meets <-s.forceResult of whoever waits.          *)
SendResult(c) ==
  /\ run = "sendResult"
  /\ caller[c] = "waiting"
  /\ run' = "select" /\ serving' = Nobody
  /\ caller' = [caller EXCEPT ![c] = "answered"]
  /\ UNCHANGED <<ctx, runCtx, main, dbStopped, report>>

RunReturns ==
  /\ run = "select" /\ runCtx
  /\ run' = "returned"
  /\ UNCHANGED <<ctx, runCtx, serving, caller, main, dbStopped, report>>

-----------------------------------------------------------------------------
(* Service.ForceUpdate                                                     *)

CallForce(c) ==
  /\ caller[c] = "idle"
  /\ IF c = Launch THEN main = "running"
                   ELSE main \in {"running", "stopServers"}
  /\ caller' = [caller EXCEPT ![c] = "sending"]
  /\ UNCHANGED <<ctx, runCtx, run, serving, main, dbStopped, report>>

(* case <-ctx.Done(): only the second half of ForceUpdate looks at ctx.     *)
GiveUp(c) ==
  /\ caller[c] = "waiting" /\ ctx
  /\ caller' = [caller EXCEPT ![c] = "gaveUp"]
  /\ UNCHANGED <<ctx, runCtx, run, serving, main, dbStopped, report>>

(* The web request is over; the same client may send another. The launch    *)
(* goroutine ends for good.                                                *)
RequestEnds(c) ==
  /\ c # Launch
  /\ caller[c] \in {"answered", "gaveUp"}
  /\ caller' = [caller EXCEPT ![c] = "idle"]
  /\ UNCHANGED <<ctx, runCtx, run, serving, main, dbStopped, report>>

-----------------------------------------------------------------------------
(* main, _main and the services sequence: the database, the updater, the     *)
(* health server, the web server and the backups are started in this order,  *)
(* stopped as server, health, updater, backup, database.                    *)

StartUpdater ==
  /\ main = "starting" /\ run = "notStarted"
  /\ run' = "starting"
  /\ UNCHANGED <<ctx, runCtx, serving, caller, main, dbStopped, report>>

(* Service.Start returns once run is ready.                                 *)
Started ==
  /\ main = "starting" /\ run \notin {"notStarted", "starting"}
  /\ main' = "running"
  /\ UNCHANGED <<ctx, runCtx, run, serving, caller, dbStopped, report>>

(* Its other case: the context is done first, and it calls Stop.            *)
StartInterrupted ==
  /\ main = "starting" /\ run # "notStarted" /\ ctx
  /\ main' = "interrupted" /\ runCtx' = TRUE
  /\ UNCHANGED <<ctx, run, serving, caller, dbStopped, report>>

StartAborted ==
  /\ main = "interrupted" /\ RunReturned
  /\ main' = "running"
  /\ UNCHANGED <<ctx, runCtx, run, serving, caller, dbStopped, report>>

Signal ==
  /\ Signals /\ ~ctx
  /\ ctx' = TRUE
  /\ UNCHANGED <<runCtx, run, serving, caller, main, dbStopped, report>>

StopServers ==
  /\ main = "running" /\ ctx
  /\ main' = "stopServers"
  /\ UNCHANGED <<ctx, runCtx, run, serving, caller, dbStopped, report>>

(* The HTTP server waits for its requests until its own timeout.            *)
StopUpdater ==
  /\ main = "stopServers"
  /\ main' = "stopUpdater" /\ runCtx' = TRUE
  /\ UNCHANGED <<ctx, run, serving, caller, dbStopped, report>>

UpdaterStopped ==
  /\ main = "stopUpdater" /\ RunReturned
  /\ main' = "stopDatabase"
  /\ UNCHANGED <<ctx, runCtx, run, serving, caller, dbStopped, report>>

StopDatabase ==
  /\ main = "stopDatabase"
  /\ main' = "returned" /\ dbStopped' = TRUE
  /\ UNCHANGED <<ctx, runCtx, run, serving, caller, report>>

(* A service failed: _main returns its error without stopping the others,    *)
(* main closes errorCh and cancels the context.                             *)
CriticalError ==
  /\ Criticals /\ main = "running"
  /\ main' = "failed" /\ ctx' = TRUE
  /\ UNCHANGED <<runCtx, run, serving, caller, dbStopped, report>>

(* The second select of main: a value of errorCh, or its closure.           *)
ReportStopped ==
  /\ main \in {"returned", "failed"} /\ ctx
  /\ report' = "Shutdown successful"
  /\ UNCHANGED <<ctx, runCtx, run, serving, caller, main, dbStopped>>

ReportTimeout ==
  /\ GraceExpires /\ ctx
  /\ report' = "Shutdown timed out"
  /\ UNCHANGED <<ctx, runCtx, run, serving, caller, main, dbStopped>>

-----------------------------------------------------------------------------
Init ==
  /\ ctx = FALSE /\ runCtx = FALSE
  /\ run = "notStarted" /\ serving = Nobody
  /\ caller = [c \in Callers |-> "idle"]
  /\ main = "starting" /\ dbStopped = FALSE /\ report = "none"

Running ==
  \/ RunReady \/ TickerCycle \/ CycleEnds \/ RunReturns
  \/ \E c \in Callers : TakeForce(c) \/ SendResult(c)

Calling == \E c \in Callers : CallForce(c) \/ GiveUp(c) \/ RequestEnds(c)

Starting == StartUpdater \/ Started \/ StartInterrupted \/ StartAborted
Stopping == StopServers \/ StopUpdater \/ UpdaterStopped \/ StopDatabase
Reporting == ReportStopped \/ ReportTimeout

Next ==
  /\ ~Exited   \* os.Exit ends every goroutine
  /\ Running \/ Calling \/ Starting \/ Signal \/ Stopping \/ CriticalError \/ Reporting

(* The Go scheduler; a select picks among its ready cases at random and       *)
(* senders queue on a channel, so a case that is ready again and again is    *)
(* taken in the end. Cycles end because their calls have timeouts. Nobody is  *)
(* obliged to send a request, a signal or an error.                         *)
Fairness ==
  /\ WF_vars(~Exited /\ RunReady) /\ WF_vars(~Exited /\ CycleEnds)
  /\ SF_vars(~Exited /\ RunReturns)
  /\ \A c \in Callers : /\ SF_vars(~Exited /\ TakeForce(c))
                        /\ WF_vars(~Exited /\ SendResult(c))
                        /\ WF_vars(~Exited /\ GiveUp(c))
                        /\ WF_vars(~Exited /\ RequestEnds(c))
  /\ WF_vars(~Exited /\ Starting) /\ WF_vars(~Exited /\ Stopping)
  /\ WF_vars(~Exited /\ ReportStopped)

Spec == Init /\ [][Next]_vars
FairSpec == Spec /\ Fairness

-----------------------------------------------------------------------------
(* Properties                                                              *)

TypeOK ==
  /\ ctx \in BOOLEAN /\ runCtx \in BOOLEAN /\ dbStopped \in BOOLEAN
  /\ run \in {"notStarted", "starting", "select", "cycle", "forced", "sendResult", "returned"}
  /\ serving \in Callers \cup {Nobody}
  /\ caller \in [Callers -> {"idle", "sending", "waiting", "answered", "gaveUp"}]
  /\ main \in {"starting", "interrupted", "running", "stopServers", "stopUpdater",
               "stopDatabase", "returned", "failed"}
  /\ report \in {"none", "Shutdown successful", "Shutdown timed out"}

(* The errors a ForceUpdate returns are those of the cycle it asked for,
   whoever else asks: the two channels carry no request identity.           *)
OwnResult == [][\A c \in Callers : caller[c] = "waiting" /\ caller'[c] = "answered"
                                     => serving = c]_vars

(* Once the database is stopped the run goroutine writes no more: it has
   returned, so no update is cut by os.Exit (the stop order of main).       *)
DatabaseStopsLast == dbStopped => run = "returned"

(* "Shutdown successful" is logged only when the services were stopped.      *)
SuccessMeansStopped == report = "Shutdown successful" => dbStopped /\ run = "returned"

(* A forced update is answered, however often the ticker fires and others
   ask, unless the program is told to stop.                                 *)
ForceAnswered ==
  \A c \in Callers : caller[c] = "sending" ~> caller[c] \in {"answered", "gaveUp"} \/ ctx

(* A signal leads to data.Database.Stop, which waits for a write in progress. *)
SignalStopsDatabase == ctx ~> dbStopped
=============================================================================

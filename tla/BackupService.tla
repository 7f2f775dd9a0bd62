---------------------------- MODULE BackupService ----------------------------
(***************************************************************************)
(* The backup goroutine: a timer, a stop channel, an unbuffered channel for  *)
(* its one error, and a zip of two files that others write meanwhile. The    *)
(* configuration is replaced by a rename, so an open file keeps its contents; *)
(* the history of addresses is emptied and written in place. The restarter   *)
(* of the goservices library reads the error and starts the service anew.    *)
(***************************************************************************)
EXTENDS Naturals, Sequences

CONSTANTS
  Faults,       \* of {"zip", "early"}: a step of a zip or its Close that fails, a
                \* signal during Start
  ReaderStays,  \* BOOLEAN: the restarter reads the error channel until Stop has
                \* returned
  MaxWrites     \* bound: writes of each file

ASSUME BackupAssumption == ReaderStays \in BOOLEAN /\ MaxWrites \in Nat \ {0}

VARIABLES
  enabled,  \* BACKUP_PERIOD is not 0
  run,      \* the goroutine
  stopCh,   \* closed
  main,     \* the services sequence, as far as it concerns this service
  ctx,      \* main's context is done
  config,   \* the version of config.json
  updates,  \* the blocks of updates.json, each of the version that wrote it
  writing,  \* updates.json is being written
  version,  \* of what updates.json holds or will hold
  zip,      \* what the backup being written, or the last one, holds, and whether
            \* its end is missing
  begun     \* ghost: the versions on disk when it was begun

backupVars == <<run, stopCh, main, ctx, config, updates, writing, version, zip, begun, enabled>>
files == <<config, updates, writing, version>>
backup == <<zip, begun, enabled>>

Reading == main = "running" \/ (ReaderStays /\ main = "stopping")

-----------------------------------------------------------------------------
(* Service.Start, Service.run and zipFiles                                 *)

Launched == IF enabled THEN "select" ELSE "returned"

Start ==
  /\ main = "starting" /\ run = "notStarted"
  /\ run' = Launched /\ stopCh' = FALSE
  /\ UNCHANGED <<main, ctx, files, backup>>

Ready ==
  /\ main = "starting" /\ run # "notStarted"
  /\ main' = "running"
  /\ UNCHANGED <<run, stopCh, ctx, files, backup>>

(* ctx is done as well: Start calls Stop, and returns no error.             *)
Interrupted ==
  /\ main = "starting" /\ run # "notStarted" /\ ctx
  /\ stopCh' = TRUE /\ main' = "interrupted"
  /\ UNCHANGED <<run, ctx, files, backup>>

InterruptedReturns ==
  /\ main = "interrupted" /\ run = "returned"
  /\ main' = "running"
  /\ UNCHANGED <<run, stopCh, ctx, files, backup>>

TimerFires ==
  /\ run = "select"
  /\ run' = "config"
  /\ zip' = [config |-> 0, updates |-> <<>>, broken |-> FALSE]
  /\ begun' = [config |-> config, updates |-> version, calm |-> ~writing]
  /\ UNCHANGED <<stopCh, main, ctx, files, enabled>>

StopSeen ==
  /\ run = "select" /\ stopCh
  /\ run' = "returned"
  /\ UNCHANGED <<stopCh, main, ctx, files, backup>>

AddConfig ==
  /\ run = "config"
  /\ zip' = [zip EXCEPT !.config = config]
  /\ run' = "updates"
  /\ UNCHANGED <<stopCh, main, ctx, files, begun, enabled>>

(* A bug: the last block of a file is left out.                             *)
AddOneBlock ==
  /\ run = "updates"
  /\ zip' = [zip EXCEPT !.updates = IF updates = <<>> THEN <<>> ELSE <<updates[1]>>]
  /\ run' = "select"
  /\ UNCHANGED <<stopCh, main, ctx, files, begun, enabled>>

(* io.Copy reads block after block until the end of the file.               *)
AddUpdates ==
  /\ LET next == Len(zip.updates) + 1
     IN \/ /\ run = "updates" /\ next <= Len(updates)
           /\ zip' = [zip EXCEPT !.updates = Append(@, updates[next])]
           /\ UNCHANGED run
        \/ /\ run = "updates" /\ next > Len(updates)
           /\ run' = "select" /\ UNCHANGED zip
  /\ UNCHANGED <<stopCh, main, ctx, files, begun, enabled>>

(* The file stays, with what it has; it is reported and no backup.          *)
ZipFails ==
  /\ "zip" \in Faults /\ run \in {"config", "updates"}
  /\ run' = "sending" /\ zip' = [zip EXCEPT !.config = 0]
  /\ UNCHANGED <<stopCh, main, ctx, files, begun, enabled>>

(* The deferred calls of Close write the rest of the last block and the
   directory of the zip; their errors are dropped, and the backup is done.   *)
CloseFails ==
  /\ "zip" \in Faults /\ run = "updates" /\ Len(zip.updates) >= Len(updates)
  /\ run' = "select" /\ zip' = [zip EXCEPT !.broken = TRUE]
  /\ UNCHANGED <<stopCh, main, ctx, files, begun, enabled>>

(* A bug: run ends without a word when a zip fails.                         *)
RunErrorDropped ==
  /\ run = "sending"
  /\ run' = "returned"
  /\ UNCHANGED <<stopCh, main, ctx, files, backup>>

(* runError <- err meets the restarter, and run returns. A service that is   *)
(* not being stopped is started anew, with channels of its own.             *)
RunError ==
  /\ run = "sending" /\ Reading
  /\ run' = IF main = "running" THEN Launched ELSE "returned"
  /\ stopCh' = IF main = "running" THEN FALSE ELSE stopCh
  /\ UNCHANGED <<main, ctx, files, backup>>

-----------------------------------------------------------------------------
(* main                                                                    *)

Signal ==
  /\ ~ctx /\ (main = "running" \/ "early" \in Faults)
  /\ ctx' = TRUE
  /\ UNCHANGED <<run, stopCh, main, files, backup>>

(* A bug: Stop waits for the goroutine without a word to it.                *)
StopSilently ==
  /\ main = "running" /\ ctx /\ ~writing
  /\ main' = "stopping"
  /\ UNCHANGED <<run, stopCh, ctx, files, backup>>

(* Service.Stop, after the updater has stopped; close panics on a channel   *)
(* that is closed.                                                         *)
Stop ==
  /\ main = "running" /\ ctx /\ ~writing
  /\ IF stopCh THEN main' = "panicked" /\ UNCHANGED stopCh
               ELSE main' = "stopping" /\ stopCh' = TRUE
  /\ UNCHANGED <<run, ctx, files, backup>>

(* A bug: Stop does not wait for done.                                      *)
StoppedAtOnce ==
  /\ main = "stopping"
  /\ main' = "stopped"
  /\ UNCHANGED <<run, stopCh, ctx, files, backup>>

Stopped ==
  /\ main = "stopping" /\ run = "returned"
  /\ main' = "stopped"
  /\ UNCHANGED <<run, stopCh, ctx, files, backup>>

-----------------------------------------------------------------------------
(* The writers: writeRawConfig, and write of the persistence                *)

ReplaceConfig ==
  /\ main = "running" /\ config < MaxWrites
  /\ config' = config + 1
  /\ UNCHANGED <<run, stopCh, main, ctx, updates, writing, version, backup>>

TruncateUpdates ==
  /\ main = "running" /\ ~writing /\ version < MaxWrites
  /\ writing' = TRUE /\ updates' = <<>> /\ version' = version + 1
  /\ UNCHANGED <<run, stopCh, main, ctx, config, backup>>

(* A file of two blocks.                                                   *)
WriteUpdates ==
  /\ writing
  /\ writing' = FALSE /\ updates' = <<version, version>>
  /\ UNCHANGED <<run, stopCh, main, ctx, config, version, backup>>

-----------------------------------------------------------------------------
BackupInit ==
  /\ run = "notStarted" /\ stopCh = FALSE /\ main = "starting" /\ ctx = FALSE
  /\ config = 1 /\ version = 1 /\ updates = <<1, 1>> /\ writing = FALSE
  /\ zip = [config |-> 0, updates |-> <<>>, broken |-> FALSE]
  /\ begun = [config |-> 0, updates |-> 0, calm |-> TRUE]
  /\ enabled \in BOOLEAN

Running == StopSeen \/ AddConfig \/ AddUpdates \/ RunError
Starting == Start \/ Ready \/ Interrupted \/ InterruptedReturns
Stopping == Stop \/ Stopped
Writing == ReplaceConfig \/ TruncateUpdates \/ WriteUpdates

BackupNext ==
  Running \/ TimerFires \/ ZipFails \/ CloseFails \/ Starting \/ Stopping \/ Signal \/ Writing

(* The scheduler, the timer, and files that come to an end. The select takes *)
(* a closed channel in the end although the timer may be ready each time.   *)
BackupFairness ==
  /\ WF_backupVars(AddConfig) /\ WF_backupVars(AddUpdates) /\ WF_backupVars(RunError)
  /\ SF_backupVars(StopSeen) /\ WF_backupVars(TimerFires)
  /\ WF_backupVars(Starting) /\ WF_backupVars(Stopping) /\ WF_backupVars(WriteUpdates)

BackupSpec == BackupInit /\ [][BackupNext]_backupVars /\ BackupFairness

-----------------------------------------------------------------------------
BackupTypeOK ==
  /\ run \in {"notStarted", "select", "config", "updates", "sending", "returned"}
  /\ main \in {"starting", "interrupted", "running", "stopping", "stopped", "panicked"}
  /\ {stopCh, ctx, writing, zip.broken} \subseteq BOOLEAN
  /\ {config, version, zip.config} \subseteq 0..MaxWrites
  /\ updates \in {<<>>, <<version, version>>} /\ Len(zip.updates) \in 0..2

(* A signal ends in a stopped service, whatever the goroutine was doing.     *)
SignalStops == ctx ~> main = "stopped"

(* A backup that failed is not the last one.                                *)
FailureRetried == run = "sending" ~> run = "config" \/ main # "running"

(* Once Stop has returned no backup is written any more.                    *)
ZipUntouched == main = "stopped" => UNCHANGED zip
NothingAfterStop == [][ZipUntouched]_backupVars

(* A finished backup holds two whole files: a configuration and a history that
   were on disk when it was begun or later, each of one version. (Not so: its
   end may be missing, or the history may be written meanwhile.)            *)
Done == run = "select" /\ zip.config # 0
BackupWhole ==
  Done => /\ ~zip.broken /\ zip.config \in begun.config..config
          /\ \E v \in begun.updates..version : zip.updates = <<v, v>>

(* A backup that counts as done and whose end was written holds nothing older
   than its beginning, also while the files are written: a configuration, and
   of the history blocks of versions that never go back; when the history is
   not written meanwhile, all of it.                                        *)
InOrder(blocks, from, to) ==
  \A i, j \in DOMAIN blocks : blocks[i] \in from..to /\ (i <= j => blocks[i] <= blocks[j])
BackupInTime ==
  Done /\ ~zip.broken =>
    /\ zip.config \in begun.config..config
    /\ InOrder(zip.updates, begun.updates, version)
    /\ begun.calm /\ version = begun.updates => zip.updates = <<version, version>>
=============================================================================

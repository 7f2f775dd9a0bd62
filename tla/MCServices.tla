------------------------------ MODULE MCServices ------------------------------
(***************************************************************************)
(* The services around the update cycle for TLC: public addresses and their *)
(* settings, information about an address, and backups. They share no state, *)
(* so a behaviour is one of a single component on one instance, named by     *)
(* part, while the variables of the others keep one value.                  *)
(*                                                                         *)
(* The constants of PublicIP, PublicIPSettings and BackupService are those *)
(* of the parts addresses, urls and interrupted: what is said of every     *)
(* part is checked as the modules state it.                                *)
(***************************************************************************)
EXTENDS PublicIP, PublicIPSettings, BackupService

VARIABLES
  part,
  get, bans, received, results, err, panicked

info == <<get, bans, received, results, err, panicked>>
servicesVars == <<part, vars, settingsVars, info, backupVars>>

-----------------------------------------------------------------------------
(* Addresses: both methods and every version, both and one version, and HTTPS
   alone with a longer ring of URLs.                                         *)

Setup(methods, families, n) ==
  [methods |-> methods, families |-> families,
   urls |-> [v \in {"ipv4 or ipv6", "ipv4", "ipv6"} |-> n]]

Alone == Setup(<<"dns", "http">>, <<"ipv4 or ipv6">>, 2)
ThreeSetups ==
  {Setup(<<"dns", "http">>, <<"ipv4 or ipv6", "ipv4", "ipv6">>, 2),
   Alone,
   Setup(<<"http">>, <<"ipv4", "ipv6">>, 3)}

-----------------------------------------------------------------------------
(* Settings: every list of up to three HTTP services, then every list of DNS
   services and of methods.                                                 *)

Lists(names, n) == SeqOf(names, n) \ {<<>>}
URLLists == Lists({"all", "cycle", "ipify", "ipify6", "ifconfig", "opendns", "google",
                   "noip4", "url:https://custom", "url:https:custom", "unknown"}, 3)
ResolverLists == Lists({"all", "cloudflare", "opendns", "google", "unknown"}, 3)

ChoiceOfMethods == INSTANCE PublicIPSettings WITH
  HTTPLists <- {<<"noip">>},
  DNSLists <- ResolverLists,
  FetcherLists <- Lists({"all", "http", "dns", "udp"}, 2)

-----------------------------------------------------------------------------
(* Information: one service asked about three addresses, three about two.     *)

OneService == INSTANCE IPInfo WITH
  Services <- 1, Addresses <- 3, Answers <- {"ok", "failed", "banned"}, banned <- bans
Several == INSTANCE IPInfo WITH
  Services <- 3, Addresses <- 2, Answers <- {"ok", "failed", "banned"}, banned <- bans

-----------------------------------------------------------------------------
(* Backups: zips that fail, and in the part interrupted a signal while the
   program starts as well.                                                   *)

Backups == INSTANCE BackupService WITH Faults <- {"zip"}, MaxWrites <- 3

-----------------------------------------------------------------------------
Parts ==
  {"addresses", "urls", "methods", "one service", "several", "backups", "interrupted"}

ServicesInit ==
  /\ part \in Parts
  /\ Init /\ (part # "addresses" => setup = Alone)
  /\ IF part = "methods" THEN ChoiceOfMethods!SettingsInit
     ELSE SettingsInit /\ (part # "urls" => http = NotSet /\ asking = "ipv4")
  /\ IF part = "one service" THEN OneService!Init ELSE Several!Init
  /\ BackupInit /\ (part \notin {"backups", "interrupted"} => ~enabled)

ServicesNext ==
  /\ UNCHANGED part
  /\ \/ part = "addresses" /\ Next /\ UNCHANGED <<settingsVars, info, backupVars>>
     \/ /\ \/ part = "urls" /\ SettingsNext
           \/ part = "methods" /\ ChoiceOfMethods!SettingsNext
        /\ UNCHANGED <<vars, info, backupVars>>
     \/ /\ \/ part = "one service" /\ OneService!Next
           \/ part = "several" /\ Several!Next
        /\ UNCHANGED <<vars, settingsVars, backupVars>>
     \/ /\ \/ part = "backups" /\ Backups!BackupNext
           \/ part = "interrupted" /\ BackupNext
        /\ UNCHANGED <<vars, settingsVars, info>>

(* The fairness of each component, in the behaviours that are its own and whose
   liveness is looked at: see the Spec of its module.                        *)
Fairness ==
  /\ WF_vars(part = "addresses" /\ Next)
  /\ \A i \in 1..3 : WF_info(part = "one service" /\ ~panicked /\ OneService!Step(i))
  /\ WF_backupVars(part = "backups" /\ Backups!AddConfig)
  /\ WF_backupVars(part = "backups" /\ Backups!AddUpdates)
  /\ WF_backupVars(part = "backups" /\ Backups!RunError)
  /\ SF_backupVars(part = "backups" /\ Backups!StopSeen)
  /\ WF_backupVars(part = "backups" /\ Backups!TimerFires)
  /\ WF_backupVars(part = "backups" /\ Backups!Starting)
  /\ WF_backupVars(part = "backups" /\ Backups!Stopping)
  /\ WF_backupVars(part = "backups" /\ Backups!WriteUpdates)

ServicesSpec == ServicesInit /\ [][ServicesNext]_servicesVars /\ Fairness

-----------------------------------------------------------------------------
(* The types of the parts of the state.                                      *)
ServicesTypeOK ==
  /\ part \in Parts
  /\ TypeOK /\ SettingsTypeOK
  /\ IF part = "one service" THEN OneService!TypeOK ELSE Several!TypeOK
  /\ BackupTypeOK

(* Addresses (getip.go, pkg/publicip): after the faults each family that has a
   service left is found for good.                                           *)
FoundInTheEnd == part = "addresses" => Recovers

(* Information (info.go). Without an error there is a result.                 *)
ResultOrError == part = "one service" => OneService!ResultOrError

(* GetMultiple returns, and no goroutine of its own is left.                  *)
AllEnd == part = "one service" => OneService!AllEnd

(* It names the failure that made it cancel, not the cancellation.            *)
CauseReported == Several!CauseReported

(* Backups (backup/service.go). A signal once all has started ends in a stopped
   service.                                                                 *)
BackupsStop == part = "backups" => Backups!SignalStops

(* A backup that failed is tried again.                                      *)
BackupsRetried == part = "backups" => Backups!FailureRetried
=============================================================================

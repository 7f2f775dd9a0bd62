---------------------------- MODULE UpdateCycle ----------------------------
(***************************************************************************)
(* The update cycle of ddns-updater: Service.updateNecessary and           *)
(* Updater.Update (internal/update) running over the in-memory records     *)
(* (internal/data) and the persisted history (internal/persistence/json),  *)
(* while web handlers replace the configured providers, the process is     *)
(* restarted or crashes, and the world moves: the public IP changes, DNS    *)
(* answers lag, providers fail or ban, the wall clock is corrected.        *)
(*                                                                         *)
(* One goroutine (Service.run) executes cycles; every lock region and every *)
(* call out of the process is a step of its own. Record ids are 1-based     *)
(* here and 0-based in the code.                                           *)
(***************************************************************************)
EXTENDS Records

CONSTANTS
  Providers,      \* the provider entries a configuration may hold
  Configs,        \* the configurations a user may save: sequences of Providers
  InitialConfig,  \* the one the program is first started with
  InitialPublic,  \* the public address per family; NoAddr: the ISP never gives one
  Handlers,       \* concurrent settings requests of the web UI ({}: UI unused)
  Faults,         \* which faults the environment may inject
  Cooldown,       \* UPDATE_COOLDOWN_PERIOD, in ticks
  BanPeriod,      \* banPeriod, one hour in the code, in ticks
  MaxTime,        \* bound: the clock stops here
  StableFrom,     \* bound: from this time on the environment is quiet
  MaxCycle,       \* bound: ticks a cycle may last (calls have timeouts)
  MaxEvents       \* bound: no cycle starts once a history is this long

AllFaults == {"fetch", "resolve", "provider", "banned", "edit",
              "write", "clock", "cancel", "kill", "tear"}

ASSUME ProvidersAssumption == Providers \subseteq Provider
ASSUME ConfigsAssumption ==
  /\ Configs \subseteq Seq(Providers)
  /\ InitialConfig \in Configs
  /\ \A c \in Configs : \A i, j \in DOMAIN c : c[i] = c[j] => i = j
ASSUME PublicAssumption ==
  /\ InitialPublic \in [Families -> Addrs \cup {NoAddr}]
  /\ \A f \in Families : InitialPublic[f] # NoAddr => InitialPublic[f].fam = f
ASSUME FaultsAssumption == Faults \subseteq AllFaults
ASSUME KeysAssumption == Keys # {}   \* Torn, below, is then no file
ASSUME BoundsAssumption ==
  {Cooldown, BanPeriod, MaxTime, StableFrom, MaxCycle, MaxEvents} \subseteq Nat

VARIABLES
  public,    \* the public address per family, NoAddr when there is none
  remote,    \* the addresses each provider's DNS record holds, at most one per family
  resolved,  \* what DNS lookups of the record answer: lags behind remote
  now,       \* monotonic clock
  wall,      \* wall clock
  data,      \* data.Database.data
  persist,   \* json.Database.data: events per key
  disk,      \* what updates.json holds
  config,    \* the provider entries config.json holds
  pc,        \* where the run goroutine is
  ips,       \* ip, ipv4, ipv6 of updateNecessary
  idx,       \* index of its two loops over records
  toUpdate,  \* recordIDs
  left,      \* the ids of recordIDs still to visit
  view,      \* the records slice of the cycle, once it is no longer db.data
  aliased,   \* TRUE while that slice still is db.data
  stamp,     \* when the cycle last read the clock for itself
  errs,      \* whether the cycle has collected an error
  job,       \* id, ip, record copy and outcome of the Select .. Update in progress
  cancelled, \* the run context is done
  reload,    \* the newData each handler in ReplaceProviders has built
  served,    \* history: every address each DNS record ever held
  told       \* history: when each provider last told us "updated" and "banned"

envVars   == <<public, remote, resolved, now, wall>>
dbVars    == <<data, persist, disk, config>>
cycleVars == <<pc, ips, idx, toUpdate, left, view, aliased, stamp, errs, job>>
ghostVars == <<served, told>>
vars == <<envVars, dbVars, cycleVars, cancelled, reload, ghostVars>>

Torn == [k \in {} |-> <<>>]   \* a file that ends in the middle of the JSON
NoEvents == [k \in Keys |-> <<>>]

Clock == [wall |-> wall, mono |-> now]   \* s.timeNow()
NoClock == [wall |-> 0, mono |-> 0]

NoIPs == [v \in Versions |-> NoAddr]
NoJob == [busy |-> FALSE]
NoReload == [busy |-> FALSE, recs |-> <<>>]
Id == Nat \ {0}
Job == [busy : {TRUE}, id : Id, ip : Addrs \cup {NoAddr}, rec : Record,
        outcome : {"none", "ok", "failed", "banned"}]

Slice == IF aliased THEN data ELSE view

(* The address of this cycle for a provider entry: getIPMatchingVersion     *)
(* followed by ipv6WithSuffix.                                              *)
UpdateIP(p) == IPv6WithSuffix(ips[p.version], p.suffix)

Load(c, events) ==
  [i \in 1..Len(c) |-> NewRecord(c[i], FilterEvents(events[c[i].key], c[i].version))]

-----------------------------------------------------------------------------
(* The in-memory database and the file behind it.                          *)

(* A bug: the range check is missing.                                       *)
AccessUnchecked(id) == IF id > Len(data) THEN "panic" ELSE "ok"

(* id > uint(len(db.data))-1 does not hold of any id when there is no       *)
(* record, since the subtraction wraps: the access that follows panics.     *)
Access(id) == IF Len(data) = 0 THEN "panic" ELSE IF id > Len(data) THEN "notFound" ELSE "ok"

WriteOutcomes == IF "write" \in Faults /\ now < StableFrom
                 THEN {"written", "notOpened", "emptied", "torn"} ELSE {"written"}

(* JSON keeps the wall reading of a time only.                              *)
Encoded(events) == [k \in Keys |-> [i \in DOMAIN events[k] |->
                                     [events[k][i] EXCEPT !.mono = NoTime]]]

Written(outcome, events) ==
  CASE outcome = "written"   -> Encoded(events)
    [] outcome = "notOpened" -> disk
    [] outcome = "emptied"   -> NoEvents
    [] outcome = "torn"      -> Torn

(* A bug: the new event is already counted in the length compared with.     *)
GrowsByTwo(id, rec) == rec.hist.count > data[id].hist.count + 1

Grows(id, rec) == rec.hist.count > data[id].hist.count

(* A bug: only the latest event is kept.                                    *)
AppendedAlone(rec) == [persist EXCEPT ![rec.prov.key] = <<rec.hist.last>>]

Appended(rec) == [persist EXCEPT ![rec.prov.key] = Append(@, rec.hist.last)]

(* Database.Update for an id that is in range; StoreNewIP and write run     *)
(* under the same lock.                                                     *)
DbUpdate(id, rec, outcome) ==
  /\ data' = [data EXCEPT ![id] = rec]
  /\ IF Grows(id, rec)
     THEN /\ persist' = Appended(rec)
          /\ disk' = Written(outcome, Appended(rec))
     ELSE outcome = "written" /\ UNCHANGED <<persist, disk>>

(* The goroutine panics: the process dies with its memory.                  *)
Down(how) ==
  /\ pc' = how
  /\ data' = <<>> /\ persist' = NoEvents
  /\ ips' = NoIPs /\ idx' = 1 /\ toUpdate' = {} /\ left' = {}
  /\ view' = <<>> /\ aliased' = FALSE /\ errs' = FALSE /\ job' = NoJob
  /\ stamp' = NoClock
  /\ cancelled' = FALSE /\ reload' = [h \in Handlers |-> NoReload]

-----------------------------------------------------------------------------
(* updateNecessary                                                         *)

Quiet == now >= StableFrom
Injected(fault) == fault \in Faults /\ ~Quiet
Fails(fault) == Injected(fault) \/ cancelled

StartCycle ==
  /\ pc = "idle"
  /\ \A k \in Keys : Len(persist[k]) < MaxEvents
  /\ pc' = "fetch"
  /\ aliased' = TRUE
  /\ stamp' = Clock
  /\ UNCHANGED <<envVars, dbVars, ips, idx, toUpdate, left, view, errs, job,
                 cancelled, reload, ghostVars>>

(* getNewIPs: each kind of address a record needs, in this order. doIPVersion
   looked at the records when the cycle began; a swap since then has frozen
   them in view.                                                           *)
VersionOrder == <<"ip4or6", "ip4", "ip6">>
Wanted(n) == \E i \in DOMAIN Slice : Slice[i].prov.version = VersionOrder[n]

(* What one fetch of a version may answer; NoAddr stands for an error after
   every try.                                                              *)
Fetched(version) ==
  LET known == {public[f] : f \in {f \in Families : version \in {"ip4or6", f}}} \ {NoAddr}
  IN  known \cup (IF Fails("fetch") \/ known = {} THEN {NoAddr} ELSE {})

FetchIP ==
  /\ pc = "fetch"
  /\ \E n \in idx..Len(VersionOrder) :
       /\ Wanted(n) /\ \A m \in idx..(n - 1) : ~Wanted(m)
       /\ idx' = n + 1
       /\ \E ip \in Fetched(VersionOrder[n]) :
            /\ ips' = [ips EXCEPT ![VersionOrder[n]] = ip]
            /\ errs' = (errs \/ ip = NoAddr)
  /\ UNCHANGED <<envVars, dbVars, pc, toUpdate, left, view, aliased, stamp, job,
                 cancelled, reload, ghostVars>>

FetchDone ==
  /\ pc = "fetch"
  /\ \A n \in idx..Len(VersionOrder) : ~Wanted(n)
  /\ pc' = "decide" /\ idx' = 1
  /\ UNCHANGED <<envVars, dbVars, ips, toUpdate, left, view, aliased, stamp, errs, job,
                 cancelled, reload, ghostVars>>

WithinCooldown(r) == r.hist.count > 0 /\ Since(r.hist.last, now, wall) < Cooldown

(* A bug: a ban is never over.                                              *)
WithinBanForever(r) == r.ban # NoTime

WithinBan(r) == r.ban # NoTime /\ wall - r.ban < BanPeriod

(* lookupIPsResilient: everything DNS answers, or, when a lookup failed,     *)
(* what the other family's lookup had returned by then.                    *)
Lookups(p) ==
  {{a \in resolved[p] : a.fam \in fams} :
     fams \in IF Fails("resolve") THEN SUBSET Families ELSE {Families}}

(* A bug: a host that does not resolve is taken for up to date.             *)
ShouldUpdateIfResolved(r) ==
  LET ip == UpdateIP(r.prov)
  IN  IF WithinCooldown(r) \/ WithinBan(r) \/ ip = NoAddr THEN {FALSE}
      ELSE {found # {} /\ ip \notin found : found \in Lookups(r.prov)}

(* A bug: the validity of the public address is not checked.                *)
ShouldUpdateUnknown(r) ==
  IF WithinCooldown(r) \/ WithinBan(r) THEN {FALSE}
  ELSE {UpdateIP(r.prov) \notin found : found \in Lookups(r.prov)}

(* The answers shouldUpdateRecord may give for a record.                    *)
ShouldUpdate(r) ==
  LET ip == UpdateIP(r.prov)
  IN  IF WithinCooldown(r) \/ WithinBan(r) \/ ip = NoAddr THEN {FALSE}
      ELSE IF r.prov.proxied THEN {ip # GetCurrentIP(r.hist)}
      ELSE {ip \notin found : found \in Lookups(r.prov)}
             \cup (IF cancelled THEN {FALSE} ELSE {})

Decide ==
  /\ pc = "decide" /\ idx <= Len(Slice)
  /\ \E update \in ShouldUpdate(Slice[idx]) :
       toUpdate' = IF update THEN toUpdate \cup {idx} ELSE toUpdate
  /\ idx' = idx + 1
  /\ UNCHANGED <<envVars, dbVars, pc, ips, left, view, aliased, stamp, errs, job,
                 cancelled, reload, ghostVars>>

DecideDone ==
  /\ pc = "decide" /\ idx > Len(Slice)
  /\ pc' = "init" /\ idx' = 1
  /\ stamp' = Clock
  /\ UNCHANGED <<envVars, dbVars, ips, toUpdate, left, view, aliased, errs, job,
                 cancelled, reload, ghostVars>>

(* The first loop: give a record that needs no update its first status.     *)
InitSkip ==
  /\ pc = "init" /\ idx <= Len(Slice)
  /\ idx \in toUpdate \/ Slice[idx].status # "unset"
  /\ idx' = idx + 1
  /\ UNCHANGED <<envVars, dbVars, pc, ips, toUpdate, left, view, aliased, stamp, errs, job,
                 cancelled, reload, ghostVars>>

(* A bug: a record found up to date does not get its address.               *)
InitialStateBare(rec, ip) ==
  [rec EXCEPT !.status = IF ip = NoAddr THEN "failure" ELSE "uptodate"]

(* What setInitialPublicIPFailStatus and setInitialUpToDateStatus make of   *)
(* the record they selected.                                               *)
InitialState(rec, ip) ==
  IF ip = NoAddr THEN [rec EXCEPT !.status = "failure"]
  ELSE [rec EXCEPT !.status = "uptodate",
                   !.hist = IF GetCurrentIP(@) # NoAddr THEN @
                            ELSE Extend(@, [ip |-> ip, wall |-> stamp.wall, mono |-> stamp.mono])]

InitSelect ==
  /\ pc = "init" /\ idx <= Len(Slice)
  /\ idx \notin toUpdate /\ Slice[idx].status = "unset"
  /\ \/ /\ Access(idx) = "ok"
        /\ pc' = "initStore"
        /\ LET ip == UpdateIP(Slice[idx].prov)
           IN job' = [busy |-> TRUE, id |-> idx, ip |-> ip,
                      rec |-> InitialState(data[idx], ip), outcome |-> "none"]
        /\ UNCHANGED <<envVars, dbVars, ips, idx, toUpdate, left, view, aliased, stamp, errs,
                       cancelled, reload, ghostVars>>
     \/ /\ Access(idx) = "notFound"
        /\ errs' = TRUE
        /\ idx' = idx + 1
        /\ UNCHANGED <<envVars, dbVars, pc, ips, toUpdate, left, view, aliased, stamp, job,
                       cancelled, reload, ghostVars>>

InitStore ==
  /\ pc = "initStore"
  /\ pc' = "init" /\ idx' = idx + 1 /\ job' = NoJob
  /\ \/ /\ Access(job.id) = "ok"
        /\ \E w \in WriteOutcomes :
             /\ DbUpdate(job.id, job.rec, w)
             /\ errs' = (errs \/ w # "written")
     \/ /\ Access(job.id) = "notFound"
        /\ errs' = TRUE
        /\ UNCHANGED <<data, persist, disk>>
  /\ UNCHANGED <<envVars, config, ips, toUpdate, left, view, aliased, stamp,
                 cancelled, reload, ghostVars>>

InitDone ==
  /\ pc = "init" /\ idx > Len(Slice)
  /\ pc' = "update" /\ idx' = 1
  /\ left' = toUpdate
  /\ UNCHANGED <<envVars, dbVars, ips, toUpdate, view, aliased, stamp, errs, job,
                 cancelled, reload, ghostVars>>

-----------------------------------------------------------------------------
(* Updater.Update, for the ids of recordIDs in whatever order Go's map      *)
(* iteration yields.                                                       *)

BeginUpdate ==
  /\ pc = "update"
  /\ \E id \in left :
       /\ left' = left \ {id}
       /\ \/ /\ Access(id) = "ok"
             /\ pc' = "mark"
             /\ job' = [busy |-> TRUE, id |-> id, ip |-> UpdateIP(Slice[id].prov),
                        rec |-> [data[id] EXCEPT !.status = "updating"], outcome |-> "none"]
             /\ UNCHANGED errs
          \/ /\ Access(id) = "notFound"
             /\ errs' = TRUE
             /\ UNCHANGED <<pc, job>>
  /\ UNCHANGED <<envVars, dbVars, ips, idx, toUpdate, view, aliased, stamp,
                 cancelled, reload, ghostVars>>

MarkUpdating ==
  /\ pc = "mark"
  /\ \/ /\ Access(job.id) = "ok"
        /\ \E w \in WriteOutcomes :
             /\ DbUpdate(job.id, job.rec, w)
             /\ errs' = (errs \/ w # "written")
             /\ pc' = IF w = "written" THEN "call" ELSE "update"
             /\ job' = IF w = "written" THEN job ELSE NoJob
     \/ /\ Access(job.id) = "notFound"
        /\ errs' = TRUE /\ pc' = "update" /\ job' = NoJob
        /\ UNCHANGED <<data, persist, disk>>
  /\ UNCHANGED <<envVars, config, ips, idx, toUpdate, left, view, aliased, stamp,
                 cancelled, reload, ghostVars>>

(* The DNS record takes the address in place of one of the same family.     *)
Point(p, ip) ==
  LET held == {a \in remote[p] : a.fam # ip.fam} \cup {ip}
  IN  /\ remote' = [remote EXCEPT ![p] = held]
      /\ served' = [served EXCEPT ![p] = @ \cup {ip}]

(* Provider.Update: the request reaches the provider or not, is applied or   *)
(* not, and the answer reaches us or not.                                  *)
CallProvider ==
  /\ pc = "call"
  /\ pc' = "store"
  /\ LET p == job.rec.prov
     IN \/ /\ Point(p, job.ip)
           /\ job' = [job EXCEPT !.outcome = "ok"]
           /\ told' = [told EXCEPT ![p].ok = now]
        \/ /\ Fails("provider")
           /\ UNCHANGED <<remote, served>> \/ Point(p, job.ip)
           /\ job' = [job EXCEPT !.outcome = "failed"]
           /\ UNCHANGED told
        \/ /\ Injected("banned")
           /\ job' = [job EXCEPT !.outcome = "banned"]
           /\ told' = [told EXCEPT ![p].ban = now]
           /\ UNCHANGED <<remote, served>>
  /\ UNCHANGED <<public, resolved, now, wall, dbVars, ips, idx, toUpdate, left, view,
                 aliased, stamp, errs, cancelled, reload>>

(* A bug: the event is appended whatever the provider answered.             *)
AnsweredOptimistic(rec, outcome, ip) ==
  [rec EXCEPT !.status = IF outcome = "ok" THEN "success" ELSE "failure",
              !.hist = Extend(@, [ip |-> ip, wall |-> wall, mono |-> now])]

(* A bug: the ban answer is handled as any other failure.                   *)
AnsweredUnbanned(rec, outcome, ip) ==
  IF outcome = "ok"
  THEN [rec EXCEPT !.status = "success",
                   !.hist = Extend(@, [ip |-> ip, wall |-> wall, mono |-> now])]
  ELSE [rec EXCEPT !.status = "failure", !.ban = NoTime]

(* The record Updater.Update stores once the provider has answered.         *)
Answered(rec, outcome, ip) ==
  CASE outcome = "ok"     -> [rec EXCEPT !.status = "success",
                                !.hist = Extend(@, [ip |-> ip, wall |-> wall, mono |-> now])]
    [] outcome = "banned" -> [rec EXCEPT !.status = "failure", !.ban = wall]
    [] outcome = "failed" -> [rec EXCEPT !.status = "failure", !.ban = NoTime]

(* A bug: the provider's error is dropped once it is stored.                *)
ErroredStoring(outcome, w) == w # "written"

(* Whether Updater.Update returns an error.                                 *)
Errored(outcome, w) == outcome # "ok" \/ w # "written"

StoreResult ==
  /\ pc = "store"
  /\ pc' = "update" /\ job' = NoJob
  /\ \/ /\ Access(job.id) = "ok"
        /\ \E w \in WriteOutcomes :
             /\ DbUpdate(job.id, Answered(job.rec, job.outcome, job.ip), w)
             /\ errs' = (errs \/ Errored(job.outcome, w))
     \/ /\ Access(job.id) = "notFound"
        /\ errs' = TRUE
        /\ UNCHANGED <<data, persist, disk>>
  /\ UNCHANGED <<envVars, config, ips, idx, toUpdate, left, view, aliased, stamp,
                 cancelled, reload, ghostVars>>

(* The return of updateNecessary: healthchecks.io is pinged Ok when errs is  *)
(* FALSE, and a ForceUpdate caller is told that everything was updated.     *)
FinishCycle ==
  /\ pc = "update" /\ left = {}
  /\ pc' = "idle"
  /\ ips' = NoIPs /\ toUpdate' = {} /\ view' = <<>> /\ aliased' = FALSE /\ errs' = FALSE
  /\ stamp' = NoClock
  /\ UNCHANGED <<envVars, dbVars, idx, left, job, cancelled, reload, ghostVars>>

(* An access of db.data[id] when it is empty: uint(0)-1 is the largest uint, *)
(* the check lets every id through, and indexing panics.                   *)
Panic ==
  /\ \/ /\ pc = "init" /\ idx <= Len(Slice)
        /\ idx \notin toUpdate /\ Slice[idx].status = "unset" /\ Access(idx) = "panic"
     \/ /\ pc = "update" /\ \E id \in left : Access(id) = "panic"
     \/ /\ pc \in {"initStore", "mark", "store"} /\ Access(job.id) = "panic"
  /\ Down("panicked")
  /\ UNCHANGED <<envVars, disk, config, ghostVars>>

-----------------------------------------------------------------------------
(* ReplaceProviders, called by a settings handler once config.json is       *)
(* rewritten: the histories are read before the lock, the swap is under it.  *)

ReloadRead(h) ==
  /\ pc \notin {"down", "refused", "panicked"}
  /\ ~reload[h].busy /\ ~Quiet
  /\ \E c \in Configs :
       /\ config' = c
       /\ reload' = [reload EXCEPT ![h] = [busy |-> TRUE, recs |-> Load(c, persist)]]
  /\ UNCHANGED <<envVars, data, persist, disk, cycleVars, cancelled, ghostVars>>

(* A cycle in progress keeps the slice it got from SelectAll.               *)
ReloadSwap(h) ==
  /\ reload[h].busy
  /\ data' = reload[h].recs
  /\ reload' = [reload EXCEPT ![h] = NoReload]
  /\ aliased' = FALSE
  /\ view' = IF aliased THEN data ELSE view
  /\ UNCHANGED <<envVars, persist, disk, config, pc, ips, idx, toUpdate, left, stamp, errs,
                 job, cancelled, ghostVars>>

-----------------------------------------------------------------------------
(* The life of the process.                                                *)

Cancel ==
  /\ Injected("cancel")
  /\ pc \notin {"down", "refused", "panicked"} /\ ~cancelled
  /\ cancelled' = TRUE
  /\ UNCHANGED <<envVars, dbVars, cycleVars, reload, ghostVars>>

(* run returns and main exits.                                             *)
Shutdown ==
  /\ pc = "idle" /\ cancelled
  /\ Down("down")
  /\ UNCHANGED <<envVars, disk, config, ghostVars>>

(* Killed, or the five seconds main grants to Stop are over. write truncates *)
(* the file before it encodes into it.                                     *)
Crash ==
  /\ Injected("kill")
  /\ pc \notin {"down", "refused", "panicked"}
  /\ Down("down")
  /\ \/ UNCHANGED disk
     \/ /\ "tear" \in Faults
        /\ pc \in {"initStore", "mark", "store"} /\ Access(job.id) = "ok"
        /\ LET rec == IF pc = "store" THEN Answered(job.rec, job.outcome, job.ip) ELSE job.rec
           IN  Grows(job.id, rec)
        /\ disk' \in {NoEvents, Torn}
  /\ UNCHANGED <<envVars, config, ghostVars>>

(* main: open updates.json, read config.json, build the records. The         *)
(* supervisor starts the program again for as long as it refuses to start.  *)
Accepted(file) == file # Torn /\ \A k \in Keys : Ordered(file[k])

Boot ==
  /\ pc \in {"down", "refused", "panicked"}
  /\ IF Accepted(disk)
     THEN /\ pc' = "idle"
          /\ persist' = disk
          /\ data' = Load(config, disk)
     ELSE /\ pc' = "refused"
          /\ UNCHANGED <<persist, data>>
  /\ UNCHANGED <<envVars, disk, config, ips, idx, toUpdate, left, view, aliased, stamp,
                 errs, job, cancelled, reload, ghostVars>>

-----------------------------------------------------------------------------
(* The world.                                                              *)

PublicChange ==
  /\ ~Quiet
  /\ \E f \in Families : \E ip \in {a \in Addrs : a.fam = f} \cup {NoAddr} :
       /\ InitialPublic[f] # NoAddr
       /\ public' = [public EXCEPT ![f] = ip]
       /\ ip = NoAddr => "fetch" \in Faults
  /\ UNCHANGED <<remote, resolved, now, wall, dbVars, cycleVars, cancelled, reload, ghostVars>>

Propagate(p) ==
  /\ resolved[p] # remote[p]
  /\ resolved' = [resolved EXCEPT ![p] = remote[p]]
  /\ UNCHANGED <<public, remote, now, wall, dbVars, cycleVars, cancelled, reload, ghostVars>>

(* Someone edits the record on the provider's web site.                     *)
Edit(p) ==
  /\ Injected("edit")
  /\ \E ip \in Addrs : MatchesVersion(ip, p.version) /\ ip \notin remote[p] /\ Point(p, ip)
  /\ UNCHANGED <<public, resolved, now, wall, dbVars, cycleVars, cancelled, reload, told>>

(* Time passes. Two bounds: a cycle lasts at most MaxCycle ticks, and once     *)
(* the environment is quiet DNS answers catch up before the next tick.      *)
Tick ==
  /\ now < MaxTime
  /\ Quiet => resolved = remote
  /\ pc \in {"idle", "down", "refused", "panicked"} \/ now < stamp.mono + MaxCycle
  /\ now' = now + 1 /\ wall' = wall + 1
  /\ UNCHANGED <<public, remote, resolved, dbVars, cycleVars, cancelled, reload, ghostVars>>

(* The wall clock is corrected backwards, once.                             *)
ClockBack ==
  /\ Injected("clock")
  /\ wall = now
  /\ wall' \in 0..(wall - 1)
  /\ UNCHANGED <<public, remote, resolved, now, dbVars, cycleVars, cancelled, reload, ghostVars>>

-----------------------------------------------------------------------------
(* The DNS records before the first start: absent, or pointing here.        *)
NoRecord == [p \in Providers |-> {}]
PointingHere ==
  [p \in Providers |-> {IPv6WithSuffix(InitialPublic[f], p.suffix) :
     f \in {f \in Families : InitialPublic[f] # NoAddr /\ p.version \in {"ip4or6", f}}}]

Init ==
  /\ public = InitialPublic
  /\ remote \in {NoRecord, PointingHere} /\ resolved = remote
  /\ now = 0 /\ wall = 0
  /\ persist = NoEvents /\ disk = NoEvents
  /\ config = InitialConfig
  /\ data = Load(InitialConfig, NoEvents)
  /\ pc = "idle"
  /\ ips = NoIPs /\ idx = 1 /\ toUpdate = {} /\ left = {}
  /\ view = <<>> /\ aliased = FALSE /\ stamp = NoClock /\ errs = FALSE /\ job = NoJob
  /\ cancelled = FALSE
  /\ reload = [h \in Handlers |-> NoReload]
  /\ served = remote
  /\ told = [p \in Providers |-> [ok |-> NoTime, ban |-> NoTime]]

Cycle ==
  \/ StartCycle \/ FetchIP \/ FetchDone \/ Decide \/ DecideDone
  \/ InitSkip \/ InitSelect \/ InitStore \/ InitDone
  \/ BeginUpdate \/ MarkUpdating \/ CallProvider \/ StoreResult
  \/ FinishCycle \/ Panic

Environment ==
  \/ PublicChange \/ Tick \/ ClockBack
  \/ \E p \in Providers : Propagate(p) \/ Edit(p)

Process == Cancel \/ Shutdown \/ Crash \/ Boot

Next == Cycle \/ Process \/ Environment \/ \E h \in Handlers : ReloadRead(h) \/ ReloadSwap(h)

Spec == Init /\ [][Next]_vars

(* The scheduler runs the goroutines, the ticker fires again and again, DNS  *)
(* caches expire and the supervisor restarts the program. The select of run  *)
(* picks among ready cases at random, so a done context is taken in the end.  *)
(* Nothing is assumed of faults, address changes or users.                  *)
Fairness ==
  /\ WF_vars(Cycle) /\ WF_vars(Tick) /\ SF_vars(Shutdown) /\ WF_vars(Boot)
  /\ \A p \in Providers : WF_vars(Propagate(p))
  /\ \A h \in Handlers : WF_vars(ReloadSwap(h))

FairSpec == Spec /\ Fairness

-----------------------------------------------------------------------------
(* Properties                                                              *)

TypeOK ==
  /\ public \in [Families -> Addrs \cup {NoAddr}]
  /\ remote \in [Providers -> SUBSET Addrs] /\ resolved \in [Providers -> SUBSET Addrs]
  /\ served \in [Providers -> SUBSET Addrs]
  /\ now \in Nat /\ wall \in Nat
  /\ data \in Seq(Record) /\ view \in Seq(Record)
  /\ persist \in [Keys -> Seq(Event)] /\ disk \in [Keys -> Seq(Event)] \cup {Torn}
  /\ config \in Configs
  /\ pc \in {"idle", "fetch", "decide", "init", "initStore", "update", "mark", "call",
             "store", "down", "refused", "panicked"}
  /\ ips \in [Versions -> Addrs \cup {NoAddr}]
  /\ idx \in Id /\ toUpdate \in SUBSET Id /\ left \in SUBSET toUpdate
  /\ aliased \in BOOLEAN /\ errs \in BOOLEAN /\ cancelled \in BOOLEAN
  /\ stamp \in [wall : Nat, mono : Nat]
  /\ job \in Job \cup {NoJob}
  /\ reload \in [Handlers -> [busy : BOOLEAN, recs : Seq(Record)]]
  /\ told \in [Providers -> [ok : Nat \cup {NoTime}, ban : Nat \cup {NoTime}]]

Calling == pc = "call" /\ pc' = "store"

(* Every address in the persisted history of a domain was, at some time, the
   address of a DNS record of that domain: nothing is recorded as done that
   was neither sent nor observed (StoreNewIP through Database.Update).      *)
HistoryFaithful ==
  \A k \in Keys : \A i \in DOMAIN persist[k] :
    \E p \in Providers : p.key = k /\ persist[k][i].ip \in served[p]

(* Once a provider confirmed an update, it is not called again for that
   record within the cooldown (shouldUpdateRecord), whatever restarts.      *)
CooldownRespected ==
  [][Calling => LET t == told[job.rec.prov].ok IN t = NoTime \/ now - t >= Cooldown]_vars

(* Once a provider answered with a ban, it is not called again for that
   record within the ban period (shouldUpdateRecord, Updater.Update).       *)
BanRespected ==
  [][Calling => LET t == told[job.rec.prov].ban IN t = NoTime \/ now - t >= BanPeriod]_vars

(* An address sent to a provider is of a family its entry is configured for,
   with the suffix it is configured for.                                    *)
AddressFitsProvider ==
  [][Calling => LET p == job.rec.prov
                IN  /\ MatchesVersion(job.ip, p.version)
                    /\ job.ip = IPv6WithSuffix(job.ip, p.suffix)]_vars

(* A record is shown "up to date" with an address only if its DNS record did
   hold that address (setInitialUpToDateStatus).                            *)
UpToDateHonest ==
  [][\A i \in DOMAIN data \cap DOMAIN data' :
       data[i].status # "uptodate" /\ data'[i].status = "uptodate"
         => job.ip \in served[data'[i].prov]]_vars

(* A cycle that ends without an error left every record it set out to update
   in the success state with the cycle's address: no failure is swallowed.  *)
FailureReported ==
  [][pc = "update" /\ pc' = "idle" /\ ~errs
       => \A id \in toUpdate : /\ data[id].status = "success"
                               /\ GetCurrentIP(data[id].hist) = UpdateIP(data[id].prov)]_vars

(* A cycle that ends without an error found every record pointing to the
   public address, or made it so ("All records updated successfully").      *)
OkMeansCurrent ==
  [][pc = "update" /\ pc' = "idle" /\ ~errs
       => \A i \in DOMAIN data : UpdateIP(data[i].prov) \in remote[data[i].prov]]_vars

(* Between cycles and settings changes the records in memory are those a
   restart would build: nothing that decides an update is only in memory or
   only in the file.                                                       *)
OnDisk(h) == [h EXCEPT !.last.mono = NoTime]
MemoryMatchesDisk ==
  pc = "idle" /\ (\A h \in Handlers : ~reload[h].busy) =>
    /\ disk # Torn
    /\ Len(data) = Len(config)
    /\ \A i \in DOMAIN data :
         LET fresh == Load(config, disk)[i]
         IN  data[i].prov = fresh.prov /\ OnDisk(data[i].hist) = OnDisk(fresh.hist)

(* Events that reached updates.json are never lost from it.                 *)
DurableHistory ==
  [][disk # Torn /\ disk' # Torn
       /\ \A k \in Keys : SubSeq(disk'[k], 1, Len(disk[k])) = disk[k]]_disk

(* The program accepts the file it wrote (checkHistoryEvents).              *)
StartupAccepted == pc # "refused"

(* No access to the records panics.                                        *)
NoPanic == pc # "panicked"

(* With the environment quiet, every record ends up pointing to the public
   address and stays so.                                                   *)
Current(p) ==
  \A f \in Families : public[f] # NoAddr /\ p.version = f
                        => IPv6WithSuffix(public[f], p.suffix) \in remote[p]
Converges == <>[](pc \notin {"down", "refused", "panicked"}
                  /\ \A i \in DOMAIN data : Current(data[i].prov))

(* isHealthy: a record that failed, that has no address, or whose address is
   not among those DNS answers, makes the program unhealthy.                *)
Healthy ==
  \A i \in DOMAIN data :
    /\ data[i].status # "failure"
    /\ \/ data[i].prov.proxied
       \/ /\ GetCurrentIP(data[i].hist) # NoAddr
          /\ GetCurrentIP(data[i].hist) \in resolved[data[i].prov]

(* With the environment quiet and every record pointing to the public address,
   the health check says so.                                                *)
HealthRecovers ==
  <>[]((\A i \in DOMAIN data : Current(data[i].prov)) => Healthy)
=============================================================================

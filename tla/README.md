# A model of ddns-updater

TLA+ modules, TLC configurations and TLAPS proofs for ddns-updater, the
program that keeps DNS records of many providers pointing to the public
address of the machine it runs on.

1. [The system](#1-the-system)
2. [Modules](#2-modules)
3. [What the modules say and how they follow the code](#3-from-code-to-model)
4. [Runs](#4-runs)
5. [Disagreements found](#5-disagreements-found)
6. [Proofs](#6-proofs)
7. [What is only model-checked, and what is not modelled](#7-limits)
8. [Plan](#8-plan)

Run any of it from this directory: `tlc -workers 2 -config UpdateCycle_network.cfg MCUpdateCycle`,
`tlapm UpdateCycleProofs.tla`.

## 1. The system

One process, built in `cmd/ddns-updater/main.go`. Paths below are relative to
`src/`, and to `src/internal/` when they start with neither `cmd` nor `pkg`.

| Part | State | Operations | Talks to | What makes it correct |
|---|---|---|---|---|
| Update service, `update/service.go`, `getip.go`, `ipv6.go` | nothing between cycles; in a cycle the records slice, the addresses, the chosen ids, the errors | `updateNecessary`: fetch, decide, set initial states, update | fetchers, resolver, record database, healthchecks.io | sends only current, fitting addresses; cooldown and bans hold; no failure is swallowed; every record converges |
| Updater, `update/update.go` | none | `Update(id, ip)`: mark, call the provider, store | record database, provider | the stored record says what the provider answered |
| Run goroutine, `update/service.go:388-440` | two unbuffered channels, the run context | `Start`, `run`, `ForceUpdate`, `Stop` | main, web handlers | a caller gets its own errors; `Stop` ends |
| Record database, `data/` | `[]records.Record` under a lock | `Select`, `SelectAll` (no copy), `Update`, `ReplaceProviders`, `Stop` | history file, update service, web UI, health check | memory agrees with the file; ids stay what they were |
| History file, `persistence/json/` | events per domain and owner, `updates.json` | `StoreNewIP`, `GetEvents`, validation at startup | disk, backup | events are never lost nor invented; the program accepts its own file |
| Process, `cmd/ddns-updater/main.go` | context, error channel, services sequence | start, signal, grace period, exit | everything | stops in order, nothing writes after the database stopped |
| Lookup of a record, `update/service.go:56`, `resolver/` | none | two concurrent lookups, each retried, cancelling each other | DNS | an address that did not answer is not taken for absent |
| Providers, `provider/` | none | `Update(ctx, client, ip)`: request sequences of some fifty APIs | HTTP | lists, then creates or edits; recognises a ban |
| Public IP, `pkg/publicip` | counters, ring of URLs and bans | `IP`, `IP4`, `IP6` | HTTP, DNS servers | each source is used, banned ones are not |
| IP information, `pkg/publicip/info` | ring of sources and bans | `Get`, `GetMultiple` | HTTP | ends, and never asks a banned source |
| Health check, `health/` | HTTP server | `isHealthy` | record database, resolver | unhealthy exactly when a record is wrong |
| Settings pages, `server/settings.go`, `configui.go` | `config.json` and a temporary file | read, edit, write, replace the records | record database | no edit lost; file and memory agree |
| Admin login, `server/adminauth.go` | password file, session table | login, logout, change, migrate | disk | a session ends when it should; the last password wins |
| Backup, `backup/` | timer, two channels | tick, zip, stop | disk | reads complete files; stops |
| Notifications, `healthchecksio/`, `shoutrrr/` | none | ping, send | HTTP | reports what happened |
| Settings and parameters, `config/`, `params/` | none | parse, expand entries, reject duplicates | environment, `config.json` | every entry becomes the providers it describes |

How they meet. `run` is the only goroutine that executes cycles. It meets the
callers of `ForceUpdate` on two channels, the settings handlers and the pages in
the lock of the record database, and main in the run context and a `done`
channel. `SelectAll` hands out the slice itself, so a cycle sees later stores
through its alias until `ReplaceProviders` installs another slice. Only the
cycle stores events; `ReplaceProviders` reads them back without the lock that
guards the swap.

What is hard here: the process dies at any step of a write; provider calls take
seconds between the read of a record and its store; the settings change during
a cycle that identifies records by position; DNS lags behind providers; answers
get lost; wall and monotonic clocks differ after a restart; shutdown meets a
forced update. `PROJECT.json` lists each of these hazards with its line.

## 2. Modules

| Module | Contents |
|---|---|
| `Records` | addresses, events, histories, provider entries, records, and the pure functions on them |
| `UpdateCycle` | the update cycle over memory and file, with settings handlers, restarts and the world |
| `UpdaterLifecycle` | main, `run`, `Stop` and the callers of `ForceUpdate` |
| `RecordLookup`, `LookupContract` | the two lookups of a record; what the cycle takes them for |
| `DnsZone` | a zone, one entry in it, the call in progress, how an exchange may end |
| `RecordClients` | the clients of 23 providers that look for, create, edit and delete records |
| `DynClients` | the 34 clients that send one request and read one answer |
| `ProviderClients`, `ProviderContract` | any client against its zone; what the updater expects of every call |
| `PublicIP` | the tries, methods and services by which an address is fetched |
| `PublicIPSettings` | how settings become those methods and services |
| `IPInfo` | `Get` and `GetMultiple` of `pkg/publicip/info` |
| `ConfigStore` | `config.json`, the requests that edit it, kills and starts |
| `ProviderRules`, `ConfigEntries` | what each provider asks of an entry; entries, records and the page that joins them |
| `AdminAuth` | the password file and the sessions |
| `BackupService` | the backup goroutine, its channels and the files it reads |
| `MCUpdateCycle`, `MCUpdaterLifecycle`, `MCRecordLookup`, `MCProviderClients`, `MCConfigStore` | small instances of the module they are named after |
| `MCWebUI` | `ConfigStore`, `AdminAuth` and `ConfigEntries`, each on one or more instances, one per behaviour |
| `MCServices` | `PublicIP`, `PublicIPSettings`, `IPInfo` and `BackupService`, likewise |
| `SequenceLemmas` | the least number of a set, the latest position of a sequence, the elements of a flattened one |
| `UpdateCycleProofs` | facts about the functions of `Records`, the types of `UpdateCycle`, what a cycle sends, records, shows and reports |
| `UpdateDurabilityProofs` | what the history file is worth: durability, restarts, cooldowns and bans |
| `UpdaterLifecycleProofs` | types, stop order, own result, clean shutdown |
| `RecordLookupProofs` | no goroutine left, grounded answers, and that `RecordLookup` implements `LookupContract` |
| `ProviderClientsProofs` | for every client: what a success means, which records it touches, that it piles up none, that it keeps `ProviderContract`, that an undisturbed call succeeds |
| `WebUIProofs` | `config.json` with one settings request at a time; sessions and the password file; entries, records and rows |
| `ServicesProofs` | public addresses and their settings, backups |

`MCWebUI` and `MCServices` are sums, not compositions: their components share no
state in the code, so a behaviour picks one instance (`part`) and runs that
component alone, while the variables of the others keep one value. Each extends
its components, so the properties TLC checks are the definitions of the modules,
the ones the theorems name, in whichever part moves their state. The other
instances of a component are named (`Edits`, `SingleFile`, `Expanded`,
`ChoiceOfMethods`, `OneService`, `Several`, `Backups`); what depends on the constants of one of
them is guarded by `part`.

How they fit together. `UpdateCycle` takes the whole of each other component it
meets for one step, and the module of that component says what the step stands
for:

| Step of `UpdateCycle` | Module behind it | Relation |
|---|---|---|
| `Lookups` in `ShouldUpdate` | `RecordLookup` | refines `LookupContract`, one look at the DNS (`ImplementsContract`, proved) |
| `CallProvider` | `ProviderClients` | refines `ProviderContract`, client by client (`KeepsContract`, proved) |
| `FetchIP` | `PublicIP` | `FamilyFits`: an address is of the family asked for, or none (proved) |
| `ReloadSwap` | `ConfigStore` | `RecordsMatchFile`, proved with one request at a time |
| `Healthy` | in `UpdateCycle` | an operator on the records and on DNS, read in one state |

`UpdateCycle` and `UpdaterLifecycle` split one goroutine in two views. The
lifecycle treats a cycle as one activity that takes a while and ends; the cycle
leaves out who asked for it, since a forced cycle and a ticker cycle run the same
code. `cancelled` of the first is `runCtx` of the second.

## 3. From code to model

### Records

An address is a family, a network prefix and a host part: enough to tell apart
families, changes of address and the effect of an IPv6 suffix. A history is the
number of its events and the latest one, the only things the updater reads of it
(`models.History` gives `len` and `GetCurrentIP`, `shouldUpdateRecord` the time of
the latest). A time is a wall reading and a monotonic reading, because
`time.Time.Sub` uses the monotonic ones when both have it and JSON drops it.
`Message` and `Time` of a record are display only.

### UpdateCycle

State: `data` and `persist` are the two databases in memory, `disk` and `config`
the two files, `pc` and the variables after it the locals of `updateNecessary` and
of `Updater.Update`, `reload` the locals of `ReplaceProviders`, `public`, `remote`,
`resolved`, `now` and `wall` the world. `served` and `told` are history variables:
what the DNS records ever held and when a provider last answered. `aliased` says
that the slice of the cycle still is `db.data`; a swap freezes it in `view`.

| Code | Actions |
|---|---|
| `updateNecessary`: `SelectAll`, `doIPVersion`, `getNewIPs` | `StartCycle`, `FetchIP` once for each kind of address wanted, `FetchDone` |
| `getRecordIDsToUpdate`, `shouldUpdateRecord` | `Decide` once per record, `DecideDone` |
| first loop, `setInitial…Status`, `db.Update` | `InitSkip`, `InitSelect`, `InitStore`, `InitDone` |
| second loop over the map, `Updater.Update` | `BeginUpdate`, `MarkUpdating`, `CallProvider`, `StoreResult` |
| the end of the cycle, the health ping | `FinishCycle` |
| an access of an empty `db.data` | `Panic` |
| `ReplaceProviders` | `ReloadRead`, `ReloadSwap` |
| `Stop`, the end of `run`, kill or grace period over, next start | `Cancel`, `Shutdown`, `Crash`, `Boot` |

A step is a lock region or a call that leaves the process. A fetch or a lookup
with its retries is one step with every result it may have. `write` truncates
before it encodes: its outcomes are complete, not opened, emptied and torn, and a
crash during a store leaves the last two as well. The persisted history is under
the same lock as the record, so both are one step.

Abstractions to know about:
  - record ids start at 1 here, at 0 in the code. `Access` keeps the wrapping
    `uint(len)-1` of the range check;
  - `ReloadRead` reads the histories of all entries in one step and rewrites
    `config.json` in the same one. The code takes the persistence lock once per
    entry; a finer step would only add more ways to lose the same event;
  - the address a provider confirms is the one it was asked to set. A provider
    that answers with another is an error in the code;
  - a failed provider call may or may not have been applied, and a confirmed one
    replaces the address of the same family;
  - at startup a record that differs from the public address may be absent or
    already right (`NoRecord`, `PointingHere`).

### UpdaterLifecycle

`run`, `main` and each caller have a program counter. A rendezvous on an
unbuffered channel is one action of two: `TakeForce` for `s.force`, `SendResult` for
`s.forceResult`. `serving` is a history variable: whose request the run goroutine
took. `os.Exit` ends everything (`Exited`), so deadlock is not checked there: the
program is meant to end. `Requests` may send again after each answer; `Launch`, the
goroutine of main, asks once.

### RecordLookup

Two goroutines, each `Ask`, `Answer`, then the rendezvous `Receive` with the loop of
`lookupIPsResilient`; `Decide` is the rest of `shouldUpdateRecordWithLookup`. An attempt
begun with a done context fails; one in flight may still be answered. The DNS
may change between any two steps. `SeenNow`, the refinement mapping, takes the
result of the family that matters as seen when its goroutine has it.

### The providers

`DnsZone` has a zone (records with id, name, type and value), the entry, the
target of the call, and what the client remembers between two exchanges (`mem`).
An exchange is one action: the request arrives or not, the answer comes back or
not (`lost`, `unsure`), is a refusal, a ban, a status nobody expected (`odd`), or
claims success for nothing (`ignored`). Which of these an entry may meet is part
of the entry (`faults`), and so are the zones it starts from (`zones`), so that one
run has every client with what is to be asked of it. Between exchanges the public address moves
and users edit, add, delete or redirect the record. `QueryHostname` and `DomainName`
are the two names the code derives from an owner: they differ for the wildcard
only, `any` in place of `*`, and this difference is behind several disagreements.
A client is a disjunction of the exchanges its `Update` makes; contents of
requests are left out down to the name, the type, the value and the id they
carry. The clients of `DynClients` differ in the words they know: `Answers` maps
each to success, ban or failure, and a word unknown to the client is a failure.
`good` and `nochg` stand for the two ways to report success, in whatever text.

Three of them send something else than the name and the address. `Freedns` sends
the token of one host name and no address: the provider takes the one the request
comes from, which is the target unless the entry may meet `source` (an IPv6 suffix,
which is not sent, or a public address that changed since it was fetched). `Custom`
requests a URL of the user; one without a parameter for the address (`keyless`) is
like freedns, and one with both parameters keeps in `query` the address an earlier
call had for the other family, which goes out again when the entry is of both
families (`either`). `query` is empty again after a restart. `Myaddr` sends the key of
a domain, so that the other names of the domain get the address as well.

`ProviderContract` is the abstract specification: a call moves our addresses only
towards the target, never leaves us without one, leaves the other family alone,
reports success only if the target was there at some moment of the call, and
changes nothing when it is banned. spaceship deletes first and creates after: for
it alone `gaps` allows the contract's `Drop`, the step that leaves us without an
address until the call goes on or is repeated.

### Public addresses

`PublicIP` follows `tryAndRepeatGettingIP`, `Fetcher.getSubFetcher` and the two rings.
A counter is taken modulo `CounterSize`, 2^32 in the code and a small multiple of
the numbers it is divided by here, so that the wrap happens in every run and is
as harmless as in the code. `PublicIPSettings` is one start of the program: read,
defaults, validation, creation, in the order of main. It has the names of the
services that are gone, and two custom URLs: one that begins with `https://`, and
one that only has the scheme (`SchemeOnly`), which `Validate` takes and the fetcher
does not. `IPInfo` is not used by the
program; its `GetMultiple` runs one goroutine per address on one channel.

### The web UI

`ConfigStore` keeps files as inodes, because a request that has the temporary
file open goes on writing to the same inode after another one renamed it. A
request is `read`, edit, validate, open (which truncates), write, rename, replace.
`ConfigEntries` looks at the contents instead: `ExtractAllSettings` turns entries into
providers name by name, all or nothing, and a page reads the file, then the
records. `ProviderRules` is a table of what `validateSettings` of each provider
requires. `AdminAuth` has the record of the password file in its three forms, and
requests that read it and write it back in separate steps.

### BackupService

The goroutine waits in its `select`, then adds the two files to the zip one after
the other. `updates.json` is blocks of the version that wrote them, since it is
rewritten in place; `config.json` is replaced by a rename, so an open one keeps its
contents. A failed backup is sent on `runError`, which the goservices library reads
and answers with a new start. An error of the deferred calls of `Close`, which write
the end of the last block and the directory of the zip, reaches nobody: the backup
counts as done and is `broken` (`CloseFails`).

### Fairness

`UpdateCycle!Fairness`: the goroutines are scheduled, the ticker fires, DNS caches
expire, the supervisor (Docker, systemd) starts the program again. Leaving `run` on
a done context is strongly fair: `select` picks among ready cases at random, so a
case ready again and again is taken. No fault, address change, edit or user action
is fair. `UpdaterLifecycle!Fairness` is the same for channels: a sender queued on a
channel is served in the end. Cycles end since every call they make has a timeout.

`RecordLookup`: the goroutines are scheduled, and a call to the resolver ends, by its
timeout if need be. `ProviderClients`: exchanges end, by the timeout of the HTTP
client, and the updater calls again; no user and no fault is fair. `PublicIP`:
cycles recur and requests end, so `Next` is weakly fair. `IPInfo`: requests end.
`BackupService`: timer, scheduler and writes are weakly fair; the stop case of the
`select` is strongly fair because `select` picks among ready cases at random.
`ReaderStays` is an assumption on the library, which is not in the repository: it
goes on reading the error channel until `Stop` has returned. Without it a failing
backup blocks `Stop` (`ReaderStays = FALSE`). `MCServices` repeats the fairness of each
component for the behaviours in which its liveness is looked at. The other
modules state no liveness and no fairness.

### Bounds

`MaxTime` stops the clock; `Tick` is the only action it disables. Cooldowns and bans
of one or two ticks expire within two or three. `StableFrom` is the time from
which nothing is injected any more; in the safety runs it lies after `MaxTime`, so
faults are possible everywhere. `MaxCycle` limits the ticks within one cycle and
matters in `converges` only, where a cycle must end before the clock does.
`MaxEvents` stops new cycles once a history is that long: two events are what it
takes to have a wrong latest event, a lost one or two out of order. The clock is
corrected at most once. While the environment is quiet DNS answers catch up
before the next tick. In `converges` the clock stops at 4: three quiet ticks are
enough for a cooldown, a ban and a cycle; the behaviour then continues with
cycles at a fixed time for ever, which is what "stays there" is about.

`RecordLookup` has the five tries of the code. `ProviderClients`: two IPv4 addresses
and one IPv6, the owners `@`, `www` and `*`, and a label that is not ours.
`MaxDeeds` is two faults and deeds of users in a behaviour: an exchange that is lost
and a deed between two others, in either order; `MaxRecords` is the size from which
no call starts and no user adds, and `NoPileUp` fails before it. `PublicIP`: `MaxFaults` is four, enough to ban
all URLs of a version or to fail all tries of a fetch with both methods;
`CounterSize` is four, so that both counters wrap. `ConfigStore`: up to three
entries where they are edited, two where the program is killed up to twice; one
request at a time, since two are what the disagreements are about. `AdminAuth`: two
requests, two browsers, and a kill at any moment, within a write or outside;
sessions of one tick over a clock of two. `BackupService`: three or four writes, so that each file is
written before, during and after a backup. `IPInfo`: three addresses and one
service, two addresses and three. `ConfigEntries`: files of one or two entries; two
saves, so that a page meets both. Its part `names` only saves.

## 4. Runs

Passing:

| Run | Instance | Shows |
|---|---|---|
| `network` | one entry of either family with an IPv6 suffix; failing fetches, lookups, calls, bans; 658 thousand states | `HistoryFaithful`, `BanRespected`, `UpToDateHonest`, `FailureReported` |
| `restarts` | a proxied IPv4 and an IPv6 entry of one domain; shutdowns at any step; 764 thousand states | `MemoryMatchesDisk`, `StartupAccepted`, `CooldownRespected`, `DurableHistory` |
| `settings` | the same entries, removed and restored by a handler during cycles; kills, torn and failed writes, a clock correction, manual edits; 4.2 million states | `HistoryFaithful` of the one domain, through the panics this provokes |
| `converges` | one entry compared by DNS; every fault but clock and disk until time 1; 131 thousand states | `Converges` |
| `health` | one entry, failing lookups; 24 thousand states | `HealthRecovers` |
| `lifecycle` | two requests and the launch goroutine, signal, critical error, grace period; 2479 states | `DatabaseStopsLast`, `OwnResult`, `ForceAnswered` |
| `rl_lookup` | both lookups with five tries, failures, a changing DNS and the end of the program; 6122 states | `NoneLeftBehind`, `AlwaysDecides`, `ImplementsContract` |
| `pc_all` | the client of every provider, with the owners, zones, faults and deeds of users that its kind has to bear (`RecordEntries`, `SeveralEntries`, `OtherEntries`, `DynEntries`); 236 thousand states | `OkMeansServed`, `NoPileUp`, `UndisturbedSucceeds`, `OthersUntouched`, `KeepsContract`, `Converges` |
| `web` | `ConfigStore` edited by one page through failed writes, then killed and restarted with and without `CONFIG`; `AdminAuth` with two browsers and requests, sessions over the clock and a kill at any moment; `ConfigEntries` with one entry of every provider and every choice of its fields, with several names in an entry, and with pages beside saves; 1.4 million states | `FileReadable`, `RecordsMatchFile`, `EditsAreSerial`; `PasswordKept`, `ServedUnlocked`, `RefusedRightly`; `EveryNameCovered`, `OwnStatus` |
| `services` | `PublicIP` with both methods and all versions, both and one version, HTTPS alone with three URLs; `PublicIPSettings` with every list of up to three names, retired ones and both custom URLs included; `IPInfo` with one service and with three; `BackupService` with failing zips, a failing `Close` and a signal at any moment; 533 thousand states | `RoundRobin`, `FailureNeedsAllMethods`, `FoundInTheEnd`; `RefusedLate`; `AllEnd`; `BackupInTime`, `BackupsStop`, `NothingAfterStop` |

`RecordLookup_more.cfg`, `ProviderClients_more.cfg`, `MCWebUI_more.cfg` and
`MCServices_more.cfg` are the instances of the last four with every property their
modules state, the type invariants included; TLC finds no error in them either.
They add `AbsenceConfirmed` and `DecisionGrounded`; `NoStaleLeft`; `NeverRefused`,
`Authenticated`, and for one part each `EditHitsItsEntry` (`HitWhileUp`),
`WildcardAccepted` (`WildcardDocumentedAccepted`) and `LiveShown` (`RowsLive`); `FamilyFits`,
`CycledAlone`, `NothingDropped`, `OnlyChosenURLs`, `ResultOrError`, `CauseReported`
and `FailureRetried` (`BackupsRetried`). `FoundInTheEnd` is `Recovers` of
`PublicIP`, `BackupsStop` is `SignalStops` of `BackupService`, in their parts.

Two entries are the least that have an order, share a domain and can be swapped;
two networks the least between which an address changes; two callers besides the
launch the least of which one gives up while another waits.

Why these properties. `HistoryFaithful` relates the file to what the world held at
some time; a wrong event makes a proxied entry skip its update. `CooldownRespected`
crosses a restart, where one clock is replaced by another. `MemoryMatchesDisk` says
that a restart changes nothing that decides an update. `FailureReported` relates the
one answer of a cycle to every record it handled. `OwnResult` is about channels
that carry no identity. `UndisturbedSucceeds` keeps a client from being faithful by
failing always, and `NoPileUp` from succeeding by adding a record per call.
`EditsAreSerial` is about the file over a whole request: each accepted edit is applied
to what the one before it left, through kills and failed writes. `PasswordKept`
relates the file at rest to what callers were told. `ImplementsContract` and
`KeepsContract` carry what `UpdateCycle` takes for one step.

## 5. Disagreements found

Where TLC finds a behaviour of the code that a comment, a message, a document or a
check of the repository rules out. The first two are runs and `findings` of
`PROJECT.json`, with their quotes.

| Run | Property | How |
|---|---|---|
| `v_history` | `HistoryFaithful` | the context is cancelled during a lookup, `shouldUpdateRecord` answers "no update needed", the first loop writes the public address into the history |
| `v_stop` | `SignalStopsDatabase` | `ForceUpdate` gives up on its context, `run` stays blocked on `forceResult`, `Stop` on `run`; only the grace period of main ends it. The grace period is left out of this run to show it |

Configurations beside the runs:

| Configuration | Property | How |
|---|---|---|
| `UpdateCycle_v_clock.cfg` | `StartupAccepted` | the wall clock steps back between two events; `checkHistoryEvents` refuses the file |
| `UpdateCycle_v_panic.cfg` | `NoPanic` | the last entry is removed during a cycle; `uint(0)-1` lets every id through |
| `UpdateCycle_v_lostevent.cfg` | `MemoryMatchesDisk` | an event is stored between the read of the histories and the swap |
| `UpdateCycle_v_staleid.cfg` | `AddressFitsProvider` | entries are reordered during a cycle; an IPv4 address goes to the IPv6 entry |
| `UpdateCycle_v_heals.cfg` | `HealthRecovers` | a fetch failed once; the status FAIL is left only by an update, which is not needed; `health/check.go:30` keeps reporting it |
| `UpdaterLifecycle_v_critical.cfg` | `SuccessMeansStopped` | a service fails; `_main` returns without stopping the others and main logs "Shutdown successful" |
| `ConfigStore_v_serial.cfg`, `ConfigStore_v_readable.cfg` | `EditsAreSerial`, `FileReadable` | two requests: one edit is lost; one renames the temporary file the other has just emptied |
| `BackupService_v_early.cfg` | `SignalStops` | a signal while `Start` waits closes a channel twice |

With other constants. `X` stands for the definition of that name in the MC module;
what is not named is as in the run of that module.

| Constants | Property | How |
|---|---|---|
| `UpdateCycle`: `MoveConfigs` of `TwoKeys`, one handler, failing calls | `HistoryFaithful` | the one entry is replaced by one of another domain during a cycle, which gets an address it never held |
| `UpdateCycle`: one entry, faults banned and cancel | `BanRespected` | `LastBan` is only in memory, while the message of `internal/update/update.go:57` promises "no more updates will be attempted for an hour" |
| `UpdateCycle`: one entry, fault cancel, `Cooldown` 2 | `UpToDateHonest` | the context is cancelled during a lookup: the record is shown as up to date without having been looked up; a restart within the cooldown does the same |
| `UpdateCycle`: one entry, kills, or failing writes and cancel | `CooldownRespected` | a confirmed update did not reach `updates.json`: the provider is called again at once after the restart |
| `UpdateCycle`: failing writes; kills within a write | `DurableHistory` | `write` empties the file before it encodes: the events of earlier runs are gone until the next store, and for good when the program ends there |
| `UpdateCycle`: two ip4 entries of one domain and owner | `MemoryMatchesDisk` | events are stored under domain and owner and read back by version: after a restart each entry has the events of both |
| `UpdateCycle`: one entry, no fault, `Cooldown` 2 | `OkMeansCurrent` | a record within its cooldown is skipped, and `internal/server/update.go:20` still says "All records updated successfully" |
| `UpdateCycle`: `ProxyConfigs`, failing calls until time 2 | `Converges` | a proxied entry compares with its history only: an update that was applied although its answer was lost, then undone by a change back of the address, is never repaired |
| `UpdateCycle`: one entry, kills until time 1 | `HealthRecovers` | a kill between the call and the store: the record is found right by lookup, the history keeps the old address, and the health check compares with the history |
| `Entries` of `ProviderClients`: `LinodeStar`, `HeStar`; `IonosStar` | `OkMeansServed`; `NoPileUp` | the wildcard is created as `any.example.com` (linode), sent under that name and reported as updated (he), never found again (ionos) |
| `Entries`: the wildcard of dynu, dd24, duckdns and goip; a label of nowdns; the root of gcp | `OkMeansServed` | another name than that of the record is sent, and a success reported for it |
| `GcpRoot`, `VercelRoot` | `UndisturbedSucceeds` | the root is looked for and created as `@.example.com.`; the values of all records are decoded as addresses, so one CNAME or MX makes every update fail |
| `HetznercloudOdd` | `NoPanic` | a success status other than the expected one is passed to the error handler, which panics |
| `PorkbunRedirected` | `OthersUntouched` | the placeholder is looked at by id and deleted by name: a record set in between goes instead |
| `DnsomaticStar`; `AliyunSimilar` | `OthersUntouched` | dnsomatic updates the root together with the wildcard; aliyun looks by a keyword, and edits the one record found even when only a part of its name matches |
| `FreednsSource`; `CustomSource` | `OkMeansServed` | a success is reported for an address that was not sent: the record has the one the request came from, without the IPv6 suffix that `docs/freedns.md` has among the settings |
| `CustomEither` | `OthersUntouched`, `KeepsContract` | the parameter of one family stays in the URL, and the call for the other overwrites a user's change of that record with an old address |
| `MyaddrNames` | `OthersUntouched` | the key is that of the domain: `docs/myaddr.md` says that all records and subdomains are updated |
| `DreamhostDeleted` | `KeepsContract` | a user deletes the record the client has just made, and the client removes the old one: the name is left without an address. With a third address, a user's change of the new record does the same |
| `PublicIP`: both methods, the versions ipv4 and ipv6 | `Cycled` | one counter for all versions: with two fetches per cycle each version keeps to one method |
| `PublicIPSettings`: HTTP lists with `noip4`; DNS lists of `google` and `cloudflare`, of `cloudflare` and `opendns` | `RetiredIgnored`, `OnlyChosenResolvers` | `noip` passes the validation, whose comment in `internal/config/pubip.go` is "Silently discard it", and is refused later; `google` empties the list or, twice in it, panics; a loop lacks its `continue` and adds every service. `RefusedLate` says of the first what is refused late (`noip`, and `https:` URLs without `//`), and that nothing else is |
| `IPInfo`: two services, one address; two services, two addresses; one service, two addresses | `AllEnd`, `NoPanic`; `ResultOrError`; `ResultsMatch` | a success does not leave the loop, and the index runs beyond the list; all banned gives neither result nor error; results are stored as they arrive |
| `ConfigStore`: two handlers | `RecordsMatchFile`, `EditHitsItsEntry` | the file of one request and the records of the other; a page out of date deletes another entry than the one it shows |
| `ConfigStore`: one handler, kills | `EditHitsItsEntry` | a kill between the rename and the answer: the page still shows the file of before |
| `ConfigStore`: `EnvSettings` of one entry, faults kill and killStarting | `NeverRefused` | a kill while `CONFIG` is written over `config.json` |
| `ConfigEntries`: `Pool` of cloudflare entries; of servercow entries | `Authenticated`; `WildcardAccepted` | an entry without any credential is accepted; the documented wildcard is refused |
| `ConfigEntries`: `Pool` `Several`; entries with `owners` | `LiveShown`; `OwnStatus` | the whole domain field is the key of the status, so several names never match; an owner field is ignored, so a subdomain shows the status of the root |
| `AdminAuth`: `FirstRecords` with a password in clear text | `PasswordKept` | a page load that migrates the record writes the old password over the new one |
| `BackupService`: `MaxWrites` 2; fault zip | `BackupWhole` | a backup during a write holds an empty or mixed history; an error of `Close` (`backup/zip.go:14,16`) is dropped, so a zip without its end counts as done |
| `BackupService`: `ReaderStays = FALSE` | `SignalStops` | the error of a failed backup is not read any more once `Stop` is called: depends on the library |

## 6. Proofs

Every safety property of a passing run is a theorem. All of it is for arbitrary
constants: any sets of networks, domains, providers and configurations, any
cooldown, any number of handlers, callers, attempts, entries, zones, browsers,
passwords and URLs, no bound on time. The assumptions on constants are the named
ASSUMEs of the modules: configurations are sequences of different known
providers, the public address of a family is of that family, null values are not
real ones, there is a key to store events under and at least one attempt per
lookup; a zone is finite and its ids are those of one record; a service has at
least one URL and a counter wraps at an even number; the default password is a
password; the entries of `config.json` are of known providers and name at least one
domain; a list of services is not empty. TLC evaluates them in every run. What
goes beyond is a hypothesis in the statement of the theorem, and TLC finds the
property violated where the hypothesis is dropped (last column; section 5 says
how). The instances of the runs satisfy the hypotheses, with one exception:
`SwapsLeftAlone` leaves out the edits of users that dreamhost meets in `pc_all`, which
do no harm there since a third address is needed.

| Theorem | Hypotheses | Violated without |
|---|---|---|
| `UpdaterLifecycleProofs`: `TypeCorrect`, `DatabaseStopsLastHolds`, `OwnResultHolds` | none | |
| `SuccessMeansStoppedHolds` | no service fails | `UpdaterLifecycle_v_critical.cfg` |
| `UpdateCycleProofs`: `TypeCorrect` | none | |
| `AddressFitsProviderAlone` | no handler | `UpdateCycle_v_staleid.cfg` |
| `HistoryFaithfulAlone` | no handler, no cancel | `UpdateCycle_v_history.cfg`; `MoveConfigs` |
| `FailureReportedAlone` | no handler | entries swapped between the last store and the end of the cycle: the ids name other records |
| `UpToDateHonestAlone` | no handler, no cancel, no kill | a restart of either kind |
| `UpdateDurabilityProofs`: `DurableHistoryHolds` | whole writes, any handlers | a failing write; a kill within one |
| `StartupAcceptedHolds` | no handler, whole writes, clock not set back | `UpdateCycle_v_clock.cfg`; entries swapped by a handler, then a kill |
| `MemoryMatchesDiskAlone` | no handler, whole writes, `Apart` | `UpdateCycle_v_lostevent.cfg`; two entries alike |
| `BanRespectedAlone` | no handler, no cancel, no kill | a restart of either kind |
| `CooldownRespectedAlone` | no handler, no kill, no failing write | a kill; a failing write and a cancel |
| `RecordLookupProofs`: all four | none | |
| `ProviderClientsProofs`: `OkMeansServedHolds` | `HonestEntries` | each client and owner it excludes; `FreednsSource`, `CustomSource` |
| `OthersUntouchedHolds` | `CarefulEntries` | `PorkbunRedirected`, `DnsomaticStar`, `AliyunSimilar`, `CustomEither`, `MyaddrNames` |
| `NoPileUpHolds` | `CarefulEntries`, `AloneEntries` | `IonosStar`; a zone that has several records of the name |
| `KeepsContractHolds` | `HonestEntries`, `CarefulEntries`, `SwapsLeftAlone` | `DreamhostDeleted`, `FreednsSource`, `CustomEither`, and as above |
| `UndisturbedSucceedsHolds` | `CarefulEntries`, `WorkableEntries` | `GcpRoot`, `VercelRoot` |
| `WebUIProofs`: `FileReadableAlone`, `NeverRefusedAlone`, `RecordsMatchFileAlone`, `EditsAreSerialAlone` | `OneRequest`, `Installed`, `WholeStarts` | two handlers; a kill while `CONFIG` is written |
| `EditHitsItsEntryAlone` | `OneRequest`, `Installed`, no kill | two handlers; a kill |
| `AuthTypesHold`, `ServedOnlyUnlocked` | none | |
| `PasswordAlwaysKept`, `AlwaysRefusedRightly` | `NoClearText` | a password file in clear text |
| `EveryNameCoveredHolds` | none | |
| `OwnStatusHolds` | `OneNameEach` | entries with `owners` |
| `ServicesProofs`: `PublicIPTypes`, `FamilyAlwaysFits`, `UrlsInTurn`, `OutageOfOneIsNone` | none | |
| `BackupTypes`, `BackupAlwaysInTime`, `NoBackupAfterStop` | none | |
| `AlwaysRefusedInTime` | none | |

"No handler" is `Handlers = {}`: nobody saves settings while the program runs.
`WholeWrites` is: no store of `updates.json` fails and no kill falls within one.
Inductive invariants were model-checked before they were proved, on the instances
of the runs, on `MCConfigStore` with two entries, kills and failing writes, and on
one entry of `UpdateCycle` with kills, torn and failed writes, clock corrections and
manual edits. The exception is `Kept` of `SettingsInv`, which ranges over all sequences.

**`SequenceLemmas`.** The induction theorems of the library cannot be used (they take
an operator), so facts about all sequences go by the least counterexample: a set
of naturals that is not empty has a least element, from the well-foundedness
theorems of the library. `LatestExists` is what `FilterEvents` needs, and
`FlattenSeqElements` says that the elements of a flattened sequence are those of its
parts, which is how entries become records and lists lose names.

**`UpdaterLifecycleProofs`.** `IInv` is the conjunction of the types, `StopOrder` and
`OneRequest`. `OneRequest` is the strengthening that matters: whoever waits for a
result is the one `run` works for, and `run` is past taking the request. It is
inductive because `run` takes no second request before it handed over the first
result, so a caller that gave up leaves nobody waiting instead of somebody else.

**`UpdateCycleProofs`.** First, the functions of `Records`: `FilterEvents` returns a
history and its latest event is one of the events given; `FilterEventsIs` and
`FilterEventsAppend` say what it becomes when an event is appended, which is what
makes a restart comparable with the records in memory.

Then the types, which are not inductive: a provider is called with a real
address only because every chosen id belongs to a record of the slice whose address
was valid, and remains so while records are stored and swapped. `CycleShape` says
that. One lemma per group of actions, and `StoringPreserves` for what the three
stores have in common. It holds with handlers, faults and panics of every kind.

Then the cycle on its own. `Alone` says that the cycle works on `db.data` itself, that
the records are those of the configuration and that each fetched address is of its
kind; everything that follows rests on it.
  - `HistoryFaithfulAlone`: `HInv` carries the argument. `Settled`: a record without
    history that was decided to need no update was seen pointing to the address,
    because the cooldown needs a history, a ban needs a former status, a proxied
    entry compares with its history, and everything else compares with DNS answers,
    which are addresses the record held. `CopyInHand`: between reading a record and
    storing its copy nothing else changed it, so the store appends at most the one
    event of this step. The rest keeps memory and file faithful through appends,
    encodings, failed writes and restarts.
  - `FailureReportedAlone`: `Reported` says of every record the cycle is done with
    that it was updated or an error was collected; the record in hand is exempt
    until it is stored.
  - `UpToDateHonestAlone`: with `Fresh`, a record without a status is one without a
    history, so that `Settled` applies to whatever the first loop shows as up to date.

**`UpdateDurabilityProofs`.** Five results on what crosses a store or a restart.
  - `InSync`: the file is what the memory encodes to. With it a store can only append
    (`DurableHistoryHolds`, with any number of settings requests).
  - `Chronological`: the events on disk are in order and none is later than the wall
    clock or than the `stamp` of the loop that is about to write
    (`StartupAcceptedHolds`).
  - `Loaded`: the history of a record is what `FilterEvents` makes of the persisted
    events of its key (`MemoryMatchesDiskAlone`). A store breaks this for any other
    record of the same key and family, hence `Apart`.
  - `BanKept`: a ban that is not over is known to the record, by a reading of the wall
    clock that a correction can only make later, or is about to be stored; and no
    record that is due for an update is under one.
  - `CooldownKept`: the same of confirmations, which have to be in the file as well,
    because they must survive a restart. The time read from the file may be too late
    after a clock correction, never too early.

**`RecordLookupProofs`.** `LInv` adds to the types `Attempts` (when a goroutine has
failed for good) and `Delivered` (the loop has taken the results of the goroutines
that ended and no others). `LookupImplementsContract`: the step that
settles the result of the wanted family, an answer or a last failure, is the `Look`
of `LookupContract`, `Decide` its `Decide`, a change of the DNS or a stop its `World`;
every other step is a stutter.

**`ProviderClientsProofs`.** Five arguments, all over every client.
  - Success: `SInv` says that a call that has written, in whichever stage of whichever
    client, has been `served`, and that clients that send a record back remember only
    records of our name. One lemma per client with a state to speak of, one for all
    that send one request. `HonestEntries` excludes the owners for which a client
    sends a name of its own making, and providers that report what they did not do
    unless their client compares the answer (`Checking`); of the clients that send no
    address (`Addressless`), those whose requests come from another one.
  - Other records: what an exchange may do is said once, in `Effect`: it leaves the zone
    alone, adds our record, edits one it remembers, replaces or removes ours or a
    placeholder (`ZoneChange`), and remembers what it found or made (`Recalls`). Each
    client is shown to do no more. `ZInv`: whatever a call remembers by id is a record
    of ours as long as it is in the zone. It is inductive because an id is never
    given to two records, and `FreshIsNew` shows that a finite zone always leaves one
    (more candidate ids than records).
  - Pile-up: `Alone`, that a family has one record at most and a client about to add one
    has found none. A retry after a lost answer finds what the first call has made.
  - The contract: from `Effect`, each exchange is `Serve`, `Drop`, `Finish` or a stutter; a
    call is `Begin`, another address `Retarget`, a user's edit `Meddle`. Only dreamhost
    needs more (`Swapping`): what it removes last is not what it has created.
  - Undisturbed calls: while no deed was counted, what is remembered is there, each
    stage finds what it builds on, and a call that has ended was a success
    (`Present`, `Stage`, `Answered`). Every exchange that goes another way is counted.

**`WebUIProofs`.** Three components, for one process.
  - `config.json`: `CInv`. While a request is under way its copy is the file with the
    edit made to it, the temporary file is open during the write only, holds the
    whole copy when it is renamed, and the records are the enabled entries of the
    file but between the rename and `ReplaceProviders`. `PageFollows` adds that the page
    shows the file, which a kill would end. The three inodes are enough with one
    request (`InodesEnough`, `UnnamedIsFree`). `Installed` says that the program was up
    with the settings it was installed with.
  - Sessions and password, with any number of requests at a time. `SessionsHonest`: a
    session in the table was given by this process, expires as it was given and has
    not been locked; so a request that goes on after the check was let in by a session
    of its time. `FileExplained`: the file is empty only within a write or after one
    cut short, and a hash is of a change yet to be answered or of a password that
    stays promised whichever change is answered next (`Explained`). That second half is
    the strengthening: two changes can overlap, and the one that wrote first may be
    answered last. `WritersChange` needs `NoClearText`: otherwise a page load writes too.
  - Entries. `ProvidersCover`: the providers on their way to the records are those the
    written file names, none lost, none added; with it `EveryNameCovered` survives
    failed and overtaken saves. `PageInv`: a row
    that shows a status shows that of a record of its own name, with the records
    taken later than the file.

**`ServicesProofs`.**
  - Addresses: `TriesCover` says that from the second try on every method but the current
    one has failed, which gives `OutageOfOneIsNone`; it is inductive because
    the counter moves on to another method with each try, through its wrap at an even
    number, and there are at least as many tries as methods. `RingOrder`: an open URL that comes after another one up to the last
    one asked has been asked since that one was (`UrlsInTurn`); bans only remove URLs.
  - Backups: `BackupSoFar`, that the zip has blocks in order, none older than the
    beginning of the backup (`InOrderGrows`: a block read now is of the version now on
    disk), a configuration that was on disk meanwhile and, unless the history was
    written since, a beginning of it. `GoneWhenStopped`: `Stop` returns after the goroutine.
  - Settings: `SettingsInv` goes through the stages of a start; `Kept` is what reading
    leaves of a list, by `FlattenSeqElements`, and `WithoutGoogleOnce` what the loop that
    removes names from the list it ranges over leaves of it.

## 7. Limits

Only model-checked, because the prover cannot reach it: liveness (`Converges` of
`UpdateCycle` and of `ProviderClients`, `ForceAnswered`, `HealthRecovers`, `AlwaysDecides`,
`FoundInTheEnd`, `AllEnd`, `BackupsStop`, `BackupsRetried`, and the violated
`SignalStopsDatabase`).

Only model-checked, so far without a proof:
  - `HistoryFaithful` with settings requests, which holds for one domain and not for
    two;
  - everything of `IPInfo` (`ResultOrError`, `CauseReported`);
  - the type invariants of `ProviderClients` and `ConfigStore`, of which `ZInv` and `Shapes`
    say what the proofs need; those of `ConfigEntries` and `PublicIPSettings`;
  - of the configurations with every property: `AbsenceConfirmed`, `NoStaleLeft`,
    `LiveShown`, `Authenticated`, `WildcardAccepted`, `NothingDropped`, `OnlyChosenURLs` and
    `CycledAlone`.

Left out of modules that exist:
  - torn reads of a `Record` by the pages and the health check, which read the
    slice of `SelectAll` without a lock: a data race below the level of these
    modules;
  - the syntax of domains, URLs, TTL ranges and optional fields in settings: pure
    conversions. Of `CONFIG` and `config.json` only entries, names, owners and the
    fields a provider requires are left. A domain list with spaces in it is not in
    the instances;
  - headers, bodies and error texts of provider requests; record TTLs;
    comparisons of address texts (an address is itself however it is written).
    A DynDNS word is `good`, `nochg` or a named refusal, not its text;
  - HTTP statuses of the public address services beyond success, ban and
    failure: `fetch.go` takes any other status for a success, and a page with
    one address in it for an answer;
  - whether the keyword by which aliyun looks for records matches more than the name
    is up to the provider: `www2` stands for such a name, in `AliyunSimilar` only;
  - the wildcard of dnsomatic is in `DnsomaticStar` only, and the `any` wildcard of dd24
    is the same question as he;
  - a kill while the password file is written leaves it empty, and the next start does
    not replace it, because there is a file. No document says which password is then
    in force, so `PasswordKept` allows an empty file, and no other loss, from a write cut
    short until the next one ends;
  - the migration from `host` to `owner` in old history files, which renames a
    field while the file is read;
  - a request of the web UI and the cycle meet in `UpdateCycle` only, two requests in
    `ConfigStore` only.

Not modelled:
  - healthchecks.io and shoutrrr (`healthchecksio/`, `shoutrrr/`): a request whose
    result is logged and decides nothing. When a ping is sent is in `UpdateCycle`
    (`FailureReported`);
  - `pkg/ipextract` and the other searches for an address in a text: no state, and
    nothing but text;
  - the forms of the settings page, which `configui.go` reads out of the
    documentation of each provider, and its HTML, CSS and JavaScript;
  - splash, logs, version, the Docker health command, and the reading of settings
    other than the public address ones.

## 8. Plan

What would add most, in this order.

1. An abstract specification of the program as a whole, a table from entries to
   addresses that follows the public address, with `UpdateCycle` shown to implement
   it while nobody saves settings: its safety part is `HInv` and `Reported`.
2. `HistoryFaithful` with settings requests that keep the domain, which needs the
   relation between `view` and the records that replaced it.
3. `IPInfo`: `ResultOrError` with one service, where a ban cannot leave the ring empty
   beside other calls; and the type invariants named above.
4. `AbsenceConfirmed` and `NoStaleLeft`, from `LInv` and `Effect`.

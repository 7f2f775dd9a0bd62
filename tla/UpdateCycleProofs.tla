-------------------------- MODULE UpdateCycleProofs --------------------------
(***************************************************************************)
(* What holds of UpdateCycle for every set of providers, configurations,    *)
(* handlers and faults, and for any length of time: its types, with handlers *)
(* and faults of every kind; then what it owes to its users as long as      *)
(* nobody saves settings while it runs. The right address goes to the right *)
(* provider, and, until the program is told to stop, the history of a domain *)
(* holds nothing that was not an address of one of its records.             *)
(***************************************************************************)
EXTENDS UpdateCycle, SequenceLemmas

-----------------------------------------------------------------------------
(* The values of Records: what filterEvents, records.New and ipv6WithSuffix   *)
(* return for every argument of their types.                                 *)

(* The zero address is none of the addresses, and belongs to no family.      *)
LEMMA NoAddrIsNoAddress == NoAddr \notin Addrs /\ NoAddr.fam \notin Families
<1>1. NoAddr.fam = "none"
  BY NullsAreFresh
<1>2. \A a \in Addrs : a.fam \in Families
  BY DEF Addrs
<1> QED
  BY <1>1, <1>2 DEF Families

LEMMA NoEventIsNoEvent == NoEvent \notin Event
<1>1. NoEvent.ip = NoAddr
  BY DEF NoEvent
<1>2. \A e \in Event : e.ip \in Addrs
  BY DEF Event
<1> QED
  BY <1>1, <1>2, NoAddrIsNoAddress

(* filterEvents: a history, whose latest event is one of the events given.   *)
LEMMA FilterEventsType ==
  ASSUME NEW events \in Seq(Event), NEW version \in Versions
  PROVE  /\ FilterEvents(events, version) \in History
         /\ FilterEvents(events, version) # EmptyHistory =>
              \E i \in DOMAIN events : FilterEvents(events, version).last = events[i]
<1> DEFINE kept == {i \in DOMAIN events : MatchesVersion(events[i].ip, version)}
           latest == CHOOSE i \in kept : \A j \in kept : j <= i
<1>1. Len(events) \in Nat /\ DOMAIN events = 1..Len(events)
  OBVIOUS
<1>2. CASE kept = {}
  <2>1. FilterEvents(events, version) = EmptyHistory
    BY <1>2 DEF FilterEvents
  <2>2. EmptyHistory \in History
    BY DEF EmptyHistory, History
  <2> QED
    BY <2>1, <2>2
<1>3. CASE kept # {}
  <2>1. FilterEvents(events, version) = [count |-> Cardinality(kept), last |-> events[latest]]
    BY <1>3 DEF FilterEvents
  <2>2. latest \in kept
    <3>1. kept \subseteq 1..Len(events)
      BY <1>1
    <3>2. \E i \in kept : \A j \in kept : j <= i
      BY <1>1, <1>3, <3>1, LatestExists
    <3> QED
      BY <3>2
  <2>3. latest \in DOMAIN events /\ events[latest] \in Event
    BY <2>2
  <2>4. Cardinality(kept) \in Nat /\ Cardinality(kept) # 0
    <3>1. IsFiniteSet(1..Len(events))
      BY <1>1, FS_Interval
    <3>2. IsFiniteSet(kept)
      BY <1>1, <3>1, FS_Subset
    <3> QED
      BY <1>3, <3>2, FS_CardinalityType, FS_EmptySet
  <2>5. FilterEvents(events, version) \in History
    <3> HIDE DEF kept, latest
    <3> QED
      BY <2>1, <2>3, <2>4, NoEventIsNoEvent DEF History
  <2>6. FilterEvents(events, version).last = events[latest]
    BY <2>1
  <2> HIDE DEF kept, latest
  <2> QED
    BY <2>3, <2>5, <2>6
<1> QED
  BY <1>2, <1>3

(* An address keeps being one, and the zero address stays the zero address.  *)
LEMMA IPv6WithSuffixType ==
  ASSUME NEW ip \in Addrs \cup {NoAddr}, NEW suffix \in Hosts \cup {NoHost}
  PROVE  /\ IPv6WithSuffix(ip, suffix) \in Addrs \cup {NoAddr}
         /\ IPv6WithSuffix(ip, suffix) = NoAddr <=> ip = NoAddr
<1>1. CASE ip = NoAddr
  BY <1>1, NoAddrIsNoAddress DEF IPv6WithSuffix, Families
<1>2. CASE ip \in Addrs
  <2>1. IPv6WithSuffix(ip, suffix) \in Addrs
    BY <1>2 DEF IPv6WithSuffix, Addrs
  <2> QED
    BY <1>2, <2>1, NoAddrIsNoAddress
<1> QED
  BY <1>1, <1>2

LEMMA NewRecordType ==
  ASSUME NEW p \in Provider, NEW h \in History
  PROVE  NewRecord(p, h) \in Record
BY DEF NewRecord, Record, Statuses

(* A history that has an event has a current address.                        *)
LEMMA CurrentIP ==
  ASSUME NEW h \in History
  PROVE  /\ GetCurrentIP(h) \in Addrs \cup {NoAddr}
         /\ GetCurrentIP(h) = NoAddr <=> h.count = 0
BY NoAddrIsNoAddress DEF GetCurrentIP, History, Event, NoEvent

LEMMA ExtendType ==
  ASSUME NEW h \in History, NEW e \in Event
  PROVE  Extend(h, e) \in History
BY NoEventIsNoEvent DEF Extend, History

(* filterEvents, once it is known which events are kept: their number and     *)
(* the one at the highest position.                                         *)
LEMMA FilterEventsIs ==
  ASSUME NEW events \in Seq(Event), NEW version \in Versions, NEW kept,
         kept = {i \in DOMAIN events : MatchesVersion(events[i].ip, version)}
  PROVE  /\ IsFiniteSet(kept)
         /\ kept = {} => FilterEvents(events, version) = EmptyHistory
         /\ \A i \in kept : (\A j \in kept : j <= i) =>
              FilterEvents(events, version) = [count |-> Cardinality(kept), last |-> events[i]]
         /\ kept # {} => \E i \in kept : \A j \in kept : j <= i
<1>1. Len(events) \in Nat /\ DOMAIN events = 1..Len(events) /\ kept \subseteq 1..Len(events)
  OBVIOUS
<1>2. IsFiniteSet(kept)
  <2>1. IsFiniteSet(1..Len(events))
    BY <1>1, FS_Interval
  <2> QED
    BY <1>1, <2>1, FS_Subset
<1>3. FilterEvents(events, version) =
        IF kept = {} THEN EmptyHistory
        ELSE [count |-> Cardinality(kept), last |-> events[CHOOSE i \in kept : \A j \in kept : j <= i]]
  BY Zenon DEF FilterEvents
<1>4. ASSUME NEW i \in kept, \A j \in kept : j <= i
      PROVE  (CHOOSE m \in kept : \A j \in kept : j <= m) = i
  <2> DEFINE c == CHOOSE m \in kept : \A j \in kept : j <= m
  <2>1. c \in kept /\ \A j \in kept : j <= c
    BY <1>4
  <2>2. c <= i /\ i <= c
    BY <1>4, <2>1
  <2>3. c \in Int /\ i \in Int
    BY <1>1, <2>1
  <2> HIDE DEF c
  <2>4. c = i
    BY <2>2, <2>3
  <2> QED
    BY <2>4 DEF c
<1>5. kept # {} => \E i \in kept : \A j \in kept : j <= i
  BY <1>1, LatestExists
<1> QED
  BY <1>2, <1>3, <1>4, <1>5

(* An event added to the end is the latest of those kept, or is not kept.     *)
LEMMA FilterEventsAppend ==
  ASSUME NEW events \in Seq(Event), NEW e \in Event, NEW version \in Versions
  PROVE  FilterEvents(Append(events, e), version) =
           IF MatchesVersion(e.ip, version) THEN Extend(FilterEvents(events, version), e)
           ELSE FilterEvents(events, version)
<1> DEFINE more == Append(events, e)
           n    == Len(events) + 1
           old  == {i \in DOMAIN events : MatchesVersion(events[i].ip, version)}
           new  == {i \in DOMAIN more : MatchesVersion(more[i].ip, version)}
<1>1. /\ more \in Seq(Event) /\ DOMAIN more = DOMAIN events \cup {n} /\ n \notin DOMAIN events
      /\ \A i \in DOMAIN events : more[i] = events[i] /\ i <= n /\ i \in Int
      /\ more[n] = e /\ n \in Int /\ n <= n
  OBVIOUS
<1>2. new = IF MatchesVersion(e.ip, version) THEN old \cup {n} ELSE old
  <2> HIDE DEF more, n
  <2> QED
    BY <1>1
<1>3. /\ IsFiniteSet(old) /\ (old = {} => FilterEvents(events, version) = EmptyHistory)
      /\ \A i \in old : (\A j \in old : j <= i) =>
           FilterEvents(events, version) = [count |-> Cardinality(old), last |-> events[i]]
      /\ old # {} => \E i \in old : \A j \in old : j <= i
  BY FilterEventsIs
<1>4. /\ (new = {} => FilterEvents(more, version) = EmptyHistory)
      /\ \A i \in new : (\A j \in new : j <= i) =>
           FilterEvents(more, version) = [count |-> Cardinality(new), last |-> more[i]]
  BY <1>1, FilterEventsIs
<1>5. old \subseteq DOMAIN events
  OBVIOUS
<1> HIDE DEF more, n, old, new
<1>6. CASE MatchesVersion(e.ip, version)
  <2>1. new = old \cup {n} /\ n \notin old
    BY <1>1, <1>2, <1>5, <1>6
  <2>2. Cardinality(new) = Cardinality(old) + 1
    BY <1>3, <2>1, FS_AddElement
  <2>3. FilterEvents(more, version) = [count |-> Cardinality(new), last |-> e]
    <3>1. \A j \in new : j <= n
      BY <1>1, <1>5, <2>1
    <3>2. n \in new
      BY <2>1
    <3> QED
      BY <1>1, <1>4, <3>1, <3>2
  <2>4. FilterEvents(events, version).count = Cardinality(old)
    <3>1. CASE old = {}
      BY <1>3, <3>1, FS_EmptySet DEF EmptyHistory
    <3>2. CASE old # {}
      BY <1>3, <3>2
    <3> QED
      BY <3>1, <3>2
  <2> QED
    BY <1>6, <2>2, <2>3, <2>4 DEF Extend, more
<1>7. CASE ~MatchesVersion(e.ip, version)
  <2>1. new = old
    BY <1>2, <1>7
  <2>2. CASE old = {}
    BY <1>3, <1>4, <1>7, <2>1, <2>2 DEF more
  <2>3. CASE old # {}
    <3>1. PICK i \in old : \A j \in old : j <= i
      BY <1>3, <2>3
    <3>2. FilterEvents(events, version) = [count |-> Cardinality(old), last |-> events[i]]
      BY <1>3, <3>1
    <3>3. FilterEvents(more, version) = [count |-> Cardinality(old), last |-> more[i]]
      BY <1>4, <2>1, <3>1
    <3>4. more[i] = events[i]
      BY <1>1, <1>5
    <3> QED
      BY <1>7, <3>2, <3>3, <3>4 DEF more
  <2> QED
    BY <2>2, <2>3
<1> QED
  BY <1>6, <1>7

-----------------------------------------------------------------------------
(* The inductive invariant.                                                 *)

Resting == {"idle", "down", "refused", "panicked"}
Working == {"initStore", "mark", "call", "store"}

(* The shape of a cycle: it holds a slice of records and the ids chosen in   *)
(* it only while it lasts, every id chosen is one of that slice and has an   *)
(* address, and a record copy in hand belongs to the id it is stored under   *)
(* as long as nobody replaces the records.                                  *)
CycleShape ==
  /\ pc \in Resting => ~aliased
  /\ pc \in Resting \cup {"fetch"} => toUpdate = {}
  /\ \A id \in toUpdate : id \in DOMAIN Slice /\ UpdateIP(Slice[id].prov) # NoAddr
  /\ pc \in Working <=> job \in Job
  /\ pc \in {"mark", "call", "store"} => job.ip \in Addrs
  /\ pc = "store" => job.outcome # "none"
  /\ aliased /\ pc \in Working => job.id \in DOMAIN data /\ job.rec.prov = data[job.id].prov

IInv == TypeOK /\ CycleShape

-----------------------------------------------------------------------------
(* The types of what the actions are made of.                              *)

LEMMA NoJobIsNoJob == NoJob \notin Job
<1>1. NoJob.busy = FALSE
  BY DEF NoJob
<1>2. \A j \in Job : j.busy = TRUE
  BY DEF Job
<1> QED
  BY <1>1, <1>2

LEMMA NoEventsType == NoEvents \in [Keys -> Seq(Event)]
BY DEF NoEvents

LEMMA LoadType ==
  ASSUME NEW c \in Configs, NEW events \in [Keys -> Seq(Event)]
  PROVE  Load(c, events) \in Seq(Record)
<1>1. c \in Seq(Providers)
  BY ConfigsAssumption
<1>2. ASSUME NEW i \in 1..Len(c)
      PROVE  NewRecord(c[i], FilterEvents(events[c[i].key], c[i].version)) \in Record
  <2>1. c[i] \in Provider
    BY <1>1, <1>2, ProvidersAssumption
  <2>2. c[i].key \in Keys /\ c[i].version \in Versions
    BY <2>1 DEF Provider
  <2>3. FilterEvents(events[c[i].key], c[i].version) \in History
    BY <2>2, FilterEventsType
  <2> QED
    BY <2>1, <2>3, NewRecordType
<1>3. Len(c) \in Nat
  BY <1>1
<1> QED
  BY <1>2, <1>3 DEF Load

LEMMA EncodedEvent ==
  ASSUME NEW e \in Event
  PROVE  /\ [e EXCEPT !.mono = NoTime] \in Event
         /\ [e EXCEPT !.mono = NoTime].ip = e.ip
         /\ [e EXCEPT !.mono = NoTime].wall = e.wall
BY DEF Event

LEMMA EncodedType ==
  ASSUME NEW events \in [Keys -> Seq(Event)]
  PROVE  /\ Encoded(events) \in [Keys -> Seq(Event)]
         /\ \A k \in Keys : /\ DOMAIN Encoded(events)[k] = DOMAIN events[k]
                            /\ \A i \in DOMAIN events[k] : /\ Encoded(events)[k][i].ip = events[k][i].ip
                                                           /\ Encoded(events)[k][i].wall = events[k][i].wall
<1>1. ASSUME NEW k \in Keys
      PROVE  /\ Encoded(events)[k] \in Seq(Event)
             /\ DOMAIN Encoded(events)[k] = DOMAIN events[k]
             /\ \A i \in DOMAIN events[k] : /\ Encoded(events)[k][i].ip = events[k][i].ip
                                            /\ Encoded(events)[k][i].wall = events[k][i].wall
  <2> DEFINE s == [i \in DOMAIN events[k] |-> [events[k][i] EXCEPT !.mono = NoTime]]
  <2>1. Encoded(events)[k] = s
    BY DEF Encoded
  <2>2. events[k] \in Seq(Event) /\ DOMAIN events[k] = 1..Len(events[k]) /\ Len(events[k]) \in Nat
    OBVIOUS
  <2>3. \A i \in DOMAIN events[k] :
          [events[k][i] EXCEPT !.mono = NoTime] \in Event
    BY <2>2, EncodedEvent
  <2>4. s \in Seq(Event)
    BY <2>2, <2>3
  <2>5. \A i \in DOMAIN events[k] : s[i].ip = events[k][i].ip /\ s[i].wall = events[k][i].wall
    BY <2>2, EncodedEvent
  <2> QED
    BY <2>1, <2>4, <2>5
<1>2. Encoded(events) = [k \in Keys |-> Encoded(events)[k]]
  BY DEF Encoded
<1> QED
  BY <1>1, <1>2

Outcomes == {"written", "notOpened", "emptied", "torn"}

LEMMA WriteOutcomesType == WriteOutcomes \subseteq Outcomes
BY DEF WriteOutcomes, Outcomes

LEMMA AccessType ==
  ASSUME data \in Seq(Record), NEW id \in Id
  PROVE  Access(id) = "ok" <=> id \in DOMAIN data
BY DEF Access, Id

LEMMA SliceType == TypeOK => Slice \in Seq(Record)
BY DEF TypeOK, Slice

LEMMA UpdateIPType ==
  ASSUME TypeOK, NEW p \in Provider
  PROVE  UpdateIP(p) \in Addrs \cup {NoAddr}
<1>1. ips[p.version] \in Addrs \cup {NoAddr} /\ p.suffix \in Hosts \cup {NoHost}
  BY DEF TypeOK, Provider
<1> QED
  BY <1>1, IPv6WithSuffixType DEF UpdateIP

LEMMA AnsweredType ==
  ASSUME TypeOK, NEW rec \in Record, NEW ip \in Addrs,
         NEW outcome \in {"ok", "failed", "banned"}
  PROVE  /\ Answered(rec, outcome, ip) \in Record
         /\ Answered(rec, outcome, ip).prov = rec.prov
<1>1. wall \in Nat /\ now \in Nat
  BY DEF TypeOK
<1>2. [ip |-> ip, wall |-> wall, mono |-> now] \in Event
  BY <1>1 DEF Event
<1>3. rec.hist \in History
  BY DEF Record
<1>4. Extend(rec.hist, [ip |-> ip, wall |-> wall, mono |-> now]) \in History
  BY <1>2, <1>3, ExtendType
<1> QED
  BY <1>1, <1>4 DEF Answered, Record, Statuses

LEMMA InitialStateType ==
  ASSUME TypeOK, NEW rec \in Record, NEW ip \in Addrs \cup {NoAddr}
  PROVE  /\ InitialState(rec, ip) \in Record
         /\ InitialState(rec, ip).prov = rec.prov
<1> DEFINE e == [ip |-> ip, wall |-> stamp.wall, mono |-> stamp.mono]
<1>1. rec.hist \in History
  BY DEF Record
<1>2. ip # NoAddr => Extend(rec.hist, e) \in History
  <2>1. ip # NoAddr => e \in Event
    BY DEF TypeOK, Event
  <2> QED
    BY <1>1, <2>1, ExtendType
<1> HIDE DEF e
<1>3. CASE ip = NoAddr
  BY <1>3 DEF InitialState, Record, Statuses
<1>4. CASE ip # NoAddr
  <2>1. InitialState(rec, ip) =
          [rec EXCEPT !.status = "uptodate",
                      !.hist = IF GetCurrentIP(rec.hist) # NoAddr THEN rec.hist ELSE Extend(rec.hist, e)]
    BY <1>4 DEF InitialState, e
  <2> QED
    BY <1>1, <1>2, <1>4, <2>1 DEF Record, Statuses
<1> QED
  BY <1>3, <1>4

(* Database.Update appends a real event when it appends one.                *)
LEMMA GrowsMeansEvent ==
  ASSUME data \in Seq(Record), NEW id \in DOMAIN data, NEW rec \in Record, Grows(id, rec)
  PROVE  rec.hist.last \in Event
<1>1. data[id] \in Record
  OBVIOUS
<1>2. rec.hist \in History /\ data[id].hist \in History
  BY <1>1 DEF Record
<1>3. rec.hist.count \in Nat /\ data[id].hist.count \in Nat
  BY <1>2 DEF History
<1>4. rec.hist.count # 0
  BY <1>3 DEF Grows
<1> QED
  BY <1>2, <1>4 DEF History

LEMMA AppendedType ==
  ASSUME TypeOK, NEW rec \in Record, rec.hist.last \in Event
  PROVE  Appended(rec) \in [Keys -> Seq(Event)]
<1>1. rec.prov.key \in Keys
  BY DEF Record, Provider
<1> QED
  BY <1>1 DEF TypeOK, Appended

LEMMA WrittenType ==
  ASSUME TypeOK, NEW outcome \in Outcomes, NEW events \in [Keys -> Seq(Event)]
  PROVE  Written(outcome, events) \in [Keys -> Seq(Event)] \cup {Torn}
BY EncodedType, NoEventsType DEF TypeOK, Written, Outcomes

LEMMA DbUpdateType ==
  ASSUME TypeOK, NEW id \in DOMAIN data, NEW rec \in Record, NEW w \in Outcomes,
         DbUpdate(id, rec, w)
  PROVE  /\ data' \in Seq(Record) /\ Len(data') = Len(data)
         /\ data'[id] = rec /\ \A i \in DOMAIN data \ {id} : data'[i] = data[i]
         /\ persist' \in [Keys -> Seq(Event)]
         /\ disk' \in [Keys -> Seq(Event)] \cup {Torn}
<1>1. data \in Seq(Record) /\ data' = [data EXCEPT ![id] = rec]
  BY DEF TypeOK, DbUpdate
<1>2. CASE Grows(id, rec)
  <2>1. Appended(rec) \in [Keys -> Seq(Event)]
    BY <1>1, <1>2, GrowsMeansEvent, AppendedType
  <2>2. persist' = Appended(rec) /\ disk' = Written(w, Appended(rec))
    BY <1>2 DEF DbUpdate
  <2> QED
    BY <1>1, <2>1, <2>2, WrittenType
<1>3. CASE ~Grows(id, rec)
  <2>1. UNCHANGED <<persist, disk>>
    BY <1>3 DEF DbUpdate
  <2> QED
    BY <1>1, <2>1 DEF TypeOK
<1> QED
  BY <1>2, <1>3
-----------------------------------------------------------------------------
LEMMA InitEstablishes == Init => IInv
<1> SUFFICES ASSUME Init PROVE IInv
  OBVIOUS
<1>1. data \in Seq(Record)
  BY LoadType, NoEventsType, ConfigsAssumption DEF Init
<1>2. remote \in [Providers -> SUBSET Addrs]
  <2>1. ASSUME NEW p \in Providers, NEW f \in Families, InitialPublic[f] # NoAddr
        PROVE  IPv6WithSuffix(InitialPublic[f], p.suffix) \in Addrs
    <3>1. p.suffix \in Hosts \cup {NoHost} /\ InitialPublic[f] \in Addrs
      BY <2>1, ProvidersAssumption, PublicAssumption DEF Provider
    <3> QED
      BY <2>1, <3>1, IPv6WithSuffixType
  <2> QED
    BY <2>1 DEF Init, NoRecord, PointingHere
<1>3. TypeOK
  <2>1. /\ public \in [Families -> Addrs \cup {NoAddr}]
        /\ config \in Configs /\ now \in Nat /\ wall \in Nat
    BY PublicAssumption, ConfigsAssumption DEF Init
  <2>2. /\ resolved \in [Providers -> SUBSET Addrs] /\ served \in [Providers -> SUBSET Addrs]
        /\ told \in [Providers -> [ok : Nat \cup {NoTime}, ban : Nat \cup {NoTime}]]
    BY <1>2 DEF Init
  <2>3. /\ persist \in [Keys -> Seq(Event)] /\ disk \in [Keys -> Seq(Event)] \cup {Torn}
        /\ reload \in [Handlers -> [busy : BOOLEAN, recs : Seq(Record)]]
    BY NoEventsType DEF Init, NoReload
  <2>4. /\ ips \in [Versions -> Addrs \cup {NoAddr}] /\ idx \in Id
        /\ toUpdate \in SUBSET Id /\ left \in SUBSET toUpdate
        /\ view \in Seq(Record) /\ stamp \in [wall : Nat, mono : Nat]
    BY DEF Init, NoIPs, NoClock, Id
  <2> QED
    BY <1>1, <1>2, <2>1, <2>2, <2>3, <2>4 DEF Init, TypeOK
<1>4. CycleShape
  BY NoJobIsNoJob DEF Init, CycleShape, Resting, Working
<1> QED
  BY <1>3, <1>4 DEF IInv

(* The steps of a cycle that touch no record.                               *)
LEMMA StartCyclePreserves == IInv /\ StartCycle => IInv'
<1> SUFFICES ASSUME IInv, StartCycle PROVE IInv'
  OBVIOUS
<1> USE DEF IInv, StartCycle, envVars, dbVars, ghostVars
<1>1. TypeOK'
  BY DEF TypeOK, Clock
<1>2. CycleShape'
  BY DEF CycleShape, Resting, Working
<1> QED
  BY <1>1, <1>2

LEMMA FetchPreserves == IInv /\ (FetchIP \/ FetchDone) => IInv'
<1> SUFFICES ASSUME IInv, FetchIP \/ FetchDone PROVE IInv'
  OBVIOUS
<1> USE DEF IInv, FetchDone, envVars, dbVars, ghostVars
<1>1. ips' \in [Versions -> Addrs \cup {NoAddr}] /\ errs' \in BOOLEAN /\ idx' \in Id
  <2>1. CASE FetchIP
    <3>1. PICK n \in idx..Len(VersionOrder) :
            /\ idx' = n + 1
            /\ \E ip \in Fetched(VersionOrder[n]) :
                 /\ ips' = [ips EXCEPT ![VersionOrder[n]] = ip]
                 /\ errs' = (errs \/ ip = NoAddr)
      BY <2>1, Zenon DEF FetchIP
    <3>2. PICK ip \in Fetched(VersionOrder[n]) :
            /\ ips' = [ips EXCEPT ![VersionOrder[n]] = ip]
            /\ errs' = (errs \/ ip = NoAddr)
      BY <3>1
    <3>3. ip \in Addrs \cup {NoAddr} /\ idx' \in Id
      BY <3>1 DEF Fetched, TypeOK, Id
    <3>4. errs' \in BOOLEAN
      BY <3>2, Zenon
    <3> QED
      BY <3>2, <3>3, <3>4 DEF TypeOK
  <2>2. CASE FetchDone
    BY <2>2 DEF TypeOK, Id
  <2> QED
    BY <2>1, <2>2
<1>2. TypeOK'
  BY <1>1 DEF TypeOK, FetchIP
<1>3. CycleShape'
  BY DEF CycleShape, Resting, Working, Slice, FetchIP
<1> QED
  BY <1>2, <1>3

LEMMA DecidePreserves == IInv /\ Decide => IInv'
<1> SUFFICES ASSUME IInv, Decide PROVE IInv'
  OBVIOUS
<1> USE DEF IInv, envVars, dbVars, ghostVars
<1>1. Slice \in Seq(Record) /\ idx \in DOMAIN Slice /\ idx \in Id
  BY SliceType DEF TypeOK, Id, Decide
<1>2. toUpdate \subseteq toUpdate' /\ toUpdate' \subseteq toUpdate \cup {idx}
  BY DEF Decide
<1>3. idx \in toUpdate' \ toUpdate => UpdateIP(Slice[idx].prov) # NoAddr
  BY DEF Decide, ShouldUpdate
<1>4. TypeOK'
  BY <1>1, <1>2 DEF TypeOK, Decide, Id
<1>5. CycleShape'
  BY <1>1, <1>2, <1>3 DEF CycleShape, Resting, Working, Slice, UpdateIP, Decide
<1> QED
  BY <1>4, <1>5

LEMMA PhaseStepsPreserve == IInv /\ (DecideDone \/ InitSkip \/ InitDone) => IInv'
<1> SUFFICES ASSUME IInv, DecideDone \/ InitSkip \/ InitDone PROVE IInv'
  OBVIOUS
<1> USE DEF IInv, DecideDone, InitSkip, InitDone, envVars, dbVars, ghostVars
<1>1. /\ idx' \in Id /\ left' \in SUBSET toUpdate'
      /\ stamp' \in [wall : Nat, mono : Nat]
      /\ pc' \in {"init", "update"}
  <2>1. CASE DecideDone
    BY <2>1 DEF TypeOK, Clock, Id
  <2>2. CASE InitSkip
    BY <2>2 DEF TypeOK, Id
  <2>3. CASE InitDone
    BY <2>3 DEF TypeOK, Id
  <2> QED
    BY <2>1, <2>2, <2>3
<1>2. TypeOK'
  BY <1>1 DEF TypeOK
<1>3. CycleShape'
  BY DEF CycleShape, Resting, Working, Slice, UpdateIP
<1> QED
  BY <1>2, <1>3

LEMMA FinishCyclePreserves == IInv /\ FinishCycle => IInv'
<1> SUFFICES ASSUME IInv, FinishCycle PROVE IInv'
  OBVIOUS
<1> USE DEF IInv, FinishCycle, envVars, dbVars, ghostVars
<1>1. /\ ips' \in [Versions -> Addrs \cup {NoAddr}]
      /\ stamp' \in [wall : Nat, mono : Nat]
      /\ view' \in Seq(Record)
      /\ toUpdate' \in SUBSET Id /\ left' \in SUBSET toUpdate'
  BY DEF NoIPs, NoClock
<1>2. TypeOK'
  BY <1>1 DEF TypeOK
<1>3. CycleShape'
  BY DEF CycleShape, Resting, Working
<1> QED
  BY <1>2, <1>3

-----------------------------------------------------------------------------
(* The steps that select a record and work on a copy of it.                 *)
LEMMA InitSelectPreserves == IInv /\ InitSelect => IInv'
<1> SUFFICES ASSUME IInv, InitSelect PROVE IInv'
  OBVIOUS
<1> USE DEF IInv, envVars, dbVars, ghostVars
<1>1. Slice \in Seq(Record) /\ idx \in DOMAIN Slice /\ idx \in Id /\ data \in Seq(Record)
  BY SliceType DEF TypeOK, Id, InitSelect
<1>2. CASE Access(idx) = "ok"
  <2>1. idx \in DOMAIN data
    BY <1>1, <1>2, AccessType
  <2> DEFINE ip == UpdateIP(Slice[idx].prov)
             j  == [busy |-> TRUE, id |-> idx, ip |-> ip,
                    rec |-> InitialState(data[idx], ip), outcome |-> "none"]
  <2>2. pc' = "initStore" /\ job' = j
    BY <1>2 DEF InitSelect
  <2>3. /\ UNCHANGED <<public, remote, resolved, now, wall, data, persist, disk, config>>
        /\ UNCHANGED <<ips, idx, toUpdate, left, view, aliased, stamp, errs,
                       cancelled, reload, served, told>>
    BY <1>2 DEF InitSelect
  <2>4. ip \in Addrs \cup {NoAddr}
    <3>1. Slice[idx] \in Record
      BY <1>1
    <3>2. Slice[idx].prov \in Provider
      BY <3>1 DEF Record
    <3> QED
      BY <3>2, UpdateIPType
  <2>5. data[idx] \in Record
    BY <1>1, <2>1
  <2>6. InitialState(data[idx], ip) \in Record /\ InitialState(data[idx], ip).prov = data[idx].prov
    BY <2>4, <2>5, InitialStateType
  <2> HIDE DEF ip
  <2>7. job' \in Job
    BY <1>1, <2>2, <2>4, <2>6 DEF Job
  <2>8. TypeOK'
    BY <2>2, <2>3, <2>7 DEF TypeOK
  <2>9. CycleShape'
    BY <2>1, <2>2, <2>3, <2>6, <2>7 DEF CycleShape, Resting, Working, Slice, UpdateIP, InitSelect
  <2> QED
    BY <2>8, <2>9
<1>3. CASE Access(idx) = "notFound"
  <2>1. idx' \in Id
    BY <1>1, <1>3 DEF InitSelect, Id
  <2>2. TypeOK'
    BY <1>3, <2>1 DEF TypeOK, InitSelect
  <2>3. CycleShape'
    BY <1>3 DEF CycleShape, Resting, Working, Slice, UpdateIP, InitSelect
  <2> QED
    BY <2>2, <2>3
<1> QED
  BY <1>2, <1>3 DEF InitSelect

(* What storing a record changes, wherever it is done.                      *)
LEMMA StoringPreserves ==
  ASSUME IInv, pc \in Working, aliased' = aliased, view' = view, ips' = ips,
         toUpdate' = toUpdate, NEW rec \in Record, rec.prov = job.rec.prov,
         \/ \E w \in WriteOutcomes : job.id \in DOMAIN data /\ DbUpdate(job.id, rec, w)
         \/ UNCHANGED <<data, persist, disk>>
  PROVE  /\ data' \in Seq(Record) /\ persist' \in [Keys -> Seq(Event)]
         /\ disk' \in [Keys -> Seq(Event)] \cup {Torn}
         /\ DOMAIN data' = DOMAIN data
         /\ aliased => data'[job.id].prov = data[job.id].prov
         /\ (\A id \in toUpdate : id \in DOMAIN Slice /\ UpdateIP(Slice[id].prov) # NoAddr)'
<1>1. CASE UNCHANGED <<data, persist, disk>>
  BY <1>1 DEF IInv, TypeOK, CycleShape, Slice, UpdateIP
<1>2. ASSUME NEW w \in WriteOutcomes, job.id \in DOMAIN data, DbUpdate(job.id, rec, w)
      PROVE  /\ data' \in Seq(Record) /\ Len(data') = Len(data)
             /\ data'[job.id] = rec /\ \A i \in DOMAIN data \ {job.id} : data'[i] = data[i]
             /\ persist' \in [Keys -> Seq(Event)]
             /\ disk' \in [Keys -> Seq(Event)] \cup {Torn}
  BY <1>2, WriteOutcomesType, DbUpdateType DEF IInv
<1>3. CASE \E w \in WriteOutcomes : job.id \in DOMAIN data /\ DbUpdate(job.id, rec, w)
  <2>1. /\ data' \in Seq(Record) /\ Len(data') = Len(data)
        /\ data'[job.id] = rec /\ \A i \in DOMAIN data \ {job.id} : data'[i] = data[i]
        /\ persist' \in [Keys -> Seq(Event)]
        /\ disk' \in [Keys -> Seq(Event)] \cup {Torn}
    BY <1>2, <1>3
  <2>2. DOMAIN data' = DOMAIN data
    BY <2>1 DEF IInv, TypeOK
  <2>3. aliased => rec.prov = data[job.id].prov
    BY DEF IInv, CycleShape
  <2>4. aliased => \A i \in DOMAIN data : data'[i].prov = data[i].prov
    BY <2>1, <2>3
  <2>5. \A id \in toUpdate' : id \in DOMAIN Slice' /\ Slice'[id].prov = Slice[id].prov
    BY <2>2, <2>4 DEF IInv, CycleShape, Slice
  <2>6. (\A id \in toUpdate : UpdateIP(Slice[id].prov) # NoAddr)'
    BY <2>5 DEF IInv, CycleShape, UpdateIP
  <2> QED
    BY <1>3, <2>1, <2>2, <2>4, <2>5, <2>6 DEF IInv, CycleShape
<1> QED
  BY <1>1, <1>3

LEMMA InitStorePreserves == IInv /\ InitStore => IInv'
<1> SUFFICES ASSUME IInv, InitStore PROVE IInv'
  OBVIOUS
<1> USE DEF envVars, ghostVars
<1>1. job \in Job /\ job.rec \in Record /\ job.id \in Id
  BY DEF IInv, CycleShape, Working, InitStore, Job
<1>2. \/ \E w \in WriteOutcomes : job.id \in DOMAIN data /\ DbUpdate(job.id, job.rec, w)
      \/ UNCHANGED <<data, persist, disk>>
  BY <1>1, AccessType, Zenon DEF InitStore, IInv, TypeOK
<1>3. /\ pc' = "init" /\ idx' = idx + 1 /\ job' = NoJob
      /\ UNCHANGED <<public, remote, resolved, now, wall, config, ips, toUpdate, left, view,
                     aliased, stamp, cancelled, reload, served, told>>
  BY DEF InitStore
<1>4. errs' \in BOOLEAN
  BY Zenon DEF InitStore
<1>5. /\ data' \in Seq(Record) /\ persist' \in [Keys -> Seq(Event)]
      /\ disk' \in [Keys -> Seq(Event)] \cup {Torn}
      /\ (\A id \in toUpdate : id \in DOMAIN Slice /\ UpdateIP(Slice[id].prov) # NoAddr)'
  BY <1>1, <1>2, <1>3, StoringPreserves DEF InitStore, Working
<1>6. idx' \in Id
  BY <1>3 DEF IInv, TypeOK, Id
<1>7. TypeOK'
  BY <1>3, <1>4, <1>5, <1>6 DEF IInv, TypeOK
<1>8. CycleShape'
  BY <1>3, <1>5, NoJobIsNoJob DEF CycleShape, Resting, Working
<1> QED
  BY <1>7, <1>8 DEF IInv

LEMMA BeginUpdatePreserves == IInv /\ BeginUpdate => IInv'
<1> SUFFICES ASSUME IInv, BeginUpdate PROVE IInv'
  OBVIOUS
<1> USE DEF IInv, envVars, dbVars, ghostVars
<1>1. PICK id \in left :
        /\ left' = left \ {id}
        /\ \/ /\ Access(id) = "ok"
              /\ pc' = "mark"
              /\ job' = [busy |-> TRUE, id |-> id, ip |-> UpdateIP(Slice[id].prov),
                         rec |-> [data[id] EXCEPT !.status = "updating"], outcome |-> "none"]
              /\ UNCHANGED errs
           \/ /\ Access(id) = "notFound"
              /\ errs' = TRUE
              /\ UNCHANGED <<pc, job>>
  BY DEF BeginUpdate
<1>2. /\ pc = "update"
      /\ UNCHANGED <<public, remote, resolved, now, wall, data, persist, disk, config, ips, idx,
                     toUpdate, view, aliased, stamp, cancelled, reload, served, told>>
  BY DEF BeginUpdate
<1>3. id \in Id /\ id \in toUpdate /\ data \in Seq(Record) /\ left' \in SUBSET toUpdate
  BY <1>1 DEF TypeOK
<1>4. CASE Access(id) = "notFound"
  <2>1. pc' = pc /\ job' = job /\ errs' = TRUE
    BY <1>1, <1>4
  <2>2. TypeOK'
    BY <1>2, <1>3, <2>1 DEF TypeOK
  <2>3. CycleShape'
    BY <1>2, <2>1 DEF CycleShape, Resting, Working, Slice, UpdateIP
  <2> QED
    BY <2>2, <2>3
<1>5. CASE Access(id) = "ok"
  <2> DEFINE ip  == UpdateIP(Slice[id].prov)
             rec == [data[id] EXCEPT !.status = "updating"]
  <2>1. /\ pc' = "mark" /\ errs' = errs
        /\ job' = [busy |-> TRUE, id |-> id, ip |-> ip, rec |-> rec, outcome |-> "none"]
    BY <1>1, <1>5
  <2>2. id \in DOMAIN data /\ data[id] \in Record
    BY <1>3, <1>5, AccessType
  <2>3. rec \in Record /\ rec.prov = data[id].prov
    BY <2>2 DEF Record, Statuses
  <2>4. ip \in Addrs
    <3>1. Slice \in Seq(Record) /\ id \in DOMAIN Slice /\ ip # NoAddr
      BY <1>3, SliceType DEF CycleShape
    <3>2. Slice[id] \in Record
      BY <3>1
    <3>3. Slice[id].prov \in Provider
      BY <3>2 DEF Record
    <3> QED
      BY <3>1, <3>3, UpdateIPType
  <2> HIDE DEF ip, rec
  <2>5. job' \in Job /\ job'.ip = ip /\ job'.id = id /\ job'.rec = rec
    BY <1>3, <2>1, <2>3, <2>4 DEF Job
  <2>6. TypeOK'
    BY <1>2, <1>3, <2>1, <2>5 DEF TypeOK
  <2>7. CycleShape'
    BY <1>2, <2>1, <2>2, <2>3, <2>4, <2>5 DEF CycleShape, Resting, Working, Slice, UpdateIP
  <2> QED
    BY <2>6, <2>7
<1> QED
  BY <1>1, <1>4, <1>5

LEMMA MarkUpdatingPreserves == IInv /\ MarkUpdating => IInv'
<1> SUFFICES ASSUME IInv, MarkUpdating PROVE IInv'
  OBVIOUS
<1> USE DEF envVars, ghostVars
<1>1. job \in Job /\ job.rec \in Record /\ job.id \in Id
  BY DEF IInv, CycleShape, Working, MarkUpdating, Job
<1>2. \/ \E w \in WriteOutcomes : job.id \in DOMAIN data /\ DbUpdate(job.id, job.rec, w)
      \/ UNCHANGED <<data, persist, disk>>
  BY <1>1, AccessType, Zenon DEF MarkUpdating, IInv, TypeOK
<1>3. /\ pc = "mark"
      /\ UNCHANGED <<public, remote, resolved, now, wall, config, ips, idx, toUpdate, left, view,
                     aliased, stamp, cancelled, reload, served, told>>
  BY DEF MarkUpdating
<1>4. errs' \in BOOLEAN
  BY Zenon DEF MarkUpdating
<1>5. /\ data' \in Seq(Record) /\ persist' \in [Keys -> Seq(Event)]
      /\ disk' \in [Keys -> Seq(Event)] \cup {Torn}
      /\ DOMAIN data' = DOMAIN data
      /\ aliased => data'[job.id].prov = data[job.id].prov
      /\ (\A id \in toUpdate : id \in DOMAIN Slice /\ UpdateIP(Slice[id].prov) # NoAddr)'
  BY <1>1, <1>2, <1>3, StoringPreserves DEF Working
<1>6. \/ pc' = "call" /\ job' = job
      \/ pc' = "update" /\ job' = NoJob
  BY DEF MarkUpdating
<1>7. TypeOK'
  BY <1>3, <1>4, <1>5, <1>6 DEF IInv, TypeOK
<1>8. CycleShape'
  BY <1>1, <1>3, <1>5, <1>6, NoJobIsNoJob DEF IInv, CycleShape, Resting, Working
<1> QED
  BY <1>7, <1>8 DEF IInv

LEMMA PointType ==
  ASSUME TypeOK, NEW p, NEW ip \in Addrs, Point(p, ip)
  PROVE  remote' \in [Providers -> SUBSET Addrs] /\ served' \in [Providers -> SUBSET Addrs]
<1>1. CASE p \in Providers
  <2>1. remote[p] \subseteq Addrs /\ served[p] \subseteq Addrs
    BY <1>1 DEF TypeOK
  <2>2. {a \in remote[p] : a.fam # ip.fam} \cup {ip} \in SUBSET Addrs
    BY <2>1
  <2> QED
    BY <1>1, <2>1, <2>2 DEF TypeOK, Point
<1>2. CASE p \notin Providers
  BY <1>2 DEF TypeOK, Point
<1> QED
  BY <1>1, <1>2

LEMMA CallProviderPreserves == IInv /\ CallProvider => IInv'
<1> SUFFICES ASSUME IInv, CallProvider PROVE IInv'
  OBVIOUS
<1> DEFINE p == job.rec.prov
<1>1. job \in Job /\ job.ip \in Addrs /\ pc = "call" /\ pc' = "store"
  BY DEF IInv, CycleShape, Working, CallProvider
<1>2. \/ Point(p, job.ip)
      \/ UNCHANGED <<remote, served>>
  BY Zenon DEF CallProvider
<1>3. remote' \in [Providers -> SUBSET Addrs] /\ served' \in [Providers -> SUBSET Addrs]
  <2>1. CASE Point(p, job.ip)
    BY <1>1, <2>1, PointType DEF IInv
  <2>2. CASE UNCHANGED <<remote, served>>
    BY <2>2 DEF IInv, TypeOK
  <2> QED
    BY <1>2, <2>1, <2>2
<1>4. \E o \in {"ok", "failed", "banned"} : job' = [job EXCEPT !.outcome = o]
  BY Zenon DEF CallProvider
<1>5. /\ job' \in Job /\ job'.outcome # "none"
      /\ job'.ip = job.ip /\ job'.id = job.id /\ job'.rec = job.rec
  BY <1>1, <1>4 DEF Job
<1>6. told' \in [Providers -> [ok : Nat \cup {NoTime}, ban : Nat \cup {NoTime}]]
  <2>1. \/ told' = [told EXCEPT ![p].ok = now]
        \/ told' = [told EXCEPT ![p].ban = now]
        \/ told' = told
    BY Zenon DEF CallProvider
  <2> HIDE DEF p
  <2>2. now \in Nat /\ told \in [Providers -> [ok : Nat \cup {NoTime}, ban : Nat \cup {NoTime}]]
    BY DEF IInv, TypeOK
  <2>3. p \in Providers =>
          /\ [told[p] EXCEPT !.ok = now] \in [ok : Nat \cup {NoTime}, ban : Nat \cup {NoTime}]
          /\ [told[p] EXCEPT !.ban = now] \in [ok : Nat \cup {NoTime}, ban : Nat \cup {NoTime}]
    BY <2>2
  <2>4. /\ [told EXCEPT ![p].ok = now] = [told EXCEPT ![p] = [told[p] EXCEPT !.ok = now]]
        /\ [told EXCEPT ![p].ban = now] = [told EXCEPT ![p] = [told[p] EXCEPT !.ban = now]]
    OBVIOUS
  <2> QED
    BY <2>1, <2>2, <2>3, <2>4
<1>7. UNCHANGED <<public, resolved, now, wall, data, persist, disk, config, ips, idx, toUpdate,
                 left, view, aliased, stamp, errs, cancelled, reload>>
  BY DEF CallProvider, dbVars
<1>8. TypeOK'
  BY <1>1, <1>3, <1>5, <1>6, <1>7 DEF IInv, TypeOK
<1>9. CycleShape'
  BY <1>1, <1>5, <1>7 DEF IInv, CycleShape, Resting, Working, Slice, UpdateIP
<1> QED
  BY <1>8, <1>9 DEF IInv

LEMMA StoreResultPreserves == IInv /\ StoreResult => IInv'
<1> SUFFICES ASSUME IInv, StoreResult PROVE IInv'
  OBVIOUS
<1> USE DEF envVars, ghostVars
<1> DEFINE rec == Answered(job.rec, job.outcome, job.ip)
<1>1. /\ job \in Job /\ job.rec \in Record /\ job.id \in Id /\ job.ip \in Addrs
      /\ job.outcome \in {"ok", "failed", "banned"}
  BY DEF IInv, CycleShape, Working, StoreResult, Job
<1>2. rec \in Record /\ rec.prov = job.rec.prov
  BY <1>1, AnsweredType DEF IInv
<1>3. \/ \E w \in WriteOutcomes : job.id \in DOMAIN data /\ DbUpdate(job.id, rec, w)
      \/ UNCHANGED <<data, persist, disk>>
  BY <1>1, AccessType, Zenon DEF StoreResult, IInv, TypeOK
<1>4. /\ pc = "store" /\ pc' = "update" /\ job' = NoJob
      /\ UNCHANGED <<public, remote, resolved, now, wall, config, ips, idx, toUpdate, left, view,
                     aliased, stamp, cancelled, reload, served, told>>
  BY DEF StoreResult
<1>5. errs' \in BOOLEAN
  BY Zenon DEF StoreResult
<1> HIDE DEF rec
<1>6. /\ data' \in Seq(Record) /\ persist' \in [Keys -> Seq(Event)]
      /\ disk' \in [Keys -> Seq(Event)] \cup {Torn}
      /\ (\A id \in toUpdate : id \in DOMAIN Slice /\ UpdateIP(Slice[id].prov) # NoAddr)'
  BY <1>2, <1>3, <1>4, StoringPreserves DEF Working
<1>7. TypeOK'
  BY <1>4, <1>5, <1>6 DEF IInv, TypeOK
<1>8. CycleShape'
  BY <1>4, <1>6, NoJobIsNoJob DEF CycleShape, Resting, Working
<1> QED
  BY <1>7, <1>8 DEF IInv

-----------------------------------------------------------------------------
(* The steps that end the process or start it.                              *)
LEMMA DownPreserves ==
  ASSUME IInv, NEW how \in {"down", "panicked"}, Down(how),
         UNCHANGED <<envVars, config, ghostVars>>,
         disk' \in [Keys -> Seq(Event)] \cup {Torn}
  PROVE  IInv'
<1> USE DEF Down, envVars, ghostVars
<1>1. /\ data' \in Seq(Record) /\ view' \in Seq(Record) /\ persist' \in [Keys -> Seq(Event)]
      /\ ips' \in [Versions -> Addrs \cup {NoAddr}] /\ idx' \in Id
      /\ toUpdate' \in SUBSET Id /\ left' \in SUBSET toUpdate'
      /\ stamp' \in [wall : Nat, mono : Nat]
      /\ reload' \in [Handlers -> [busy : BOOLEAN, recs : Seq(Record)]]
  BY NoEventsType DEF NoIPs, NoClock, NoReload, Id
<1>2. TypeOK'
  BY <1>1 DEF IInv, TypeOK
<1>3. CycleShape'
  BY NoJobIsNoJob DEF CycleShape, Resting, Working
<1> QED
  BY <1>2, <1>3 DEF IInv

LEMMA EndsPreserve == IInv /\ (Panic \/ Shutdown \/ Crash) => IInv'
<1> SUFFICES ASSUME IInv, Panic \/ Shutdown \/ Crash PROVE IInv'
  OBVIOUS
<1>1. CASE Panic \/ Shutdown
  <2>1. \E how \in {"down", "panicked"} : Down(how)
    BY <1>1, Zenon DEF Panic, Shutdown
  <2>2. UNCHANGED <<envVars, disk, config, ghostVars>>
    BY <1>1, Zenon DEF Panic, Shutdown
  <2> QED
    BY <2>1, <2>2, DownPreserves DEF IInv, TypeOK
<1>2. CASE Crash
  <2>1. Down("down") /\ UNCHANGED <<envVars, config, ghostVars>>
    BY <1>2, Zenon DEF Crash
  <2>2. disk' = disk \/ disk' \in {NoEvents, Torn}
    BY <1>2, Zenon DEF Crash
  <2>3. disk' \in [Keys -> Seq(Event)] \cup {Torn}
    BY <2>2, NoEventsType DEF IInv, TypeOK
  <2> QED
    BY <2>1, <2>3, DownPreserves
<1> QED
  BY <1>1, <1>2

LEMMA BootPreserves == IInv /\ (Boot \/ Cancel) => IInv'
<1> SUFFICES ASSUME IInv, Boot \/ Cancel PROVE IInv'
  OBVIOUS
<1> USE DEF envVars, dbVars, cycleVars, ghostVars
<1>1. CASE Boot
  <2>1. data' \in Seq(Record) /\ persist' \in [Keys -> Seq(Event)]
    <3>1. CASE Accepted(disk)
      <4>1. disk \in [Keys -> Seq(Event)] /\ config \in Configs
        BY <3>1 DEF IInv, TypeOK, Accepted
      <4> QED
        BY <1>1, <3>1, <4>1, LoadType DEF Boot
    <3>2. CASE ~Accepted(disk)
      BY <1>1, <3>2 DEF Boot, IInv, TypeOK
    <3> QED
      BY <3>1, <3>2
  <2>2. pc \in Resting /\ pc' \in Resting
    BY <1>1 DEF Boot, Resting
  <2>3. UNCHANGED <<public, remote, resolved, now, wall, disk, config, ips, idx, toUpdate, left, view,
                   aliased, stamp, errs, job, cancelled, reload, served, told>>
    BY <1>1 DEF Boot
  <2>4. TypeOK'
    BY <2>1, <2>2, <2>3 DEF IInv, TypeOK, Resting
  <2>5. CycleShape'
    BY <2>2, <2>3 DEF IInv, CycleShape, Resting, Working
  <2> QED
    BY <2>4, <2>5 DEF IInv
<1>2. CASE Cancel
  <2>1. TypeOK'
    BY <1>2 DEF IInv, TypeOK, Cancel
  <2>2. CycleShape'
    BY <1>2 DEF IInv, CycleShape, Slice, UpdateIP, Cancel
  <2> QED
    BY <2>1, <2>2 DEF IInv
<1> QED
  BY <1>1, <1>2

-----------------------------------------------------------------------------
(* The steps of the settings handlers and of the world.                     *)
LEMMA ReloadPreserves ==
  ASSUME NEW h \in Handlers PROVE IInv /\ (ReloadRead(h) \/ ReloadSwap(h)) => IInv'
<1> SUFFICES ASSUME IInv, ReloadRead(h) \/ ReloadSwap(h) PROVE IInv'
  OBVIOUS
<1> USE DEF envVars, cycleVars, ghostVars
<1>1. CASE ReloadRead(h)
  <2>1. PICK c \in Configs : /\ config' = c
                             /\ reload' = [reload EXCEPT ![h] = [busy |-> TRUE, recs |-> Load(c, persist)]]
    BY <1>1 DEF ReloadRead
  <2>2. Load(c, persist) \in Seq(Record)
    BY LoadType DEF IInv, TypeOK
  <2>3. reload' \in [Handlers -> [busy : BOOLEAN, recs : Seq(Record)]] /\ config' \in Configs
    BY <2>1, <2>2 DEF IInv, TypeOK
  <2>4. UNCHANGED <<public, remote, resolved, now, wall, data, persist, disk, pc, ips, idx, toUpdate,
                   left, view, aliased, stamp, errs, job, cancelled, served, told>>
    BY <1>1 DEF ReloadRead
  <2>5. TypeOK'
    BY <2>3, <2>4 DEF IInv, TypeOK
  <2>6. CycleShape'
    BY <2>4 DEF IInv, CycleShape, Slice, UpdateIP
  <2> QED
    BY <2>5, <2>6 DEF IInv
<1>2. CASE ReloadSwap(h)
  <2>1. /\ data' \in Seq(Record) /\ view' \in Seq(Record)
        /\ reload' \in [Handlers -> [busy : BOOLEAN, recs : Seq(Record)]]
    BY <1>2 DEF ReloadSwap, NoReload, IInv, TypeOK
  <2>2. aliased' = FALSE /\ Slice' = Slice
    BY <1>2 DEF ReloadSwap, Slice
  <2>3. UNCHANGED <<public, remote, resolved, now, wall, persist, disk, config, pc, ips, idx, toUpdate,
                   left, stamp, errs, job, cancelled, served, told>>
    BY <1>2 DEF ReloadSwap
  <2>4. TypeOK'
    BY <2>1, <2>2, <2>3 DEF IInv, TypeOK
  <2>5. CycleShape'
    BY <2>2, <2>3 DEF IInv, CycleShape, UpdateIP
  <2> QED
    BY <2>4, <2>5 DEF IInv
<1> QED
  BY <1>1, <1>2

LEMMA EnvironmentPreserves == IInv /\ Environment => IInv'
<1> SUFFICES ASSUME IInv, Environment PROVE IInv'
  OBVIOUS
<1> USE DEF IInv
<1>1. UNCHANGED <<dbVars, cycleVars, cancelled, reload>>
  BY Zenon DEF Environment, PublicChange, Tick, ClockBack, Propagate, Edit
<1>2. /\ remote' \in [Providers -> SUBSET Addrs] /\ served' \in [Providers -> SUBSET Addrs]
      /\ resolved' \in [Providers -> SUBSET Addrs]
  <2>1. CASE PublicChange \/ Tick \/ ClockBack
    BY <2>1 DEF PublicChange, Tick, ClockBack, TypeOK, ghostVars
  <2>2. ASSUME NEW p \in Providers, Propagate(p)
        PROVE  UNCHANGED <<remote, served>> /\ resolved' \in [Providers -> SUBSET Addrs]
    BY <2>2 DEF Propagate, TypeOK, ghostVars
  <2>3. ASSUME NEW p \in Providers, Edit(p)
        PROVE  /\ remote' \in [Providers -> SUBSET Addrs] /\ served' \in [Providers -> SUBSET Addrs]
               /\ resolved' = resolved
    <3>1. PICK ip \in Addrs : Point(p, ip)
      BY <2>3 DEF Edit
    <3> QED
      BY <2>3, <3>1, PointType DEF Edit
  <2> QED
    BY <2>1, <2>2, <2>3 DEF Environment, TypeOK
<1>3. public' \in [Families -> Addrs \cup {NoAddr}]
  <2>1. CASE PublicChange
    BY <2>1 DEF PublicChange, TypeOK
  <2>2. CASE ~PublicChange
    BY <2>2 DEF Environment, Tick, ClockBack, Propagate, Edit, TypeOK
  <2> QED
    BY <2>1, <2>2
<1>4. now' \in Nat /\ wall' \in Nat
  <2>1. CASE Tick \/ ClockBack
    BY <2>1 DEF Tick, ClockBack, TypeOK
  <2>2. CASE ~(Tick \/ ClockBack)
    BY <2>2 DEF Environment, PublicChange, Propagate, Edit, TypeOK
  <2> QED
    BY <2>1, <2>2
<1>5. told' = told
  BY Zenon DEF Environment, PublicChange, Tick, ClockBack, Propagate, Edit, ghostVars
<1>6. TypeOK'
  BY <1>1, <1>2, <1>3, <1>4, <1>5 DEF TypeOK, dbVars, cycleVars
<1>7. CycleShape'
  BY <1>1 DEF CycleShape, Slice, UpdateIP, dbVars, cycleVars
<1> QED
  BY <1>6, <1>7

LEMMA StepPreserves == IInv /\ [Next]_vars => IInv'
<1> SUFFICES ASSUME IInv, [Next]_vars PROVE IInv'
  OBVIOUS
<1>1. CASE Cycle
  BY <1>1, StartCyclePreserves, FetchPreserves, DecidePreserves, PhaseStepsPreserve,
     InitSelectPreserves, InitStorePreserves, BeginUpdatePreserves, MarkUpdatingPreserves,
     CallProviderPreserves, StoreResultPreserves, FinishCyclePreserves, EndsPreserve DEF Cycle
<1>2. CASE Process
  BY <1>2, EndsPreserve, BootPreserves DEF Process
<1>3. CASE Environment
  BY <1>3, EnvironmentPreserves
<1>4. CASE \E h \in Handlers : ReloadRead(h) \/ ReloadSwap(h)
  BY <1>4, ReloadPreserves
<1>5. CASE UNCHANGED vars
  BY <1>5 DEF vars, envVars, dbVars, cycleVars, ghostVars, IInv, TypeOK, CycleShape, Slice, UpdateIP
<1> QED
  BY <1>1, <1>2, <1>3, <1>4, <1>5 DEF Next

LEMMA Inductive == Spec => []IInv
  BY InitEstablishes, StepPreserves, PTL DEF Spec

(* Every variable keeps its type, whatever is configured, saved and injected:
   no address of the wrong kind, no history without an event, no record id
   outside the naturals ever reaches the database or the file.              *)
THEOREM TypeCorrect == Spec => []TypeOK
<1>1. IInv => TypeOK
  BY DEF IInv
<1> QED
  BY Inductive, <1>1, PTL

-----------------------------------------------------------------------------
(* What a cycle sends, records, shows and reports.                            *)

Dead == {"down", "refused", "panicked"}
Updating == {"mark", "call", "store"}

(* Without settings requests a cycle works on the records in the database    *)
(* from its start to its end, and they are those of the configuration: the  *)
(* copy in hand is of the record it will replace, and of one already taken  *)
(* off the list of those to update.                                        *)
Alone ==
  /\ pc \notin Resting => aliased
  /\ \A f \in Families : public[f] # NoAddr => public[f].fam = f
  /\ \A v \in Versions : ips[v] # NoAddr => MatchesVersion(ips[v], v)
  /\ pc \in Working => job.ip = UpdateIP(job.rec.prov)
  /\ pc = "initStore" => job.rec = InitialState(data[job.id], job.ip)
  /\ pc \in Updating => /\ job.rec = [data[job.id] EXCEPT !.status = "updating"]
                        /\ job.id \notin left
  /\ pc \notin Dead => Len(data) = Len(config)
  /\ \A i \in DOMAIN data : data[i].prov = config[i]

(* The events of a file, or of the memory, are addresses the records held.    *)
Faithful(events, held) ==
  \A k \in Keys : \A i \in DOMAIN events[k] :
    \E p \in Providers : p.key = k /\ events[k][i].ip \in held[p]

Observed(p, ip) == ip = NoAddr \/ ip \in served[p]

(* The cycle has made up its mind about the record with this id.            *)
Decided(i) == \/ pc = "decide" /\ i < idx
              \/ pc \notin Resting \cup {"fetch", "decide"}

(* A record without history that needs no update was seen pointing here:      *)
(* what setInitialUpToDateStatus records then is an observation.            *)
Settled ==
  \A i \in DOMAIN data :
    Decided(i) /\ i \notin toUpdate /\ data[i].status = "unset" /\ GetCurrentIP(data[i].hist) = NoAddr
      => Observed(data[i].prov, UpdateIP(data[i].prov))

(* The copy of a record that a step is about to store, or what it will add  *)
(* to the history, was seen or sent.                                       *)
CopyInHand ==
  /\ pc = "initStore" /\ GetCurrentIP(data[job.id].hist) = NoAddr
       => Observed(data[job.id].prov, job.ip)
  /\ pc = "store" /\ job.outcome = "ok" => job.ip \in served[job.rec.prov]

HInv ==
  /\ ~cancelled
  /\ \A p \in Providers : remote[p] \subseteq served[p] /\ resolved[p] \subseteq served[p]
  /\ \A i \in DOMAIN data : data[i].prov \in Providers
  /\ \A i \in DOMAIN data : data[i].status = "unset" => data[i].ban = NoTime
  /\ HistoryFaithful
  /\ disk # Torn => Faithful(disk, served)
  /\ Settled
  /\ CopyInHand

-----------------------------------------------------------------------------
LEMMA LoadConfigured ==
  ASSUME NEW c \in Configs, NEW events
  PROVE  /\ Len(Load(c, events)) = Len(c) /\ DOMAIN Load(c, events) = 1..Len(c)
         /\ \A i \in DOMAIN Load(c, events) :
              Load(c, events)[i] = NewRecord(c[i], FilterEvents(events[c[i].key], c[i].version))
<1>1. c \in Seq(Providers) /\ Len(c) \in Nat
  BY ConfigsAssumption
<1> DEFINE s == [i \in 1..Len(c) |-> NewRecord(c[i], FilterEvents(events[c[i].key], c[i].version))]
<1>2. Load(c, events) = s
  BY DEF Load
<1>3. DOMAIN s = 1..Len(c) /\ Len(s) = Len(c)
  BY <1>1
<1> QED
  BY <1>2, <1>3

LEMMA AloneInitially == Init => Alone
<1> SUFFICES ASSUME Init PROVE Alone
  OBVIOUS
<1>1. /\ Len(data) = Len(config)
      /\ \A i \in DOMAIN data : data[i].prov = config[i]
  BY LoadConfigured, ConfigsAssumption DEF Init, NewRecord
<1> QED
  BY <1>1, PublicAssumption DEF Init, Alone, Resting, Working, Updating, NoIPs

(* The record a step that holds a copy is about to store.                   *)
ToStore == IF pc = "store" THEN Answered(job.rec, job.outcome, job.ip) ELSE job.rec

LEMMA InHand ==
  ASSUME IInv, Alone, pc \in Working
  PROVE  /\ aliased /\ Slice = data
         /\ job \in Job /\ job.rec \in Record /\ job.id \in Id
         /\ job.id \in DOMAIN data /\ Access(job.id) = "ok"
         /\ data[job.id] \in Record /\ job.rec.prov = data[job.id].prov
         /\ job.ip \in Addrs \cup {NoAddr}
         /\ pc \in Updating => job.ip \in Addrs
         /\ pc = "store" => job.outcome \in {"ok", "failed", "banned"}
<1>1. aliased /\ job \in Job
  BY DEF Alone, Resting, Working, IInv, CycleShape
<1>2. job.rec \in Record /\ job.id \in Id /\ job.ip \in Addrs \cup {NoAddr}
  BY <1>1 DEF Job
<1>3. job.id \in DOMAIN data /\ job.rec.prov = data[job.id].prov
  BY <1>1 DEF IInv, CycleShape
<1>4. Access(job.id) = "ok" /\ data[job.id] \in Record
  BY <1>2, <1>3, AccessType DEF IInv, TypeOK
<1>5. pc \in Updating => job.ip \in Addrs
  BY DEF IInv, CycleShape, Updating
<1>6. pc = "store" => job.outcome \in {"ok", "failed", "banned"}
  BY <1>1 DEF IInv, CycleShape, Job
<1> QED
  BY <1>1, <1>2, <1>3, <1>4, <1>5, <1>6 DEF Slice

LEMMA ToStoreType ==
  ASSUME IInv, Alone, pc \in Working
  PROVE  /\ ToStore \in Record /\ ToStore.prov = data[job.id].prov
         /\ ToStore.status # "unset"
<1>1. CASE pc = "store"
  <2>1. ToStore = Answered(job.rec, job.outcome, job.ip)
    BY <1>1 DEF ToStore
  <2>2. Answered(job.rec, job.outcome, job.ip).status # "unset"
    BY <1>1, InHand DEF Answered, Record
  <2> QED
    BY <1>1, <2>1, <2>2, InHand, AnsweredType DEF IInv, Updating
<1>2. CASE pc = "initStore"
  <2>1. ToStore = InitialState(data[job.id], job.ip)
    BY <1>2 DEF ToStore, Alone
  <2>2. InitialState(data[job.id], job.ip).status # "unset"
    BY InHand DEF InitialState, Record
  <2> QED
    BY <2>1, <2>2, InHand, InitialStateType DEF IInv
<1>3. CASE pc \in {"mark", "call"}
  <2>1. ToStore = job.rec /\ job.rec = [data[job.id] EXCEPT !.status = "updating"]
    BY <1>3 DEF ToStore, Alone, Updating
  <2> QED
    BY <2>1, InHand DEF Record
<1> QED
  BY <1>1, <1>2, <1>3 DEF Working

Storing == InitStore \/ MarkUpdating \/ StoreResult

(* The steps that store a record: which, and what else they change.         *)
LEMMA StoringStep ==
  ASSUME IInv, Alone, Storing
  PROVE  /\ pc \in Working
         /\ \E w \in WriteOutcomes : DbUpdate(job.id, ToStore, w)
         /\ Len(data') = Len(data) /\ DOMAIN data' = DOMAIN data
         /\ data'[job.id] = ToStore
         /\ \A i \in DOMAIN data \ {job.id} : data'[i] = data[i]
         /\ \/ pc = "initStore" /\ pc' = "init" /\ job' = NoJob
            \/ pc = "mark" /\ pc' = "call" /\ job' = job
            \/ pc = "mark" /\ pc' = "update" /\ job' = NoJob /\ errs'
            \/ pc = "store" /\ pc' = "update" /\ job' = NoJob
                 /\ (~errs' => job.outcome = "ok")
         /\ ~errs' => ~errs
         /\ UNCHANGED <<public, remote, resolved, now, wall, config, ips, toUpdate, left, view,
                        aliased, stamp, cancelled, reload, served, told>>
<1>1. pc \in Working
  BY DEF Storing, InitStore, MarkUpdating, StoreResult, Working
<1>2. Access(job.id) = "ok" /\ job.id \in DOMAIN data
  BY <1>1, InHand
<1>3. UNCHANGED <<public, remote, resolved, now, wall, config, ips, toUpdate, left, view,
                  aliased, stamp, cancelled, reload, served, told>>
  BY DEF Storing, InitStore, MarkUpdating, StoreResult, envVars, ghostVars
<1>4. /\ \E w \in WriteOutcomes : DbUpdate(job.id, ToStore, w)
      /\ \/ pc = "initStore" /\ pc' = "init" /\ job' = NoJob
         \/ pc = "mark" /\ pc' = "call" /\ job' = job
         \/ pc = "mark" /\ pc' = "update" /\ job' = NoJob /\ errs'
         \/ pc = "store" /\ pc' = "update" /\ job' = NoJob
              /\ (~errs' => job.outcome = "ok")
      /\ ~errs' => ~errs
  <2>1. CASE InitStore
    <3>1. PICK w \in WriteOutcomes : DbUpdate(job.id, job.rec, w) /\ errs' = (errs \/ w # "written")
      BY <1>2, <2>1 DEF InitStore
    <3>2. pc = "initStore" /\ pc' = "init" /\ job' = NoJob
      BY <2>1 DEF InitStore
    <3>3. ToStore = job.rec
      BY <3>2 DEF ToStore
    <3>4. ~errs' => ~errs
      BY <3>1
    <3> QED
      BY <3>1, <3>2, <3>3, <3>4
  <2>2. CASE MarkUpdating
    <3>1. PICK w \in WriteOutcomes :
            /\ DbUpdate(job.id, job.rec, w)
            /\ errs' = (errs \/ w # "written")
            /\ pc' = IF w = "written" THEN "call" ELSE "update"
            /\ job' = IF w = "written" THEN job ELSE NoJob
      BY <1>2, <2>2 DEF MarkUpdating
    <3>2. pc = "mark" /\ ToStore = job.rec
      BY <2>2 DEF MarkUpdating, ToStore
    <3>3. ~errs' => ~errs
      BY <3>1
    <3>4. CASE w = "written"
      BY <3>1, <3>2, <3>3, <3>4
    <3>5. CASE w # "written"
      BY <3>1, <3>2, <3>3, <3>5
    <3> QED
      BY <3>4, <3>5
  <2>3. CASE StoreResult
    <3>1. PICK w \in WriteOutcomes :
            /\ DbUpdate(job.id, Answered(job.rec, job.outcome, job.ip), w)
            /\ errs' = (errs \/ Errored(job.outcome, w))
      BY <1>2, <2>3 DEF StoreResult
    <3>2. pc = "store" /\ pc' = "update" /\ job' = NoJob
      BY <2>3 DEF StoreResult
    <3>3. ToStore = Answered(job.rec, job.outcome, job.ip)
      BY <3>2 DEF ToStore
    <3>4. (~errs' => ~errs) /\ (~errs' => job.outcome = "ok")
      BY <3>1 DEF Errored
    <3> QED
      BY <3>1, <3>2, <3>3, <3>4
  <2> QED
    BY <2>1, <2>2, <2>3 DEF Storing
<1>5. /\ Len(data') = Len(data) /\ data' \in Seq(Record)
      /\ data'[job.id] = ToStore
      /\ \A i \in DOMAIN data \ {job.id} : data'[i] = data[i]
  <2>1. PICK w \in WriteOutcomes : DbUpdate(job.id, ToStore, w)
    BY <1>4
  <2> QED
    BY <1>1, <1>2, <2>1, ToStoreType, WriteOutcomesType, DbUpdateType DEF IInv
<1>6. DOMAIN data' = DOMAIN data
  BY <1>5 DEF IInv, TypeOK
<1> QED
  BY <1>1, <1>3, <1>4, <1>5, <1>6

(* The steps of a cycle that go from record to record.                      *)
Walking ==
  \/ StartCycle \/ FetchIP \/ FetchDone \/ Decide \/ DecideDone
  \/ InitSkip \/ InitSelect \/ InitDone \/ BeginUpdate \/ FinishCycle

LEMMA WalkingStep ==
  ASSUME Walking
  PROVE  /\ UNCHANGED <<data, persist, disk, config, public, remote, resolved, now, wall,
                        served, told, cancelled, reload>>
         /\ pc \notin Dead /\ pc' \notin Dead
BY Zenon DEF Walking, StartCycle, FetchIP, FetchDone, Decide, DecideDone, InitSkip, InitSelect,
       InitDone, BeginUpdate, FinishCycle, envVars, dbVars, ghostVars, Dead

Ending == Shutdown \/ Crash

LEMMA EndingStep ==
  ASSUME Ending
  PROVE  /\ Down("down") /\ pc \notin Dead
         /\ disk' \in {disk, NoEvents, Torn}
         /\ "tear" \notin Faults => disk' = disk
         /\ UNCHANGED <<public, remote, resolved, now, wall, config, served, told>>
<1>1. Down("down") /\ UNCHANGED <<envVars, config, ghostVars>> /\ pc \notin Dead
  BY Zenon DEF Ending, Shutdown, Crash, Dead
<1>2. disk' = disk \/ ("tear" \in Faults /\ disk' \in {NoEvents, Torn})
  BY Zenon DEF Ending, Shutdown, Crash
<1> QED
  BY <1>1, <1>2 DEF envVars, ghostVars

(* No access to the records panics: every id is one of theirs.               *)
LEMMA NoPanicAlone ==
  ASSUME IInv, Alone
  PROVE  ~Panic
<1>1. data \in Seq(Record)
  BY DEF IInv, TypeOK
<1>2. ASSUME pc = "init", idx <= Len(Slice), Access(idx) = "panic" PROVE FALSE
  <2>1. Slice = data /\ idx \in Nat \ {0}
    BY <1>2 DEF Alone, Resting, Slice, IInv, TypeOK, Id
  <2>2. idx \in DOMAIN data
    BY <1>1, <1>2, <2>1
  <2> QED
    BY <1>1, <1>2, <2>1, <2>2, AccessType DEF Id
<1>3. ASSUME pc = "update", NEW id \in left, Access(id) = "panic" PROVE FALSE
  <2>1. Slice = data
    BY <1>3 DEF Alone, Resting, Slice
  <2>2. id \in DOMAIN data /\ id \in Id
    BY <2>1 DEF IInv, TypeOK, CycleShape
  <2> QED
    BY <1>1, <1>3, <2>2, AccessType
<1>4. ASSUME pc \in {"initStore", "mark", "store"}, Access(job.id) = "panic" PROVE FALSE
  BY <1>4, InHand DEF Working
<1> QED
  BY <1>2, <1>3, <1>4 DEF Panic

-----------------------------------------------------------------------------
LEMMA BeginUpdateStep ==
  ASSUME IInv, Alone, BeginUpdate
  PROVE  \E id \in left :
           /\ id \in DOMAIN data /\ data[id] \in Record /\ left' = left \ {id}
           /\ pc' = "mark" /\ errs' = errs
           /\ job' = [busy |-> TRUE, id |-> id, ip |-> UpdateIP(data[id].prov),
                      rec |-> [data[id] EXCEPT !.status = "updating"], outcome |-> "none"]
           /\ pc = "update" /\ UNCHANGED <<ips, idx, toUpdate, view, aliased, stamp>>
<1>1. pc = "update" /\ Slice = data /\ data \in Seq(Record)
  BY DEF BeginUpdate, Alone, Resting, Slice, IInv, TypeOK
<1>2. \A id \in left : id \in Id /\ id \in DOMAIN data
  BY <1>1 DEF IInv, TypeOK, CycleShape
<1>3. \A id \in left : Access(id) = "ok" /\ data[id] \in Record
  BY <1>1, <1>2, AccessType
<1> QED
  BY <1>1, <1>2, <1>3 DEF BeginUpdate

LEMMA InitSelectStep ==
  ASSUME IInv, Alone, InitSelect
  PROVE  /\ pc = "init" /\ pc' = "initStore"
         /\ Slice = data /\ idx \in DOMAIN data /\ data[idx] \in Record
         /\ idx \notin toUpdate /\ data[idx].status = "unset"
         /\ job' = [busy |-> TRUE, id |-> idx, ip |-> UpdateIP(data[idx].prov),
                    rec |-> InitialState(data[idx], UpdateIP(data[idx].prov)), outcome |-> "none"]
         /\ UNCHANGED <<data, persist, disk, config, public, remote, resolved, now, wall, served, told,
                        cancelled, reload, ips, idx, toUpdate, left, view, aliased, stamp, errs>>
<1>1. pc = "init" /\ idx <= Len(Slice) /\ idx \notin toUpdate /\ Slice[idx].status = "unset"
  BY DEF InitSelect
<1>2. Slice = data /\ data \in Seq(Record) /\ idx \in Id
  BY <1>1 DEF Alone, Resting, Slice, IInv, TypeOK
<1>3. idx \in DOMAIN data /\ data[idx] \in Record
  BY <1>1, <1>2 DEF Id
<1>4. Access(idx) = "ok"
  BY <1>2, <1>3, AccessType
<1> QED
  BY <1>1, <1>2, <1>3, <1>4 DEF InitSelect, envVars, dbVars, ghostVars

LEMMA AloneWalking ==
  ASSUME IInv, Alone, Walking
  PROVE  Alone'
<1> USE DEF Alone, Resting, Working, Updating, Dead, envVars, dbVars, ghostVars
<1>1. CASE StartCycle
  BY <1>1 DEF StartCycle
<1>2. CASE FetchIP
  <2>1. PICK n \in idx..Len(VersionOrder) :
          \E ip \in Fetched(VersionOrder[n]) : ips' = [ips EXCEPT ![VersionOrder[n]] = ip]
    BY <1>2, Zenon DEF FetchIP
  <2>2. PICK ip \in Fetched(VersionOrder[n]) : ips' = [ips EXCEPT ![VersionOrder[n]] = ip]
    BY <2>1
  <2>3. ip # NoAddr => MatchesVersion(ip, VersionOrder[n])
    BY <2>2 DEF Fetched, MatchesVersion
  <2>4. \A v \in Versions : ips'[v] # NoAddr => MatchesVersion(ips'[v], v)
    BY <2>2, <2>3 DEF IInv, TypeOK
  <2> QED
    BY <1>2, <2>4 DEF FetchIP
<1>3. CASE FetchDone \/ Decide \/ DecideDone \/ InitSkip \/ InitDone
  BY <1>3 DEF FetchDone, Decide, DecideDone, InitSkip, InitDone
<1>4. CASE InitSelect
  <2> DEFINE ip == UpdateIP(data[idx].prov)
  <2>1. /\ UNCHANGED <<public, ips, aliased, data, config, left, stamp>> /\ pc = "init" /\ pc' = "initStore"
        /\ data[idx] \in Record
        /\ job' = [busy |-> TRUE, id |-> idx, ip |-> ip,
                   rec |-> InitialState(data[idx], ip), outcome |-> "none"]
    BY <1>4, InitSelectStep
  <2>2. ip \in Addrs \cup {NoAddr}
    BY <2>1, UpdateIPType DEF IInv, Record
  <2> HIDE DEF ip
  <2>3. InitialState(data[idx], ip).prov = data[idx].prov
    BY <2>1, <2>2, InitialStateType DEF IInv
  <2>4. job'.id = idx /\ job'.ip = ip /\ job'.rec = InitialState(data[idx], ip)
    BY <2>1
  <2>5. job'.ip = UpdateIP(job'.rec.prov)
    BY <2>3, <2>4 DEF ip
  <2>6. (pc \in Working => job.ip = UpdateIP(job.rec.prov))'
    BY <2>1, <2>5 DEF UpdateIP
  <2>7. (pc = "initStore" => job.rec = InitialState(data[job.id], job.ip))'
    BY <2>1, <2>4 DEF InitialState
  <2> QED
    BY <2>1, <2>6, <2>7
<1>5. CASE BeginUpdate
  <2>1. PICK id \in left :
           /\ id \in DOMAIN data /\ data[id] \in Record /\ left' = left \ {id}
           /\ pc' = "mark"
           /\ job' = [busy |-> TRUE, id |-> id, ip |-> UpdateIP(data[id].prov),
                      rec |-> [data[id] EXCEPT !.status = "updating"], outcome |-> "none"]
           /\ pc = "update" /\ UNCHANGED <<ips, aliased, stamp>>
    BY <1>5, BeginUpdateStep
  <2>2. UNCHANGED <<public, data, config>>
    BY <1>5 DEF BeginUpdate
  <2>3. job'.id = id /\ job'.rec = [data[id] EXCEPT !.status = "updating"]
    BY <2>1
  <2>4. job'.rec.prov = data[id].prov /\ job'.ip = UpdateIP(data[id].prov)
    BY <2>1, <2>3 DEF Record
  <2>5. job'.ip = UpdateIP(job'.rec.prov)
    BY <2>4
  <2>6. (pc \in Working => job.ip = UpdateIP(job.rec.prov))'
    BY <2>1, <2>5 DEF UpdateIP
  <2>7. (pc \in Updating => /\ job.rec = [data[job.id] EXCEPT !.status = "updating"]
                            /\ job.id \notin left)'
    BY <2>1, <2>2, <2>3
  <2> QED
    BY <2>1, <2>2, <2>6, <2>7
<1>6. CASE FinishCycle
  BY <1>6 DEF FinishCycle, NoIPs
<1> QED
  BY <1>1, <1>2, <1>3, <1>4, <1>5, <1>6 DEF Walking

LEMMA AloneStoring ==
  ASSUME IInv, Alone, Storing
  PROVE  Alone'
<1> USE DEF Resting, Working, Updating, Dead
<1>1. /\ UNCHANGED <<public, ips, aliased, config, left, stamp>>
      /\ Len(data') = Len(data) /\ DOMAIN data' = DOMAIN data
      /\ data'[job.id] = ToStore
      /\ \A i \in DOMAIN data \ {job.id} : data'[i] = data[i]
      /\ pc \in Working
      /\ pc' \in {"init", "update"} \/ (pc = "mark" /\ pc' = "call" /\ job' = job)
  BY StoringStep
<1>2. \A i \in DOMAIN data' : data'[i].prov = config'[i]
  BY <1>1, ToStoreType DEF Alone
<1>3. CASE pc' \in {"init", "update"}
  BY <1>1, <1>2, <1>3 DEF Alone
<1>4. CASE pc = "mark" /\ pc' = "call" /\ job' = job
  <2>1. data'[job.id] = job.rec /\ job.rec = [data[job.id] EXCEPT !.status = "updating"]
    BY <1>1, <1>4 DEF ToStore, Alone
  <2>2. job.rec = [data'[job.id] EXCEPT !.status = "updating"]
    BY <2>1, InHand DEF Record
  <2> QED
    BY <1>1, <1>2, <1>4, <2>2 DEF Alone, UpdateIP
<1> QED
  BY <1>1, <1>3, <1>4

LEMMA CallStep ==
  ASSUME IInv, CallProvider
  PROVE  /\ pc = "call" /\ pc' = "store" /\ job' \in Job
         /\ job'.ip = job.ip /\ job'.id = job.id /\ job'.rec = job.rec
         /\ job'.outcome \in {"ok", "failed", "banned"}
         /\ UNCHANGED <<public, resolved, now, wall, data, persist, disk, config, ips, idx, toUpdate,
                        left, view, aliased, stamp, errs, cancelled, reload>>
<1>1. job \in Job /\ \E o \in {"ok", "failed", "banned"} : job' = [job EXCEPT !.outcome = o]
  BY Zenon DEF CallProvider, IInv, CycleShape, Working
<1>2. /\ job' \in Job /\ job'.ip = job.ip /\ job'.id = job.id /\ job'.rec = job.rec
      /\ job'.outcome \in {"ok", "failed", "banned"}
  BY <1>1 DEF Job
<1> QED
  BY <1>2 DEF CallProvider, dbVars

(* Every step there is when nobody saves settings.                          *)
LEMMA NextAlone ==
  ASSUME Handlers = {}, IInv, Alone, [Next]_vars
  PROVE  \/ Walking \/ Storing \/ CallProvider \/ Ending \/ Boot \/ Cancel
         \/ Environment \/ UNCHANGED vars
BY NoPanicAlone, Zenon DEF Next, Cycle, Process, Walking, Storing, Ending

LEMMA AlonePreserved ==
  ASSUME Handlers = {}, IInv, Alone, [Next]_vars
  PROVE  Alone'
<1> USE DEF Resting, Working, Updating, Dead
<1>1. CASE Walking
  BY <1>1, AloneWalking
<1>2. CASE Storing
  BY <1>2, AloneStoring
<1>3. CASE CallProvider
  BY <1>3, CallStep DEF Alone, UpdateIP
<1>4. CASE Ending
  BY <1>4, EndingStep DEF Alone, Down, NoIPs
<1>5. CASE Boot
  <2>1. /\ pc' \in {"idle", "refused"} /\ pc \in Dead
        /\ UNCHANGED <<public, ips, config>>
    BY <1>5 DEF Boot, envVars
  <2>2. CASE Accepted(disk)
    <3>1. data' = Load(config, disk) /\ config \in Configs
      BY <1>5, <2>2 DEF Boot, IInv, TypeOK
    <3>2. Len(data') = Len(config) /\ \A i \in DOMAIN data' : data'[i].prov = config[i]
      BY <3>1, LoadConfigured DEF NewRecord
    <3> QED
      BY <2>1, <3>2 DEF Alone
  <2>3. CASE ~Accepted(disk)
    <3>1. pc' = "refused" /\ data' = data
      BY <1>5, <2>3 DEF Boot
    <3> QED
      BY <2>1, <3>1 DEF Alone
  <2> QED
    BY <2>2, <2>3
<1>6. CASE Cancel
  BY <1>6 DEF Cancel, Alone, envVars, dbVars, cycleVars, UpdateIP, InitialState
<1>7. CASE Environment
  <2>1. \A f \in Families : public'[f] # NoAddr => public'[f].fam = f
    <3>1. CASE PublicChange
      BY <3>1 DEF PublicChange, IInv, TypeOK, Alone
    <3>2. CASE public' = public
      BY <3>2 DEF Alone
    <3> QED
      BY <1>7, <3>1, <3>2 DEF Environment, Tick, ClockBack, Propagate, Edit
  <2>2. UNCHANGED <<dbVars, cycleVars>>
    BY <1>7, Zenon DEF Environment, PublicChange, Tick, ClockBack, Propagate, Edit
  <2> QED
    BY <2>1, <2>2 DEF Alone, dbVars, cycleVars, UpdateIP, InitialState
<1>8. CASE UNCHANGED vars
  BY <1>8 DEF vars, envVars, dbVars, cycleVars, Alone, UpdateIP, InitialState
<1> QED
  BY <1>1, <1>2, <1>3, <1>4, <1>5, <1>6, <1>7, <1>8, NextAlone

(* The address in hand, which Provider.Update is called with.               *)
LEMMA CopyFits ==
  ASSUME IInv, Alone, pc \in Working, job.ip # NoAddr
  PROVE  /\ MatchesVersion(job.ip, job.rec.prov.version)
         /\ job.ip = IPv6WithSuffix(job.ip, job.rec.prov.suffix)
<1> DEFINE p == job.rec.prov
<1>1. p \in Provider /\ job.ip \in Addrs
  BY InHand DEF Record
<1>2. p.version \in Versions /\ p.suffix \in Hosts \cup {NoHost}
  BY <1>1 DEF Provider
<1>3. ips[p.version] \in Addrs \cup {NoAddr} /\ job.ip = IPv6WithSuffix(ips[p.version], p.suffix)
  BY <1>2 DEF IInv, TypeOK, Alone, UpdateIP
<1> HIDE DEF p
<1>4. ips[p.version] \in Addrs /\ ips[p.version] # NoAddr
  BY <1>1, <1>2, <1>3, IPv6WithSuffixType, NoAddrIsNoAddress
<1>5. MatchesVersion(ips[p.version], p.version)
  BY <1>2, <1>4 DEF Alone
<1>6. job.ip.fam = ips[p.version].fam /\ job.ip = IPv6WithSuffix(job.ip, p.suffix)
  BY <1>2, <1>3, <1>4 DEF IPv6WithSuffix, Addrs
<1> QED
  BY <1>5, <1>6 DEF MatchesVersion, p

(* Updater.Update never sends an address of a family an entry is not for, nor
   one without the suffix it is configured with, whatever fails and whenever
   the program is restarted, as long as no settings are saved meanwhile.    *)
THEOREM AddressFitsProviderAlone ==
  ASSUME Handlers = {} PROVE Spec => AddressFitsProvider
<1>1. Init => Alone
  BY AloneInitially
<1>2. IInv /\ Alone /\ [Next]_vars => Alone'
  BY AlonePreserved
<1>3. IInv /\ Alone =>
        [Calling => LET p == job.rec.prov
                    IN  /\ MatchesVersion(job.ip, p.version)
                        /\ job.ip = IPv6WithSuffix(job.ip, p.suffix)]_vars
  <2>1. IInv /\ Alone /\ pc = "call" => pc \in Working /\ job.ip # NoAddr
    BY InHand, NoAddrIsNoAddress DEF Working, Updating
  <2> QED
    BY <2>1, CopyFits DEF Calling
<1> QED
  BY <1>1, <1>2, <1>3, Inductive, PTL DEF Spec, AddressFitsProvider

-----------------------------------------------------------------------------
(* Files and memory stay faithful.                                         *)
LEMMA FaithfulMore ==
  ASSUME NEW events, NEW held, NEW more, \A p \in Providers : held[p] \subseteq more[p],
         Faithful(events, held)
  PROVE  Faithful(events, more)
BY DEF Faithful

LEMMA FaithfulEncoded ==
  ASSUME NEW events \in [Keys -> Seq(Event)], NEW held, Faithful(events, held)
  PROVE  Faithful(Encoded(events), held)
BY EncodedType DEF Faithful

LEMMA FaithfulAppended ==
  ASSUME TypeOK, NEW rec \in Record, rec.prov \in Providers, rec.hist.last \in Event,
         rec.hist.last.ip \in served[rec.prov], Faithful(persist, served)
  PROVE  Faithful(Appended(rec), served)
<1> DEFINE key == rec.prov.key
<1>1. key \in Keys /\ persist[key] \in Seq(Event)
  BY DEF Record, Provider, TypeOK
<1>2. Appended(rec)[key] = Append(persist[key], rec.hist.last)
  BY <1>1 DEF Appended, TypeOK
<1>3. \A k \in Keys \ {key} : Appended(rec)[k] = persist[k]
  BY DEF Appended, TypeOK
<1> HIDE DEF key
<1>4. ASSUME NEW i \in DOMAIN Appended(rec)[key]
      PROVE  \E p \in Providers : p.key = key /\ Appended(rec)[key][i].ip \in served[p]
  <2>1. CASE i \in DOMAIN persist[key]
    <3>1. Appended(rec)[key][i] = persist[key][i]
      BY <1>1, <1>2, <2>1
    <3> QED
      BY <1>1, <2>1, <3>1 DEF Faithful
  <2>2. CASE i \notin DOMAIN persist[key]
    <3>1. Appended(rec)[key][i] = rec.hist.last
      BY <1>1, <1>2, <2>2
    <3> QED
      BY <3>1 DEF key
  <2> QED
    BY <2>1, <2>2
<1> QED
  BY <1>3, <1>4 DEF Faithful

(* Database.Update keeps memory and file faithful if the event it appends,    *)
(* when it appends one, is.                                                *)
LEMMA DbUpdateFaithful ==
  ASSUME TypeOK, NEW id \in DOMAIN data, NEW rec \in Record, NEW w \in Outcomes,
         DbUpdate(id, rec, w), rec.prov \in Providers,
         Grows(id, rec) => rec.hist.last.ip \in served[rec.prov],
         Faithful(persist, served), disk # Torn => Faithful(disk, served)
  PROVE  Faithful(persist', served) /\ (disk' # Torn => Faithful(disk', served))
<1>1. CASE ~Grows(id, rec)
  BY <1>1 DEF DbUpdate
<1>2. CASE Grows(id, rec)
  <2>1. rec.hist.last \in Event
    BY <1>2, GrowsMeansEvent DEF TypeOK
  <2>2. Appended(rec) \in [Keys -> Seq(Event)] /\ Faithful(Appended(rec), served)
    BY <1>2, <2>1, AppendedType, FaithfulAppended
  <2>3. Faithful(Encoded(Appended(rec)), served)
    BY <2>2, FaithfulEncoded
  <2>4. Faithful(NoEvents, served)
    BY DEF Faithful, NoEvents
  <2>5. persist' = Appended(rec) /\ disk' = Written(w, Appended(rec))
    BY <1>2 DEF DbUpdate
  <2> QED
    BY <2>2, <2>3, <2>4, <2>5 DEF Written, Outcomes
<1> QED
  BY <1>1, <1>2

-----------------------------------------------------------------------------
(* The decision for one record: whoever needs no update and has no history    *)
(* was seen pointing to the address, or there is none.                      *)
LEMMA NoUpdateMeansObserved ==
  ASSUME TypeOK, ~cancelled, NEW r \in Record, r.prov \in Providers,
         resolved[r.prov] \subseteq served[r.prov],
         r.status = "unset", r.ban = NoTime, GetCurrentIP(r.hist) = NoAddr,
         FALSE \in ShouldUpdate(r)
  PROVE  Observed(r.prov, UpdateIP(r.prov))
<1> DEFINE ip == UpdateIP(r.prov)
<1>1. r.hist.count = 0
  BY CurrentIP DEF Record
<1>2. ~WithinCooldown(r) /\ ~WithinBan(r)
  BY <1>1 DEF WithinCooldown, WithinBan
<1>3. CASE ip = NoAddr
  BY <1>3 DEF Observed
<1>4. CASE ip # NoAddr /\ r.prov.proxied
  <2>1. ShouldUpdate(r) = {ip # GetCurrentIP(r.hist)}
    BY <1>2, <1>4 DEF ShouldUpdate
  <2>2. FALSE = (ip # GetCurrentIP(r.hist))
    BY <2>1
  <2> QED
    BY <1>4, <2>2
<1>5. CASE ip # NoAddr /\ ~r.prov.proxied
  <2>1. ShouldUpdate(r) = {ip \notin found : found \in Lookups(r.prov)}
    BY <1>2, <1>5 DEF ShouldUpdate
  <2>2. PICK found \in Lookups(r.prov) : FALSE = (ip \notin found)
    BY <2>1
  <2>3. found \subseteq resolved[r.prov]
    BY DEF Lookups
  <2> QED
    BY <2>2, <2>3 DEF Observed
<1> QED
  BY <1>3, <1>4, <1>5

(* The event a step that stores a record adds to its history, if it adds one. *)
NewEvent == IF pc = "store" THEN [ip |-> job.ip, wall |-> wall, mono |-> now]
            ELSE [ip |-> job.ip, wall |-> stamp.wall, mono |-> stamp.mono]

LEMMA ToStoreHistory ==
  ASSUME IInv, Alone, pc \in Working
  PROVE  /\ Grows(job.id, ToStore) =>
              /\ ToStore.hist = Extend(data[job.id].hist, NewEvent)
              /\ NewEvent \in Event /\ job.ip # NoAddr
              /\ ToStore.hist.last = NewEvent /\ ToStore.hist.last.ip = job.ip
              /\ \/ pc = "initStore" /\ GetCurrentIP(data[job.id].hist) = NoAddr
                 \/ pc = "store" /\ job.outcome = "ok"
         /\ ~Grows(job.id, ToStore) =>
              /\ ToStore.hist = data[job.id].hist
              /\ ~(pc = "store" /\ job.outcome = "ok")
<1> DEFINE old == data[job.id]
<1>1. /\ old \in Record /\ job.ip \in Addrs \cup {NoAddr} /\ job \in Job /\ job.rec \in Record
      /\ pc \in Updating => job.ip \in Addrs
      /\ pc = "store" => job.outcome \in {"ok", "failed", "banned"}
      /\ old.hist \in History /\ old.hist.count \in Nat
  BY InHand DEF Record, History
<1>2. job.ip # NoAddr => NewEvent \in Event /\ NewEvent.ip = job.ip
  BY <1>1 DEF NewEvent, Event, IInv, TypeOK
<1>3. CASE pc = "initStore"
  <2>1. ToStore = InitialState(old, job.ip)
    BY <1>3 DEF ToStore, Alone
  <2>2. CASE job.ip # NoAddr /\ GetCurrentIP(old.hist) = NoAddr
    <3>1. ToStore.hist = Extend(old.hist, NewEvent)
      BY <1>1, <1>3, <2>1, <2>2 DEF InitialState, Record, NewEvent
    <3> HIDE DEF old
    <3>2. ToStore.hist.count = old.hist.count + 1 /\ ToStore.hist.last = NewEvent
      BY <3>1 DEF Extend
    <3>3. Grows(job.id, ToStore)
      BY <1>1, <3>2 DEF Grows, old
    <3> QED
      BY <1>2, <1>3, <2>2, <3>1, <3>2, <3>3 DEF old
  <2>3. CASE ~(job.ip # NoAddr /\ GetCurrentIP(old.hist) = NoAddr)
    <3>1. ToStore.hist = old.hist
      BY <1>1, <2>1, <2>3 DEF InitialState, Record
    <3> QED
      BY <1>1, <1>3, <3>1 DEF Grows
  <2> QED
    BY <2>2, <2>3
<1>4. CASE pc \in {"mark", "call"}
  <2>1. ToStore.hist = old.hist
    BY <1>1, <1>4 DEF ToStore, Alone, Updating, Record
  <2> QED
    BY <1>1, <1>4, <2>1 DEF Grows
<1>5. CASE pc = "store"
  <2>1. ToStore = Answered(job.rec, job.outcome, job.ip) /\ job.rec.hist = old.hist
    BY <1>1, <1>5 DEF ToStore, Alone, Updating, Record
  <2>2. CASE job.outcome = "ok"
    <3>1. ToStore.hist = Extend(old.hist, NewEvent)
      BY <1>1, <1>5, <2>1, <2>2 DEF Answered, Record, NewEvent
    <3> HIDE DEF old
    <3>2. ToStore.hist.count = old.hist.count + 1 /\ ToStore.hist.last = NewEvent
      BY <3>1 DEF Extend
    <3>3. Grows(job.id, ToStore)
      BY <1>1, <3>2 DEF Grows, old
    <3>4. job.ip # NoAddr
      BY <1>1, <1>5, NoAddrIsNoAddress DEF Updating
    <3> QED
      BY <1>2, <1>5, <2>2, <3>1, <3>2, <3>3, <3>4 DEF old
  <2>3. CASE job.outcome # "ok"
    <3>1. ToStore.hist = old.hist
      BY <1>1, <1>5, <2>1, <2>3 DEF Answered, Record
    <3> QED
      BY <1>1, <2>3, <3>1 DEF Grows
  <2> QED
    BY <2>2, <2>3
<1> QED
  BY <1>3, <1>4, <1>5 DEF Working

-----------------------------------------------------------------------------
LEMMA HInvInitially == Init => HInv
<1> SUFFICES ASSUME Init PROVE HInv
  OBVIOUS
<1>1. /\ ~cancelled
      /\ \A p \in Providers : remote[p] \subseteq served[p] /\ resolved[p] \subseteq served[p]
  BY DEF Init
<1>2. /\ \A i \in DOMAIN data : data[i].prov \in Providers
      /\ \A i \in DOMAIN data : data[i].status = "unset" => data[i].ban = NoTime
  <2>1. InitialConfig \in Seq(Providers)
    BY ConfigsAssumption
  <2> QED
    BY <2>1 DEF Init, Load, NewRecord
<1>3. HistoryFaithful /\ Faithful(disk, served)
  BY DEF Init, NoEvents, HistoryFaithful, Faithful
<1>4. Settled /\ CopyInHand
  BY DEF Init, Settled, Decided, Resting, CopyInHand
<1> QED
  BY <1>1, <1>2, <1>3, <1>4 DEF HInv

(* The steps of a cycle that touch neither records nor files.               *)
LEMMA WalkPreservesHInv ==
  ASSUME IInv, Alone, HInv,
         StartCycle \/ FetchIP \/ FetchDone \/ DecideDone \/ InitSkip \/ InitDone \/ FinishCycle
  PROVE  HInv'
<1> USE DEF envVars, dbVars, ghostVars
<1>1. /\ UNCHANGED <<data, persist, disk, served, remote, resolved, cancelled>>
      /\ pc' \notin Working
  BY DEF StartCycle, FetchIP, FetchDone, DecideDone, InitSkip, InitDone, FinishCycle, Working
<1>2. Settled'
  <2>1. CASE StartCycle \/ FetchIP \/ FinishCycle
    BY <2>1 DEF StartCycle, FetchIP, FinishCycle, Settled, Decided, Resting
  <2>2. CASE FetchDone
    BY <2>2 DEF FetchDone, Settled, Decided, Resting, IInv, TypeOK
  <2>3. CASE DecideDone
    <3>1. Slice = data
      BY <2>3 DEF DecideDone, Alone, Resting, Slice
    <3>2. \A i \in DOMAIN data : Decided(i)
      BY <2>3, <3>1 DEF DecideDone, Decided, IInv, TypeOK, Id
    <3> QED
      BY <2>3, <3>2 DEF DecideDone, HInv, Settled, UpdateIP, Observed
  <2>4. CASE InitSkip \/ InitDone
    BY <2>4 DEF InitSkip, InitDone, HInv, Settled, Decided, Resting, UpdateIP, Observed
  <2> QED
    BY <2>1, <2>2, <2>3, <2>4
<1>3. CopyInHand'
  BY <1>1 DEF CopyInHand, Working
<1> QED
  BY <1>1, <1>2, <1>3 DEF HInv, HistoryFaithful, Faithful

LEMMA DecidePreservesHInv ==
  ASSUME IInv, Alone, HInv, Decide
  PROVE  HInv'
<1>1. /\ UNCHANGED <<data, persist, disk, served, remote, resolved, cancelled, ips, pc>>
      /\ pc = "decide" /\ Slice = data /\ idx' = idx + 1 /\ idx \in DOMAIN data /\ idx \in Nat
  BY DEF Decide, Alone, Resting, Slice, envVars, dbVars, ghostVars, IInv, TypeOK, Id
<1>2. PICK update \in ShouldUpdate(data[idx]) :
        toUpdate' = IF update THEN toUpdate \cup {idx} ELSE toUpdate
  BY <1>1 DEF Decide
<1>3. ASSUME NEW i \in DOMAIN data, i <= idx, i \notin toUpdate',
             data[i].status = "unset", GetCurrentIP(data[i].hist) = NoAddr
      PROVE  Observed(data[i].prov, UpdateIP(data[i].prov))
  <2>1. i \notin toUpdate
    BY <1>2, <1>3
  <2>2. CASE i < idx
    BY <1>1, <1>3, <2>1, <2>2 DEF HInv, Settled, Decided
  <2>3. CASE i = idx
    <3>1. FALSE \in ShouldUpdate(data[i])
      <4>1. update = FALSE
        <5>1. ~update
          BY <1>2, <1>3, <2>3
        <5>2. update \in BOOLEAN
          <6>1. \A r : ShouldUpdate(r) \subseteq BOOLEAN
            BY Zenon DEF ShouldUpdate
          <6> QED
            BY <1>2, <6>1
        <5> QED
          BY <5>1, <5>2
      <4> QED
        BY <1>2, <2>3, <4>1
    <3>2. data[i] \in Record /\ data[i].prov \in Providers /\ data[i].ban = NoTime
      BY <1>3 DEF IInv, TypeOK, HInv
    <3>3. resolved[data[i].prov] \subseteq served[data[i].prov] /\ ~cancelled
      BY <3>2 DEF HInv
    <3> QED
      BY <1>3, <3>1, <3>2, <3>3, NoUpdateMeansObserved DEF IInv
  <2> QED
    BY <1>1, <1>3, <2>2, <2>3 DEF IInv, TypeOK
<1>4. Settled'
  <2>1. \A i \in DOMAIN data : Decided(i)' => i <= idx
    BY <1>1 DEF Decided, Resting, IInv, TypeOK
  <2> QED
    BY <1>1, <1>3, <2>1 DEF Settled, Observed, UpdateIP
<1>5. CopyInHand'
  BY <1>1 DEF CopyInHand
<1> QED
  BY <1>1, <1>4, <1>5 DEF HInv, HistoryFaithful, Faithful

LEMMA InitSelectPreservesHInv ==
  ASSUME IInv, Alone, HInv, InitSelect
  PROVE  HInv'
<1>1. /\ UNCHANGED <<data, persist, disk, served, remote, resolved, cancelled, ips, toUpdate>>
      /\ pc = "init" /\ Slice = data /\ idx \in DOMAIN data
      /\ idx \notin toUpdate /\ data[idx].status = "unset"
  BY InitSelectStep
<1> DEFINE ip == UpdateIP(data[idx].prov)
<1>2. /\ pc' = "initStore"
      /\ job' = [busy |-> TRUE, id |-> idx, ip |-> ip,
                 rec |-> InitialState(data[idx], ip), outcome |-> "none"]
  BY InitSelectStep
<1>3. Settled'
  BY <1>1, <1>2 DEF HInv, Settled, Decided, Resting, UpdateIP, Observed
<1>4. CopyInHand'
  <2>1. GetCurrentIP(data[idx].hist) = NoAddr => Observed(data[idx].prov, ip)
    BY <1>1 DEF HInv, Settled, Decided, Resting
  <2> HIDE DEF ip
  <2> QED
    BY <1>1, <1>2, <2>1 DEF CopyInHand, Observed
<1> QED
  BY <1>1, <1>3, <1>4 DEF HInv, HistoryFaithful, Faithful

LEMMA StoringPreservesHInv ==
  ASSUME IInv, Alone, HInv, Storing
  PROVE  HInv'
<1>1. /\ pc \in Working /\ \E w \in WriteOutcomes : DbUpdate(job.id, ToStore, w)
      /\ DOMAIN data' = DOMAIN data /\ data'[job.id] = ToStore
      /\ \A i \in DOMAIN data \ {job.id} : data'[i] = data[i]
      /\ pc' \in {"init", "call", "update"}
      /\ UNCHANGED <<served, remote, resolved, cancelled, ips, toUpdate>>
  BY StoringStep
<1>2. /\ job.id \in DOMAIN data /\ ToStore \in Record /\ ToStore.status # "unset"
      /\ ToStore.prov = data[job.id].prov /\ ToStore.prov \in Providers
      /\ job.rec.prov = data[job.id].prov
  BY <1>1, InHand, ToStoreType DEF HInv
<1>3. Grows(job.id, ToStore) => ToStore.hist.last.ip \in served[ToStore.prov]
  <2> SUFFICES ASSUME Grows(job.id, ToStore) PROVE ToStore.hist.last.ip \in served[ToStore.prov]
    OBVIOUS
  <2>1. /\ ToStore.hist.last.ip = job.ip /\ job.ip # NoAddr
        /\ \/ pc = "initStore" /\ GetCurrentIP(data[job.id].hist) = NoAddr
           \/ pc = "store" /\ job.outcome = "ok"
    BY <1>1, ToStoreHistory
  <2> QED
    BY <1>2, <2>1 DEF HInv, CopyInHand, Observed
<1>4. Faithful(persist', served) /\ (disk' # Torn => Faithful(disk', served))
  <2>1. PICK w \in WriteOutcomes : DbUpdate(job.id, ToStore, w)
    BY <1>1
  <2> QED
    BY <1>2, <1>3, <2>1, WriteOutcomesType, DbUpdateFaithful DEF IInv, HInv, HistoryFaithful, Faithful
<1>5. Settled'
  <2>1. \A i \in DOMAIN data : Decided(i)
    <3>1. pc \notin Resting \cup {"fetch", "decide"}
      BY <1>1 DEF Working, Resting
    <3> QED
      BY <3>1 DEF Decided
  <2>2. \A i \in DOMAIN data : data'[i].status = "unset" => i # job.id
    BY <1>1, <1>2
  <2> QED
    BY <1>1, <2>1, <2>2 DEF HInv, Settled, Observed, UpdateIP
<1>6. CopyInHand'
  BY <1>1 DEF CopyInHand
<1>7. /\ (\A i \in DOMAIN data : data[i].prov \in Providers)'
      /\ (\A i \in DOMAIN data : data[i].status = "unset" => data[i].ban = NoTime)'
  BY <1>1, <1>2 DEF HInv
<1> QED
  BY <1>1, <1>4, <1>5, <1>6, <1>7 DEF HInv, HistoryFaithful, Faithful

LEMMA BeginUpdatePreservesHInv ==
  ASSUME IInv, Alone, HInv, BeginUpdate
  PROVE  HInv'
<1>1. /\ UNCHANGED <<data, persist, disk, served, remote, resolved, cancelled, ips, toUpdate>>
      /\ pc = "update" /\ pc' = "mark"
  BY BeginUpdateStep DEF BeginUpdate, envVars, dbVars, ghostVars
<1>2. Settled' /\ CopyInHand'
  BY <1>1 DEF HInv, Settled, Decided, Resting, UpdateIP, Observed, CopyInHand
<1> QED
  BY <1>1, <1>2 DEF HInv, HistoryFaithful, Faithful

(* A step after which each record has held at least what it held before.     *)
LEMMA ServedGrows ==
  ASSUME HInv, \A p \in Providers : served[p] \subseteq served'[p],
         UNCHANGED <<data, persist, disk, ips, toUpdate, cancelled>>,
         \A i : Decided(i)' => Decided(i),
         \A p \in Providers : remote'[p] \subseteq served'[p] /\ resolved'[p] \subseteq served'[p],
         CopyInHand'
  PROVE  HInv'
<1>1. Faithful(persist, served) /\ (disk # Torn => Faithful(disk, served))
  BY DEF HInv, HistoryFaithful, Faithful
<1>2. Faithful(persist, served') /\ (disk # Torn => Faithful(disk, served'))
  BY <1>1, FaithfulMore
<1>3. HistoryFaithful' /\ (disk # Torn => Faithful(disk, served))'
  BY <1>2 DEF HistoryFaithful, Faithful
<1>4. Settled'
  BY DEF HInv, Settled, UpdateIP, Observed
<1> QED
  BY <1>3, <1>4 DEF HInv

LEMMA PointServes ==
  ASSUME HInv, TypeOK, NEW p \in Providers, NEW ip \in Addrs, Point(p, ip), resolved' = resolved
  PROVE  /\ \A q \in Providers : served[q] \subseteq served'[q]
         /\ \A q \in Providers : remote'[q] \subseteq served'[q] /\ resolved'[q] \subseteq served'[q]
         /\ ip \in served'[p]
BY DEF Point, HInv, TypeOK

LEMMA CallProviderPreservesHInv ==
  ASSUME IInv, Alone, HInv, CallProvider
  PROVE  HInv'
<1> DEFINE p == job.rec.prov
<1>1. /\ pc = "call" /\ pc' = "store" /\ aliased /\ job \in Job /\ job.ip \in Addrs
      /\ job.id \in DOMAIN data /\ p = data[job.id].prov
  BY DEF CallProvider, Alone, Resting, IInv, CycleShape, Working
<1>2. p \in Providers
  BY <1>1 DEF HInv
<1>3. UNCHANGED <<data, persist, disk, ips, toUpdate, cancelled, resolved>>
  BY DEF CallProvider, dbVars
<1>4. \/ Point(p, job.ip)
      \/ UNCHANGED <<remote, served>> /\ job'.outcome # "ok"
  BY <1>1 DEF CallProvider, Job
<1>5. \E o \in {"ok", "failed", "banned"} : job' = [job EXCEPT !.outcome = o]
  BY Zenon DEF CallProvider
<1>6. job'.ip = job.ip /\ job'.id = job.id /\ job'.rec = job.rec
  BY <1>1, <1>5 DEF Job
<1>7. /\ \A q \in Providers : served[q] \subseteq served'[q]
      /\ \A q \in Providers : remote'[q] \subseteq served'[q] /\ resolved'[q] \subseteq served'[q]
      /\ job'.outcome = "ok" => job.ip \in served'[p]
  <2>1. CASE Point(p, job.ip)
    BY <1>1, <1>2, <1>3, <2>1, PointServes DEF IInv
  <2>2. CASE UNCHANGED <<remote, served>> /\ job'.outcome # "ok"
    BY <1>3, <2>2 DEF HInv
  <2> QED
    BY <1>4, <2>1, <2>2
<1>8. CopyInHand'
  BY <1>1, <1>3, <1>6, <1>7 DEF HInv, CopyInHand
<1>9. \A i : Decided(i)' => Decided(i)
  BY <1>1 DEF Decided, Resting
<1> QED
  BY <1>3, <1>7, <1>8, <1>9, ServedGrows

-----------------------------------------------------------------------------
(* The end and the start of the process, and the world.                     *)
LEMMA DownPreservesHInv ==
  ASSUME HInv, NEW how \in {"down", "panicked"}, Down(how),
         UNCHANGED <<envVars, ghostVars>>, disk' \in {disk, NoEvents, Torn}
  PROVE  HInv'
<1> USE DEF Down, envVars, ghostVars
<1>1. Faithful(NoEvents, served)
  BY DEF Faithful, NoEvents
<1>2. HistoryFaithful' /\ (disk # Torn => Faithful(disk, served))'
  BY <1>1 DEF HInv, HistoryFaithful, Faithful
<1>3. Settled' /\ CopyInHand'
  BY DEF Settled, CopyInHand
<1> QED
  BY <1>2, <1>3 DEF HInv

LEMMA BootPreservesHInv ==
  ASSUME IInv, HInv, Boot
  PROVE  HInv'
<1> USE DEF envVars, ghostVars
<1>1. /\ pc' \in {"idle", "refused"}
      /\ UNCHANGED <<disk, served, remote, resolved, cancelled>>
  BY DEF Boot
<1>2. /\ HistoryFaithful'
      /\ (\A i \in DOMAIN data : data[i].prov \in Providers)'
      /\ (\A i \in DOMAIN data : data[i].status = "unset" => data[i].ban = NoTime)'
  <2>1. CASE Accepted(disk)
    <3>1. disk # Torn /\ persist' = disk /\ data' = Load(config, disk)
      BY <2>1 DEF Boot, Accepted
    <3>2. Faithful(disk, served)
      BY <3>1 DEF HInv
    <3>3. config \in Seq(Providers)
      BY ConfigsAssumption DEF IInv, TypeOK
    <3>4. \A i \in DOMAIN Load(config, disk) :
            /\ Load(config, disk)[i].prov \in Providers
            /\ Load(config, disk)[i].ban = NoTime
      BY <3>3 DEF Load, NewRecord
    <3> QED
      BY <1>1, <3>1, <3>2, <3>4 DEF HistoryFaithful, Faithful
  <2>2. CASE ~Accepted(disk)
    BY <1>1, <2>2 DEF Boot, HInv, HistoryFaithful
  <2> QED
    BY <2>1, <2>2
<1>3. Settled' /\ CopyInHand'
  BY <1>1 DEF Settled, Decided, Resting, CopyInHand
<1>4. (disk # Torn => Faithful(disk, served))'
  BY <1>1 DEF HInv, Faithful
<1> QED
  BY <1>1, <1>2, <1>3, <1>4 DEF HInv

LEMMA EnvironmentPreservesHInv ==
  ASSUME IInv, Alone, HInv, Environment
  PROVE  HInv'
<1>1. UNCHANGED <<dbVars, cycleVars, cancelled>>
  BY Zenon DEF Environment, PublicChange, Tick, ClockBack, Propagate, Edit
<1>2. /\ \A q \in Providers : served[q] \subseteq served'[q]
      /\ \A q \in Providers : remote'[q] \subseteq served'[q] /\ resolved'[q] \subseteq served'[q]
  <2>1. CASE PublicChange \/ Tick \/ ClockBack
    BY <2>1 DEF PublicChange, Tick, ClockBack, HInv, ghostVars
  <2>2. ASSUME NEW p \in Providers, Propagate(p)
        PROVE  /\ \A q \in Providers : served[q] \subseteq served'[q]
               /\ \A q \in Providers : remote'[q] \subseteq served'[q] /\ resolved'[q] \subseteq served'[q]
    BY <2>2 DEF Propagate, HInv, IInv, TypeOK, ghostVars
  <2>3. ASSUME NEW p \in Providers, Edit(p)
        PROVE  /\ \A q \in Providers : served[q] \subseteq served'[q]
               /\ \A q \in Providers : remote'[q] \subseteq served'[q] /\ resolved'[q] \subseteq served'[q]
    <3>1. PICK ip \in Addrs : Point(p, ip)
      BY <2>3 DEF Edit
    <3> QED
      BY <2>3, <3>1, PointServes DEF Edit, IInv
  <2> QED
    BY <2>1, <2>2, <2>3 DEF Environment
<1>3. CopyInHand'
  <2>1. pc \in Working => data[job.id].prov \in Providers /\ job.rec.prov = data[job.id].prov
    BY DEF IInv, CycleShape, Alone, Resting, Working, HInv
  <2>2. UNCHANGED <<pc, job, stamp, data>>
    BY <1>1 DEF dbVars, cycleVars
  <2> QED
    BY <1>2, <2>1, <2>2 DEF HInv, CopyInHand, Observed, Working
<1>4. \A i : Decided(i)' => Decided(i)
  BY <1>1 DEF Decided, cycleVars
<1> QED
  BY <1>1, <1>2, <1>3, <1>4, ServedGrows DEF dbVars, cycleVars

LEMMA HInvPreserved ==
  ASSUME Handlers = {}, "cancel" \notin Faults, IInv, Alone, HInv, [Next]_vars
  PROVE  HInv'
<1>1. CASE Walking
  BY <1>1, WalkPreservesHInv, DecidePreservesHInv, InitSelectPreservesHInv, BeginUpdatePreservesHInv
     DEF Walking
<1>2. CASE Storing
  BY <1>2, StoringPreservesHInv
<1>3. CASE CallProvider
  BY <1>3, CallProviderPreservesHInv
<1>4. CASE Ending
  BY <1>4, EndingStep, DownPreservesHInv DEF envVars, ghostVars
<1>5. CASE Boot
  BY <1>5, BootPreservesHInv
<1>6. ~Cancel
  BY DEF Cancel, Injected
<1>7. CASE Environment
  BY <1>7, EnvironmentPreservesHInv
<1>8. CASE UNCHANGED vars
  BY <1>8 DEF vars, envVars, dbVars, cycleVars, ghostVars, HInv, HistoryFaithful, Faithful,
             Settled, Decided, UpdateIP, Observed, CopyInHand
<1> QED
  BY <1>1, <1>2, <1>3, <1>4, <1>5, <1>6, <1>7, <1>8, NextAlone

(* Every address in the history of a domain was one its records held at some
   time: lost answers, failed and torn writes, kills at any step, clock
   corrections and edits by hand included. Two things the code does not
   guard against are excluded, and TLC finds the property violated with
   either: a context cancelled during the lookups (UpdateCycle_v_history.cfg)
   and settings saved during a cycle (MoveConfigs of MCUpdateCycle).        *)
THEOREM HistoryFaithfulAlone ==
  ASSUME Handlers = {}, "cancel" \notin Faults PROVE Spec => []HistoryFaithful
<1>1. Init => Alone /\ HInv
  BY AloneInitially, HInvInitially
<1>2. IInv /\ Alone /\ HInv /\ [Next]_vars => Alone' /\ HInv'
  BY AlonePreserved, HInvPreserved
<1>3. HInv => HistoryFaithful
  BY DEF HInv
<1> QED
  BY <1>1, <1>2, <1>3, Inductive, PTL DEF Spec

-----------------------------------------------------------------------------
(* Every record the cycle is done with was updated, unless an error was     *)
(* collected: the one being worked on is still out.                         *)
Reported ==
  pc \in {"update"} \cup Updating /\ ~errs =>
    \A id \in toUpdate \ left :
      \/ pc \in Updating /\ id = job.id
      \/ /\ data[id].status = "success"
         /\ GetCurrentIP(data[id].hist) = UpdateIP(data[id].prov)

LEMMA ReportedWalking ==
  ASSUME IInv, Alone, Reported, Walking
  PROVE  Reported'
<1> USE DEF Updating
<1>1. CASE InitDone
  BY <1>1 DEF InitDone, Reported
<1>2. CASE BeginUpdate
  <2>1. PICK id \in left :
          /\ left' = left \ {id} /\ pc' = "mark" /\ job'.id = id /\ errs' = errs
          /\ pc = "update" /\ UNCHANGED <<ips, toUpdate>>
    BY <1>2, BeginUpdateStep
  <2>2. data' = data
    BY <1>2 DEF BeginUpdate, dbVars
  <2>3. ASSUME ~errs', NEW i \in toUpdate' \ left', i # job'.id
        PROVE  (data[i].status = "success" /\ GetCurrentIP(data[i].hist) = UpdateIP(data[i].prov))'
    BY <2>1, <2>2, <2>3 DEF Reported, UpdateIP
  <2> QED
    BY <2>1, <2>3 DEF Reported
<1>3. CASE StartCycle \/ FetchIP \/ FetchDone \/ Decide \/ DecideDone \/ InitSkip \/ InitSelect
           \/ FinishCycle
  <2>1. pc' \in {"fetch", "decide", "init", "initStore", "idle"}
    BY <1>3, Zenon DEF StartCycle, FetchIP, FetchDone, Decide, DecideDone, InitSkip, InitSelect, FinishCycle
  <2> QED
    BY <2>1 DEF Reported
<1> QED
  BY <1>1, <1>2, <1>3 DEF Walking

LEMMA ReportedStoring ==
  ASSUME IInv, Alone, Reported, Storing
  PROVE  Reported'
<1> USE DEF Updating
<1>1. /\ pc \in Working /\ DOMAIN data' = DOMAIN data /\ data'[job.id] = ToStore
      /\ \A i \in DOMAIN data \ {job.id} : data'[i] = data[i]
      /\ \/ pc = "initStore" /\ pc' = "init"
         \/ pc = "mark" /\ pc' = "call" /\ job' = job
         \/ pc = "mark" /\ pc' = "update" /\ errs'
         \/ pc = "store" /\ pc' = "update" /\ (~errs' => job.outcome = "ok")
      /\ ~errs' => ~errs
      /\ UNCHANGED <<ips, toUpdate, left>>
  BY StoringStep
<1>2. \A id \in toUpdate : id \in DOMAIN data
  BY <1>1, InHand DEF IInv, CycleShape
<1>3. ASSUME NEW id \in toUpdate \ left, id # job.id, pc \in Updating, ~errs
      PROVE  (data[id].status = "success" /\ GetCurrentIP(data[id].hist) = UpdateIP(data[id].prov))'
  BY <1>1, <1>2, <1>3 DEF Reported, UpdateIP
<1>4. ASSUME NEW id, id = job.id, pc = "store", job.outcome = "ok"
      PROVE  /\ data'[id].status = "success"
             /\ (GetCurrentIP(data[id].hist) = UpdateIP(data[id].prov))'
  <2>1. ToStore = Answered(job.rec, job.outcome, job.ip) /\ job.rec \in Record
    BY <1>4, InHand DEF ToStore, Working
  <2>2. ToStore.status = "success" /\ ToStore.prov = job.rec.prov
    BY <1>4, <2>1 DEF Answered, Record
  <2>3. GetCurrentIP(ToStore.hist) = job.ip
    BY <1>1, <1>4, ToStoreHistory DEF GetCurrentIP
  <2>4. job.ip = UpdateIP(job.rec.prov)
    BY <1>1 DEF Alone
  <2> QED
    BY <1>1, <1>4, <2>2, <2>3, <2>4 DEF UpdateIP
<1>5. CASE pc' = "init"
  BY <1>5 DEF Reported
<1>6. CASE pc = "mark" /\ pc' = "call" /\ job' = job
  BY <1>1, <1>3, <1>6 DEF Reported
<1>7. CASE pc = "mark" /\ pc' = "update" /\ errs'
  BY <1>7 DEF Reported
<1>8. CASE pc = "store" /\ pc' = "update" /\ (~errs' => job.outcome = "ok")
  BY <1>1, <1>3, <1>4, <1>8 DEF Reported
<1> QED
  BY <1>1, <1>5, <1>6, <1>7, <1>8

LEMMA ReportedPreserved ==
  ASSUME Handlers = {}, IInv, Alone, Reported, [Next]_vars
  PROVE  Reported'
<1> USE DEF Updating
<1>1. CASE Walking
  BY <1>1, ReportedWalking
<1>2. CASE Storing
  BY <1>2, ReportedStoring
<1>3. CASE CallProvider
  BY <1>3, CallStep DEF Reported, UpdateIP
<1>4. CASE Ending \/ Boot
  BY <1>4, EndingStep DEF Down, Boot, Reported
<1>5. CASE Cancel \/ Environment \/ UNCHANGED vars
  <2>1. UNCHANGED <<dbVars, cycleVars>>
    BY <1>5, Zenon DEF Cancel, Environment, PublicChange, Tick, ClockBack, Propagate, Edit, vars
  <2> QED
    BY <2>1 DEF Reported, UpdateIP, dbVars, cycleVars
<1> QED
  BY <1>1, <1>2, <1>3, <1>4, <1>5, NextAlone

(* A cycle that reports no error has updated every record it set out to       *)
(* update: whatever fails, however often the program is stopped or killed,   *)
(* no failure is lost on the way to healthchecks.io and the ForceUpdate       *)
(* caller, as long as no settings are saved meanwhile.                       *)
THEOREM FailureReportedAlone ==
  ASSUME Handlers = {} PROVE Spec => FailureReported
<1> DEFINE Done == \A id \in toUpdate : /\ data[id].status = "success"
                                        /\ GetCurrentIP(data[id].hist) = UpdateIP(data[id].prov)
<1>1. Init => Alone /\ Reported
  BY AloneInitially DEF Init, Reported, Updating
<1>2. IInv /\ Alone /\ Reported /\ [Next]_vars => Alone' /\ Reported'
  BY AlonePreserved, ReportedPreserved
<1>3. IInv /\ Alone /\ Reported /\ [Next]_vars => [pc = "update" /\ pc' = "idle" /\ ~errs => Done]_vars
  <2> SUFFICES ASSUME IInv, Alone, Reported, [Next]_vars, pc = "update", pc' = "idle", ~errs
               PROVE  Done
    OBVIOUS
  <2>1. left = {}
    <3>1. FinishCycle
      <4>1. ~ (Storing \/ CallProvider \/ Ending \/ Boot)
        BY StoringStep, CallStep, EndingStep, Zenon DEF Working, Down, Boot
      <4>2. pc' = pc => FALSE
        OBVIOUS
      <4>3. ~ (Cancel \/ Environment \/ UNCHANGED vars)
        BY <4>2, Zenon DEF Cancel, Environment, PublicChange, Tick, ClockBack, Propagate, Edit,
                           vars, cycleVars
      <4>4. Walking
        BY <4>1, <4>3, NextAlone
      <4> QED
        BY <4>4, Zenon DEF Walking, StartCycle, FetchIP, FetchDone, Decide, DecideDone, InitSkip,
                           InitSelect, InitDone, BeginUpdate
    <3> QED
      BY <3>1 DEF FinishCycle
  <2> QED
    BY <2>1 DEF Reported, Updating
<1> QED
  BY <1>1, <1>2, <1>3, Inductive, PTL DEF Spec, FailureReported

-----------------------------------------------------------------------------
(* As long as the program is not restarted, a record without a status is one  *)
(* without a history.                                                      *)
Fresh ==
  /\ pc \notin Dead
  /\ \A i \in DOMAIN data : data[i].status = "unset" => GetCurrentIP(data[i].hist) = NoAddr
  /\ pc = "initStore" => data[job.id].status = "unset"

LEMMA FreshInitially == Init => Fresh
<1> SUFFICES ASSUME Init PROVE Fresh
  OBVIOUS
<1>1. ASSUME NEW i \in DOMAIN data PROVE GetCurrentIP(data[i].hist) = NoAddr
  <2>1. InitialConfig \in Seq(Providers) /\ data = Load(InitialConfig, NoEvents) /\ i \in 1..Len(InitialConfig)
    BY <1>1, LoadConfigured, ConfigsAssumption DEF Init
  <2>2. InitialConfig[i].key \in Keys
    BY <2>1, ProvidersAssumption DEF Provider
  <2>3. NoEvents[InitialConfig[i].key] = <<>>
    BY <2>2 DEF NoEvents
  <2>4. data[i].hist = FilterEvents(<<>>, InitialConfig[i].version)
    BY <2>1, <2>3, LoadConfigured, ConfigsAssumption DEF NewRecord
  <2>5. FilterEvents(<<>>, InitialConfig[i].version) = EmptyHistory
    BY DEF FilterEvents
  <2> QED
    BY <2>4, <2>5 DEF EmptyHistory, NoEvent, GetCurrentIP
<1> QED
  BY <1>1 DEF Init, Fresh, Dead

LEMMA FreshPreserved ==
  ASSUME Handlers = {}, {"cancel", "kill"} \cap Faults = {}, IInv, Alone, HInv, Fresh, [Next]_vars
  PROVE  Fresh'
<1>1. CASE Walking
  <2>1. pc' \notin Dead /\ data' = data
    BY <1>1, WalkingStep
  <2>2. pc' = "initStore" => data[job'.id].status = "unset"
    <3>1. CASE InitSelect
      BY <3>1, InitSelectStep
    <3>2. CASE ~InitSelect
      <4>1. pc' # "initStore"
        BY <1>1, <3>2, Zenon DEF Walking, StartCycle, FetchIP, FetchDone, Decide, DecideDone, InitSkip,
                                 InitDone, BeginUpdate, FinishCycle
      <4> QED
        BY <4>1
    <3> QED
      BY <3>1, <3>2
  <2> QED
    BY <2>1, <2>2 DEF Fresh
<1>2. CASE Storing
  <2>1. /\ pc' \in {"init", "call", "update"} /\ DOMAIN data' = DOMAIN data /\ data'[job.id] = ToStore
        /\ \A i \in DOMAIN data \ {job.id} : data'[i] = data[i]
        /\ ToStore.status # "unset"
    BY <1>2, StoringStep, ToStoreType
  <2> QED
    BY <2>1 DEF Fresh, Dead
<1>3. CASE CallProvider
  BY <1>3, CallStep DEF Fresh, Dead
<1>4. ~Ending /\ ~Boot /\ ~Cancel
  BY DEF Ending, Shutdown, Crash, Boot, Cancel, Injected, HInv, Fresh, Dead
<1>5. CASE Environment \/ UNCHANGED vars
  <2>1. UNCHANGED <<dbVars, cycleVars>>
    BY <1>5, Zenon DEF Environment, PublicChange, Tick, ClockBack, Propagate, Edit, vars
  <2> QED
    BY <2>1 DEF Fresh, dbVars, cycleVars
<1> QED
  BY <1>1, <1>2, <1>3, <1>4, <1>5, NextAlone

(* The one step that shows a record as up to date.                          *)
LEMMA ShownUpToDate ==
  ASSUME Handlers = {}, IInv, Alone, HInv, Fresh, [Next]_vars,
         {"cancel", "kill"} \cap Faults = {},
         NEW i \in DOMAIN data \cap DOMAIN data',
         data[i].status # "uptodate", data'[i].status = "uptodate"
  PROVE  job.ip \in served[data'[i].prov]
<1>1. Storing
  <2>1. ~ (Walking \/ CallProvider \/ Cancel \/ Environment \/ UNCHANGED vars)
    <3>1. data' # data
      OBVIOUS
    <3>2. ~ (Walking \/ CallProvider)
      BY <3>1, WalkingStep, CallStep
    <3>3. ~ (Cancel \/ Environment \/ UNCHANGED vars)
      BY <3>1, Zenon DEF Cancel, Environment, PublicChange, Tick, ClockBack, Propagate, Edit,
                         vars, dbVars
    <3> QED
      BY <3>2, <3>3
  <2>2. ~Ending /\ ~Boot
    BY DEF Ending, Shutdown, Crash, Boot, Injected, HInv, Fresh, Dead
  <2> QED
    BY <2>1, <2>2, NextAlone
<1>2. /\ pc \in Working /\ i = job.id /\ data'[i] = ToStore
  BY <1>1, StoringStep
<1>3. pc = "initStore" /\ job.ip # NoAddr
  <2>1. pc = "store" => ToStore.status # "uptodate"
    BY InHand DEF ToStore, Answered, Record, Working
  <2>2. pc \in {"mark", "call"} => ToStore.status # "uptodate"
    BY InHand DEF ToStore, Alone, Updating, Record, Working
  <2>3. pc = "initStore" /\ job.ip = NoAddr => ToStore.status # "uptodate"
    BY InHand DEF ToStore, Alone, InitialState, Record, Working
  <2> QED
    BY <1>2, <2>1, <2>2, <2>3 DEF Working
<1>4. GetCurrentIP(data[job.id].hist) = NoAddr
  BY <1>2, <1>3 DEF Fresh
<1>5. Observed(data[job.id].prov, job.ip) /\ ToStore.prov = data[job.id].prov
  BY <1>2, <1>3, <1>4, ToStoreType DEF HInv, CopyInHand
<1> QED
  BY <1>2, <1>3, <1>5 DEF Observed

(* Until it is told to stop, a program that shows a record as up to date has   *)
(* seen the DNS record hold that address. A restart has to be excluded: the   *)
(* history it reads back keeps a record from being looked up within the       *)
(* cooldown, and it is shown as up to date with an address nobody checked.    *)
THEOREM UpToDateHonestAlone ==
  ASSUME Handlers = {}, {"cancel", "kill"} \cap Faults = {} PROVE Spec => UpToDateHonest
<1> DEFINE Shown == \A i \in DOMAIN data \cap DOMAIN data' :
                      data[i].status # "uptodate" /\ data'[i].status = "uptodate"
                        => job.ip \in served[data'[i].prov]
<1>1. Init => Alone /\ HInv /\ Fresh
  BY AloneInitially, HInvInitially, FreshInitially
<1>2. IInv /\ Alone /\ HInv /\ Fresh /\ [Next]_vars => Alone' /\ HInv' /\ Fresh'
  BY AlonePreserved, HInvPreserved, FreshPreserved
<1>3. IInv /\ Alone /\ HInv /\ Fresh /\ [Next]_vars => [Shown]_vars
  BY ShownUpToDate
<1> QED
  BY <1>1, <1>2, <1>3, Inductive, PTL DEF Spec, UpToDateHonest
=============================================================================

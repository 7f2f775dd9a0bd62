----------------------- MODULE UpdateDurabilityProofs -----------------------
(***************************************************************************)
(* What updates.json is worth: which events it holds, that the program      *)
(* starts from it with the records it had in memory, and that a provider    *)
(* is left alone for as long as its cooldown or its ban lasts.              *)
(***************************************************************************)
EXTENDS UpdateCycleProofs

(* Every write of updates.json succeeds, and no kill falls within one.       *)
WholeWrites == "write" \notin Faults /\ ~ ({"kill", "tear"} \subseteq Faults)

(* The file is what the memory encodes to: a wall clock reading per event.   *)
InSync ==
  /\ disk # Torn
  /\ \A k \in Keys : \A i \in DOMAIN disk[k] : disk[k][i].mono = NoTime
  /\ pc \notin Dead => disk = Encoded(persist)

LEMMA EncodedPlain ==
  ASSUME NEW events \in [Keys -> Seq(Event)]
  PROVE  /\ \A k \in Keys : \A i \in DOMAIN Encoded(events)[k] : Encoded(events)[k][i].mono = NoTime
         /\ (\A k \in Keys : \A i \in DOMAIN events[k] : events[k][i].mono = NoTime)
              => Encoded(events) = events
<1>1. \A k \in Keys : \A i \in DOMAIN events[k] : [events[k][i] EXCEPT !.mono = NoTime].mono = NoTime
  BY DEF Event
<1>2. \A k \in Keys : \A i \in DOMAIN Encoded(events)[k] : Encoded(events)[k][i].mono = NoTime
  BY <1>1 DEF Encoded
<1>3. ASSUME \A k \in Keys : \A i \in DOMAIN events[k] : events[k][i].mono = NoTime
      PROVE  Encoded(events) = events
  <2>1. ASSUME NEW k \in Keys
        PROVE  [i \in DOMAIN events[k] |-> [events[k][i] EXCEPT !.mono = NoTime]] = events[k]
    <3>1. events[k] \in Seq(Event)
      OBVIOUS
    <3>2. ASSUME NEW i \in DOMAIN events[k]
          PROVE  [events[k][i] EXCEPT !.mono = NoTime] = events[k][i]
      <4>1. events[k][i] \in Event /\ events[k][i].mono = NoTime
        BY <1>3, <3>1
      <4> QED
        BY <4>1 DEF Event
    <3> QED
      BY <3>1, <3>2
  <2> QED
    BY <2>1 DEF Encoded
<1> QED
  BY <1>2, <1>3

LEMMA AppendFacts ==
  ASSUME NEW s \in Seq(Event), NEW e \in Event
  PROVE  /\ Append(s, e) \in Seq(Event) /\ DOMAIN Append(s, e) = DOMAIN s \cup {Len(s) + 1}
         /\ Len(s) + 1 \notin DOMAIN s
         /\ \A i \in DOMAIN s : Append(s, e)[i] = s[i]
         /\ Append(s, e)[Len(s) + 1] = e
OBVIOUS

LEMMA NoEventsPlain ==
  /\ Encoded(NoEvents) = NoEvents
  /\ \A k \in Keys : NoEvents[k] = <<>>
<1>1. \A k \in Keys : NoEvents[k] = <<>>
  BY DEF NoEvents
<1> QED
  BY <1>1, NoEventsType, EncodedPlain

(* Every step there is.                                                     *)
LEMMA NextAny ==
  ASSUME [Next]_vars
  PROVE  \/ Walking \/ Storing \/ CallProvider \/ Panic \/ Ending \/ Boot \/ Cancel
         \/ Environment \/ (\E h \in Handlers : ReloadRead(h) \/ ReloadSwap(h)) \/ UNCHANGED vars
BY Zenon DEF Next, Cycle, Process, Walking, Storing, Ending

(* A step that stores a record does so with Database.Update, or finds that    *)
(* the record is gone.                                                     *)
LEMMA StoringAny ==
  ASSUME IInv, Storing
  PROVE  /\ pc \notin Dead /\ pc' \notin Dead
         /\ \/ \E rec \in Record : \E w \in WriteOutcomes :
                 job.id \in DOMAIN data /\ DbUpdate(job.id, rec, w)
            \/ UNCHANGED <<data, persist, disk>>
<1>1. pc \in Working /\ pc \notin Dead /\ pc' \notin Dead
  BY DEF Storing, InitStore, MarkUpdating, StoreResult, Working, Dead
<1>2. job \in Job /\ job.rec \in Record /\ job.id \in Id
  BY <1>1 DEF IInv, CycleShape, Job
<1>3. pc = "store" => Answered(job.rec, job.outcome, job.ip) \in Record
  <2>1. pc = "store" => job.ip \in Addrs /\ job.outcome \in {"ok", "failed", "banned"}
    BY <1>2 DEF IInv, CycleShape, Job
  <2> QED
    BY <1>2, <2>1, AnsweredType DEF IInv
<1>4. \/ \E rec \in Record : \E w \in WriteOutcomes : Access(job.id) = "ok" /\ DbUpdate(job.id, rec, w)
      \/ UNCHANGED <<data, persist, disk>>
  <2>1. CASE InitStore
    BY <1>2, <2>1, Zenon DEF InitStore
  <2>2. CASE MarkUpdating
    BY <1>2, <2>2, Zenon DEF MarkUpdating
  <2>3. CASE StoreResult
    <3>1. Answered(job.rec, job.outcome, job.ip) \in Record
      BY <1>3, <2>3 DEF StoreResult
    <3> QED
      BY <2>3, <3>1, Zenon DEF StoreResult
  <2> QED
    BY <2>1, <2>2, <2>3 DEF Storing
<1>5. Access(job.id) = "ok" => job.id \in DOMAIN data
  BY <1>2, AccessType DEF IInv, TypeOK
<1> QED
  BY <1>1, <1>4, <1>5

(* What a step does to the events, in memory and in the file.                *)
Recording(k, e) ==
  /\ persist' = [persist EXCEPT ![k] = Append(persist[k], e)]
  /\ disk' = Encoded(persist')

LEMMA EventStep ==
  ASSUME WholeWrites, IInv, [Next]_vars
  PROVE  \/ UNCHANGED <<persist, disk>> /\ (pc \in Dead => pc' \in Dead)
         \/ pc' \in Dead /\ disk' = disk
         \/ pc \in Dead /\ pc' = "idle" /\ persist' = disk /\ disk' = disk
         \/ pc \notin Dead /\ pc' \notin Dead /\ \E k \in Keys : \E e \in Event : Recording(k, e)
<1> DEFINE Goal ==
         \/ UNCHANGED <<persist, disk>> /\ (pc \in Dead => pc' \in Dead)
         \/ pc' \in Dead /\ disk' = disk
         \/ pc \in Dead /\ pc' = "idle" /\ persist' = disk /\ disk' = disk
         \/ pc \notin Dead /\ pc' \notin Dead /\ \E k \in Keys : \E e \in Event : Recording(k, e)
<1>1. CASE Walking
  BY <1>1, WalkingStep
<1>2. CASE Storing
  <2>1. CASE UNCHANGED <<data, persist, disk>>
    BY <1>2, <2>1, StoringAny
  <2>2. CASE ~ UNCHANGED <<data, persist, disk>>
    <3>1. PICK rec \in Record, w \in WriteOutcomes : job.id \in DOMAIN data /\ DbUpdate(job.id, rec, w)
      BY <1>2, <2>2, StoringAny
    <3>2. w = "written"
      BY <3>1 DEF WriteOutcomes, WholeWrites
    <3>3. CASE Grows(job.id, rec)
      <4>1. rec.hist.last \in Event /\ rec.prov.key \in Keys
        BY <3>1, <3>3, GrowsMeansEvent DEF IInv, TypeOK, Record, Provider
      <4>2. Recording(rec.prov.key, rec.hist.last)
        BY <3>1, <3>2, <3>3 DEF DbUpdate, Appended, Written, Recording
      <4> QED
        BY <1>2, <4>1, <4>2, StoringAny
    <3>4. CASE ~Grows(job.id, rec)
      BY <1>2, <3>1, <3>4, StoringAny DEF DbUpdate
    <3> QED
      BY <3>3, <3>4
  <2> QED
    BY <2>1, <2>2
<1>3. CASE CallProvider
  BY <1>3 DEF CallProvider, dbVars, Dead
<1>4. CASE Panic
  <2>1. pc' = "panicked" /\ disk' = disk
    BY <1>4, Zenon DEF Panic, Down
  <2> QED
    BY <2>1 DEF Dead
<1>5. CASE Ending
  <2>1. pc' = "down" /\ (disk' = disk \/ ("kill" \in Faults /\ "tear" \in Faults))
    BY <1>5, Zenon DEF Ending, Shutdown, Crash, Down, Injected
  <2> QED
    BY <2>1 DEF Dead, WholeWrites
<1>6. CASE Boot
  BY <1>6 DEF Boot, Dead
<1>7. CASE Cancel \/ Environment \/ UNCHANGED vars
  <2>1. UNCHANGED <<pc, persist, disk>>
    BY <1>7, Zenon DEF Cancel, Environment, PublicChange, Tick, ClockBack, Propagate, Edit,
                       vars, dbVars, cycleVars
  <2> QED
    BY <2>1
<1>8. CASE \E h \in Handlers : ReloadRead(h) \/ ReloadSwap(h)
  <2>1. UNCHANGED <<pc, persist, disk>>
    BY <1>8, Zenon DEF ReloadRead, ReloadSwap, cycleVars
  <2> QED
    BY <2>1
<1> QED
  BY <1>1, <1>2, <1>3, <1>4, <1>5, <1>6, <1>7, <1>8, NextAny

LEMMA RecordingType ==
  ASSUME TypeOK, NEW k \in Keys, NEW e \in Event, Recording(k, e)
  PROVE  /\ persist' \in [Keys -> Seq(Event)]
         /\ persist'[k] = Append(persist[k], e)
         /\ \A m \in Keys \ {k} : persist'[m] = persist[m]
BY DEF TypeOK, Recording

(* In the file the event is appended too, with its wall clock reading only.   *)
LEMMA RecordedOnDisk ==
  ASSUME TypeOK, InSync, pc \notin Dead, NEW k \in Keys, NEW e \in Event, Recording(k, e)
  PROVE  /\ disk \in [Keys -> Seq(Event)] /\ disk' \in [Keys -> Seq(Event)]
         /\ [e EXCEPT !.mono = NoTime] \in Event
         /\ disk'[k] = Append(disk[k], [e EXCEPT !.mono = NoTime])
         /\ \A m \in Keys \ {k} : disk'[m] = disk[m]
<1> DEFINE x == [e EXCEPT !.mono = NoTime]
<1>1. /\ persist \in [Keys -> Seq(Event)] /\ persist' \in [Keys -> Seq(Event)]
      /\ persist'[k] = Append(persist[k], e)
      /\ \A m \in Keys \ {k} : persist'[m] = persist[m]
  BY RecordingType DEF TypeOK
<1>2. disk = Encoded(persist) /\ disk' = Encoded(persist')
  BY DEF InSync, Recording
<1>3. disk \in [Keys -> Seq(Event)] /\ disk' \in [Keys -> Seq(Event)] /\ x \in Event
  BY <1>1, <1>2, EncodedType, EncodedEvent
<1>4. \A m \in Keys \ {k} : disk'[m] = disk[m]
  BY <1>1, <1>2 DEF Encoded
<1>5. disk'[k] = Append(disk[k], x)
  <2> DEFINE s == persist[k]
             t == persist'[k]
  <2>1. /\ disk[k] = [i \in DOMAIN s |-> [s[i] EXCEPT !.mono = NoTime]]
        /\ disk'[k] = [i \in DOMAIN t |-> [t[i] EXCEPT !.mono = NoTime]]
    BY <1>1, <1>2 DEF Encoded
  <2>2. /\ s \in Seq(Event) /\ t = Append(s, e) /\ disk[k] \in Seq(Event)
        /\ Len(disk[k]) = Len(s) /\ DOMAIN disk[k] = DOMAIN s
    <3>1. s \in Seq(Event) /\ t = Append(s, e) /\ disk[k] \in Seq(Event)
      BY <1>1, <1>3
    <3>2. DOMAIN disk[k] = DOMAIN s
      BY <2>1
    <3> HIDE DEF s, t
    <3> QED
      BY <3>1, <3>2
  <2> HIDE DEF s, t, x
  <2>3. /\ DOMAIN t = DOMAIN s \cup {Len(s) + 1} /\ t[Len(s) + 1] = e
        /\ \A i \in DOMAIN s : t[i] = s[i]
        /\ Len(s) + 1 \notin DOMAIN s
    BY <2>2, AppendFacts
  <2>4. /\ DOMAIN Append(disk[k], x) = DOMAIN t /\ Append(disk[k], x)[Len(s) + 1] = x
        /\ \A i \in DOMAIN s : Append(disk[k], x)[i] = disk[k][i]
    BY <1>3, <2>2, <2>3, AppendFacts
  <2>5. DOMAIN disk'[k] = DOMAIN t
    BY <2>1
  <2>6. \A i \in DOMAIN t : disk'[k][i] = Append(disk[k], x)[i]
    <3>1. disk'[k][Len(s) + 1] = x
      BY <2>1, <2>3 DEF x
    <3>2. \A i \in DOMAIN s : disk'[k][i] = disk[k][i]
      BY <2>1, <2>3
    <3> QED
      BY <2>3, <2>4, <3>1, <3>2
  <2>7. disk'[k] \in Seq(Event) /\ Append(disk[k], x) \in Seq(Event)
    BY <1>3, <2>2
  <2> QED
    BY <2>4, <2>5, <2>6, <2>7
<1> QED
  BY <1>3, <1>4, <1>5

LEMMA FilesDiffer ==
  ASSUME NEW events \in [Keys -> Seq(Event)]
  PROVE  events # Torn
<1>1. DOMAIN events = Keys /\ DOMAIN Torn = {}
  BY DEF Torn
<1> QED
  BY <1>1, KeysAssumption

LEMMA InSyncInitially == Init => InSync
<1>1. Init => disk = NoEvents /\ disk = Encoded(persist)
  BY NoEventsPlain DEF Init
<1> QED
  BY <1>1, NoEventsPlain, NoEventsType, FilesDiffer DEF InSync, Init

LEMMA InSyncPreserved ==
  ASSUME WholeWrites, IInv, InSync, [Next]_vars
  PROVE  InSync'
<1>1. CASE UNCHANGED <<persist, disk>> /\ (pc \in Dead => pc' \in Dead)
  BY <1>1 DEF InSync, Encoded
<1>2. CASE pc' \in Dead /\ disk' = disk
  BY <1>2 DEF InSync
<1>3. CASE pc \in Dead /\ pc' = "idle" /\ persist' = disk /\ disk' = disk
  <2>1. disk \in [Keys -> Seq(Event)]
    BY DEF InSync, IInv, TypeOK
  <2>2. Encoded(disk) = disk
    BY <2>1, EncodedPlain DEF InSync
  <2>3. Encoded(persist') = disk'
    BY <1>3, <2>2
  <2> QED
    BY <1>3, <2>3 DEF InSync, Encoded
<1>4. ASSUME NEW k \in Keys, NEW e \in Event, Recording(k, e) PROVE InSync'
  <2>1. persist' \in [Keys -> Seq(Event)]
    BY <1>4, RecordingType DEF IInv
  <2>2. Encoded(persist') \in [Keys -> Seq(Event)] /\ disk' = Encoded(persist')
    BY <1>4, <2>1, EncodedType DEF Recording
  <2>3. \A m \in Keys : \A i \in DOMAIN disk'[m] : disk'[m][i].mono = NoTime
    BY <2>1, <2>2, EncodedPlain
  <2>4. disk' # Torn
    BY <2>2, FilesDiffer
  <2> QED
    BY <2>2, <2>3, <2>4 DEF InSync, Encoded
<1> QED
  BY <1>1, <1>2, <1>3, <1>4, EventStep

(* Events that reached updates.json are never lost from it, whatever is       *)
(* configured, saved, stopped or restarted, as long as every write of the     *)
(* file succeeds and no kill falls within one: either empties the file        *)
(* first, and its history is gone.                                          *)
THEOREM DurableHistoryHolds ==
  ASSUME WholeWrites PROVE Spec => DurableHistory
<1> DEFINE Longer == disk # Torn /\ disk' # Torn
                      /\ \A k \in Keys : SubSeq(disk'[k], 1, Len(disk[k])) = disk[k]
<1>1. IInv /\ InSync /\ [Next]_vars => InSync'
  BY InSyncPreserved
<1>2. IInv /\ InSync /\ InSync' /\ [Next]_vars => [Longer]_disk
  <2> SUFFICES ASSUME IInv, InSync, InSync', [Next]_vars, disk' # disk PROVE Longer
    OBVIOUS
  <2>1. PICK k \in Keys, e \in Event : Recording(k, e) /\ pc \notin Dead
    BY EventStep
  <2> DEFINE x == [e EXCEPT !.mono = NoTime]
  <2>2. /\ disk \in [Keys -> Seq(Event)] /\ x \in Event
        /\ disk'[k] = Append(disk[k], x)
        /\ \A m \in Keys \ {k} : disk'[m] = disk[m]
    BY <2>1, RecordedOnDisk DEF IInv
  <2> HIDE DEF x
  <2>3. \A s \in Seq(Event) : SubSeq(s, 1, Len(s)) = s /\ SubSeq(Append(s, x), 1, Len(s)) = s
    BY <2>2
  <2>4. ASSUME NEW m \in Keys PROVE SubSeq(disk'[m], 1, Len(disk[m])) = disk[m]
    BY <2>2, <2>3
  <2> QED
    BY <2>4 DEF InSync
<1> QED
  BY <1>1, <1>2, InSyncInitially, Inductive, PTL DEF Spec, DurableHistory

-----------------------------------------------------------------------------
(* Without settings requests, the event a step adds is the one of the record *)
(* in hand.                                                                *)
LEMMA StoringEvent ==
  ASSUME WholeWrites, IInv, Alone, Storing
  PROVE  /\ Grows(job.id, ToStore) => /\ Recording(ToStore.prov.key, NewEvent)
                                      /\ ToStore.prov.key \in Keys /\ NewEvent \in Event
         /\ ~Grows(job.id, ToStore) => UNCHANGED <<persist, disk>>
<1>1. PICK w \in WriteOutcomes : DbUpdate(job.id, ToStore, w)
  BY StoringStep
<1>2. w = "written" /\ pc \in Working
  BY StoringStep DEF WriteOutcomes, WholeWrites
<1>3. ToStore.prov.key \in Keys
  BY <1>2, ToStoreType DEF Record, Provider
<1>4. Grows(job.id, ToStore) => ToStore.hist.last = NewEvent /\ NewEvent \in Event
  BY <1>2, ToStoreHistory
<1> QED
  BY <1>1, <1>2, <1>3, <1>4 DEF DbUpdate, Appended, Written, Recording

(* How a walking step gets to the first loop, where the stamp is used.       *)
LEMMA StampStep ==
  ASSUME Walking, pc' \in {"init", "initStore"}
  PROVE  stamp' = Clock \/ (pc = "init" /\ stamp' = stamp)
BY Zenon DEF Walking, StartCycle, FetchIP, FetchDone, Decide, DecideDone, InitSkip, InitSelect,
       InitDone, BeginUpdate, FinishCycle

(* The file is in order, nothing in it is later than the wall clock, and the  *)
(* events the first loop adds carry a time no earlier than those before.     *)
Chronological ==
  /\ pc # "refused"
  /\ \A k \in Keys : Ordered(disk[k]) /\ \A i \in DOMAIN disk[k] : disk[k][i].wall <= wall
  /\ pc \in {"init", "initStore"} =>
       /\ stamp.wall <= wall
       /\ \A k \in Keys : \A i \in DOMAIN disk[k] : disk[k][i].wall <= stamp.wall

LEMMA ChronologicalInitially == Init => Chronological
BY DEF Init, NoEvents, Chronological, Ordered

LEMMA ChronologicalStoring ==
  ASSUME WholeWrites, IInv, Alone, InSync, Chronological, Storing
  PROVE  Chronological'
<1>1. /\ UNCHANGED <<wall, stamp>> /\ pc \in Working
      /\ pc' \in {"init", "call", "update"} /\ (pc' = "init" => pc = "initStore")
  BY StoringStep
<1>2. CASE ~Grows(job.id, ToStore)
  BY <1>1, <1>2, StoringEvent DEF Chronological
<1>3. CASE Grows(job.id, ToStore)
  <2> DEFINE k == ToStore.prov.key
             x == [NewEvent EXCEPT !.mono = NoTime]
  <2>1. pc \notin Dead /\ k \in Keys /\ NewEvent \in Event /\ Recording(k, NewEvent)
    BY <1>1, <1>3, StoringEvent DEF Working, Dead
  <2>2. /\ disk \in [Keys -> Seq(Event)] /\ x \in Event
        /\ disk'[k] = Append(disk[k], x)
        /\ \A m \in Keys \ {k} : disk'[m] = disk[m]
    BY <2>1, RecordedOnDisk DEF IInv
  <2>3. x.wall = IF pc = "store" THEN wall ELSE stamp.wall
    BY <2>1 DEF NewEvent, Event
  <2>4. pc = "initStore" \/ pc = "store"
    BY <1>1, <1>3, ToStoreHistory
  <2>5. wall \in Nat /\ stamp.wall \in Nat /\ x.wall \in Nat
    BY <2>2 DEF IInv, TypeOK, Event
  <2>6. x.wall <= wall /\ \A i \in DOMAIN disk[k] : disk[k][i].wall <= x.wall
    BY <2>1, <2>3, <2>4, <2>5 DEF Chronological
  <2> HIDE DEF k, x
  <2>7. disk[k] \in Seq(Event) /\ Ordered(disk[k])
        /\ \A i \in DOMAIN disk[k] : disk[k][i].wall \in Nat /\ disk[k][i].wall <= wall
    <3>1. disk[k] \in Seq(Event) /\ Ordered(disk[k])
      BY <2>1, <2>2 DEF Chronological, k
    <3>2. ASSUME NEW i \in DOMAIN disk[k] PROVE disk[k][i].wall \in Nat /\ disk[k][i].wall <= wall
      <4>1. disk[k][i] \in Event /\ k \in Keys
        BY <2>1, <3>1
      <4> QED
        BY <4>1 DEF Event, Chronological
    <3> QED
      BY <3>1, <3>2
  <2>8. /\ DOMAIN disk'[k] = DOMAIN disk[k] \cup {Len(disk[k]) + 1}
        /\ disk'[k][Len(disk[k]) + 1] = x
        /\ \A i \in DOMAIN disk[k] : disk'[k][i] = disk[k][i]
    BY <2>2, <2>7, AppendFacts
  <2>9. Ordered(disk'[k]) /\ \A i \in DOMAIN disk'[k] : disk'[k][i].wall <= wall
    <3>1. \A i \in DOMAIN disk[k] : i < Len(disk[k]) + 1
      BY <2>7
    <3> QED
      BY <2>5, <2>6, <2>7, <2>8, <3>1 DEF Ordered
  <2>10. pc = "initStore" => \A i \in DOMAIN disk'[k] : disk'[k][i].wall <= stamp.wall
    BY <2>1, <2>3, <2>5, <2>8 DEF Chronological
  <2> QED
    BY <1>1, <2>2, <2>9, <2>10 DEF Chronological
<1> QED
  BY <1>2, <1>3

LEMMA ChronologicalPreserved ==
  ASSUME Handlers = {}, WholeWrites, "clock" \notin Faults,
         IInv, Alone, InSync, Chronological, [Next]_vars
  PROVE  Chronological'
<1>1. CASE Walking
  <2>1. disk' = disk /\ wall' = wall /\ pc' # "refused"
    BY <1>1, WalkingStep DEF Dead
  <2>2. CASE pc' \in {"init", "initStore"}
    <3>1. stamp' = Clock \/ (pc = "init" /\ stamp' = stamp)
      BY <1>1, <2>2, StampStep
    <3>2. wall <= wall /\ Clock.wall = wall
      BY DEF IInv, TypeOK, Clock
    <3> QED
      BY <2>1, <3>1, <3>2 DEF Chronological
  <2> QED
    BY <2>1, <2>2 DEF Chronological
<1>2. CASE Storing
  BY <1>2, ChronologicalStoring
<1>3. CASE CallProvider
  BY <1>3, CallStep DEF Chronological
<1>4. CASE Ending
  <2>1. pc' = "down" /\ disk' = disk /\ wall' = wall
    BY <1>4, Zenon DEF Ending, Shutdown, Crash, Down, Injected, WholeWrites, envVars
  <2> QED
    BY <2>1 DEF Chronological
<1>5. CASE Boot
  <2>1. Accepted(disk)
    BY DEF Accepted, InSync, Chronological
  <2>2. pc' = "idle" /\ UNCHANGED <<disk, wall>>
    BY <1>5, <2>1 DEF Boot, envVars
  <2> QED
    BY <2>2 DEF Chronological
<1>6. CASE Cancel \/ UNCHANGED vars
  <2>1. UNCHANGED <<pc, disk, wall, stamp>>
    BY <1>6 DEF Cancel, vars, envVars, dbVars, cycleVars
  <2> QED
    BY <2>1 DEF Chronological
<1>7. CASE Environment
  <2>1. UNCHANGED <<pc, disk, stamp>>
    BY <1>7, Zenon DEF Environment, PublicChange, Tick, ClockBack, Propagate, Edit, dbVars, cycleVars
  <2>2. wall' = wall \/ wall' = wall + 1
    BY <1>7, Zenon DEF Environment, PublicChange, Tick, ClockBack, Propagate, Edit, Injected
  <2>3. wall \in Nat /\ stamp.wall \in Nat
    BY DEF IInv, TypeOK
  <2>4. \A k \in Keys : \A i \in DOMAIN disk[k] : disk[k][i].wall \in Nat
    <3>1. disk \in [Keys -> Seq(Event)]
      BY DEF IInv, TypeOK, InSync
    <3>2. ASSUME NEW k \in Keys, NEW i \in DOMAIN disk[k] PROVE disk[k][i].wall \in Nat
      <4>1. disk[k][i] \in Event
        BY <3>1
      <4> QED
        BY <4>1 DEF Event
    <3> QED
      BY <3>2
  <2> QED
    BY <2>1, <2>2, <2>3, <2>4 DEF Chronological
<1> QED
  BY <1>1, <1>2, <1>3, <1>4, <1>5, <1>6, <1>7, NextAlone

(* The program accepts the file it wrote (checkHistoryEvents), whenever it is *)
(* stopped, killed between two writes and started again. TLC shows it refuse  *)
(* a torn file, one written across a clock correction                        *)
(* (UpdateCycle_v_clock.cfg), and one written while the entries were          *)
(* reordered, which the hypotheses exclude in this order.                    *)
THEOREM StartupAcceptedHolds ==
  ASSUME Handlers = {}, WholeWrites, "clock" \notin Faults PROVE Spec => []StartupAccepted
<1>1. Init => Alone /\ InSync /\ Chronological
  BY AloneInitially, InSyncInitially, ChronologicalInitially
<1>2. IInv /\ Alone /\ InSync /\ Chronological /\ [Next]_vars => Alone' /\ InSync' /\ Chronological'
  BY AlonePreserved, InSyncPreserved, ChronologicalPreserved
<1>3. Chronological => StartupAccepted
  BY DEF Chronological, StartupAccepted
<1> QED
  BY <1>1, <1>2, <1>3, Inductive, PTL DEF Spec
-----------------------------------------------------------------------------
(* No two entries of a configuration share the events of one address family. *)
Apart ==
  \A c \in Configs : \A i, j \in DOMAIN c :
    i # j /\ c[i].key = c[j].key =>
      \A a \in Addrs : ~(MatchesVersion(a, c[i].version) /\ MatchesVersion(a, c[j].version))

(* The history of a record is what the persisted events amount to for it.    *)
Loaded ==
  \A i \in DOMAIN data : data[i].hist = FilterEvents(persist[data[i].prov.key], data[i].prov.version)

LEMMA RecordFacts ==
  ASSUME TypeOK, NEW i \in DOMAIN data
  PROVE  /\ data[i] \in Record /\ data[i].hist \in History /\ data[i].ban \in Nat \cup {NoTime}
         /\ data[i].prov.key \in Keys /\ data[i].prov.version \in Versions
<1>1. data \in Seq(Record)
  BY DEF TypeOK
<1>2. data[i] \in Record
  BY <1>1
<1> QED
  BY <1>2 DEF Record, Provider

LEMMA LoadLoads ==
  ASSUME NEW c \in Configs, NEW events, data' = Load(c, events), persist' = events
  PROVE  Loaded'
<1>1. \A i \in DOMAIN data' : data'[i] = NewRecord(c[i], FilterEvents(events[c[i].key], c[i].version))
  BY LoadConfigured
<1> QED
  BY <1>1 DEF Loaded, NewRecord

LEMMA LoadedInitially == Init => Loaded
<1> SUFFICES ASSUME Init PROVE Loaded
  OBVIOUS
<1>1. data = Load(InitialConfig, NoEvents) /\ persist = NoEvents /\ InitialConfig \in Configs
  BY ConfigsAssumption DEF Init
<1>2. \A i \in DOMAIN data : data[i] =
        NewRecord(InitialConfig[i], FilterEvents(NoEvents[InitialConfig[i].key], InitialConfig[i].version))
  BY <1>1, LoadConfigured
<1> QED
  BY <1>1, <1>2 DEF Loaded, NewRecord

LEMMA LoadedStoring ==
  ASSUME Apart, IInv, Alone, Loaded, Storing
  PROVE  Loaded'
<1>1. /\ pc \in Working
      /\ DOMAIN data' = DOMAIN data /\ data'[job.id] = ToStore
      /\ \A i \in DOMAIN data \ {job.id} : data'[i] = data[i]
  BY StoringStep
<1>2. PICK w \in WriteOutcomes : DbUpdate(job.id, ToStore, w)
  BY StoringStep
<1>3. /\ job.id \in DOMAIN data /\ data[job.id] \in Record
      /\ ToStore \in Record /\ ToStore.prov = data[job.id].prov
  BY <1>1, InHand, ToStoreType
<1>4. CASE ~Grows(job.id, ToStore)
  <2>1. persist' = persist /\ ToStore.hist = data[job.id].hist
    BY <1>1, <1>2, <1>4, ToStoreHistory DEF DbUpdate
  <2> QED
    BY <1>1, <1>3, <2>1 DEF Loaded
<1>5. CASE Grows(job.id, ToStore)
  <2> DEFINE p == ToStore.prov
             e == NewEvent
  <2>1. /\ ToStore.hist = Extend(data[job.id].hist, e) /\ e \in Event
        /\ ToStore.hist.last = e /\ e.ip = job.ip /\ job.ip # NoAddr
    BY <1>1, <1>5, ToStoreHistory
  <2>2. p.key \in Keys /\ p.version \in Versions
    BY <1>3 DEF Record, Provider
  <2>3. /\ persist \in [Keys -> Seq(Event)]
        /\ persist'[p.key] = Append(persist[p.key], e)
        /\ \A k \in Keys \ {p.key} : persist'[k] = persist[k]
    BY <1>2, <1>5, <2>1, <2>2 DEF DbUpdate, Appended, IInv, TypeOK
  <2>4. MatchesVersion(e.ip, p.version)
    BY <1>1, <1>3, <2>1, CopyFits, InHand
  <2> HIDE DEF e, p
  <2>5. \A v \in Versions : FilterEvents(persist'[p.key], v) =
          IF MatchesVersion(e.ip, v) THEN Extend(FilterEvents(persist[p.key], v), e)
          ELSE FilterEvents(persist[p.key], v)
    BY <2>1, <2>2, <2>3, FilterEventsAppend
  <2>6. data'[job.id].hist = FilterEvents(persist'[p.key], p.version)
    BY <1>1, <1>3, <2>1, <2>2, <2>4, <2>5 DEF Loaded, p
  <2>7. ASSUME NEW i \in DOMAIN data, i # job.id
        PROVE  data'[i].hist = FilterEvents(persist'[data'[i].prov.key], data'[i].prov.version)
    <3> DEFINE q == data[i].prov
    <3>1. data'[i] = data[i] /\ q.key \in Keys /\ q.version \in Versions
      BY <1>1, <2>7, RecordFacts DEF IInv
    <3>2. CASE q.key # p.key
      BY <2>3, <3>1, <3>2 DEF Loaded
    <3>3. CASE q.key = p.key
      <4>1. /\ q = config[i] /\ p = config[job.id] /\ config \in Configs
            /\ i \in DOMAIN config /\ job.id \in DOMAIN config
        <5>1. DOMAIN data = DOMAIN config
          BY <1>1 DEF Alone, Working, Dead, IInv, TypeOK, ConfigsAssumption
        <5> QED
          BY <1>3, <5>1 DEF Alone, IInv, TypeOK, p
      <4>2. ~MatchesVersion(e.ip, q.version)
        BY <2>1, <2>4, <2>7, <3>3, <4>1 DEF Apart, Event
      <4> QED
        BY <2>5, <3>1, <3>3, <4>2 DEF Loaded
    <3> QED
      BY <3>2, <3>3
  <2> QED
    BY <1>1, <1>3, <2>6, <2>7 DEF Loaded, p
<1> QED
  BY <1>4, <1>5

LEMMA LoadedPreserved ==
  ASSUME Handlers = {}, Apart, IInv, Alone, Loaded, [Next]_vars
  PROVE  Loaded'
<1>1. CASE Walking
  BY <1>1, WalkingStep DEF Loaded
<1>2. CASE Storing
  BY <1>2, LoadedStoring
<1>3. CASE CallProvider
  BY <1>3, CallStep DEF Loaded
<1>4. CASE Ending
  <2>1. data' = <<>>
    BY <1>4, EndingStep DEF Down
  <2> QED
    BY <2>1 DEF Loaded
<1>5. CASE Boot
  <2>1. CASE Accepted(disk)
    <3>1. data' = Load(config, disk) /\ persist' = disk /\ config \in Configs
      BY <1>5, <2>1 DEF Boot, IInv, TypeOK
    <3> QED
      BY <3>1, LoadLoads
  <2>2. CASE ~Accepted(disk)
    BY <1>5, <2>2 DEF Boot, Loaded
  <2> QED
    BY <2>1, <2>2
<1>6. CASE Cancel \/ Environment \/ UNCHANGED vars
  <2>1. UNCHANGED <<data, persist>>
    BY <1>6, Zenon DEF Cancel, Environment, PublicChange, Tick, ClockBack, Propagate, Edit,
                       vars, dbVars
  <2> QED
    BY <2>1 DEF Loaded
<1> QED
  BY <1>1, <1>2, <1>3, <1>4, <1>5, <1>6, NextAlone

(* Reading back the events of a domain gives the history they were.          *)
LEMMA FilterEventsEncoded ==
  ASSUME NEW events \in [Keys -> Seq(Event)], NEW k \in Keys, NEW v \in Versions
  PROVE  OnDisk(FilterEvents(Encoded(events)[k], v)) = OnDisk(FilterEvents(events[k], v))
<1> DEFINE s == events[k]
           t == Encoded(events)[k]
           kept == {i \in DOMAIN s : MatchesVersion(s[i].ip, v)}
<1>1. s \in Seq(Event) /\ t \in Seq(Event)
  BY EncodedType
<1>2. DOMAIN t = DOMAIN s /\ \A i \in DOMAIN s : t[i] = [s[i] EXCEPT !.mono = NoTime]
  BY DEF Encoded
<1>3. \A i \in DOMAIN s : s[i] \in Event
  BY <1>1
<1>4. \A i \in DOMAIN s : t[i].ip = s[i].ip
  BY <1>2, <1>3 DEF Event
<1> HIDE DEF s, t
<1>5. kept = {i \in DOMAIN t : MatchesVersion(t[i].ip, v)}
  BY <1>2, <1>4
<1> HIDE DEF kept
<1>6. CASE kept = {}
  <2>1. FilterEvents(s, v) = EmptyHistory
    BY <1>1, <1>6, FilterEventsIs DEF kept
  <2>2. FilterEvents(t, v) = EmptyHistory
    BY <1>1, <1>5, <1>6, FilterEventsIs
  <2> QED
    BY <2>1, <2>2 DEF s, t
<1>7. CASE kept # {}
  <2>1. PICK i \in kept : \A j \in kept : j <= i
    BY <1>1, <1>7, FilterEventsIs DEF kept
  <2>2. FilterEvents(s, v) = [count |-> Cardinality(kept), last |-> s[i]]
    BY <1>1, <2>1, FilterEventsIs DEF kept
  <2>3. FilterEvents(t, v) = [count |-> Cardinality(kept), last |-> t[i]]
    BY <1>1, <1>5, <2>1, FilterEventsIs
  <2>4. i \in DOMAIN s /\ t[i] = [s[i] EXCEPT !.mono = NoTime] /\ s[i] \in Event
    BY <1>2, <1>3, <2>1 DEF kept
  <2>5. [t[i] EXCEPT !.mono = NoTime] = [s[i] EXCEPT !.mono = NoTime]
    BY <2>4 DEF Event
  <2>6. \A n, x : OnDisk([count |-> n, last |-> x]) = [count |-> n, last |-> [x EXCEPT !.mono = NoTime]]
    <3> TAKE n, x
    <3> DEFINE y == [x EXCEPT !.mono = NoTime]
    <3>1. [[count |-> n, last |-> x] EXCEPT !.last = y] = [count |-> n, last |-> y]
      <4> HIDE DEF y
      <4> QED
        OBVIOUS
    <3>2. [count |-> n, last |-> x].last = x
      OBVIOUS
    <3> QED
      BY <3>1, <3>2, Zenon DEF OnDisk
  <2>7. OnDisk(FilterEvents(s, v)) = OnDisk(FilterEvents(t, v))
    <3>1. OnDisk(FilterEvents(s, v)) = [count |-> Cardinality(kept), last |-> [s[i] EXCEPT !.mono = NoTime]]
      BY <2>2, <2>6, Zenon
    <3>2. OnDisk(FilterEvents(t, v)) = [count |-> Cardinality(kept), last |-> [t[i] EXCEPT !.mono = NoTime]]
      BY <2>3, <2>6, Zenon
    <3> QED
      BY <2>5, <3>1, <3>2, Zenon
  <2> QED
    BY <2>7 DEF s, t
<1> QED
  BY <1>6, <1>7

(* Between cycles the records in memory are those a restart would build from  *)
(* the two files, as long as every write of updates.json is whole, the        *)
(* settings pages are not used, and no two entries record the addresses of    *)
(* one family under one name: each would be given the other's events.         *)
THEOREM MemoryMatchesDiskAlone ==
  ASSUME Handlers = {}, WholeWrites, Apart PROVE Spec => []MemoryMatchesDisk
<1>1. Init => Alone /\ InSync /\ Loaded
  BY AloneInitially, InSyncInitially, LoadedInitially
<1>2. IInv /\ Alone /\ InSync /\ Loaded /\ [Next]_vars => Alone' /\ InSync' /\ Loaded'
  BY AlonePreserved, InSyncPreserved, LoadedPreserved
<1>3. IInv /\ Alone /\ InSync /\ Loaded => MemoryMatchesDisk
  <2> SUFFICES ASSUME IInv, Alone, InSync, Loaded, pc = "idle"
               PROVE  /\ disk # Torn /\ Len(data) = Len(config)
                      /\ \A i \in DOMAIN data :
                           LET fresh == Load(config, disk)[i]
                           IN  data[i].prov = fresh.prov /\ OnDisk(data[i].hist) = OnDisk(fresh.hist)
    BY DEF MemoryMatchesDisk
  <2>1. disk # Torn /\ Len(data) = Len(config) /\ disk = Encoded(persist)
    BY DEF InSync, Alone, Dead
  <2>2. ASSUME NEW i \in DOMAIN data
        PROVE  /\ data[i].prov = Load(config, disk)[i].prov
               /\ OnDisk(data[i].hist) = OnDisk(Load(config, disk)[i].hist)
    <3> DEFINE p == data[i].prov
    <3>1. p = config[i] /\ p.key \in Keys /\ p.version \in Versions
      BY RecordFacts DEF Alone, IInv
    <3>2. i \in DOMAIN Load(config, disk)
      BY <2>1, LoadConfigured DEF IInv, TypeOK
    <3>3. Load(config, disk)[i] = NewRecord(p, FilterEvents(disk[p.key], p.version))
      BY <3>1, <3>2, LoadConfigured DEF IInv, TypeOK
    <3>4. OnDisk(FilterEvents(disk[p.key], p.version)) = OnDisk(FilterEvents(persist[p.key], p.version))
      BY <2>1, <3>1, FilterEventsEncoded DEF IInv, TypeOK
    <3> QED
      BY <3>3, <3>4 DEF Loaded, NewRecord
  <2> QED
    BY <2>1, <2>2
<1> QED
  BY <1>1, <1>2, <1>3, Inductive, PTL DEF Spec
-----------------------------------------------------------------------------
(* Which records are on their way to their provider: chosen, and the call not *)
(* made yet.                                                               *)
Due(id) ==
  \/ pc \in {"decide", "init", "initStore"} /\ id \in toUpdate
  \/ id \in left
  \/ pc \in {"mark", "call"} /\ id = job.id

(* A record comes to be due only by the decision of shouldUpdateRecord, and   *)
(* is no longer due once its provider is called.                            *)
LEMMA DueStep ==
  ASSUME Handlers = {}, IInv, Alone, [Next]_vars, NEW i, Due(i)'
  PROVE  \/ Due(i) /\ (CallProvider => i # job.id)
         \/ Decide /\ i = idx /\ i \in DOMAIN data /\ TRUE \in ShouldUpdate(data[i])
<1>0. IInv'
  BY StepPreserves
<1>1. CASE Walking
  <2>1. CASE StartCycle \/ FetchIP \/ FetchDone \/ FinishCycle
    <3>1. pc' \in {"fetch", "idle"} \/ (pc' = "decide" /\ pc = "fetch" /\ toUpdate' = toUpdate)
      BY <2>1, Zenon DEF StartCycle, FetchIP, FetchDone, FinishCycle
    <3>2. toUpdate' = {} /\ left' \subseteq toUpdate'
      BY <1>0, <3>1 DEF IInv, CycleShape, TypeOK, Resting
    <3>3. pc' \notin {"mark", "call"}
      BY <3>1
    <3> QED
      BY <3>2, <3>3 DEF Due
  <2>2. CASE Decide
    <3>1. pc = "decide" /\ pc' = "decide" /\ UNCHANGED <<left, job>> /\ idx <= Len(Slice)
      BY <2>2 DEF Decide
    <3>2. PICK update \in ShouldUpdate(Slice[idx]) :
            toUpdate' = IF update THEN toUpdate \cup {idx} ELSE toUpdate
      BY <2>2, Zenon DEF Decide
    <3>3. Slice = data /\ idx \in DOMAIN data
      BY <3>1 DEF Alone, Resting, Slice, IInv, TypeOK, Id
    <3>4. CASE i \in toUpdate \/ i \in left
      BY <2>2, <3>1, <3>4 DEF Due, CallProvider
    <3>5. CASE i \notin toUpdate /\ i \notin left
      <4>1. i \in toUpdate'
        BY <3>1, <3>5 DEF Due
      <4>2. update /\ i = idx
        BY <3>2, <3>5, <4>1
      <4>3. ShouldUpdate(Slice[idx]) \subseteq BOOLEAN
        BY DEF ShouldUpdate
      <4>4. update = TRUE
        BY <4>2, <4>3
      <4> QED
        BY <2>2, <3>2, <3>3, <4>2, <4>4
    <3> QED
      BY <3>4, <3>5
  <2>3. CASE DecideDone \/ InitSkip \/ InitSelect
    <3>1. /\ pc \in {"decide", "init"} /\ pc' \notin {"mark", "call"}
          /\ UNCHANGED <<toUpdate, left>>
      BY <2>3, Zenon DEF DecideDone, InitSkip, InitSelect
    <3> QED
      BY <3>1 DEF Due, CallProvider
  <2>4. CASE InitDone
    BY <2>4 DEF InitDone, Due, CallProvider
  <2>5. CASE BeginUpdate
    <3>1. pc = "update"
      BY <2>5 DEF BeginUpdate
    <3>2. PICK id \in left : left' = left \ {id} /\ job'.id = id /\ pc' = "mark"
      BY <2>5, BeginUpdateStep
    <3> QED
      BY <3>1, <3>2 DEF Due, CallProvider
  <2> QED
    BY <1>1, <2>1, <2>2, <2>3, <2>4, <2>5 DEF Walking
<1>2. CASE Storing
  <2>1. /\ UNCHANGED <<toUpdate, left>>
        /\ \/ pc = "initStore" /\ pc' = "init"
           \/ pc = "mark" /\ pc' = "call" /\ job' = job
           \/ pc' = "update"
        /\ pc # "call"
    BY <1>2, StoringStep
  <2> QED
    BY <2>1 DEF Due, CallProvider
<1>3. CASE CallProvider
  <2>1. pc = "call" /\ pc' = "store" /\ UNCHANGED <<toUpdate, left>>
    BY <1>3, CallStep
  <2> QED
    BY <2>1 DEF Due, Alone, Updating
<1>4. CASE Ending \/ Boot
  <2>1. pc' \in Resting
    <3>1. Ending => pc' = "down"
      BY EndingStep DEF Down
    <3>2. Boot => pc' \in {"idle", "refused"}
      BY DEF Boot
    <3> QED
      BY <1>4, <3>1, <3>2 DEF Resting
  <2>2. toUpdate' = {} /\ left' \subseteq toUpdate'
    BY <1>0, <2>1 DEF IInv, CycleShape, TypeOK
  <2> QED
    BY <2>1, <2>2 DEF Due, Resting
<1>5. CASE Cancel \/ Environment \/ UNCHANGED vars
  <2>1. UNCHANGED <<pc, toUpdate, left, job>> /\ (CallProvider => pc' = "store" /\ pc = "call")
    BY <1>5, Zenon DEF Cancel, Environment, PublicChange, Tick, ClockBack, Propagate, Edit,
                       vars, cycleVars, CallProvider
  <2>2. ~CallProvider
    BY <2>1
  <2> QED
    BY <2>1, <2>2 DEF Due
<1> QED
  BY <1>1, <1>2, <1>3, <1>4, <1>5, NextAlone

LEMMA ToldType ==
  ASSUME TypeOK, NEW p \in Providers
  PROVE  told[p].ok \in Int /\ told[p].ban \in Int /\ now \in Int /\ wall \in Int
         /\ p.key \in Keys /\ p.version \in Versions
<1>1. told[p] \in [ok : Nat \cup {NoTime}, ban : Nat \cup {NoTime}]
  BY DEF TypeOK
<1>2. p \in Provider
  BY ProvidersAssumption
<1> QED
  BY <1>1, <1>2 DEF TypeOK, NoTime, Provider

(* The entry of each record is one of those configured, and no two records    *)
(* have the same one.                                                      *)
LEMMA EntriesDistinct ==
  ASSUME IInv, Alone, pc \in Dead => data = <<>>, NEW i \in DOMAIN data
  PROVE  /\ data[i].prov \in Providers
         /\ \A j \in DOMAIN data : data[j].prov = data[i].prov => j = i
<1>1. pc \notin Dead => DOMAIN data = DOMAIN config
  BY ConfigsAssumption DEF IInv, TypeOK, Alone
<1>2. config \in Seq(Providers) /\ \A j, k \in DOMAIN config : config[j] = config[k] => j = k
  BY ConfigsAssumption DEF IInv, TypeOK
<1> QED
  BY <1>1, <1>2 DEF Alone

(* The answer of a provider is about the entry of the record in hand.         *)
LEMMA ToldStep ==
  ASSUME IInv, Alone, CallProvider
  PROVE  /\ job.id \in DOMAIN data /\ job.rec.prov = data[job.id].prov /\ job.rec.prov \in Providers
         /\ \A p \in Providers \ {job.rec.prov} : told'[p] = told[p]
         /\ told'[job.rec.prov].ok = IF job'.outcome = "ok" THEN now ELSE told[job.rec.prov].ok
         /\ told'[job.rec.prov].ban = IF job'.outcome = "banned" THEN now ELSE told[job.rec.prov].ban
<1> DEFINE p == job.rec.prov
<1>1. pc = "call" /\ job \in Job /\ job.id \in DOMAIN data /\ p = data[job.id].prov
  BY InHand DEF CallProvider, Working
<1>2. p \in Providers
  BY <1>1, EntriesDistinct DEF Dead
<1>3. told \in [Providers -> [ok : Nat \cup {NoTime}, ban : Nat \cup {NoTime}]]
  BY DEF IInv, TypeOK
<1>4. \/ job' = [job EXCEPT !.outcome = "ok"] /\ told' = [told EXCEPT ![p].ok = now]
      \/ job' = [job EXCEPT !.outcome = "failed"] /\ told' = told
      \/ job' = [job EXCEPT !.outcome = "banned"] /\ told' = [told EXCEPT ![p].ban = now]
  BY Zenon DEF CallProvider
<1> HIDE DEF p
<1>5. CASE job' = [job EXCEPT !.outcome = "ok"] /\ told' = [told EXCEPT ![p].ok = now]
  <2>1. job'.outcome = "ok"
    BY <1>1, <1>5 DEF Job
  <2> QED
    BY <1>1, <1>2, <1>3, <1>5, <2>1 DEF p
<1>6. CASE job' = [job EXCEPT !.outcome = "failed"] /\ told' = told
  <2>1. job'.outcome = "failed"
    BY <1>1, <1>6 DEF Job
  <2> QED
    BY <1>1, <1>2, <1>3, <1>6, <2>1 DEF p
<1>7. CASE job' = [job EXCEPT !.outcome = "banned"] /\ told' = [told EXCEPT ![p].ban = now]
  <2>1. job'.outcome = "banned"
    BY <1>1, <1>7 DEF Job
  <2> QED
    BY <1>1, <1>2, <1>3, <1>7, <2>1 DEF p
<1> QED
  BY <1>4, <1>5, <1>6, <1>7

(* Time passes on both clocks alike, except that the wall clock may be set    *)
(* back.                                                                   *)
LEMMA ClocksStep ==
  ASSUME IInv, Environment
  PROVE  /\ (now' = now + 1 /\ wall' = wall + 1) \/ (now' = now /\ wall' \in Nat /\ wall' <= wall)
         /\ UNCHANGED <<data, persist, disk, config, pc, ips, idx, toUpdate, left, view, aliased,
                        stamp, errs, job, cancelled, reload, told>>
<1>1. wall \in Nat
  BY DEF IInv, TypeOK
<1>2. \/ now' = now + 1 /\ wall' = wall + 1
      \/ now' = now /\ wall' = wall
      \/ now' = now /\ wall' \in 0..(wall - 1)
  BY Zenon DEF Environment, PublicChange, Tick, ClockBack, Propagate, Edit
<1>3. UNCHANGED <<data, persist, disk, config, pc, ips, idx, toUpdate, left, view, aliased,
                  stamp, errs, job, cancelled, reload, told>>
  BY Zenon DEF Environment, PublicChange, Tick, ClockBack, Propagate, Edit, Point, dbVars, cycleVars,
               ghostVars
<1> QED
  BY <1>1, <1>2, <1>3
-----------------------------------------------------------------------------
(* The ban of a provider is over, or has not been told.                      *)
BanOver(t, n) == t.ban = NoTime \/ n - t.ban >= BanPeriod

(* Or else the record knows of it, by a reading of the wall clock no earlier.  *)
Barred(r, t, n, w) == BanOver(t, n) \/ (r.ban # NoTime /\ w - r.ban <= n - t.ban)

(* While a ban lasts the record in memory carries it, or is about to.        *)
BanKept ==
  /\ pc \notin Dead /\ ~cancelled
  /\ \A p \in Providers : told[p].ban <= now
  /\ \A i \in DOMAIN data :
       \/ Barred(data[i], told[data[i].prov], now, wall)
       \/ pc = "store" /\ i = job.id /\ job.outcome = "banned"
  /\ \A i \in DOMAIN data : Due(i) => BanOver(told[data[i].prov], now)
  /\ pc = "store" /\ job.outcome # "banned" => BanOver(told[data[job.id].prov], now)

LEMMA BanKeptInitially == Init => BanKept
<1> SUFFICES ASSUME Init PROVE BanKept
  OBVIOUS
<1>1. Alone /\ IInv
  BY AloneInitially, InitEstablishes
<1>2. /\ pc = "idle" /\ toUpdate = {} /\ left = {} /\ ~cancelled /\ now = 0
      /\ \A p \in Providers : told[p].ban = NoTime
  BY DEF Init
<1>3. \A i \in DOMAIN data : data[i].prov \in Providers
  BY <1>1, <1>2, EntriesDistinct DEF Dead
<1> QED
  BY <1>2, <1>3 DEF BanKept, BanOver, Barred, Due, Dead, NoTime

(* A record is chosen only if its ban is over by its own account.            *)
LEMMA ChosenFree ==
  ASSUME NEW r, TRUE \in ShouldUpdate(r)
  PROVE  ~WithinCooldown(r) /\ ~WithinBan(r)
BY DEF ShouldUpdate

LEMMA ToStoreBan ==
  ASSUME IInv, Alone, pc \in Working
  PROVE  /\ pc # "store" \/ job.outcome = "ok" => ToStore.ban = data[job.id].ban
         /\ pc = "store" /\ job.outcome = "banned" => ToStore.ban = wall
<1>1. /\ data[job.id] \in Record /\ job \in Job /\ job.rec \in Record
      /\ pc = "store" => job.outcome \in {"ok", "failed", "banned"}
  BY InHand
<1>2. CASE pc = "initStore"
  BY <1>1, <1>2 DEF ToStore, Alone, InitialState, Record
<1>3. CASE pc \in {"mark", "call"}
  BY <1>1, <1>3 DEF ToStore, Alone, Updating, Record
<1>4. CASE pc = "store"
  <2>1. job.rec.ban = data[job.id].ban
    BY <1>1, <1>4 DEF Alone, Updating, Record
  <2> QED
    BY <1>1, <1>4, <2>1 DEF ToStore, Answered, Record
<1> QED
  BY <1>2, <1>3, <1>4 DEF Working

LEMMA BanKeptWalking ==
  ASSUME Handlers = {}, IInv, Alone, BanKept, [Next]_vars, Walking
  PROVE  BanKept'
<1>1. /\ UNCHANGED <<data, now, wall, told, cancelled>> /\ pc' \notin Dead
      /\ pc # "store" /\ pc' # "store"
  <2>1. pc # "store" /\ pc' # "store"
    BY Zenon DEF Walking, StartCycle, FetchIP, FetchDone, Decide, DecideDone, InitSkip, InitSelect,
                 InitDone, BeginUpdate, FinishCycle
  <2> QED
    BY <2>1, WalkingStep
<1>2. ASSUME NEW i \in DOMAIN data, Due(i)' PROVE BanOver(told[data[i].prov], now)
  <2>1. CASE Due(i)
    BY <2>1 DEF BanKept
  <2>2. CASE ~Due(i)
    <3>1. ~WithinBan(data[i])
      BY <1>2, <2>2, DueStep, ChosenFree
    <3>2. data[i].prov \in Providers /\ data[i].ban \in Nat \cup {NoTime}
      BY EntriesDistinct, RecordFacts DEF IInv, BanKept
    <3>3. told[data[i].prov].ban \in Int /\ now \in Int /\ wall \in Int /\ BanPeriod \in Int
      BY <3>2, ToldType, BoundsAssumption DEF IInv
    <3>4. Barred(data[i], told[data[i].prov], now, wall) => BanOver(told[data[i].prov], now)
      BY <3>1, <3>2, <3>3 DEF Barred, BanOver, WithinBan
    <3> QED
      BY <1>1, <3>4 DEF BanKept
  <2> QED
    BY <2>1, <2>2
<1> QED
  BY <1>1, <1>2 DEF BanKept, BanOver, Barred

LEMMA BanKeptStoring ==
  ASSUME Handlers = {}, IInv, Alone, BanKept, [Next]_vars, Storing
  PROVE  BanKept'
<1>1. /\ pc \in Working /\ UNCHANGED <<now, wall, told, cancelled>>
      /\ pc' \in {"init", "call", "update"}
      /\ DOMAIN data' = DOMAIN data /\ data'[job.id] = ToStore
      /\ \A i \in DOMAIN data \ {job.id} : data'[i] = data[i]
  BY StoringStep
<1>2. job.id \in DOMAIN data /\ ToStore.prov = data[job.id].prov
  BY <1>1, InHand, ToStoreType
<1>3. \A i \in DOMAIN data : data'[i].prov = data[i].prov
  BY <1>1, <1>2
<1>4. ASSUME NEW i \in DOMAIN data, Due(i)' PROVE BanOver(told[data[i].prov], now)
  <2>1. ~Decide
    BY <1>1 DEF Decide, Working
  <2> QED
    BY <1>4, <2>1, DueStep DEF BanKept
<1>5. Barred(ToStore, told[data[job.id].prov], now, wall)
  <2>1. CASE pc # "store"
    BY <1>1, <1>2, <2>1, ToStoreBan DEF BanKept, Barred
  <2>2. CASE pc = "store" /\ job.outcome = "banned"
    <3>1. data[job.id].prov \in Providers /\ wall \in Nat
      BY <1>2, EntriesDistinct DEF IInv, TypeOK, BanKept
    <3>2. told[data[job.id].prov].ban \in Int /\ now \in Int
      BY <3>1, ToldType DEF IInv
    <3>3. told[data[job.id].prov].ban <= now /\ wall # NoTime /\ wall - wall = 0
      BY <3>1 DEF BanKept, NoTime
    <3> QED
      BY <1>1, <2>2, <3>2, <3>3, ToStoreBan DEF Barred
  <2>3. CASE pc = "store" /\ job.outcome # "banned"
    BY <2>3 DEF BanKept, Barred
  <2> QED
    BY <2>1, <2>2, <2>3
<1>6. ASSUME NEW i \in DOMAIN data, i # job.id
      PROVE  Barred(data[i], told[data[i].prov], now, wall)
  BY <1>6 DEF BanKept
<1>7. \A i \in DOMAIN data : Barred(data'[i], told[data[i].prov], now, wall)
  BY <1>1, <1>5, <1>6
<1>8. pc' \notin Dead /\ ~cancelled' /\ pc' # "store" /\ \A p \in Providers : told'[p].ban <= now'
  BY <1>1 DEF Dead, BanKept
<1> QED
  BY <1>1, <1>3, <1>4, <1>7, <1>8 DEF BanKept

LEMMA BanKeptCalling ==
  ASSUME Handlers = {}, IInv, Alone, BanKept, [Next]_vars, CallProvider
  PROVE  BanKept'
<1> DEFINE p == job.rec.prov
<1>1. /\ UNCHANGED <<now, wall, data, cancelled>> /\ pc = "call" /\ pc' = "store"
      /\ job'.id = job.id
  BY CallStep
<1>2. /\ job.id \in DOMAIN data /\ p = data[job.id].prov /\ p \in Providers
      /\ \A q \in Providers \ {p} : told'[q] = told[q]
      /\ told'[p].ban = IF job'.outcome = "banned" THEN now ELSE told[p].ban
  BY ToldStep
<1>3. \A i \in DOMAIN data : data[i].prov \in Providers /\ (data[i].prov = p => i = job.id)
  BY <1>2, EntriesDistinct DEF BanKept
<1> HIDE DEF p
<1>4. \A q \in Providers \ {p} : BanOver(told'[q], now') <=> BanOver(told[q], now)
  BY <1>1, <1>2 DEF BanOver
<1>5. BanOver(told[p], now)
  BY <1>1, <1>2 DEF BanKept, Due
<1>6. job'.outcome # "banned" => BanOver(told'[p], now')
  BY <1>1, <1>2, <1>5 DEF BanOver
<1>7. \A q \in Providers : told'[q].ban <= now'
  <2>1. now <= now
    BY DEF IInv, TypeOK
  <2> QED
    BY <1>1, <1>2, <2>1 DEF BanKept
<1>8. \A i \in DOMAIN data : \/ Barred(data'[i], told'[data'[i].prov], now', wall')
                             \/ i = job.id /\ job'.outcome = "banned"
  <2> SUFFICES ASSUME NEW i \in DOMAIN data, i # job.id PROVE Barred(data'[i], told'[data'[i].prov], now', wall')
    BY <1>1, <1>2, <1>6 DEF Barred
  <2>1. data[i].prov \in Providers \ {p}
    BY <1>3
  <2>2. Barred(data[i], told[data[i].prov], now, wall)
    BY <1>1 DEF BanKept
  <2> QED
    BY <1>1, <1>2, <1>4, <2>1, <2>2 DEF Barred
<1>9. \A i \in DOMAIN data : Due(i)' => BanOver(told'[data[i].prov], now')
  <2> SUFFICES ASSUME NEW i \in DOMAIN data, Due(i)' PROVE BanOver(told'[data[i].prov], now')
    OBVIOUS
  <2>1. Due(i) /\ i # job.id
    BY <1>1, DueStep DEF Decide
  <2> QED
    BY <1>1, <1>3, <1>4, <2>1 DEF BanKept
<1>10. pc' \notin Dead /\ ~cancelled'
  BY <1>1 DEF Dead, BanKept
<1> QED
  BY <1>1, <1>2, <1>6, <1>7, <1>8, <1>9, <1>10 DEF BanKept

LEMMA BanKeptLater ==
  ASSUME Handlers = {}, IInv, Alone, BanKept, [Next]_vars, Environment
  PROVE  BanKept'
<1>1. /\ (now' = now + 1 /\ wall' = wall + 1) \/ (now' = now /\ wall' \in Nat /\ wall' <= wall)
      /\ UNCHANGED <<data, pc, toUpdate, left, job, cancelled, told>>
  BY ClocksStep
<1>2. now \in Int /\ wall \in Int /\ BanPeriod \in Int /\ now' \in Int /\ wall' \in Int
  BY <1>1, BoundsAssumption DEF IInv, TypeOK
<1>3. \A p \in Providers : told[p].ban \in Int
  BY ToldType DEF IInv
<1>4. \A p \in Providers : (BanOver(told[p], now) => BanOver(told'[p], now')) /\ told'[p].ban <= now'
  BY <1>1, <1>2, <1>3 DEF BanOver, BanKept
<1>5. \A i \in DOMAIN data : data[i].prov \in Providers /\ data[i].ban \in Int
  BY EntriesDistinct, RecordFacts DEF IInv, BanKept, NoTime
<1>6. \A i \in DOMAIN data : Barred(data[i], told[data[i].prov], now, wall) => Barred(data'[i], told'[data'[i].prov], now', wall')
  BY <1>1, <1>2, <1>3, <1>4, <1>5 DEF Barred
<1>7. \A i : Due(i)' <=> Due(i)
  BY <1>1 DEF Due
<1>8. pc = "store" => job.id \in DOMAIN data
  BY InHand DEF Working
<1> QED
  BY <1>1, <1>4, <1>5, <1>6, <1>7, <1>8 DEF BanKept

LEMMA BanKeptPreserved ==
  ASSUME Handlers = {}, {"cancel", "kill"} \cap Faults = {}, IInv, Alone, BanKept, [Next]_vars
  PROVE  BanKept'
<1>1. ~Ending /\ ~Boot /\ ~Cancel
  BY DEF Ending, Shutdown, Crash, Boot, Cancel, Injected, BanKept, Dead
<1>2. CASE UNCHANGED vars
  BY <1>2 DEF vars, envVars, dbVars, cycleVars, ghostVars, BanKept, BanOver, Barred, Due
<1> QED
  BY <1>1, <1>2, BanKeptWalking, BanKeptStoring, BanKeptCalling, BanKeptLater, NextAlone

(* Once a provider answered with a ban, it is not called for that record      *)
(* within the ban period, wherever the wall clock is set back to and whether   *)
(* or not the record can be written. The ban is kept in memory only: a        *)
(* restart forgets it (hence the hypotheses), as TLC shows.                   *)
THEOREM BanRespectedAlone ==
  ASSUME Handlers = {}, {"cancel", "kill"} \cap Faults = {} PROVE Spec => BanRespected
<1>1. IInv /\ Alone /\ BanKept /\ [Next]_vars => Alone' /\ BanKept'
  BY AlonePreserved, BanKeptPreserved
<1>2. IInv /\ Alone /\ BanKept /\ [Next]_vars =>
        [Calling => LET t == told[job.rec.prov].ban IN t = NoTime \/ now - t >= BanPeriod]_vars
  <2> SUFFICES ASSUME IInv, Alone, BanKept, Calling PROVE BanOver(told[job.rec.prov], now)
    BY DEF BanOver
  <2>1. pc = "call" /\ Due(job.id)
    BY DEF Calling, Due
  <2>2. job.id \in DOMAIN data /\ job.rec.prov = data[job.id].prov
    BY <2>1, InHand DEF Working
  <2> QED
    BY <2>1, <2>2 DEF BanKept
<1> QED
  BY <1>1, <1>2, AloneInitially, BanKeptInitially, Inductive, PTL DEF Spec, BanRespected
-----------------------------------------------------------------------------
(* The cooldown after the last confirmed update is over, or there was none.   *)
Cooled(t, n) == t.ok = NoTime \/ n - t.ok >= Cooldown

(* A provider confirmed an update of the entry that is not stored yet.        *)
Unrecorded(p) == pc = "store" /\ job.outcome = "ok" /\ job.rec.prov = p

(* The latest event of the record is no older than the confirmation.         *)
Remembered(r, t, n, w) == t.ok = NoTime \/ (r.hist.count > 0 /\ Since(r.hist.last, n, w) <= n - t.ok)

(* So is an event of the file that is the entry's, and every one after it, by  *)
(* the wall clock.                                                         *)
Recorded(events, v, t, n, w) ==
  \/ t.ok = NoTime
  \/ \E j \in DOMAIN events :
       /\ MatchesVersion(events[j].ip, v)
       /\ \A m \in DOMAIN events : m >= j => w - events[m].wall <= n - t.ok

LEMMA RecordedGrows ==
  ASSUME NEW events \in Seq(Event), NEW x \in Event, NEW v \in Versions, NEW t, t.ok \in Int,
         NEW n \in Int, NEW w \in Int, w - x.wall <= n - t.ok,
         Recorded(events, v, t, n, w) \/ MatchesVersion(x.ip, v)
  PROVE  Recorded(Append(events, x), v, t, n, w)
<1> DEFINE more == Append(events, x)
           len  == Len(events) + 1
<1>1. /\ DOMAIN more = DOMAIN events \cup {len} /\ len \in DOMAIN more /\ more[len] = x
      /\ \A i \in DOMAIN events : more[i] = events[i] /\ i \in Int /\ i < len
      /\ len \in Int
  OBVIOUS
<1> HIDE DEF more, len
<1>2. CASE MatchesVersion(x.ip, v)
  <2>1. \A m \in DOMAIN more : m >= len => w - more[m].wall <= n - t.ok
    BY <1>1
  <2> QED
    BY <1>1, <1>2, <2>1 DEF Recorded, more
<1>3. CASE Recorded(events, v, t, n, w) /\ t.ok # NoTime
  <2>1. PICK j \in DOMAIN events :
          /\ MatchesVersion(events[j].ip, v)
          /\ \A m \in DOMAIN events : m >= j => w - events[m].wall <= n - t.ok
    BY <1>3 DEF Recorded
  <2>2. j \in DOMAIN more /\ more[j] = events[j]
    BY <1>1
  <2>3. \A m \in DOMAIN more : m >= j => w - more[m].wall <= n - t.ok
    BY <1>1, <2>1
  <2> QED
    BY <2>1, <2>2, <2>3 DEF Recorded, more
<1>4. CASE t.ok = NoTime
  BY <1>4 DEF Recorded
<1> QED
  BY <1>2, <1>3, <1>4

(* The wall clock never gets ahead of the time that passes.                  *)
LEMMA RecordedLater ==
  ASSUME NEW events \in Seq(Event), NEW v, NEW t, t.ok \in Int,
         NEW n \in Int, NEW w \in Int, NEW later \in Int, NEW shown \in Int,
         shown - w <= later - n, Recorded(events, v, t, n, w)
  PROVE  Recorded(events, v, t, later, shown)
<1>1. \A m \in DOMAIN events : events[m].wall \in Int
  <2>1. \A m \in DOMAIN events : events[m] \in Event
    OBVIOUS
  <2> QED
    BY <2>1 DEF Event
<1>2. \A m \in DOMAIN events : w - events[m].wall <= n - t.ok => shown - events[m].wall <= later - t.ok
  BY <1>1
<1> QED
  BY <1>2 DEF Recorded

LEMMA RememberedLater ==
  ASSUME NEW r \in Record, NEW t, t.ok \in Int,
         NEW n \in Int, NEW w \in Int, NEW later \in Int, NEW shown \in Int,
         shown - w <= later - n, Remembered(r, t, n, w)
  PROVE  Remembered(r, t, later, shown)
<1>1. r.hist.last.wall \in Int /\ r.hist.last.mono \in Int
  BY DEF Record, History, Event, NoEvent, NoTime
<1> QED
  BY <1>1 DEF Remembered, Since

(* What the file holds is what the record starts with.                       *)
LEMMA RecordedLoads ==
  ASSUME NEW events \in Seq(Event), \A i \in DOMAIN events : events[i].mono = NoTime,
         NEW p, p.version \in Versions, NEW t, NEW n \in Int, NEW w \in Int,
         Recorded(events, p.version, t, n, w)
  PROVE  Remembered(NewRecord(p, FilterEvents(events, p.version)), t, n, w)
<1> DEFINE kept == {i \in DOMAIN events : MatchesVersion(events[i].ip, p.version)}
           h    == FilterEvents(events, p.version)
<1>1. CASE t.ok = NoTime
  BY <1>1 DEF Remembered
<1>2. CASE t.ok # NoTime
  <2>1. PICK j \in kept : \A m \in DOMAIN events : m >= j => w - events[m].wall <= n - t.ok
    BY <1>2 DEF Recorded
  <2>2. PICK i \in kept : \A m \in kept : m <= i
    BY <2>1, FilterEventsIs
  <2>3. h = [count |-> Cardinality(kept), last |-> events[i]]
    BY <2>2, FilterEventsIs
  <2>4. j \in Int /\ i \in Int /\ j <= i /\ i \in DOMAIN events /\ events[i] \in Event
    BY <2>1, <2>2
  <2>5. w - events[i].wall <= n - t.ok /\ events[i].mono = NoTime
    BY <2>1, <2>4
  <2>6. h \in History /\ h.last = events[i]
    BY <2>3, FilterEventsType
  <2> HIDE DEF h, kept
  <2>7. h.count \in Nat /\ h.count # 0
    BY <2>4, <2>6, NoEventIsNoEvent DEF History
  <2>8. Since(h.last, n, w) <= n - t.ok
    BY <2>5, <2>6 DEF Since
  <2>9. h.count > 0
    BY <2>7
  <2> QED
    BY <2>8, <2>9 DEF Remembered, NewRecord, h
<1> QED
  BY <1>1, <1>2

(* What each provider confirmed is known to the record in memory and to the   *)
(* file, at a time no earlier.                                             *)
CooldownKept ==
  /\ pc \in Dead => data = <<>>
  /\ \A p \in Providers : told[p].ok <= now
  /\ \A p \in Providers : Unrecorded(p) \/ Recorded(disk[p.key], p.version, told[p], now, wall)
  /\ \A i \in DOMAIN data :
       Unrecorded(data[i].prov) \/ Remembered(data[i], told[data[i].prov], now, wall)
  /\ pc \in {"init", "initStore"} =>
       /\ wall - stamp.wall <= now - stamp.mono
       /\ \A p \in Providers : told[p].ok <= stamp.mono
  /\ \A i \in DOMAIN data : Due(i) => Cooled(told[data[i].prov], now)

LEMMA CooldownKeptInitially == Init => CooldownKept
<1> SUFFICES ASSUME Init PROVE CooldownKept
  OBVIOUS
<1>1. Alone /\ IInv
  BY AloneInitially, InitEstablishes
<1>2. /\ pc = "idle" /\ toUpdate = {} /\ left = {} /\ now = 0
      /\ \A p \in Providers : told[p].ok = NoTime
  BY DEF Init
<1>3. \A i \in DOMAIN data : data[i].prov \in Providers
  BY <1>1, <1>2, EntriesDistinct DEF Dead
<1> QED
  BY <1>2, <1>3 DEF CooldownKept, Cooled, Recorded, Remembered, Due, Dead, NoTime

LEMMA CooldownKeptWalking ==
  ASSUME Handlers = {}, IInv, Alone, CooldownKept, [Next]_vars, Walking
  PROVE  CooldownKept'
<1>1. /\ UNCHANGED <<data, disk, now, wall, told>> /\ pc' \notin Dead /\ pc \notin Dead
      /\ pc # "store" /\ pc' # "store"
  <2>1. pc # "store" /\ pc' # "store"
    BY Zenon DEF Walking, StartCycle, FetchIP, FetchDone, Decide, DecideDone, InitSkip, InitSelect,
                 InitDone, BeginUpdate, FinishCycle
  <2> QED
    BY <2>1, WalkingStep
<1>2. ASSUME NEW i \in DOMAIN data, Due(i)' PROVE Cooled(told[data[i].prov], now)
  <2>1. CASE Due(i)
    BY <2>1 DEF CooldownKept
  <2>2. CASE ~Due(i)
    <3>1. ~WithinCooldown(data[i])
      BY <1>2, <2>2, DueStep, ChosenFree
    <3>2. data[i].prov \in Providers /\ data[i].hist \in History
      BY EntriesDistinct, RecordFacts DEF IInv, CooldownKept
    <3>3. told[data[i].prov].ok \in Int /\ now \in Int /\ wall \in Int /\ Cooldown \in Int
      BY <3>2, ToldType, BoundsAssumption DEF IInv
    <3>4. data[i].hist.last.wall \in Int /\ data[i].hist.last.mono \in Int
      BY <3>2 DEF History, Event, NoEvent, NoTime
    <3>5. Remembered(data[i], told[data[i].prov], now, wall)
      BY <1>1 DEF CooldownKept, Unrecorded
    <3> QED
      BY <3>1, <3>3, <3>4, <3>5 DEF Remembered, Cooled, WithinCooldown, Since
  <2> QED
    BY <2>1, <2>2
<1>3. pc' \in {"init", "initStore"} =>
        /\ wall' - stamp'.wall <= now' - stamp'.mono
        /\ \A p \in Providers : told'[p].ok <= stamp'.mono
  <2>1. now \in Int /\ wall \in Int
    BY DEF IInv, TypeOK
  <2>2. CASE stamp' = Clock
    BY <1>1, <2>1, <2>2 DEF Clock, CooldownKept
  <2>3. CASE pc = "init" /\ stamp' = stamp
    BY <1>1, <2>3 DEF CooldownKept
  <2> QED
    BY <2>2, <2>3, StampStep
<1>4. \A p : ~Unrecorded(p) /\ ~Unrecorded(p)'
  BY <1>1 DEF Unrecorded
<1> QED
  BY <1>1, <1>2, <1>3, <1>4 DEF CooldownKept

LEMMA CooldownKeptStoring ==
  ASSUME Handlers = {}, WholeWrites, IInv, Alone, InSync, CooldownKept, [Next]_vars, Storing
  PROVE  CooldownKept'
<1>1. /\ pc \in Working /\ UNCHANGED <<now, wall, told, stamp>>
      /\ pc' \in {"init", "call", "update"} /\ (pc' = "init" => pc = "initStore")
      /\ DOMAIN data' = DOMAIN data /\ data'[job.id] = ToStore
      /\ \A i \in DOMAIN data \ {job.id} : data'[i] = data[i]
  BY StoringStep
<1>2. /\ job.id \in DOMAIN data /\ ToStore.prov = data[job.id].prov /\ data[job.id] \in Record
      /\ job.rec.prov = data[job.id].prov /\ ToStore \in Record
  BY <1>1, InHand, ToStoreType
<1>3. \A i \in DOMAIN data : data'[i].prov = data[i].prov
  BY <1>1, <1>2
<1>4. \A i \in DOMAIN data : data[i].prov \in Providers /\ (data[i].prov = data[job.id].prov => i = job.id)
  BY <1>2, EntriesDistinct DEF CooldownKept
<1>5. ASSUME NEW i \in DOMAIN data, Due(i)' PROVE Cooled(told[data[i].prov], now)
  <2>1. ~Decide
    BY <1>1 DEF Decide, Working
  <2> QED
    BY <1>5, <2>1, DueStep DEF CooldownKept
<1> DEFINE p == data[job.id].prov
           e == NewEvent
           x == [NewEvent EXCEPT !.mono = NoTime]
<1>6. /\ now \in Int /\ wall \in Int /\ stamp.wall \in Int /\ stamp.mono \in Int
      /\ \A q \in Providers : told[q].ok \in Int /\ q.key \in Keys /\ q.version \in Versions
      /\ p \in Providers
  BY <1>2, <1>4, ToldType DEF IInv, TypeOK
<1>7. ~Grows(job.id, ToStore) =>
        /\ disk' = disk /\ ToStore.hist = data[job.id].hist
        /\ \A q : ~Unrecorded(q)
  BY <1>1, StoringEvent, ToStoreHistory DEF Unrecorded
<1>8. Grows(job.id, ToStore) =>
        /\ Recording(p.key, e) /\ e \in Event
        /\ ToStore.hist = Extend(data[job.id].hist, e)
        /\ \/ pc = "initStore" /\ GetCurrentIP(data[job.id].hist) = NoAddr
           \/ pc = "store" /\ job.outcome = "ok"
        /\ MatchesVersion(e.ip, p.version)
  <2> SUFFICES ASSUME Grows(job.id, ToStore)
               PROVE  /\ Recording(p.key, e) /\ e \in Event
                      /\ ToStore.hist = Extend(data[job.id].hist, e)
                      /\ \/ pc = "initStore" /\ GetCurrentIP(data[job.id].hist) = NoAddr
                         \/ pc = "store" /\ job.outcome = "ok"
                      /\ MatchesVersion(e.ip, p.version)
    OBVIOUS
  <2>1. Recording(p.key, e) /\ e \in Event
    BY <1>2, StoringEvent
  <2>2. /\ ToStore.hist = Extend(data[job.id].hist, e) /\ job.ip # NoAddr /\ e.ip = job.ip
        /\ \/ pc = "initStore" /\ GetCurrentIP(data[job.id].hist) = NoAddr
           \/ pc = "store" /\ job.outcome = "ok"
    BY <1>1, ToStoreHistory
  <2>3. MatchesVersion(e.ip, p.version)
    BY <1>1, <1>2, <2>2, CopyFits
  <2> QED
    BY <2>1, <2>2, <2>3
<1> HIDE DEF e, p
<1>9. \A q \in Providers : Recorded(disk'[q.key], q.version, told[q], now, wall)
  <2>1. CASE ~Grows(job.id, ToStore)
    BY <1>7, <2>1 DEF CooldownKept
  <2>2. CASE Grows(job.id, ToStore)
    <3>1. p.key \in Keys /\ e \in Event /\ Recording(p.key, e)
      BY <1>6, <1>8, <2>2
    <3>2. /\ disk \in [Keys -> Seq(Event)] /\ x \in Event
          /\ disk'[p.key] = Append(disk[p.key], x)
          /\ \A k \in Keys \ {p.key} : disk'[k] = disk[k]
      BY <1>1, <3>1, RecordedOnDisk DEF IInv, e, Working, Dead
    <3>3. x.ip = e.ip /\ x.wall = IF pc = "store" THEN wall ELSE stamp.wall
      BY <3>1 DEF NewEvent, Event, e
    <3> HIDE DEF x
    <3>4. ASSUME NEW q \in Providers PROVE wall - x.wall <= now - told[q].ok
      <4>1. told[q].ok <= now /\ told[q].ok \in Int
        BY <1>6 DEF CooldownKept
      <4>2. CASE pc = "store"
        BY <1>6, <3>3, <4>1, <4>2
      <4>3. CASE pc = "initStore"
        BY <1>6, <3>3, <4>1, <4>3 DEF CooldownKept
      <4> QED
        BY <1>8, <2>2, <4>2, <4>3
    <3>5. ASSUME NEW q \in Providers, q.key = p.key
          PROVE  Recorded(disk'[q.key], q.version, told[q], now, wall)
      <4>1. Recorded(disk[q.key], q.version, told[q], now, wall) \/ MatchesVersion(x.ip, q.version)
        <5>1. Unrecorded(q) => q = p
          BY <1>2 DEF Unrecorded, p
        <5> QED
          BY <1>8, <2>2, <3>3, <5>1 DEF CooldownKept
      <4>2. disk[q.key] \in Seq(Event) /\ disk'[q.key] = Append(disk[q.key], x)
        BY <3>1, <3>2, <3>5
      <4> QED
        BY <1>6, <3>2, <3>4, <4>1, <4>2, RecordedGrows
    <3>6. ASSUME NEW q \in Providers, q.key # p.key
          PROVE  Recorded(disk'[q.key], q.version, told[q], now, wall)
      <4>1. disk'[q.key] = disk[q.key] /\ ~Unrecorded(q)
        BY <1>2, <1>6, <3>2, <3>6 DEF Unrecorded, p
      <4> QED
        BY <4>1 DEF CooldownKept
    <3> QED
      BY <3>5, <3>6
  <2> QED
    BY <2>1, <2>2
<1>10. Remembered(ToStore, told[p], now, wall)
  <2>1. CASE ~Grows(job.id, ToStore)
    BY <1>2, <1>7, <2>1 DEF CooldownKept, Remembered, p
  <2>2. CASE pc = "initStore" /\ Grows(job.id, ToStore)
    <3>1. ~Unrecorded(p) /\ GetCurrentIP(data[job.id].hist) = NoAddr
      BY <1>8, <2>2 DEF Unrecorded
    <3>2. data[job.id].hist \in History
      BY <1>2 DEF Record
    <3>3. data[job.id].hist.count = 0
      BY <3>1, <3>2, CurrentIP
    <3> QED
      BY <1>2, <3>1, <3>3 DEF CooldownKept, Remembered, p
  <2>3. CASE pc = "store" /\ Grows(job.id, ToStore)
    <3>1. /\ ToStore.hist = Extend(data[job.id].hist, e) /\ e.wall = wall /\ e.mono = now
          /\ now # NoTime
      BY <1>8, <2>3 DEF NewEvent, e, IInv, TypeOK, NoTime
    <3>2. data[job.id].hist.count \in Nat
      BY <1>2 DEF Record, History
    <3>3. ToStore.hist.count > 0 /\ ToStore.hist.last = e
      BY <3>1, <3>2 DEF Extend
    <3>4. told[p].ok <= now /\ told[p].ok \in Int
      BY <1>6 DEF CooldownKept
    <3> QED
      BY <1>6, <3>1, <3>3, <3>4 DEF Remembered, Since
  <2> QED
    BY <1>8, <2>1, <2>2, <2>3
<1>11. \A i \in DOMAIN data : Remembered(data'[i], told[data[i].prov], now, wall)
  <2> SUFFICES ASSUME NEW i \in DOMAIN data, i # job.id
               PROVE  Remembered(data[i], told[data[i].prov], now, wall)
    BY <1>1, <1>10 DEF p
  <2>1. ~Unrecorded(data[i].prov)
    BY <1>2, <1>4 DEF Unrecorded
  <2> QED
    BY <2>1 DEF CooldownKept
<1>12. pc' \notin Dead /\ \A q \in Providers : told'[q].ok <= now'
  BY <1>1 DEF Dead, CooldownKept
<1>13. pc' \in {"init", "initStore"} =>
         /\ wall' - stamp'.wall <= now' - stamp'.mono
         /\ \A q \in Providers : told'[q].ok <= stamp'.mono
  BY <1>1 DEF CooldownKept
<1> QED
  BY <1>1, <1>3, <1>5, <1>9, <1>11, <1>12, <1>13 DEF CooldownKept
LEMMA CooldownKeptCalling ==
  ASSUME Handlers = {}, IInv, Alone, CooldownKept, [Next]_vars, CallProvider
  PROVE  CooldownKept'
<1> DEFINE p == job.rec.prov
<1>1. /\ UNCHANGED <<now, wall, data, disk>> /\ pc = "call" /\ pc' = "store"
      /\ job'.id = job.id /\ job'.rec = job.rec
  BY CallStep
<1>2. /\ job.id \in DOMAIN data /\ p = data[job.id].prov /\ p \in Providers
      /\ \A q \in Providers \ {p} : told'[q] = told[q]
      /\ told'[p].ok = IF job'.outcome = "ok" THEN now ELSE told[p].ok
  BY ToldStep
<1>3. \A i \in DOMAIN data : data[i].prov \in Providers /\ (data[i].prov = p => i = job.id)
  BY <1>2, EntriesDistinct DEF CooldownKept
<1>4. \A q : ~Unrecorded(q) /\ (Unrecorded(q)' <=> job'.outcome = "ok" /\ q = p)
  BY <1>1 DEF Unrecorded
<1> HIDE DEF p
<1>5. \A q \in Providers : told'[q].ok <= now
  <2>1. now <= now
    BY DEF IInv, TypeOK
  <2> QED
    BY <1>2, <2>1 DEF CooldownKept
<1>6. ASSUME NEW q \in Providers, ~Unrecorded(q)' PROVE told'[q].ok = told[q].ok
  BY <1>2, <1>4, <1>6
<1>7. ASSUME NEW q \in Providers, ~Unrecorded(q)'
      PROVE  Recorded(disk[q.key], q.version, told'[q], now, wall)
  BY <1>4, <1>6, <1>7 DEF CooldownKept, Recorded
<1>8. ASSUME NEW i \in DOMAIN data, job'.outcome # "ok" \/ data[i].prov # p
      PROVE  Remembered(data[i], told'[data[i].prov], now, wall)
  <2>1. told'[data[i].prov].ok = told[data[i].prov].ok
    BY <1>2, <1>3, <1>8
  <2>2. Remembered(data[i], told[data[i].prov], now, wall)
    BY <1>4 DEF CooldownKept
  <2> QED
    BY <2>1, <2>2 DEF Remembered
<1>9. ASSUME NEW i \in DOMAIN data, Due(i)' PROVE Cooled(told'[data[i].prov], now)
  <2>1. Due(i) /\ i # job.id
    BY <1>1, <1>9, DueStep DEF Decide
  <2>2. told'[data[i].prov] = told[data[i].prov]
    BY <1>2, <1>3, <2>1
  <2> QED
    BY <2>1, <2>2 DEF CooldownKept
<1>10. pc' \notin Dead /\ pc' \notin {"init", "initStore"}
  BY <1>1 DEF Dead
<1> QED
  BY <1>1, <1>4, <1>5, <1>7, <1>8, <1>9, <1>10 DEF CooldownKept

LEMMA CooldownKeptLater ==
  ASSUME Handlers = {}, IInv, Alone, InSync, CooldownKept, [Next]_vars, Environment
  PROVE  CooldownKept'
<1>1. /\ (now' = now + 1 /\ wall' = wall + 1) \/ (now' = now /\ wall' \in Nat /\ wall' <= wall)
      /\ UNCHANGED <<data, disk, pc, toUpdate, left, job, stamp, told>>
  BY ClocksStep
<1>2. /\ now \in Int /\ wall \in Int /\ now' \in Int /\ wall' \in Int /\ Cooldown \in Int
      /\ stamp.wall \in Int /\ stamp.mono \in Int
  BY <1>1, BoundsAssumption DEF IInv, TypeOK
<1>3. wall' - wall <= now' - now /\ now <= now'
  <2>1. \A n, w, later, shown \in Int :
          (later = n + 1 /\ shown = w + 1) \/ (later = n /\ shown <= w) => shown - w <= later - n /\ n <= later
    OBVIOUS
  <2> QED
    BY <1>1, <1>2, <2>1
<1>4. \A p \in Providers : told[p].ok \in Int /\ p.key \in Keys
  BY ToldType DEF IInv
<1>5. \A p : Unrecorded(p)' <=> Unrecorded(p)
  BY <1>1 DEF Unrecorded
<1>6. \A p \in Providers : told'[p].ok <= now'
  BY <1>1, <1>2, <1>3, <1>4 DEF CooldownKept
<1>7. ASSUME NEW p \in Providers, ~Unrecorded(p)
      PROVE  Recorded(disk[p.key], p.version, told[p], now', wall')
  <2>1. disk[p.key] \in Seq(Event)
    BY <1>4 DEF InSync, IInv, TypeOK
  <2> QED
    BY <1>2, <1>3, <1>4, <1>7, <2>1, RecordedLater DEF CooldownKept
<1>8. ASSUME NEW i \in DOMAIN data, ~Unrecorded(data[i].prov)
      PROVE  Remembered(data[i], told[data[i].prov], now', wall')
  <2>1. data[i] \in Record /\ told[data[i].prov].ok \in Int
    BY <1>4, EntriesDistinct, RecordFacts DEF IInv, CooldownKept
  <2> QED
    BY <1>2, <1>3, <1>8, <2>1, RememberedLater DEF CooldownKept
<1>9. ASSUME NEW i \in DOMAIN data, Due(i)' PROVE Cooled(told[data[i].prov], now')
  <2>1. Due(i) /\ told[data[i].prov].ok \in Int
    BY <1>1, <1>4, <1>9, EntriesDistinct DEF Due, CooldownKept
  <2> QED
    BY <1>2, <1>3, <2>1 DEF CooldownKept, Cooled
<1>10. pc' \in {"init", "initStore"} =>
         /\ wall' - stamp'.wall <= now' - stamp'.mono
         /\ \A p \in Providers : told'[p].ok <= stamp'.mono
  BY <1>1, <1>2, <1>3 DEF CooldownKept
<1> QED
  BY <1>1, <1>5, <1>6, <1>7, <1>8, <1>9, <1>10 DEF CooldownKept

LEMMA CooldownKeptLife ==
  ASSUME Handlers = {}, "kill" \notin Faults, IInv, Alone, InSync, CooldownKept, [Next]_vars,
         Ending \/ Boot
  PROVE  CooldownKept'
<1>1. /\ UNCHANGED <<disk, now, wall, told>> /\ pc \in Resting /\ pc' \in Resting
      /\ pc # "store" /\ pc' \notin {"store", "init", "initStore"}
      /\ Ending => pc' \in Dead /\ data' = <<>>
      /\ Boot => \/ pc' = "idle" /\ data' = Load(config, disk)
                 \/ pc' = "refused" /\ data' = data
  <2>1. CASE Ending
    <3>1. pc = "idle" /\ pc' = "down" /\ data' = <<>> /\ UNCHANGED <<disk, now, wall, told>>
      BY <2>1, Zenon DEF Ending, Shutdown, Crash, Down, Injected, envVars, ghostVars
    <3>2. ~Boot
      BY <3>1 DEF Boot
    <3> QED
      BY <3>1, <3>2 DEF Resting, Dead
  <2>2. CASE Boot
    <3>1. ~Ending
      BY <2>2, EndingStep DEF Boot, Dead
    <3> QED
      BY <2>2, <3>1 DEF Boot, envVars, ghostVars, Resting
  <2> QED
    BY <2>1, <2>2
<1>2. \A i : ~Due(i)'
  <2> SUFFICES ASSUME NEW i, Due(i)' PROVE FALSE
    OBVIOUS
  <2>1. toUpdate = {} /\ left \subseteq toUpdate
    BY <1>1 DEF IInv, CycleShape, TypeOK
  <2>2. ~Decide /\ ~Due(i)
    BY <1>1, <2>1 DEF Decide, Due, Resting
  <2> QED
    BY <2>2, DueStep
<1>3. \A q : ~Unrecorded(q) /\ ~Unrecorded(q)'
  BY <1>1 DEF Unrecorded
<1>4. \A i \in DOMAIN data' : Remembered(data'[i], told[data'[i].prov], now, wall)
  <2>1. CASE data' = <<>> \/ (data' = data)
    BY <1>3, <2>1 DEF CooldownKept
  <2>2. CASE data' = Load(config, disk)
    <3> SUFFICES ASSUME NEW i \in DOMAIN data'
                 PROVE  Remembered(data'[i], told[data'[i].prov], now, wall)
      OBVIOUS
    <3> DEFINE p == config[i]
    <3>1. /\ data'[i] = NewRecord(p, FilterEvents(disk[p.key], p.version)) /\ i \in DOMAIN config
          /\ config \in Seq(Providers)
      BY <2>2, LoadConfigured, ConfigsAssumption DEF IInv, TypeOK
    <3>2. p \in Providers /\ data'[i].prov = p
      BY <3>1 DEF NewRecord
    <3>3. p.key \in Keys /\ p.version \in Versions /\ now \in Int /\ wall \in Int
      BY <3>2, ToldType DEF IInv
    <3>4. disk[p.key] \in Seq(Event) /\ \A j \in DOMAIN disk[p.key] : disk[p.key][j].mono = NoTime
      BY <3>3 DEF InSync, IInv, TypeOK
    <3>5. Recorded(disk[p.key], p.version, told[p], now, wall)
      BY <1>3, <3>2 DEF CooldownKept
    <3> HIDE DEF p
    <3> QED
      BY <3>1, <3>2, <3>3, <3>4, <3>5, RecordedLoads
  <2> QED
    BY <1>1, <2>1, <2>2
<1>5. pc' \in Dead => data' = <<>>
  <2>1. pc = "idle" \/ data = <<>>
    BY <1>1 DEF CooldownKept, Resting, Dead
  <2>2. Boot => pc # "idle"
    BY DEF Boot
  <2>3. "idle" \notin Dead
    BY DEF Dead
  <2> QED
    BY <1>1, <2>1, <2>2, <2>3
<1> QED
  BY <1>1, <1>2, <1>3, <1>4, <1>5 DEF CooldownKept

LEMMA CooldownKeptPreserved ==
  ASSUME Handlers = {}, {"kill", "write"} \cap Faults = {},
         IInv, Alone, InSync, CooldownKept, [Next]_vars
  PROVE  CooldownKept'
<1>1. WholeWrites /\ "kill" \notin Faults
  BY DEF WholeWrites
<1>2. CASE Cancel \/ UNCHANGED vars
  BY <1>2 DEF Cancel, vars, envVars, dbVars, cycleVars, ghostVars, CooldownKept, Unrecorded, Due
<1> QED
  BY <1>1, <1>2, CooldownKeptWalking, CooldownKeptStoring, CooldownKeptCalling, CooldownKeptLater,
     CooldownKeptLife, NextAlone

(* Once a provider confirmed an update it is not called again for that record *)
(* within the cooldown, however often the program is stopped and restarted    *)
(* and wherever the wall clock is set back to: the time read from the file    *)
(* may then be too late, never too early. The confirmation must have reached   *)
(* the file, so a failed write and a kill are excluded, as TLC shows they      *)
(* must be.                                                                *)
THEOREM CooldownRespectedAlone ==
  ASSUME Handlers = {}, {"kill", "write"} \cap Faults = {} PROVE Spec => CooldownRespected
<1>1. IInv /\ Alone /\ InSync /\ CooldownKept /\ [Next]_vars => Alone' /\ InSync' /\ CooldownKept'
  <2>1. WholeWrites
    BY DEF WholeWrites
  <2> QED
    BY <2>1, AlonePreserved, InSyncPreserved, CooldownKeptPreserved
<1>2. IInv /\ Alone /\ CooldownKept /\ [Next]_vars =>
        [Calling => LET t == told[job.rec.prov].ok IN t = NoTime \/ now - t >= Cooldown]_vars
  <2> SUFFICES ASSUME IInv, Alone, CooldownKept, Calling PROVE Cooled(told[job.rec.prov], now)
    BY DEF Cooled
  <2>1. pc = "call" /\ Due(job.id)
    BY DEF Calling, Due
  <2>2. job.id \in DOMAIN data /\ job.rec.prov = data[job.id].prov
    BY <2>1, InHand DEF Working
  <2> QED
    BY <2>1, <2>2 DEF CooldownKept
<1> QED
  BY <1>1, <1>2, AloneInitially, InSyncInitially, CooldownKeptInitially, Inductive, PTL
     DEF Spec, CooldownRespected
=============================================================================

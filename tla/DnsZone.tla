------------------------------ MODULE DnsZone ------------------------------
(***************************************************************************)
(* One entry of the configuration, the zone its DNS provider hosts and the *)
(* call of Provider.Update in progress. The modules that extend this one   *)
(* describe the requests of each provider client (internal/provider/       *)
(* providers); here is what they share: the names a client derives from    *)
(* the configured owner, the effect of a request on the zone, and how an   *)
(* exchange over HTTP may end.                                             *)
(*                                                                         *)
(* A record id is never given to another record while a call remembers it. *)
(***************************************************************************)
EXTENDS Integers, FiniteSets

CONSTANTS
  Entries,    \* the client, the owner ("@", "*" or a label), the zones it may
              \* find and the faults and deeds it may meet
  Addrs4, Addrs6,   \* the addresses an entry may be updated to, per family
  Parked, Elsewhere, \* values of records that are not addresses
  MaxDeeds,   \* bound: faults and deeds of users in a behaviour
  MaxRecords  \* bound: no call starts and no user adds in a zone larger than this

Addrs == Addrs4 \cup Addrs6
Outcomes == {"idle", "ok", "failed", "banned", "panicked"}
(* What may go wrong in an exchange, what users and the public address do
   meanwhile, and what an entry may ask for: "source", a request that has no
   address in it may come from another one than the target (the IPv6 suffix is
   not sent, or the public address changed since it was fetched); "either",
   the entry is of version "ipv4 or ipv6", and one client is asked for both;
   "keyless", the custom URL has no parameter for the address.              *)
AllFaults == {"lost", "unsure", "ignored", "refused", "banned", "odd",
              "move", "delete", "change", "add", "redirect",
              "source", "either", "keyless"}

VARIABLES
  client,  \* the provider of the entry
  owner,   \* p.owner
  faults,  \* what may happen to it
  zone,    \* the records of the zone
  target,  \* the ip argument of Update
  at,      \* the exchange the call is about to make, or how it ended; "idle":
           \* there was no call for this address
  mem,     \* the records the call remembers from earlier answers
  deeds,   \* the faults and users' deeds so far
  query,   \* the addresses a custom client has in its URL since earlier calls
  said,    \* the word a provider of the DynDNS kind answered last
  edits,   \* history: how many of the deeds were edits of our record by a user
  served   \* history: our record had the address at some moment of the call

entry == <<client, owner, faults>>
vars == <<entry, zone, target, at, mem, deeds, query, said, edits, served>>

TypeOf(ip) == IF ip \in Addrs4 THEN "A" ELSE "AAAA"
RecordType == TypeOf(target)

Names == {e.owner : e \in Entries} \cup {"@", "*", "www", "any", "at", "www2", "blog"}
ZoneRecord == [id : Nat \ {0}, name : Names, type : {"A", "AAAA", "ALIAS", "CNAME"},
               val : Addrs \cup {Parked, Elsewhere}]

ASSUME EntriesAssumption ==
  \A e \in Entries : e.faults \subseteq AllFaults /\ \A z \in e.zones : z \subseteq ZoneRecord
(* Zones are finite, an id is that of one record, and the records of a type
   of addresses have addresses.                                             *)
ASSUME ZonesAssumption ==
  /\ \A e \in Entries : \A z \in e.zones :
       /\ IsFiniteSet(z)
       /\ \A r, s \in z : r.id = s.id => r = s
       /\ \A r \in z : r.type \in {"A", "AAAA"} => r.val \in Addrs
  /\ Parked \notin Addrs
ASSUME BoundsAssumption == MaxDeeds \in Nat /\ MaxRecords \in Nat

-----------------------------------------------------------------------------
(* Names, relative to the domain.                                          *)

(* BuildURLQueryHostname: owner.domain, the domain itself for "@".          *)
QueryHostname == owner

(* A bug: the label a wildcard stands for is sent as it is.                 *)
DomainNameStarred == owner

(* BuildDomainName also puts "any" in the place of "*".                     *)
DomainName == IF owner = "*" THEN "any" ELSE owner

Matching(name, type) == {r \in zone : r.name = name /\ r.type = type}
Ours(type) == {r.val : r \in Matching(owner, type)}
Serving == target \in Ours(RecordType)

-----------------------------------------------------------------------------
(* What a request makes of the zone.                                       *)

(* An id that none of the records has.                                      *)
FreshAmong(records) ==
  CHOOSE i \in 1..(Cardinality(records) + 1) : \A r \in records : r.id # i
Fresh == FreshAmong(zone \cup mem)
Entered(name, ip) == [id |-> Fresh, name |-> name, type |-> TypeOf(ip), val |-> ip]
Exists(r) == \E s \in zone : s.id = r.id
Without(records) == {s \in zone : \A r \in records : s.id # r.id}

With(name, ip) == zone \cup {Entered(name, ip)}
Replaced(name, ip) == (zone \ Matching(name, TypeOf(ip))) \cup {Entered(name, ip)}
(* The records with this one replaced as well.                              *)
Along(records, name, ip) ==
  {r \in records : ~(r.name = name /\ r.type = TypeOf(ip))}
    \cup {[Entered(name, ip) EXCEPT !.id = FreshAmong(zone \cup records)]}
Edited(r, name, ip) ==
  Without({r}) \cup {[id |-> r.id, name |-> name, type |-> TypeOf(ip), val |-> ip]}

-----------------------------------------------------------------------------
(* The steps of a call.                                                    *)

At(c, step) == client = c /\ at = step
Goto(step, records) == at' = step /\ mem' = records

(* A bug: what the call remembers survives it.                               *)
ReturnWithMemory(outcome) == at' = outcome /\ UNCHANGED mem

Return(outcome) == at' = outcome /\ mem' = {}

Happens(fault) == fault \in faults /\ deeds < MaxDeeds /\ deeds' = deeds + 1

(* No usable answer, and nothing done: an error of the transport, a status,
   a body or an error field the client takes for a failure.                *)
NoAnswer == Happens("lost") /\ UNCHANGED zone /\ Return("failed")

(* A usable answer to a request that changes nothing.                       *)
Learns(then) == UNCHANGED <<zone, deeds>> /\ then
Reads(then) == NoAnswer \/ Learns(then)

(* A request that changes the zone: answered, refused, or done although the
   answer is lost. A client that compares what the answer echoes with what it
   sent fails when the provider did something else.                        *)
Writes(changed, then) ==
  \/ NoAnswer
  \/ Happens("unsure") /\ zone' = changed /\ Return("failed")
  \/ zone' = changed /\ UNCHANGED deeds /\ then

(* A client that does not look at the echo takes the status for granted.    *)
WritesBlindly(changed, then) ==
  \/ Writes(changed, then)
  \/ Happens("ignored") /\ UNCHANGED zone /\ then

(* An edit of a record by its id: refused when the record is gone.          *)
Edits(r, name, then) ==
  IF Exists(r) THEN Writes(Edited(r, name, target), then) ELSE Learns(Return("failed"))
EditsBlindly(r, name, then) ==
  IF Exists(r) THEN WritesBlindly(Edited(r, name, target), then)
  ELSE Learns(Return("failed"))

(* The records a listing returned, of which the client takes the first that
   fits: whichever comes first. The record is left alone if it already has
   the address.                                                             *)
TakesFirst(found, absent) ==
  Reads(IF found = {} THEN absent
        ELSE \E r \in found : IF r.val = target THEN Return("ok") ELSE Goto("edit", {r}))

(* The same of a client that does not compare the address.                  *)
TakesFirstAlways(found, absent) ==
  Reads(IF found = {} THEN absent ELSE \E r \in found : Goto("edit", {r}))

-----------------------------------------------------------------------------
(* The updater and the users.                                              *)

Calling == at \notin Outcomes
Room == Cardinality(zone) <= MaxRecords

(* Updater.Update calls the provider: for the first time, in a later cycle or
   after a restart of the program, whose client has the URL as configured.  *)
Call ==
  /\ at \in Outcomes /\ Room
  /\ Goto("start", {})
  /\ said' = "none" /\ query' \in {query, {}}
  /\ served' = Serving
  /\ UNCHANGED <<zone, target, deeds, edits>>

(* The public address changed since the last call, or it is the turn of the
   record of the other family.                                              *)
Move ==
  /\ at \in Outcomes
  /\ Happens("move")
  /\ target' \in Addrs \ {target}
  /\ at' = "idle" /\ served' = FALSE
  /\ UNCHANGED <<zone, mem, query, said, edits>>

(* What a user may do on the provider's web site: to our record, or to a
   record that was the placeholder of a parked domain.                       *)
UserEdit ==
  /\ \/ \E ip \in Addrs \ (Ours("A") \cup Ours("AAAA")) :
          \/ Happens("add") /\ Room /\ zone' = With(owner, ip)
          \/ Happens("change") /\ \E r \in Matching(owner, TypeOf(ip)) : zone' = Edited(r, owner, ip)
     \/ Happens("delete") /\ \E r \in zone : r.name = owner /\ zone' = zone \ {r}
     \/ /\ Happens("redirect")
        /\ \E r \in zone : r.val = Parked /\ zone' = Without({r}) \cup {[r EXCEPT !.val = Elsewhere]}
  /\ UNCHANGED <<target, at, mem, query, said>>
  /\ served' = (served \/ Serving') /\ edits' = edits + 1
=============================================================================

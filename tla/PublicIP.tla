------------------------------- MODULE PublicIP -------------------------------
(***************************************************************************)
(* How a cycle gets the public addresses: internal/update/getip.go asks    *)
(* pkg/publicip up to three times per family. Each try picks the next      *)
(* method, DNS over TLS or HTTPS, by a counter all families share; each    *)
(* method picks the next of its services: DNS by a counter of its own,     *)
(* HTTPS by a ring of URLs per family, which leaves out those that banned  *)
(* the program. Only one cycle runs at a time, so the locks of the rings   *)
(* are never contended.                                                    *)
(***************************************************************************)
EXTENDS Integers, Sequences, FiniteSets

CONSTANTS
  Setups,      \* what the program may be started with, see setup
  Resolvers,   \* how many DNS services there are
  CounterSize, \* 2^32 in the code: where the counters wrap; a multiple of 2 and
               \* of Resolvers
  MaxFaults    \* bound: failures, bans and useless answers of services

Versions == {"ipv4 or ipv6", "ipv4", "ipv6"}
Tries == 3

(* At least one method, as NewFetcher makes sure, one URL for each version, as
   its settings do, and one family, since there are records.                 *)
ASSUME PublicIPAssumption ==
  /\ \A s \in Setups :
       /\ s.methods \in {<<"dns">>, <<"http">>, <<"dns", "http">>}
       /\ s.families \in Seq(Versions) /\ s.families # <<>>
       /\ s.urls \in [Versions -> Nat \ {0}]
  /\ Resolvers \in Nat \ {0} /\ MaxFaults \in Nat
  /\ CounterSize \in Nat \ {0} /\ CounterSize % 2 = 0

VARIABLES
  setup,      \* methods: the enabled ones in the order of NewFetcher, "dns" first;
              \* families: the versions a cycle fetches, in order;
              \* urls: how many URLs each version has
  pc,         \* "idle", "pick" or "ask"
  current,    \* which of Families is being fetched
  try,        \* the try in progress
  counter, dnsCounter,
  index,      \* per version, the URL of its ring asked last
  banned,     \* per version, the URLs that are not asked any more
  service,    \* what is being asked
  got,        \* per version, the family of the address of its last fetch
  failed,     \* the methods that failed during the fetch in progress
  since,      \* per version and URL, the URLs asked since it was asked
  asked,      \* per version, the methods its last two tries asked
  faults

Methods == setup.methods
Enabled == {Methods[i] : i \in DOMAIN Methods}
Families == setup.families
Urls == setup.urls

vars == <<setup, pc, current, try, counter, dnsCounter, index, banned, service, got, failed, since, asked, faults>>
rings == <<index, banned, since>>

Ring(v) == 0..(Urls[v] - 1)
Version == Families[current]
NoService == [method |-> "none", at |-> 0]
NoAddress == 0
NotFetched == 1

Init ==
  /\ setup \in Setups
  /\ pc = "idle" /\ current = 1 /\ try = 1
  /\ counter = 0 /\ dnsCounter = 0
  /\ index = [v \in Versions |-> 0] /\ banned = [v \in Versions |-> {}]
  /\ service = NoService
  /\ got = [v \in Versions |-> NotFetched]
  /\ failed = {} /\ faults = 0
  /\ since = [v \in Versions |-> [u \in Ring(v) |-> Ring(v)]]
  /\ asked = [v \in Versions |-> <<>>]

-----------------------------------------------------------------------------
(* tryAndRepeatGettingIP.                                                   *)

(* The fetch of a family is over; the next one begins or the cycle ends.       *)
Finish(family) ==
  /\ got' = [got EXCEPT ![Version] = family]
  /\ try' = 1 /\ failed' = {}
  /\ IF current = Len(Families) THEN pc' = "idle" /\ current' = 1
     ELSE pc' = "pick" /\ current' = current + 1

(* A bug: the tries are not counted.                                          *)
TryFailedForever(method) ==
  /\ try' = try + 1 /\ failed' = failed \cup {method} /\ pc' = "pick"
  /\ UNCHANGED <<current, got>>

TryFailed(method) ==
  IF try = Tries THEN Finish(NoAddress)
  ELSE /\ try' = try + 1 /\ failed' = failed \cup {method} /\ pc' = "pick"
       /\ UNCHANGED <<current, got>>

StartCycle ==
  /\ pc = "idle" /\ pc' = "pick"
  /\ UNCHANGED <<current, try, counter, dnsCounter, rings, service, got, failed, asked, faults>>

-----------------------------------------------------------------------------
(* getSubFetcher: atomic.AddUint32, and the method at the counter's remainder. *)

(* A bug: a method is kept until it succeeds.                                 *)
NextCounterOnSuccess == IF Len(Methods) > 1 /\ try = 1 THEN (counter + 1) % CounterSize ELSE counter

NextCounter == IF Len(Methods) > 1 THEN (counter + 1) % CounterSize ELSE counter
MethodAt(c) == IF Len(Methods) = 1 THEN Methods[1] ELSE Methods[(c % Len(Methods)) + 1]

(* A bug: the search for a URL starts from the beginning of the ring.         *)
FirstUrl(v, open) == CHOOSE u \in open : \A w \in open : u <= w

(* The next URL after the last one that did not ban the program.              *)
NextUrl(v, open) ==
  LET At(k) == (index[v] + k) % Urls[v]
  IN  At(CHOOSE k \in 1..Urls[v] : At(k) \in open /\ \A j \in 1..(k - 1) : At(j) \notin open)

Ask(method, at) ==
  /\ service' = [method |-> method, at |-> at] /\ pc' = "ask"
  /\ UNCHANGED <<current, try, got, failed>>

AskResolver ==
  /\ dnsCounter' = (dnsCounter + 1) % CounterSize
  /\ Ask("dns", ((dnsCounter + 1) % CounterSize) % Resolvers)
  /\ UNCHANGED rings

(* A bug: one banned URL is taken for a ring without any other.               *)
AskUrlAnyBanned ==
  LET v == Version
      u == NextUrl(v, Ring(v))
  IN  /\ UNCHANGED <<dnsCounter, banned>>
      /\ index' = [index EXCEPT ![v] = u]
      /\ IF banned[v] # {}
         THEN TryFailed("http") /\ UNCHANGED <<since, service>>
         ELSE /\ since' = [since EXCEPT ![v] = [w \in Ring(v) |-> IF w = u THEN {} ELSE @[w] \cup {u}]]
              /\ Ask("http", u)

AskUrl ==
  LET v == Version
      open == Ring(v) \ banned[v]
  IN  /\ UNCHANGED <<dnsCounter, banned>>
      /\ IF open = {}
         THEN TryFailed("http") /\ UNCHANGED <<index, since, service>>
         ELSE LET u == NextUrl(v, open)
              IN  /\ index' = [index EXCEPT ![v] = u]
                  /\ since' = [since EXCEPT ![v] = [w \in Ring(v) |-> IF w = u THEN {} ELSE @[w] \cup {u}]]
                  /\ Ask("http", u)

LastTwo(seq) == IF Len(seq) > 2 THEN SubSeq(seq, Len(seq) - 1, Len(seq)) ELSE seq

PickMethod ==
  /\ pc = "pick"
  /\ counter' = NextCounter
  /\ LET method == MethodAt(counter')
     IN  /\ asked' = [asked EXCEPT ![Version] = LastTwo(Append(@, method))]
         /\ IF method = "dns" THEN AskResolver ELSE AskUrl
  /\ UNCHANGED faults

-----------------------------------------------------------------------------
(* The answer of a service. What it says is the sequence of the families of    *)
(* the addresses in it, in the order of the answer and without repetition.     *)

Answers == {<<>>, <<4>>, <<6>>, <<4, 6>>, <<6, 4>>, <<4, 4>>, <<6, 6>>}
Count(answer, f) == Cardinality({i \in DOMAIN answer : answer[i] = f})
Only(answer, f) == IF Count(answer, f) = 1 THEN f ELSE NoAddress

(* A bug: an address of either family will do.                               *)
HTTPAddressAny(v, answer) ==
  IF Only(answer, 4) # NoAddress THEN 4 ELSE Only(answer, 6)

(* http.fetch: exactly one address of the family, IPv4 first when both do.      *)
HTTPAddress(v, answer) ==
  CASE v = "ipv4" -> Only(answer, 4)
    [] v = "ipv6" -> Only(answer, 6)
    [] OTHER -> IF Only(answer, 4) # NoAddress THEN 4 ELSE Only(answer, 6)

(* A bug: the first address, whatever the family asked for.                   *)
DNSAddressAny(v, answer) == IF answer = <<>> THEN NoAddress ELSE answer[1]

(* dns.Fetcher: the first address, or the first one of the family.            *)
DNSAddress(v, answer) ==
  CASE v = "ipv4" -> IF Count(answer, 4) > 0 THEN 4 ELSE NoAddress
    [] v = "ipv6" -> IF Count(answer, 6) > 0 THEN 6 ELSE NoAddress
    [] OTHER -> IF answer = <<>> THEN NoAddress ELSE answer[1]

Address(answer) ==
  IF service.method = "dns" THEN DNSAddress(Version, answer) ELSE HTTPAddress(Version, answer)

(* What a service that works answers, and every other answer.                 *)
Useful(v) == CASE v = "ipv4" -> {<<4>>} [] v = "ipv6" -> {<<6>>} [] OTHER -> {<<4>>, <<6>>}
Fault == faults < MaxFaults /\ faults' = faults + 1

Answered ==
  /\ pc = "ask"
  /\ \E answer \in Answers :
       /\ IF answer \in Useful(Version) THEN UNCHANGED faults ELSE Fault
       /\ IF Address(answer) # NoAddress THEN Finish(Address(answer)) ELSE TryFailed(service.method)
  /\ service' = NoService
  /\ UNCHANGED <<counter, dnsCounter, rings, asked>>

(* No connection, a timeout, or an answer that does not parse.                *)
NotAnswered ==
  /\ pc = "ask" /\ Fault
  /\ TryFailed(service.method)
  /\ service' = NoService
  /\ UNCHANGED <<counter, dnsCounter, rings, asked>>

(* 403 or 429: the URL is left out until the program ends.                    *)
Banned ==
  /\ pc = "ask" /\ service.method = "http" /\ Fault
  /\ banned' = [banned EXCEPT ![Version] = @ \cup {service.at}]
  /\ TryFailed("http")
  /\ service' = NoService
  /\ UNCHANGED <<counter, dnsCounter, index, since, asked>>

Next ==
  /\ StartCycle \/ PickMethod \/ Answered \/ NotAnswered \/ Banned
  /\ UNCHANGED setup

(* The updater goes on with its cycles and every request has a timeout.       *)
Spec == Init /\ [][Next]_vars /\ WF_vars(Next)

-----------------------------------------------------------------------------
(* The parts of the state belong to their domains.                            *)
TypeOK ==
  /\ setup \in Setups
  /\ pc \in {"idle", "pick", "ask"} /\ current \in DOMAIN Families /\ try \in 1..Tries
  /\ counter \in 0..(CounterSize - 1) /\ dnsCounter \in 0..(CounterSize - 1)
  /\ \A v \in Versions : index[v] \in Ring(v) /\ banned[v] \subseteq Ring(v)
  /\ (service = NoService) = (pc # "ask")
  /\ failed \subseteq Enabled /\ faults \in 0..MaxFaults

(* An address is of the family it was asked for, whatever the services say.   *)
FamilyFits ==
  /\ got["ipv4"] \in {NotFetched, NoAddress, 4}
  /\ got["ipv6"] \in {NotFetched, NoAddress, 6}

(* No URL is asked again before every other one that has not banned the
   program was asked: bans do not make the ring favour some of the others.     *)
InTurn ==
  service'.method = "http" /\ service = NoService =>
    (Ring(Version) \ banned[Version]) \ {service'.at} \subseteq since[Version][service'.at]
RoundRobin == [][InTurn]_vars

FetchEnds == pc # "idle" /\ (current' # current \/ pc' = "idle")

(* With both methods enabled a fetch fails only when each of them failed: an
   outage of one of them is never the failure of a family.                    *)
AllFailed ==
  FetchEnds /\ got'[Version] = NoAddress =>
    Enabled \subseteq failed \cup {IF service = NoService THEN MethodAt(counter') ELSE service.method}
FailureNeedsAllMethods == [][AllFailed]_vars

(* Once the faults are over every family that has a service left is found
   again, and stays so.                                                     *)
HasService(v) == "dns" \in Enabled \/ banned[v] # Ring(v)
Fetched == {Families[i] : i \in DOMAIN Families}
Recovers ==
  \A v \in Versions : <>[](v \in Fetched /\ HasService(v) => got[v] \in {4, 6})

(* The methods are cycled: of two tries for a family each asks another one.    *)
Cycled ==
  \A v \in Versions : Len(asked[v]) = 2 => Cardinality({asked[v][1], asked[v][2]}) = Len(Methods)

(* At least where the program fetches one version only.                       *)
CycledAlone == Len(Families) = 1 => Cycled
=============================================================================

--------------------------- MODULE ProviderClients ---------------------------
(***************************************************************************)
(* Any of the clients at work on its entry: the calls of the updater, the  *)
(* exchanges of the client with its provider, and the users who edit the   *)
(* record on the provider's web site in between.                           *)
(***************************************************************************)
EXTENDS RecordClients, DynClients

Init ==
  /\ \E e \in Entries :
       client = e.client /\ owner = e.owner /\ faults = e.faults /\ zone \in e.zones
  /\ target \in Addrs
  /\ at = "idle" /\ mem = {} /\ query = {} /\ said = "none"
  /\ deeds = 0 /\ edits = 0 /\ served = FALSE

(* One exchange of the call in progress.                                    *)
Exchange ==
  /\ \/ RecordClient /\ UNCHANGED <<query, said>>
     \/ DynClient
  /\ UNCHANGED <<entry, target, edits>>
  /\ served' = (served \/ Serving')

Next ==
  \/ Exchange
  \/ UNCHANGED entry /\ (Call \/ Move \/ UserEdit)

(* The HTTP client has a timeout, so every exchange ends; the updater calls
   again as long as the records do not resolve to the address (see module
   UpdateCycle, and calling again when they do is harmless).                *)
Fairness == WF_vars(Exchange) /\ WF_vars(UNCHANGED entry /\ Call)
Spec == Init /\ [][Next]_vars /\ Fairness

-----------------------------------------------------------------------------
(* Clients that edit the first of the records found, and those that have no
   request to edit and add and remove instead.                               *)
TakingOne ==
  {"cloudflare", "namesilo", "hetzner", "hetznercloud", "gcp", "namecom", "netcup", "vercel",
   "vultr", "linode", "digitalocean", "dnspod", "luadns"}
WithoutEdit == {"dreamhost", "spaceship"}

(* The parts of the state belong to their domains, and a call in progress
   remembers records only between two exchanges.                            *)
TypeOK ==
  /\ \E e \in Entries : entry = <<e.client, e.owner, e.faults>>
  /\ zone \subseteq ZoneRecord /\ mem \subseteq ZoneRecord
  /\ target \in Addrs /\ query \subseteq Addrs
  /\ deeds \in 0..MaxDeeds /\ edits \in 0..deeds
  /\ said \in STRING /\ served \in BOOLEAN
  /\ ~Calling => mem = {}

(* A call that reports success did give our record the address, or found it
   there: Updater.Update then writes the address into the history and does
   not call again, so a success that is none leaves the record wrong until
   the next change of the address.                                          *)
OkMeansServed == at = "ok" => served

(* A client touches records of our name and of the type of the address only,
   and the placeholders of a parked domain: the other family of the same
   owner and the records of other names stay as they are.                   *)
Others == {r \in zone : ~(r.name = owner /\ r.type = RecordType) /\ r.val # Parked}
LeavesOthers == Exchange => Others' = Others
OthersUntouched == [][LeavesOthers]_vars

(* Calls that fail half-way and are repeated do not accumulate records: when
   no user adds one and there was one at most, a success leaves one. (Not of
   the clients that add a record and remove another.)                       *)
NoPileUp ==
  (at = "ok" /\ "add" \notin faults /\ client \notin WithoutEdit)
    => Cardinality(Matching(owner, RecordType)) <= 1

(* Some clients refuse a name that the user has made an alias of something
   else, or that has several addresses of a family.                          *)
Aliased == \E r \in zone : r.name = owner /\ r.val = Elsewhere
Several == Cardinality(Matching(owner, RecordType)) > 1

(* A call against a provider that answers every request as it should, with
   nobody else at work on the zone, succeeds, and the record has the address. *)
UndisturbedSucceeds ==
  deeds = 0 /\ ~Aliased /\ ~Several => at = "idle" \/ Calling \/ (at = "ok" /\ Serving)

(* A success leaves no other address beside the one asked for: those who look
   the name up do not get a stale one. (Not of the clients that take one of
   the records found, and when no user edits them at the same time.)         *)
NoStaleLeft ==
  (at = "ok" /\ edits = 0 /\ client \notin TakingOne \cup WithoutEdit)
    => Ours(RecordType) = {target}

(* A client does not panic, whatever the provider answers: a panic ends the
   program, and with it the updates of all the other records.               *)
NoPanic == at # "panicked"

(* Once faults and users' edits stop, the record gets the address and keeps
   it, unless its name was made an alias of something else.                 *)
Converges == <>[](Serving \/ Aliased)

-----------------------------------------------------------------------------
(* What the update cycle relies on, with the requests and the identities of
   the records hidden.                                                      *)
Phase == IF Calling THEN "calling" ELSE at

Contract == INSTANCE ProviderContract WITH
  gaps <- client = "spaceship",
  addrs <- [type \in {"A", "AAAA"} |-> Ours(type)], phase <- Phase

(* Each exchange of each client is a step the contract allows, or none: the
   addresses of our record change only towards the one asked for, at no
   moment is a record with an address left without one (but for spaceship,
   which deletes first), and a success is reported only of a record that had
   the address.                                                             *)
KeepsContract == Contract!ContractSpec
=============================================================================

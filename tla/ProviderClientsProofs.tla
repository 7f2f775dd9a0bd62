------------------------ MODULE ProviderClientsProofs ------------------------
(***************************************************************************)
(* What the success of a call means, and what its exchanges make of the zone, *)
(* for each of the clients and whatever entries, zones, addresses, faults and *)
(* edits by users.                                                          *)
(***************************************************************************)
EXTENDS ProviderClients, FiniteSetTheorems, TLAPS

(* Clients that send a name of their own making for some owners.              *)
Renaming == {"linode", "dynu", "he", "dd24", "duckdns", "goip"}

(* The clients that compare what the provider answers with what they sent.     *)
Checking ==
  {"cloudflare", "digitalocean", "dnspod", "luadns", "linode", "hetzner", "namecom", "netcup",
   "scaleway", "allinkl", "noip", "dnsomatic", "he", "infomaniak", "opendns", "duckdns", "goip",
   "njalla"}

(* The clients that may send no address, and leave it to the provider to look.  *)
Addressless == {"freedns", "custom"}

(* The name a client sends is that of our record.                             *)
NamesOurs(c, o) ==
  /\ c \in Renaming => o # "*"
  /\ c = "gcp" => o # "@"
  /\ c = "nowdns" => o = "@"

(* The entries whose name is sent as it is, at providers that do as they answer  *)
(* unless their client would see it, and that see the address asked for where  *)
(* none is sent.                                                             *)
HonestEntries ==
  \A e \in Entries :
    /\ NamesOurs(e.client, e.owner)
    /\ "ignored" \in e.faults => e.client \in Checking
    /\ e.client \in Addressless => "source" \notin e.faults

(* The stages a call reaches only after it has written the address.            *)
Written ==
  at = "ok" \/ At("hetznercloud", "wait") \/ At("ovh", "refresh") \/ At("dreamhost", "remove")

(* The clients that send back a record they have read remember records of ours. *)
Rereading == {"luadns", "linode", "ionos", "ovh"}

SInv ==
  /\ NamesOurs(client, owner) /\ ("ignored" \in faults => client \in Checking)
  /\ client \in Addressless => "source" \notin faults
  /\ Written => served
  /\ client \in Rereading => \A r \in mem : r.name = owner

(* What a step of a client must do to keep the invariant.                     *)
Outcome ==
  /\ Written' => served \/ Serving'
  /\ client \in Rereading => \A r \in mem' : r.name = owner

-----------------------------------------------------------------------------
(* The requests that give our record the address, and the answer that has it.  *)

LEMMA HasOurs ==
  ASSUME UNCHANGED <<entry, target>>,
         NEW r, r \in zone', r.name = owner, r.type = RecordType, r.val = target
  PROVE  Serving'
<1>1. owner' = owner /\ target' = target /\ RecordType' = RecordType
  BY DEF entry, RecordType, TypeOf
<1>2. r \in Matching(owner, RecordType)'
  BY <1>1 DEF Matching
<1> QED
  BY <1>1, <1>2 DEF Serving, Ours

LEMMA AddedServes ==
  ASSUME UNCHANGED <<entry, target>>, Entered(owner, target) \in zone'
  PROVE  Serving'
<1>1. /\ Entered(owner, target).name = owner /\ Entered(owner, target).val = target
      /\ Entered(owner, target).type = RecordType
  BY DEF Entered, RecordType
<1> QED
  BY <1>1, HasOurs

LEMMA WithServes ==
  ASSUME UNCHANGED <<entry, target>>,
         zone' = With(owner, target) \/ zone' = Replaced(owner, target)
  PROVE  Serving'
<1>1. Entered(owner, target) \in zone'
  BY DEF With, Replaced
<1> QED
  BY <1>1, AddedServes

LEMMA EditedServes ==
  ASSUME UNCHANGED <<entry, target>>, NEW r, zone' = Edited(r, owner, target)
  PROVE  Serving'
<1> DEFINE made == [id |-> r.id, name |-> owner, type |-> TypeOf(target), val |-> target]
<1>1. made \in zone' /\ made.name = owner /\ made.type = RecordType /\ made.val = target
  BY DEF Edited, RecordType
<1> QED
  BY <1>1, HasOurs

LEMMA FoundServes ==
  ASSUME UNCHANGED <<entry, target, zone>>,
         NEW r, r \in Matching(owner, RecordType), r.val = target
  PROVE  Serving'
<1>1. r \in zone' /\ r.name = owner /\ r.type = RecordType
  BY DEF Matching
<1> QED
  BY <1>1, HasOurs

-----------------------------------------------------------------------------
(* The exchanges the clients are made of. An exchange that fails:             *)
LEMMA FailureKeeps ==
  ASSUME Return("failed") \/ Return("banned") \/ Return("panicked")
  PROVE  Outcome
BY DEF Return, Outcome, Written, At

(* A listing of our records, of which the first is taken.                     *)
LEMMA TakesFirstKeeps ==
  ASSUME UNCHANGED <<entry, target>>,
         TakesFirst(Matching(owner, RecordType), Goto("create", {}))
           \/ TakesFirst(Matching(owner, RecordType), Return("failed"))
  PROVE  Outcome
<1>1. CASE NoAnswer
  BY <1>1, FailureKeeps DEF NoAnswer
<1>2. CASE UNCHANGED zone /\ Goto("create", {})
  BY <1>2 DEF Goto, Outcome, Written, At
<1>3. CASE Return("failed")
  BY <1>3, FailureKeeps
<1>4. ASSUME NEW r \in Matching(owner, RecordType), UNCHANGED zone,
             IF r.val = target THEN Return("ok") ELSE Goto("edit", {r})
      PROVE  Outcome
  <2>1. CASE r.val = target
    BY <1>4, <2>1, FoundServes DEF Return, Outcome
  <2>2. CASE r.val # target
    BY <1>4, <2>2 DEF Goto, Outcome, Written, At, Matching
  <2> QED
    BY <2>1, <2>2
<1> QED
  BY <1>1, <1>2, <1>3, <1>4 DEF TakesFirst, Reads, Learns

LEMMA TakesFirstAlwaysKeeps ==
  ASSUME UNCHANGED <<entry, target>>,
         TakesFirstAlways(Matching(owner, RecordType), Goto("create", {}))
           \/ TakesFirstAlways(Matching(owner, RecordType), Goto("edit", {}))
           \/ TakesFirstAlways(Matching(owner, RecordType), Return("failed"))
  PROVE  Outcome
<1>1. CASE NoAnswer
  BY <1>1, FailureKeeps DEF NoAnswer
<1>2. CASE UNCHANGED zone /\ (Goto("create", {}) \/ Goto("edit", {}))
  BY <1>2 DEF Goto, Outcome, Written, At
<1>3. CASE Return("failed")
  BY <1>3, FailureKeeps
<1>4. ASSUME NEW r \in Matching(owner, RecordType), Goto("edit", {r})
      PROVE  Outcome
  BY <1>4 DEF Goto, Outcome, Written, At, Matching
<1> QED
  BY <1>1, <1>2, <1>3, <1>4 DEF TakesFirstAlways, Reads, Learns

(* A request that gives our record the address, after which the call succeeds.  *)
LEMMA WritesKeeps ==
  ASSUME UNCHANGED <<entry, target>>,
         NEW changed \in {With(owner, target), Replaced(owner, target)},
         \/ Writes(changed, Return("ok"))
         \/ "ignored" \notin faults /\ WritesBlindly(changed, Return("ok"))
  PROVE  Outcome
<1>1. CASE Return("failed")
  BY <1>1, FailureKeeps
<1>2. CASE zone' = changed /\ Return("ok")
  BY <1>2, WithServes DEF Return, Outcome
<1> QED
  BY <1>1, <1>2 DEF Writes, WritesBlindly, NoAnswer, Happens

LEMMA EditsKeeps ==
  ASSUME UNCHANGED <<entry, target>>, NEW r,
         \/ Edits(r, owner, Return("ok"))
         \/ "ignored" \notin faults /\ EditsBlindly(r, owner, Return("ok"))
  PROVE  Outcome
<1>1. CASE Return("failed")
  BY <1>1, FailureKeeps
<1>2. CASE zone' = Edited(r, owner, target) /\ Return("ok")
  BY <1>2, EditedServes DEF Return, Outcome
<1> QED
  BY <1>1, <1>2 DEF Edits, EditsBlindly, Writes, WritesBlindly, NoAnswer, Happens, Learns

(* One of several edits, with records left to edit or another request to make.   *)
LEMMA EditsOneKeeps ==
  ASSUME SInv, UNCHANGED <<entry, target>>, "ignored" \notin faults,
         NEW r \in mem,
         \/ EditsBlindly(r, owner, IF mem = {r} THEN Return("ok") ELSE Goto("edit", mem \ {r}))
         \/ EditsBlindly(r, owner,
                         IF mem = {r} THEN Goto("refresh", {}) ELSE Goto("edit", mem \ {r}))
  PROVE  Outcome
<1>1. CASE Return("failed")
  BY <1>1, FailureKeeps
<1>2. CASE /\ zone' = Edited(r, owner, target)
           /\ mem' = {} \/ mem' = mem \ {r}
  <2>1. Serving'
    BY <1>2, EditedServes
  <2> QED
    BY <1>2, <2>1 DEF Outcome, SInv
<1> QED
  BY <1>1, <1>2 DEF EditsBlindly, Writes, WritesBlindly, NoAnswer, Happens, Learns, Return, Goto

(* An answer that leads to another question, or to a failure.                 *)
LEMMA AsksOnKeeps ==
  ASSUME Reads(Goto("record", {})) \/ Reads(Goto("list", {})) \/ Reads(Goto("info", {}))
  PROVE  Outcome
<1>1. CASE Return("failed")
  BY <1>1, FailureKeeps
<1>2. CASE Goto("record", {}) \/ Goto("list", {}) \/ Goto("info", {})
  BY <1>2 DEF Goto, Outcome, Written, At
<1> QED
  BY <1>1, <1>2 DEF Reads, NoAnswer, Learns

-----------------------------------------------------------------------------
(* The clients, one by one.                                                 *)

LEMMA CloudflareStep ==
  ASSUME SInv, UNCHANGED <<entry, target>>, Cloudflare
  PROVE  Outcome
<1>1. CASE CloudflareGetRecordID
  BY <1>1, TakesFirstKeeps DEF CloudflareGetRecordID, QueryHostname
<1>2. CASE CloudflareCreateRecord
  <2>1. CASE Return("failed")
    BY <2>1, FailureKeeps
  <2>2. CASE \E made : Goto("edit", {made})
    BY <1>2, <2>2 DEF CloudflareCreateRecord, Goto, Outcome, Written, At, Rereading, entry
  <2> QED
    BY <1>2, <2>1, <2>2 DEF CloudflareCreateRecord, Writes, NoAnswer
<1>3. CASE CloudflareUpdate
  BY <1>3, EditsKeeps DEF CloudflareUpdate, QueryHostname
<1> QED
  BY <1>1, <1>2, <1>3 DEF Cloudflare

LEMMA EditorsStep ==
  ASSUME SInv, UNCHANGED <<entry, target>>,
         DigitaloceanGetRecordID \/ DigitaloceanUpdate \/ DnspodUpdate \/ Luadns
  PROVE  Outcome
<1>1. CASE DigitaloceanGetRecordID
  BY <1>1, TakesFirstAlwaysKeeps DEF DigitaloceanGetRecordID, QueryHostname
<1>2. CASE DigitaloceanUpdate
  BY <1>2, EditsKeeps DEF DigitaloceanUpdate
<1>3. CASE DnspodUpdate
  BY <1>3, TakesFirstKeeps, EditsKeeps DEF DnspodUpdate
<1>4. CASE LuadnsGetZoneID
  BY <1>4, AsksOnKeeps DEF LuadnsGetZoneID
<1>5. CASE LuadnsGetRecord
  BY <1>5, TakesFirstAlwaysKeeps DEF LuadnsGetRecord, QueryHostname
<1>6. CASE LuadnsUpdateRecord
  <2>1. PICK r \in mem : Edits(r, r.name, Return("ok"))
    BY <1>6 DEF LuadnsUpdateRecord
  <2>2. r.name = owner
    BY <1>6, <2>1 DEF LuadnsUpdateRecord, At, SInv, Rereading
  <2> QED
    BY <2>1, <2>2, EditsKeeps
<1> QED
  BY <1>1, <1>2, <1>3, <1>4, <1>5, <1>6 DEF Luadns

LEMMA DreamhostStep ==
  ASSUME SInv, UNCHANGED <<entry, target>>, Dreamhost
  PROVE  Outcome
<1>1. client = "dreamhost" /\ "ignored" \notin faults /\ client' = client
  BY DEF Dreamhost, DreamhostUpdate, DreamhostCreateRecord, DreamhostRemoveRecord, At, SInv,
     Checking, entry
<1>2. SUFFICES Written' => served \/ Serving'
  BY <1>1 DEF Outcome, Rereading
<1>3. CASE Return("failed")
  BY <1>3, FailureKeeps DEF Outcome
<1>4. CASE DreamhostUpdate
  <2>1. CASE \E old : Goto("create", old)
    BY <1>1, <2>1 DEF Goto, Written, At
  <2>2. CASE UNCHANGED zone /\ \E r \in Matching(owner, RecordType) : r.val = target
    BY <2>2, FoundServes
  <2> QED
    BY <1>3, <1>4, <2>1, <2>2 DEF DreamhostUpdate, Reads, Learns, NoAnswer, QueryHostname
<1>5. CASE DreamhostCreateRecord
  <2>1. CASE zone' = With(owner, target)
    BY <2>1, WithServes
  <2> QED
    BY <1>1, <1>3, <1>5, <2>1 DEF DreamhostCreateRecord, WritesBlindly, Writes, NoAnswer,
       Happens, QueryHostname
<1>6. CASE DreamhostRemoveRecord
  BY <1>6 DEF DreamhostRemoveRecord, SInv, Written
<1> QED
  BY <1>4, <1>5, <1>6 DEF Dreamhost

LEMMA SpaceshipStep ==
  ASSUME SInv, UNCHANGED <<entry, target>>, Spaceship
  PROVE  Outcome
<1>1. client = "spaceship" /\ "ignored" \notin faults /\ client' = client
  BY DEF Spaceship, SpaceshipGetRecords, SpaceshipDeleteRecord, SpaceshipCreateRecord, At, SInv,
     Checking, entry
<1>2. CASE SpaceshipGetRecords
  BY <1>2, TakesFirstKeeps DEF SpaceshipGetRecords
<1>3. CASE SpaceshipDeleteRecord
  <2>1. CASE Return("failed")
    BY <2>1, FailureKeeps
  <2>2. CASE Goto("create", {})
    BY <2>2 DEF Goto, Outcome, Written, At
  <2> QED
    BY <1>1, <1>3, <2>1, <2>2 DEF SpaceshipDeleteRecord, WritesBlindly, Writes, NoAnswer, Happens,
       Learns
<1>4. CASE SpaceshipCreateRecord
  BY <1>1, <1>4, WritesKeeps DEF SpaceshipCreateRecord
<1> QED
  BY <1>2, <1>3, <1>4 DEF Spaceship

LEMMA LinodeStep ==
  ASSUME SInv, UNCHANGED <<entry, target>>, Linode
  PROVE  Outcome
<1>1. client = "linode" /\ DomainName = owner
  BY DEF Linode, LinodeGetDomainID, LinodeGetRecordID, LinodeCreateRecord, LinodeUpdateRecord, At,
     SInv, NamesOurs, Renaming, DomainName
<1>2. CASE LinodeGetDomainID
  BY <1>2, AsksOnKeeps DEF LinodeGetDomainID
<1>3. CASE LinodeGetRecordID
  BY <1>3, TakesFirstAlwaysKeeps DEF LinodeGetRecordID
<1>4. CASE LinodeCreateRecord
  BY <1>1, <1>4, WritesKeeps DEF LinodeCreateRecord
<1>5. CASE LinodeUpdateRecord
  <2>1. PICK r \in mem : Edits(r, r.name, Return("ok"))
    BY <1>5 DEF LinodeUpdateRecord
  <2>2. r.name = owner
    BY <1>1, <2>1 DEF SInv, Rereading
  <2> QED
    BY <2>1, <2>2, EditsKeeps
<1> QED
  BY <1>2, <1>3, <1>4, <1>5 DEF Linode

LEMMA NamesiloStep ==
  ASSUME SInv, UNCHANGED <<entry, target>>, Namesilo
  PROVE  Outcome
<1>1. client = "namesilo" /\ "ignored" \notin faults
  BY DEF Namesilo, NamesiloGetRecord, NamesiloCreateRecord, NamesiloUpdateRecord,
     NamesiloValidateResponseCode, At, SInv, Checking
<1>2. CASE NamesiloGetRecord
  BY <1>2, TakesFirstKeeps DEF NamesiloGetRecord, QueryHostname
<1>3. CASE NamesiloCreateRecord
  BY <1>1, <1>3, WritesKeeps DEF NamesiloCreateRecord
<1>4. CASE NamesiloUpdateRecord
  BY <1>1, <1>4, EditsKeeps DEF NamesiloUpdateRecord
<1>5. CASE NamesiloValidateResponseCode
  BY <1>5, FailureKeeps DEF NamesiloValidateResponseCode
<1> QED
  BY <1>2, <1>3, <1>4, <1>5 DEF Namesilo

LEMMA HetznerStep ==
  ASSUME SInv, UNCHANGED <<entry, target>>, Hetzner
  PROVE  Outcome
<1>1. CASE HetznerGetRecordID
  BY <1>1, TakesFirstKeeps DEF HetznerGetRecordID
<1>2. CASE HetznerCreateRecord
  BY <1>2, WritesKeeps DEF HetznerCreateRecord
<1>3. CASE HetznerUpdateRecord
  BY <1>3, EditsKeeps DEF HetznerUpdateRecord
<1> QED
  BY <1>1, <1>2, <1>3 DEF Hetzner

LEMMA HetznercloudStep ==
  ASSUME SInv, UNCHANGED <<entry, target>>, Hetznercloud
  PROVE  Outcome
<1>1. client = "hetznercloud" /\ "ignored" \notin faults /\ client' = client
  BY DEF Hetznercloud, HetznercloudGetRecord, HetznercloudCreateRRSet, HetznercloudSetRecord,
     HetznercloudWaitAction, HetznercloudHandleErrorResponse, At, SInv, Checking, entry
<1>2. SUFFICES Written' => served \/ Serving'
  BY <1>1 DEF Outcome, Rereading
<1>3. CASE Return("failed") \/ Return("panicked")
  BY <1>3, FailureKeeps DEF Outcome
<1>4. CASE HetznercloudGetRecord
  <2>1. CASE Goto("create", {}) \/ Goto("set", {})
    BY <1>1, <2>1 DEF Goto, Written, At
  <2>2. CASE UNCHANGED zone /\ \E r \in Matching(owner, RecordType) : r.val = target
    BY <2>2, FoundServes
  <2> QED
    BY <1>3, <1>4, <2>1, <2>2 DEF HetznercloudGetRecord, Reads, Learns, NoAnswer
<1>5. CASE HetznercloudCreateRRSet \/ HetznercloudSetRecord
  BY <1>1, <1>3, <1>5, WithServes DEF HetznercloudCreateRRSet, HetznercloudSetRecord,
     WritesBlindly, Writes, NoAnswer, Happens
<1>6. CASE HetznercloudWaitAction
  BY <1>6 DEF HetznercloudWaitAction, SInv, Written
<1>7. CASE HetznercloudHandleErrorResponse
  BY <1>3, <1>7 DEF HetznercloudHandleErrorResponse
<1> QED
  BY <1>4, <1>5, <1>6, <1>7 DEF Hetznercloud

LEMMA GcpStep ==
  ASSUME SInv, UNCHANGED <<entry, target>>, Gcp
  PROVE  Outcome
<1>1. client = "gcp" /\ "ignored" \notin faults /\ client' = client /\ GcpName = owner
  BY DEF Gcp, GcpGetRRSet, GcpCreateRRSet, GcpPatchRRSet, At, SInv, Checking, entry, GcpName,
     NamesOurs
<1>2. CASE GcpGetRRSet
  <2>1. CASE Return("failed") \/ Return("panicked")
    BY <2>1, FailureKeeps
  <2>2. CASE Goto("create", {}) \/ Goto("patch", {})
    BY <1>1, <2>2 DEF Goto, Outcome, Written, At
  <2>3. CASE UNCHANGED zone /\ (\E r \in Matching(owner, RecordType) : r.val = target)
    <3>1. Serving'
      BY <2>3, FoundServes
    <3> QED
      BY <1>1, <3>1 DEF Outcome, Rereading
  <2> QED
    BY <1>1, <1>2, <2>1, <2>2, <2>3 DEF GcpGetRRSet, Reads, Learns, NoAnswer
<1>3. CASE GcpCreateRRSet
  <2>1. WritesBlindly(With(owner, target), Return("ok")) \/ Return("failed")
    BY <1>1, <1>3 DEF GcpCreateRRSet, Learns
  <2> QED
    BY <1>1, <2>1, WritesKeeps, FailureKeeps
<1>4. CASE GcpPatchRRSet
  <2>1. WritesBlindly(Replaced(owner, target), Return("ok")) \/ Return("failed")
    BY <1>1, <1>4 DEF GcpPatchRRSet, Learns
  <2> QED
    BY <1>1, <2>1, WritesKeeps, FailureKeeps
<1> QED
  BY <1>2, <1>3, <1>4 DEF Gcp

LEMMA IonosStep ==
  ASSUME SInv, UNCHANGED <<entry, target>>, Ionos
  PROVE  Outcome
<1>1. client = "ionos" /\ "ignored" \notin faults /\ client' = client
  BY DEF Ionos, IonosGetZones, IonosGetRecords, IonosCreateRecord, IonosUpdateRecord, At, SInv,
     Checking, entry
<1>2. CASE IonosGetZones
  BY <1>2, AsksOnKeeps DEF IonosGetZones
<1>3. CASE IonosGetRecords
  <2> DEFINE found == {r \in Matching(DomainName, RecordType) : r.name = QueryHostname}
             stale == {r \in found : r.val # target}
  <2>1. found \subseteq Matching(owner, RecordType)
    BY DEF Matching, QueryHostname
  <2>2. CASE Return("failed")
    BY <2>2, FailureKeeps
  <2>3. CASE Goto("create", {}) \/ Goto("edit", stale)
    BY <1>1, <2>1, <2>3 DEF Goto, Outcome, Written, At, Matching
  <2>4. CASE UNCHANGED zone /\ found # {} /\ stale = {} /\ Return("ok")
    <3>1. Serving'
      BY <2>1, <2>4, FoundServes
    <3> QED
      BY <2>4, <3>1 DEF Outcome, Return
  <2> QED
    BY <1>3, <2>2, <2>3, <2>4 DEF IonosGetRecords, Reads, Learns, NoAnswer
<1>4. CASE IonosCreateRecord
  BY <1>1, <1>4, WritesKeeps DEF IonosCreateRecord, QueryHostname
<1>5. CASE IonosUpdateRecord
  BY <1>1, <1>5, EditsOneKeeps DEF IonosUpdateRecord, SInv, Rereading
<1> QED
  BY <1>2, <1>3, <1>4, <1>5 DEF Ionos

LEMMA OvhStep ==
  ASSUME SInv, UNCHANGED <<entry, target>>, Ovh
  PROVE  Outcome
<1>1. client = "ovh" /\ "ignored" \notin faults /\ client' = client
  BY DEF Ovh, OvhGetTimeDelta, OvhGetRecords, OvhCreateRecord, OvhUpdateRecord, OvhRefresh, At,
     SInv, Checking, entry
<1>2. CASE Return("failed")
  BY <1>2, FailureKeeps
<1>3. CASE OvhGetTimeDelta
  BY <1>3, AsksOnKeeps DEF OvhGetTimeDelta
<1>4. CASE OvhGetRecords
  <2>1. CASE Goto("create", {}) \/ Goto("edit", Matching(owner, RecordType))
    BY <1>1, <2>1 DEF Goto, Outcome, Written, At, Matching
  <2> QED
    BY <1>2, <1>4, <2>1 DEF OvhGetRecords, Reads, Learns, NoAnswer
<1>5. CASE OvhCreateRecord
  <2>1. CASE zone' = With(owner, target) /\ Goto("refresh", {})
    BY <2>1, WithServes DEF Goto, Outcome
  <2> QED
    BY <1>1, <1>2, <1>5, <2>1 DEF OvhCreateRecord, WritesBlindly, Writes, NoAnswer, Happens
<1>6. CASE OvhUpdateRecord
  BY <1>1, <1>6, EditsOneKeeps DEF OvhUpdateRecord, SInv, Rereading
<1>7. CASE OvhRefresh
  <2>1. served
    BY <1>7 DEF OvhRefresh, SInv, Written
  <2>2. CASE Return("ok")
    BY <2>1, <2>2 DEF Return, Outcome
  <2> QED
    BY <1>2, <1>7, <2>2 DEF OvhRefresh, Reads, Learns, NoAnswer
<1> QED
  BY <1>3, <1>4, <1>5, <1>6, <1>7 DEF Ovh

LEMMA PorkbunStep ==
  ASSUME SInv, UNCHANGED <<entry, target>>, Porkbun
  PROVE  Outcome
<1>1. client = "porkbun" /\ "ignored" \notin faults /\ client' = client
  BY DEF Porkbun, PorkbunGetRecords, PorkbunDefaultConflicts, PorkbunDeleteRecord,
     PorkbunCreateRecord, PorkbunUpdateRecord, At, SInv, Checking, entry
<1>2. CASE Return("failed")
  BY <1>2, FailureKeeps
<1>3. CASE \E stage \in {"create", "alias", "cname", "edit", "deleteCname", "deleteAlias"} :
             \E found : Goto(stage, found)
  BY <1>1, <1>3 DEF Goto, Outcome, Written, At, Rereading
<1>4. CASE PorkbunGetRecords
  BY <1>2, <1>3, <1>4 DEF PorkbunGetRecords, Reads, Learns, NoAnswer
<1>5. CASE PorkbunDefaultConflicts
  BY <1>2, <1>3, <1>5 DEF PorkbunDefaultConflicts, PorkbunConflicts, Reads, Learns, NoAnswer
<1>6. CASE PorkbunDeleteRecord
  BY <1>1, <1>2, <1>3, <1>6 DEF PorkbunDeleteRecord, WritesBlindly, Writes, NoAnswer, Happens
<1>7. CASE PorkbunCreateRecord
  BY <1>1, <1>7, WritesKeeps DEF PorkbunCreateRecord
<1>8. CASE PorkbunUpdateRecord
  BY <1>1, <1>8, EditsOneKeeps DEF PorkbunUpdateRecord
<1> QED
  BY <1>4, <1>5, <1>6, <1>7, <1>8 DEF Porkbun

LEMMA NamecomStep ==
  ASSUME SInv, UNCHANGED <<entry, target>>, Namecom
  PROVE  Outcome
<1>1. CASE NamecomGetRecordID
  BY <1>1, TakesFirstAlwaysKeeps DEF NamecomGetRecordID
<1>2. CASE NamecomCreateRecord
  BY <1>2, WritesKeeps DEF NamecomCreateRecord
<1>3. CASE NamecomUpdateRecord
  BY <1>3, EditsKeeps DEF NamecomUpdateRecord
<1> QED
  BY <1>1, <1>2, <1>3 DEF Namecom

LEMMA NetcupStep ==
  ASSUME SInv, UNCHANGED <<entry, target>>, Netcup
  PROVE  Outcome
<1>1. CASE NetcupLogin
  BY <1>1, AsksOnKeeps DEF NetcupLogin
<1>2. CASE NetcupGetRecordToUpdate
  BY <1>2, TakesFirstAlwaysKeeps DEF NetcupGetRecordToUpdate
<1>3. CASE NetcupUpdateDNSRecords
  <2>1. CASE Return("failed")
    BY <2>1, FailureKeeps
  <2>2. ASSUME NEW r \in zone', r.name = owner, r.type = RecordType, r.val = target, Return("ok")
        PROVE  Outcome
    BY <2>2, HasOurs DEF Return, Outcome
  <2> QED
    BY <1>3, <2>1, <2>2 DEF NetcupUpdateDNSRecords, Writes, NoAnswer, Learns
<1> QED
  BY <1>1, <1>2, <1>3 DEF Netcup

LEMMA VercelVultrStep ==
  ASSUME SInv, UNCHANGED <<entry, target>>, Vercel \/ Vultr
  PROVE  Outcome
<1>1. client \in {"vercel", "vultr"} /\ "ignored" \notin faults
  BY DEF Vercel, VercelGetRecord, VercelCreateRecord, VercelUpdateRecord, Vultr, VultrGetRecord,
     VultrCreateRecord, VultrUpdateRecord, At, SInv, Checking
<1>2. CASE VercelGetRecord \/ VultrGetRecord
  BY <1>2, TakesFirstKeeps, FailureKeeps DEF VercelGetRecord, VultrGetRecord, Learns
<1>3. CASE VercelCreateRecord \/ VultrCreateRecord
  BY <1>1, <1>3, WritesKeeps DEF VercelCreateRecord, VultrCreateRecord
<1>4. CASE VercelUpdateRecord \/ VultrUpdateRecord
  BY <1>1, <1>4, EditsKeeps DEF VercelUpdateRecord, VultrUpdateRecord
<1> QED
  BY <1>2, <1>3, <1>4 DEF Vercel, Vultr

LEMMA AliyunStep ==
  ASSUME SInv, UNCHANGED <<entry, target>>, Aliyun
  PROVE  Outcome
<1>1. client = "aliyun" /\ "ignored" \notin faults /\ client' = client
  BY DEF Aliyun, AliyunGetRecordID, AliyunCreateRecord, AliyunUpdateRecord, At, SInv, Checking,
     entry
<1>2. CASE Return("failed")
  BY <1>2, FailureKeeps
<1>3. CASE \E stage \in {"create", "edit"} : \E found : Goto(stage, found)
  BY <1>1, <1>3 DEF Goto, Outcome, Written, At, Rereading
<1>4. CASE AliyunGetRecordID
  BY <1>2, <1>3, <1>4 DEF AliyunGetRecordID, Reads, Learns, NoAnswer
<1>5. CASE AliyunCreateRecord
  BY <1>1, <1>2, <1>3, <1>5 DEF AliyunCreateRecord, WritesBlindly, Writes, NoAnswer, Happens
<1>6. CASE AliyunUpdateRecord
  BY <1>1, <1>6, EditsKeeps DEF AliyunUpdateRecord
<1> QED
  BY <1>4, <1>5, <1>6 DEF Aliyun

LEMMA ReplacersStep ==
  ASSUME SInv, UNCHANGED <<entry, target>>,
         GandiUpdate \/ GodaddyUpdate \/ Route53Update \/ ScalewayUpdate \/ ServercowUpdate
  PROVE  Outcome
<1>1. CASE ScalewayUpdate
  BY <1>1, WritesKeeps DEF ScalewayUpdate
<1>2. CASE GandiUpdate \/ GodaddyUpdate \/ Route53Update \/ ServercowUpdate
  <2>1. "ignored" \notin faults
    BY <1>2 DEF GandiUpdate, GodaddyUpdate, Route53Update, ServercowUpdate, At, SInv, Checking
  <2> QED
    BY <1>2, <2>1, WritesKeeps DEF GandiUpdate, GodaddyUpdate, Route53Update, ServercowUpdate,
       QueryHostname
<1> QED
  BY <1>1, <1>2

-----------------------------------------------------------------------------
(* The clients of one request.                                               *)

LEMMA NamedServes ==
  ASSUME UNCHANGED <<entry, target>>, NEW name, name = owner, zone' = Named(name)
  PROVE  Serving'
BY WithServes DEF Named

LEMMA DnsomaticServes ==
  ASSUME UNCHANGED <<entry, target>>, zone' = DnsomaticZone
  PROVE  Serving'
<1>1. CASE owner # "*"
  BY <1>1, NamedServes DEF DnsomaticZone, QueryHostname
<1>2. CASE owner = "*"
  <2>1. Entered(owner, target) \in Named("*") /\ Entered(owner, target).name # "@"
    BY <1>2 DEF Named, Replaced, Entered
  <2>2. Entered(owner, target) \in zone'
    BY <1>2, <2>1 DEF DnsomaticZone, Along
  <2> QED
    BY <2>2, AddedServes
<1> QED
  BY <1>1, <1>2

(* A word that reports neither a change nor that there was nothing to change is  *)
(* a failure.                                                               *)
LEMMA RefusalKeeps ==
  ASSUME NEW fine, NEW abusive, NEW refused, fine \subseteq {"good", "nochg"},
         said' \in DOMAIN Answers(fine, abusive, refused) \ {"good", "nochg"},
         Return(Answers(fine, abusive, refused)[said'])
  PROVE  Outcome
<1> DEFINE answers == Answers(fine, abusive, refused)
<1>1. answers[said'] = "banned" \/ answers[said'] = "failed"
  BY DEF Answers
<1> QED
  BY <1>1, FailureKeeps DEF Return

(* A client that compares the answer fails when it gives the request the lie.   *)
LEMMA EchoingStep ==
  ASSUME UNCHANGED <<entry, target>>, NEW c, NEW changed, zone' = changed => Serving',
         NEW fine, NEW abusive, NEW refused, fine \subseteq {"good", "nochg"},
         DynExchange(c, changed, Answers(fine, abusive, refused), TRUE)
  PROVE  Outcome
<1> DEFINE answers == Answers(fine, abusive, refused)
<1>1. CASE Return("failed")
  BY <1>1, FailureKeeps
<1>2. CASE zone' = changed /\ Return(answers[said'])
  BY <1>2 DEF Return, Outcome
<1>3. CASE said' \in DOMAIN answers \ {"good", "nochg"} /\ Return(answers[said'])
  BY <1>3, RefusalKeeps
<1> QED
  BY <1>1, <1>2, <1>3 DEF DynExchange, NoAnswer

(* One that believes it is right at a provider that tells the truth.            *)
LEMMA TrustingStep ==
  ASSUME UNCHANGED <<entry, target>>, "ignored" \notin faults, NEW c,
         NEW changed, zone' = changed => Serving',
         NEW fine, NEW abusive, NEW refused, fine \subseteq {"good", "nochg"},
         DynExchange(c, changed, Answers(fine, abusive, refused), FALSE)
  PROVE  Outcome
<1> DEFINE answers == Answers(fine, abusive, refused)
<1>1. CASE Return("failed")
  BY <1>1, FailureKeeps
<1>2. CASE zone' = changed /\ Return(answers[said'])
  BY <1>2 DEF Return, Outcome
<1>3. CASE said' \in DOMAIN answers \ {"good", "nochg"} /\ Return(answers[said'])
  BY <1>3, RefusalKeeps
<1> QED
  BY <1>1, <1>2, <1>3 DEF DynExchange, NoAnswer, Happens

LEMMA BelievingStep ==
  ASSUME UNCHANGED <<entry, target>>, "ignored" \notin faults, NEW c, NEW name, name = owner,
         NEW fine, NEW abusive, NEW refused, fine \subseteq {"good", "nochg"},
         DynExchange(c, Named(name), Answers(fine, abusive, refused), FALSE)
  PROVE  Outcome
BY TrustingStep, NamedServes

(* What custom and myaddr ask for beside our record leaves our record with the   *)
(* address.                                                                  *)
LEMMA AlongServes ==
  ASSUME UNCHANGED <<entry, target>>, NEW ip, TypeOf(ip) # RecordType,
         zone' = Along(Named(owner), owner, ip)
  PROVE  Serving'
<1>1. Entered(owner, target) \in Named(owner) /\ Entered(owner, target).type = RecordType
  BY DEF Named, Replaced, Entered, RecordType
<1>2. Entered(owner, target) \in zone'
  BY <1>1 DEF Along
<1> QED
  BY <1>2, AddedServes

LEMMA MyaddrServes ==
  ASSUME UNCHANGED <<entry, target>>, zone' = MyaddrZone
  PROVE  Serving'
<1> DEFINE made == Entered(owner, target)
<1>1. made \in Named(owner) /\ made.type = RecordType /\ [made EXCEPT !.val = target] = made
  BY DEF Named, Replaced, Entered, RecordType
<1>2. made \in zone'
  BY <1>1 DEF MyaddrZone
<1> QED
  BY <1>2, AddedServes

(* With the clients' own names.                                             *)
LEMMA EchoedStep ==
  ASSUME SInv, UNCHANGED <<entry, target>>,
         Allinkl \/ Noip \/ Dnsomatic \/ Infomaniak \/ Opendns \/ Njalla
  PROVE  Outcome
<1>1. CASE Allinkl
  BY <1>1, EchoingStep, NamedServes DEF Allinkl, QueryHostname
<1>2. CASE Noip
  BY <1>2, EchoingStep, NamedServes DEF Noip, QueryHostname
<1>3. CASE Dnsomatic
  BY <1>3, EchoingStep, DnsomaticServes DEF Dnsomatic
<1>4. CASE Infomaniak
  BY <1>4, EchoingStep, NamedServes DEF Infomaniak, QueryHostname
<1>5. CASE Opendns
  BY <1>5, EchoingStep, NamedServes DEF Opendns, QueryHostname
<1>6. CASE Njalla
  BY <1>6, EchoingStep, NamedServes DEF Njalla, QueryHostname
<1> QED
  BY <1>1, <1>2, <1>3, <1>4, <1>5, <1>6

LEMMA RenamedStep ==
  ASSUME SInv, UNCHANGED <<entry, target>>, He \/ Duckdns \/ Goip \/ Dynu \/ Dd24 \/ Nowdns
  PROVE  Outcome
<1>1. client \in {"he", "duckdns", "goip", "dynu", "dd24"} => DomainName = owner
  BY DEF SInv, NamesOurs, Renaming, DomainName
<1>2. CASE He
  <2>1. DomainName = owner
    BY <1>1, <1>2 DEF He, DynExchange, At
  <2> QED
    BY <1>2, <2>1, EchoingStep, NamedServes DEF He
<1>3. CASE Duckdns
  <2>1. DomainName = owner
    BY <1>1, <1>3 DEF Duckdns, DynExchange, At
  <2> QED
    BY <1>3, <2>1, EchoingStep, NamedServes DEF Duckdns
<1>4. CASE Goip
  <2>1. DomainName = owner
    BY <1>1, <1>4 DEF Goip, DynExchange, At
  <2> QED
    BY <1>4, <2>1, EchoingStep, NamedServes DEF Goip
<1>5. CASE Dynu
  <2>1. DomainName = owner /\ "ignored" \notin faults
    BY <1>1, <1>5 DEF Dynu, DynExchange, At, SInv, Checking
  <2> QED
    BY <1>5, <2>1, BelievingStep DEF Dynu
<1>6. CASE Dd24
  <2>1. DomainName = owner /\ "ignored" \notin faults
    BY <1>1, <1>6 DEF Dd24, DynExchange, At, SInv, Checking
  <2> QED
    BY <1>6, <2>1, BelievingStep DEF Dd24
<1>7. CASE Nowdns
  <2>1. owner = "@" /\ "ignored" \notin faults
    BY <1>7 DEF Nowdns, DynExchange, At, SInv, NamesOurs, Checking
  <2> QED
    BY <1>7, <2>1, BelievingStep DEF Nowdns
<1> QED
  BY <1>2, <1>3, <1>4, <1>5, <1>6, <1>7

Believing ==
  {"dyn", "example", "variomedia", "inwx", "loopia", "ovh dynhost", "selfhostde", "spdyn", "strato",
   "desec", "ddnss", "easydns", "freedns", "custom", "zoneedit", "changeip", "domeneshop",
   "dondominio", "dynv6", "ipv64", "myaddr", "namecheap"}

LEMMA DynDNSStep ==
  ASSUME SInv, UNCHANGED <<entry, target>>,
         Dyn \/ Example \/ Variomedia \/ Inwx \/ Loopia \/ OvhDynHost \/ Selfhostde \/ Spdyn
           \/ Strato \/ Desec
  PROVE  Outcome
<1>1. client \in Believing
  BY DEF Dyn, Example, Variomedia, Inwx, Loopia, OvhDynHost, Selfhostde, Spdyn, Strato, Desec,
     DynExchange, At, Believing
<1>2. "ignored" \notin faults
  BY <1>1 DEF SInv, Believing, Checking
<1>3. CASE Dyn \/ Example \/ Variomedia
  BY <1>2, <1>3, BelievingStep DEF Dyn, Example, Variomedia, QueryHostname
<1>4. CASE Inwx \/ Loopia \/ OvhDynHost
  BY <1>2, <1>4, BelievingStep DEF Inwx, Loopia, OvhDynHost, QueryHostname
<1>5. CASE Selfhostde \/ Spdyn
  BY <1>2, <1>5, BelievingStep DEF Selfhostde, Spdyn, QueryHostname
<1>6. CASE Strato \/ Desec
  BY <1>2, <1>6, BelievingStep DEF Strato, Desec, QueryHostname
<1> QED
  BY <1>3, <1>4, <1>5, <1>6

LEMMA OwnWordsStep ==
  ASSUME SInv, UNCHANGED <<entry, target>>,
         Ddnss \/ Easydns \/ Freedns \/ Custom \/ Zoneedit \/ Changeip \/ Domeneshop \/ Dondominio
           \/ Dynv6 \/ Ipv64 \/ Myaddr \/ Namecheap
  PROVE  Outcome
<1>1. client \in Believing
  BY DEF Ddnss, Easydns, Freedns, Custom, Zoneedit, Changeip, Domeneshop, Dondominio, Dynv6,
     Ipv64, Myaddr, Namecheap, DynExchange, At, Believing
<1>2. "ignored" \notin faults
  BY <1>1 DEF SInv, Believing, Checking
<1>3. CASE Ddnss \/ Easydns \/ Zoneedit \/ Changeip
  BY <1>2, <1>3, BelievingStep DEF Ddnss, Easydns, Zoneedit, Changeip, QueryHostname
<1>4. CASE Freedns
  <2>1. Sources({a \in Addrs : TypeOf(a) = RecordType}) = {target}
    BY <1>4 DEF Freedns, DynExchange, At, SInv, Addressless, Sources
  <2> QED
    BY <1>2, <1>4, <2>1, BelievingStep DEF Freedns, Named
<1>7. CASE Custom
  <2>1. Sources(Addrs) = {target}
    BY <1>7 DEF Custom, DynExchange, At, SInv, Addressless, Sources
  <2>2. PICK changed \in CustomZones : DynExchange("custom", changed, Answers({"good"}, {}, {}), FALSE)
    BY <1>7 DEF Custom
  <2>3. changed = Named(owner) \/ \E ip \in Kept : changed = Along(Named(owner), owner, ip)
    BY <2>1, <2>2 DEF CustomZones, Named
  <2>4. zone' = changed => Serving'
    BY <2>3, NamedServes, AlongServes DEF Kept
  <2> QED
    BY <1>2, <2>2, <2>4, TrustingStep
<1>8. CASE Myaddr
  BY <1>2, <1>8, MyaddrServes, TrustingStep DEF Myaddr
<1>5. CASE Domeneshop \/ Dondominio \/ Dynv6
  BY <1>2, <1>5, BelievingStep DEF Domeneshop, Dondominio, Dynv6, QueryHostname
<1>6. CASE Ipv64 \/ Namecheap
  BY <1>2, <1>6, BelievingStep DEF Ipv64, Namecheap, QueryHostname
<1> QED
  BY <1>3, <1>4, <1>5, <1>6, <1>7, <1>8

-----------------------------------------------------------------------------
LEMMA ExchangeKeeps ==
  ASSUME SInv, Exchange
  PROVE  SInv'
<1>1. UNCHANGED <<entry, target>> /\ served' = (served \/ Serving')
  BY DEF Exchange
<1>2. Outcome
  <2>1. CASE RecordClient
    BY <1>1, <2>1, CloudflareStep, EditorsStep, DreamhostStep, SpaceshipStep, LinodeStep,
       NamesiloStep, HetznerStep, HetznercloudStep, GcpStep, IonosStep, OvhStep, PorkbunStep,
       NamecomStep, NetcupStep, VercelVultrStep, AliyunStep, ReplacersStep DEF RecordClient
  <2>2. CASE DynClient
    BY <1>1, <2>2, EchoedStep, RenamedStep, DynDNSStep, OwnWordsStep DEF DynClient
  <2> QED
    BY <2>1, <2>2 DEF Exchange
<1>3. client' = client /\ owner' = owner /\ faults' = faults
  BY <1>1 DEF entry
<1>4. Written' => served'
  BY <1>1, <1>2 DEF Outcome
<1> QED
  BY <1>2, <1>3, <1>4 DEF SInv, Outcome

LEMMA SuccessKept ==
  ASSUME SInv, [Next]_vars
  PROVE  SInv'
<1>1. CASE Exchange
  BY <1>1, ExchangeKeeps
<1>2. CASE UNCHANGED entry /\ Call
  BY <1>2 DEF SInv, Call, Goto, Written, At, entry
<1>3. CASE UNCHANGED entry /\ Move
  BY <1>3 DEF SInv, Move, Written, At, entry
<1>4. CASE UNCHANGED entry /\ UserEdit
  BY <1>4 DEF SInv, UserEdit, Written, At, entry
<1>5. CASE UNCHANGED vars
  BY <1>5 DEF SInv, vars, Written, At, entry
<1> QED
  BY <1>1, <1>2, <1>3, <1>4, <1>5 DEF Next

(* A success means that the record had the address: for all 57 clients, any zone,  *)
(* addresses, entries and deeds of users, with answers and requests that get lost, *)
(* are refused or carried out unseen, as long as the name sent is that of the      *)
(* record, a request without an address comes from the one asked for, and the     *)
(* provider does what its answer says or its client looks.                       *)
THEOREM OkMeansServedHolds ==
  ASSUME HonestEntries
  PROVE  Spec => []OkMeansServed
<1>1. Init => SInv
  BY DEF Init, SInv, HonestEntries, Written, At
<1>2. SInv /\ [Next]_vars => SInv'
  BY SuccessKept
<1>3. SInv => OkMeansServed
  BY DEF SInv, Written, OkMeansServed
<1> QED
  BY <1>1, <1>2, <1>3, PTL DEF Spec

-----------------------------------------------------------------------------
(* What a call does to the zone. The entries for which a client stays with      *)
(* records of ours: its name is that of our record, dnsomatic is not asked for  *)
(* the wildcard, the keyword of aliyun finds no other record, a custom client    *)
(* is asked for one family and seen by its address, the domain of myaddr has no  *)
(* other names, and nobody makes a record of porkbun's placeholder while it is   *)
(* being removed.                                                            *)
CarefulEntries ==
  \A e \in Entries :
    /\ NamesOurs(e.client, e.owner)
    /\ e.client = "dnsomatic" => e.owner # "*"
    /\ e.client = "aliyun" /\ e.owner = "www" => \A z \in e.zones : \A r \in z : r.name # "www2"
    /\ e.client \in Addressless => "source" \notin e.faults
    /\ e.client = "custom" => "either" \notin e.faults
    /\ e.client = "myaddr" => \A z \in e.zones : \A r \in z : r.name = e.owner
    /\ e.client = "porkbun" => "redirect" \notin e.faults

Mine(r) == r.name = owner /\ r.type = RecordType

(* A zone as a provider keeps it.                                              *)
Shaped(records) ==
  /\ IsFiniteSet(records)
  /\ \A r, s \in records : r.id = s.id => r = s
  /\ \A r \in records : r.type \in {"A", "AAAA"} => r.val \in Addrs

(* The records a call remembers are ours, and so is what becomes of them.        *)
Follows(records) == \A m \in mem, s \in records : s.id = m.id => Mine(s)
Memory ==
  /\ IsFiniteSet(mem)
  /\ Calling => Follows(zone) /\ \A m \in mem : Mine(m)

(* No record of another name is within the reach of the request.               *)
OutOfReach ==
  /\ client = "aliyun" /\ owner = "www" => \A r \in zone : r.name # "www2"
  /\ client = "myaddr" => \A r \in zone : r.name = owner

(* What porkbun is about to delete is the placeholder of a parked domain.        *)
Placeholders(name, type) == \A r \in Matching(name, type) : r.val = Parked
Marked ==
  /\ At("porkbun", "deleteCname") => Placeholders("*", "CNAME")
  /\ At("porkbun", "deleteAlias") => Placeholders("@", "ALIAS")

(* What a call was asked for it finds out at once.                             *)
Noticed == served \in BOOLEAN /\ (Calling /\ Serving => served)

Careful ==
  /\ NamesOurs(client, owner)
  /\ client = "dnsomatic" => owner # "*"
  /\ client \in Addressless => "source" \notin faults
  /\ client = "custom" => "either" \notin faults
  /\ client = "porkbun" => "redirect" \notin faults

ZInv == target \in Addrs /\ Careful /\ Shaped(zone) /\ Memory /\ OutOfReach /\ Marked /\ Noticed

(* The stages of a call that is going to add a record, and the clients of which *)
(* one may come to stand beside another: those that add before or after they    *)
(* remove, and ionos, which looks for the wildcard under another name.          *)
Creating ==
  \/ at \in {"create", "cname", "deleteCname", "alias", "deleteAlias"}
  \/ client = "netcup" /\ at = "edit" /\ mem = {}
Crowding == client \in WithoutEdit \/ (client = "ionos" /\ owner = "*")

(* A record is removed by its value.                                          *)
Old == {r \in Matching(owner, RecordType) : \E m \in mem : m.val = r.val}

(* An exchange leaves the zone alone, or does one of these:                    *)
ZoneChange ==
  \/ UNCHANGED zone
  \/ zone' = With(owner, target) /\ (Creating \/ Crowding)
  \/ zone' = Replaced(owner, target)
  \/ \E r \in mem : Exists(r) /\ zone' = Edited(r, owner, target)
  \/ zone' = zone \ Old /\ client = "dreamhost" /\ at = "remove"
  \/ zone' = zone \ Old /\ client = "spaceship" /\ at' \in {"create", "failed"}
  \/ zone' = zone \ Matching("*", "CNAME") /\ At("porkbun", "deleteCname")
  \/ zone' = zone \ Matching("@", "ALIAS") /\ At("porkbun", "deleteAlias")

(* It remembers what it remembered, what it found, or what it made.            *)
Recalls ==
  \/ mem' \subseteq mem
  \/ UNCHANGED zone /\ mem' \subseteq Matching(owner, RecordType)
  \/ mem' = {Entered(owner, target)} /\ (UNCHANGED zone \/ zone' = With(owner, target))

(* It adds a record only when it found none.                                  *)
FoundNone ==
  Creating' => \/ Crowding
               \/ zone' \subseteq zone /\ (Creating \/ Matching(owner, RecordType) = {})

(* It deletes placeholders only, and removes an address it found once it has      *)
(* made the record that replaces it.                                          *)
Marks ==
  /\ at' = "deleteCname" => client = "porkbun" /\ UNCHANGED zone /\ Placeholders("*", "CNAME")
  /\ at' = "deleteAlias" => client = "porkbun" /\ UNCHANGED zone /\ Placeholders("@", "ALIAS")
  /\ at' = "create" => \A m \in mem' : m.val # target
  /\ at' = "remove" => /\ at = "create" /\ mem' = mem
                       /\ "ignored" \notin faults => zone' = With(owner, target)

Effect ==
  /\ Calling /\ at' # "idle" /\ (at' \in {"banned", "panicked"} => UNCHANGED zone)
  /\ ZoneChange /\ Recalls /\ FoundNone /\ Marks

-----------------------------------------------------------------------------
(* The building blocks.                                                     *)

LEMMA ReturnsEffect ==
  ASSUME Calling, NEW outcome \in {"ok", "failed", "banned", "panicked"}, Return(outcome), ZoneChange,
         outcome \in {"banned", "panicked"} => UNCHANGED zone
  PROVE  Effect
BY DEF Return, Effect, Recalls, FoundNone, Marks, Creating

(* On with another question, nothing remembered.                               *)
LEMMA AsksOnEffect ==
  ASSUME Calling, UNCHANGED zone, Goto("record", {}) \/ Goto("list", {}) \/ Goto("info", {}) 
           \/ Goto("set", {}) \/ Goto("patch", {}) \/ Goto("wait", {}) \/ Goto("refresh", {})
  PROVE  Effect
BY DEF Goto, Effect, ZoneChange, Recalls, FoundNone, Marks, Creating

LEMMA NoAnswerEffect ==
  ASSUME Calling, NoAnswer
  PROVE  Effect
BY ReturnsEffect DEF NoAnswer, ZoneChange

LEMMA TakesFirstEffect ==
  ASSUME Calling, UNCHANGED entry,
         \/ TakesFirst(Matching(owner, RecordType), Goto("create", {}))
         \/ TakesFirst(Matching(owner, RecordType), Return("failed"))
  PROVE  Effect
<1> DEFINE found == Matching(owner, RecordType)
<1>1. CASE NoAnswer
  BY <1>1, NoAnswerEffect
<1>2. CASE UNCHANGED zone /\ found = {} /\ Goto("create", {})
  BY <1>2 DEF Goto, Effect, ZoneChange, Recalls, FoundNone, Marks
<1>3. CASE UNCHANGED zone /\ (Return("failed") \/ Return("ok"))
  BY <1>3, ReturnsEffect DEF ZoneChange
<1>4. ASSUME NEW r \in found, UNCHANGED zone, Goto("edit", {r}) PROVE Effect
  <2>1. at' = "edit" /\ mem' = {r} /\ mem' \subseteq found /\ mem' # {}
    BY <1>4 DEF Goto
  <2> QED
    BY <1>4, <2>1 DEF Effect, ZoneChange, Recalls, FoundNone, Marks, Creating
<1> QED
  BY <1>1, <1>2, <1>3, <1>4 DEF TakesFirst, Reads, Learns

LEMMA TakesFirstAlwaysEffect ==
  ASSUME Calling, UNCHANGED entry,
         \/ TakesFirstAlways(Matching(owner, RecordType), Goto("create", {}))
         \/ TakesFirstAlways(Matching(owner, RecordType), Goto("edit", {}))
         \/ TakesFirstAlways(Matching(owner, RecordType), Return("failed"))
  PROVE  Effect
<1> DEFINE found == Matching(owner, RecordType)
<1>1. CASE NoAnswer
  BY <1>1, NoAnswerEffect
<1>2. CASE UNCHANGED zone /\ found = {} /\ (Goto("create", {}) \/ Goto("edit", {}))
  BY <1>2 DEF Goto, Effect, ZoneChange, Recalls, FoundNone, Marks
<1>3. CASE UNCHANGED zone /\ Return("failed")
  BY <1>3, ReturnsEffect DEF ZoneChange
<1>4. ASSUME NEW r \in found, UNCHANGED zone, Goto("edit", {r}) PROVE Effect
  <2>1. at' = "edit" /\ mem' = {r} /\ mem' \subseteq found /\ mem' # {}
    BY <1>4 DEF Goto
  <2> QED
    BY <1>4, <2>1 DEF Effect, ZoneChange, Recalls, FoundNone, Marks, Creating
<1> QED
  BY <1>1, <1>2, <1>3, <1>4 DEF TakesFirstAlways, Reads, Learns

(* A request to change the zone, after which the call is over.                 *)
LEMMA WritesEffect ==
  ASSUME Calling, NEW changed, zone' = changed => ZoneChange,
         Writes(changed, Return("ok")) \/ WritesBlindly(changed, Return("ok"))
  PROVE  Effect
<1>1. CASE UNCHANGED zone /\ (Return("failed") \/ Return("ok"))
  BY <1>1, ReturnsEffect DEF ZoneChange
<1>2. CASE zone' = changed /\ (Return("failed") \/ Return("ok"))
  BY <1>2, ReturnsEffect
<1> QED
  BY <1>1, <1>2 DEF Writes, WritesBlindly, NoAnswer

LEMMA EditsEffect ==
  ASSUME Calling, NEW r \in mem, Edits(r, owner, Return("ok")) \/ EditsBlindly(r, owner, Return("ok"))
  PROVE  Effect
<1>1. CASE Exists(r)
  BY <1>1, WritesEffect DEF Edits, EditsBlindly, ZoneChange
<1>2. CASE UNCHANGED zone /\ Return("failed")
  BY <1>2, ReturnsEffect DEF ZoneChange
<1> QED
  BY <1>1, <1>2 DEF Edits, EditsBlindly, Learns

LEMMA EditsOneEffect ==
  ASSUME Calling, UNCHANGED entry, client # "netcup", NEW r \in mem,
         \/ EditsBlindly(r, owner, IF mem = {r} THEN Return("ok") ELSE Goto("edit", mem \ {r}))
         \/ EditsBlindly(r, owner, IF mem = {r} THEN Goto("refresh", {}) ELSE Goto("edit", mem \ {r}))
  PROVE  Effect
<1>1. CASE (UNCHANGED zone \/ (Exists(r) /\ zone' = Edited(r, owner, target))) /\ (Return("failed") \/ Return("ok"))
  BY <1>1, ReturnsEffect DEF ZoneChange
<1>2. CASE (UNCHANGED zone \/ (Exists(r) /\ zone' = Edited(r, owner, target)))
           /\ (Goto("refresh", {}) \/ Goto("edit", mem \ {r}))
  <2>1. ZoneChange
    BY <1>2 DEF ZoneChange
  <2>2. client' # "netcup" /\ at' \in {"refresh", "edit"} /\ mem' \subseteq mem
    BY <1>2 DEF Goto, entry
  <2> QED
    BY <2>1, <2>2 DEF Effect, Recalls, FoundNone, Marks, Creating
<1> QED
  BY <1>1, <1>2 DEF EditsBlindly, Writes, WritesBlindly, NoAnswer, Learns

-----------------------------------------------------------------------------
(* What the clients do, one by one.                                          *)

LEMMA CloudflareEffect ==
  ASSUME UNCHANGED entry, Cloudflare
  PROVE  Effect
<1>1. Calling /\ client # "netcup"
  BY DEF Cloudflare, CloudflareGetRecordID, CloudflareCreateRecord, CloudflareUpdate, At, Calling, Outcomes
<1>2. CASE CloudflareGetRecordID
  BY <1>1, <1>2, TakesFirstEffect DEF CloudflareGetRecordID, QueryHostname
<1>3. CASE CloudflareCreateRecord
  <2> DEFINE made == Entered(owner, target)
  <2>1. Creating /\ With(owner, target) = zone \cup {made}
    BY <1>3 DEF CloudflareCreateRecord, At, Creating, With
  <2>2. Writes(With(owner, target), Goto("edit", {made}))
    BY <1>3, <2>1 DEF CloudflareCreateRecord, QueryHostname
  <2>3. CASE Return("failed") /\ (UNCHANGED zone \/ zone' = With(owner, target))
    BY <1>1, <2>1, <2>3, ReturnsEffect DEF ZoneChange
  <2>4. CASE zone' = With(owner, target) /\ Goto("edit", {made})
    <3>1. ~Creating'
      BY <1>1, <2>4 DEF Goto, Creating, entry
    <3> QED
      BY <1>1, <2>1, <2>4, <3>1 DEF Goto, Effect, ZoneChange, Recalls, FoundNone, Marks
  <2> QED
    BY <2>2, <2>3, <2>4 DEF Writes, NoAnswer
<1>4. CASE CloudflareUpdate
  BY <1>1, <1>4, EditsEffect DEF CloudflareUpdate, QueryHostname
<1> QED
  BY <1>2, <1>3, <1>4 DEF Cloudflare

LEMMA EditorsEffect ==
  ASSUME UNCHANGED entry, Memory,
         DigitaloceanGetRecordID \/ DigitaloceanUpdate \/ DnspodUpdate \/ Luadns
  PROVE  Effect
<1>1. Calling
  BY DEF DigitaloceanGetRecordID, DigitaloceanUpdate, DnspodUpdate, Luadns, LuadnsGetZoneID, LuadnsGetRecord,
     LuadnsUpdateRecord, At, Calling, Outcomes
<1>2. CASE DigitaloceanGetRecordID
  BY <1>1, <1>2, TakesFirstAlwaysEffect DEF DigitaloceanGetRecordID, QueryHostname
<1>3. CASE DigitaloceanUpdate
  BY <1>1, <1>3, EditsEffect DEF DigitaloceanUpdate
<1>4. CASE DnspodUpdate
  BY <1>1, <1>4, TakesFirstEffect, EditsEffect DEF DnspodUpdate
<1>5. CASE LuadnsGetZoneID
  BY <1>1, <1>5, NoAnswerEffect, AsksOnEffect DEF LuadnsGetZoneID, Reads, Learns
<1>6. CASE LuadnsGetRecord
  BY <1>1, <1>6, TakesFirstAlwaysEffect DEF LuadnsGetRecord, QueryHostname
<1>7. CASE LuadnsUpdateRecord
  <2>1. PICK r \in mem : Edits(r, r.name, Return("ok"))
    BY <1>7 DEF LuadnsUpdateRecord
  <2>2. r.name = owner
    BY <1>1, <2>1 DEF Memory, Mine
  <2> QED
    BY <1>1, <2>1, <2>2, EditsEffect
<1> QED
  BY <1>2, <1>3, <1>4, <1>5, <1>6, <1>7 DEF Luadns

LEMMA DreamhostEffect ==
  ASSUME UNCHANGED entry, Dreamhost
  PROVE  Effect
<1>1. Calling /\ client = "dreamhost" /\ client' = "dreamhost" /\ Crowding /\ Crowding'
  BY DEF Dreamhost, DreamhostUpdate, DreamhostCreateRecord, DreamhostRemoveRecord, At, Calling, Outcomes, Crowding,
     WithoutEdit, entry
<1>2. CASE DreamhostUpdate
  <2> DEFINE found == Matching(owner, RecordType)
  <2>1. CASE NoAnswer
    BY <1>1, <2>1, NoAnswerEffect
  <2>2. CASE UNCHANGED zone /\ Goto("create", {})
    BY <1>1, <2>2 DEF Goto, Effect, ZoneChange, Recalls, FoundNone, Marks
  <2>3. CASE UNCHANGED zone /\ Return("ok")
    BY <1>1, <2>3, ReturnsEffect DEF ZoneChange
  <2>4. ASSUME NEW r \in found, UNCHANGED zone, r.val # target, Goto("create", {r}) PROVE Effect
    BY <1>1, <2>4 DEF Goto, Effect, ZoneChange, Recalls, FoundNone, Marks
  <2> QED
    BY <1>2, <2>1, <2>2, <2>3, <2>4 DEF DreamhostUpdate, Reads, Learns, QueryHostname
<1>3. CASE DreamhostCreateRecord
  <2>1. CASE (UNCHANGED zone \/ zone' = With(owner, target)) /\ (Return("failed") \/ Return("ok"))
    BY <1>1, <2>1, ReturnsEffect DEF ZoneChange
  <2>2. CASE /\ at = "create" /\ Goto("remove", mem) /\ (UNCHANGED zone \/ zone' = With(owner, target))
             /\ "ignored" \notin faults => zone' = With(owner, target)
    BY <1>1, <2>2 DEF Goto, Effect, ZoneChange, Recalls, FoundNone, Marks
  <2> QED
    BY <1>3, <2>1, <2>2 DEF DreamhostCreateRecord, WritesBlindly, Writes, NoAnswer, QueryHostname, At, Happens
<1>4. CASE DreamhostRemoveRecord
  <2>1. at = "remove" /\ (Learns(Return("failed")) \/ WritesBlindly(zone \ Old, Return("ok")))
    BY <1>4 DEF DreamhostRemoveRecord, QueryHostname, Old, At
  <2>2. CASE (UNCHANGED zone \/ zone' = zone \ Old) /\ (Return("failed") \/ Return("ok"))
    BY <1>1, <2>1, <2>2, ReturnsEffect DEF ZoneChange
  <2> QED
    BY <2>1, <2>2 DEF Learns, WritesBlindly, Writes, NoAnswer
<1> QED
  BY <1>2, <1>3, <1>4 DEF Dreamhost

LEMMA SpaceshipEffect ==
  ASSUME UNCHANGED entry, Spaceship
  PROVE  Effect
<1>1. Calling /\ client = "spaceship" /\ Crowding /\ Crowding'
  BY DEF Spaceship, SpaceshipGetRecords, SpaceshipDeleteRecord, SpaceshipCreateRecord, At, Calling, Outcomes, Crowding,
     WithoutEdit, entry
<1>2. CASE SpaceshipGetRecords
  BY <1>1, <1>2, TakesFirstEffect DEF SpaceshipGetRecords
<1>3. CASE SpaceshipDeleteRecord
  <2>1. Learns(Return("failed")) \/ WritesBlindly(zone \ Old, Goto("create", {}))
    BY <1>3 DEF SpaceshipDeleteRecord, Old
  <2>2. CASE (UNCHANGED zone \/ zone' = zone \ Old) /\ Return("failed")
    <3>1. ZoneChange
      BY <1>1, <2>2 DEF ZoneChange, Return
    <3> QED
      BY <1>1, <2>2, <3>1, ReturnsEffect
  <2>3. CASE (UNCHANGED zone \/ zone' = zone \ Old) /\ Goto("create", {})
    BY <1>1, <2>3 DEF Goto, Effect, ZoneChange, Recalls, FoundNone, Marks
  <2> QED
    BY <2>1, <2>2, <2>3 DEF Learns, WritesBlindly, Writes, NoAnswer
<1>4. CASE SpaceshipCreateRecord
  BY <1>1, <1>4, WritesEffect DEF SpaceshipCreateRecord, ZoneChange
<1> QED
  BY <1>2, <1>3, <1>4 DEF Spaceship

LEMMA LinodeEffect ==
  ASSUME UNCHANGED entry, Memory, Careful, Linode
  PROVE  Effect
<1>1. Calling /\ client = "linode" /\ DomainName = owner
  BY DEF Linode, LinodeGetDomainID, LinodeGetRecordID, LinodeCreateRecord, LinodeUpdateRecord, At,
     Careful, NamesOurs, Renaming, DomainName, Calling, Outcomes
<1>2. CASE LinodeGetDomainID
  BY <1>1, <1>2, NoAnswerEffect, AsksOnEffect DEF LinodeGetDomainID, Reads, Learns
<1>3. CASE LinodeGetRecordID
  BY <1>1, <1>3, TakesFirstAlwaysEffect DEF LinodeGetRecordID
<1>4. CASE LinodeCreateRecord
  BY <1>1, <1>4, WritesEffect DEF LinodeCreateRecord, ZoneChange, Creating, At
<1>5. CASE LinodeUpdateRecord
  <2>1. PICK r \in mem : Edits(r, r.name, Return("ok"))
    BY <1>5 DEF LinodeUpdateRecord
  <2>2. r.name = owner
    BY <1>1, <2>1 DEF Memory, Mine
  <2> QED
    BY <1>1, <2>1, <2>2, EditsEffect
<1> QED
  BY <1>2, <1>3, <1>4, <1>5 DEF Linode

LEMMA NamesiloEffect ==
  ASSUME UNCHANGED entry, Namesilo
  PROVE  Effect
<1>1. Calling
  BY DEF Namesilo, NamesiloGetRecord, NamesiloCreateRecord, NamesiloUpdateRecord,
     NamesiloValidateResponseCode, At, Calling, Outcomes
<1>2. CASE NamesiloGetRecord
  BY <1>1, <1>2, TakesFirstEffect DEF NamesiloGetRecord, QueryHostname
<1>3. CASE NamesiloCreateRecord
  BY <1>1, <1>3, WritesEffect DEF NamesiloCreateRecord, ZoneChange, Creating, At
<1>4. CASE NamesiloUpdateRecord
  BY <1>1, <1>4, EditsEffect DEF NamesiloUpdateRecord
<1>5. CASE NamesiloValidateResponseCode
  BY <1>1, <1>5, ReturnsEffect DEF NamesiloValidateResponseCode, ZoneChange
<1> QED
  BY <1>2, <1>3, <1>4, <1>5 DEF Namesilo

LEMMA HetznerEffect ==
  ASSUME UNCHANGED entry, Hetzner
  PROVE  Effect
<1>1. Calling
  BY DEF Hetzner, HetznerGetRecordID, HetznerCreateRecord, HetznerUpdateRecord, At, Calling, Outcomes
<1>2. CASE HetznerGetRecordID
  BY <1>1, <1>2, TakesFirstEffect DEF HetznerGetRecordID
<1>3. CASE HetznerCreateRecord
  BY <1>1, <1>3, WritesEffect DEF HetznerCreateRecord, ZoneChange, Creating, At
<1>4. CASE HetznerUpdateRecord
  BY <1>1, <1>4, EditsEffect DEF HetznerUpdateRecord
<1> QED
  BY <1>2, <1>3, <1>4 DEF Hetzner

LEMMA HetznercloudEffect ==
  ASSUME UNCHANGED entry, Hetznercloud
  PROVE  Effect
<1>1. Calling
  BY DEF Hetznercloud, HetznercloudGetRecord, HetznercloudCreateRRSet, HetznercloudSetRecord,
     HetznercloudWaitAction, HetznercloudHandleErrorResponse, At, Calling, Outcomes
<1>2. CASE HetznercloudGetRecord
  <2> DEFINE found == Matching(owner, RecordType)
  <2>1. CASE NoAnswer
    BY <1>1, <2>1, NoAnswerEffect
  <2>2. CASE UNCHANGED zone /\ found = {} /\ Goto("create", {})
    BY <1>1, <2>2 DEF Goto, Effect, ZoneChange, Recalls, FoundNone, Marks
  <2>3. CASE UNCHANGED zone /\ Return("ok")
    BY <1>1, <2>3, ReturnsEffect DEF ZoneChange
  <2>4. CASE UNCHANGED zone /\ Goto("set", {})
    BY <1>1, <2>4, AsksOnEffect
  <2> QED
    BY <1>2, <2>1, <2>2, <2>3, <2>4 DEF HetznercloudGetRecord, Reads, Learns
<1>3. CASE HetznercloudCreateRRSet \/ HetznercloudSetRecord
  <2>0. PICK changed \in {With(owner, target), Replaced(owner, target)} :
          WritesBlindly(changed, HetznercloudHandleActionResponse) /\ (zone' = changed => ZoneChange)
    BY <1>3 DEF HetznercloudCreateRRSet, HetznercloudSetRecord, ZoneChange, Creating, At
  <2>1. CASE ZoneChange /\ (Return("failed") \/ Return("ok"))
    BY <1>1, <2>1, ReturnsEffect
  <2>2. CASE ZoneChange /\ Goto("wait", {})
    BY <1>1, <2>2 DEF Goto, Effect, Recalls, FoundNone, Marks, Creating
  <2>3. UNCHANGED zone => ZoneChange
    BY DEF ZoneChange
  <2> QED
    BY <2>0, <2>1, <2>2, <2>3 DEF WritesBlindly, Writes, NoAnswer, HetznercloudHandleActionResponse
<1>4. CASE HetznercloudWaitAction
  BY <1>1, <1>4, NoAnswerEffect, ReturnsEffect DEF HetznercloudWaitAction, Reads, Learns, ZoneChange
<1>5. CASE HetznercloudHandleErrorResponse
  BY <1>1, <1>5, ReturnsEffect DEF HetznercloudHandleErrorResponse, ZoneChange
<1> QED
  BY <1>2, <1>3, <1>4, <1>5 DEF Hetznercloud

LEMMA GcpEffect ==
  ASSUME UNCHANGED entry, Careful, Gcp
  PROVE  Effect
<1>1. Calling /\ GcpName = owner
  BY DEF Gcp, GcpGetRRSet, GcpCreateRRSet, GcpPatchRRSet, At, Careful, NamesOurs, GcpName, Calling, Outcomes
<1>2. CASE GcpGetRRSet
  <2> DEFINE found == Matching(owner, RecordType)
  <2>1. CASE NoAnswer
    BY <1>1, <2>1, NoAnswerEffect
  <2>2. CASE UNCHANGED zone /\ found = {} /\ Goto("create", {})
    BY <1>1, <2>2 DEF Goto, Effect, ZoneChange, Recalls, FoundNone, Marks
  <2>3. CASE UNCHANGED zone /\ (Return("ok") \/ Return("panicked"))
    BY <1>1, <2>3, ReturnsEffect DEF ZoneChange
  <2>4. CASE UNCHANGED zone /\ Goto("patch", {})
    BY <1>1, <2>4, AsksOnEffect
  <2> QED
    BY <1>1, <1>2, <2>1, <2>2, <2>3, <2>4 DEF GcpGetRRSet, Reads, Learns
<1>3. CASE GcpCreateRRSet \/ GcpPatchRRSet
  <2>1. CASE UNCHANGED zone /\ Return("failed")
    BY <1>1, <2>1, ReturnsEffect DEF ZoneChange
  <2>2. CASE At("gcp", "create") /\ WritesBlindly(With(owner, target), Return("ok"))
    BY <1>1, <2>2, WritesEffect DEF ZoneChange, Creating, At
  <2>3. CASE WritesBlindly(Replaced(owner, target), Return("ok"))
    BY <1>1, <2>3, WritesEffect DEF ZoneChange
  <2> QED
    BY <1>1, <1>3, <2>1, <2>2, <2>3 DEF GcpCreateRRSet, GcpPatchRRSet, Learns
<1> QED
  BY <1>2, <1>3 DEF Gcp

LEMMA IonosEffect ==
  ASSUME UNCHANGED entry, Memory, Ionos
  PROVE  Effect
<1>1. Calling /\ client = "ionos" /\ client' = "ionos" /\ owner' = owner
  BY DEF Ionos, IonosGetZones, IonosGetRecords, IonosCreateRecord, IonosUpdateRecord, At, Calling, Outcomes, entry
<1>2. CASE IonosGetZones
  BY <1>1, <1>2, NoAnswerEffect, AsksOnEffect DEF IonosGetZones, Reads, Learns
<1>3. CASE IonosGetRecords
  <2> DEFINE found == {r \in Matching(DomainName, RecordType) : r.name = QueryHostname}
             stale == {r \in found : r.val # target}
  <2>1. found \subseteq Matching(owner, RecordType) /\ (owner # "*" => found = Matching(owner, RecordType))
    BY DEF Matching, QueryHostname, DomainName
  <2>2. CASE NoAnswer
    BY <1>1, <2>2, NoAnswerEffect
  <2>3. CASE UNCHANGED zone /\ found = {} /\ Goto("create", {})
    BY <1>1, <2>1, <2>3 DEF Goto, Effect, ZoneChange, Recalls, FoundNone, Marks, Crowding
  <2>4. CASE UNCHANGED zone /\ Return("ok")
    BY <1>1, <2>4, ReturnsEffect DEF ZoneChange
  <2>5. CASE UNCHANGED zone /\ Goto("edit", stale)
    <3>1. stale \subseteq Matching(owner, RecordType)
      BY <2>1
    <3> QED
      BY <1>1, <2>5, <3>1 DEF Goto, Effect, ZoneChange, Recalls, FoundNone, Marks, Creating
  <2> QED
    BY <1>3, <2>2, <2>3, <2>4, <2>5 DEF IonosGetRecords, Reads, Learns
<1>4. CASE IonosCreateRecord
  BY <1>1, <1>4, WritesEffect DEF IonosCreateRecord, ZoneChange, Creating, At, QueryHostname
<1>5. CASE IonosUpdateRecord
  <2>1. PICK r \in mem : EditsBlindly(r, r.name, IF mem = {r} THEN Return("ok") ELSE Goto("edit", mem \ {r}))
    BY <1>5 DEF IonosUpdateRecord
  <2>2. r.name = owner
    BY <1>1, <2>1 DEF Memory, Mine
  <2> QED
    BY <1>1, <2>1, <2>2, EditsOneEffect
<1> QED
  BY <1>2, <1>3, <1>4, <1>5 DEF Ionos

LEMMA OvhEffect ==
  ASSUME UNCHANGED entry, Memory, Ovh
  PROVE  Effect
<1>1. Calling /\ client = "ovh" /\ client' = "ovh"
  BY DEF Ovh, OvhGetTimeDelta, OvhGetRecords, OvhCreateRecord, OvhUpdateRecord, OvhRefresh, At, Calling, Outcomes, entry
<1>2. CASE OvhGetTimeDelta
  BY <1>1, <1>2, NoAnswerEffect, AsksOnEffect DEF OvhGetTimeDelta, Reads, Learns
<1>3. CASE OvhGetRecords
  <2> DEFINE found == Matching(owner, RecordType)
  <2>1. CASE NoAnswer
    BY <1>1, <2>1, NoAnswerEffect
  <2>2. CASE UNCHANGED zone /\ found = {} /\ Goto("create", {})
    BY <1>1, <2>2 DEF Goto, Effect, ZoneChange, Recalls, FoundNone, Marks
  <2>3. CASE UNCHANGED zone /\ Goto("edit", found)
    BY <1>1, <2>3 DEF Goto, Effect, ZoneChange, Recalls, FoundNone, Marks, Creating
  <2> QED
    BY <1>3, <2>1, <2>2, <2>3 DEF OvhGetRecords, Reads, Learns
<1>4. CASE OvhCreateRecord
  <2>0. Creating /\ WritesBlindly(With(owner, target), Goto("refresh", {}))
    BY <1>4 DEF OvhCreateRecord, Creating, At
  <2>1. CASE (UNCHANGED zone \/ zone' = With(owner, target)) /\ Return("failed")
    BY <1>1, <2>0, <2>1, ReturnsEffect DEF ZoneChange
  <2>2. CASE (UNCHANGED zone \/ zone' = With(owner, target)) /\ Goto("refresh", {})
    <3>1. ~Creating'
      BY <1>1, <2>2 DEF Goto, Creating
    <3> QED
      BY <1>1, <2>0, <2>2, <3>1 DEF Goto, Effect, ZoneChange, Recalls, FoundNone, Marks
  <2> QED
    BY <2>0, <2>1, <2>2 DEF WritesBlindly, Writes, NoAnswer
<1>5. CASE OvhUpdateRecord
  <2>1. PICK r \in mem : EditsBlindly(r, r.name, IF mem = {r} THEN Goto("refresh", {}) ELSE Goto("edit", mem \ {r}))
    BY <1>5 DEF OvhUpdateRecord
  <2>2. r.name = owner
    BY <1>1, <2>1 DEF Memory, Mine
  <2> QED
    BY <1>1, <2>1, <2>2, EditsOneEffect
<1>6. CASE OvhRefresh
  BY <1>1, <1>6, NoAnswerEffect, ReturnsEffect DEF OvhRefresh, Reads, Learns, ZoneChange
<1> QED
  BY <1>2, <1>3, <1>4, <1>5, <1>6 DEF Ovh

LEMMA PorkbunConflictsEffect ==
  ASSUME Calling, UNCHANGED entry, client = "porkbun", Creating,
         NEW type, NEW name, NEW absent, NEW conflict,
         absent => Goto("alias", {}) \/ Goto("create", {}), conflict => Return("failed") \/ Goto("create", {}),
         \/ type = "CNAME" /\ name = "*" /\ PorkbunConflicts(type, name, absent, conflict, "deleteCname")
         \/ type = "ALIAS" /\ name = "@" /\ PorkbunConflicts(type, name, absent, conflict, "deleteAlias")
  PROVE  Effect
<1>1. CASE NoAnswer
  BY <1>1, NoAnswerEffect
<1>2. CASE UNCHANGED zone /\ Return("failed")
  BY <1>2, ReturnsEffect DEF ZoneChange
<1>3. CASE UNCHANGED zone /\ (Goto("alias", {}) \/ Goto("create", {}))
  BY <1>3 DEF Goto, Effect, ZoneChange, Recalls, FoundNone, Marks
<1>4. CASE UNCHANGED zone /\ Placeholders("*", "CNAME") /\ Goto("deleteCname", {})
  BY <1>4 DEF Goto, Effect, ZoneChange, Recalls, FoundNone, Marks
<1>5. CASE UNCHANGED zone /\ Placeholders("@", "ALIAS") /\ Goto("deleteAlias", {})
  BY <1>5 DEF Goto, Effect, ZoneChange, Recalls, FoundNone, Marks
<1> QED
  BY <1>1, <1>2, <1>3, <1>4, <1>5 DEF PorkbunConflicts, Reads, Learns, Placeholders

LEMMA PorkbunEffect ==
  ASSUME UNCHANGED entry, Porkbun
  PROVE  Effect
<1>1. Calling /\ client = "porkbun" /\ client' = "porkbun"
  BY DEF Porkbun, PorkbunGetRecords, PorkbunDefaultConflicts, PorkbunDeleteRecord, PorkbunCreateRecord,
     PorkbunUpdateRecord, At, Calling, Outcomes, entry
<1>2. CASE PorkbunGetRecords
  <2> DEFINE found == Matching(owner, RecordType)
  <2>1. CASE NoAnswer
    BY <1>1, <2>1, NoAnswerEffect
  <2>2. CASE UNCHANGED zone /\ found = {} /\ (Goto("alias", {}) \/ Goto("cname", {}) \/ Goto("create", {}))
    BY <1>1, <2>2 DEF Goto, Effect, ZoneChange, Recalls, FoundNone, Marks
  <2>3. CASE UNCHANGED zone /\ Goto("edit", found)
    BY <1>1, <2>3 DEF Goto, Effect, ZoneChange, Recalls, FoundNone, Marks, Creating
  <2> QED
    BY <1>2, <2>1, <2>2, <2>3 DEF PorkbunGetRecords, Reads, Learns
<1>3. CASE PorkbunDefaultConflicts
  <2>1. Creating
    BY <1>3 DEF PorkbunDefaultConflicts, At, Creating
  <2>2. \/ PorkbunConflicts("CNAME", "*", Goto("alias", {}), Return("failed"), "deleteCname")
        \/ PorkbunConflicts("ALIAS", "@", Goto("create", {}),
             IF owner = "*" THEN Goto("create", {}) ELSE Return("failed"), "deleteAlias")
    BY <1>3 DEF PorkbunDefaultConflicts
  <2> QED
    BY <1>1, <2>1, <2>2, PorkbunConflictsEffect
<1>4. CASE PorkbunDeleteRecord
  <2> DEFINE changed == IF at = "deleteCname" THEN zone \ Matching("*", "CNAME") ELSE zone \ Matching("@", "ALIAS")
  <2>1. /\ Creating /\ (zone' = changed => ZoneChange)
        /\ WritesBlindly(changed, Goto("alias", {})) \/ WritesBlindly(changed, Goto("create", {}))
    BY <1>4 DEF PorkbunDeleteRecord, At, Creating, ZoneChange
  <2>2. (UNCHANGED zone => ZoneChange) /\ changed \subseteq zone
    BY DEF ZoneChange
  <2>3. CASE ZoneChange /\ Return("failed")
    BY <1>1, <2>3, ReturnsEffect
  <2>4. CASE ZoneChange /\ zone' \subseteq zone /\ (Goto("alias", {}) \/ Goto("create", {}))
    BY <1>1, <2>1, <2>4 DEF Goto, Effect, Recalls, FoundNone, Marks
  <2> HIDE DEF changed
  <2> QED
    BY <2>1, <2>2, <2>3, <2>4 DEF WritesBlindly, Writes, NoAnswer
<1>5. CASE PorkbunCreateRecord
  BY <1>1, <1>5, WritesEffect DEF PorkbunCreateRecord, ZoneChange, Creating, At
<1>6. CASE PorkbunUpdateRecord
  <2>1. PICK r \in mem : EditsBlindly(r, owner, IF mem = {r} THEN Return("ok") ELSE Goto("edit", mem \ {r}))
    BY <1>6 DEF PorkbunUpdateRecord
  <2> QED
    BY <1>1, <2>1, EditsOneEffect
<1> QED
  BY <1>2, <1>3, <1>4, <1>5, <1>6 DEF Porkbun

LEMMA NamecomEffect ==
  ASSUME UNCHANGED entry, Namecom
  PROVE  Effect
<1>1. Calling
  BY DEF Namecom, NamecomGetRecordID, NamecomCreateRecord, NamecomUpdateRecord, At, Calling, Outcomes
<1>2. CASE NamecomGetRecordID
  BY <1>1, <1>2, TakesFirstAlwaysEffect DEF NamecomGetRecordID
<1>3. CASE NamecomCreateRecord
  BY <1>1, <1>3, WritesEffect DEF NamecomCreateRecord, ZoneChange, Creating, At
<1>4. CASE NamecomUpdateRecord
  BY <1>1, <1>4, EditsEffect DEF NamecomUpdateRecord
<1> QED
  BY <1>2, <1>3, <1>4 DEF Namecom

LEMMA NetcupEffect ==
  ASSUME UNCHANGED entry, Netcup
  PROVE  Effect
<1>1. Calling /\ client = "netcup"
  BY DEF Netcup, NetcupLogin, NetcupGetRecordToUpdate, NetcupUpdateDNSRecords, At, Calling, Outcomes
<1>2. CASE NetcupLogin
  BY <1>1, <1>2, NoAnswerEffect, AsksOnEffect DEF NetcupLogin, Reads, Learns
<1>3. CASE NetcupGetRecordToUpdate
  BY <1>1, <1>3, TakesFirstAlwaysEffect DEF NetcupGetRecordToUpdate
<1>4. CASE NetcupUpdateDNSRecords
  <2> DEFINE changed == IF mem = {} THEN With(owner, target) ELSE Edited(CHOOSE r \in mem : TRUE, owner, target)
             then == \E r \in changed : r.name = owner /\ r.type = RecordType
                                        /\ Return(IF r.val = target THEN "ok" ELSE "failed")
  <2>1. at = "edit" /\ IF \E m \in mem : ~ Exists(m) THEN Learns(Return("failed")) ELSE Writes(changed, then)
    BY <1>4 DEF NetcupUpdateDNSRecords, At
  <2>2. CASE UNCHANGED zone /\ Return("failed")
    BY <1>1, <2>2, ReturnsEffect DEF ZoneChange
  <2>3. CASE (\A m \in mem : Exists(m)) /\ zone' = changed /\ (Return("failed") \/ Return("ok"))
    <3>1. CASE mem = {}
      BY <1>1, <2>1, <2>3, <3>1, ReturnsEffect DEF ZoneChange, Creating
    <3>2. CASE mem # {}
      <4>1. (CHOOSE r \in mem : TRUE) \in mem
        BY <3>2
      <4> QED
        BY <1>1, <2>3, <3>2, <4>1, ReturnsEffect DEF ZoneChange
    <3> QED
      BY <3>1, <3>2
  <2>4. then => Return("ok") \/ Return("failed")
    OBVIOUS
  <2> HIDE DEF changed, then
  <2> QED
    BY <2>1, <2>2, <2>3, <2>4 DEF Learns, Writes, NoAnswer
<1> QED
  BY <1>2, <1>3, <1>4 DEF Netcup

LEMMA VercelVultrEffect ==
  ASSUME UNCHANGED entry, Vercel \/ Vultr
  PROVE  Effect
<1>1. Calling
  BY DEF Vercel, VercelGetRecord, VercelCreateRecord, VercelUpdateRecord, Vultr, VultrGetRecord, VultrCreateRecord,
     VultrUpdateRecord, At, Calling, Outcomes
<1>2. CASE VercelGetRecord \/ VultrGetRecord
  <2>1. CASE UNCHANGED zone /\ Return("failed")
    BY <1>1, <2>1, ReturnsEffect DEF ZoneChange
  <2>2. CASE TakesFirst(Matching(owner, RecordType), Goto("create", {}))
    BY <1>1, <2>2, TakesFirstEffect
  <2> QED
    BY <1>2, <2>1, <2>2 DEF VercelGetRecord, VultrGetRecord, Learns
<1>3. CASE VercelCreateRecord \/ VultrCreateRecord
  BY <1>1, <1>3, WritesEffect DEF VercelCreateRecord, VultrCreateRecord, ZoneChange, Creating, At
<1>4. CASE VercelUpdateRecord \/ VultrUpdateRecord
  BY <1>1, <1>4, EditsEffect DEF VercelUpdateRecord, VultrUpdateRecord
<1> QED
  BY <1>2, <1>3, <1>4 DEF Vercel, Vultr

LEMMA AliyunEffect ==
  ASSUME UNCHANGED entry, OutOfReach, Aliyun
  PROVE  Effect
<1>1. Calling /\ client = "aliyun" /\ client' = "aliyun"
  BY DEF Aliyun, AliyunGetRecordID, AliyunCreateRecord, AliyunUpdateRecord, At, Calling, Outcomes, entry
<1>2. CASE AliyunGetRecordID
  <2> DEFINE found == {r \in zone : r.type = RecordType /\ AliyunKeyword(r.name)}
  <2>1. found = Matching(owner, RecordType)
    BY <1>1 DEF AliyunKeyword, Matching, OutOfReach
  <2>2. CASE NoAnswer
    BY <1>1, <2>2, NoAnswerEffect
  <2>3. CASE UNCHANGED zone /\ found = {} /\ Goto("create", {})
    BY <1>1, <2>1, <2>3 DEF Goto, Effect, ZoneChange, Recalls, FoundNone, Marks
  <2>4. CASE UNCHANGED zone /\ Return("failed")
    BY <1>1, <2>4, ReturnsEffect DEF ZoneChange
  <2>5. CASE UNCHANGED zone /\ Goto("edit", found)
    BY <1>1, <2>1, <2>5 DEF Goto, Effect, ZoneChange, Recalls, FoundNone, Marks, Creating
  <2> QED
    BY <1>2, <2>2, <2>3, <2>4, <2>5 DEF AliyunGetRecordID, Reads, Learns
<1>3. CASE AliyunCreateRecord
  <2> DEFINE made == Entered(owner, target)
  <2>1. Creating /\ With(owner, target) = zone \cup {made}
    BY <1>3 DEF AliyunCreateRecord, At, Creating, With
  <2>2. WritesBlindly(With(owner, target), Goto("edit", {made}))
    BY <1>3, <2>1 DEF AliyunCreateRecord
  <2>3. CASE (UNCHANGED zone \/ zone' = With(owner, target)) /\ Return("failed")
    BY <1>1, <2>1, <2>3, ReturnsEffect DEF ZoneChange
  <2>4. CASE (UNCHANGED zone \/ zone' = With(owner, target)) /\ Goto("edit", {made})
    <3>1. ~Creating'
      BY <1>1, <2>4 DEF Goto, Creating
    <3> QED
      BY <1>1, <2>1, <2>4, <3>1 DEF Goto, Effect, ZoneChange, Recalls, FoundNone, Marks
  <2> QED
    BY <2>2, <2>3, <2>4 DEF WritesBlindly, Writes, NoAnswer
<1>4. CASE AliyunUpdateRecord
  BY <1>1, <1>4, EditsEffect DEF AliyunUpdateRecord
<1> QED
  BY <1>2, <1>3, <1>4 DEF Aliyun

LEMMA ReplacersEffect ==
  ASSUME UNCHANGED entry, GandiUpdate \/ GodaddyUpdate \/ Route53Update \/ ScalewayUpdate \/ ServercowUpdate
  PROVE  Effect
<1>1. Calling
  BY DEF GandiUpdate, GodaddyUpdate, Route53Update, ScalewayUpdate, ServercowUpdate, At, Calling, Outcomes
<1> QED
  BY <1>1, WritesEffect DEF GandiUpdate, GodaddyUpdate, Route53Update, ScalewayUpdate, ServercowUpdate, QueryHostname,
     ZoneChange

(* The clients that make one request, with the word their provider answers.     *)
Known(fine, abusive, refused) ==
  /\ "good" \in fine /\ fine \subseteq {"good", "nochg"}
  /\ "nochg" \notin abusive /\ "nochg" \notin refused

(* Unless something else happens, the request is carried out and reported so.     *)
Obeyed ==
  \/ \E fault : Happens(fault)
  \/ UNCHANGED deeds /\ zone' = Replaced(owner, target) /\ Return("ok")

LEMMA DynEffect ==
  ASSUME NEW c, NEW fine, NEW abusive, NEW refused, NEW echo, NEW name, name = owner,
         Known(fine, abusive, refused), DynExchange(c, Named(name), Answers(fine, abusive, refused), echo)
  PROVE  Effect /\ Obeyed
<1> DEFINE answers == Answers(fine, abusive, refused)
<1>1. Calling /\ (zone' = Named(name) => ZoneChange) /\ (UNCHANGED zone => ZoneChange)
  BY DEF DynExchange, At, Calling, Outcomes, ZoneChange, Named
<1>2. ASSUME ZoneChange, Return("failed") \/ Return("ok") PROVE Effect
  BY <1>1, <1>2, ReturnsEffect
<1>3. answers["good"] = "ok" /\ ("nochg" \in DOMAIN answers => answers["nochg"] = "ok")
  BY DEF Answers, Known
<1>4. ASSUME UNCHANGED zone, said' \in DOMAIN answers, Return(answers[said']) PROVE Effect
  <2>1. answers[said'] \in {"ok", "banned", "failed"}
    BY <1>4 DEF Answers
  <2> QED
    BY <1>1, <1>4, <2>1, ReturnsEffect
<1>5. ASSUME zone' = Named(name), Return(answers[said']),
             said' = IF "nochg" \in DOMAIN answers /\ Contents(Named(name)) = Contents(zone) THEN "nochg" ELSE "good"
      PROVE  Effect
  <2>1. answers[said'] = "ok"
    BY <1>3, <1>5
  <2> QED
    BY <1>1, <1>2, <1>5, <2>1
<1>6. ASSUME UNCHANGED zone, said' = "good", Return(IF echo THEN "failed" ELSE answers[said'])
      PROVE  Effect
  <2>1. Return("failed") \/ Return("ok")
    BY <1>3, <1>6
  <2> QED
    BY <1>1, <1>2, <1>6, <2>1
<1>7. ASSUME zone' = Named(name), UNCHANGED deeds, Return(answers[said']),
             said' = IF "nochg" \in DOMAIN answers /\ Contents(Named(name)) = Contents(zone) THEN "nochg" ELSE "good"
      PROVE  Obeyed
  BY <1>3, <1>7 DEF Obeyed, Named
<1>8. (\E fault : Happens(fault)) => Obeyed
  BY DEF Obeyed
<1> HIDE DEF answers
<1>9. Effect
  BY <1>1, <1>2, <1>4, <1>5, <1>6 DEF DynExchange, NoAnswer, answers
<1>10. Obeyed
  BY <1>7, <1>8 DEF DynExchange, NoAnswer, answers
<1> QED
  BY <1>9, <1>10

LEMMA NamedEffect ==
  ASSUME Careful,
         \/ Allinkl \/ Noip \/ Dnsomatic \/ Infomaniak \/ Opendns \/ Njalla
         \/ He \/ Duckdns \/ Goip \/ Dynu \/ Dd24 \/ Nowdns
  PROVE  Effect /\ Obeyed
<1>1. client \in {"he", "duckdns", "goip", "dynu", "dd24"} => DomainName = owner
  BY DEF Careful, NamesOurs, Renaming, DomainName
<1>2. CASE Allinkl
  <2>1. Known({"good", "nochg"}, {"abuse"},
              {"", "911", "!donator", "badagent", "badauth", "nohost"})
    BY DEF Known
  <2> QED
    BY <1>2, <2>1, DynEffect DEF Allinkl, QueryHostname
<1>3. CASE Noip
  <2>1. Known({"good", "nochg"}, {"abuse"},
              {"", "911", "!donator", "badagent", "badauth", "nohost"})
    BY DEF Known
  <2> QED
    BY <1>3, <2>1, DynEffect DEF Noip, QueryHostname
<1>4. CASE Infomaniak
  <2>1. Known({"good", "nochg"}, {},
              {"nohost", "badauth"})
    BY DEF Known
  <2> QED
    BY <1>4, <2>1, DynEffect DEF Infomaniak, QueryHostname
<1>5. CASE Opendns
  <2>1. Known({"good"}, {},
              {})
    BY DEF Known
  <2> QED
    BY <1>5, <2>1, DynEffect DEF Opendns, QueryHostname
<1>6. CASE Njalla
  <2>1. Known({"good"}, {},
              {"401", "500"})
    BY DEF Known
  <2> QED
    BY <1>6, <2>1, DynEffect DEF Njalla, QueryHostname
<1>7. CASE Dnsomatic
  <2>1. DnsomaticZone = Named(owner)
    BY <1>7 DEF Dnsomatic, DynExchange, At, Careful, DnsomaticZone, QueryHostname
  <2> QED
    BY <1>7, <2>1, DynEffect DEF Dnsomatic, Known
<1>8. CASE He
  <2>1. DomainName = owner
    BY <1>1, <1>8 DEF He, DynExchange, At
  <2> QED
    BY <1>8, <2>1, DynEffect DEF He, Known
<1>9. CASE Duckdns
  <2>1. DomainName = owner
    BY <1>1, <1>9 DEF Duckdns, DynExchange, At
  <2> QED
    BY <1>9, <2>1, DynEffect DEF Duckdns, Known
<1>10. CASE Goip
  <2>1. DomainName = owner
    BY <1>1, <1>10 DEF Goip, DynExchange, At
  <2> QED
    BY <1>10, <2>1, DynEffect DEF Goip, Known
<1>11. CASE Dynu
  <2>1. DomainName = owner
    BY <1>1, <1>11 DEF Dynu, DynExchange, At
  <2> QED
    BY <1>11, <2>1, DynEffect DEF Dynu, Known
<1>12. CASE Dd24
  <2>1. DomainName = owner
    BY <1>1, <1>12 DEF Dd24, DynExchange, At
  <2> QED
    BY <1>12, <2>1, DynEffect DEF Dd24, Known
<1>13. CASE Nowdns
  <2>1. owner = "@"
    BY <1>13 DEF Nowdns, DynExchange, At, Careful, NamesOurs
  <2> QED
    BY <1>13, <2>1, DynEffect DEF Nowdns, Known
<1> QED
  BY <1>2, <1>3, <1>4, <1>5, <1>6, <1>7, <1>8, <1>9, <1>10, <1>11, <1>12, <1>13

LEMMA DynDNSEffect ==
  ASSUME Dyn \/ Example \/ Variomedia \/ Inwx \/ Loopia \/ OvhDynHost
           \/ Selfhostde \/ Spdyn \/ Strato \/ Desec
  PROVE  Effect /\ Obeyed
<1>1. CASE Dyn
  <2>1. Known({"good"}, {},
              {"notfqdn", "badrequest"})
    BY DEF Known
  <2> QED
    BY <1>1, <2>1, DynEffect DEF Dyn, QueryHostname
<1>2. CASE Example
  <2>1. Known({"good"}, {},
              {"notfqdn", "badrequest"})
    BY DEF Known
  <2> QED
    BY <1>2, <2>1, DynEffect DEF Example, QueryHostname
<1>3. CASE Variomedia
  <2>1. Known({"good"}, {},
              {"notfqdn", "badrequest"})
    BY DEF Known
  <2> QED
    BY <1>3, <2>1, DynEffect DEF Variomedia, QueryHostname
<1>4. CASE Inwx
  <2>1. Known({"good", "nochg"}, {},
              {})
    BY DEF Known
  <2> QED
    BY <1>4, <2>1, DynEffect DEF Inwx, QueryHostname
<1>5. CASE Loopia
  <2>1. Known({"good", "nochg"}, {},
              {"nohost", "notfqdn", "badrequest", "911", "badauth"})
    BY DEF Known
  <2> QED
    BY <1>5, <2>1, DynEffect DEF Loopia, QueryHostname
<1>6. CASE OvhDynHost
  <2>1. Known({"good", "nochg"}, {},
              {"notfqdn", "badrequest", "nohost"})
    BY DEF Known
  <2> QED
    BY <1>6, <2>1, DynEffect DEF OvhDynHost, QueryHostname
<1>7. CASE Selfhostde
  <2>1. Known({"good", "nochg"}, {"abuse"},
              {"notfqdn", "badrequest", "401", "409", "410", "411", "412", "503"})
    BY DEF Known
  <2> QED
    BY <1>7, <2>1, DynEffect DEF Selfhostde, QueryHostname
<1>8. CASE Spdyn
  <2>1. Known({"good", "nochg"}, {"abuse", "numhost"},
              {"badauth", "!yours", "notfqdn", "nohost", "fatal"})
    BY DEF Known
  <2> QED
    BY <1>8, <2>1, DynEffect DEF Spdyn, QueryHostname
<1>9. CASE Strato
  <2>1. Known({"good", "nochg"}, {"abuse"},
              {"notfqdn", "badrequest", "badauth"})
    BY DEF Known
  <2> QED
    BY <1>9, <2>1, DynEffect DEF Strato, QueryHostname
<1>10. CASE Desec
  <2>1. Known({"good"}, {},
              {"401", "404", "notfqdn", "badrequest"})
    BY DEF Known
  <2> QED
    BY <1>10, <2>1, DynEffect DEF Desec, QueryHostname
<1> QED
  BY <1>1, <1>2, <1>3, <1>4, <1>5, <1>6, <1>7, <1>8, <1>9, <1>10

(* Where nothing else is in reach, myaddr replaces our record and no other.       *)
LEMMA MyaddrReplaces ==
  ASSUME OutOfReach, client = "myaddr"
  PROVE  MyaddrZone = Named(owner)
<1>1. ASSUME NEW r \in Named(owner), r.type = RecordType
      PROVE  [r EXCEPT !.val = target] = r
  <2>1. r \notin zone \ Matching(owner, RecordType)
    BY <1>1 DEF OutOfReach, Matching
  <2>2. r = Entered(owner, target)
    BY <1>1, <2>1 DEF Named, Replaced, RecordType
  <2> QED
    BY <2>2 DEF Entered
<1> QED
  BY <1>1 DEF MyaddrZone

LEMMA OwnWordsEffect ==
  ASSUME Careful, OutOfReach,
         Ddnss \/ Easydns \/ Freedns \/ Custom \/ Zoneedit \/ Changeip
           \/ Domeneshop \/ Dondominio \/ Dynv6 \/ Ipv64 \/ Myaddr \/ Namecheap
  PROVE  Effect /\ Obeyed
<1>1. CASE Ddnss
  <2>1. Known({"good"}, {},
              {"badysys", "badauth", "notfqdn"})
    BY DEF Known
  <2> QED
    BY <1>1, <2>1, DynEffect DEF Ddnss, QueryHostname
<1>2. CASE Easydns
  <2>1. Known({"good"}, {"illegal_input", "too_soon"},
              {"", "no_service", "no_access"})
    BY DEF Known
  <2> QED
    BY <1>2, <2>1, DynEffect DEF Easydns, QueryHostname
<1>3. CASE Freedns
  <2>1. Known({"good", "nochg"}, {},
              {""})
    BY DEF Known
  <2>2. Sources({a \in Addrs : TypeOf(a) = RecordType}) = {target}
    BY <1>3 DEF Freedns, DynExchange, At, Careful, Addressless, Sources
  <2> QED
    BY <1>3, <2>1, <2>2, DynEffect DEF Freedns, Named
<1>4. CASE Custom
  <2>1. Known({"good"}, {},
              {})
    BY DEF Known
  <2>2. Sources(Addrs) = {target} /\ "either" \notin faults
    BY <1>4 DEF Custom, DynExchange, At, Careful, Addressless, Sources
  <2>3. CustomZones = {Named(owner)}
    BY <2>2 DEF CustomZones, Kept, Named
  <2>4. DynExchange("custom", Named(owner), Answers({"good"}, {}, {}), FALSE)
    BY <1>4, <2>3 DEF Custom
  <2> QED
    BY <2>1, <2>4, DynEffect
<1>5. CASE Zoneedit
  <2>1. Known({"good"}, {"702", "709"},
              {"", "708"})
    BY DEF Known
  <2> QED
    BY <1>5, <2>1, DynEffect DEF Zoneedit, QueryHostname
<1>6. CASE Changeip
  <2>1. Known({"good"}, {},
              {})
    BY DEF Known
  <2> QED
    BY <1>6, <2>1, DynEffect DEF Changeip, QueryHostname
<1>7. CASE Domeneshop
  <2>1. Known({"good"}, {},
              {"404"})
    BY DEF Known
  <2> QED
    BY <1>7, <2>1, DynEffect DEF Domeneshop, QueryHostname
<1>8. CASE Dondominio
  <2>1. Known({"good"}, {},
              {"success: false"})
    BY DEF Known
  <2> QED
    BY <1>8, <2>1, DynEffect DEF Dondominio, QueryHostname
<1>9. CASE Dynv6
  <2>1. Known({"good"}, {},
              {})
    BY DEF Known
  <2> QED
    BY <1>9, <2>1, DynEffect DEF Dynv6, QueryHostname
<1>10. CASE Ipv64
  <2>1. Known({"good"}, {},
              {"401"})
    BY DEF Known
  <2> QED
    BY <1>10, <2>1, DynEffect DEF Ipv64, QueryHostname
<1>11. CASE Myaddr
  <2>1. Known({"good"}, {},
              {"400", "404"})
    BY DEF Known
  <2>2. MyaddrZone = Named(owner)
    BY <1>11, MyaddrReplaces DEF Myaddr, DynExchange, At
  <2> QED
    BY <1>11, <2>1, <2>2, DynEffect DEF Myaddr
<1>12. CASE Namecheap
  <2>1. Known({"good"}, {},
              {"Err1"})
    BY DEF Known
  <2> QED
    BY <1>12, <2>1, DynEffect DEF Namecheap
<1> QED
  BY <1>1, <1>2, <1>3, <1>4, <1>5, <1>6, <1>7, <1>8, <1>9, <1>10, <1>11, <1>12

(* Every exchange of every client is one of the changes it may make.             *)
LEMMA ExchangeEffect ==
  ASSUME ZInv, Exchange
  PROVE  Effect /\ UNCHANGED <<entry, target, edits>> /\ served' = (served \/ Serving')
<1>1. UNCHANGED <<entry, target, edits>> /\ served' = (served \/ Serving') /\ (RecordClient \/ DynClient)
  BY DEF Exchange
<1>2. Careful /\ Memory /\ OutOfReach
  BY DEF ZInv
<1>3. CASE RecordClient
  BY <1>1, <1>2, <1>3, CloudflareEffect, EditorsEffect, DreamhostEffect, SpaceshipEffect, LinodeEffect,
     NamesiloEffect, HetznerEffect, HetznercloudEffect, GcpEffect, IonosEffect, OvhEffect, PorkbunEffect,
     NamecomEffect, NetcupEffect, VercelVultrEffect, AliyunEffect, ReplacersEffect DEF RecordClient
<1>4. CASE DynClient
  BY <1>1, <1>2, <1>4, NamedEffect, DynDNSEffect, OwnWordsEffect DEF DynClient
<1> QED
  BY <1>1, <1>3, <1>4

-----------------------------------------------------------------------------
(* What the changes make of a zone.                                         *)

(* There is an id that none of the records has: they are finitely many.         *)
LEMMA FreshIsNew ==
  ASSUME NEW records, IsFiniteSet(records)
  PROVE  FreshAmong(records) \in Nat \ {0} /\ \A r \in records : r.id # FreshAmong(records)
<1> DEFINE ids == 1..(Cardinality(records) + 1)
           bearer == [i \in ids |-> CHOOSE r \in records : r.id = i]
<1>1. Cardinality(records) \in Nat
  BY FS_CardinalityType
<1>2. IsFiniteSet(ids) /\ Cardinality(ids) = Cardinality(records) + 1
  BY <1>1, FS_Interval
<1>3. \E i \in ids : \A r \in records : r.id # i
  <2>1. SUFFICES ASSUME \A i \in ids : \E r \in records : r.id = i PROVE FALSE
    OBVIOUS
  <2>2. \A i \in ids : bearer[i] \in records /\ bearer[i].id = i
    BY <2>1
  <2>3. bearer \in [ids -> records]
    BY <2>2
  <2>4. PICK i, j \in ids : i # j /\ bearer[i] = bearer[j]
    <3> HIDE DEF bearer, ids
    <3>1. Cardinality(records) < Cardinality(ids)
      BY <1>1, <1>2
    <3> QED
      BY <1>2, <2>3, <3>1, FS_PigeonHole
  <2> QED
    BY <2>2, <2>4
<1>4. FreshAmong(records) \in ids /\ \A r \in records : r.id # FreshAmong(records)
  BY <1>3 DEF FreshAmong
<1> QED
  BY <1>1, <1>4

LEMMA EnteredIsNew ==
  ASSUME Shaped(zone), IsFiniteSet(mem), NEW name, NEW ip \in Addrs
  PROVE  LET made == Entered(name, ip)
         IN  /\ made.name = name /\ made.type = TypeOf(ip) /\ made.val = ip
             /\ \A r \in zone \cup mem : r.id # made.id
<1>1. IsFiniteSet(zone \cup mem)
  BY FS_Union DEF Shaped
<1> QED
  BY <1>1, FreshIsNew DEF Entered, Fresh

LEMMA FewerShaped ==
  ASSUME Shaped(zone), NEW records \in SUBSET zone
  PROVE  Shaped(records) /\ (Follows(zone) => Follows(records))
<1>1. IsFiniteSet(records)
  BY FS_Subset DEF Shaped
<1> QED
  BY <1>1 DEF Shaped, Follows

(* A new record beside some of the others.                                    *)
LEMMA WithShaped ==
  ASSUME Shaped(zone), IsFiniteSet(mem), NEW name, NEW ip \in Addrs, NEW rest \in SUBSET zone
  PROVE  LET records == rest \cup {Entered(name, ip)}
         IN  Shaped(records) /\ (Follows(zone) => Follows(records))
<1> DEFINE made == Entered(name, ip)
<1>1. /\ made.name = name /\ made.type = TypeOf(ip) /\ made.val = ip
      /\ \A r \in zone \cup mem : r.id # made.id
  BY EnteredIsNew
<1>2. Shaped(rest) /\ (Follows(zone) => Follows(rest))
  BY FewerShaped
<1>3. IsFiniteSet(rest \cup {made})
  BY <1>2, FS_AddElement DEF Shaped
<1> HIDE DEF made
<1>4. Shaped(rest \cup {made})
  BY <1>1, <1>2, <1>3 DEF Shaped
<1>5. Follows(zone) => Follows(rest \cup {made})
  BY <1>1, <1>2 DEF Follows
<1> QED
  BY <1>4, <1>5 DEF made

(* A record of which only the address changes.                                 *)
LEMMA EditedShaped ==
  ASSUME Shaped(zone), NEW r, Exists(r), NEW name, NEW ip \in Addrs
  PROVE  /\ Shaped(Edited(r, name, ip))
         /\ Follows(zone) /\ (\A m \in mem : m.id = r.id => name = owner /\ TypeOf(ip) = RecordType)
              => Follows(Edited(r, name, ip))
<1> DEFINE made == [id |-> r.id, name |-> name, type |-> TypeOf(ip), val |-> ip]
           rest == Without({r})
<1>1. made.id = r.id /\ made.name = name /\ made.type = TypeOf(ip) /\ made.val = ip
  OBVIOUS
<1>2. rest \subseteq zone /\ \A s \in rest : s.id # r.id
  BY DEF Without
<1>3. Edited(r, name, ip) = rest \cup {made}
  BY DEF Edited
<1>4. Shaped(rest) /\ (Follows(zone) => Follows(rest))
  BY <1>2, FewerShaped
<1>5. IsFiniteSet(rest \cup {made})
  BY <1>4, FS_AddElement DEF Shaped
<1> HIDE DEF made, rest
<1>6. Shaped(rest \cup {made})
  BY <1>1, <1>2, <1>4, <1>5 DEF Shaped
<1>7. Follows(zone) /\ (\A m \in mem : m.id = r.id => name = owner /\ TypeOf(ip) = RecordType)
        => Follows(rest \cup {made})
  BY <1>1, <1>4 DEF Follows, Mine
<1> QED
  BY <1>3, <1>6, <1>7

(* A placeholder made an alias of something else.                              *)
LEMMA RedirectedShaped ==
  ASSUME Shaped(zone), NEW r \in zone, r.val = Parked,
         NEW made, made.id = r.id, made.name = r.name, made.type = r.type
  PROVE  LET records == Without({r}) \cup {made}
         IN  Shaped(records) /\ (Follows(zone) => Follows(records))
<1> DEFINE rest == Without({r})
<1>1. rest \subseteq zone /\ \A s \in rest : s.id # r.id
  BY DEF Without
<1>2. Shaped(rest) /\ (Follows(zone) => Follows(rest))
  BY <1>1, FewerShaped
<1>3. IsFiniteSet(rest \cup {made})
  BY <1>2, FS_AddElement DEF Shaped
<1>4. r.type \notin {"A", "AAAA"}
  BY ZonesAssumption DEF Shaped
<1> HIDE DEF rest
<1>5. Shaped(rest \cup {made})
  BY <1>1, <1>2, <1>3, <1>4 DEF Shaped
<1>6. Follows(zone) => Follows(rest \cup {made})
  BY <1>2 DEF Follows, Mine
<1> QED
  BY <1>5, <1>6 DEF rest

(* A call does not touch the records of others, nor gives two records an id.      *)
LEMMA ZoneStays ==
  ASSUME ZInv, Effect
  PROVE  /\ Shaped(zone') /\ Follows(zone')
         /\ {r \in zone' : ~Mine(r) /\ r.val # Parked} = {r \in zone : ~Mine(r) /\ r.val # Parked}
         /\ \A r \in zone' \ zone : Mine(r)
<1>1. /\ target \in Addrs /\ Shaped(zone) /\ IsFiniteSet(mem) /\ Follows(zone)
      /\ \A m \in mem : Mine(m)
  BY DEF ZInv, Memory, Effect
<1>2. \A r \in Matching(owner, RecordType) : Mine(r)
  BY DEF Matching, Mine
<1> DEFINE others(records) == {r \in records : ~Mine(r) /\ r.val # Parked}
           made == Entered(owner, target)
<1>3. Mine(made)
  BY <1>1, EnteredIsNew DEF Mine, RecordType
<1>4. ASSUME NEW gone \in SUBSET zone, zone' = zone \ gone, \A r \in gone : Mine(r) \/ r.val = Parked
      PROVE  Shaped(zone') /\ Follows(zone') /\ others(zone') = others(zone) /\ \A r \in zone' \ zone : Mine(r)
  <2>1. zone' \subseteq zone
    BY <1>4
  <2>2. Shaped(zone') /\ Follows(zone')
    BY <1>1, <2>1, FewerShaped
  <2> QED
    BY <1>4, <2>2
<1>5. ASSUME NEW gone \in SUBSET zone, zone' = (zone \ gone) \cup {made}, \A r \in gone : Mine(r)
      PROVE  Shaped(zone') /\ Follows(zone') /\ others(zone') = others(zone) /\ \A r \in zone' \ zone : Mine(r)
  <2>1. Shaped(zone') /\ Follows(zone')
    BY <1>1, <1>5, WithShaped
  <2> HIDE DEF made
  <2> QED
    BY <1>3, <1>5, <2>1
<1>6. CASE UNCHANGED zone
  BY <1>1, <1>6
<1>7. CASE zone' = With(owner, target)
  <2> DEFINE none == zone \ zone
  <2>1. none \subseteq zone /\ (\A r \in none : Mine(r)) /\ zone' = (zone \ none) \cup {made}
    BY <1>7 DEF With
  <2> HIDE DEF none
  <2> QED
    BY <1>5, <2>1
<1>8. CASE zone' = Replaced(owner, target)
  <2>1. Matching(owner, RecordType) \subseteq zone
    BY DEF Matching
  <2>2. zone' = (zone \ Matching(owner, RecordType)) \cup {made}
    BY <1>8 DEF Replaced, RecordType
  <2> QED
    BY <1>2, <1>5, <2>1, <2>2
<1>9. ASSUME NEW r \in mem, Exists(r), zone' = Edited(r, owner, target)
      PROVE  Shaped(zone') /\ Follows(zone') /\ others(zone') = others(zone) /\ \A s \in zone' \ zone : Mine(s)
  <2> DEFINE after == [id |-> r.id, name |-> owner, type |-> TypeOf(target), val |-> target]
  <2>1. Shaped(zone') /\ Follows(zone')
    BY <1>1, <1>9, EditedShaped DEF RecordType
  <2>2. Mine(after)
    BY DEF Mine, RecordType
  <2>3. \A s \in zone : s.id = r.id => Mine(s)
    BY <1>1 DEF Follows
  <2>4. zone' = {s \in zone : s.id # r.id} \cup {after}
    BY <1>9 DEF Edited, Without
  <2> HIDE DEF after
  <2> QED
    BY <2>1, <2>2, <2>3, <2>4
<1>10. CASE zone' = zone \ Old
  <2>1. Old \subseteq zone /\ \A r \in Old : Mine(r)
    BY <1>2 DEF Old, Matching
  <2> QED
    BY <1>4, <1>10, <2>1
<1>11. ASSUME NEW name, NEW type, zone' = zone \ Matching(name, type), Placeholders(name, type)
       PROVE  Shaped(zone') /\ Follows(zone') /\ others(zone') = others(zone) /\ \A r \in zone' \ zone : Mine(r)
  <2>1. Matching(name, type) \subseteq zone /\ \A r \in Matching(name, type) : r.val = Parked
    BY <1>11 DEF Matching, Placeholders
  <2> QED
    BY <1>4, <1>11, <2>1
<1> QED
  BY <1>6, <1>7, <1>8, <1>9, <1>10, <1>11 DEF Effect, ZoneChange, ZInv, Marked

LEMMA ExchangeKeepsZone ==
  ASSUME ZInv, Exchange
  PROVE  ZInv'
<1>1. Effect /\ UNCHANGED <<entry, target, edits>> /\ served' = (served \/ Serving')
  BY ExchangeEffect
<1>2. /\ client' = client /\ owner' = owner /\ faults' = faults /\ target' = target
      /\ RecordType' = RecordType
  BY <1>1 DEF entry, RecordType
<1>3. /\ Shaped(zone') /\ Follows(zone')
      /\ \A r \in zone' \ zone : Mine(r)
  BY <1>1, ZoneStays
<1>4. Careful'
  BY <1>2 DEF ZInv, Careful
<1>5. Memory'
  <2>1. CASE mem' \subseteq mem
    <3>1. IsFiniteSet(mem')
      BY <2>1, FS_Subset DEF ZInv, Memory
    <3>2. Calling /\ (\A m \in mem : Mine(m))
      BY <1>1 DEF ZInv, Memory, Effect
    <3> QED
      BY <1>2, <1>3, <2>1, <3>1, <3>2 DEF Memory, Follows, Mine
  <2>2. CASE UNCHANGED zone /\ mem' \subseteq Matching(owner, RecordType)
    <3>1. mem' \subseteq zone /\ \A m \in mem' : Mine(m)
      BY <2>2 DEF Matching, Mine
    <3>2. IsFiniteSet(mem')
      BY <3>1, FS_Subset DEF ZInv, Shaped
    <3>3. \A m \in mem', s \in zone' : s.id = m.id => Mine(s)
      BY <2>2, <3>1 DEF ZInv, Shaped
    <3> QED
      BY <1>2, <3>1, <3>2, <3>3 DEF Memory, Follows, Mine
  <2>3. CASE mem' = {Entered(owner, target)} /\ (UNCHANGED zone \/ zone' = With(owner, target))
    <3> DEFINE made == Entered(owner, target)
    <3>1. made.name = owner /\ made.type = RecordType /\ \A r \in zone : r.id # made.id
      BY EnteredIsNew DEF ZInv, Memory, RecordType
    <3>2. zone' \subseteq zone \cup {made}
      BY <2>3 DEF With
    <3>3. IsFiniteSet(mem')
      BY <2>3, FS_Singleton
    <3>4. mem' = {made}
      BY <2>3
    <3> HIDE DEF made
    <3>5. \A m \in mem', s \in zone' : s.id = m.id => Mine(s)
      BY <3>1, <3>2, <3>4 DEF Mine
    <3>6. \A m \in mem' : Mine(m)
      BY <3>1, <3>4 DEF Mine
    <3> QED
      BY <1>2, <3>3, <3>5, <3>6 DEF Memory, Follows, Mine
  <2> QED
    BY <1>1, <2>1, <2>2, <2>3 DEF Effect, Recalls
<1>6. OutOfReach'
  BY <1>2, <1>3 DEF ZInv, OutOfReach, Mine
<1>7. Marked'
  BY <1>1, <1>2 DEF Effect, Marks, Marked, Placeholders, Matching, At
<1>8. Noticed'
  BY <1>1 DEF Noticed
<1> QED
  BY <1>2, <1>3, <1>4, <1>5, <1>6, <1>7, <1>8 DEF ZInv, Shaped

LEMMA UserEditKeepsZone ==
  ASSUME ZInv, UNCHANGED entry, UserEdit
  PROVE  ZInv'
<1>1. /\ client' = client /\ owner' = owner /\ faults' = faults /\ UNCHANGED <<target, at, mem>>
      /\ RecordType' = RecordType /\ served' = (served \/ Serving')
  BY DEF UserEdit, entry, RecordType
<1>2. /\ target \in Addrs /\ Careful /\ Shaped(zone) /\ IsFiniteSet(mem) /\ (Calling => Follows(zone))
      /\ OutOfReach /\ Marked
  BY DEF ZInv, Memory
<1>3. /\ Shaped(zone') /\ (Calling => Follows(zone')) /\ (\A r \in zone' \ zone : r.name \in {s.name : s \in zone} \cup {owner})
      /\ \A r \in zone' \ zone : r.type \in {"A", "AAAA"} \/ client # "porkbun"
  <2>1. ASSUME NEW ip \in Addrs, zone' = With(owner, ip)
        PROVE  <1>3!:
    <3> DEFINE made == Entered(owner, ip)
    <3>1. zone' = zone \cup {made} /\ made.name = owner /\ made.type \in {"A", "AAAA"}
      BY <1>2, <2>1, EnteredIsNew DEF With, TypeOf
    <3>2. Shaped(zone') /\ (Follows(zone) => Follows(zone'))
      BY <1>2, <3>1, WithShaped
    <3> HIDE DEF made
    <3> QED
      BY <1>2, <3>1, <3>2
  <2>2. ASSUME NEW ip \in Addrs, NEW r \in Matching(owner, TypeOf(ip)), zone' = Edited(r, owner, ip)
        PROVE  <1>3!:
    <3>1. r \in zone /\ r.name = owner /\ r.type = TypeOf(ip) /\ Exists(r)
      BY DEF Matching, Exists
    <3>2. Calling => \A m \in mem : m.id = r.id => owner = owner /\ TypeOf(ip) = RecordType
      BY <1>2, <3>1 DEF Follows, Mine
    <3>3. Shaped(zone') /\ (Calling => Follows(zone'))
      BY <1>2, <2>2, <3>1, <3>2, EditedShaped
    <3>4. \A s \in zone' \ zone : s.name = owner /\ s.type \in {"A", "AAAA"}
      BY <2>2 DEF Edited, Without, TypeOf
    <3> QED
      BY <3>3, <3>4
  <2>3. ASSUME NEW r \in zone, zone' = zone \ {r}
        PROVE  <1>3!:
    <3>1. zone' \subseteq zone
      BY <2>3
    <3> QED
      BY <1>2, <3>1, FewerShaped
  <2>4. ASSUME NEW r \in zone, r.val = Parked, Happens("redirect"),
               zone' = Without({r}) \cup {[r EXCEPT !.val = Elsewhere]}
        PROVE  <1>3!:
    <3> DEFINE made == [r EXCEPT !.val = Elsewhere]
    <3>1. made.id = r.id /\ made.name = r.name /\ made.type = r.type
      OBVIOUS
    <3>2. zone' = Without({r}) \cup {made} /\ client # "porkbun" /\ Without({r}) \subseteq zone
      BY <1>2, <2>4 DEF Careful, Happens, Without
    <3> HIDE DEF made
    <3>3. Shaped(zone') /\ (Follows(zone) => Follows(zone'))
      BY <1>2, <2>4, <3>1, <3>2, RedirectedShaped
    <3> QED
      BY <1>2, <3>1, <3>2, <3>3
  <2> QED
    BY <2>1, <2>2, <2>3, <2>4 DEF UserEdit
<1>4. Memory'
  BY <1>1, <1>2, <1>3 DEF ZInv, Memory, Follows, Mine, Calling
<1>5. OutOfReach'
  BY <1>1, <1>2, <1>3 DEF OutOfReach
<1>6. Marked'
  BY <1>1, <1>2, <1>3 DEF Marked, Placeholders, Matching, At
<1> QED
  BY <1>1, <1>2, <1>3, <1>4, <1>5, <1>6 DEF ZInv, Careful, Noticed, Shaped

(* The zone is one a provider keeps and a call remembers records of ours only.    *)
LEMMA ZonesKept ==
  ASSUME ZInv, [Next]_vars
  PROVE  ZInv'
<1>1. CASE Exchange
  BY <1>1, ExchangeKeepsZone
<1>2. CASE UNCHANGED entry /\ Call
  <2>1. /\ client' = client /\ owner' = owner /\ faults' = faults /\ UNCHANGED <<zone, target>>
        /\ mem' = {} /\ at' = "start" /\ served' = Serving /\ Serving' = Serving
        /\ served' \in BOOLEAN
    BY <1>2 DEF Call, Goto, entry, Serving, Ours, Matching, RecordType
  <2>2. Memory'
    BY <2>1, FS_EmptySet DEF Memory, Follows
  <2>3. Marked' /\ OutOfReach' /\ Noticed' /\ Careful' /\ Shaped(zone)'
    BY <2>1 DEF ZInv, Marked, At, OutOfReach, Noticed, Careful, Shaped
  <2> QED
    BY <2>1, <2>2, <2>3 DEF ZInv
<1>3. CASE UNCHANGED entry /\ Move
  <2>1. /\ client' = client /\ owner' = owner /\ faults' = faults /\ UNCHANGED <<zone, mem>>
        /\ at' = "idle" /\ ~Calling' /\ target' \in Addrs /\ served' = FALSE
    BY <1>3 DEF Move, entry, Calling, Outcomes
  <2>2. Memory' /\ Noticed'
    BY <2>1 DEF ZInv, Memory, Noticed
  <2>3. Marked' /\ OutOfReach' /\ Careful' /\ Shaped(zone)'
    BY <2>1 DEF ZInv, Marked, At, OutOfReach, Careful, Shaped
  <2> QED
    BY <2>1, <2>2, <2>3 DEF ZInv
<1>4. CASE UNCHANGED entry /\ UserEdit
  BY <1>4, UserEditKeepsZone
<1>5. CASE UNCHANGED vars
  BY <1>5 DEF vars, entry, ZInv, Careful, Shaped, Memory, Follows, Mine, RecordType, Calling, OutOfReach, Marked, At,
     Placeholders, Matching, Noticed, Serving, Ours
<1> QED
  BY <1>1, <1>2, <1>3, <1>4, <1>5 DEF Next

LEMMA ZonesAtFirst ==
  ASSUME CarefulEntries, Init
  PROVE  ZInv
<1>1. PICK e \in Entries : client = e.client /\ owner = e.owner /\ faults = e.faults /\ zone \in e.zones
  BY DEF Init
<1>2. Shaped(zone)
  BY <1>1, ZonesAssumption DEF Shaped
<1>3. Careful /\ OutOfReach
  BY <1>1 DEF CarefulEntries, Careful, OutOfReach
<1>4. target \in Addrs /\ at = "idle" /\ mem = {} /\ served = FALSE
  BY DEF Init
<1> QED
  BY <1>2, <1>3, <1>4, FS_EmptySet DEF ZInv, Memory, Marked, At, Noticed, Calling, Outcomes

(* An exchange leaves the records of other names and of the other family as they *)
(* are: whatever the client lists, it adds, edits, replaces and removes records of *)
(* ours, or the placeholders that porkbun puts on a parked domain.               *)
THEOREM OthersUntouchedHolds ==
  ASSUME CarefulEntries
  PROVE  Spec => OthersUntouched
<1>1. Init => ZInv
  BY ZonesAtFirst
<1>2. ZInv /\ [Next]_vars => ZInv'
  BY ZonesKept
<1>3. ZInv /\ [Next]_vars => [LeavesOthers]_vars
  <2>1. SUFFICES ASSUME ZInv, Exchange PROVE Others' = Others
    BY DEF LeavesOthers
  <2>2. Effect /\ UNCHANGED <<entry, target, edits>>
    BY <2>1, ExchangeEffect
  <2>3. {r \in zone' : ~Mine(r) /\ r.val # Parked} = {r \in zone : ~Mine(r) /\ r.val # Parked}
    BY <2>1, <2>2, ZoneStays
  <2>4. owner' = owner /\ RecordType' = RecordType
    BY <2>2 DEF entry, RecordType
  <2> QED
    BY <2>3, <2>4 DEF Others, Mine
<1> QED
  BY <1>1, <1>2, <1>3, PTL DEF Spec, OthersUntouched

-----------------------------------------------------------------------------
(* One record of a family. Of ionos the record of the wildcard is looked for   *)
(* under another name than it is made with.                                   *)
Lone(records) ==
  \A r, s \in records :
    r.name = owner /\ s.name = owner /\ r.type = s.type /\ r.type \in {"A", "AAAA"} => r = s
AloneEntries ==
  \A e \in Entries : "add" \notin e.faults /\ e.client \notin WithoutEdit =>
    /\ e.client = "ionos" => e.owner # "*"
    /\ \A z \in e.zones : \A r, s \in z :
         r.name = e.owner /\ s.name = e.owner /\ r.type = s.type /\ r.type \in {"A", "AAAA"} => r = s

(* There is one record of a family at most, and a client about to add one has    *)
(* found none.                                                               *)
Alone ==
  "add" \notin faults /\ client \notin WithoutEdit
    => ~Crowding /\ Lone(zone) /\ (Creating => Matching(owner, RecordType) = {})

LEMMA LoneStays ==
  ASSUME ZInv, Effect, ~Crowding, client \notin WithoutEdit, Lone(zone),
         Creating => Matching(owner, RecordType) = {}
  PROVE  Lone(zone')
<1>1. /\ target \in Addrs /\ Shaped(zone) /\ IsFiniteSet(mem) /\ Follows(zone)
      /\ RecordType \in {"A", "AAAA"}
  BY DEF ZInv, Memory, Effect, RecordType, TypeOf
<1> DEFINE made == Entered(owner, target)
<1>2. made.name = owner /\ made.type = RecordType
  BY <1>1, EnteredIsNew DEF RecordType
<1> HIDE DEF made
<1>3. CASE zone' \subseteq zone
  BY <1>3 DEF Lone
<1>4. CASE zone' = With(owner, target) /\ Creating
  <2>1. zone' = zone \cup {made}
    BY <1>4 DEF With, made
  <2>2. \A r \in zone : ~(r.name = owner /\ r.type = RecordType)
    BY <1>4 DEF Matching
  <2> QED
    BY <1>2, <2>1, <2>2 DEF Lone
<1>5. CASE zone' = Replaced(owner, target)
  <2>1. zone' = {r \in zone : ~(r.name = owner /\ r.type = RecordType)} \cup {made}
    BY <1>5 DEF Replaced, Matching, RecordType, made
  <2> QED
    BY <1>2, <2>1 DEF Lone
<1>6. ASSUME NEW r \in mem, Exists(r), zone' = Edited(r, owner, target)
      PROVE  Lone(zone')
  <2> DEFINE after == [id |-> r.id, name |-> owner, type |-> RecordType, val |-> target]
  <2>1. PICK s \in zone : s.id = r.id
    BY <1>6 DEF Exists
  <2>2. s.name = owner /\ s.type = RecordType
    BY <1>1, <2>1 DEF Follows, Mine
  <2>3. zone' = {t \in zone : t.id # s.id} \cup {after}
    BY <1>6, <2>1 DEF Edited, Without, RecordType
  <2>4. after.name = owner /\ after.type = RecordType
    OBVIOUS
  <2> HIDE DEF after
  <2>5. \A t \in zone : t.id # s.id => ~(t.name = owner /\ t.type = RecordType)
    BY <1>1, <2>2 DEF Lone
  <2> QED
    BY <2>3, <2>4, <2>5 DEF Lone
<1> QED
  BY <1>3, <1>4, <1>5, <1>6 DEF Effect, ZoneChange

LEMMA AloneKept ==
  ASSUME ZInv, Alone, [Next]_vars
  PROVE  Alone'
<1> SUFFICES ASSUME "add" \notin faults', client' \notin WithoutEdit
             PROVE  ~Crowding' /\ Lone(zone)' /\ (Creating' => Matching(owner, RecordType)' = {})
  BY DEF Alone
<1>1. client' = client /\ owner' = owner /\ faults' = faults
  BY DEF Next, Exchange, vars, entry
<1>2. ~Crowding /\ Lone(zone) /\ (Creating => Matching(owner, RecordType) = {}) /\ ~Crowding' /\ "add" \notin faults
  BY <1>1 DEF Alone, Crowding
<1>3. CASE Exchange
  <2>1. Effect /\ UNCHANGED <<entry, target, edits>>
    BY <1>3, ExchangeEffect
  <2>2. Lone(zone')
    BY <1>1, <1>2, <2>1, LoneStays
  <2>3. RecordType' = RecordType
    BY <2>1 DEF RecordType
  <2>4. Creating' => zone' \subseteq zone /\ Matching(owner, RecordType) = {}
    BY <1>2, <2>1 DEF Effect, FoundNone
  <2> QED
    BY <1>1, <1>2, <2>2, <2>3, <2>4 DEF Lone, Matching
<1>4. CASE UNCHANGED <<zone, target, at, mem>>
  BY <1>1, <1>2, <1>4 DEF Lone, Creating, Matching, RecordType
<1>5. CASE Call \/ Move
  <2>1. UNCHANGED zone /\ at' \in {"start", "idle"}
    BY <1>5 DEF Call, Move, Goto
  <2> QED
    BY <1>1, <1>2, <2>1 DEF Lone, Creating
<1>6. CASE UserEdit
  <2>1. UNCHANGED <<target, at, mem>> /\ Shaped(zone)
    BY <1>6 DEF UserEdit, ZInv
  <2>2. ASSUME \A r \in zone' : r.name = owner /\ r.type \in {"A", "AAAA"} =>
                 \E s \in zone : s.name = owner /\ s.type = r.type,
               Lone(zone')
        PROVE  Lone(zone)' /\ (Creating' => Matching(owner, RecordType)' = {})
    <3>1. RecordType' = RecordType /\ RecordType \in {"A", "AAAA"} /\ (Creating' => Creating)
      BY <1>1, <2>1 DEF RecordType, TypeOf, Creating
    <3> QED
      BY <1>1, <1>2, <2>2, <3>1 DEF Lone, Matching
  <2>3. CASE zone' \subseteq zone
    BY <1>2, <2>2, <2>3 DEF Lone
  <2>4. ASSUME NEW ip \in Addrs, NEW r \in Matching(owner, TypeOf(ip)), zone' = Edited(r, owner, ip)
        PROVE  Lone(zone)' /\ (Creating' => Matching(owner, RecordType)' = {})
    <3> DEFINE after == [id |-> r.id, name |-> owner, type |-> TypeOf(ip), val |-> ip]
    <3>1. zone' = {s \in zone : s.id # r.id} \cup {after}
      BY <2>4 DEF Edited, Without
    <3>2. r \in zone /\ r.name = owner /\ r.type = TypeOf(ip) /\ after.name = owner /\ after.type = TypeOf(ip)
      BY DEF Matching
    <3>3. TypeOf(ip) \in {"A", "AAAA"}
      BY DEF TypeOf
    <3> HIDE DEF after
    <3>4. \A s \in zone : s.id # r.id => ~(s.name = owner /\ s.type = TypeOf(ip))
      BY <1>2, <3>2, <3>3 DEF Lone
    <3>5. Lone(zone')
      BY <1>2, <3>1, <3>2, <3>4 DEF Lone
    <3>6. \A s \in zone' : s.name = owner => \E t \in zone : t.name = owner /\ t.type = s.type
      BY <3>1, <3>2
    <3> QED
      BY <2>2, <3>5, <3>6
  <2>5. ASSUME NEW r \in zone, r.val = Parked, zone' = Without({r}) \cup {[r EXCEPT !.val = Elsewhere]}
        PROVE  Lone(zone)' /\ (Creating' => Matching(owner, RecordType)' = {})
    <3> DEFINE after == [r EXCEPT !.val = Elsewhere]
    <3>1. zone' \subseteq zone \cup {after} /\ after.type = r.type
      BY <2>5 DEF Without
    <3>2. r.type \notin {"A", "AAAA"}
      BY <2>1, <2>5, ZonesAssumption DEF Shaped
    <3> HIDE DEF after
    <3>3. Lone(zone')
      BY <1>2, <3>1, <3>2 DEF Lone
    <3> QED
      BY <2>2, <3>1, <3>2, <3>3
  <2>6. ~Happens("add")
    BY <1>2 DEF Happens
  <2> QED
    BY <1>2, <1>6, <2>3, <2>4, <2>5, <2>6 DEF UserEdit
<1> QED
  BY <1>2, <1>3, <1>4, <1>5, <1>6 DEF Next, vars

(* Calls that fail half-way and are repeated do not pile records up: a client    *)
(* adds one only if it found none and nothing came in between, and one that lists *)
(* the records of another name than it makes is the exception.                  *)
THEOREM NoPileUpHolds ==
  ASSUME CarefulEntries, AloneEntries
  PROVE  Spec => []NoPileUp
<1>1. Init => ZInv /\ Alone
  <2> SUFFICES ASSUME Init PROVE Alone
    BY ZonesAtFirst
  <2>1. PICK e \in Entries : client = e.client /\ owner = e.owner /\ faults = e.faults /\ zone \in e.zones
    BY DEF Init
  <2>2. at = "idle"
    BY DEF Init
  <2> QED
    BY <2>1, <2>2 DEF AloneEntries, Alone, Lone, Creating, Crowding
<1>2. ZInv /\ Alone /\ [Next]_vars => ZInv' /\ Alone'
  BY ZonesKept, AloneKept
<1>3. ZInv /\ Alone => NoPileUp
  <2> SUFFICES ASSUME ZInv, Alone, "add" \notin faults, client \notin WithoutEdit
               PROVE  Cardinality(Matching(owner, RecordType)) <= 1
    BY DEF NoPileUp
  <2> DEFINE ours == Matching(owner, RecordType)
  <2>1. \A r, s \in ours : r = s
    BY DEF Alone, Lone, Matching, RecordType, TypeOf
  <2>2. CASE ours = {}
    BY <2>2, FS_EmptySet
  <2>3. ASSUME NEW r \in ours PROVE Cardinality(ours) <= 1
    <3> HIDE DEF ours
    <3>1. ours = {r}
      BY <2>1, <2>3
    <3>2. Cardinality(ours) = 1
      BY <3>1, FS_Singleton
    <3> QED
      BY <3>2
  <2> QED
    BY <2>2, <2>3
<1> QED
  BY <1>1, <1>2, <1>3, PTL DEF Spec

-----------------------------------------------------------------------------
(* The contract. A user who deletes or changes the record dreamhost's client has  *)
(* just made, before it removes the old one, is not the program's doing.         *)
SwapsLeftAlone ==
  \A e \in Entries : e.client = "dreamhost" => {"delete", "change"} \cap e.faults = {}

(* The record to be removed is not the one that has the address.                *)
Swapping ==
  /\ client = "dreamhost" => "ignored" \notin faults /\ {"delete", "change"} \cap faults = {}
  /\ client = "dreamhost" /\ at \in {"create", "remove"} => \A m \in mem : m.val # target
  /\ At("dreamhost", "remove") => Serving

LEMMA SwapsKept ==
  ASSUME ZInv, Swapping, [Next]_vars
  PROVE  Swapping'
<1>1. client' = client /\ owner' = owner /\ faults' = faults
  BY DEF Next, Exchange, vars, entry
<1> SUFFICES ASSUME client = "dreamhost"
             PROVE  /\ at' \in {"create", "remove"} => \A m \in mem' : m.val # target'
                    /\ at' = "remove" => Serving'
  BY <1>1 DEF Swapping, At
<1>2. "ignored" \notin faults /\ "delete" \notin faults /\ "change" \notin faults
  BY DEF Swapping
<1>3. CASE Exchange
  <2>1. Effect /\ UNCHANGED <<entry, target, edits>>
    BY <1>3, ExchangeEffect
  <2>2. at' = "create" => \A m \in mem' : m.val # target
    BY <2>1 DEF Effect, Marks
  <2>3. at' = "remove" => at = "create" /\ mem' = mem /\ zone' = With(owner, target)
    BY <1>2, <2>1 DEF Effect, Marks
  <2>4. at' = "remove" => Serving'
    BY <2>1, <2>3, WithServes
  <2> QED
    BY <2>1, <2>2, <2>3, <2>4 DEF Swapping
<1>4. CASE UNCHANGED <<zone, target, at, mem>>
  BY <1>1, <1>4 DEF Swapping, At, Serving, Ours, Matching, RecordType
<1>5. CASE Call \/ Move
  BY <1>5 DEF Call, Move, Goto
<1>6. CASE UserEdit
  <2>1. UNCHANGED <<target, at, mem>> /\ RecordType' = RecordType /\ Shaped(zone)
    BY <1>6 DEF UserEdit, ZInv, RecordType
  <2>2. \A r \in Matching(owner, RecordType) : r \in zone'
    <3>1. \A r \in Matching(owner, RecordType) : r \in zone /\ r.type \in {"A", "AAAA"}
      BY DEF Matching, RecordType, TypeOf
    <3>2. \A r, s \in zone : s.type \in {"A", "AAAA"} /\ r.val = Parked => r.id # s.id
      BY <2>1, ZonesAssumption DEF Shaped
    <3>3. CASE zone \subseteq zone'
      BY <3>1, <3>3
    <3>4. ASSUME NEW r \in zone, r.val = Parked, Without({r}) \subseteq zone'
          PROVE  \A s \in Matching(owner, RecordType) : s \in zone'
      BY <3>1, <3>2, <3>4 DEF Without
    <3> QED
      BY <1>2, <1>6, <3>3, <3>4 DEF UserEdit, Happens, With
  <2>3. Serving => Serving'
    BY <1>1, <2>1, <2>2 DEF Serving, Ours, Matching
  <2> QED
    BY <2>1, <2>3 DEF Swapping, At
<1> QED
  BY <1>3, <1>4, <1>5, <1>6 DEF Next, vars

(* The addresses of our record among some records.                              *)
AddressesIn(records, type) == {r.val : r \in {s \in records : s.name = owner /\ s.type = type}}

(* What an exchange makes of the addresses of our record.                       *)
Shift(was, is) ==
  \/ is = was
  \/ target \in is /\ is \ {target} \subseteq was /\ at' \notin {"banned", "panicked"}
  \/ client = "spaceship" /\ is \subseteq was /\ at' \in {"create", "failed"}

LEMMA AddressesAfter ==
  ASSUME ZInv, Swapping, Effect, UNCHANGED <<entry, target>>
  PROVE  /\ \A type \in {"A", "AAAA"} \ {RecordType} : AddressesIn(zone', type) = AddressesIn(zone, type)
         /\ Shift(AddressesIn(zone, RecordType), AddressesIn(zone', RecordType))
<1>1. /\ target \in Addrs /\ Shaped(zone) /\ IsFiniteSet(mem) /\ Shaped(zone')
      /\ {r \in zone' : ~Mine(r) /\ r.val # Parked} = {r \in zone : ~Mine(r) /\ r.val # Parked}
  BY ZoneStays DEF ZInv, Memory
<1>2. owner' = owner /\ RecordType' = RecordType /\ RecordType \in {"A", "AAAA"}
  BY DEF entry, RecordType, TypeOf
<1>3. Serving' => target \in AddressesIn(zone', RecordType)
  BY <1>2 DEF Serving, Ours, Matching, AddressesIn
<1>4. ASSUME NEW type \in {"A", "AAAA"} \ {RecordType}
      PROVE  AddressesIn(zone', type) = AddressesIn(zone, type)
  <2>1. {r \in zone' : r.name = owner /\ r.type = type} = {r \in zone : r.name = owner /\ r.type = type}
    BY <1>1, ZonesAssumption DEF Mine, Shaped
  <2> QED
    BY <2>1 DEF AddressesIn
<1> DEFINE was == AddressesIn(zone, RecordType)
           is == AddressesIn(zone', RecordType)
<1> SUFFICES Shift(was, is)
  BY <1>4
<1>5. CASE UNCHANGED zone
  BY <1>5 DEF Shift
<1>6. ASSUME \A r \in zone' : r \in zone \/ r.val = target, Serving', zone' # zone
      PROVE  Shift(was, is)
  <2>1. is \ {target} \subseteq was
    BY <1>6 DEF AddressesIn
  <2> QED
    BY <1>3, <1>6, <2>1 DEF Effect, Shift
<1>7. CASE (zone' = With(owner, target) \/ zone' = Replaced(owner, target)) /\ zone' # zone
  <2>1. Entered(owner, target).val = target
    BY DEF Entered
  <2>2. \A r \in zone' : r \in zone \/ r.val = target
    BY <1>7, <2>1 DEF With, Replaced
  <2>3. Serving'
    BY <1>7, WithServes
  <2> QED
    BY <1>6, <1>7, <2>2, <2>3
<1>8. CASE (\E r \in mem : zone' = Edited(r, owner, target)) /\ zone' # zone
  <2>1. PICK r \in mem : zone' = Edited(r, owner, target)
    BY <1>8
  <2>2. \A s \in zone' : s \in zone \/ s.val = target
    BY <2>1 DEF Edited, Without
  <2>3. Serving'
    BY <2>1, EditedServes
  <2> QED
    BY <1>6, <1>8, <2>2, <2>3
<1>9. CASE zone' = zone \ Old /\ At("dreamhost", "remove") /\ zone' # zone
  <2>1. Serving /\ \A m \in mem : m.val # target
    BY <1>9 DEF Swapping, At
  <2>2. \A r \in Old : r.val # target
    BY <2>1 DEF Old
  <2>3. PICK r \in Matching(owner, RecordType) : r.val = target
    BY <2>1 DEF Serving, Ours
  <2>4. r \in zone' /\ r.name = owner /\ r.type = RecordType
    BY <1>9, <2>2, <2>3 DEF Matching
  <2>5. Serving'
    BY <2>3, <2>4, HasOurs
  <2> QED
    BY <1>6, <1>9, <2>5
<1>10. CASE zone' = zone \ Old /\ client = "spaceship" /\ at' \in {"create", "failed"}
  <2>1. is \subseteq was
    BY <1>10 DEF AddressesIn
  <2> QED
    BY <1>10, <2>1 DEF Shift
<1>11. ASSUME NEW name, NEW type \in {"CNAME", "ALIAS"}, zone' = zone \ Matching(name, type)
       PROVE  Shift(was, is)
  <2>1. {r \in zone' : r.name = owner /\ r.type = RecordType} = {r \in zone : r.name = owner /\ r.type = RecordType}
    BY <1>2, <1>11 DEF Matching
  <2>2. is = was
    BY <2>1 DEF AddressesIn
  <2> QED
    BY <2>2 DEF Shift
<1> QED
  BY <1>5, <1>7, <1>8, <1>9, <1>10, <1>11 DEF Effect, ZoneChange, At

-----------------------------------------------------------------------------
(* Each exchange is Serve, Drop, Finish or not visible.                          *)
LEMMA ExchangeRefines ==
  ASSUME SInv, SInv', ZInv, ZInv', Swapping, Exchange
  PROVE  Contract!ContractNext \/ UNCHANGED Contract!cvars
<1>1. Effect /\ UNCHANGED <<entry, target, edits>> /\ served' = (served \/ Serving')
  BY ExchangeEffect
<1>2. /\ \A type \in {"A", "AAAA"} \ {RecordType} : AddressesIn(zone', type) = AddressesIn(zone, type)
      /\ Shift(AddressesIn(zone, RecordType), AddressesIn(zone', RecordType))
  BY <1>1, AddressesAfter
<1>3. /\ client' = client /\ owner' = owner /\ RecordType' = RecordType /\ RecordType \in {"A", "AAAA"}
      /\ RecordType = Contract!Family(target)
  BY <1>1 DEF entry, RecordType, TypeOf, Contract!Family
<1> DEFINE addrs == [type \in {"A", "AAAA"} |-> AddressesIn(zone, type)]
           after == [type \in {"A", "AAAA"} |-> AddressesIn(zone', type)]
<1>4. /\ [type \in {"A", "AAAA"} |-> Ours(type)] = addrs
      /\ [type \in {"A", "AAAA"} |-> Ours(type)]' = after
  BY <1>3 DEF Ours, Matching, AddressesIn
<1>5. after = [addrs EXCEPT ![RecordType] = after[RecordType]]
  BY <1>2, <1>3
<1>6. Phase = "calling" /\ at' # "idle" /\ Phase' = IF Calling' THEN "calling" ELSE at'
  BY <1>1 DEF Effect, Phase
<1>7. Calling /\ (Calling' \/ at' \in {"ok", "failed", "banned", "panicked"})
  BY <1>1 DEF Effect, Calling, Outcomes
<1>8. addrs[RecordType] = AddressesIn(zone, RecordType) /\ after[RecordType] = AddressesIn(zone', RecordType)
  BY <1>3
<1>9. (Serving <=> target \in addrs[RecordType]) /\ (Serving' <=> target \in after[RecordType])
  <2> HIDE DEF addrs, after
  <2> QED
    BY <1>1, <1>3, <1>8 DEF Serving, Ours, Matching, AddressesIn
<1>10. served \in BOOLEAN /\ (Serving => served)
  BY <1>7 DEF ZInv, Noticed
<1>11. at' = "ok" => served'
  BY DEF SInv, Written
<1>15. after[RecordType] = addrs[RecordType] => after = addrs
  BY <1>2, <1>3
<1> HIDE DEF addrs, after
<1>12. CASE after = addrs
  <2>1. served' = served
    BY <1>1, <1>9, <1>10, <1>12
  <2>2. CASE Calling'
    BY <1>1, <1>3, <1>4, <1>6, <1>12, <2>1, <2>2 DEF Contract!cvars
  <2>3. CASE ~Calling'
    <3>1. Contract!Finish
      BY <1>1, <1>3, <1>4, <1>6, <1>7, <1>11, <1>12, <2>1, <2>3 DEF Contract!Finish
    <3> QED
      BY <3>1 DEF Contract!ContractNext
  <2> QED
    BY <2>2, <2>3
<1>13. CASE /\ target \in after[RecordType] /\ after[RecordType] \ {target} \subseteq addrs[RecordType]
            /\ at' \notin {"banned", "panicked"}
  <2> DEFINE others == after[RecordType] \ {target}
  <2>1. others \subseteq addrs[RecordType] /\ others \cup {target} = after[RecordType]
    BY <1>13
  <2>2. after = [addrs EXCEPT ![Contract!Family(target)] = others \cup {target}]
    BY <1>3, <1>5, <2>1
  <2>3. served' = TRUE /\ Phase' \in {"calling", "ok", "failed"}
    BY <1>1, <1>6, <1>7, <1>9, <1>13
  <2> HIDE DEF others
  <2>4. Contract!Serve
    BY <1>1, <1>3, <1>4, <1>6, <2>1, <2>2, <2>3, <1>7 DEF Contract!Serve
  <2> QED
    BY <2>4 DEF Contract!ContractNext
<1>14. CASE client = "spaceship" /\ after[RecordType] \subseteq addrs[RecordType] /\ at' \in {"create", "failed"}
  <2>1. served' = served
    BY <1>1, <1>9, <1>10, <1>14
  <2>2. Phase' \in {"calling", "failed"}
    BY <1>6, <1>7, <1>14
  <2>3. after = [addrs EXCEPT ![Contract!Family(target)] = after[RecordType]]
    BY <1>3, <1>5
  <2>4. Contract!Drop
    BY <1>1, <1>3, <1>4, <1>6, <1>7, <1>14, <2>1, <2>2, <2>3 DEF Contract!Drop
  <2> QED
    BY <2>4 DEF Contract!ContractNext
<1> QED
  BY <1>2, <1>8, <1>12, <1>13, <1>14, <1>15 DEF Shift

(* A call is Begin, another address Retarget, an edit by a user Meddle.            *)
LEMMA StepRefines ==
  ASSUME SInv, SInv', ZInv, ZInv', Swapping, [Next]_vars
  PROVE  [Contract!ContractNext]_(Contract!cvars)
<1> DEFINE addrs == [type \in {"A", "AAAA"} |-> Ours(type)]
<1>1. CASE Exchange
  BY <1>1, ExchangeRefines
<1>2. CASE UNCHANGED entry /\ Call
  <2>1. /\ client' = client /\ owner' = owner /\ UNCHANGED <<zone, target, edits>> /\ ~Calling /\ at' = "start"
        /\ served' = Serving /\ RecordType = Contract!Family(target) /\ RecordType \in {"A", "AAAA"}
    BY <1>2 DEF Call, Goto, entry, Calling, RecordType, TypeOf, Contract!Family
  <2>2. addrs' = addrs
    BY <2>1 DEF Ours, Matching
  <2>3. Phase # "calling" /\ Phase' = "calling"
    BY <1>2, <2>1 DEF Phase, Calling, Outcomes, Call
  <2>4. served' = (target \in addrs[Contract!Family(target)])
    BY <2>1 DEF Serving
  <2>5. Contract!Begin
    BY <2>1, <2>2, <2>3, <2>4 DEF Contract!Begin
  <2> QED
    BY <2>5 DEF Contract!ContractNext
<1>3. CASE UNCHANGED entry /\ Move
  <2>1. /\ client' = client /\ owner' = owner /\ UNCHANGED <<zone, edits>> /\ ~Calling /\ at' = "idle"
        /\ served' = FALSE /\ target' \in Contract!Addrs
    BY <1>3 DEF Move, entry, Calling, Addrs, Contract!Addrs
  <2>2. addrs' = addrs
    BY <2>1 DEF Ours, Matching
  <2>3. Phase # "calling" /\ Phase' = "idle"
    BY <1>3, <2>1 DEF Phase, Calling, Outcomes, Move
  <2>4. Contract!Retarget
    BY <2>1, <2>2, <2>3 DEF Contract!Retarget
  <2> QED
    BY <2>4 DEF Contract!ContractNext
<1>4. CASE UNCHANGED entry /\ UserEdit
  <2>1. /\ client' = client /\ owner' = owner /\ UNCHANGED <<target, at>> /\ edits' = edits + 1
        /\ served' = (served \/ Serving') /\ Phase' = Phase
        /\ RecordType' = Contract!Family(target) /\ RecordType' \in {"A", "AAAA"}
    BY <1>4 DEF UserEdit, entry, RecordType, TypeOf, Contract!Family, Phase, Calling
  <2>2. addrs' \in [{"A", "AAAA"} -> SUBSET Contract!Addrs]
    BY <2>1 DEF ZInv, Shaped, Ours, Matching, Addrs, Contract!Addrs
  <2>3. Serving' <=> target \in addrs'[Contract!Family(target)]
    BY <2>1 DEF Serving, Ours, Matching
  <2>4. Contract!Meddle
    BY <2>1, <2>2, <2>3 DEF Contract!Meddle
  <2> QED
    BY <2>4 DEF Contract!ContractNext
<1>5. CASE UNCHANGED vars
  BY <1>5 DEF vars, entry, Contract!cvars, Ours, Matching, Phase, Calling
<1> QED
  BY <1>1, <1>2, <1>3, <1>4, <1>5 DEF Next

(* Every exchange of every client is a step the contract of Provider.Update       *)
(* allows, or none: the addresses of our record give way only to the one asked    *)
(* for, there is always one (but for spaceship), and a success is said only of a   *)
(* record that had the address. UpdateCycle takes the providers for this.        *)
THEOREM KeepsContractHolds ==
  ASSUME HonestEntries, CarefulEntries, SwapsLeftAlone
  PROVE  Spec => KeepsContract
<1> DEFINE Inv == SInv /\ ZInv /\ Swapping
<1>1. Init => Inv
  <2> SUFFICES ASSUME Init PROVE SInv /\ Swapping
    BY ZonesAtFirst
  <2>1. PICK e \in Entries : client = e.client /\ owner = e.owner /\ faults = e.faults /\ zone \in e.zones
    BY DEF Init
  <2>2. at = "idle" /\ mem = {}
    BY DEF Init
  <2>3. client = "dreamhost" => client \notin Checking
    BY DEF Checking
  <2> QED
    BY <2>1, <2>2, <2>3 DEF HonestEntries, SwapsLeftAlone, SInv, Swapping, Written, At
<1>2. Inv /\ [Next]_vars => Inv'
  BY SuccessKept, ZonesKept, SwapsKept
<1>3. Init => Contract!ContractInit
  <2> SUFFICES ASSUME Init PROVE Contract!ContractInit
    OBVIOUS
  <2>1. Shaped(zone) /\ target \in Addrs
    BY ZonesAtFirst DEF ZInv
  <2>2. [type \in {"A", "AAAA"} |-> Ours(type)] \in [{"A", "AAAA"} -> SUBSET Contract!Addrs]
    BY <2>1 DEF Shaped, Ours, Matching, Addrs, Contract!Addrs
  <2>3. Phase = "idle" /\ served = FALSE /\ edits = 0 /\ target \in Contract!Addrs
    BY <2>1 DEF Init, Phase, Calling, Outcomes, Addrs, Contract!Addrs
  <2> QED
    BY <2>2, <2>3 DEF Contract!ContractInit
<1>4. Inv /\ Inv' /\ [Next]_vars => [Contract!ContractNext]_(Contract!cvars)
  BY StepRefines
<1> QED
  BY <1>1, <1>2, <1>3, <1>4, PTL DEF Spec, KeepsContract, Contract!ContractSpec

-----------------------------------------------------------------------------
(* Calls that nothing disturbs. Every exchange is either as it should be or one   *)
(* of the deeds.                                                              *)
Counted == UNCHANGED deeds \/ \E fault : Happens(fault)

LEMMA RecordClientCounts ==
  ASSUME RecordClient
  PROVE  Counted
<1> USE DEF TakesFirst, TakesFirstAlways, Reads, Learns, NoAnswer, Edits, EditsBlindly, Writes, WritesBlindly, Counted
<1>1. CASE Cloudflare
  BY <1>1 DEF Cloudflare, CloudflareGetRecordID, CloudflareCreateRecord, CloudflareUpdate
<1>2. CASE DigitaloceanGetRecordID \/ DigitaloceanUpdate \/ DnspodUpdate
  BY <1>2 DEF DigitaloceanGetRecordID, DigitaloceanUpdate, DnspodUpdate
<1>3. CASE Luadns
  BY <1>3 DEF Luadns, LuadnsGetZoneID, LuadnsGetRecord, LuadnsUpdateRecord
<1>4. CASE Dreamhost
  BY <1>4 DEF Dreamhost, DreamhostUpdate, DreamhostCreateRecord, DreamhostRemoveRecord
<1>5. CASE Spaceship
  BY <1>5 DEF Spaceship, SpaceshipGetRecords, SpaceshipDeleteRecord, SpaceshipCreateRecord
<1>6. CASE Linode
  BY <1>6 DEF Linode, LinodeGetDomainID, LinodeGetRecordID, LinodeCreateRecord, LinodeUpdateRecord
<1>7. CASE Namesilo
  BY <1>7 DEF Namesilo, NamesiloGetRecord, NamesiloCreateRecord, NamesiloUpdateRecord, NamesiloValidateResponseCode
<1>8. CASE Hetzner
  BY <1>8 DEF Hetzner, HetznerGetRecordID, HetznerCreateRecord, HetznerUpdateRecord
<1>9. CASE Hetznercloud
  BY <1>9 DEF Hetznercloud, HetznercloudGetRecord, HetznercloudCreateRRSet, HetznercloudSetRecord,
     HetznercloudWaitAction, HetznercloudHandleErrorResponse
<1>10. CASE Gcp
  BY <1>10 DEF Gcp, GcpGetRRSet, GcpCreateRRSet, GcpPatchRRSet
<1>11. CASE Ionos
  BY <1>11 DEF Ionos, IonosGetZones, IonosGetRecords, IonosCreateRecord, IonosUpdateRecord
<1>12. CASE Ovh
  BY <1>12 DEF Ovh, OvhGetTimeDelta, OvhGetRecords, OvhCreateRecord, OvhUpdateRecord, OvhRefresh
<1>13. CASE Porkbun
  BY <1>13 DEF Porkbun, PorkbunGetRecords, PorkbunDefaultConflicts, PorkbunConflicts, PorkbunDeleteRecord,
     PorkbunCreateRecord, PorkbunUpdateRecord
<1>14. CASE Namecom
  BY <1>14 DEF Namecom, NamecomGetRecordID, NamecomCreateRecord, NamecomUpdateRecord
<1>15. CASE Netcup
  BY <1>15 DEF Netcup, NetcupLogin, NetcupGetRecordToUpdate, NetcupUpdateDNSRecords
<1>16. CASE Vercel \/ Vultr
  BY <1>16 DEF Vercel, VercelGetRecord, VercelCreateRecord, VercelUpdateRecord, Vultr, VultrGetRecord,
     VultrCreateRecord, VultrUpdateRecord
<1>17. CASE Aliyun
  BY <1>17 DEF Aliyun, AliyunGetRecordID, AliyunCreateRecord, AliyunUpdateRecord
<1>18. CASE GandiUpdate \/ GodaddyUpdate \/ Route53Update \/ ScalewayUpdate \/ ServercowUpdate
  BY <1>18 DEF GandiUpdate, GodaddyUpdate, Route53Update, ScalewayUpdate, ServercowUpdate
<1> QED
  BY <1>1, <1>2, <1>3, <1>4, <1>5, <1>6, <1>7, <1>8, <1>9, <1>10, <1>11, <1>12, <1>13, <1>14, <1>15, <1>16, <1>17,
     <1>18 DEF RecordClient

(* What lasts while nothing disturbs: a call that has ended has given our record  *)
(* the address, or the user has made the name an alias or given it several ones.   *)
Answered == at \in Outcomes \ {"idle"} => Several \/ Aliased \/ (at = "ok" /\ Serving)

(* The records a call remembers are still there.                              *)
Present == \A m \in mem : Exists(m)

(* What the stages of a call build on.                                        *)
Stage ==
  /\ at \in {"wait", "refresh"} => Serving
  /\ At("gcp", "create") => Matching(owner, RecordType) = {}
  /\ At("gcp", "patch") => Matching(owner, RecordType) # {}
  /\ client \in WithoutEdit /\ at \in {"edit", "create", "remove"} => mem \subseteq Matching(owner, RecordType)
  /\ At("spaceship", "edit") => mem # {}
  /\ At("dreamhost", "create") => \A m \in mem : m.val # target
  /\ At("dreamhost", "remove") => Serving /\ mem # {} /\ \A m \in mem : m.val # target
  /\ client = "porkbun" /\ at \in {"cname", "deleteCname"} => owner = "*"
  /\ client = "porkbun" /\ at = "alias" => owner \in {"@", "*"}

(* The zone is one the client can work on: those that only edit find a record, vercel *)
(* addresses, and porkbun placeholders and what the user has put in their place.    *)
Workable ==
  /\ client \in {"digitalocean", "dnspod", "luadns"} => Matching(owner, RecordType) # {}
  /\ client = "vercel" => \A r \in zone : r.val \in Addrs
  /\ client = "porkbun" => \A type \in {"CNAME", "ALIAS"} :
       /\ \A r \in Matching(owner, type) : r.val \in {Parked, Elsewhere}
       /\ ~(Cardinality(Matching(owner, type)) > 1)

Undone == ~NoAnswer /\ \A fault : ~Happens(fault)
Sound == Answered' /\ Present' /\ Stage'

LEMMA OkSounds ==
  ASSUME Return("ok"), Serving'
  PROVE  Sound
BY DEF Return, Sound, Answered, Present, Stage, At

LEMMA AskSounds ==
  ASSUME UNCHANGED entry, client \notin WithoutEdit \cup {"gcp"},
         NEW step \in {"record", "list", "info", "set", "create", "edit", "deleteAlias"},
         Goto(step, {})
  PROVE  Sound
BY DEF Goto, Sound, Answered, Present, Stage, At, Outcomes, entry, WithoutEdit

LEMMA KeepSounds ==
  ASSUME UNCHANGED entry, client \notin WithoutEdit, NEW records, Goto("edit", records),
         \A r \in records : \E s \in zone' : s.id = r.id
  PROVE  Sound
BY DEF Goto, Sound, Answered, Present, Stage, At, Outcomes, Exists, entry, WithoutEdit

LEMMA LookSounds ==
  ASSUME UNCHANGED <<entry, target>>, Undone, client \notin WithoutEdit \cup {"gcp"},
         \/ TakesFirst(Matching(owner, RecordType), Goto("create", {}))
         \/ TakesFirst(Matching(owner, RecordType), Return("failed")) /\ Matching(owner, RecordType) # {}
         \/ TakesFirstAlways(Matching(owner, RecordType), Goto("create", {}))
         \/ TakesFirstAlways(Matching(owner, RecordType), Goto("edit", {}))
         \/ TakesFirstAlways(Matching(owner, RecordType), Return("failed")) /\ Matching(owner, RecordType) # {}
  PROVE  Sound
<1> DEFINE found == Matching(owner, RecordType)
<1>1. CASE Goto("create", {}) \/ Goto("edit", {})
  BY <1>1, AskSounds
<1>2. ASSUME NEW r \in found, UNCHANGED zone, r.val = target, Return("ok") PROVE Sound
  <2>1. Serving'
    BY <1>2, FoundServes
  <2> QED
    BY <1>2, <2>1, OkSounds
<1>3. ASSUME NEW r \in found, UNCHANGED zone, Goto("edit", {r}) PROVE Sound
  <2>1. r \in zone'
    BY <1>3 DEF Matching
  <2> QED
    BY <1>3, <2>1, KeepSounds
<1> QED
  BY <1>1, <1>2, <1>3 DEF Undone, TakesFirst, TakesFirstAlways, Reads, Learns

LEMMA WriteSounds ==
  ASSUME UNCHANGED <<entry, target>>, Undone, NEW changed \in {With(owner, target), Replaced(owner, target)},
         Writes(changed, Return("ok")) \/ WritesBlindly(changed, Return("ok"))
  PROVE  Sound
<1>1. zone' = changed /\ Return("ok")
  BY DEF Undone, Writes, WritesBlindly
<1>2. Serving'
  BY <1>1, WithServes
<1> QED
  BY <1>1, <1>2, OkSounds

LEMMA EditSounds ==
  ASSUME UNCHANGED <<entry, target>>, Undone, NEW r, Exists(r),
         Edits(r, owner, Return("ok")) \/ EditsBlindly(r, owner, Return("ok"))
  PROVE  Sound
<1>1. zone' = Edited(r, owner, target) /\ Return("ok")
  BY DEF Undone, Edits, EditsBlindly, Writes, WritesBlindly
<1>2. Serving'
  BY <1>1, EditedServes
<1> QED
  BY <1>1, <1>2, OkSounds

LEMMA EditOneSounds ==
  ASSUME UNCHANGED <<entry, target>>, Undone, Present, client \notin WithoutEdit, NEW r \in mem,
         \/ EditsBlindly(r, owner, IF mem = {r} THEN Return("ok") ELSE Goto("edit", mem \ {r}))
         \/ EditsBlindly(r, owner, IF mem = {r} THEN Goto("refresh", {}) ELSE Goto("edit", mem \ {r}))
  PROVE  Sound
<1>1. /\ zone' = Edited(r, owner, target)
      /\ Return("ok") \/ Goto("refresh", {}) \/ Goto("edit", mem \ {r})
  BY DEF Present, Undone, EditsBlindly, Writes, WritesBlindly
<1>2. Serving'
  BY <1>1, EditedServes
<1>3. CASE Goto("refresh", {})
  BY <1>2, <1>3 DEF Goto, Sound, Answered, Present, Stage, At, Outcomes, entry
<1>4. CASE Goto("edit", mem \ {r})
  <2> DEFINE after == [id |-> r.id, name |-> owner, type |-> TypeOf(target), val |-> target]
  <2>1. zone' = {s \in zone : s.id # r.id} \cup {after} /\ after.id = r.id
    BY <1>1 DEF Edited, Without
  <2> HIDE DEF after
  <2>2. \A m \in mem \ {r} : \E s \in zone' : s.id = m.id
    BY <2>1 DEF Present, Exists
  <2> QED
    BY <1>4, <2>2, KeepSounds
<1> QED
  BY <1>1, <1>2, <1>3, <1>4, OkSounds

LEMMA EditorsSound ==
  ASSUME UNCHANGED <<entry, target>>, Undone, Memory, Present, Workable,
         \/ Cloudflare \/ DigitaloceanGetRecordID \/ DigitaloceanUpdate \/ DnspodUpdate \/ Luadns
         \/ Namesilo \/ Hetzner \/ Namecom
  PROVE  Sound
<1>1. CASE CloudflareGetRecordID \/ NamesiloGetRecord \/ HetznerGetRecordID \/ NamecomGetRecordID
  BY <1>1, LookSounds DEF CloudflareGetRecordID, NamesiloGetRecord, HetznerGetRecordID, NamecomGetRecordID,
     At, WithoutEdit, QueryHostname
<1>2. CASE CloudflareCreateRecord
  <2> DEFINE made == Entered(owner, target)
  <2>1. client = "cloudflare" /\ zone' = zone \cup {made} /\ Goto("edit", {made})
    BY <1>2 DEF CloudflareCreateRecord, At, Undone, Writes, QueryHostname
  <2> HIDE DEF made
  <2> QED
    BY <2>1, KeepSounds DEF WithoutEdit
<1>3. CASE NamesiloCreateRecord \/ HetznerCreateRecord \/ NamecomCreateRecord
  BY <1>3, WriteSounds DEF NamesiloCreateRecord, HetznerCreateRecord, NamecomCreateRecord
<1>4. CASE \/ CloudflareUpdate \/ DigitaloceanUpdate \/ NamesiloUpdateRecord \/ HetznerUpdateRecord
           \/ NamecomUpdateRecord \/ (DnspodUpdate /\ at = "edit")
  BY <1>4, EditSounds DEF CloudflareUpdate, DigitaloceanUpdate, NamesiloUpdateRecord, HetznerUpdateRecord,
     NamecomUpdateRecord, DnspodUpdate, At, Present, QueryHostname
<1>5. CASE DigitaloceanGetRecordID \/ LuadnsGetRecord \/ (DnspodUpdate /\ at = "start")
  BY <1>5, LookSounds DEF DigitaloceanGetRecordID, LuadnsGetRecord, DnspodUpdate, At, Workable, WithoutEdit, QueryHostname
<1>6. CASE LuadnsGetZoneID
  BY <1>6, AskSounds DEF LuadnsGetZoneID, At, Undone, Reads, Learns, WithoutEdit
<1>7. CASE LuadnsUpdateRecord
  <2>1. PICK r \in mem : Edits(r, r.name, Return("ok"))
    BY <1>7 DEF LuadnsUpdateRecord
  <2>2. r.name = owner /\ Exists(r)
    BY <1>7, <2>1 DEF LuadnsUpdateRecord, At, Calling, Outcomes, Memory, Mine, Present
  <2> QED
    BY <2>1, <2>2, EditSounds
<1>8. ~NamesiloValidateResponseCode
  BY DEF Undone, NamesiloValidateResponseCode
<1> QED
  BY <1>1, <1>2, <1>3, <1>4, <1>5, <1>6, <1>7, <1>8 DEF Cloudflare, Luadns, Namesilo, Hetzner, Namecom, DnspodUpdate, At

LEMMA SwappersSound ==
  ASSUME UNCHANGED <<entry, target>>, Undone, Stage, Dreamhost \/ Spaceship
  PROVE  Sound
<1> DEFINE ours == Matching(owner, RecordType)
<1>1. owner' = owner /\ RecordType' = RecordType /\ client' = client /\ target' = target
  BY DEF entry, RecordType
<1>2. UNCHANGED zone => Matching(owner, RecordType)' = ours
  BY <1>1 DEF Matching
<1>3. ASSUME Goto("create", {}), client \in WithoutEdit PROVE Sound
  BY <1>1, <1>3 DEF Goto, Sound, Answered, Present, Stage, At, Outcomes, WithoutEdit
<1>4. ASSUME NEW r \in ours, UNCHANGED zone, r.val = target, Return("ok") PROVE Sound
  <2>1. Serving'
    BY <1>4, FoundServes
  <2> QED
    BY <1>4, <2>1, OkSounds
<1>5. CASE DreamhostUpdate \/ SpaceshipGetRecords
  <2>1. ASSUME NEW r \in ours, UNCHANGED zone, r.val # target, Goto("create", {r}), client = "dreamhost"
        PROVE  Sound
    <3>1. r \in zone' /\ r \in Matching(owner, RecordType)' /\ mem' = {r}
      BY <1>2, <2>1 DEF Matching, Goto
    <3> QED
      BY <1>1, <2>1, <3>1 DEF Goto, Sound, Answered, Present, Exists, Stage, At, Outcomes, WithoutEdit
  <2>2. ASSUME NEW r \in ours, UNCHANGED zone, Goto("edit", {r}), client = "spaceship"
        PROVE  Sound
    <3>1. r \in zone' /\ r \in Matching(owner, RecordType)' /\ mem' = {r}
      BY <1>2, <2>2 DEF Matching, Goto
    <3> QED
      BY <1>1, <2>2, <3>1 DEF Goto, Sound, Answered, Present, Exists, Stage, At, Outcomes, WithoutEdit
  <2>3. CASE DreamhostUpdate
    BY <1>3, <1>4, <2>1, <2>3 DEF DreamhostUpdate, Undone, Reads, Learns, At, WithoutEdit, QueryHostname
  <2>4. CASE SpaceshipGetRecords
    BY <1>3, <1>4, <2>2, <2>4 DEF SpaceshipGetRecords, TakesFirst, Undone, Reads, Learns, At, WithoutEdit
  <2> QED
    BY <1>5, <2>3, <2>4
<1>6. CASE DreamhostCreateRecord
  <2>1. At("dreamhost", "create") /\ zone' = With(owner, target)
        /\ IF mem = {} THEN Return("ok") ELSE Goto("remove", mem)
    BY <1>6 DEF DreamhostCreateRecord, Undone, Writes, WritesBlindly, QueryHostname
  <2>2. Serving'
    BY <2>1, WithServes
  <2>3. CASE mem # {}
    <3>1. at' = "remove" /\ mem' = mem /\ mem # {} /\ mem \subseteq ours /\ \A m \in mem : m.val # target
      BY <2>1, <2>3 DEF Goto, Stage, At, WithoutEdit
    <3>2. mem \subseteq Matching(owner, RecordType)' /\ mem \subseteq zone'
      BY <1>1, <2>1, <3>1 DEF Matching, With
    <3> QED
      BY <1>1, <2>1, <2>2, <3>1, <3>2 DEF Sound, Answered, Present, Exists, Stage, At, Outcomes
  <2> QED
    BY <2>1, <2>2, <2>3, OkSounds
<1>7. CASE DreamhostRemoveRecord
  <2>1. At("dreamhost", "remove") /\ Serving /\ mem # {} /\ mem \subseteq ours /\ \A m \in mem : m.val # target
    BY <1>7 DEF DreamhostRemoveRecord, Stage, At, WithoutEdit
  <2> DEFINE old == {r \in ours : \E m \in mem : m.val = r.val}
  <2>2. old # {} /\ \A r \in old : r.val # target
    BY <2>1
  <2>3. zone' = zone \ old /\ Return("ok")
    BY <1>7, <2>2 DEF DreamhostRemoveRecord, Undone, Writes, WritesBlindly, QueryHostname
  <2>4. PICK r \in ours : r.val = target
    BY <2>1 DEF Serving, Ours
  <2>5. r \in zone' /\ r.name = owner /\ r.type = RecordType
    BY <2>2, <2>3, <2>4 DEF Matching
  <2>6. Serving'
    BY <2>4, <2>5, HasOurs
  <2> QED
    BY <2>3, <2>6, OkSounds
<1>8. CASE SpaceshipDeleteRecord
  <2>1. At("spaceship", "edit") /\ mem # {} /\ mem \subseteq ours
    BY <1>8 DEF SpaceshipDeleteRecord, Stage, At, WithoutEdit
  <2>2. {r \in ours : \E m \in mem : m.val = r.val} # {}
    BY <2>1
  <2>3. Goto("create", {})
    BY <1>8, <2>2 DEF SpaceshipDeleteRecord, Undone, Writes, WritesBlindly
  <2> QED
    BY <1>3, <2>1, <2>3 DEF At, WithoutEdit
<1>9. CASE SpaceshipCreateRecord
  BY <1>9, WriteSounds DEF SpaceshipCreateRecord
<1> QED
  BY <1>5, <1>6, <1>7, <1>8, <1>9 DEF Dreamhost, Spaceship

LEMMA LinodeSound ==
  ASSUME UNCHANGED <<entry, target>>, Undone, Memory, Present, Careful, Linode
  PROVE  Sound
<1>1. client = "linode" /\ DomainName = owner
  BY DEF Linode, LinodeGetDomainID, LinodeGetRecordID, LinodeCreateRecord, LinodeUpdateRecord, At,
     Careful, NamesOurs, Renaming, DomainName
<1>2. CASE LinodeGetDomainID
  BY <1>1, <1>2, AskSounds DEF LinodeGetDomainID, Undone, Reads, Learns, WithoutEdit
<1>3. CASE LinodeGetRecordID
  BY <1>1, <1>3, LookSounds DEF LinodeGetRecordID, WithoutEdit
<1>4. CASE LinodeCreateRecord
  BY <1>1, <1>4, WriteSounds DEF LinodeCreateRecord
<1>5. CASE LinodeUpdateRecord
  <2>1. PICK r \in mem : Edits(r, r.name, Return("ok"))
    BY <1>5 DEF LinodeUpdateRecord
  <2>2. r.name = owner /\ Exists(r)
    BY <1>5, <2>1 DEF LinodeUpdateRecord, At, Calling, Outcomes, Memory, Mine, Present
  <2> QED
    BY <2>1, <2>2, EditSounds
<1> QED
  BY <1>2, <1>3, <1>4, <1>5 DEF Linode

LEMMA ServesStill ==
  ASSUME UNCHANGED <<entry, target, zone>>, Serving
  PROVE  Serving'
BY DEF entry, Serving, Ours, Matching, RecordType, TypeOf

LEMMA WaitSounds ==
  ASSUME UNCHANGED entry, client \notin WithoutEdit, Serving', NEW step \in {"wait", "refresh"}, Goto(step, {})
  PROVE  Sound
BY DEF Goto, Sound, Answered, Present, Stage, At, Outcomes, entry, WithoutEdit

LEMMA HetznercloudSound ==
  ASSUME UNCHANGED <<entry, target>>, Undone, Stage, Hetznercloud
  PROVE  Sound
<1>1. client = "hetznercloud" /\ client \notin WithoutEdit \cup {"gcp"}
  BY DEF Hetznercloud, HetznercloudGetRecord, HetznercloudCreateRRSet, HetznercloudSetRecord,
     HetznercloudWaitAction, HetznercloudHandleErrorResponse, At, WithoutEdit
<1>2. CASE HetznercloudGetRecord
  <2>1. UNCHANGED zone
    BY <1>2 DEF HetznercloudGetRecord, Undone, Reads, Learns
  <2>2. ASSUME NEW r \in Matching(owner, RecordType), r.val = target, Return("ok") PROVE Sound
    BY <2>1, <2>2, FoundServes, OkSounds
  <2> QED
    BY <1>1, <1>2, <2>2, AskSounds DEF HetznercloudGetRecord, Undone, Reads, Learns
<1>3. CASE HetznercloudCreateRRSet \/ HetznercloudSetRecord
  <2>1. /\ zone' = With(owner, target) \/ zone' = Replaced(owner, target)
        /\ Return("ok") \/ Goto("wait", {})
    BY <1>3 DEF HetznercloudCreateRRSet, HetznercloudSetRecord, HetznercloudHandleActionResponse, Undone,
       Writes, WritesBlindly
  <2>2. Serving'
    BY <2>1, WithServes
  <2> QED
    BY <1>1, <2>1, <2>2, OkSounds, WaitSounds
<1>4. CASE HetznercloudWaitAction
  <2>1. UNCHANGED zone /\ Return("ok") /\ Serving
    BY <1>4 DEF HetznercloudWaitAction, At, Stage, Undone, Reads, Learns
  <2> QED
    BY <2>1, ServesStill, OkSounds
<1>5. ~HetznercloudHandleErrorResponse
  BY DEF Undone, HetznercloudHandleErrorResponse
<1> QED
  BY <1>2, <1>3, <1>4, <1>5 DEF Hetznercloud

LEMMA GcpSound ==
  ASSUME UNCHANGED <<entry, target>>, Undone, Stage, Careful, Gcp
  PROVE  Sound
<1>1. client = "gcp" /\ GcpName = owner /\ client' = client /\ owner' = owner /\ RecordType' = RecordType
  BY DEF Gcp, GcpGetRRSet, GcpCreateRRSet, GcpPatchRRSet, At, Careful, NamesOurs, GcpName, entry, RecordType
<1>2. CASE GcpGetRRSet
  <2>1. UNCHANGED zone /\ Matching(owner, RecordType)' = Matching(owner, RecordType)
    BY <1>1, <1>2 DEF GcpGetRRSet, Undone, Reads, Learns, Matching
  <2>2. ASSUME NEW r \in Matching(owner, RecordType), r.val = target, Return("ok") PROVE Sound
    BY <2>1, <2>2, FoundServes, OkSounds
  <2>3. CASE Goto("create", {}) /\ Matching(owner, RecordType) = {}
    BY <1>1, <2>1, <2>3 DEF Goto, Sound, Answered, Present, Stage, At, Outcomes, WithoutEdit
  <2>4. CASE Goto("patch", {}) /\ Matching(owner, RecordType) # {}
    BY <1>1, <2>1, <2>4 DEF Goto, Sound, Answered, Present, Stage, At, Outcomes, WithoutEdit
  <2> QED
    BY <1>1, <1>2, <2>2, <2>3, <2>4 DEF GcpGetRRSet, Undone, Reads, Learns
<1>3. CASE GcpCreateRRSet
  BY <1>1, <1>3, WriteSounds DEF GcpCreateRRSet, At, Stage
<1>4. CASE GcpPatchRRSet
  BY <1>1, <1>4, WriteSounds DEF GcpPatchRRSet, At, Stage
<1> QED
  BY <1>2, <1>3, <1>4 DEF Gcp

LEMMA IonosSound ==
  ASSUME UNCHANGED <<entry, target>>, Undone, Memory, Present, Ionos
  PROVE  Sound
<1>1. client = "ionos" /\ client \notin WithoutEdit \cup {"gcp"}
  BY DEF Ionos, IonosGetZones, IonosGetRecords, IonosCreateRecord, IonosUpdateRecord, At, WithoutEdit
<1>2. CASE IonosGetZones
  BY <1>1, <1>2, AskSounds DEF IonosGetZones, Undone, Reads, Learns
<1>3. CASE IonosGetRecords
  <2> DEFINE found == {r \in Matching(DomainName, RecordType) : r.name = QueryHostname}
             stale == {r \in found : r.val # target}
  <2>1. UNCHANGED zone /\ IF found = {} THEN Goto("create", {})
                          ELSE IF stale = {} THEN Return("ok") ELSE Goto("edit", stale)
    BY <1>3 DEF IonosGetRecords, Undone, Reads, Learns
  <2>2. CASE found = {}
    BY <1>1, <2>1, <2>2, AskSounds
  <2>3. CASE found # {} /\ stale = {}
    <3>1. PICK r \in found : r.val = target
      BY <2>3
    <3>2. r \in zone' /\ r.name = owner /\ r.type = RecordType
      BY <2>1, <3>1 DEF Matching, QueryHostname
    <3> QED
      BY <2>1, <2>3, <3>1, <3>2, HasOurs, OkSounds
  <2>4. CASE found # {} /\ stale # {}
    <3>1. \A r \in stale : r \in zone'
      BY <2>1 DEF Matching
    <3>2. Goto("edit", stale)
      BY <2>1, <2>4
    <3> HIDE DEF stale
    <3> QED
      BY <1>1, <3>1, <3>2, KeepSounds
  <2> QED
    BY <2>2, <2>3, <2>4
<1>4. CASE IonosCreateRecord
  BY <1>4, WriteSounds DEF IonosCreateRecord, QueryHostname
<1>5. CASE IonosUpdateRecord
  <2>1. PICK r \in mem : EditsBlindly(r, r.name, IF mem = {r} THEN Return("ok") ELSE Goto("edit", mem \ {r}))
    BY <1>5 DEF IonosUpdateRecord
  <2>2. r.name = owner
    BY <1>5, <2>1 DEF IonosUpdateRecord, At, Calling, Outcomes, Memory, Mine
  <2> QED
    BY <1>1, <2>1, <2>2, EditOneSounds
<1> QED
  BY <1>2, <1>3, <1>4, <1>5 DEF Ionos

LEMMA OvhSound ==
  ASSUME UNCHANGED <<entry, target>>, Undone, Memory, Present, Stage, Ovh
  PROVE  Sound
<1>1. client = "ovh" /\ client \notin WithoutEdit \cup {"gcp"}
  BY DEF Ovh, OvhGetTimeDelta, OvhGetRecords, OvhCreateRecord, OvhUpdateRecord, OvhRefresh, At, WithoutEdit
<1>2. CASE OvhGetTimeDelta
  BY <1>1, <1>2, AskSounds DEF OvhGetTimeDelta, Undone, Reads, Learns
<1>3. CASE OvhGetRecords
  <2>1. UNCHANGED zone /\ (Goto("create", {}) \/ Goto("edit", Matching(owner, RecordType)))
    BY <1>3 DEF OvhGetRecords, Undone, Reads, Learns
  <2>2. \A r \in Matching(owner, RecordType) : r \in zone'
    BY <2>1 DEF Matching
  <2> QED
    BY <1>1, <2>1, <2>2, AskSounds, KeepSounds
<1>4. CASE OvhCreateRecord
  <2>1. zone' = With(owner, target) /\ Goto("refresh", {})
    BY <1>4 DEF OvhCreateRecord, Undone, Writes, WritesBlindly
  <2> QED
    BY <1>1, <2>1, WithServes, WaitSounds
<1>5. CASE OvhUpdateRecord
  <2>1. PICK r \in mem : EditsBlindly(r, r.name, IF mem = {r} THEN Goto("refresh", {}) ELSE Goto("edit", mem \ {r}))
    BY <1>5 DEF OvhUpdateRecord
  <2>2. r.name = owner
    BY <1>5, <2>1 DEF OvhUpdateRecord, At, Calling, Outcomes, Memory, Mine
  <2> QED
    BY <1>1, <2>1, <2>2, EditOneSounds
<1>6. CASE OvhRefresh
  <2>1. UNCHANGED zone /\ Return("ok") /\ Serving
    BY <1>6 DEF OvhRefresh, At, Stage, Undone, Reads, Learns
  <2> QED
    BY <2>1, ServesStill, OkSounds
<1> QED
  BY <1>2, <1>3, <1>4, <1>5, <1>6 DEF Ovh

LEMMA PorkbunSound ==
  ASSUME UNCHANGED <<entry, target>>, Undone, Memory, Present, Stage, Workable, Porkbun
  PROVE  Sound
<1>1. client = "porkbun" /\ client \notin WithoutEdit \cup {"gcp"} /\ client' = client /\ owner' = owner
  BY DEF Porkbun, PorkbunGetRecords, PorkbunDefaultConflicts, PorkbunDeleteRecord, PorkbunCreateRecord,
     PorkbunUpdateRecord, At, WithoutEdit, entry
<1>2. ASSUME Goto("alias", {}), owner \in {"@", "*"} PROVE Sound
  BY <1>1, <1>2 DEF Goto, Sound, Answered, Present, Stage, At, Outcomes
<1>3. ASSUME NEW step \in {"cname", "deleteCname"}, Goto(step, {}), owner = "*" PROVE Sound
  BY <1>1, <1>3 DEF Goto, Sound, Answered, Present, Stage, At, Outcomes
<1>4. ASSUME UNCHANGED zone, Return("failed"), Aliased PROVE Sound
  <2>1. Aliased'
    BY <1>1, <1>4 DEF Aliased
  <2> QED
    BY <1>4, <2>1 DEF Return, Sound, Answered, Present, Stage, At
<1>5. ASSUME NEW type \in {"CNAME", "ALIAS"},
             \/ Cardinality(Matching(owner, type)) > 1
             \/ \E r \in Matching(owner, type) : r.val # Parked
      PROVE  Aliased
  BY <1>1, <1>5 DEF Workable, Aliased, Matching
<1>6. CASE PorkbunGetRecords
  <2>1. UNCHANGED zone
        /\ \/ Goto("edit", Matching(owner, RecordType))
           \/ owner = "@" /\ Goto("alias", {})
           \/ owner = "*" /\ Goto("cname", {})
           \/ Goto("create", {})
    BY <1>6 DEF PorkbunGetRecords, Undone, Reads, Learns
  <2>2. \A r \in Matching(owner, RecordType) : r \in zone'
    BY <2>1 DEF Matching
  <2> QED
    BY <1>1, <1>2, <1>3, <2>1, <2>2, AskSounds, KeepSounds
<1>7. CASE PorkbunDefaultConflicts
  <2>1. CASE At("porkbun", "cname")
    <3>1. owner = "*" /\ UNCHANGED zone
      BY <1>7, <2>1 DEF PorkbunDefaultConflicts, PorkbunConflicts, At, Stage, Undone, Reads, Learns
    <3>2. \/ Goto("alias", {}) \/ Goto("deleteCname", {})
          \/ /\ Return("failed")
             /\ \/ Cardinality(Matching(owner, "CNAME")) > 1
                \/ \E r \in Matching(owner, "CNAME") : r.val # Parked
      BY <1>7, <2>1, <3>1 DEF PorkbunDefaultConflicts, PorkbunConflicts, At, Undone, Reads, Learns
    <3> QED
      BY <1>2, <1>3, <1>4, <1>5, <3>1, <3>2
  <2>2. CASE At("porkbun", "alias")
    <3>1. owner \in {"@", "*"} /\ UNCHANGED zone
      BY <1>7, <2>2 DEF PorkbunDefaultConflicts, PorkbunConflicts, At, Stage, Undone, Reads, Learns
    <3>2. \/ Goto("create", {}) \/ Goto("deleteAlias", {})
          \/ /\ Return("failed") /\ owner = "@"
             /\ \/ Cardinality(Matching("@", "ALIAS")) > 1
                \/ \E r \in Matching("@", "ALIAS") : r.val # Parked
      BY <1>7, <2>2, <3>1 DEF PorkbunDefaultConflicts, PorkbunConflicts, At, Undone, Reads, Learns
    <3> QED
      BY <1>1, <1>4, <1>5, <3>1, <3>2, AskSounds
  <2> QED
    BY <1>7, <2>1, <2>2 DEF PorkbunDefaultConflicts
<1>8. CASE PorkbunDeleteRecord
  <2>1. CASE At("porkbun", "deleteCname")
    <3>1. owner = "*" /\ Goto("alias", {})
      BY <1>8, <2>1 DEF PorkbunDeleteRecord, At, Stage, Undone, Writes, WritesBlindly
    <3> QED
      BY <1>2, <3>1
  <2>2. CASE At("porkbun", "deleteAlias")
    <3>1. Goto("create", {})
      BY <1>8, <2>2 DEF PorkbunDeleteRecord, At, Undone, Writes, WritesBlindly
    <3> QED
      BY <1>1, <3>1, AskSounds
  <2> QED
    BY <1>8, <2>1, <2>2 DEF PorkbunDeleteRecord
<1>9. CASE PorkbunCreateRecord
  BY <1>9, WriteSounds DEF PorkbunCreateRecord
<1>10. CASE PorkbunUpdateRecord
  BY <1>1, <1>10, EditOneSounds DEF PorkbunUpdateRecord
<1> QED
  BY <1>6, <1>7, <1>8, <1>9, <1>10 DEF Porkbun

LEMMA TwoAreSeveral ==
  ASSUME NEW S, IsFiniteSet(S), NEW x \in S, NEW y \in S, x # y
  PROVE  Cardinality(S) > 1
<1>1. /\ {x, y} \subseteq S /\ IsFiniteSet({x}) /\ Cardinality({x}) = 1
      /\ {x, y} = {x} \cup {y}
  BY FS_Singleton
<1>2. Cardinality({x, y}) = 2
  BY <1>1, FS_AddElement
<1>3. Cardinality(S) \in Nat /\ Cardinality({x, y}) <= Cardinality(S)
  BY <1>1, FS_Subset, FS_CardinalityType
<1> QED
  BY <1>2, <1>3

LEMMA NetcupSound ==
  ASSUME UNCHANGED <<entry, target>>, Undone, Present, IsFiniteSet(zone'), Netcup
  PROVE  Sound
<1>1. /\ client = "netcup" /\ client \notin WithoutEdit \cup {"gcp"}
      /\ owner' = owner /\ target' = target /\ RecordType' = RecordType
  BY DEF Netcup, NetcupLogin, NetcupGetRecordToUpdate, NetcupUpdateDNSRecords, At, WithoutEdit, entry, RecordType
<1>2. CASE NetcupLogin
  BY <1>1, <1>2, AskSounds DEF NetcupLogin, Undone, Reads, Learns
<1>3. CASE NetcupGetRecordToUpdate
  BY <1>1, <1>3, LookSounds DEF NetcupGetRecordToUpdate
<1>4. CASE NetcupUpdateDNSRecords
  <2>1. PICK changed \in {IF mem = {} THEN With(owner, target)
                         ELSE Edited(CHOOSE r \in mem : TRUE, owner, target)} :
            Writes(changed, \E r \in changed : r.name = owner /\ r.type = RecordType
                                               /\ Return(IF r.val = target THEN "ok" ELSE "failed"))
    BY <1>4 DEF NetcupUpdateDNSRecords, Present
  <2>2. zone' = changed
        /\ \E r \in changed : r.name = owner /\ r.type = RecordType
                               /\ Return(IF r.val = target THEN "ok" ELSE "failed")
    BY <2>1 DEF Writes, Undone
  <2>3. Serving'
    BY <2>1, <2>2, WithServes, EditedServes
  <2>4. PICK r \in zone' : r.name = owner /\ r.type = RecordType /\ Return(IF r.val = target THEN "ok" ELSE "failed")
    BY <2>2
  <2>5. CASE r.val = target
    BY <2>3, <2>4, <2>5, OkSounds
  <2>6. CASE r.val # target
    <3>1. PICK s \in Matching(owner, RecordType)' : s.val = target
      BY <1>1, <2>3 DEF Serving, Ours
    <3>2. r \in Matching(owner, RecordType)' /\ r # s
      BY <1>1, <2>4, <2>6, <3>1 DEF Matching
    <3>3. IsFiniteSet(Matching(owner, RecordType)')
      BY FS_Subset DEF Matching
    <3>4. Several'
      BY <3>1, <3>2, <3>3, TwoAreSeveral DEF Several
    <3> QED
      BY <2>4, <3>4 DEF Return, Sound, Answered, Present, Stage, At
  <2> QED
    BY <2>5, <2>6
<1> QED
  BY <1>2, <1>3, <1>4 DEF Netcup

LEMMA VercelVultrSound ==
  ASSUME UNCHANGED <<entry, target>>, Undone, Present, Workable, Vercel \/ Vultr
  PROVE  Sound
<1>1. CASE VercelGetRecord \/ VultrGetRecord
  BY <1>1, LookSounds DEF VercelGetRecord, VultrGetRecord, At, WithoutEdit, Workable
<1>2. CASE VercelCreateRecord \/ VultrCreateRecord
  BY <1>2, WriteSounds DEF VercelCreateRecord, VultrCreateRecord
<1>3. CASE VercelUpdateRecord \/ VultrUpdateRecord
  BY <1>3, EditSounds DEF VercelUpdateRecord, VultrUpdateRecord, Present
<1> QED
  BY <1>1, <1>2, <1>3 DEF Vercel, Vultr

LEMMA AliyunSound ==
  ASSUME UNCHANGED <<entry, target>>, Undone, Present, OutOfReach, Aliyun
  PROVE  Sound
<1>1. /\ client = "aliyun" /\ client \notin WithoutEdit \cup {"gcp"}
      /\ owner' = owner /\ RecordType' = RecordType
  BY DEF Aliyun, AliyunGetRecordID, AliyunCreateRecord, AliyunUpdateRecord, At, WithoutEdit, entry, RecordType
<1>2. CASE AliyunGetRecordID
  <2> DEFINE found == {r \in zone : r.type = RecordType /\ AliyunKeyword(r.name)}
  <2>1. found = Matching(owner, RecordType)
    BY <1>1 DEF Matching, AliyunKeyword, OutOfReach
  <2>2. UNCHANGED zone /\ IF found = {} THEN Goto("create", {})
                          ELSE IF Cardinality(found) > 1 THEN Return("failed") ELSE Goto("edit", found)
    BY <1>2 DEF AliyunGetRecordID, Undone, Reads, Learns
  <2> HIDE DEF found
  <2>3. CASE Goto("create", {})
    BY <1>1, <2>3, AskSounds
  <2>4. CASE Return("failed") /\ Cardinality(found) > 1
    <3>1. Matching(owner, RecordType)' = found
      BY <1>1, <2>1, <2>2 DEF Matching
    <3>2. Several'
      BY <2>4, <3>1 DEF Several
    <3> QED
      BY <2>4, <3>2 DEF Return, Sound, Answered, Present, Stage, At
  <2>5. CASE Goto("edit", found)
    <3>1. \A r \in found : r \in zone'
      BY <2>1, <2>2 DEF Matching
    <3> QED
      BY <1>1, <2>5, <3>1, KeepSounds
  <2> QED
    BY <2>2, <2>3, <2>4, <2>5
<1>3. CASE AliyunCreateRecord
  <2> DEFINE made == Entered(owner, target)
  <2>1. zone' = zone \cup {made} /\ Goto("edit", {made})
    BY <1>3 DEF AliyunCreateRecord, Undone, Writes, WritesBlindly
  <2> HIDE DEF made
  <2> QED
    BY <1>1, <2>1, KeepSounds
<1>4. CASE AliyunUpdateRecord
  BY <1>4, EditSounds DEF AliyunUpdateRecord, Present
<1> QED
  BY <1>2, <1>3, <1>4 DEF Aliyun

LEMMA ReplacersSound ==
  ASSUME UNCHANGED <<entry, target>>, Undone,
         GandiUpdate \/ GodaddyUpdate \/ Route53Update \/ ScalewayUpdate \/ ServercowUpdate
  PROVE  Sound
BY WriteSounds DEF GandiUpdate, GodaddyUpdate, Route53Update, ScalewayUpdate, ServercowUpdate, QueryHostname

LEMMA ExchangeCounts ==
  ASSUME ZInv, Exchange
  PROVE  Counted
<1>1. UNCHANGED <<entry, target>> /\ Careful /\ OutOfReach
  BY DEF Exchange, ZInv
<1>2. CASE DynClient
  BY <1>1, <1>2, NamedEffect, DynDNSEffect, OwnWordsEffect DEF DynClient, Obeyed, Counted
<1> QED
  BY <1>2, RecordClientCounts DEF Exchange

LEMMA ExchangeSounds ==
  ASSUME ZInv, Exchange, Undone, Present, Stage, Workable
  PROVE  Sound /\ Workable'
<1>1. /\ Effect /\ UNCHANGED <<entry, target>> /\ Careful /\ Memory /\ OutOfReach
      /\ client' = client /\ owner' = owner /\ RecordType' = RecordType
  BY ExchangeEffect DEF ZInv, entry, RecordType
<1>2. Shaped(zone') /\ \A r \in zone' \ zone : Mine(r)
  BY <1>1, ZoneStays
<1>3. IsFiniteSet(zone) /\ IsFiniteSet(zone') /\ RecordType \in {"A", "AAAA"}
  BY <1>2 DEF Shaped, ZInv, RecordType, TypeOf
<1>4. Sound
  <2>1. CASE RecordClient
    BY <1>1, <1>3, <2>1, EditorsSound, SwappersSound, LinodeSound, HetznercloudSound, GcpSound, IonosSound,
       OvhSound, PorkbunSound, NetcupSound, VercelVultrSound, AliyunSound, ReplacersSound DEF RecordClient
  <2>2. CASE DynClient
    <3>1. Obeyed
      BY <1>1, <2>2, NamedEffect, DynDNSEffect, OwnWordsEffect DEF DynClient
    <3> QED
      BY <1>1, <3>1, WithServes, OkSounds DEF Obeyed, Undone
  <2> QED
    BY <2>1, <2>2 DEF Exchange
<1>5. ASSUME client \in {"digitalocean", "dnspod", "luadns"} PROVE Matching(owner, RecordType)' # {}
  <2>1. UNCHANGED zone \/ Serving'
    BY <1>1, <1>5, WithServes, EditedServes DEF Effect, ZoneChange, At
  <2> QED
    BY <1>1, <1>5, <2>1 DEF Workable, Matching, Serving, Ours
<1>6. ASSUME client = "vercel" PROVE \A r \in zone' : r.val \in Addrs
  BY <1>2, <1>3, <1>6 DEF Workable, Mine, Shaped
<1>7. ASSUME client = "porkbun", NEW type \in {"CNAME", "ALIAS"}
      PROVE  /\ \A r \in Matching(owner, type)' : r.val \in {Parked, Elsewhere}
             /\ ~(Cardinality(Matching(owner, type)') > 1)
  <2>1. Matching(owner, type)' \subseteq Matching(owner, type)
    BY <1>1, <1>2, <1>3 DEF Matching, Mine
  <2>2. IsFiniteSet(Matching(owner, type))
    BY <1>3, FS_Subset DEF Matching
  <2>3. /\ Cardinality(Matching(owner, type)') <= Cardinality(Matching(owner, type))
        /\ Cardinality(Matching(owner, type)') \in Nat /\ Cardinality(Matching(owner, type)) \in Nat
    BY <2>1, <2>2, FS_Subset, FS_CardinalityType
  <2> QED
    BY <1>7, <2>1, <2>3 DEF Workable
<1> QED
  BY <1>1, <1>4, <1>5, <1>6, <1>7 DEF Workable

(* Entries whose zone their client can work on.                                *)
WorkableEntries ==
  \A e \in Entries : \A z \in e.zones :
    /\ e.client \in {"digitalocean", "dnspod", "luadns"} =>
         \A ip \in Addrs : \E r \in z : r.name = e.owner /\ r.type = TypeOf(ip)
    /\ e.client = "vercel" => \A r \in z : r.val \in Addrs
    /\ e.client = "porkbun" => \A type \in {"CNAME", "ALIAS"} :
         LET found == {r \in z : r.name = e.owner /\ r.type = type}
         IN  (\A r \in found : r.val \in {Parked, Elsewhere}) /\ ~(Cardinality(found) > 1)

Undisturbed == deeds \in Nat /\ (deeds = 0 => Answered /\ Present /\ Stage /\ Workable)

LEMMA UndisturbedKept ==
  ASSUME ZInv, Undisturbed, [Next]_vars
  PROVE  Undisturbed'
<1>1. CASE Exchange
  <2>1. deeds' \in Nat /\ (deeds' = 0 => deeds = 0 /\ Undone)
    BY <1>1, ExchangeCounts DEF Counted, Happens, NoAnswer, Undone, Undisturbed
  <2> QED
    BY <1>1, <2>1, ExchangeSounds DEF Undisturbed, Sound
<1>2. CASE UNCHANGED entry /\ Call
  <2>1. at' = "start" /\ mem' = {} /\ UNCHANGED <<entry, zone, target, deeds>>
    BY <1>2 DEF Call, Goto
  <2>2. client' = client /\ owner' = owner /\ RecordType' = RecordType
    BY <2>1 DEF entry, RecordType
  <2> QED
    BY <2>1, <2>2 DEF Undisturbed, Answered, Present, Stage, At, Workable, Matching, Outcomes
<1>3. CASE Move \/ UserEdit
  BY <1>3 DEF Undisturbed, Move, UserEdit, Happens
<1>4. CASE UNCHANGED vars
  BY <1>4 DEF vars, entry, Undisturbed, Answered, Present, Stage, At, Workable, Matching, Several, Aliased, Serving, Ours,
     RecordType, Exists
<1> QED
  BY <1>1, <1>2, <1>3, <1>4 DEF Next

(* With nothing in its way each client ends its call by giving our record the    *)
(* address, whatever it had to list, to create or to remove before, except where a *)
(* user has put an alias or several addresses.                               *)
THEOREM UndisturbedSucceedsHolds ==
  ASSUME CarefulEntries, WorkableEntries
  PROVE  Spec => []UndisturbedSucceeds
<1>1. Init => ZInv /\ Undisturbed
  <2> SUFFICES ASSUME Init PROVE Undisturbed
    BY ZonesAtFirst
  <2>1. PICK e \in Entries : client = e.client /\ owner = e.owner /\ faults = e.faults /\ zone \in e.zones
    BY DEF Init
  <2>2. target \in Addrs /\ at = "idle" /\ mem = {} /\ deeds = 0
    BY DEF Init
  <2>3. Answered /\ Present /\ Stage
    BY <2>2 DEF Answered, Present, Stage, At
  <2>4. ASSUME client \in {"digitalocean", "dnspod", "luadns"} PROVE Matching(owner, RecordType) # {}
    BY <2>1, <2>2, <2>4 DEF WorkableEntries, Matching, RecordType
  <2>5. client = "vercel" => \A r \in zone : r.val \in Addrs
    BY <2>1 DEF WorkableEntries
  <2>6. ASSUME client = "porkbun", NEW type \in {"CNAME", "ALIAS"}
        PROVE  /\ \A r \in Matching(owner, type) : r.val \in {Parked, Elsewhere}
               /\ ~(Cardinality(Matching(owner, type)) > 1)
    <3>1. Matching(owner, type) = {r \in zone : r.name = e.owner /\ r.type = type}
      BY <2>1 DEF Matching
    <3> QED
      BY <2>1, <2>6, <3>1 DEF WorkableEntries
  <2>7. Workable
    BY <2>4, <2>5, <2>6 DEF Workable
  <2> QED
    BY <2>2, <2>3, <2>7 DEF Undisturbed
<1>2. ZInv /\ Undisturbed /\ [Next]_vars => ZInv' /\ Undisturbed'
  BY ZonesKept, UndisturbedKept
<1>3. Undisturbed => UndisturbedSucceeds
  BY DEF Undisturbed, UndisturbedSucceeds, Answered, Calling
<1> QED
  BY <1>1, <1>2, <1>3, PTL DEF Spec
=============================================================================

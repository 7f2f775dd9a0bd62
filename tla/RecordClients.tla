--------------------------- MODULE RecordClients ---------------------------
(***************************************************************************)
(* The clients of internal/provider/providers that work on the records of  *)
(* a zone through an API: look for our record, then create, edit, replace  *)
(* or remove. One action per exchange, and one disjunction per client.     *)
(* Headers, bodies, error texts and TTLs are left out.                     *)
(***************************************************************************)
EXTENDS DnsZone

-----------------------------------------------------------------------------
(* cloudflare                                                              *)

(* A bug: only records that have the address are asked for.                  *)
CloudflareGetRecordIDByContent ==
  /\ At("cloudflare", "start")
  /\ TakesFirst({r \in Matching(QueryHostname, RecordType) : r.val = target}, Goto("create", {}))

CloudflareGetRecordID ==
  /\ At("cloudflare", "start")
  /\ TakesFirst(Matching(QueryHostname, RecordType), Goto("create", {}))

(* The id of the record just created is then edited like any other.          *)
CloudflareCreateRecord ==
  /\ At("cloudflare", "create")
  /\ LET made == Entered(QueryHostname, target)
     IN  Writes(zone \cup {made}, Goto("edit", {made}))

CloudflareUpdate ==
  /\ At("cloudflare", "edit")
  /\ \E r \in mem : Edits(r, QueryHostname, Return("ok"))

Cloudflare == CloudflareGetRecordID \/ CloudflareCreateRecord \/ CloudflareUpdate

-----------------------------------------------------------------------------
(* digitalocean, dnspod and luadns edit a record that must exist.            *)

(* A bug: the name is not in the query.                                      *)
DigitaloceanGetRecordIDAnyName ==
  /\ At("digitalocean", "start")
  /\ TakesFirstAlways({r \in zone : r.type = RecordType}, Return("failed"))

DigitaloceanGetRecordID ==
  /\ At("digitalocean", "start")
  /\ TakesFirstAlways(Matching(QueryHostname, RecordType), Return("failed"))

DigitaloceanUpdate ==
  /\ At("digitalocean", "edit")
  /\ \E r \in mem : Edits(r, owner, Return("ok"))

DnspodUpdate ==
  \/ /\ At("dnspod", "start")
     /\ TakesFirst(Matching(owner, RecordType), Return("failed"))
  \/ /\ At("dnspod", "edit")
     /\ \E r \in mem : Edits(r, owner, Return("ok"))

LuadnsGetZoneID == At("luadns", "start") /\ Reads(Goto("record", {}))

LuadnsGetRecord ==
  /\ At("luadns", "record")
  /\ TakesFirstAlways(Matching(QueryHostname, RecordType), Return("failed"))

(* A bug: the record read before is sent back as it was.                     *)
LuadnsUpdateRecordSame ==
  /\ At("luadns", "edit")
  /\ \E r \in mem : IF Exists(r) THEN Writes(zone, Return("ok")) ELSE Learns(Return("failed"))

(* The whole record read before is sent back with the new address.           *)
LuadnsUpdateRecord ==
  /\ At("luadns", "edit")
  /\ \E r \in mem : Edits(r, r.name, Return("ok"))

Luadns == LuadnsGetZoneID \/ LuadnsGetRecord \/ LuadnsUpdateRecord

-----------------------------------------------------------------------------
(* dreamhost and spaceship cannot edit a record.                            *)

(* A bug: the address of the record found is not compared.                   *)
DreamhostUpdateUnchecked ==
  /\ At("dreamhost", "start")
  /\ Reads(IF Matching(QueryHostname, RecordType) = {} THEN Goto("create", {}) ELSE Return("ok"))

DreamhostUpdate ==
  /\ At("dreamhost", "start")
  /\ Reads(LET found == Matching(QueryHostname, RecordType)
           IN  IF found = {} THEN Goto("create", {})
               ELSE \E r \in found : IF r.val = target THEN Return("ok") ELSE Goto("create", {r}))

DreamhostCreateRecord ==
  /\ At("dreamhost", "create")
  /\ WritesBlindly(With(QueryHostname, target),
                   IF mem = {} THEN Return("ok") ELSE Goto("remove", mem))

(* A bug: the name is not in the request to remove.                          *)
DreamhostRemoveRecordByValue ==
  /\ At("dreamhost", "remove")
  /\ LET old == {r \in zone : r.type = RecordType /\ \E m \in mem : m.val = r.val}
     IN  IF old = {} THEN Learns(Return("failed")) ELSE WritesBlindly(zone \ old, Return("ok"))

(* The record is removed by its value; nothing to remove is an error.        *)
DreamhostRemoveRecord ==
  /\ At("dreamhost", "remove")
  /\ LET old == {r \in Matching(QueryHostname, RecordType) : \E m \in mem : m.val = r.val}
     IN  IF old = {} THEN Learns(Return("failed")) ELSE WritesBlindly(zone \ old, Return("ok"))

Dreamhost == DreamhostUpdate \/ DreamhostCreateRecord \/ DreamhostRemoveRecord

SpaceshipGetRecords ==
  /\ At("spaceship", "start")
  /\ TakesFirst(Matching(owner, RecordType), Goto("create", {}))

SpaceshipDeleteRecord ==
  /\ At("spaceship", "edit")
  /\ LET old == {r \in Matching(owner, RecordType) : \E m \in mem : m.val = r.val}
     IN  IF old = {} THEN Learns(Return("failed"))
         ELSE WritesBlindly(zone \ old, Goto("create", {}))

SpaceshipCreateRecord ==
  /\ At("spaceship", "create")
  /\ WritesBlindly(With(owner, target), Return("ok"))

Spaceship == SpaceshipGetRecords \/ SpaceshipDeleteRecord \/ SpaceshipCreateRecord

-----------------------------------------------------------------------------
(* linode                                                                  *)

LinodeGetDomainID == At("linode", "start") /\ Reads(Goto("record", {}))

LinodeGetRecordID ==
  /\ At("linode", "record")
  /\ TakesFirstAlways(Matching(owner, RecordType), Goto("create", {}))

(* Created under BuildDomainName, looked for under the owner.               *)
LinodeCreateRecord ==
  /\ At("linode", "create") /\ Writes(With(DomainName, target), Return("ok"))

LinodeUpdateRecord ==
  /\ At("linode", "edit")
  /\ \E r \in mem : Edits(r, r.name, Return("ok"))

Linode == LinodeGetDomainID \/ LinodeGetRecordID \/ LinodeCreateRecord \/ LinodeUpdateRecord

-----------------------------------------------------------------------------
(* namesilo. Code 113 stands for a ban.                                     *)

NamesiloValidateResponseCode ==
  /\ client = "namesilo" /\ Calling
  /\ Happens("banned") /\ UNCHANGED zone /\ Return("banned")

NamesiloGetRecord ==
  /\ At("namesilo", "start")
  /\ TakesFirst(Matching(QueryHostname, RecordType), Goto("create", {}))

NamesiloCreateRecord ==
  /\ At("namesilo", "create") /\ WritesBlindly(With(owner, target), Return("ok"))

(* A bug: the record is deleted and created again.                           *)
NamesiloUpdateByDeletion ==
  /\ At("namesilo", "edit")
  /\ WritesBlindly(Without(mem), Goto("create", {}))

NamesiloUpdateRecord ==
  /\ At("namesilo", "edit")
  /\ \E r \in mem : EditsBlindly(r, owner, Return("ok"))

Namesilo ==
  \/ NamesiloGetRecord \/ NamesiloCreateRecord \/ NamesiloUpdateRecord
  \/ NamesiloValidateResponseCode

-----------------------------------------------------------------------------
(* hetzner (DNS console)                                                   *)

(* A bug: the type is not in the query.                                      *)
HetznerGetRecordIDAnyType ==
  /\ At("hetzner", "start")
  /\ TakesFirst({r \in zone : r.name = owner}, Goto("create", {}))

HetznerGetRecordID ==
  /\ At("hetzner", "start")
  /\ TakesFirst(Matching(owner, RecordType), Goto("create", {}))

HetznerCreateRecord ==
  /\ At("hetzner", "create") /\ Writes(With(owner, target), Return("ok"))

HetznerUpdateRecord ==
  /\ At("hetzner", "edit")
  /\ \E r \in mem : Edits(r, owner, Return("ok"))

Hetzner == HetznerGetRecordID \/ HetznerCreateRecord \/ HetznerUpdateRecord

-----------------------------------------------------------------------------
(* hetznercloud: record sets, and actions that may still be running.         *)

(* A status below 400 that is not the expected one panics.                   *)
HetznercloudHandleErrorResponse ==
  /\ client = "hetznercloud" /\ Calling
  /\ Happens("odd") /\ UNCHANGED zone /\ Return("panicked")

(* One record of the set with the address is enough.                         *)
HetznercloudGetRecord ==
  /\ At("hetznercloud", "start")
  /\ Reads(LET found == Matching(owner, RecordType)
           IN  IF found = {} THEN Goto("create", {})
               ELSE IF \E r \in found : r.val = target THEN Return("ok") ELSE Goto("set", {}))

(* The action is a success, or waited for.                                   *)
HetznercloudHandleActionResponse == Return("ok") \/ Goto("wait", {})

HetznercloudCreateRRSet ==
  /\ At("hetznercloud", "create")
  /\ WritesBlindly(With(owner, target), HetznercloudHandleActionResponse)

HetznercloudSetRecord ==
  /\ At("hetznercloud", "set")
  /\ WritesBlindly(Replaced(owner, target), HetznercloudHandleActionResponse)

(* Three tries, then the action is given up although it goes on: an answer
   that is lost for the client.                                             *)
HetznercloudWaitAction == At("hetznercloud", "wait") /\ Reads(Return("ok"))

Hetznercloud ==
  \/ HetznercloudGetRecord \/ HetznercloudCreateRRSet \/ HetznercloudSetRecord
  \/ HetznercloudWaitAction \/ HetznercloudHandleErrorResponse

-----------------------------------------------------------------------------
(* gcp: record sets under owner.domain., also for the root of the domain.    *)

GcpName == IF owner = "@" THEN "at" ELSE owner

(* A bug: a set that exists is taken for up to date.                         *)
GcpGetRRSetAny ==
  /\ At("gcp", "start")
  /\ Reads(LET found == Matching(GcpName, RecordType)
           IN  IF found = {} THEN Goto("create", {}) ELSE Return("ok"))

(* A 204 leaves the record set nil, and it is dereferenced.                  *)
GcpGetRRSet ==
  /\ At("gcp", "start")
  /\ \/ Reads(LET found == Matching(GcpName, RecordType)
              IN  IF found = {} THEN Goto("create", {})
                  ELSE IF \E r \in found : r.val = target THEN Return("ok") ELSE Goto("patch", {}))
     \/ Happens("odd") /\ UNCHANGED zone /\ Return("panicked")

(* The API refuses to create a set that exists by now.                       *)
GcpCreateRRSet ==
  /\ At("gcp", "create")
  /\ IF Matching(GcpName, RecordType) = {} THEN WritesBlindly(With(GcpName, target), Return("ok"))
     ELSE Learns(Return("failed"))

GcpPatchRRSet ==
  /\ At("gcp", "patch")
  /\ IF Matching(GcpName, RecordType) # {}
     THEN WritesBlindly(Replaced(GcpName, target), Return("ok"))
     ELSE Learns(Return("failed"))

Gcp == GcpGetRRSet \/ GcpCreateRRSet \/ GcpPatchRRSet

-----------------------------------------------------------------------------
(* ionos, ovh and porkbun edit every record of ours.                         *)

IonosGetZones == At("ionos", "start") /\ Reads(Goto("record", {}))

(* The API filters by BuildDomainName, Update by BuildURLQueryHostname.       *)
IonosGetRecords ==
  /\ At("ionos", "record")
  /\ Reads(LET found == {r \in Matching(DomainName, RecordType) : r.name = QueryHostname}
               stale == {r \in found : r.val # target}
           IN  IF found = {} THEN Goto("create", {})
               ELSE IF stale = {} THEN Return("ok") ELSE Goto("edit", stale))

IonosCreateRecord ==
  /\ At("ionos", "create") /\ WritesBlindly(With(QueryHostname, target), Return("ok"))

(* A bug: the loop over the records ends with the first.                     *)
IonosUpdateFirst ==
  /\ At("ionos", "edit")
  /\ \E r \in mem : EditsBlindly(r, r.name, Return("ok"))

IonosUpdateRecord ==
  /\ At("ionos", "edit")
  /\ \E r \in mem : EditsBlindly(r, r.name,
                      IF mem = {r} THEN Return("ok") ELSE Goto("edit", mem \ {r}))

Ionos == IonosGetZones \/ IonosGetRecords \/ IonosCreateRecord \/ IonosUpdateRecord

OvhGetTimeDelta == At("ovh", "start") /\ Reads(Goto("list", {}))

OvhGetRecords ==
  /\ At("ovh", "list")
  /\ Reads(LET found == Matching(owner, RecordType)
           IN  IF found = {} THEN Goto("create", {}) ELSE Goto("edit", found))

OvhCreateRecord ==
  /\ At("ovh", "create") /\ WritesBlindly(With(owner, target), Goto("refresh", {}))

OvhUpdateRecord ==
  /\ At("ovh", "edit")
  /\ \E r \in mem : EditsBlindly(r, r.name,
                      IF mem = {r} THEN Goto("refresh", {}) ELSE Goto("edit", mem \ {r}))

OvhRefresh == At("ovh", "refresh") /\ Reads(Return("ok"))

Ovh == OvhGetTimeDelta \/ OvhGetRecords \/ OvhCreateRecord \/ OvhUpdateRecord \/ OvhRefresh

(* A bug: records with another address do not count.                         *)
PorkbunGetRecordsCurrent ==
  /\ At("porkbun", "start")
  /\ Reads(IF \E r \in Matching(owner, RecordType) : r.val = target THEN Return("ok")
           ELSE Goto("create", {}))

PorkbunGetRecords ==
  /\ At("porkbun", "start")
  /\ Reads(LET found == Matching(owner, RecordType)
           IN  IF found # {} THEN Goto("edit", found)
               ELSE IF owner = "@" THEN Goto("alias", {})
               ELSE IF owner = "*" THEN Goto("cname", {}) ELSE Goto("create", {}))

(* A bug: the content is not compared with that of a parked domain.          *)
PorkbunConflictsUnchecked(type, name, absent, conflict, delete) ==
  LET found == Matching(name, type)
  IN  Reads(IF found = {} THEN absent ELSE Goto(delete, {}))

(* deleteSingleMatchingRecord up to its request to delete.                   *)
PorkbunConflicts(type, name, absent, conflict, delete) ==
  LET found == Matching(name, type)
  IN  Reads(IF found = {} THEN absent
            ELSE IF Cardinality(found) > 1 \/ \E r \in found : r.val # Parked THEN conflict
            ELSE Goto(delete, {}))

PorkbunDefaultConflicts ==
  \/ /\ At("porkbun", "cname")
     /\ PorkbunConflicts("CNAME", "*", Goto("alias", {}), Return("failed"), "deleteCname")
  \/ /\ At("porkbun", "alias")
     /\ PorkbunConflicts("ALIAS", "@", Goto("create", {}),
          IF owner = "*" THEN Goto("create", {}) ELSE Return("failed"), "deleteAlias")

(* By type and name.                                                        *)
PorkbunDeleteRecord ==
  \/ /\ At("porkbun", "deleteCname")
     /\ WritesBlindly(zone \ Matching("*", "CNAME"), Goto("alias", {}))
  \/ /\ At("porkbun", "deleteAlias")
     /\ WritesBlindly(zone \ Matching("@", "ALIAS"), Goto("create", {}))

PorkbunCreateRecord ==
  /\ At("porkbun", "create") /\ WritesBlindly(With(owner, target), Return("ok"))

PorkbunUpdateRecord ==
  /\ At("porkbun", "edit")
  /\ \E r \in mem : EditsBlindly(r, owner,
                      IF mem = {r} THEN Return("ok") ELSE Goto("edit", mem \ {r}))

Porkbun ==
  \/ PorkbunGetRecords \/ PorkbunDefaultConflicts \/ PorkbunDeleteRecord
  \/ PorkbunCreateRecord \/ PorkbunUpdateRecord

-----------------------------------------------------------------------------
(* namecom: "not found" in the body of any error leads to a creation.        *)

(* A bug: "not found" is a failure like any other.                           *)
NamecomGetRecordIDStrict ==
  /\ At("namecom", "start")
  /\ TakesFirstAlways(Matching(owner, RecordType), Return("failed"))

NamecomGetRecordID ==
  /\ At("namecom", "start")
  /\ TakesFirstAlways(Matching(owner, RecordType), Goto("create", {}))

NamecomCreateRecord ==
  /\ At("namecom", "create") /\ Writes(With(owner, target), Return("ok"))

NamecomUpdateRecord ==
  /\ At("namecom", "edit")
  /\ \E r \in mem : Edits(r, owner, Return("ok"))

Namecom == NamecomGetRecordID \/ NamecomCreateRecord \/ NamecomUpdateRecord

-----------------------------------------------------------------------------
(* netcup: one request adds the record or edits it by id.                    *)

NetcupLogin == At("netcup", "start") /\ Reads(Goto("info", {}))

NetcupGetRecordToUpdate ==
  /\ At("netcup", "info")
  /\ TakesFirstAlways(Matching(owner, RecordType), Goto("edit", {}))

(* The answer lists the records of the zone: the first of ours is compared.   *)
NetcupUpdateDNSRecords ==
  /\ At("netcup", "edit")
  /\ \E changed \in {IF mem = {} THEN With(owner, target)
                     ELSE Edited(CHOOSE r \in mem : TRUE, owner, target)} :
       IF \E m \in mem : ~Exists(m) THEN Learns(Return("failed"))
       ELSE Writes(changed,
              \E r \in changed : r.name = owner /\ r.type = RecordType
                                 /\ Return(IF r.val = target THEN "ok" ELSE "failed"))

Netcup == NetcupLogin \/ NetcupGetRecordToUpdate \/ NetcupUpdateDNSRecords

-----------------------------------------------------------------------------
(* vercel: the values of all records of the domain are decoded as addresses.  *)

VercelGetRecord ==
  /\ At("vercel", "start")
  /\ IF \E r \in zone : r.val \notin Addrs THEN Learns(Return("failed"))
     ELSE TakesFirst(Matching(owner, RecordType), Goto("create", {}))

VercelCreateRecord ==
  /\ At("vercel", "create") /\ WritesBlindly(With(owner, target), Return("ok"))

VercelUpdateRecord ==
  /\ At("vercel", "edit")
  /\ \E r \in mem : Edits(r, owner, Return("ok"))

Vercel == VercelGetRecord \/ VercelCreateRecord \/ VercelUpdateRecord

-----------------------------------------------------------------------------
(* vultr                                                                   *)

VultrGetRecord ==
  /\ At("vultr", "start")
  /\ TakesFirst(Matching(owner, RecordType), Goto("create", {}))

VultrCreateRecord ==
  /\ At("vultr", "create") /\ WritesBlindly(With(owner, target), Return("ok"))

VultrUpdateRecord ==
  /\ At("vultr", "edit")
  /\ \E r \in mem : EditsBlindly(r, owner, Return("ok"))

Vultr == VultrGetRecord \/ VultrCreateRecord \/ VultrUpdateRecord

-----------------------------------------------------------------------------
(* aliyun: RRKeyWord is a keyword, "www" also finds "www2"; the name of the
   record returned is not looked at.                                        *)

AliyunKeyword(name) == name = owner \/ (owner = "www" /\ name = "www2")

(* A bug: several records are not an error, the first is taken.              *)
AliyunGetRecordIDFirst ==
  /\ At("aliyun", "start")
  /\ Reads(LET found == {r \in zone : r.type = RecordType /\ AliyunKeyword(r.name)}
           IN  IF found = {} THEN Goto("create", {}) ELSE \E r \in found : Goto("edit", {r}))

AliyunGetRecordID ==
  /\ At("aliyun", "start")
  /\ Reads(LET found == {r \in zone : r.type = RecordType /\ AliyunKeyword(r.name)}
           IN  IF found = {} THEN Goto("create", {})
               ELSE IF Cardinality(found) > 1 THEN Return("failed") ELSE Goto("edit", found))

AliyunCreateRecord ==
  /\ At("aliyun", "create")
  /\ LET made == Entered(owner, target)
     IN  WritesBlindly(zone \cup {made}, Goto("edit", {made}))

AliyunUpdateRecord ==
  /\ At("aliyun", "edit")
  /\ \E r \in mem : EditsBlindly(r, owner, Return("ok"))

Aliyun == AliyunGetRecordID \/ AliyunCreateRecord \/ AliyunUpdateRecord

-----------------------------------------------------------------------------
(* One request that replaces the set of our name and type.                   *)

(* A bug: the records of the name are replaced, whatever their type.          *)
GandiUpdateName ==
  /\ At("gandi", "start")
  /\ WritesBlindly({r \in zone : r.name # owner} \cup {Entered(owner, target)}, Return("ok"))

GandiUpdate == At("gandi", "start") /\ WritesBlindly(Replaced(owner, target), Return("ok"))
GodaddyUpdate == At("godaddy", "start") /\ WritesBlindly(Replaced(owner, target), Return("ok"))
Route53Update ==
  At("route53", "start") /\ WritesBlindly(Replaced(QueryHostname, target), Return("ok"))
ScalewayUpdate == At("scaleway", "start") /\ Writes(Replaced(owner, target), Return("ok"))
ServercowUpdate == At("servercow", "start") /\ WritesBlindly(Replaced(owner, target), Return("ok"))

-----------------------------------------------------------------------------
RecordClient ==
  \/ Cloudflare \/ DigitaloceanGetRecordID \/ DigitaloceanUpdate \/ DnspodUpdate \/ Luadns
  \/ Dreamhost \/ Spaceship \/ Linode \/ Namesilo \/ Hetzner \/ Hetznercloud \/ Gcp
  \/ Ionos \/ Ovh \/ Porkbun \/ Namecom \/ Netcup \/ Vercel \/ Vultr \/ Aliyun
  \/ GandiUpdate \/ GodaddyUpdate \/ Route53Update \/ ScalewayUpdate \/ ServercowUpdate
=============================================================================

-------------------------- MODULE MCProviderClients --------------------------
(* Small instances of ProviderClients: which entries, which zones.           *)
EXTENDS ProviderClients

CONSTANTS a4, b4, a6, parked, elsewhere

Two4 == {a4, b4}
One4 == {a4}
One6 == {a6}
None == {}

Record(id, name, type, val) == [id |-> id, name |-> name, type |-> type, val |-> val]

(* A zone with records of the root, of a label and of the wildcard, of both
   families, and of another label.                                          *)
Populated == {r \in {Record(1, "@", "A", b4), Record(2, "www", "A", b4), Record(3, "*", "A", b4),
                      Record(4, "www", "AAAA", a6), Record(5, "blog", "A", b4)} : r.val \in Addrs}
Complete == Populated \cup {Record(6, "@", "AAAA", a6), Record(7, "*", "AAAA", a6)}
Doubled == {Record(1, "www", "A", a4), Record(2, "www", "A", b4), Record(3, "blog", "A", b4)}
ParkedZone == {Record(1, "@", "ALIAS", parked), Record(2, "*", "CNAME", parked),
               Record(3, "blog", "A", b4)}
Redirected == {Record(1, "@", "ALIAS", elsewhere), Record(2, "blog", "CNAME", elsewhere)}
Alone == {Record(1, "@", "A", b4), Record(2, "@", "AAAA", a6)}
Similar == {Record(1, "www2", "A", b4)}

EmptyOrPopulated == {{}, Populated}
AnyZone == {{}, Populated, Doubled}

(* Entries: each of the clients with each of the owners.                     *)
Of(clients, owners, zones, hazards) ==
  [client : clients, owner : owners, zones : {zones}, faults : {hazards}]

(* Clients that create the record they do not find and edit or replace it in
   place, with every owner that works.                                       *)
Keepers ==
  {"cloudflare", "namesilo", "hetzner", "hetznercloud", "ovh", "porkbun", "namecom", "netcup",
   "vercel", "vultr", "gandi", "godaddy", "route53", "scaleway"}
RecordEntries ==
  LET Meets(clients, owners) ==
        Of(clients, owners, EmptyOrPopulated,
           {"lost", "unsure", "refused", "move", "delete", "change", "banned"})
  IN  Meets(Keepers, {"@", "www", "*"}) \cup Meets({"linode", "ionos", "aliyun", "servercow"}, {"@", "www"})
        \cup Meets({"gcp"}, {"www", "*"})

(* Clients that edit a record which must be there.                           *)
Editors == {"digitalocean", "dnspod", "luadns"}

(* Zones with several records, and users who add one.                        *)
WholeSet ==
  {"ionos", "ovh", "porkbun", "gandi", "godaddy", "route53", "scaleway", "servercow"}
SeveralEntries ==
  Of(WholeSet, {"www"}, AnyZone, {"lost", "unsure", "add", "delete", "move"})
    \cup Of(TakingOne \ Editors, {"www"}, AnyZone, {"lost", "unsure", "add", "delete", "change"})
    \cup Of(Editors, {"www"}, {Populated, Doubled \cup {Record(4, "www", "AAAA", a6)}},
            {"lost", "unsure", "add", "change"})

(* Clients that never create, that have no request to edit, and porkbun's placeholders.  *)
OtherEntries ==
  Of(Editors, {"@", "www", "*"}, {Complete}, {"lost", "unsure", "change", "move"})
    \cup Of(WithoutEdit, {"@", "www"}, EmptyOrPopulated, {"lost", "unsure", "change", "move"})
    \cup Of({"porkbun"}, {"@", "*", "www"}, {ParkedZone, Redirected},
            {"lost", "unsure", "delete", "change", "move"})
    \cup Of({"hetznercloud"}, {"www"}, EmptyOrPopulated, {"lost", "odd", "move"})

DynOwners ==
  {"allinkl", "noip", "dnsomatic", "dynu", "he", "infomaniak", "loopia", "opendns", "ovh dynhost",
   "selfhostde", "spdyn", "strato", "variomedia", "ddnss", "dd24", "duckdns", "goip", "dynv6",
   "domeneshop"}
DynStarred ==
  {"dyn", "example", "inwx", "desec", "easydns", "freedns", "custom", "zoneedit", "changeip",
   "dondominio", "ipv64", "namecheap", "njalla"}
Echoing ==
  {"allinkl", "noip", "dnsomatic", "he", "infomaniak", "opendns", "duckdns", "goip", "njalla"}
DynEntries ==
  LET Meets(clients, owners) ==
        Of(clients, owners, EmptyOrPopulated,
           {"lost", "unsure", "refused", "banned", "move", "delete", "change"})
  IN  Meets(DynOwners, {"@", "www"}) \cup Meets(DynStarred, {"@", "www", "*"}) \cup Meets({"nowdns"}, {"@"})
        \cup Of(Echoing, {"www"}, EmptyOrPopulated,
                {"lost", "ignored", "refused", "move", "delete", "change"})
        \cup Of({"myaddr"}, {"@"}, {{}, Alone},
                {"lost", "unsure", "refused", "move", "delete", "change"})
        \cup Of({"custom"}, {"www"}, EmptyOrPopulated, {"lost", "unsure", "keyless", "move", "change"})

AllEntries == RecordEntries \cup SeveralEntries \cup OtherEntries \cup DynEntries

(* Entries for which TLC finds a property violated.                          *)
LinodeStar == Of({"linode"}, {"*"}, {{}}, {"lost"})                  \* OkMeansServed
HeStar == Of({"he"}, {"*"}, EmptyOrPopulated, {"lost"})              \* OkMeansServed
IonosStar == Of({"ionos"}, {"*"}, {{}}, {"lost"})                    \* NoPileUp
GcpRoot == Of({"gcp"}, {"@"}, {{}}, {"lost"})                        \* UndisturbedSucceeds
VercelRoot == Of({"vercel"}, {"www"}, {Redirected}, {"lost"})        \* UndisturbedSucceeds
HetznercloudOdd == Of({"hetznercloud"}, {"www"}, {{}}, {"odd"})      \* NoPanic
PorkbunRedirected == Of({"porkbun"}, {"@"}, {ParkedZone}, {"redirect"}) \* OthersUntouched
DnsomaticStar == Of({"dnsomatic"}, {"*"}, {Populated}, {"lost"})     \* OthersUntouched
AliyunSimilar == Of({"aliyun"}, {"www"}, {Similar}, {"lost"})        \* OthersUntouched
DreamhostDeleted == Of({"dreamhost"}, {"www"}, {Populated}, {"delete"}) \* KeepsContract
FreednsSource == Of({"freedns"}, {"www"}, {{}}, {"source"})          \* OkMeansServed
CustomSource == Of({"custom"}, {"www"}, {{}}, {"source", "keyless"}) \* OkMeansServed
CustomEither == Of({"custom"}, {"www"}, {{}}, {"either", "move", "change"}) \* OthersUntouched, KeepsContract
MyaddrNames == Of({"myaddr"}, {"@"}, {Populated}, {"lost"})          \* OthersUntouched
=============================================================================

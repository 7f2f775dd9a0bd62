---------------------------- MODULE ProviderRules ----------------------------
(***************************************************************************)
(* What each provider asks of an entry of config.json: which of its fields    *)
(* have to be set, and whether the owner may be the wildcard. A field that is *)
(* set in a form the provider refuses counts as not set; optional fields are *)
(* left out. Every provider checks the syntax of the domain as well.         *)
(***************************************************************************)

(* All of the fields F are required, for any owner but "*", or for any.       *)
NeedsNamed(F) == [fields |-> F, accepted |-> {F}, wildcard |-> {}]
Needs(F) == [fields |-> F, accepted |-> {F}, wildcard |-> {F}]

Aliyun == Needs({"access_key_id", "access_secret"})
Allinkl == NeedsNamed({"username", "password"})
Changeip == Needs({"username", "password"})
Custom == Needs({"url", "success_regex"})
Dd24 == Needs({"password"})
Ddnss == NeedsNamed({"username", "password"})
Desec == Needs({"token"})
Digitalocean == Needs({"token"})
Dnsomatic == Needs({"username", "password"})
Dnspod == Needs({"token"})
Domeneshop == NeedsNamed({"token", "secret"})
Dondominio == Needs({"username", "key"})
Dreamhost == Needs({"key"})
Duckdns == NeedsNamed({"token"})
Dyn == Needs({"username", "client_key"})
Dynu == NeedsNamed({"username", "password"})
Dynv6 == NeedsNamed({"token"})
Easydns == Needs({"username", "token"})
Example == Needs({"username", "password"})
Freedns == Needs({"token"})
Gcp == Needs({"project", "zone", "credentials"})
Godaddy == Needs({"key", "secret"})
Goip == NeedsNamed({"username", "password"})
He == Needs({"password"})
Hetzner == Needs({"zone_identifier", "token"})
Hetznercloud == Needs({"token"})
Infomaniak == NeedsNamed({"username", "password"})
Inwx == Needs({"username", "password"})
Ionos == Needs({"api_key"})
Ipv64 == Needs({"key"})
Linode == Needs({"token"})
Loopia == NeedsNamed({"username", "password"})
Luadns == Needs({"email", "token"})
Myaddr == Needs({"key"})
Namecheap == Needs({"password"})
Namecom == Needs({"username", "token"})
Namesilo == Needs({"key"})
Netcup == Needs({"customer_number", "api_key", "password"})
Njalla == Needs({"key"})
Noip == NeedsNamed({"username", "password"})
Nowdns == Needs({"username", "password"})
Opendns == NeedsNamed({"username", "password"})
Porkbun == Needs({"api_key", "secret_api_key"})
Route53 == Needs({"access_key", "secret_key", "zone_id"})
Scaleway == Needs({"secret_key"})
Selfhostde == NeedsNamed({"username", "password"})
Servercow == NeedsNamed({"username", "password"})
Spaceship == Needs({"api_key", "api_secret"})
Strato == NeedsNamed({"password"})
Variomedia == NeedsNamed({"email", "password"})
Vercel == Needs({"token"})
Vultr == Needs({"api_key"})
Zoneedit == Needs({"username", "token"})

(* An e-mail address and a key go together; the token is not looked at.      *)
Cloudflare ==
  LET F == {"email", "key", "user_service_key", "token", "zone_identifier", "ttl"}
      accepted == {c \in SUBSET F : /\ {"zone_identifier", "ttl"} \subseteq c
                                     /\ "email" \in c <=> "key" \in c}
  IN [fields |-> F, accepted |-> accepted, wildcard |-> accepted]

Gandi ==
  LET F == {"api_key", "personal_access_token"}
  IN [fields |-> F, accepted |-> (SUBSET F) \ {{}}, wildcard |-> (SUBSET F) \ {{}}]

Spdyn ==
  LET F == {"token", "user", "password"}
  IN [fields |-> F, wildcard |-> {},
      accepted |-> {c \in SUBSET F : "token" \in c \/ {"user", "password"} \subseteq c}]

(* With "api" standing for mode: api; the other mode is DynHost.             *)
Ovh ==
  LET F == {"api", "app_key", "app_secret", "consumer_key", "username", "password"}
      api == {c \in SUBSET F : {"api", "app_key", "app_secret", "consumer_key"} \subseteq c}
  IN [fields |-> F, wildcard |-> api,
      accepted |-> api \cup {c \in SUBSET F : "api" \notin c /\ {"username", "password"} \subseteq c}]

Rules ==
  [aliyun |-> Aliyun, allinkl |-> Allinkl, changeip |-> Changeip,
    cloudflare |-> Cloudflare, custom |-> Custom, dd24 |-> Dd24,
    ddnss |-> Ddnss, desec |-> Desec, digitalocean |-> Digitalocean,
    dnsomatic |-> Dnsomatic, dnspod |-> Dnspod, domeneshop |-> Domeneshop,
    dondominio |-> Dondominio, dreamhost |-> Dreamhost, duckdns |-> Duckdns,
    dyn |-> Dyn, dynu |-> Dynu, dynv6 |-> Dynv6, easydns |-> Easydns,
    example |-> Example, freedns |-> Freedns, gandi |-> Gandi, gcp |-> Gcp,
    godaddy |-> Godaddy, goip |-> Goip, he |-> He, hetzner |-> Hetzner,
    hetznercloud |-> Hetznercloud, infomaniak |-> Infomaniak, inwx |-> Inwx,
    ionos |-> Ionos, ipv64 |-> Ipv64, linode |-> Linode, loopia |-> Loopia,
    luadns |-> Luadns, myaddr |-> Myaddr, namecheap |-> Namecheap,
    namecom |-> Namecom, namesilo |-> Namesilo, netcup |-> Netcup,
    njalla |-> Njalla, noip |-> Noip, nowdns |-> Nowdns, opendns |-> Opendns,
    ovh |-> Ovh, porkbun |-> Porkbun, route53 |-> Route53,
    scaleway |-> Scaleway, selfhostde |-> Selfhostde, servercow |-> Servercow,
    spaceship |-> Spaceship, spdyn |-> Spdyn, strato |-> Strato,
    variomedia |-> Variomedia, vercel |-> Vercel, vultr |-> Vultr,
    zoneedit |-> Zoneedit]

Providers == DOMAIN Rules

(* The wildcard, as the pages of docs/ offer it.                             *)
WildcardDocumented ==
  {"cloudflare", "custom", "desec", "digitalocean", "dnsomatic", "dondominio", "dyn",
   "easydns", "example", "gandi", "gcp", "godaddy", "he", "hetzner", "hetznercloud",
   "ionos", "linode", "luadns", "namecom", "namecheap", "namesilo", "netcup", "njalla",
   "porkbun", "route53", "scaleway", "servercow", "vercel", "vultr", "zoneedit"}

-----------------------------------------------------------------------------
(* What a request is authenticated with, where there is a choice.            *)

CloudflareSends(c) ==
  IF "token" \in c THEN {"token"}
  ELSE IF "user_service_key" \in c THEN {"user_service_key"}
  ELSE IF {"email", "key"} \subseteq c THEN {"email", "key"} ELSE {}

GandiSends(c) ==
  IF "personal_access_token" \in c THEN {"personal_access_token"} ELSE c \cap {"api_key"}

SpdynSends(c) == IF "token" \in c THEN {"token"} ELSE c \cap {"user", "password"}

OvhSends(c) ==
  IF "api" \in c THEN c \cap {"app_key", "app_secret", "consumer_key"}
                 ELSE c \cap {"username", "password"}

(* The sets of credentials one of which every request of the four carries.   *)
Sends(provider, c) ==
  CASE provider = "cloudflare" -> CloudflareSends(c)
    [] provider = "gandi"      -> GandiSends(c)
    [] provider = "spdyn"      -> SpdynSends(c)
    [] provider = "ovh"        -> OvhSends(c)
    [] OTHER                   -> c
=============================================================================

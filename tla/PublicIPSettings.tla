--------------------------- MODULE PublicIPSettings ---------------------------
(***************************************************************************)
(* How the environment variables about public addresses become the methods *)
(* and services of PublicIP: read, defaults, validation, options and the   *)
(* creation of the fetchers (internal/config/pubip.go, pkg/publicip). One  *)
(* start of the program is one behaviour.                                  *)
(*                                                                         *)
(* A list of names is a sequence; NotSet is a variable that is not set.    *)
(***************************************************************************)
EXTENDS Integers, Sequences, FiniteSets, SequencesExt

CONSTANTS
  HTTPLists, DNSLists, FetcherLists, \* what the user may have written
  NotSet

(* A variable that is set to nothing counts as not set.                       *)
ASSUME SettingsAssumption ==
  \A list \in HTTPLists \cup DNSLists \cup FetcherLists :
    list \in Seq(ToSet(list)) /\ list # <<>>

AskedVersions == {"ipv4 or ipv6", "ipv4", "ipv6"}

(* ListProvidersForVersion: ifconfig stands for those without a URL for one
   version alone.                                                           *)
HTTPServices(v) == IF v = "ipv4 or ipv6" THEN {"ipify", "ident", "ifconfig"} ELSE {"ipify", "ident"}

(* Custom ones: Validate wants a URL whose scheme is https, the fetcher one that
   begins with https://.                                                     *)
Custom == "url:https://custom"
SchemeOnly == "url:https:custom"

DNSServices == {"cloudflare", "opendns"}

VARIABLES
  stage,           \* the step to come, or how the start ended
  asking,          \* which of the three HTTP lists http is
  http, dns,       \* PubIP.HTTP...Providers, PubIP.DNSProviders
  fetchers,        \* the methods enabled
  given,           \* what the user wrote
  urls, resolvers  \* the services of the fetchers created
settingsVars == <<stage, asking, http, dns, fetchers, given, urls, resolvers>>

SettingsInit ==
  /\ stage = "read"
  /\ asking \in AskedVersions
  /\ http \in HTTPLists \cup {NotSet} /\ dns \in DNSLists \cup {NotSet}
  /\ fetchers \in FetcherLists \cup {NotSet}
  /\ given = [http |-> http, dns |-> dns]
  /\ urls = {} /\ resolvers = {}

Names(list) == ToSet(list)
Ends(how) == stage' = how /\ UNCHANGED <<http, dns, fetchers, urls, resolvers>>

-----------------------------------------------------------------------------
(* PubIP.read.                                                             *)

GetFetchers(list) == UNION {IF name = "all" THEN {"http", "dns"} ELSE {name} : name \in Names(list)}

HandleRetroProvider(name) ==
  CASE name = "ipify6" -> "ipify"
    [] name \in {"noip4", "noip6"} -> "noip"
    [] name = "cycle" -> "all"
    [] OTHER -> name

(* Two services that are no longer there, in the list of both versions.       *)
WithoutDefunct(list) ==
  IF asking # "ipv4 or ipv6" THEN list
  ELSE FlattenSeq([i \in DOMAIN list |-> IF list[i] \in {"opendns", "google"} THEN <<>> ELSE <<list[i]>>])

(* The removal of google goes through the array of the list at first, while it
   moves the last name in the place of each one removed and shortens the list. *)
LookAt(now, i) ==
  CASE now.names[i] # "google" \/ now.panic -> now
    [] now.names[i] = "google" /\ ~now.panic /\ i > now.length -> [now EXCEPT !.panic = TRUE]
    [] OTHER -> [names |-> [now.names EXCEPT ![i] = now.names[now.length]],
                 length |-> now.length - 1, panic |-> FALSE]

WithoutGoogle(list) ==
  LET looked[i \in 0..Len(list)] ==
        IF i = 0 THEN [names |-> list, length |-> Len(list), panic |-> FALSE]
        ELSE LookAt(looked[i - 1], i)
      end == looked[Len(list)]
  IN  [end EXCEPT !.names = SubSeq(@, 1, end.length)]

Read ==
  /\ stage = "read"
  /\ IF fetchers # NotSet /\ ~(Names(fetchers) \subseteq {"all", "http", "dns"})
     THEN Ends("invalid")
     ELSE LET kept == IF dns = NotSet THEN [names |-> NotSet, panic |-> FALSE] ELSE WithoutGoogle(dns)
          IN  /\ http' = IF http = NotSet THEN NotSet
                         ELSE WithoutDefunct([i \in DOMAIN http |-> HandleRetroProvider(http[i])])
              /\ dns' = kept.names
              /\ fetchers' = IF fetchers = NotSet THEN NotSet ELSE GetFetchers(fetchers)
              /\ stage' = IF kept.panic THEN "panic" ELSE "defaults"
              /\ UNCHANGED <<urls, resolvers>>
  /\ UNCHANGED <<asking, given>>

(* A bug: no default for the DNS services.                                    *)
SetDefaultsHTTP ==
  /\ stage = "defaults" /\ stage' = "validate"
  /\ http' = IF http = NotSet THEN <<"all">> ELSE http
  /\ fetchers' = IF fetchers = NotSet THEN {"http", "dns"} ELSE fetchers
  /\ UNCHANGED <<asking, given, dns, urls, resolvers>>

(* A list that was set and has lost all its names is not given the default.    *)
SetDefaults ==
  /\ stage = "defaults" /\ stage' = "validate"
  /\ http' = IF http = NotSet THEN <<"all">> ELSE http
  /\ dns' = IF dns = NotSet THEN <<"all">> ELSE dns
  /\ fetchers' = IF fetchers = NotSet THEN {"http", "dns"} ELSE fetchers
  /\ UNCHANGED <<asking, given, urls, resolvers>>

-----------------------------------------------------------------------------
(* PubIP.Validate.                                                         *)

(* A bug: the version is not looked at.                                       *)
ValidHTTPAnyVersion(list) ==
  /\ list # <<>>
  /\ \A name \in Names(list) : name \in {"all", "noip", Custom, SchemeOnly} \cup HTTPServices("ipv4 or ipv6")

(* noip is let through: "Silently discard it".                                *)
ValidHTTP(list) ==
  /\ list # <<>>
  /\ \A name \in Names(list) : name \in {"all", "noip", Custom, SchemeOnly} \cup HTTPServices(asking)

(* A bug: an empty list is accepted.                                          *)
ValidDNSEmpty(list) == Names(list) \subseteq {"all"} \cup DNSServices

ValidDNS(list) == list # <<>> /\ Names(list) \subseteq {"all"} \cup DNSServices

Validate ==
  /\ stage = "validate"
  /\ Ends(IF ValidHTTP(http) /\ ValidDNS(dns) THEN "create" ELSE "invalid")
  /\ UNCHANGED <<asking, given>>

-----------------------------------------------------------------------------
(* ToHTTPOptions, ToDNSPOptions and NewFetcher.                             *)

(* A bug, that of the DNS services: all of them are added to the chosen ones.  *)
StringsToHTTPProvidersAll(list) == (Names(list) \ {"all"}) \cup HTTPServices(asking)

(* A bug: all leaves out the names next to it.                                *)
StringsToHTTPProvidersAlone(list) ==
  IF "all" \in Names(list) THEN HTTPServices(asking) ELSE Names(list)

StringsToHTTPProviders(list) ==
  (Names(list) \ {"all"}) \cup IF "all" \in Names(list) THEN HTTPServices(asking) ELSE {}

(* A bug: only the first name counts.                                         *)
ToDNSPOptionsFirst(list) == IF Head(list) = "all" THEN DNSServices ELSE {Head(list)}

(* Every name of the list adds all services, not only "all".                  *)
ToDNSPOptions(list) == (Names(list) \ {"all"}) \cup IF list # <<>> THEN DNSServices ELSE {}

(* dns.New and http.New validate again what the options of an enabled method
   hold; the options take the first element of each list.                    *)
NewFetcher ==
  /\ stage = "create"
  /\ LET chosenURLs == StringsToHTTPProviders(http)
         chosenDNS == ToDNSPOptions(dns)
     IN  CASE chosenURLs = {} \/ chosenDNS = {} -> Ends("panic")
           [] \/ "dns" \in fetchers /\ ~(chosenDNS \subseteq DNSServices)
              \/ "http" \in fetchers /\ ~(chosenURLs \subseteq HTTPServices(asking) \cup {Custom})
              \/ fetchers = {} -> Ends("failed")
           [] OTHER ->
                /\ stage' = "ready"
                /\ resolvers' = IF "dns" \in fetchers THEN chosenDNS ELSE {}
                /\ urls' = IF "http" \in fetchers THEN chosenURLs ELSE {}
                /\ UNCHANGED <<http, dns, fetchers>>
  /\ UNCHANGED <<asking, given>>

SettingsNext == Read \/ SetDefaults \/ Validate \/ NewFetcher
SettingsSpec == SettingsInit /\ [][SettingsNext]_settingsVars

-----------------------------------------------------------------------------
(* After the defaults every setting has a value.                              *)
SettingsTypeOK ==
  /\ stage \in {"read", "defaults", "validate", "create", "ready", "invalid", "failed", "panic"}
  /\ stage \in {"validate", "create", "ready"} => NotSet \notin {http, dns, fetchers}
  /\ urls \subseteq HTTPServices(asking) \cup {Custom} /\ resolvers \subseteq DNSServices

(* What Validate accepts is created, but for the two kinds of names it lets
   through and the fetcher does not know; and it takes google twice in the list
   of DNS services to make the start panic. So no other difference between the
   two validations, and no list that is emptied on the way, is found late.    *)
LetThrough == {"noip", SchemeOnly}
Refusable == "http" \in fetchers /\ Names(http) \cap LetThrough # {}
Twice(list, name) == \E i, j \in DOMAIN list : i # j /\ list[i] = name /\ list[j] = name
RefusedLate ==
  /\ stage \in {"ready", "failed"} => (stage = "failed" <=> Refusable)
  /\ stage = "panic" => given.dns # NotSet /\ Twice(given.dns, "google")

(* The names the user means: none set is all of them, older names for them are
   kept, those of services that are gone are left out.                       *)
Retired == {"noip", "opendns", "google"}
Meant(list, all) ==
  LET now == IF list = NotSet THEN {"all"} ELSE {HandleRetroProvider(name) : name \in Names(list)}
  IN  (now \ ({"all"} \cup (Retired \ all))) \cup IF "all" \in now THEN all ELSE {}

(* Every service the user chose is asked, when its method is enabled.          *)
NothingDropped ==
  stage = "ready" =>
    /\ "http" \in fetchers => Meant(given.http, HTTPServices(asking)) \subseteq urls
    /\ "dns" \in fetchers => Meant(given.dns, DNSServices) \subseteq resolvers

(* No service is asked that the user did not choose.                          *)
OnlyChosenURLs == stage = "ready" => urls \subseteq Meant(given.http, HTTPServices(asking))
OnlyChosenResolvers == stage = "ready" => resolvers \subseteq Meant(given.dns, DNSServices)

(* Settings that name a service that is gone, and otherwise services there
   are, do not keep the program from starting.                               *)
RetiredIgnored ==
  stage \in {"invalid", "failed", "panic"} =>
    ~ /\ given.http = NotSet \/ Meant(given.http, HTTPServices(asking)) \subseteq HTTPServices(asking)
      /\ given.dns = NotSet \/ Meant(given.dns, DNSServices) \subseteq DNSServices
=============================================================================

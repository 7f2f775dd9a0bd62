----------------------------- MODULE DynClients -----------------------------
(***************************************************************************)
(* The clients of internal/provider/providers that make one request: set   *)
(* the address of this host name. The provider answers with a word, an     *)
(* HTTP status or a field, and each client has its own idea of which mean  *)
(* success. A word the client does not know is a failure.                  *)
(*                                                                         *)
(* "good" stands for the answer that reports a change, whatever its text,  *)
(* and "nochg" for the one that reports there was nothing to change; a     *)
(* provider whose client does not know the latter is taken not to use it.  *)
(***************************************************************************)
EXTENDS DnsZone

(* What the client makes of the answers it knows.                           *)
Answers(fine, abusive, refused) ==
  [w \in fine \cup abusive \cup refused |->
     IF w \in fine THEN "ok" ELSE IF w \in abusive THEN "banned" ELSE "failed"]

Contents(records) == {<<r.name, r.type, r.val>> : r \in records}

(* The exchange. With echo, the client compares the address in the answer
   with the one it sent.                                                    *)
DynExchange(c, changed, answers, echo) ==
  /\ At(c, "start")
  /\ \/ /\ NoAnswer \/ (Happens("unsure") /\ zone' = changed /\ Return("failed"))
        /\ said' = "none"
     \/ /\ zone' = changed /\ UNCHANGED deeds
        /\ said' = IF "nochg" \in DOMAIN answers /\ Contents(changed) = Contents(zone)
                   THEN "nochg" ELSE "good"
        /\ Return(answers[said'])
     \/ /\ said' \in DOMAIN answers \ {"good", "nochg"}
        /\ Happens(IF said' = "abuse" THEN "banned" ELSE "refused")
        /\ UNCHANGED zone
        /\ Return(answers[said'])
     \/ /\ Happens("ignored") /\ UNCHANGED zone
        /\ said' = "good"
        /\ Return(IF echo THEN "failed" ELSE answers[said'])

Named(name) == Replaced(name, target)

(* A provider that is sent no address takes the one the request comes from.  *)
Sources(reach) == IF "source" \in faults THEN reach ELSE {target}

-----------------------------------------------------------------------------
(* Words of the DynDNS2 protocol.                                           *)

(* A bug: the answers that start with "no" are not told apart.               *)
AllinklLax == DynExchange("allinkl", Named(QueryHostname),
  Answers({"good", "nochg", "nohost"}, {"abuse"}, {"", "911", "!donator", "badagent", "badauth"}), TRUE)

Allinkl == DynExchange("allinkl", Named(QueryHostname),
  Answers({"good", "nochg"}, {"abuse"}, {"", "911", "!donator", "badagent", "badauth", "nohost"}), TRUE)

Noip == DynExchange("noip", Named(QueryHostname),
  Answers({"good", "nochg"}, {"abuse"}, {"", "911", "!donator", "badagent", "badauth", "nohost"}), TRUE)

(* The wildcard is updated through the domain, with wildcard=ON.             *)
DnsomaticZone ==
  IF owner # "*" THEN Named(QueryHostname)
  ELSE Along(Named("*"), "@", target)

Dnsomatic == DynExchange("dnsomatic", DnsomaticZone,
  Answers({"good", "nochg"}, {"abuse"}, {"nohost", "notfqdn", "badauth", "badagent", "dnserr", "911"}), TRUE)

Dynu == DynExchange("dynu", Named(DomainName),
  Answers({"good", "nochg"}, {"abuse"}, {"badauth", "notfqdn"}), FALSE)

(* A bug: the address in the answer is not compared.                         *)
HeTrusting ==
  DynExchange("he", Named(DomainName), Answers({"good", "nochg"}, {}, {"", "badauth"}), FALSE)

He == DynExchange("he", Named(DomainName), Answers({"good", "nochg"}, {}, {"", "badauth"}), TRUE)

Dyn == DynExchange("dyn", Named(QueryHostname), Answers({"good"}, {}, {"notfqdn", "badrequest"}), FALSE)

Example == DynExchange("example", Named(QueryHostname),
  Answers({"good"}, {}, {"notfqdn", "badrequest"}), FALSE)

Variomedia == DynExchange("variomedia", Named(QueryHostname),
  Answers({"good"}, {}, {"notfqdn", "badrequest"}), FALSE)

Infomaniak == DynExchange("infomaniak", Named(QueryHostname),
  Answers({"good", "nochg"}, {}, {"nohost", "badauth"}), TRUE)

Inwx == DynExchange("inwx", Named(QueryHostname), Answers({"good", "nochg"}, {}, {}), FALSE)

(* A bug: the domain is updated, whatever the owner.                         *)
LoopiaRoot == DynExchange("loopia", Named("@"),
  Answers({"good", "nochg"}, {}, {"nohost", "notfqdn", "badrequest", "911", "badauth"}), FALSE)

Loopia == DynExchange("loopia", Named(QueryHostname),
  Answers({"good", "nochg"}, {}, {"nohost", "notfqdn", "badrequest", "911", "badauth"}), FALSE)

(* The host name is the domain, whatever the owner.                          *)
Nowdns == DynExchange("nowdns", Named("@"),
  Answers({"good", "nochg"}, {}, {"nohost", "badauth"}), FALSE)

Opendns == DynExchange("opendns", Named(QueryHostname), Answers({"good"}, {}, {}), TRUE)

OvhDynHost == DynExchange("ovh dynhost", Named(QueryHostname),
  Answers({"good", "nochg"}, {}, {"notfqdn", "badrequest", "nohost"}), FALSE)

Selfhostde == DynExchange("selfhostde", Named(QueryHostname),
  Answers({"good", "nochg"}, {"abuse"},
          {"notfqdn", "badrequest", "401", "409", "410", "411", "412", "503"}) , FALSE)

Spdyn == DynExchange("spdyn", Named(QueryHostname),
  Answers({"good", "nochg"}, {"abuse", "numhost"}, {"badauth", "!yours", "notfqdn", "nohost", "fatal"}), FALSE)

Strato == DynExchange("strato", Named(QueryHostname),
  Answers({"good", "nochg"}, {"abuse"}, {"notfqdn", "badrequest", "badauth"}), FALSE)

(* A bug: the other family is not named, and the provider empties it.         *)
DesecForgetful == DynExchange("desec",
  {r \in Named(QueryHostname) : r.name = owner => r.type = RecordType},
  Answers({"good"}, {}, {"401", "404", "notfqdn", "badrequest"}), FALSE)

(* The other family is sent as "preserve".                                   *)
Desec == DynExchange("desec", Named(QueryHostname),
  Answers({"good"}, {}, {"401", "404", "notfqdn", "badrequest"}), FALSE)

-----------------------------------------------------------------------------
(* Words of their own.                                                      *)

Ddnss == DynExchange("ddnss", Named(QueryHostname),
  Answers({"good"}, {}, {"badysys", "badauth", "notfqdn"}), FALSE)

Dd24 == DynExchange("dd24", Named(DomainName),
  Answers({"good"}, {}, {"authorization failed"}), FALSE)

Duckdns == DynExchange("duckdns", Named(DomainName), Answers({"good"}, {}, {"ko"}), TRUE)

Easydns == DynExchange("easydns", Named(QueryHostname),
  Answers({"good"}, {"illegal_input", "too_soon"}, {"", "no_service", "no_access"}), FALSE)

(* The request has the token of one host name and nothing else, and is made
   to the host for the family of the address.                               *)
Freedns ==
  \E ip \in Sources({a \in Addrs : TypeOf(a) = RecordType}) :
    DynExchange("freedns", Replaced(owner, ip), Answers({"good", "nochg"}, {}, {""}), FALSE)

(* The answer repeats the host name and the address.                         *)
Goip == DynExchange("goip", Named(DomainName), Answers({"good"}, {}, {"zugriff verweigert"}), TRUE)

(* The host name is in the configured URL. The parameter of the address stays
   in the URL of the client, so the call for one family also sends the address
   an earlier call had for the other.                                       *)
Kept == IF "either" \in faults THEN {ip \in query : TypeOf(ip) # RecordType} ELSE {}
CustomZones ==
  IF "keyless" \in faults THEN {Replaced(owner, ip) : ip \in Sources(Addrs)}
  ELSE IF Kept = {} THEN {Named(owner)}
  ELSE {Along(Named(owner), owner, ip) : ip \in Kept}

Custom ==
  /\ \E changed \in CustomZones : DynExchange("custom", changed, Answers({"good"}, {}, {}), FALSE)
  /\ query' = IF "keyless" \in faults THEN {} ELSE Kept \cup {target}

(* The address in the answer is only compared when it is in the expected place. *)
Zoneedit == DynExchange("zoneedit", Named(QueryHostname),
  Answers({"good"}, {"702", "709"}, {"", "708"}), FALSE)

-----------------------------------------------------------------------------
(* An HTTP status, or a field of a document.                                *)

Changeip == DynExchange("changeip", Named(QueryHostname), Answers({"good"}, {}, {}), FALSE)
Domeneshop == DynExchange("domeneshop", Named(QueryHostname), Answers({"good"}, {}, {"404"}), FALSE)
Dondominio == DynExchange("dondominio", Named(QueryHostname), Answers({"good"}, {}, {"success: false"}), FALSE)
Dynv6 == DynExchange("dynv6", Named(QueryHostname), Answers({"good"}, {}, {}), FALSE)
Ipv64 == DynExchange("ipv64", Named(QueryHostname), Answers({"good"}, {}, {"401"}), FALSE)

(* The key is that of the domain: its other records of the family get the
   address as well.                                                         *)
MyaddrZone ==
  {IF r.type = RecordType THEN [r EXCEPT !.val = target] ELSE r : r \in Named(owner)}
Myaddr == DynExchange("myaddr", MyaddrZone, Answers({"good"}, {}, {"400", "404"}), FALSE)

(* An answer without an address is as good as one with the address sent.     *)
Namecheap == DynExchange("namecheap", Named(owner), Answers({"good"}, {}, {"Err1"}), FALSE)
Njalla == DynExchange("njalla", Named(QueryHostname), Answers({"good"}, {}, {"401", "500"}), TRUE)

DynClient ==
  \/ Custom
  \/ /\ \/ Allinkl \/ Noip \/ Dnsomatic \/ Dynu \/ He \/ Dyn \/ Example \/ Variomedia
        \/ Infomaniak \/ Inwx \/ Loopia \/ Nowdns \/ Opendns \/ OvhDynHost \/ Selfhostde
        \/ Spdyn \/ Strato \/ Desec \/ Ddnss \/ Dd24 \/ Duckdns \/ Easydns \/ Freedns
        \/ Goip \/ Zoneedit \/ Changeip \/ Domeneshop \/ Dondominio \/ Dynv6 \/ Ipv64
        \/ Myaddr \/ Namecheap \/ Njalla
     /\ UNCHANGED query
=============================================================================

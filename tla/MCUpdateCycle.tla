--------------------------- MODULE MCUpdateCycle ---------------------------
(* Small instances of UpdateCycle: two networks, one or two entries.        *)
EXTENDS UpdateCycle

CONSTANTS net1, net2, host, site

lan == "lan"   \* the interface identifier of an IPv6 suffix

A4 == [fam |-> "ip4", net |-> net1, host |-> host]
A6 == [fam |-> "ip6", net |-> net1, host |-> host]
None == [fam |-> "none"]

Entry(version, proxied) ==
  [key |-> site, version |-> version, proxied |-> proxied, suffix |-> NoHost]

P4 == Entry("ip4", FALSE)
P6 == Entry("ip6", FALSE)
PX == Entry("ip4", TRUE)

OneNet == {net1}
TwoNets == {net1, net2}
OneHost == {host}
TwoHosts == {host, lan}
OneKey == {site}

(* Entries of two domains, of which a user keeps one at a time.             *)
elsewhere == "elsewhere"
TwoKeys == {site, elsewhere}
PE == [P4 EXCEPT !.key = elsewhere]
TwoDomains == {P4, PE}
MoveConfigs == {<<P4>>, <<PE>>}

OnlyIPv4 == [f \in Families |-> IF f = "ip4" THEN A4 ELSE NoAddr]
DualStack == [f \in Families |-> IF f = "ip4" THEN A4 ELSE A6]

(* One entry compared by DNS lookups, one proxied.                          *)
Single == {P4}
SingleConfig == <<P4>>
SingleConfigs == {SingleConfig}

Proxy == {PX}
ProxyConfig == <<PX>>
ProxyConfigs == {ProxyConfig}

(* One entry of either family with an IPv6 suffix.                          *)
PAny == [Entry("ip4or6", FALSE) EXCEPT !.suffix = lan]
Suffixed == {PAny}
SuffixConfig == <<PAny>>
SuffixConfigs == {SuffixConfig}

(* Two entries of one domain.                                               *)
Pair == {PX, P6}
PairConfig == <<PX, P6>>
PairConfigs == {PairConfig}

(* A user who removes, adds and reorders entries.                           *)
ShrinkConfigs == {SingleConfig, <<>>}
ResizeConfigs == {PairConfig, ProxyConfig, <<>>}
SwapConfigs == {PairConfig, <<P6, PX>>}
=============================================================================

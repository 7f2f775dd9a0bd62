------------------------------ MODULE Records ------------------------------
(***************************************************************************)
(* The values the updater works on: IP addresses, history events, the      *)
(* history of a record, the settings of a provider entry and the record    *)
(* that binds them (internal/records, internal/models, the pure parts of   *)
(* internal/update and internal/persistence/json).                         *)
(***************************************************************************)
EXTENDS Integers, Sequences, FiniteSets

CONSTANTS
  Nets,       \* network prefixes an ISP hands out
  Hosts,      \* interface identifiers, the part an IPv6 suffix replaces
  Keys,       \* (domain, owner) pairs: what updates.json is indexed by
  NoAddr,     \* the zero netip.Addr (IsValid() is false)
  NoHost      \* no IPv6 suffix configured

ASSUME NullsAreFresh == NoHost \notin Hosts /\ NoAddr = [fam |-> "none"]

NoTime == -1  \* the zero time.Time, a nil *time.Time, or an absent monotonic reading

Families == {"ip4", "ip6"}
Versions == {"ip4or6", "ip4", "ip6"}

Addrs == [fam : Families, net : Nets, host : Hosts]

(* One entry of config.json as the updater sees it.                        *)
Provider == [key : Keys, version : Versions, proxied : BOOLEAN, suffix : Hosts \cup {NoHost}]

(* A time.Time made by time.Now() carries a wall and a monotonic reading;   *)
(* one decoded from JSON has only the wall reading.                         *)
Event == [ip : Addrs, wall : Nat, mono : Nat \cup {NoTime}]
NoEvent == [ip |-> NoAddr, wall |-> NoTime, mono |-> NoTime]

(* The updater reads a history's length and its latest event and nothing   *)
(* else, so these two stand for the slice of events.                       *)
History == {h \in [count : Nat, last : Event \cup {NoEvent}] : h.count = 0 <=> h.last = NoEvent}
EmptyHistory == [count |-> 0, last |-> NoEvent]
GetCurrentIP(h) == h.last.ip
Extend(h, e) == [count |-> h.count + 1, last |-> e]

Statuses == {"unset", "uptodate", "updating", "success", "failure"}

(* A record; Time and Message are display only. LastBan went through        *)
(* time.Unix and so has a wall reading only.                                *)
Record == [prov : Provider, hist : History, status : Statuses, ban : Nat \cup {NoTime}]

NewRecord(p, h) == [prov |-> p, hist |-> h, status |-> "unset", ban |-> NoTime]

MatchesVersion(ip, version) == version \in {"ip4or6", ip.fam}

(* A bug: the oldest event is taken for the current one.                    *)
FilterEventsOldest(events, version) ==
  LET kept == {i \in DOMAIN events : MatchesVersion(events[i].ip, version)}
  IN  IF kept = {} THEN EmptyHistory
      ELSE [count |-> Cardinality(kept),
            last  |-> events[CHOOSE i \in kept : \A j \in kept : j >= i]]

(* filterEvents: the events a provider entry of some IP version starts with. *)
FilterEvents(events, version) ==
  LET kept == {i \in DOMAIN events : MatchesVersion(events[i].ip, version)}
  IN  IF kept = {} THEN EmptyHistory
      ELSE [count |-> Cardinality(kept),
            last  |-> events[CHOOSE i \in kept : \A j \in kept : j <= i]]

(* A bug: events of one tick are refused.                                   *)
OrderedStrictly(events) == \A i, j \in DOMAIN events : i < j => events[i].wall < events[j].wall

(* checkHistoryEvents: what the program accepts to start from.              *)
Ordered(events) == \A i, j \in DOMAIN events : i < j => events[i].wall <= events[j].wall

(* ipv6WithSuffix: an IPv6 address keeps the ISP's prefix and takes the     *)
(* configured suffix; anything else is returned as it is.                   *)
IPv6WithSuffix(ip, suffix) ==
  IF ip.fam = "ip6" /\ suffix # NoHost THEN [ip EXCEPT !.host = suffix] ELSE ip

(* time.Time.Sub: monotonic readings when both times have one, else wall.   *)
Since(e, now, wall) == IF e.mono = NoTime THEN wall - e.wall ELSE now - e.mono
=============================================================================

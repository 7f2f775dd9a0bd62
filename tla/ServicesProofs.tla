---------------------------- MODULE ServicesProofs ----------------------------
(***************************************************************************)
(* The services around the update cycle: the fetching of public addresses,    *)
(* for any number of families, URLs and failures; the backups, for any number   *)
(* of writes, failures and signals; and the settings about public addresses,   *)
(* for lists of any length.                                                  *)
(***************************************************************************)
EXTENDS PublicIP, PublicIPSettings, BackupService, SequenceLemmas

-----------------------------------------------------------------------------
(* Public addresses. The types of the state:                                 *)

IPShapes ==
  /\ setup \in Setups
  /\ pc \in {"idle", "pick", "ask"} /\ current \in DOMAIN Families /\ try \in 1..Tries
  /\ counter \in 0..(CounterSize - 1) /\ dnsCounter \in 0..(CounterSize - 1)
  /\ index \in [Versions -> Nat] /\ banned \in [Versions -> SUBSET Nat]
  /\ \A v \in Versions : index[v] \in Ring(v) /\ banned[v] \subseteq Ring(v)
  /\ IF pc = "ask" THEN service.method \in Enabled /\ (service.method = "http" => service.at \in Ring(Version))
     ELSE service = NoService
  /\ failed \subseteq Enabled /\ faults \in 0..MaxFaults
  /\ got \in [Versions -> {NotFetched, NoAddress, 4, 6}]

(* The tries for a family go through its methods: the one asked before the       *)
(* current one has failed, so from the second try on every method has but the   *)
(* current one.                                                              *)
TriesCover ==
  /\ pc = "idle" => try = 1
  /\ try = 1 => failed = {}
  /\ pc = "pick" /\ try > 1 => MethodAt(counter) \in failed
  /\ pc = "ask" => /\ service.method = MethodAt(counter)
                   /\ try > 1 => Enabled \subseteq failed \cup {service.method}

(* Going up the ring from w one comes by x before i, or ends at it there.      *)
Between(w, x, i) == IF w <= i THEN w < x /\ x <= i ELSE x > w \/ x <= i

(* The ring keeps its order: an open URL that comes after w up to the last one  *)
(* asked has been asked since w was.                                         *)
RingOrder ==
  /\ DOMAIN since = Versions /\ \A v \in Versions : DOMAIN since[v] = Ring(v)
  /\ \A v \in Versions : \A w, x \in Ring(v) \ banned[v] :
       w # x /\ Between(w, x, index[v]) => x \in since[v][w]

IPInv == IPShapes /\ FamilyFits /\ TriesCover /\ RingOrder

LEMMA SetupShape ==
  ASSUME setup \in Setups
  PROVE  /\ Methods \in {<<"dns">>, <<"http">>, <<"dns", "http">>}
         /\ Families \in Seq(Versions) /\ Len(Families) \in Nat \ {0}
         /\ Urls \in [Versions -> Nat \ {0}]
         /\ Enabled \subseteq {"dns", "http"}
         /\ Len(Methods) = 1 => Enabled = {Methods[1]}
         /\ Len(Methods) > 1 => Len(Methods) = 2 /\ Enabled = {Methods[1], Methods[2]}
         /\ Len(Methods) \in 1..2
<1>1. /\ Methods \in {<<"dns">>, <<"http">>, <<"dns", "http">>}
      /\ Families \in Seq(Versions) /\ Len(Families) \in Nat \ {0}
      /\ Urls \in [Versions -> Nat \ {0}]
  BY PublicIPAssumption DEF Methods, Families, Urls
<1>2. CASE Methods = <<"dns", "http">>
  <2>1. DOMAIN Methods = {1, 2} /\ Len(Methods) = 2 /\ Methods[1] = "dns" /\ Methods[2] = "http"
    BY <1>2
  <2> QED
    BY <1>1, <2>1 DEF Enabled
<1>3. CASE Methods # <<"dns", "http">>
  <2>1. DOMAIN Methods = {1} /\ Len(Methods) = 1 /\ Methods[1] \in {"dns", "http"}
    BY <1>1, <1>3
  <2> QED
    BY <1>1, <2>1 DEF Enabled
<1> QED
  BY <1>2, <1>3

LEMMA VersionIsOne ==
  ASSUME setup \in Setups, current \in DOMAIN Families
  PROVE  Version \in Versions
BY SetupShape DEF Version

(* Two values of the counter in a row stand for two methods, as it wraps at a   *)
(* multiple of two.                                                          *)
LEMMA MethodsAlternate ==
  ASSUME IPShapes
  PROVE  /\ NextCounter \in 0..(CounterSize - 1)
         /\ \A c \in 0..(CounterSize - 1) : MethodAt(c) \in Enabled
         /\ Enabled = {MethodAt(counter), MethodAt(NextCounter)}
<1>1. counter \in Nat /\ counter < CounterSize /\ CounterSize \in Nat \ {0} /\ CounterSize % 2 = 0
  BY PublicIPAssumption DEF IPShapes
<1>2. (counter + 1) % CounterSize = IF counter + 1 < CounterSize THEN counter + 1 ELSE 0
  <2>1. CASE counter + 1 < CounterSize
    BY <1>1, <2>1
  <2>2. CASE counter + 1 = CounterSize
    BY <1>1, <2>2
  <2> QED
    BY <1>1, <2>1, <2>2
<1>3. NextCounter \in 0..(CounterSize - 1)
  BY <1>1, <1>2 DEF NextCounter
<1>4. ASSUME NEW c \in 0..(CounterSize - 1) PROVE MethodAt(c) \in Enabled
  <2>1. c \in Nat
    BY <1>1
  <2>2. CASE Len(Methods) = 1
    BY <2>2, SetupShape DEF MethodAt, IPShapes
  <2>3. CASE Len(Methods) = 2
    <3>1. (c % Len(Methods)) + 1 \in {1, 2}
      BY <2>1, <2>3
    <3> QED
      BY <2>3, <3>1, SetupShape DEF MethodAt, IPShapes
  <2> QED
    BY <2>2, <2>3, SetupShape DEF IPShapes
<1>5. Enabled = {MethodAt(counter), MethodAt(NextCounter)}
  <2>1. CASE Len(Methods) = 1
    BY <2>1, SetupShape DEF MethodAt, IPShapes
  <2>2. CASE Len(Methods) = 2
    <3>1. NextCounter % 2 = 1 - (counter % 2) /\ counter % 2 \in {0, 1}
      BY <1>1, <1>2, <2>2 DEF NextCounter
    <3>2. /\ MethodAt(counter) = Methods[(counter % 2) + 1]
          /\ MethodAt(NextCounter) = Methods[(NextCounter % 2) + 1]
      BY <2>2 DEF MethodAt
    <3>3. CASE counter % 2 = 0
      BY <2>2, <3>1, <3>2, <3>3, SetupShape DEF IPShapes
    <3>4. CASE counter % 2 = 1
      BY <2>2, <3>1, <3>2, <3>4, SetupShape DEF IPShapes
    <3> QED
      BY <3>1, <3>3, <3>4
  <2> QED
    BY <2>1, <2>2, SetupShape DEF IPShapes
<1> QED
  BY <1>3, <1>4, <1>5

(* The URL asked next is an open one, and the first one after the last.         *)
LEMMA NextUrlIsNext ==
  ASSUME IPShapes, NEW v \in Versions, NEW open \in SUBSET Ring(v), open # {}
  PROVE  /\ NextUrl(v, open) \in open
         /\ \A x \in open : x # NextUrl(v, open) => Between(NextUrl(v, open), x, index[v])
<1> DEFINE n == Urls[v]
           i == index[v]
           At(k) == (index[v] + k) % Urls[v]
           First(k) == At(k) \in open /\ \A j \in 1..(k - 1) : At(j) \notin open
<1>1. n \in Nat \ {0} /\ i \in Nat /\ i < n /\ open \subseteq 0..(n - 1)
  <2>1. n \in Nat \ {0}
    BY SetupShape DEF IPShapes
  <2>2. i \in 0..(n - 1) /\ open \subseteq 0..(n - 1)
    BY DEF IPShapes, Ring
  <2> QED
    BY <2>1, <2>2
<1>2. ASSUME NEW k \in 1..n
      PROVE  At(k) = IF i + k < n THEN i + k ELSE i + k - n
  <2> DEFINE m == i + k
  <2>0. m \in Nat /\ m < n + n
    BY <1>1
  <2>1. CASE m < n
    BY <1>1, <2>0, <2>1
  <2>2. CASE m >= n
    BY <1>1, <2>0, <2>2
  <2> QED
    BY <1>1, <2>0, <2>1, <2>2
<1>3. ASSUME NEW x \in open PROVE \E k \in 1..n : At(k) = x
  <2>1. x \in 0..(n - 1)
    BY <1>1
  <2>2. CASE x > i
    <3>1. x - i \in 1..n /\ At(x - i) = x
      BY <1>1, <1>2, <2>1, <2>2
    <3> QED
      BY <3>1
  <2>3. CASE x <= i
    <3>1. x - i + n \in 1..n /\ At(x - i + n) = x
      BY <1>1, <1>2, <2>1, <2>3
    <3> QED
      BY <3>1
  <2> QED
    BY <1>1, <2>1, <2>2, <2>3
<1>4. \E k \in 1..n : First(k)
  <2> DEFINE S == {k \in 1..n : At(k) \in open}
  <2>1. S \subseteq Nat /\ S # {}
    <3>1. PICK x \in open : TRUE
      OBVIOUS
    <3>2. PICK k \in 1..n : At(k) = x
      BY <1>3
    <3>3. k \in S
      BY <3>1, <3>2
    <3> QED
      BY <1>1, <3>3
  <2>2. PICK k \in S : \A j \in S : k <= j
    BY <2>1, LeastNatural
  <2> QED
    BY <1>1, <2>2
<1> DEFINE k0 == CHOOSE k \in 1..n : First(k)
<1>5. k0 \in 1..n /\ First(k0)
  BY <1>4
<1>6. NextUrl(v, open) = At(k0)
  BY DEF NextUrl
<1>7. ASSUME NEW x \in open, x # At(k0) PROVE Between(At(k0), x, i)
  <2>1. PICK k \in 1..n : At(k) = x
    BY <1>3
  <2>2. k \in Nat /\ k0 \in Nat /\ 1 <= k0 /\ k0 <= n /\ k <= n
    BY <1>1, <1>5, <2>1
  <2>3. ~ (k \in 1..(k0 - 1)) /\ k # k0
    BY <1>5, <1>7, <2>1
  <2>4. k > k0
    BY <2>2, <2>3
  <2>5. /\ At(k0) = IF i + k0 < n THEN i + k0 ELSE i + k0 - n
        /\ x = IF i + k < n THEN i + k ELSE i + k - n
    BY <1>2, <1>5, <2>1
  <2> HIDE DEF At, i, n, k0
  <2> QED
    BY <1>1, <2>2, <2>4, <2>5 DEF Between
<1> QED
  BY <1>5, <1>6, <1>7

(* What the answers of the services are worth.                                *)
Fits(v, family) ==
  /\ family \in {NoAddress, 4, 6}
  /\ v = "ipv4" => family # 6
  /\ v = "ipv6" => family # 4

LEMMA AddressFits ==
  ASSUME NEW v \in Versions, Version = v, NEW answer \in Answers
  PROVE  Fits(v, Address(answer))
<1>1. Only(answer, 4) \in {4, 0} /\ Only(answer, 6) \in {6, 0}
  BY DEF Only, NoAddress
<1>2. answer # <<>> => answer[1] \in {4, 6}
  BY DEF Answers
<1>3. CASE v = "ipv4"
  <2>1. HTTPAddress(v, answer) \in {4, 0} /\ DNSAddress(v, answer) \in {4, 0}
    BY <1>1, <1>3 DEF HTTPAddress, DNSAddress, NoAddress
  <2> QED
    BY <1>3, <2>1 DEF Address, Fits, NoAddress
<1>4. CASE v = "ipv6"
  <2>1. HTTPAddress(v, answer) \in {6, 0} /\ DNSAddress(v, answer) \in {6, 0}
    BY <1>1, <1>4 DEF HTTPAddress, DNSAddress, NoAddress
  <2> QED
    BY <1>4, <2>1 DEF Address, Fits, NoAddress
<1>5. CASE v = "ipv4 or ipv6"
  <2>1. HTTPAddress(v, answer) \in {4, 6, 0}
    BY <1>1, <1>5 DEF HTTPAddress, NoAddress
  <2>2. DNSAddress(v, answer) \in {4, 6, 0}
    BY <1>2, <1>5 DEF DNSAddress, NoAddress
  <2> QED
    BY <1>5, <2>1, <2>2 DEF Address, Fits, NoAddress
<1> QED
  BY <1>3, <1>4, <1>5 DEF Versions

LEMMA IPInitially == Init => IPInv
<1> SUFFICES ASSUME Init PROVE IPInv
  OBVIOUS
<1>1. setup \in Setups
  BY DEF Init
<1>2. \A v \in Versions : 0 \in Ring(v)
  <2>1. \A v \in Versions : Urls[v] \in Nat /\ Urls[v] > 0
    BY <1>1, SetupShape
  <2> QED
    BY <2>1 DEF Ring
<1>3. IPShapes
  <2>1. 1 \in DOMAIN Families
    BY <1>1, SetupShape
  <2>2. 0 \in 0..(CounterSize - 1) /\ 0 \in 0..MaxFaults
    BY PublicIPAssumption
  <2>3. \A v \in Versions : index[v] \in Ring(v) /\ banned[v] \subseteq Ring(v)
    BY <1>2 DEF Init
  <2>4. index \in [Versions -> Nat] /\ banned \in [Versions -> SUBSET Nat] /\ got \in [Versions -> {NotFetched, NoAddress, 4, 6}]
    BY DEF Init
  <2> QED
    BY <1>1, <2>1, <2>2, <2>3, <2>4 DEF Init, IPShapes, Tries
<1>4. FamilyFits
  BY DEF Init, FamilyFits, Versions
<1>5. TriesCover
  BY DEF Init, TriesCover
<1>6. RingOrder
  BY DEF Init, RingOrder
<1> QED
  BY <1>3, <1>4, <1>5, <1>6 DEF IPInv

(* The end of a fetch, and of a try.                                          *)
IPTypes ==
  /\ pc' \in {"idle", "pick"} /\ current' \in DOMAIN Families /\ try' \in 1..Tries
  /\ got' \in [Versions -> {NotFetched, NoAddress, 4, 6}]
  /\ pc' = "idle" => try' = 1
  /\ try' = 1 => failed' = {}

LEMMA FinishKeeps ==
  ASSUME IPShapes, FamilyFits, NEW family, Fits(Version, family), Finish(family)
  PROVE  IPTypes /\ failed' = {} /\ try' = 1 /\ FamilyFits'
<1>1. Version \in Versions /\ Families \in Seq(Versions) /\ current \in 1..Len(Families)
  BY VersionIsOne, SetupShape DEF IPShapes
<1>2. current' \in DOMAIN Families
  BY <1>1, SetupShape DEF Finish, IPShapes
<1>3. got' \in [Versions -> {NotFetched, NoAddress, 4, 6}]
  BY <1>1 DEF Finish, IPShapes, Fits
<1>4. FamilyFits'
  BY <1>1 DEF Finish, IPShapes, Fits, FamilyFits, Versions
<1> QED
  BY <1>2, <1>3, <1>4 DEF Finish, IPTypes, Tries

LEMMA TryFailedKeeps ==
  ASSUME IPShapes, FamilyFits, NEW method \in Enabled, TryFailed(method), pc # "idle"
  PROVE  /\ IPTypes /\ FamilyFits' /\ failed' \subseteq Enabled
         /\ try' > 1 => pc' = "pick" /\ failed' = failed \cup {method}
<1>1. CASE try = Tries
  <2>1. Fits(Version, NoAddress) /\ Finish(NoAddress)
    BY <1>1 DEF TryFailed, Fits, NoAddress
  <2> QED
    BY <2>1, FinishKeeps
<1>2. CASE try # Tries
  BY <1>2 DEF TryFailed, IPShapes, IPTypes, FamilyFits, Tries
<1> QED
  BY <1>1, <1>2

(* A try ends with no service being asked; a step that asks leaves the fetch.   *)
LEMMA TryEnds ==
  ASSUME IPShapes, IPTypes, UNCHANGED setup, service' = NoService, failed' \subseteq Enabled,
         counter' \in 0..(CounterSize - 1), dnsCounter' \in 0..(CounterSize - 1), faults' \in 0..MaxFaults,
         index' \in [Versions -> Nat], banned' \in [Versions -> SUBSET Nat],
         \A v \in Versions : index'[v] \in Ring(v) /\ banned'[v] \subseteq Ring(v)
  PROVE  IPShapes'
BY DEF IPShapes, IPTypes, Families, Enabled, Methods, Ring, Urls

LEMMA RingKept ==
  ASSUME IPShapes, RingOrder, UNCHANGED <<setup, index, since>>,
         \A v \in Versions : banned[v] \subseteq banned'[v]
  PROVE  RingOrder'
BY DEF RingOrder, Ring, Urls

LEMMA IPKept == IPInv /\ [Next]_vars => IPInv'
<1> SUFFICES ASSUME IPInv, [Next]_vars PROVE IPInv'
  OBVIOUS
<1>0. IPShapes /\ FamilyFits /\ TriesCover /\ RingOrder
  BY DEF IPInv
<1>a. Version \in Versions
  BY <1>0, VersionIsOne DEF IPShapes
<1>1. CASE UNCHANGED vars
  <2>1. IPShapes'
    BY <1>0, <1>1 DEF IPShapes, vars, Families, Enabled, Methods, Ring, Urls, Version
  <2>2. RingOrder'
    BY <1>0, <1>1, RingKept DEF vars
  <2>3. TriesCover' /\ FamilyFits'
    BY <1>0, <1>1 DEF TriesCover, FamilyFits, vars, MethodAt, Methods, Enabled
  <2> QED
    BY <2>1, <2>2, <2>3 DEF IPInv
<1>2. CASE StartCycle /\ UNCHANGED setup
  <2>1. IPShapes'
    BY <1>0, <1>2 DEF IPShapes, StartCycle, rings, Families, Enabled, Methods, Ring, Urls, Version
  <2>2. RingOrder'
    BY <1>0, <1>2, RingKept DEF StartCycle, rings
  <2>3. TriesCover' /\ FamilyFits'
    BY <1>0, <1>2 DEF TriesCover, FamilyFits, StartCycle
  <2> QED
    BY <2>1, <2>2, <2>3 DEF IPInv
<1>3. CASE PickMethod /\ UNCHANGED setup
  <2> DEFINE method == MethodAt(counter')
  <2>0. counter' \in 0..(CounterSize - 1) /\ method \in Enabled /\ Enabled = {MethodAt(counter), method}
    BY <1>0, <1>3, MethodsAlternate DEF PickMethod
  <2>1. pc = "pick" /\ service = NoService /\ UNCHANGED <<setup, faults>>
    BY <1>0, <1>3 DEF PickMethod, IPShapes
  <2>2. try > 1 => Enabled \subseteq failed \cup {method}
    BY <1>0, <2>0, <2>1 DEF TriesCover
  <2>3. CASE method = "dns"
    <3>1. AskResolver
      BY <1>3, <2>3 DEF PickMethod
    <3>2. /\ pc' = "ask" /\ service'.method = "dns" /\ UNCHANGED <<current, try, got, failed, rings>>
      BY <3>1 DEF AskResolver, Ask
    <3>3. dnsCounter' \in 0..(CounterSize - 1)
      <4>1. dnsCounter \in Nat /\ CounterSize \in Nat \ {0}
        BY <1>0, PublicIPAssumption DEF IPShapes
      <4> QED
        BY <3>1, <4>1 DEF AskResolver
    <3>4. IPShapes'
      BY <1>0, <2>0, <2>1, <2>3, <3>2, <3>3 DEF IPShapes, rings, Families, Enabled, Methods, Ring, Urls, Version
    <3>5. RingOrder'
      BY <1>0, <2>1, <3>2, RingKept DEF rings
    <3>6. TriesCover' /\ FamilyFits'
      BY <1>0, <2>1, <2>2, <2>3, <3>2 DEF TriesCover, FamilyFits, MethodAt, Methods, Enabled
    <3> QED
      BY <3>4, <3>5, <3>6 DEF IPInv
  <2>4. CASE method # "dns"
    <3> DEFINE v == Version
               open == Ring(v) \ banned[v]
               u == NextUrl(v, open)
    <3>0. AskUrl /\ method = "http"
      <4>1. Enabled \subseteq {"dns", "http"}
        BY <1>0, SetupShape DEF IPShapes
      <4> QED
        BY <1>3, <2>0, <2>4, <4>1 DEF PickMethod
    <3>1. CASE open = {}
      <4>1. TryFailed("http") /\ UNCHANGED <<index, since, service, dnsCounter, banned>>
        BY <3>0, <3>1 DEF AskUrl
      <4>2. /\ IPTypes /\ FamilyFits' /\ failed' \subseteq Enabled
            /\ try' > 1 => pc' = "pick" /\ failed' = failed \cup {"http"}
        BY <1>0, <2>0, <2>1, <3>0, <4>1, TryFailedKeeps
      <4>3. IPShapes'
        BY <1>0, <2>0, <2>1, <4>1, <4>2, TryEnds DEF IPShapes
      <4>4. RingOrder'
        BY <1>0, <2>1, <4>1, RingKept
      <4>5. TriesCover'
        BY <2>0, <2>1, <3>0, <4>2 DEF TriesCover, IPTypes, MethodAt, Methods
      <4> QED
        BY <4>2, <4>3, <4>4, <4>5 DEF IPInv
    <3>2. CASE open # {}
      <4>1. /\ index' = [index EXCEPT ![v] = u] /\ UNCHANGED <<dnsCounter, banned, current, try, got, failed>>
            /\ since' = [since EXCEPT ![v] = [w \in Ring(v) |-> IF w = u THEN {} ELSE @[w] \cup {u}]]
            /\ service' = [method |-> "http", at |-> u] /\ pc' = "ask"
        BY <3>0, <3>2 DEF AskUrl, Ask
      <4>2. u \in open /\ \A x \in open : x # u => Between(u, x, index[v])
        BY <1>0, <1>a, <3>2, NextUrlIsNext
      <4>3. IPShapes'
        <5>1. u \in Ring(v) /\ Ring(v) \subseteq Nat
          BY <1>0, <1>a, <4>2, SetupShape DEF Ring, IPShapes
        <5>2. index' \in [Versions -> Nat] /\ \A w \in Versions : index'[w] \in Ring(w)
          BY <1>0, <1>a, <4>1, <5>1 DEF IPShapes
        <5>3. /\ UNCHANGED <<setup, current, faults, dnsCounter, banned, try, got, failed>>
              /\ pc' = "ask" /\ service'.method = "http" /\ service'.at = u /\ "http" \in Enabled
          BY <2>0, <2>1, <3>0, <4>1
        <5>4. Version' = v /\ Enabled' = Enabled /\ Families' = Families /\ \A w \in Versions : Ring(w)' = Ring(w)
          BY <5>3 DEF Version, Families, Enabled, Methods, Ring, Urls
        <5>5. Ring(Version)' = Ring(v)
          BY <5>3 DEF Version, Families, Ring, Urls
        <5> HIDE DEF v, u, open
        <5> QED
          BY <1>0, <2>0, <5>1, <5>2, <5>3, <5>4, <5>5 DEF IPShapes
      <4>4. RingOrder'
        <5>1. DOMAIN since' = Versions /\ \A y \in Versions : DOMAIN since'[y] = Ring(y)
          BY <1>0, <1>a, <4>1 DEF RingOrder
        <5>2. ASSUME NEW y \in Versions, NEW w \in Ring(y) \ banned[y], NEW x \in Ring(y) \ banned[y],
                     w # x, Between(w, x, index'[y])
              PROVE  x \in since'[y][w]
          <6>1. CASE y # v
            BY <1>0, <1>a, <4>1, <5>2, <6>1 DEF RingOrder, IPShapes
          <6>2. CASE y = v
            <7>1. /\ index[v] \in Nat /\ u \in Nat /\ w \in Nat /\ x \in Nat
                  /\ index'[v] = u
              BY <1>0, <1>a, <4>1, <4>2, <6>2, SetupShape DEF IPShapes, Ring
            <7>2. w # u
              BY <5>2, <6>2, <7>1 DEF Between
            <7>3. since'[v][w] = since[v][w] \cup {u}
              BY <1>0, <1>a, <4>1, <6>2, <7>2 DEF RingOrder
            <7>4. x # u => Between(w, x, index[v])
              BY <4>2, <5>2, <6>2, <7>1, <7>2 DEF Between
            <7> QED
              BY <1>0, <1>a, <5>2, <6>2, <7>3, <7>4 DEF RingOrder
          <6> QED
            BY <6>1, <6>2
        <5>3. banned' = banned /\ \A y \in Versions : Ring(y)' = Ring(y)
          BY <2>1, <4>1 DEF Ring, Urls
        <5>4. \A y \in Versions : DOMAIN since'[y] = Ring(y)'
          BY <5>1, <5>3
        <5>5. ASSUME NEW y \in Versions, NEW w \in Ring(y)' \ banned'[y], NEW x \in Ring(y)' \ banned'[y],
                     w # x, Between(w, x, index'[y])
              PROVE  x \in since'[y][w]
          <6>1. w \in Ring(y) \ banned[y] /\ x \in Ring(y) \ banned[y]
            BY <5>3, <5>5
          <6> QED
            BY <5>2, <5>5, <6>1
        <5> HIDE DEF v, u, open
        <5> QED
          BY <5>1, <5>4, <5>5, Zenon DEF RingOrder, Between
      <4>5. TriesCover' /\ FamilyFits'
        BY <1>0, <2>1, <2>2, <3>0, <4>1 DEF TriesCover, FamilyFits, MethodAt, Methods, Enabled
      <4> QED
        BY <4>3, <4>4, <4>5 DEF IPInv
    <3> QED
      BY <3>1, <3>2
  <2> QED
    BY <2>3, <2>4
<1>4. CASE Answered /\ UNCHANGED setup
  <2>1. PICK answer \in Answers :
          /\ faults' = faults \/ Fault
          /\ IF Address(answer) # NoAddress THEN Finish(Address(answer)) ELSE TryFailed(service.method)
    BY <1>4 DEF Answered
  <2>2. pc = "ask" /\ service' = NoService /\ service.method \in Enabled /\ UNCHANGED <<counter, dnsCounter, rings>>
    BY <1>0, <1>4 DEF Answered, IPShapes
  <2>3. /\ IPTypes /\ FamilyFits' /\ failed' \subseteq Enabled
        /\ try' > 1 => pc' = "pick" /\ failed' = failed \cup {service.method}
    <3>1. CASE Address(answer) # NoAddress
      BY <1>0, <1>a, <2>1, <3>1, AddressFits, FinishKeeps
    <3>2. CASE Address(answer) = NoAddress
      BY <1>0, <2>1, <2>2, <3>2, TryFailedKeeps
    <3> QED
      BY <3>1, <3>2
  <2>4. faults' \in 0..MaxFaults
    BY <1>0, <2>1, PublicIPAssumption DEF IPShapes, Fault
  <2>5. IPShapes'
    BY <1>0, <1>4, <2>2, <2>3, <2>4, TryEnds DEF IPShapes, rings
  <2>6. RingOrder'
    BY <1>0, <1>4, <2>2, RingKept DEF rings
  <2>7. TriesCover'
    BY <1>0, <1>4, <2>2, <2>3 DEF TriesCover, IPTypes, MethodAt, Methods
  <2> QED
    BY <2>3, <2>5, <2>6, <2>7 DEF IPInv
<1>5. CASE (NotAnswered \/ Banned) /\ UNCHANGED setup
  <2>1. /\ pc = "ask" /\ Fault /\ TryFailed(service.method) /\ service' = NoService
        /\ UNCHANGED <<counter, dnsCounter, index, since>>
        /\ banned' = banned \/ (service.method = "http" /\ banned' = [banned EXCEPT ![Version] = @ \cup {service.at}])
    BY <1>5 DEF NotAnswered, Banned, rings
  <2>2. service.method \in Enabled /\ (service.method = "http" => service.at \in Ring(Version))
    BY <1>0, <2>1 DEF IPShapes
  <2>3. /\ IPTypes /\ FamilyFits' /\ failed' \subseteq Enabled
        /\ try' > 1 => pc' = "pick" /\ failed' = failed \cup {service.method}
    BY <1>0, <2>1, <2>2, TryFailedKeeps
  <2>4. faults' \in 0..MaxFaults
    BY <1>0, <2>1, PublicIPAssumption DEF IPShapes, Fault
  <2>5. /\ banned' \in [Versions -> SUBSET Nat]
        /\ \A v \in Versions : banned[v] \subseteq banned'[v] /\ banned'[v] \subseteq Ring(v)
    <3>1. service.method = "http" => service.at \in Nat
      BY <1>0, <1>a, <2>2, SetupShape DEF Ring, IPShapes
    <3> QED
      BY <1>0, <1>a, <2>1, <2>2, <3>1 DEF IPShapes
  <2>6. IPShapes'
    BY <1>0, <1>5, <2>1, <2>3, <2>4, <2>5, TryEnds DEF IPShapes
  <2>7. RingOrder'
    BY <1>0, <1>5, <2>1, <2>5, RingKept
  <2>8. TriesCover'
    BY <1>0, <1>5, <2>1, <2>3 DEF TriesCover, IPTypes, MethodAt, Methods
  <2> QED
    BY <2>3, <2>6, <2>7, <2>8 DEF IPInv
<1> QED
  BY <1>1, <1>2, <1>3, <1>4, <1>5 DEF Next

-----------------------------------------------------------------------------
(* What holds of the fetches.                                                *)

LEMMA IPAlways == Spec => []IPInv
<1>1. Init => IPInv
  BY IPInitially
<1>2. IPInv /\ [Next]_vars => IPInv'
  BY IPKept
<1> QED
  BY <1>1, <1>2, PTL DEF Spec

(* The state of the fetches keeps its types, whatever the services answer.      *)
THEOREM PublicIPTypes == Spec => []TypeOK
<1>1. IPInv => TypeOK
  <2> SUFFICES ASSUME IPInv PROVE TypeOK
    OBVIOUS
  <2>1. setup \in Setups /\ Enabled \subseteq {"dns", "http"}
    BY SetupShape DEF IPInv, IPShapes
  <2>2. (service = NoService) = (pc # "ask")
    <3>1. NoService.method = "none"
      BY DEF NoService
    <3> QED
      BY <2>1, <3>1 DEF IPInv, IPShapes
  <2> QED
    BY <2>1, <2>2 DEF IPInv, IPShapes, TypeOK
<1> QED
  BY <1>1, IPAlways, PTL

(* An address is of the family it was asked for: whichever of the services      *)
(* answer, with whichever addresses, tryAndRepeatGettingIP keeps only one of     *)
(* the version of its call.                                                  *)
THEOREM FamilyAlwaysFits == Spec => []FamilyFits
<1>1. IPInv => FamilyFits
  BY DEF IPInv
<1> QED
  BY <1>1, IPAlways, PTL

LEMMA NextInTurn == IPInv /\ [Next]_vars => InTurn
<1> SUFFICES ASSUME IPInv, [Next]_vars, service'.method = "http", service = NoService
             PROVE  (Ring(Version) \ banned[Version]) \ {service'.at} \subseteq since[Version][service'.at]
  BY DEF InTurn
<1> DEFINE v == Version
           open == Ring(v) \ banned[v]
           u == NextUrl(v, open)
<1>0. IPShapes /\ RingOrder /\ v \in Versions
  BY VersionIsOne DEF IPInv, IPShapes
<1>1. NoService.method = "none"
  BY DEF NoService
<1>2. PickMethod
  <2>1. ~ (UNCHANGED service) /\ service' # NoService
    BY <1>1
  <2> QED
    BY <2>1 DEF Next, vars, StartCycle, Answered, NotAnswered, Banned
<1>3. AskUrl
  <2>1. MethodAt(counter') = "dns" => service'.method = "dns"
    BY <1>2 DEF PickMethod, AskResolver, Ask
  <2> QED
    BY <1>2, <2>1 DEF PickMethod
<1>4. open # {}
  <2>1. service'.method # service.method
    BY <1>1
  <2> QED
    BY <1>3, <2>1 DEF AskUrl
<1>5. service'.at = u
  BY <1>3, <1>4 DEF AskUrl, Ask
<1>6. u \in open /\ \A x \in open : x # u => Between(u, x, index[v])
  BY <1>0, <1>4, NextUrlIsNext
<1>7. \A x \in open \ {u} : x \in since[v][u]
  BY <1>0, <1>6 DEF RingOrder
<1> QED
  BY <1>5, <1>7

(* The ring of pkg/publicip/http asks no URL again before every other one that   *)
(* has not banned the program: for any number of URLs, and whichever of them     *)
(* ban it at any moment.                                                     *)
THEOREM UrlsInTurn == Spec => RoundRobin
<1>1. IPInv /\ [Next]_vars => InTurn
  BY NextInTurn
<1>2. [Next]_vars /\ IPInv => [InTurn]_vars
  BY <1>1
<1> QED
  BY <1>2, IPAlways, PTL DEF Spec, RoundRobin

LEMMA LastTryFailed ==
  ASSUME IPInv, NEW method, TryFailed(method), FetchEnds,
         try > 1 => Enabled \subseteq failed \cup {method}
  PROVE  Enabled \subseteq failed \cup {method}
<1>1. CASE try = Tries
  BY <1>1 DEF Tries
<1>2. CASE try # Tries
  BY <1>2 DEF TryFailed, FetchEnds
<1> QED
  BY <1>1, <1>2

LEMMA NextAllFailed == IPInv /\ [Next]_vars => AllFailed
<1> SUFFICES ASSUME IPInv, [Next]_vars, FetchEnds, got'[Version] = NoAddress
             PROVE  Enabled \subseteq failed \cup {IF service = NoService THEN MethodAt(counter') ELSE service.method}
  BY DEF AllFailed
<1>0. IPShapes /\ TriesCover /\ Version \in Versions
  BY VersionIsOne DEF IPInv, IPShapes
<1>1. pc # "idle" /\ (current' # current \/ pc' = "idle")
  BY DEF FetchEnds
<1>2. CASE PickMethod
  <2> DEFINE method == MethodAt(counter')
  <2>1. pc = "pick" /\ service = NoService
    BY <1>0, <1>2 DEF PickMethod, IPShapes
  <2>2. try > 1 => Enabled \subseteq failed \cup {method}
    BY <1>0, <1>2, <2>1, MethodsAlternate DEF TriesCover, PickMethod
  <2>3. TryFailed("http") /\ method = "http"
    <3>1. method \in {"dns", "http"}
      BY <1>0, <1>2, MethodsAlternate, SetupShape DEF PickMethod, IPShapes
    <3> QED
      BY <1>1, <1>2, <3>1 DEF PickMethod, AskResolver, AskUrl, Ask
  <2> QED
    BY <2>1, <2>2, <2>3, LastTryFailed
<1>3. CASE Answered \/ NotAnswered \/ Banned
  <2>1. pc = "ask" /\ service # NoService /\ service.method \in {"dns", "http"}
    <3>1. pc = "ask"
      BY <1>3 DEF Answered, NotAnswered, Banned
    <3>2. service.method \in {"dns", "http"}
      BY <1>0, <3>1, SetupShape DEF IPShapes
    <3> QED
      BY <3>1, <3>2 DEF NoService
  <2>2. TryFailed(service.method)
    <3>1. CASE NotAnswered \/ Banned
      BY <3>1 DEF NotAnswered, Banned
    <3>2. CASE Answered
      <4>1. PICK answer \in Answers :
              IF Address(answer) # NoAddress THEN Finish(Address(answer)) ELSE TryFailed(service.method)
        BY <3>2 DEF Answered
      <4>2. Finish(Address(answer)) => got'[Version] = Address(answer)
        BY <1>0 DEF Finish, IPShapes
      <4> QED
        BY <4>1, <4>2
    <3> QED
      BY <1>3, <3>1, <3>2
  <2>3. try > 1 => Enabled \subseteq failed \cup {service.method}
    BY <1>0, <2>1 DEF TriesCover
  <2> QED
    BY <2>1, <2>2, <2>3, LastTryFailed
<1>4. CASE StartCycle \/ UNCHANGED vars
  BY <1>1, <1>4 DEF StartCycle, vars
<1> QED
  BY <1>2, <1>3, <1>4 DEF Next

(* A family is given up only when each enabled method failed for it: the tries  *)
(* alternate between them, even where the counter wraps.                       *)
THEOREM OutageOfOneIsNone == Spec => FailureNeedsAllMethods
<1>1. IPInv /\ [Next]_vars => AllFailed
  BY NextAllFailed
<1>2. [Next]_vars /\ IPInv => [AllFailed]_vars
  BY <1>1
<1> QED
  BY <1>2, IPAlways, PTL DEF Spec, FailureNeedsAllMethods

-----------------------------------------------------------------------------
(* The backups. Their types, with what the file of the history holds:          *)

BackupShapes ==
  /\ run \in {"notStarted", "select", "config", "updates", "sending", "returned"}
  /\ main \in {"starting", "interrupted", "running", "stopping", "stopped", "panicked"}
  /\ stopCh \in BOOLEAN /\ ctx \in BOOLEAN /\ writing \in BOOLEAN
  /\ config \in 1..MaxWrites /\ version \in 1..MaxWrites
  /\ updates = IF writing THEN <<>> ELSE <<version, version>>
  /\ zip \in [config : 0..MaxWrites, updates : Seq(Nat), broken : BOOLEAN] /\ Len(zip.updates) \in 0..2
  /\ begun \in [config : Nat, updates : Nat, calm : BOOLEAN]

(* The backup so far: its configuration was on disk since it was begun, the     *)
(* blocks of its history are from then or later and in their order, and unless  *)
(* the history was written since, they are a beginning of the one on disk.     *)
BackupSoFar ==
  /\ InOrder(zip.updates, begun.updates, version)
  /\ begun.config <= config /\ begun.updates <= version
  /\ run = "notStarted" => zip.config = 0
  /\ run = "sending" => zip.config = 0
  /\ run = "config" => zip.config = 0 /\ zip.updates = <<>>
  /\ run = "updates" => zip.config # 0
  /\ zip.config # 0 => zip.config \in begun.config..config
  /\ begun.calm /\ version = begun.updates =>
       /\ ~writing
       /\ run = "updates" => zip.updates \in {<<>>, <<version>>, <<version, version>>}
       /\ Done => zip.updates = <<version, version>>

GoneWhenStopped == main = "stopped" => run = "returned"

BackupInv == BackupShapes /\ BackupSoFar /\ GoneWhenStopped

LEMMA BackupInitially == BackupInit => BackupInv
<1> SUFFICES ASSUME BackupInit PROVE BackupInv
  OBVIOUS
<1>1. zip.config = 0 /\ zip.updates = <<>> /\ begun.config = 0 /\ begun.updates = 0
  BY DEF BackupInit
<1>2. zip \in [config : 0..MaxWrites, updates : Seq(Nat), broken : BOOLEAN] /\ Len(zip.updates) = 0
  BY BackupAssumption DEF BackupInit
<1>3. begun \in [config : Nat, updates : Nat, calm : BOOLEAN]
  BY DEF BackupInit
<1>4. BackupShapes
  <2>1. stopCh \in BOOLEAN /\ ctx \in BOOLEAN /\ writing \in BOOLEAN
    BY Zenon DEF BackupInit
  <2>2. updates = IF writing THEN <<>> ELSE <<version, version>>
    BY DEF BackupInit
  <2>3. config \in 1..MaxWrites /\ version \in 1..MaxWrites
    BY BackupAssumption DEF BackupInit
  <2> QED
    BY <1>2, <1>3, <2>1, <2>2, <2>3 DEF BackupInit, BackupShapes
<1>5. BackupSoFar
  <2>1. InOrder(zip.updates, begun.updates, version)
    BY <1>1 DEF InOrder
  <2> QED
    BY <1>1, <1>4, <2>1 DEF BackupInit, BackupShapes, BackupSoFar, Done
<1> QED
  BY <1>4, <1>5 DEF BackupInit, BackupInv, GoneWhenStopped

LEMMA AppendOne ==
  ASSUME NEW x PROVE Append(<<x>>, x) = <<x, x>>
<1> DEFINE S == {x}
           s == Append(<<x>>, x)
           t == <<x, x>>
<1>1. <<x>> \in Seq(S) /\ t \in Seq(S) /\ x \in S
  OBVIOUS
<1>2. s \in Seq(S) /\ Len(s) = 2 /\ s[1] = x /\ s[2] = x
  BY <1>1
<1>3. Len(t) = 2 /\ t[1] = x /\ t[2] = x
  OBVIOUS
<1> HIDE DEF s, t, S
<1>4. \A i \in 1..Len(s) : s[i] = t[i]
  BY <1>2, <1>3
<1>5. s = t
  BY <1>1, <1>2, <1>3, <1>4, SeqEqual
<1> QED
  BY <1>5 DEF s, t

(* The steps that leave the files and the backup alone.                        *)
OfTheService == Starting \/ Stopping \/ Signal \/ StopSeen \/ RunError

LEMMA ServiceSteps ==
  ASSUME BackupShapes, OfTheService
  PROVE  /\ UNCHANGED <<config, version, updates, writing, zip, begun>>
         /\ run' \in {"select", "returned", run} /\ (run' # run => run \in {"notStarted", "select", "sending"})
         /\ main' \in {"interrupted", "running", "stopping", "stopped", "panicked", main}
         /\ stopCh' \in BOOLEAN /\ ctx' \in BOOLEAN
<1>1. CASE Start \/ RunError \/ StopSeen
  BY <1>1 DEF BackupShapes, files, backup, Start, RunError, StopSeen, Launched
<1>2. CASE Ready \/ Interrupted \/ InterruptedReturns
  BY <1>2 DEF BackupShapes, files, backup, Ready, Interrupted, InterruptedReturns
<1>3. CASE Stop \/ Stopped \/ Signal
  BY <1>3 DEF BackupShapes, files, backup, Stop, Stopped, Signal
<1> QED
  BY <1>1, <1>2, <1>3 DEF OfTheService, Starting, Stopping

(* The steps of the goroutine that write a backup.                             *)
LEMMA BackupSteps ==
  ASSUME BackupShapes, TimerFires \/ AddConfig \/ AddUpdates \/ ZipFails \/ CloseFails
  PROVE  /\ UNCHANGED <<config, version, updates, writing, stopCh, main, ctx>>
         /\ \/ /\ run = "select" /\ run' = "config" /\ zip'.config = 0 /\ zip'.updates = <<>>
               /\ begun'.config = config /\ begun'.updates = version /\ (begun'.calm => ~writing)
            \/ /\ run = "config" /\ run' = "updates" /\ UNCHANGED begun
               /\ zip'.config = config /\ zip'.updates = zip.updates
            \/ /\ run = "updates" /\ UNCHANGED <<run, begun>> /\ zip'.config = zip.config
               /\ Len(zip.updates) < Len(updates)
               /\ zip'.updates = Append(zip.updates, updates[Len(zip.updates) + 1])
            \/ /\ run = "updates" /\ run' = "select" /\ UNCHANGED begun /\ Len(zip.updates) >= Len(updates)
               /\ zip'.config = zip.config /\ zip'.updates = zip.updates
            \/ /\ run \in {"config", "updates"} /\ run' = "sending" /\ UNCHANGED begun
               /\ zip'.config = 0 /\ zip'.updates = zip.updates
         /\ begun' \in [config : Nat, updates : Nat, calm : BOOLEAN]
         /\ zip' = [config |-> zip'.config, updates |-> zip'.updates, broken |-> zip'.broken]
         /\ zip'.broken \in BOOLEAN
<1>1. CASE TimerFires
  <2>1. /\ zip' = [config |-> 0, updates |-> <<>>, broken |-> FALSE] /\ begun' = [config |-> config, updates |-> version, calm |-> ~writing]
        /\ run = "select" /\ run' = "config" /\ UNCHANGED <<config, version, updates, writing, stopCh, main, ctx>>
    BY <1>1 DEF TimerFires, files
  <2>2. config \in Nat /\ version \in Nat /\ (~ writing) \in BOOLEAN
    <3>1. config \in Nat /\ version \in Nat
      BY BackupAssumption DEF BackupShapes
    <3>2. (~ writing) \in BOOLEAN
      BY Zenon DEF BackupShapes
    <3> QED
      BY <3>1, <3>2
  <2> QED
    BY <2>1, <2>2
<1>2. CASE AddConfig
  <2>1. /\ zip' = [zip EXCEPT !.config = config] /\ UNCHANGED begun
        /\ run = "config" /\ run' = "updates" /\ UNCHANGED <<config, version, updates, writing, stopCh, main, ctx>>
    BY <1>2 DEF AddConfig, files
  <2> QED
    BY <2>1 DEF BackupShapes
<1>3. CASE AddUpdates
  <2> DEFINE next == Len(zip.updates) + 1
  <2>1. UNCHANGED <<config, version, updates, writing, stopCh, main, ctx, begun>> /\ run = "updates"
    BY <1>3 DEF AddUpdates, files
  <2>2. Len(updates) \in Nat /\ Len(zip.updates) \in Nat
    BY DEF BackupShapes
  <2>3. \/ next <= Len(updates) /\ zip' = [zip EXCEPT !.updates = Append(@, updates[next])] /\ UNCHANGED run
        \/ next > Len(updates) /\ run' = "select" /\ UNCHANGED zip
    BY <1>3 DEF AddUpdates
  <2> QED
    BY <2>1, <2>2, <2>3 DEF BackupShapes
<1>4. CASE ZipFails
  <2>1. /\ zip' = [zip EXCEPT !.config = 0] /\ UNCHANGED begun /\ run \in {"config", "updates"} /\ run' = "sending"
        /\ UNCHANGED <<config, version, updates, writing, stopCh, main, ctx>>
    BY <1>4 DEF ZipFails, files
  <2> QED
    BY <2>1 DEF BackupShapes
<1>5. CASE CloseFails
  <2>1. /\ zip' = [zip EXCEPT !.broken = TRUE] /\ UNCHANGED begun /\ run = "updates" /\ run' = "select"
        /\ Len(zip.updates) >= Len(updates) /\ UNCHANGED <<config, version, updates, writing, stopCh, main, ctx>>
    BY <1>5 DEF CloseFails, files
  <2> QED
    BY <2>1 DEF BackupShapes
<1> QED
  BY <1>1, <1>2, <1>3, <1>4, <1>5

(* The steps of the writers of the two files.                                  *)
LEMMA WriterSteps ==
  ASSUME BackupShapes, Writing
  PROVE  /\ UNCHANGED <<run, main, stopCh, ctx, zip, begun>>
         /\ \/ config' = config + 1 /\ config < MaxWrites /\ UNCHANGED <<version, updates, writing>>
            \/ version' = version + 1 /\ version < MaxWrites /\ UNCHANGED config /\ updates' = <<>> /\ writing'
            \/ UNCHANGED <<config, version>> /\ updates' = <<version, version>> /\ ~writing' /\ writing
         /\ writing' \in BOOLEAN
BY DEF BackupShapes, Writing, ReplaceConfig, TruncateUpdates, WriteUpdates, backup

LEMMA ShapesKept == BackupInv /\ [BackupNext]_backupVars => BackupShapes'
<1> SUFFICES ASSUME BackupInv, [BackupNext]_backupVars PROVE BackupShapes'
  OBVIOUS
<1>0. BackupShapes /\ MaxWrites \in Nat
  BY BackupAssumption DEF BackupInv
<1>1. CASE UNCHANGED backupVars
  BY <1>0, <1>1 DEF BackupShapes, backupVars
<1>2. CASE OfTheService
  BY <1>0, <1>2, ServiceSteps DEF BackupShapes
<1>3. CASE TimerFires \/ AddConfig \/ AddUpdates \/ ZipFails \/ CloseFails
  <2>1. run' \in {"config", "updates", "select", "sending"}
    BY <1>0, <1>3, BackupSteps DEF BackupShapes
  <2>2. zip'.config \in 0..MaxWrites
    BY <1>0, <1>3, BackupSteps DEF BackupShapes
  <2>3. zip'.updates \in Seq(Nat) /\ Len(zip'.updates) \in 0..2
    <3>0. zip.updates \in Seq(Nat) /\ Len(zip.updates) \in 0..2
      BY <1>0 DEF BackupShapes
    <3>1. CASE zip'.updates = zip.updates
      BY <3>0, <3>1
    <3>3. CASE zip'.updates = <<>>
      BY <3>3
    <3>2. CASE Len(zip.updates) < Len(updates) /\ zip'.updates = Append(zip.updates, updates[Len(zip.updates) + 1])
      <4>1. updates = <<version, version>> /\ version \in Nat /\ Len(zip.updates) + 1 \in 1..2
        BY <1>0, <3>2 DEF BackupShapes
      <4>2. updates[Len(zip.updates) + 1] \in Nat
        BY <4>1
      <4> QED
        BY <1>0, <3>2, <4>1, <4>2 DEF BackupShapes
    <3> QED
      BY <1>0, <1>3, <3>1, <3>2, <3>3, BackupSteps
  <2>4. zip' \in [config : 0..MaxWrites, updates : Seq(Nat), broken : BOOLEAN]
    <3>1. /\ zip' = [config |-> zip'.config, updates |-> zip'.updates, broken |-> zip'.broken]
          /\ zip'.broken \in BOOLEAN
      BY <1>0, <1>3, BackupSteps
    <3> QED
      BY <2>2, <2>3, <3>1
  <2>5. /\ UNCHANGED <<config, version, updates, writing, stopCh, main, ctx>>
        /\ begun' \in [config : Nat, updates : Nat, calm : BOOLEAN]
    BY <1>0, <1>3, BackupSteps
  <2> QED
    BY <1>0, <2>1, <2>3, <2>4, <2>5 DEF BackupShapes
<1>4. CASE Writing
  BY <1>0, <1>4, WriterSteps DEF BackupShapes
<1> QED
  BY <1>1, <1>2, <1>3, <1>4 DEF BackupNext, Running, OfTheService

(* A block of the history of now comes after all that were read before.        *)
LEMMA InOrderGrows ==
  ASSUME NEW blocks \in Seq(Nat), NEW from \in Nat, NEW to \in Nat, from <= to, InOrder(blocks, from, to)
  PROVE  InOrder(Append(blocks, to), from, to) /\ (\A more \in Nat : to <= more => InOrder(blocks, from, more))
<1> DEFINE now == Append(blocks, to)
           n == Len(blocks)
<1>1. /\ n \in Nat /\ DOMAIN blocks = 1..n /\ DOMAIN now = 1..(n + 1) /\ now[n + 1] = to
      /\ \A i \in 1..n : now[i] = blocks[i] /\ blocks[i] \in Nat
  OBVIOUS
<1>2. \A i, j \in 1..n : blocks[i] \in from..to /\ (i <= j => blocks[i] <= blocks[j])
  BY <1>1 DEF InOrder
<1> HIDE DEF now, n
<1>3. ASSUME NEW i \in 1..(n + 1), NEW j \in 1..(n + 1)
      PROVE  now[i] \in from..to /\ (i <= j => now[i] <= now[j])
  <2>1. i \in 1..n \/ i = n + 1
    BY <1>1
  <2>2. j \in 1..n \/ j = n + 1
    BY <1>1
  <2>3. now[i] \in from..to
    BY <1>1, <1>2, <2>1
  <2>4. CASE j = n + 1
    BY <1>1, <2>3, <2>4
  <2>5. CASE j \in 1..n
    BY <1>1, <1>2, <2>1, <2>3, <2>5
  <2> QED
    BY <2>2, <2>3, <2>4, <2>5
<1>4. InOrder(now, from, to)
  BY <1>1, <1>3 DEF InOrder
<1>5. ASSUME NEW more \in Nat, to <= more PROVE InOrder(blocks, from, more)
  BY <1>1, <1>2, <1>5 DEF InOrder
<1> QED
  BY <1>4, <1>5 DEF now

LEMMA SoFarKept == BackupInv /\ [BackupNext]_backupVars => BackupSoFar'
<1> SUFFICES ASSUME BackupInv, [BackupNext]_backupVars PROVE BackupSoFar'
  OBVIOUS
<1>0. /\ BackupShapes /\ BackupSoFar /\ MaxWrites \in Nat
      /\ config \in 1..MaxWrites /\ version \in Nat /\ begun.config \in Nat /\ begun.updates \in Nat /\ zip.config \in Nat
  BY BackupAssumption DEF BackupInv, BackupShapes
<1>1. CASE UNCHANGED backupVars
  BY <1>0, <1>1 DEF BackupSoFar, Done, backupVars
<1>2. CASE OfTheService
  <2>1. /\ UNCHANGED <<config, version, updates, writing, zip, begun>>
        /\ run' = run \/ (run' \in {"select", "returned"} /\ run \in {"notStarted", "select", "sending"})
    BY <1>0, <1>2, ServiceSteps
  <2>2. run' # run /\ run' = "select" => zip.config = 0
    BY <1>0, <2>1 DEF BackupSoFar
  <2> QED
    BY <1>0, <2>1, <2>2 DEF BackupSoFar, Done
<1>3. CASE TimerFires \/ AddConfig \/ AddUpdates \/ ZipFails \/ CloseFails
  <2>0. UNCHANGED <<config, version, updates, writing>>
    BY <1>0, <1>3, BackupSteps
  <2>1. CASE /\ run = "select" /\ run' = "config" /\ zip'.config = 0 /\ zip'.updates = <<>>
             /\ begun'.config = config /\ begun'.updates = version /\ (begun'.calm => ~writing)
    <3>1. InOrder(zip'.updates, begun'.updates, version')
      BY <2>1 DEF InOrder
    <3> QED
      BY <1>0, <2>0, <2>1, <3>1 DEF BackupSoFar, Done
  <2>2. CASE /\ run = "config" /\ run' = "updates" /\ UNCHANGED begun
             /\ zip'.config = config /\ zip'.updates = zip.updates
    BY <1>0, <2>0, <2>2 DEF BackupSoFar, Done
  <2>3. CASE /\ run = "updates" /\ UNCHANGED <<run, begun>> /\ zip'.config = zip.config
             /\ Len(zip.updates) < Len(updates)
             /\ zip'.updates = Append(zip.updates, updates[Len(zip.updates) + 1])
    <3>1. updates = <<version, version>>
      BY <1>0, <2>3 DEF BackupShapes
    <3>2. ASSUME zip.updates \in {<<>>, <<version>>, <<version, version>>}
          PROVE  zip'.updates \in {<<>>, <<version>>, <<version, version>>}
      <4>1. CASE zip.updates = <<>>
        BY <2>3, <3>1, <4>1
      <4>2. CASE zip.updates = <<version>>
        <5>1. Len(zip.updates) = 1
          BY <4>2
        <5>2. updates[2] = version
          BY <3>1
        <5>3. zip'.updates = Append(<<version>>, version)
          BY <2>3, <4>2, <5>1, <5>2
        <5>4. Append(<<version>>, version) = <<version, version>>
          BY AppendOne
        <5> QED
          BY <5>3, <5>4
      <4>3. CASE zip.updates = <<version, version>>
        BY <2>3, <3>1, <4>3
      <4> QED
        BY <3>2, <4>1, <4>2, <4>3
    <3>3. InOrder(zip'.updates, begun'.updates, version')
      <4>0. Len(zip.updates) \in 0..2 /\ zip.updates \in Seq(Nat) /\ Len(<<version, version>>) = 2
        BY <1>0 DEF BackupShapes
      <4>1. Len(zip.updates) \in 0..1 /\ zip.updates \in Seq(Nat)
        BY <2>3, <3>1, <4>0
      <4>2. updates[Len(zip.updates) + 1] = version
        <5>1. updates[1] = version /\ updates[2] = version
          BY <3>1
        <5>2. \A n \in 0..1 : n + 1 = 1 \/ n + 1 = 2
          OBVIOUS
        <5>3. \A n \in 0..1 : updates[n + 1] = version
          BY <5>1, <5>2
        <5> QED
          BY <4>1, <5>3
      <4>3. begun.updates <= version /\ InOrder(zip.updates, begun.updates, version)
        BY <1>0 DEF BackupSoFar
      <4>4. InOrder(Append(zip.updates, version), begun.updates, version)
        BY <1>0, <4>1, <4>3, InOrderGrows
      <4> QED
        BY <2>0, <2>3, <4>2, <4>4
    <3> QED
      BY <1>0, <2>0, <2>3, <3>2, <3>3 DEF BackupSoFar, Done
  <2>4. CASE /\ run = "updates" /\ run' = "select" /\ UNCHANGED begun /\ Len(zip.updates) >= Len(updates)
             /\ zip'.config = zip.config /\ zip'.updates = zip.updates
    <3>1. ASSUME begun.calm, version = begun.updates PROVE zip.updates = <<version, version>>
      <4>1. updates = <<version, version>> /\ zip.updates \in {<<>>, <<version>>, <<version, version>>}
        BY <1>0, <2>4, <3>1 DEF BackupShapes, BackupSoFar
      <4>2. zip.updates # <<>> /\ zip.updates # <<version>>
        BY <2>4, <4>1
      <4> QED
        BY <4>1, <4>2
    <3> QED
      BY <1>0, <2>0, <2>4, <3>1 DEF BackupSoFar, Done
  <2>5. CASE /\ run \in {"config", "updates"} /\ run' = "sending" /\ UNCHANGED begun
             /\ zip'.config = 0 /\ zip'.updates = zip.updates
    BY <1>0, <2>0, <2>5 DEF BackupSoFar, Done
  <2> QED
    BY <1>0, <1>3, <2>1, <2>2, <2>3, <2>4, <2>5, BackupSteps
<1>4. CASE Writing
  <2>1. CASE config' = config + 1 /\ UNCHANGED <<run, zip, begun, version, updates, writing>>
    BY <1>0, <2>1 DEF BackupSoFar, Done
  <2>2. CASE version' = version + 1 /\ UNCHANGED <<run, zip, begun, config>>
    <3>1. zip.updates \in Seq(Nat) /\ begun.updates <= version /\ InOrder(zip.updates, begun.updates, version)
      BY <1>0 DEF BackupShapes, BackupSoFar
    <3>2. InOrder(zip.updates, begun.updates, version')
      BY <1>0, <2>2, <3>1, InOrderGrows
    <3> QED
      BY <1>0, <2>2, <3>2 DEF BackupSoFar, Done
  <2>3. CASE UNCHANGED <<run, zip, begun, config, version>> /\ ~writing' /\ writing
    BY <1>0, <2>3 DEF BackupSoFar, Done
  <2> QED
    BY <1>0, <1>4, <2>1, <2>2, <2>3, WriterSteps
<1> QED
  BY <1>1, <1>2, <1>3, <1>4 DEF BackupNext, Running, OfTheService

LEMMA GoneKept == BackupInv /\ [BackupNext]_backupVars => GoneWhenStopped' /\ ZipUntouched
<1> SUFFICES ASSUME BackupInv, [BackupNext]_backupVars PROVE GoneWhenStopped' /\ ZipUntouched
  OBVIOUS
<1>0. GoneWhenStopped
  BY DEF BackupInv
<1>1. CASE UNCHANGED backupVars \/ Starting \/ Stopping \/ Signal \/ StopSeen \/ RunError \/ Writing
  BY <1>0, <1>1 DEF GoneWhenStopped, ZipUntouched, backupVars, files, backup, Starting, Start, Ready, Interrupted,
     InterruptedReturns, Stopping, Stop, Stopped, Signal, StopSeen, RunError, Writing, ReplaceConfig, TruncateUpdates,
     WriteUpdates
<1>2. CASE AddConfig \/ AddUpdates \/ TimerFires \/ ZipFails \/ CloseFails
  <2>1. run # "returned" /\ UNCHANGED main
    BY <1>2 DEF AddConfig, AddUpdates, TimerFires, ZipFails, CloseFails
  <2> QED
    BY <1>0, <2>1 DEF GoneWhenStopped, ZipUntouched
<1> QED
  BY <1>1, <1>2 DEF BackupNext, Running

LEMMA BackupAlways == BackupSpec => []BackupInv
<1>1. BackupInit => BackupInv
  BY BackupInitially
<1>2. BackupInv /\ [BackupNext]_backupVars => BackupInv'
  BY ShapesKept, SoFarKept, GoneKept DEF BackupInv
<1> QED
  BY <1>1, <1>2, PTL DEF BackupSpec

(* Types of the backup goroutine, its channels and the files it copies.          *)
THEOREM BackupTypes == BackupSpec => []BackupTypeOK
<1>1. BackupInv => BackupTypeOK
  BY BackupAssumption DEF BackupInv, BackupShapes, BackupTypeOK
<1> QED
  BY <1>1, BackupAlways, PTL

(* What a backup that counts as done holds, while both files are written any     *)
(* number of times, zips fail and the service is stopped and started anew: unless *)
(* Close failed, a configuration and a history none of which is older than the    *)
(* beginning of the backup, and the whole of a history that was left alone.       *)
THEOREM BackupAlwaysInTime == BackupSpec => []BackupInTime
<1>1. BackupInv => BackupInTime
  BY DEF BackupInv, BackupSoFar, BackupInTime, Done
<1> QED
  BY <1>1, BackupAlways, PTL

(* Stop waits for the goroutine of Service.run: once it has returned no backup  *)
(* is begun or written, whatever was going on when it was called.              *)
THEOREM NoBackupAfterStop == BackupSpec => NothingAfterStop
<1>1. BackupInv /\ [BackupNext]_backupVars => ZipUntouched
  BY GoneKept
<1>2. [BackupNext]_backupVars /\ BackupInv => [ZipUntouched]_backupVars
  BY <1>1
<1> QED
  BY <1>2, BackupAlways, PTL DEF BackupSpec, NothingAfterStop

-----------------------------------------------------------------------------
(* Settings. The names a list is left with are some of those it had.          *)
LEMMA WithoutDefunctKeeps ==
  ASSUME NEW S, NEW list \in Seq(S)
  PROVE  WithoutDefunct(list) \in Seq(S)
<1> DEFINE parts == [i \in DOMAIN list |-> IF list[i] \in {"opendns", "google"} THEN <<>> ELSE <<list[i]>>]
<1>1. DOMAIN list = 1..Len(list) /\ Len(list) \in Nat
  BY LenProperties
<1>2. parts \in Seq(Seq(S))
  <2>1. \A i \in DOMAIN list : list[i] \in S
    BY <1>1, ElementOfSeq
  <2>2. parts \in [1..Len(list) -> Seq(S)]
    BY <1>1, <2>1
  <2> HIDE DEF parts
  <2> QED
    BY <1>1, <2>2, IsASeq
<1>3. FlattenSeq(parts) \in Seq(S)
  BY <1>2, FlattenSeqElements
<1> QED
  BY <1>3 DEF WithoutDefunct

(* google is named once: the last name takes its place, and no name is looked   *)
(* at beyond the end of the list.                                            *)
LEMMA WithoutGoogleOnce ==
  ASSUME NEW S, NEW list \in Seq(S),
         \A i, j \in DOMAIN list : list[i] = "google" /\ list[j] = "google" => i = j
  PROVE  ~WithoutGoogle(list).panic
<1> DEFINE n == Len(list)
           start == [names |-> list, length |-> n, panic |-> FALSE]
           At == {k \in 1..n : list[k] = "google"}
           Moved(k) == [names |-> [list EXCEPT ![k] = list[n]], length |-> n - 1, panic |-> FALSE]
           Now(i) == IF \E k \in At : k <= i THEN Moved(CHOOSE k \in At : TRUE) ELSE start
           IsLooked(f) == f = [i \in 0..n |-> IF i = 0 THEN start ELSE LookAt(f[i - 1], i)]
<1>1. n \in Nat /\ DOMAIN list = 1..n
  BY LenProperties
<1> HIDE DEF n
<1>2. ASSUME NEW k \in At, NEW l \in At PROVE k = l
  BY <1>1
<1>3. ASSUME NEW i \in 1..n PROVE LookAt(Now(i - 1), i) = Now(i)
  <2>1. CASE At = {}
    <3>1. Now(i - 1) = start /\ Now(i) = start /\ start.names[i] # "google"
      BY <2>1
    <3> HIDE DEF start
    <3> QED
      BY <3>1 DEF LookAt
  <2>2. ASSUME NEW k \in At PROVE LookAt(Now(i - 1), i) = Now(i)
    <3>1. /\ k \in 1..n /\ list[k] = "google" /\ (CHOOSE l \in At : TRUE) = k
          /\ \A j \in Int : (\E l \in At : l <= j) <=> k <= j
      BY <1>2
    <3> HIDE DEF At, Moved, start
    <3>2. Now(i) = (IF k <= i THEN Moved(k) ELSE start) /\ Now(i - 1) = (IF k <= i - 1 THEN Moved(k) ELSE start)
      <4>1. i \in Int /\ i - 1 \in Int
        BY <1>1
      <4> QED
        BY <3>1, <4>1
    <3> USE DEF At, Moved, start
    <3> HIDE DEF Now
    <3>3. CASE i < k
      <4>1. Now(i) = start /\ Now(i - 1) = start
        BY <1>1, <3>1, <3>2, <3>3
      <4>2. start.names[i] # "google"
        BY <1>1, <1>2, <3>1, <3>3
      <4> HIDE DEF start
      <4> QED
        BY <4>1, <4>2 DEF LookAt
    <3>4. CASE i = k
      <4>1. Now(i) = Moved(k) /\ Now(i - 1) = start
        BY <1>1, <3>1, <3>2, <3>4
      <4>2. LookAt(start, k) = Moved(k)
        BY <1>1, <3>1 DEF LookAt
      <4> QED
        BY <3>4, <4>1, <4>2
    <3>5. CASE i > k
      <4>1. Now(i) = Moved(k) /\ Now(i - 1) = Moved(k)
        BY <1>1, <3>1, <3>2, <3>5
      <4>2. Moved(k).names[i] = list[i] /\ list[i] # "google"
        BY <1>1, <1>2, <3>1, <3>5
      <4> HIDE DEF Moved
      <4> QED
        BY <4>1, <4>2 DEF LookAt
    <3> QED
      BY <1>1, <3>1, <3>3, <3>4, <3>5
  <2> QED
    BY <2>1, <2>2
<1>4. Now(0) = start
  BY <1>1
<1> HIDE DEF start, At, Moved, Now
<1>5. IsLooked([i \in 0..n |-> Now(i)])
  <2> DEFINE f == [i \in 0..n |-> Now(i)]
  <2>1. ASSUME NEW i \in 0..n PROVE f[i] = IF i = 0 THEN start ELSE LookAt(f[i - 1], i)
    <3>1. i # 0 => i \in 1..n /\ i - 1 \in 0..n
      BY <1>1
    <3> QED
      BY <1>3, <1>4, <3>1
  <2>2. f = [i \in 0..n |-> f[i]]
    OBVIOUS
  <2> HIDE DEF f
  <2>3. IsLooked(f)
    BY <2>1, <2>2
  <2> QED
    BY <2>3 DEF f
<1>6. ASSUME NEW f, IsLooked(f) PROVE f[n] = Now(n)
  <2> DEFINE Bad == {i \in 0..n : f[i] # Now(i)}
  <2>1. SUFFICES ASSUME Bad # {} PROVE FALSE
    BY <1>1
  <2>2. PICK i \in Bad : \A j \in Bad : i <= j
    <3>1. Bad \subseteq Nat
      BY <1>1
    <3> HIDE DEF Bad
    <3> QED
      BY <2>1, <3>1, LeastNatural
  <2>3. i \in 0..n /\ f[i] # Now(i)
    BY <2>2
  <2>4. f[i] = IF i = 0 THEN start ELSE LookAt(f[i - 1], i)
    BY <1>6, <2>3, Zenon
  <2>5. i # 0
    BY <1>4, <2>3, <2>4
  <2>6. i \in 1..n /\ i - 1 \in 0..n /\ i - 1 < i
    BY <1>1, <2>3, <2>5
  <2>7. i - 1 \in Bad => i <= i - 1
    BY <2>2, Zenon
  <2>8. f[i - 1] = Now(i - 1)
    BY <2>3, <2>6, <2>7
  <2> QED
    BY <1>3, <2>3, <2>4, <2>5, <2>6, <2>8
<1> DEFINE looked == CHOOSE f : IsLooked(f)
<1>7. IsLooked(looked)
  BY <1>5, Zenon
<1>8. WithoutGoogle(list) = [looked[n] EXCEPT !.names = SubSeq(@, 1, looked[n].length)]
  BY DEF WithoutGoogle, start, n
<1> HIDE DEF looked
<1>9. looked[n] = Now(n)
  BY <1>6, <1>7
<1> QED
  BY <1>8, <1>9 DEF Now, start, Moved

(* A list of HTTP services on its way, and the methods enabled.               *)
Kept(list) == \E S : list \in Seq(S)
SettingsInv ==
  /\ RefusedLate
  /\ stage = "read" => /\ http \in HTTPLists \cup {NotSet} /\ dns \in DNSLists \cup {NotSet}
                       /\ fetchers \in FetcherLists \cup {NotSet} /\ given.dns = dns
  /\ stage = "defaults" => http = NotSet \/ Kept(http)
  /\ stage = "defaults" => fetchers = NotSet \/ fetchers # {}
  /\ stage \in {"validate", "create"} => Kept(http) /\ fetchers # {}
  /\ stage = "create" => ValidHTTP(http) /\ ValidDNS(dns)

LEMMA ReadKeeps ==
  ASSUME NEW list \in HTTPLists
  PROVE  Kept(WithoutDefunct([i \in DOMAIN list |-> HandleRetroProvider(list[i])]))
<1> DEFINE S == {HandleRetroProvider(name) : name \in Names(list)}
           handled == [i \in DOMAIN list |-> HandleRetroProvider(list[i])]
<1>1. DOMAIN list = 1..Len(list) /\ Len(list) \in Nat
  BY SettingsAssumption, LenProperties
<1>2. handled \in Seq(S)
  <2>1. handled \in [1..Len(list) -> S]
    BY <1>1 DEF Names, ToSet
  <2> HIDE DEF handled
  <2> QED
    BY <1>1, <2>1, IsASeq
<1> HIDE DEF handled, S
<1> QED
  BY <1>2, WithoutDefunctKeeps DEF Kept, handled

LEMMA ReadStep ==
  ASSUME SettingsInv, Read
  PROVE  SettingsInv'
<1>1. stage = "read" /\ UNCHANGED <<asking, given>>
  BY DEF Read
<1>2. CASE stage' = "invalid"
  BY <1>2 DEF SettingsInv, RefusedLate
<1>3. CASE stage' # "invalid"
  <2> DEFINE kept == IF dns = NotSet THEN [names |-> NotSet, panic |-> FALSE] ELSE WithoutGoogle(dns)
  <2>1. /\ http' = IF http = NotSet THEN NotSet
                   ELSE WithoutDefunct([i \in DOMAIN http |-> HandleRetroProvider(http[i])])
        /\ fetchers' = IF fetchers = NotSet THEN NotSet ELSE GetFetchers(fetchers)
        /\ stage' = IF kept.panic THEN "panic" ELSE "defaults"
    BY <1>3 DEF Read, Ends
  <2>2. stage' = "panic" => given'.dns # NotSet /\ Twice(given'.dns, "google")
    <3> SUFFICES ASSUME kept.panic PROVE dns # NotSet /\ Twice(dns, "google")
      BY <1>1, <2>1 DEF SettingsInv
    <3>1. dns \in DNSLists /\ WithoutGoogle(dns).panic
      BY <1>1 DEF SettingsInv
    <3>2. dns \in Seq(ToSet(dns))
      BY <3>1, SettingsAssumption
    <3>3. dns # NotSet
      OBVIOUS
    <3> QED
      BY <3>1, <3>2, <3>3, WithoutGoogleOnce DEF Twice
  <2>3. http' = NotSet \/ Kept(http')
    BY <1>1, <2>1, ReadKeeps DEF SettingsInv
  <2>4. fetchers' = NotSet \/ fetchers' # {}
    <3>1. CASE fetchers # NotSet
      <4>1. fetchers \in Seq(ToSet(fetchers)) /\ fetchers # <<>>
        BY <1>1, <3>1, SettingsAssumption DEF SettingsInv
      <4>2. 1 \in DOMAIN fetchers
        BY <4>1, EmptySeq, LenProperties
      <4>3. fetchers[1] \in Names(fetchers)
        BY <4>2 DEF Names, ToSet
      <4>4. GetFetchers(fetchers) # {}
        <5>1. CASE fetchers[1] = "all"
          BY <4>3, <5>1 DEF GetFetchers
        <5>2. CASE fetchers[1] # "all"
          BY <4>3, <5>2 DEF GetFetchers
        <5> QED
          BY <5>1, <5>2
      <4> QED
        BY <2>1, <3>1, <4>4
    <3> QED
      BY <2>1, <3>1
  <2>5. stage' \in {"panic", "defaults"}
    BY <2>1
  <2> QED
    BY <2>2, <2>3, <2>4, <2>5 DEF SettingsInv, RefusedLate
<1> QED
  BY <1>2, <1>3

(* What was validated has a service of either kind, and of those that are not     *)
(* there only the ones Validate lets through.                                *)
LEMMA CreateStep ==
  ASSUME SettingsInv, NewFetcher
  PROVE  SettingsInv'
<1>1. stage = "create" /\ ValidHTTP(http) /\ ValidDNS(dns) /\ fetchers # {}
  BY DEF NewFetcher, SettingsInv
<1>2. PICK S : http \in Seq(S)
  BY <1>1 DEF SettingsInv, Kept
<1> DEFINE chosenURLs == StringsToHTTPProviders(http)
           chosenDNS == ToDNSPOptions(dns)
<1>3. Names(http) \subseteq S /\ Names(http) # {}
  <2>1. Len(http) \in Nat /\ DOMAIN http = 1..Len(http) /\ Len(http) # 0
    BY <1>1, <1>2, EmptySeq, LenProperties DEF ValidHTTP
  <2>2. \A i \in DOMAIN http : http[i] \in S
    BY <1>2, <2>1, ElementOfSeq
  <2>3. 1 \in DOMAIN http
    BY <2>1
  <2> QED
    BY <2>2, <2>3 DEF Names, ToSet
<1>4. /\ chosenURLs # {}
      /\ chosenURLs \subseteq HTTPServices(asking) \cup {Custom} <=> Names(http) \cap LetThrough = {}
  <2>1. "ipify" \in HTTPServices(asking)
    BY DEF HTTPServices
  <2>2. Names(http) \subseteq {"all", "noip", Custom, SchemeOnly} \cup HTTPServices(asking)
    BY <1>1 DEF ValidHTTP
  <2>3. /\ LetThrough \cap ({"all", Custom} \cup HTTPServices(asking)) = {}
        /\ LetThrough = {"noip", SchemeOnly} /\ "all" \notin LetThrough
    BY DEF LetThrough, SchemeOnly, Custom, HTTPServices
  <2>4. /\ Names(http) \ {"all"} \subseteq chosenURLs
        /\ chosenURLs \subseteq (Names(http) \ {"all"}) \cup HTTPServices(asking)
    BY DEF StringsToHTTPProviders
  <2>5. chosenURLs # {}
    BY <1>3, <2>1 DEF StringsToHTTPProviders
  <2> HIDE DEF chosenURLs
  <2> QED
    BY <2>2, <2>3, <2>4, <2>5
<1>5. chosenDNS # {} /\ chosenDNS \subseteq DNSServices
  BY <1>1 DEF ValidDNS, ToDNSPOptions, DNSServices
<1>6. /\ stage' = IF Refusable THEN "failed" ELSE "ready"
      /\ UNCHANGED <<http, fetchers>>
  <2> HIDE DEF chosenURLs, chosenDNS
  <2> QED
    BY <1>1, <1>4, <1>5 DEF NewFetcher, Ends, Refusable, chosenURLs, chosenDNS
<1>7. Refusable' <=> Refusable
  BY <1>6 DEF Refusable, Names
<1> QED
  BY <1>6, <1>7 DEF SettingsInv, RefusedLate

(* Whatever lists the user writes: what Validate accepts is created, unless HTTP  *)
(* is enabled with one of the names that it alone lets through, and a panic takes *)
(* google twice. (That a list loses its last names, or is that of one version,    *)
(* is found by Validate.)                                                     *)
THEOREM AlwaysRefusedInTime == SettingsSpec => []RefusedLate
<1>1. SettingsInit => SettingsInv
  BY DEF SettingsInit, SettingsInv, RefusedLate
<1>2. SettingsInv /\ [SettingsNext]_settingsVars => SettingsInv'
  <2> SUFFICES ASSUME SettingsInv, [SettingsNext]_settingsVars PROVE SettingsInv'
    OBVIOUS
  <2>1. CASE Read
    BY <2>1, ReadStep
  <2>2. CASE SetDefaults
    <3>1. <<"all">> \in Seq({"all"})
      OBVIOUS
    <3>2. Kept(http') /\ fetchers' # {} /\ stage' = "validate"
      BY <2>2, <3>1 DEF SetDefaults, SettingsInv, Kept
    <3> QED
      BY <3>2 DEF SettingsInv, RefusedLate
  <2>3. CASE Validate
    BY <2>3 DEF Validate, Ends, SettingsInv, RefusedLate, Kept, ValidHTTP, ValidDNS, Names
  <2>4. CASE NewFetcher
    BY <2>4, CreateStep
  <2>5. CASE UNCHANGED settingsVars
    BY <2>5 DEF settingsVars, SettingsInv, RefusedLate, Refusable, Twice, Kept, ValidHTTP, ValidDNS, Names
  <2> QED
    BY <2>1, <2>2, <2>3, <2>4, <2>5 DEF SettingsNext
<1>3. SettingsInv => RefusedLate
  BY DEF SettingsInv
<1> QED
  BY <1>1, <1>2, <1>3, PTL DEF SettingsSpec
=============================================================================

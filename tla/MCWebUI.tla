------------------------------- MODULE MCWebUI -------------------------------
(***************************************************************************)
(* The components of the web UI for TLC: the configuration file, the admin *)
(* password and its sessions, and the entries behind a page. They share no *)
(* state, so a behaviour is one of a single component on one instance,     *)
(* named by part, while the variables of the others keep one value.        *)
(*                                                                         *)
(* The constants of ConfigStore, AdminAuth and ConfigEntries are those of  *)
(* the parts restarts, admin and rows: their properties are checked as the *)
(* modules state them, and the other parts keep them as well or do not     *)
(* move their state.                                                       *)
(***************************************************************************)
EXTENDS ConfigStore, AdminAuth, ConfigEntries, TLC

CONSTANTS
  blog, mail, wrong, \* entries of config.json, the last of them not valid
  admin, better,     \* passwords
  b1, b2, r1, r2     \* browsers, and the requests served at the same time

VARIABLE part
webVars == <<part, vars, authVars, entriesVars>>

-----------------------------------------------------------------------------
(* config.json: one page, with the program killed at any moment and restarted
   with and without CONFIG, and writes that fail; then more edits.           *)

Three == {blog, mail, wrong}
Wrong == {wrong}
On(name) == [name |-> name, disabled |-> FALSE]
Both == <<On(blog), On(mail)>>
OneEnv == {<<On(mail)>>}

Edits == INSTANCE ConfigStore WITH EnvSettings <- {}, Faults <- {"write"}, MaxEntries <- 3

-----------------------------------------------------------------------------
(* The admin password: no file at first, or one with a hash.                 *)

NoneOrHashed == {Absent, Hash(admin)}

-----------------------------------------------------------------------------
(* Entries: every choice of the fields of every provider, one to a file; two
   entries with several names; two with one name each, and a page.           *)

Entry(provider, domain, owners, version, disabled, set) ==
  [provider |-> provider, domain |-> domain, owners |-> owners, version |-> version,
   disabled |-> disabled, set |-> set]

Root == Name("@", "x")
Sub == Name("a", "x")
Wild == Name("*", "x")
Other == Name("@", "y")

(* Authenticated does not hold of cloudflare: a key alone is accepted, which no
   request carries. WildcardAccepted does not hold of servercow.             *)
AllRules ==
  UNION {{Entry(p, <<n>>, <<>>, "ipv4", FALSE, set) :
            n \in {Root, Wild}, set \in SUBSET Rules[p].fields} :
         p \in Providers \ {"cloudflare", "servercow"}}

Several ==
  {Entry("njalla", d, <<>>, "ipv4", off, {"key"}) :
     d \in {<<Root, Sub>>, <<Sub, Wild>>, <<Root, Other>>}, off \in BOOLEAN}
  \cup {Entry("njalla", <<Root>>, o, "ipv6", FALSE, {"key"}) : o \in {<<"a">>, <<"@", "*">>}}
  \cup {Entry("myaddr", <<Root, Sub>>, <<>>, "ipv4", FALSE, {"key"}),
        Entry("google", <<Root>>, <<>>, "ipv4", FALSE, {})}

(* Several has no pages: LiveShown does not hold of its rows with several     *)
(* names, and OwnStatus not of an entry with owners of its own.               *)
Simple ==
  {Entry("njalla", <<n>>, <<>>, v, FALSE, {"key"}) : n \in {Root, Sub}, v \in {"ipv4", "ipv6"}}
  \cup {Entry("njalla", <<Root>>, <<>>, "ipv4", TRUE, {"key"}),
        Entry("njalla", <<Sub>>, <<>>, "ipv4", FALSE, {})}

SingleFile == INSTANCE ConfigEntries WITH Pool <- AllRules, MaxRows <- 1, MaxSaves <- 1
Expanded == INSTANCE ConfigEntries WITH Pool <- Several

-----------------------------------------------------------------------------
Parts == {"edits", "restarts", "admin", "rules", "names", "rows"}

WebInit ==
  /\ part \in Parts
  /\ Init /\ EntriesInit
  /\ AuthInit /\ (part # "admin" => password = Hash(admin))

(* No page is read here, so that the bound on saves would end it.             *)
SaveSeveral ==
  \/ \E f \in Expanded!Files : Save(f)
  \/ ReplaceRecords
  \/ saves = MaxSaves /\ saving = Error /\ UNCHANGED entriesVars

WebNext ==
  /\ UNCHANGED part
  /\ \/ /\ \/ part = "edits" /\ Edits!Next
           \/ part = "restarts" /\ Next
        /\ UNCHANGED <<authVars, entriesVars>>
     \/ part = "admin" /\ AuthNext /\ UNCHANGED <<vars, entriesVars>>
     \/ /\ \/ part = "rules" /\ SingleFile!EntriesNext
           \/ part = "names" /\ SaveSeveral
           \/ part = "rows" /\ EntriesNext
        /\ UNCHANGED <<vars, authVars>>

WebSpec == WebInit /\ [][WebNext]_webVars

Symmetry == Permutations({r1, r2}) \cup Permutations({b1, b2})

-----------------------------------------------------------------------------
(* The types of the parts of the state.                                      *)
WebTypeOK ==
  /\ part \in Parts
  /\ IF part = "edits" THEN Edits!TypeOK ELSE TypeOK
  /\ AuthTypeOK
  /\ CASE part = "rules" -> SingleFile!EntriesTypeOK
       [] part = "names" -> Expanded!EntriesTypeOK
       [] OTHER -> EntriesTypeOK

(* config.json (settings.go, configui.go). An edit by index changes the entry
   the user saw there, as long as the page is that of this file.             *)
HitWhileUp == part = "edits" => Edits!EditHitsItsEntry

(* Entries and rows (configui.go, params/json.go, index.go). Documented wildcards
   are accepted.                                                            *)
WildcardDocumentedAccepted == part = "rules" => WildcardAccepted

(* A row of an enabled entry shows a live status when nothing changed.        *)
RowsLive == [][part = "rows" => ShowsLive]_webVars
=============================================================================

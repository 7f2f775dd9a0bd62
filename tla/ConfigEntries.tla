---------------------------- MODULE ConfigEntries ----------------------------
(***************************************************************************)
(* From the entries of config.json to the records in memory, and back to the *)
(* page: an entry is expanded into one provider per name of its domain field, *)
(* a file with one bad entry is refused as a whole, and the page, which reads *)
(* the file and then the records, finds the live status of an entry by the    *)
(* text of its domain field.                                               *)
(***************************************************************************)
EXTENDS ProviderRules, Integers, Sequences, SequencesExt, FiniteSets

CONSTANTS
  Pool,      \* the entries a file may hold
  MaxRows, MaxSaves  \* bounds, natural numbers

(* An entry is of a provider there is and has at least one domain name, which is
   an owner and an apex; an entry written by this version has no owners.      *)
ASSUME EntriesAssumption ==
  /\ MaxRows \in Nat
  /\ \A e \in Pool :
       /\ e.provider \in Providers
       /\ e.domain \in Seq(ToSet(e.domain)) /\ e.domain # <<>>
       /\ e.owners \in Seq(ToSet(e.owners))
       /\ \A n \in ToSet(e.domain) : n = [owner |-> n.owner, apex |-> n.apex]

VARIABLES
  file,     \* the entries of config.json
  updated,  \* the providers in memory
  saving,   \* the providers of a file that has been written, until they replace records
  refused,  \* the last file that was refused
  page,     \* the entries a page has read, and what it shows of each
  saves

entriesVars == <<file, updated, saving, refused, page, saves>>

Files == SeqOf(Pool, MaxRows)
Error == [ok |-> FALSE, got |-> <<>>]
Ok(found) == [ok |-> TRUE, got |-> found]
(* A domain name is [owner, apex]; BuildURLQueryHostname is the name itself.  *)
Name(owner, apex) == [owner |-> owner, apex |-> apex]

NoPage == [step |-> "none", entries |-> <<>>, shown |-> <<>>]
NoRecord == Name("none", "none")
Nothing == [kind |-> "no live status yet", name |-> NoRecord, version |-> "none"]
Inactive == [kind |-> "inactive", name |-> NoRecord, version |-> "none"]
Live(r) == [kind |-> "live", name |-> r.name, version |-> r.version]

(* BuildDomainName, which looks up a name below the wildcard.                *)
Built(name) == IF name.owner = "*" THEN Name("any", name.apex) ELSE name

(* A bug: the owner of the first name is used for all.                       *)
ExtractFirst(names) ==
  IF \E i \in DOMAIN names : names[i].apex # names[1].apex THEN Error
  ELSE Ok([i \in DOMAIN names |-> names[1].owner])

(* extractFromDomainField: the names have to share their registered domain.  *)
ExtractFromDomainField(names) ==
  IF \E i \in DOMAIN names : names[i].apex # names[1].apex THEN Error
  ELSE Ok([i \in DOMAIN names |-> names[i].owner])

(* validateSettings of the provider.                                        *)
Accepts(e, owner) ==
  LET rule == Rules[e.provider]
  IN e.set \in IF owner = "*" THEN rule.wildcard ELSE rule.accepted

(* makeSettingsFromObject. An entry of an older version has its owners in a  *)
(* field of their own and one name in the domain field.                      *)
MakeSettings(e) ==
  LET owners == IF e.owners # <<>> THEN Ok(e.owners) ELSE ExtractFromDomainField(e.domain)
  IN CASE e.disabled                                   -> Ok(<<>>)
       [] ~e.disabled /\ e.provider = "google"         -> Error
       [] ~e.disabled /\ e.provider # "google" ->
            IF \/ owners = Error
               \/ e.provider = "myaddr" /\ Len(owners.got) > 1
               \/ \E i \in DOMAIN owners.got : ~Accepts(e, owners.got[i])
            THEN Error
            ELSE Ok([i \in DOMAIN owners.got |->
                       [provider |-> e.provider, name |-> Name(owners.got[i], e.domain[1].apex),
                        version |-> e.version, set |-> e.set]])

(* A bug: a bad entry is left out and the others are kept.                   *)
ExtractGoodSettings(f) ==
  Ok(FlattenSeq([i \in DOMAIN f |-> MakeSettings(f[i]).got]))

(* extractAllSettings: all entries or none.                                  *)
ExtractAllSettings(f) ==
  IF \E i \in DOMAIN f : MakeSettings(f[i]) = Error THEN Error
  ELSE Ok(FlattenSeq([i \in DOMAIN f |-> MakeSettings(f[i]).got]))

(* validateAndApplyConfig: the file is written, then the records replaced.   *)
Save(f) ==
  /\ saving = Error /\ saves < MaxSaves
  /\ saves' = saves + 1
  /\ LET providers == ExtractAllSettings(f)
     IN IF providers = Error
        THEN refused' = f /\ UNCHANGED <<file, saving>>
        ELSE file' = f /\ saving' = providers /\ UNCHANGED refused
  /\ UNCHANGED <<updated, page>>

ReplaceRecords ==
  /\ saving # Error
  /\ updated' = saving.got /\ saving' = Error
  /\ UNCHANGED <<file, refused, page, saves>>

-----------------------------------------------------------------------------
(* makePageData                                                            *)

(* A bug: the version of the address is not part of the key.                 *)
NameKey(names, version) == <<names, "any">>

(* entryKey, of the text of a domain field and the version.                   *)
EntryKey(names, version) == <<names, version>>

(* A bug: the search ends at the first record.                               *)
LiveEntryFirst(e, recs) ==
  IF recs = <<>> \/ EntryKey(<<Built(recs[1].name)>>, recs[1].version) # EntryKey(e.domain, e.version)
  THEN Nothing ELSE Live(recs[1])

(* buildLiveEntryMap and its use: a later record with the same key wins.     *)
LiveEntry(e, recs) ==
  LET same == {i \in DOMAIN recs :
                 EntryKey(<<Built(recs[i].name)>>, recs[i].version) = EntryKey(e.domain, e.version)}
  IN IF same = {} THEN Nothing ELSE Live(recs[CHOOSE i \in same : \A j \in same : j <= i])

ReadPage ==
  /\ page = NoPage
  /\ page' = [step |-> "read", entries |-> file, shown |-> <<>>]
  /\ UNCHANGED <<file, updated, saving, refused, saves>>

(* A bug: entries that are switched off get no row.                         *)
ShowEnabled ==
  /\ page.step = "read"
  /\ LET enabled == SelectSeq(page.entries, LAMBDA e : ~e.disabled)
     IN page' = [page EXCEPT !.step = "shown", !.shown =
          [i \in DOMAIN enabled |-> LiveEntry(enabled[i], updated)]]
  /\ UNCHANGED <<file, updated, saving, refused, saves>>

ShowPage ==
  /\ page.step = "read"
  /\ page' = [page EXCEPT !.step = "shown", !.shown =
       [i \in DOMAIN page.entries |->
          IF page.entries[i].disabled THEN Inactive ELSE LiveEntry(page.entries[i], updated)]]
  /\ UNCHANGED <<file, updated, saving, refused, saves>>

ClosePage ==
  /\ page.step = "shown"
  /\ page' = NoPage
  /\ UNCHANGED <<file, updated, saving, refused, saves>>

EntriesInit ==
  /\ file = <<>> /\ updated = <<>> /\ saving = Error /\ refused = <<>>
  /\ page = NoPage /\ saves = 0

EntriesNext ==
  \/ \E f \in Files : Save(f)
  \/ ReplaceRecords \/ ReadPage \/ ShowPage \/ ClosePage

EntriesSpec == EntriesInit /\ [][EntriesNext]_entriesVars

-----------------------------------------------------------------------------
EntriesTypeOK ==
  /\ {file, refused, page.entries} \subseteq Files
  /\ \A i \in DOMAIN updated : updated[i].provider \in Providers
  /\ saves \in 0..MaxSaves
  /\ page.step \in {"none", "read", "shown"}
  /\ Len(page.shown) = IF page.step = "shown" THEN Len(page.entries) ELSE 0

(* The names an entry asks for, under the provider and version it gives.     *)
Asked(e) ==
  IF e.disabled THEN {}
  ELSE {[provider |-> e.provider, name |-> n, version |-> e.version, set |-> e.set] :
          n \in IF e.owners = <<>> THEN ToSet(e.domain)
                ELSE {Name(o, e.domain[1].apex) : o \in ToSet(e.owners)}}

(* The records in memory are the names of the enabled entries of config.json,
   none lost, none added and none with the settings of another entry.       *)
EveryNameCovered ==
  saving = Error => ToSet(updated) = UNION {Asked(file[i]) : i \in DOMAIN file}

(* No record is kept whose requests would carry nothing to prove who asks.    *)
Authenticated ==
  \A i \in DOMAIN updated : Sends(updated[i].provider, updated[i].set) # {}

(* The status a row shows is that of a record of its entry: same name, same
   version of the address.                                                  *)
OwnStatus ==
  \A i \in DOMAIN page.shown :
    page.shown[i].kind = "live"
      => \E r \in Asked(page.entries[i]) :
           r.name = page.shown[i].name /\ r.version = page.shown[i].version

(* A row of an enabled entry shows a live status once the file and the records
   are those the page has read.                                             *)
ShowsLive ==
  page.step = "read" /\ page'.step = "shown" /\ saving = Error /\ file = page.entries
    => \A i \in DOMAIN file : page'.shown[i] # Nothing
LiveShown == [][ShowsLive]_entriesVars

(* Providers whose documentation offers the wildcard accept it: such an entry
   is refused only for what it leaves unset.                                *)
WildcardAccepted ==
  \A i \in DOMAIN refused :
    Len(refused) = 1 /\ refused[i].provider \in WildcardDocumented
      => refused[i].set \notin Rules[refused[i].provider].accepted
=============================================================================

----------------------------- MODULE ConfigStore -----------------------------
(***************************************************************************)
(* The configuration file config.json: read at startup and by every page,  *)
(* and edited by the settings requests of the web UI (internal/server/     *)
(* settings.go, configui.go, internal/params/json.go).                     *)
(*                                                                         *)
(* A request reads the file, edits its copy, validates it, writes it to    *)
(* config.json.tmp, renames that over config.json and replaces the records *)
(* of the program. Nothing keeps two requests apart. Files are inodes: a   *)
(* request that has the temporary file open goes on writing to it after    *)
(* another one renamed it.                                                 *)
(*                                                                         *)
(* An entry of the configuration is a name and whether it is disabled; the *)
(* names of Invalid are refused by the validation unless disabled.         *)
(***************************************************************************)
EXTENDS Integers, Sequences, FiniteSets

CONSTANTS
  Handlers,    \* the requests that may be in progress at a time, one per page
  Names,       \* entries users write
  Invalid,     \* those that New of their provider refuses, a subset of Names
  InitialSettings, \* config.json at first, in Settings
  EnvSettings, \* what CONFIG may hold at a start, a subset of Settings; {} if it is never set
  Faults,      \* "kill", "killStarting" (while CONFIG is written), "write"
  MaxEntries,  \* bound: users add entries up to this number
  MaxKills     \* bound: kills and failed writes

Setting == [name : Names, disabled : BOOLEAN]
Settings == UNION {[1..n -> Setting] : n \in 0..(MaxEntries + Cardinality(Handlers))}
Enabled(settings) == SelectSeq(settings, LAMBDA s : ~s.disabled)

Inodes == 1..(Cardinality(Handlers) + 2)
NoInode == 0
Whole(settings) == [kind |-> "json", settings |-> settings]
Empty == [kind |-> "empty", settings |-> <<>>]
Torn == [kind |-> "torn", settings |-> <<>>]

VARIABLES
  config,  \* the inode of config.json
  tmp,     \* the inode of config.json.tmp, if it exists
  data,    \* the content of each inode
  pc,      \* where each request is
  shown,   \* the settings on the page each request was sent from
  edit,    \* what it asks for
  copy,    \* its copy of the settings
  hit,     \* the entry its edit changed or removed
  fd,      \* the temporary file it has open
  records, \* the entries the program updates
  life,    \* "up", "starting", "down" or "refused" (it did not accept the file)
  env,     \* CONFIG, as a set of at most one settings
  kills

vars == <<config, tmp, data, pc, shown, edit, copy, hit, fd, records, life, env, kills>>

Stages == {"idle", "read", "validate", "create", "write", "rename", "replace", "reply"}
NoEdit == [kind |-> "none", index |-> 0, setting |-> CHOOSE s \in Setting : TRUE]
Edit == [kind : {"none", "add", "set", "delete", "toggle"}, index : 0..(MaxEntries + 2), setting : Setting]
NamesIn(settings) == {settings[i].name : i \in DOMAIN settings}
File == data[config]

Init ==
  /\ config = 1 /\ tmp = NoInode
  /\ data = [i \in Inodes |-> IF i = 1 THEN Whole(InitialSettings) ELSE Empty]
  /\ pc = [h \in Handlers |-> "idle"]
  /\ shown = [h \in Handlers |-> InitialSettings]
  /\ edit = [h \in Handlers |-> NoEdit]
  /\ copy = [h \in Handlers |-> <<>>]
  /\ hit = [h \in Handlers |-> {}]
  /\ fd = [h \in Handlers |-> NoInode]
  /\ records = Enabled(InitialSettings)
  /\ life = "up" /\ env = {} /\ kills = 0

-----------------------------------------------------------------------------
(* What an edit makes of the settings. Indexes are those of the page.        *)

Without(settings, i) == SubSeq(settings, 1, i - 1) \o SubSeq(settings, i + 1, Len(settings))

Applied(e, settings) ==
  CASE e.kind = "add" -> Append(settings, e.setting)
    [] e.kind = "set" -> [settings EXCEPT ![e.index] = e.setting]
    [] e.kind = "delete" -> Without(settings, e.index)
    [] e.kind = "toggle" -> [settings EXCEPT ![e.index].disabled = ~@]

(* The index of an edit has to be that of an entry.                          *)
Applicable(e, settings) == e.kind = "add" \/ e.index \in DOMAIN settings

(* The entry an edit that goes by an index is about.                         *)
About(e, settings) ==
  IF e.kind \in {"set", "delete", "toggle"} THEN {settings[e.index].name} ELSE {}

Valid(settings) == \A i \in DOMAIN settings : settings[i].disabled \/ settings[i].name \notin Invalid

(* os.ReadFile and json.Unmarshal, by the web UI: no content is no entry.      *)
Readable(content) == content.kind \in {"json", "empty"}

-----------------------------------------------------------------------------
(* A request.                                                              *)

Goto(h, stage) == pc' = [pc EXCEPT ![h] = stage]
Editable == env = {}

(* Another look at the page, which reads the file.                           *)
View(h) ==
  /\ life = "up" /\ pc[h] = "idle" /\ Readable(File)
  /\ shown' = [shown EXCEPT ![h] = File.settings]
  /\ UNCHANGED <<config, tmp, data, pc, edit, copy, hit, fd, records, life, env, kills>>

(* saveSetting, deleteSetting, toggleSetting up to readRawConfig; refused
   when CONFIG is set. The form keeps the disabled flag of the entry it edits. *)
Submit(h) ==
  /\ life = "up" /\ pc[h] = "idle" /\ Editable
  /\ \E e \in Edit :
       /\ IF e.kind = "add" THEN e.index = 0 /\ Len(File.settings) < MaxEntries
          ELSE e.kind # "none" /\ e.index \in DOMAIN shown[h]
       /\ IF e.kind \in {"add", "set"}
          THEN /\ e.setting.name \notin NamesIn(shown[h])
               /\ e.setting.disabled = (e.kind = "set" /\ shown[h][e.index].disabled)
          ELSE e.setting = NoEdit.setting
       /\ edit' = [edit EXCEPT ![h] = e]
  /\ Goto(h, "read")
  /\ UNCHANGED <<config, tmp, data, shown, copy, hit, fd, records, life, env, kills>>

(* A bug: the settings of the page are edited, not those of the file.          *)
EditPage(h) ==
  /\ pc[h] = "read"
  /\ copy' = [copy EXCEPT ![h] = Applied(edit[h], shown[h])]
  /\ hit' = [hit EXCEPT ![h] = About(edit[h], shown[h])]
  /\ Goto(h, "validate")
  /\ UNCHANGED <<config, tmp, data, shown, edit, fd, records, life, env, kills>>

(* readRawConfig and the edit of the copy; an index beyond the settings read
   is refused.                                                              *)
ReadRawConfig(h) ==
  /\ pc[h] = "read"
  /\ IF Readable(File) /\ Applicable(edit[h], File.settings)
     THEN /\ copy' = [copy EXCEPT ![h] = Applied(edit[h], File.settings)]
          /\ hit' = [hit EXCEPT ![h] = About(edit[h], File.settings)]
          /\ Goto(h, "validate")
     ELSE Goto(h, "idle") /\ UNCHANGED <<copy, hit>>
  /\ UNCHANGED <<config, tmp, data, shown, edit, fd, records, life, env, kills>>

(* A bug: the settings are written before they are validated.                 *)
ExtractProvidersLate(h) ==
  /\ pc[h] = "validate"
  /\ Goto(h, "create")
  /\ UNCHANGED <<config, tmp, data, shown, edit, copy, hit, fd, records, life, env, kills>>

(* One invalid entry makes the whole configuration invalid.                   *)
ExtractProviders(h) ==
  /\ pc[h] = "validate"
  /\ Goto(h, IF Valid(copy[h]) THEN "create" ELSE "idle")
  /\ UNCHANGED <<config, tmp, data, shown, edit, copy, hit, fd, records, life, env, kills>>

Unnamed == CHOOSE i \in Inodes : i \notin {config, tmp} /\ \A h \in Handlers : fd[h] # i

(* A bug: config.json itself is opened.                                       *)
OpenInPlace(h) ==
  /\ pc[h] = "create"
  /\ tmp' = config /\ fd' = [fd EXCEPT ![h] = config]
  /\ data' = [data EXCEPT ![config] = Empty]
  /\ Goto(h, "write")
  /\ UNCHANGED <<config, shown, edit, copy, hit, records, life, env, kills>>

(* writeRawConfig. os.WriteFile creates or truncates the temporary file...    *)
OpenTemporary(h) ==
  /\ pc[h] = "create"
  /\ LET inode == IF tmp = NoInode THEN Unnamed ELSE tmp
     IN  /\ tmp' = inode /\ fd' = [fd EXCEPT ![h] = inode]
         /\ data' = [data EXCEPT ![inode] = Empty]
  /\ Goto(h, "write")
  /\ UNCHANGED <<config, shown, edit, copy, hit, records, life, env, kills>>

(* ...and writes from its beginning, over what another request wrote there
   since: what is longer sticks out.                                        *)
Overlay(content, settings) ==
  IF content.kind # "torn" /\ Len(content.settings) <= Len(settings) THEN Whole(settings) ELSE Torn

(* A bug: the error of the write is not looked at.                            *)
WriteTemporaryUnchecked(h) ==
  /\ pc[h] = "write"
  /\ \/ data' = [data EXCEPT ![fd[h]] = Overlay(@, copy[h])] /\ UNCHANGED kills
     \/ /\ "write" \in Faults /\ kills < MaxKills /\ kills' = kills + 1
        /\ data' = [data EXCEPT ![fd[h]] = Torn]
  /\ Goto(h, "rename")
  /\ fd' = [fd EXCEPT ![h] = NoInode]
  /\ UNCHANGED <<config, tmp, shown, edit, copy, hit, records, life, env>>

(* A bug: the file stays open after the request is over.                      *)
WriteTemporaryOpen(h) ==
  /\ pc[h] = "write"
  /\ data' = [data EXCEPT ![fd[h]] = Overlay(@, copy[h])]
  /\ Goto(h, "rename")
  /\ UNCHANGED <<config, tmp, shown, edit, copy, hit, fd, records, life, env, kills>>

WriteTemporary(h) ==
  /\ pc[h] = "write"
  /\ \/ /\ data' = [data EXCEPT ![fd[h]] = Overlay(@, copy[h])]
        /\ Goto(h, "rename")
        /\ UNCHANGED kills
     \/ /\ "write" \in Faults /\ kills < MaxKills /\ kills' = kills + 1
        /\ data' = [data EXCEPT ![fd[h]] = Torn]
        /\ Goto(h, "idle")
  /\ fd' = [fd EXCEPT ![h] = NoInode]
  /\ UNCHANGED <<config, tmp, shown, edit, copy, hit, records, life, env>>

(* Without a temporary file the rename fails and the request is refused.      *)
RenameTemporary(h) ==
  /\ pc[h] = "rename"
  /\ IF tmp = NoInode THEN Goto(h, "idle") /\ UNCHANGED <<config, tmp>>
     ELSE config' = tmp /\ tmp' = NoInode /\ Goto(h, "replace")
  /\ UNCHANGED <<data, shown, edit, copy, hit, fd, records, life, env, kills>>

(* A bug: the disabled entries are given to the program too.                  *)
ReplaceProvidersAll(h) ==
  /\ pc[h] = "replace"
  /\ records' = copy[h]
  /\ Goto(h, "reply")
  /\ UNCHANGED <<config, tmp, data, shown, edit, copy, hit, fd, life, env, kills>>

(* ReplaceProviders, then ForceUpdate, which does not change the settings.    *)
ReplaceProviders(h) ==
  /\ pc[h] = "replace"
  /\ records' = Enabled(copy[h])
  /\ Goto(h, "reply")
  /\ UNCHANGED <<config, tmp, data, shown, edit, copy, hit, fd, life, env, kills>>

(* A bug: the page answered shows the settings of before.                     *)
ReplyStale(h) ==
  /\ pc[h] = "reply"
  /\ Goto(h, "idle")
  /\ UNCHANGED <<config, tmp, data, shown, edit, copy, hit, fd, records, life, env, kills>>

(* The page answered reads the file once more.                               *)
Reply(h) ==
  /\ pc[h] = "reply"
  /\ shown' = IF Readable(File) THEN [shown EXCEPT ![h] = File.settings] ELSE shown
  /\ Goto(h, "idle")
  /\ UNCHANGED <<config, tmp, data, edit, copy, hit, fd, records, life, env, kills>>

-----------------------------------------------------------------------------
(* The program.                                                            *)

Kill ==
  /\ life # "down" /\ "kill" \in Faults /\ kills < MaxKills
  /\ life = "starting" => "killStarting" \in Faults
  /\ kills' = kills + 1 /\ life' = "down"
  /\ pc' = [h \in Handlers |-> "idle"] /\ fd' = [h \in Handlers |-> NoInode]
  /\ records' = <<>>
  /\ UNCHANGED <<config, tmp, data, shown, edit, copy, hit, env>>

(* JSONProviders without CONFIG: the file has to be a valid document.         *)
StartFromFile ==
  /\ life = "down"
  /\ env' = {}
  /\ IF File.kind = "json" /\ Valid(File.settings)
     THEN life' = "up" /\ records' = Enabled(File.settings)
     ELSE life' = "refused" /\ UNCHANGED records
  /\ UNCHANGED <<config, tmp, data, pc, shown, edit, copy, hit, fd, kills>>

(* JSONProviders with CONFIG: valid settings are written over config.json, in
   place...                                                                 *)
StartFromEnv ==
  /\ life = "down"
  /\ \E settings \in EnvSettings : Valid(settings) /\ env' = {settings}
  /\ data' = [data EXCEPT ![config] = Empty]
  /\ life' = "starting"
  /\ UNCHANGED <<config, tmp, pc, shown, edit, copy, hit, fd, records, kills>>

(* A bug: CONFIG is not written to the file.                                  *)
WriteEnvUnsaved ==
  /\ life = "starting"
  /\ \E settings \in env : records' = Enabled(settings)
  /\ life' = "up"
  /\ UNCHANGED <<config, tmp, data, pc, shown, edit, copy, hit, fd, env, kills>>

(* ...which is not one step.                                                *)
WriteEnv ==
  /\ life = "starting"
  /\ \E settings \in env :
       data' = [data EXCEPT ![config] = Whole(settings)] /\ records' = Enabled(settings)
  /\ life' = "up"
  /\ UNCHANGED <<config, tmp, pc, shown, edit, copy, hit, fd, env, kills>>

Request(h) ==
  \/ View(h) \/ Submit(h) \/ ReadRawConfig(h) \/ ExtractProviders(h) \/ OpenTemporary(h)
  \/ WriteTemporary(h) \/ RenameTemporary(h) \/ ReplaceProviders(h) \/ Reply(h)

Next == (\E h \in Handlers : Request(h)) \/ Kill \/ StartFromFile \/ StartFromEnv \/ WriteEnv
Spec == Init /\ [][Next]_vars

-----------------------------------------------------------------------------
(* The parts of the state belong to their domains, and no request has a file
   open outside writeRawConfig.                                             *)
TypeOK ==
  /\ config \in Inodes /\ tmp \in Inodes \cup {NoInode} /\ tmp # config
  /\ \A i \in Inodes : data[i].kind \in {"json", "empty", "torn"} /\ data[i].settings \in Settings
  /\ pc \in [Handlers -> Stages]
  /\ \A h \in Handlers :
       /\ shown[h] \in Settings /\ copy[h] \in Settings /\ edit[h] \in Edit
       /\ hit[h] \subseteq Names
       /\ (fd[h] # NoInode) = (pc[h] = "write")
  /\ records \in Settings
  /\ life \in {"up", "starting", "down", "refused"} /\ kills \in 0..MaxKills

(* At every moment, so after any kill, config.json is a document the program
   accepts: writing the temporary file and renaming it is there for that. Only
   CONFIG is written over the file itself, while the program starts.         *)
FileReadable == life # "starting" => File.kind = "json" /\ Valid(File.settings)

(* The program is never kept from starting by a file it wrote.               *)
NeverRefused == life # "refused"

(* When no request is in progress the program updates the entries of the file
   that are not disabled, and no others.                                     *)
Quiet == life = "up" /\ \A h \in Handlers : pc[h] = "idle"
RecordsMatchFile == Quiet => records = Enabled(File.settings)

(* Whatever is written to config.json is what was there with one edit made to
   it: no request undoes the edit of another, and none is made in part.       *)
EditsAreSerial ==
  [][ File' # File /\ life = "up" =>
        \E h \in Handlers : Applicable(edit[h], File.settings)
                            /\ File' = Whole(Applied(edit[h], File.settings)) ]_vars

(* An edit that goes by an index changes the entry the user saw there.        *)
EditHitsItsEntry ==
  \A h \in Handlers :
    pc[h] \in Stages \ {"idle", "read", "reply"} => hit[h] = About(edit[h], shown[h])
=============================================================================

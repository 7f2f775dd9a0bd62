----------------------------- MODULE WebUIProofs -----------------------------
(***************************************************************************)
(* The settings and the admin mode of the web UI, for any entries, edits,     *)
(* browsers, requests and passwords and any number of kills. First, config.json *)
(* with one settings request at a time, which is what a single page makes: with *)
(* two TLC finds the temporary file shared. Then the sessions and the password  *)
(* file, with any number of requests. Last, the way from entries to records    *)
(* and from records to the rows of a page.                                   *)
(***************************************************************************)
EXTENDS ConfigStore, AdminAuth, ConfigEntries, SequenceLemmas

Content == [kind : {"json", "empty", "torn"}, settings : Seq(Setting)]

(* At most one request is in progress.                                       *)
OneRequest == \A g, h \in Handlers : g = h

(* The program was up with the settings it was installed with, so they are     *)
(* valid; MaxEntries bounds only what users add.                              *)
Installed ==
  /\ InitialSettings \in Seq(Setting) /\ Valid(InitialSettings)
  /\ EnvSettings \subseteq Seq(Setting)

(* CONFIG is written over config.json in place; the program is not killed      *)
(* meanwhile.                                                               *)
WholeStarts == EnvSettings = {} \/ ~({"kill", "killStarting"} \subseteq Faults)

-----------------------------------------------------------------------------
(* The parts of the inductive invariant. The shapes of the state:             *)
Shapes ==
  /\ config \in Inodes /\ tmp \in Inodes \cup {NoInode} /\ tmp # config
  /\ data \in [Inodes -> Content]
  /\ pc \in [Handlers -> Stages]
  /\ shown \in [Handlers -> Seq(Setting)] /\ copy \in [Handlers -> Seq(Setting)]
  /\ edit \in [Handlers -> Edit \cup {NoEdit}] /\ hit \in [Handlers -> SUBSET Names]
  /\ fd \in [Handlers -> Inodes \cup {NoInode}]
  /\ life \in {"up", "starting", "down", "refused"}

(* No request outlives the process, and CONFIG was valid.                     *)
Process ==
  /\ life # "up" => \A h \in Handlers : pc[h] = "idle"
  /\ life = "starting" => EnvSettings # {}
  /\ \A settings \in env : settings \in Seq(Setting) /\ Valid(settings)

(* The copy of a request is the file with its edit made, from the moment it    *)
(* was read to the rename: nothing else changes the file.                     *)
CopyFollows(h) ==
  /\ pc[h] # "idle" => edit[h] \in Edit /\ edit[h].kind # "none"
  /\ pc[h] \in {"validate", "create", "write", "rename"} =>
       Applicable(edit[h], File.settings) /\ copy[h] = Applied(edit[h], File.settings)
  /\ pc[h] \in {"create", "write", "rename"} => Valid(copy[h])
  /\ pc[h] = "replace" => File = Whole(copy[h])

(* The temporary file is open during the write only, and holds the whole copy  *)
(* when it is renamed.                                                       *)
Temporary(h) ==
  /\ IF pc[h] = "write" THEN fd[h] = tmp /\ tmp # NoInode /\ data[tmp] = Empty
     ELSE fd[h] = NoInode
  /\ pc[h] = "rename" => tmp # NoInode /\ data[tmp] = Whole(copy[h])

RequestsFollow == \A h \in Handlers : CopyFollows(h) /\ Temporary(h)

(* The program updates the enabled entries of the file, but between a rename   *)
(* and ReplaceProviders.                                                     *)
Updating ==
  life = "up" /\ (\A h \in Handlers : pc[h] # "replace") => records = Enabled(File.settings)

CInv == Shapes /\ Process /\ RequestsFollow /\ FileReadable /\ NeverRefused /\ Updating

(* What a page shows is what the file holds, until its request has changed it;   *)
(* so the program has to stay up.                                            *)
ShownFollows(h) ==
  /\ pc[h] \notin {"replace", "reply"} => shown[h] = File.settings
  /\ pc[h] \in Stages \ {"idle", "read", "reply"} => hit[h] = About(edit[h], shown[h])
PageFollows == life = "up" /\ \A h \in Handlers : ShownFollows(h)

-----------------------------------------------------------------------------
(* Lemmas on the operators.                                                 *)

LEMMA InodesEnough ==
  ASSUME OneRequest
  PROVE  NoInode \notin Inodes /\ 1 \in Inodes /\ 2 \in Inodes
<1>1. Cardinality(Handlers) \in {0, 1}
  <2>1. CASE Handlers = {}
    BY <2>1, FS_EmptySet
  <2>2. CASE Handlers # {}
    <3>1. PICK h \in Handlers : TRUE
      BY <2>2
    <3>2. Handlers = {h}
      BY <3>1 DEF OneRequest
    <3> QED
      BY <3>2, FS_Singleton
  <2> QED
    BY <2>1, <2>2
<1> QED
  BY <1>1 DEF NoInode, Inodes

(* With no temporary file there is an inode for one.                          *)
LEMMA UnnamedIsFree ==
  ASSUME OneRequest, config \in Inodes, tmp = NoInode, \A h \in Handlers : fd[h] = NoInode
  PROVE  Unnamed \in Inodes \ {config}
<1>1. \E i \in Inodes : i \notin {config, tmp} /\ \A h \in Handlers : fd[h] # i
  BY InodesEnough
<1> QED
  BY <1>1 DEF Unnamed

LEMMA WithoutIsSettings ==
  ASSUME NEW s \in Seq(Setting), NEW i \in 1..Len(s)
  PROVE  Without(s, i) \in Seq(Setting)
<1>1. Len(s) \in Nat /\ \A j \in 1..Len(s) : s[j] \in Setting
  BY LenProperties, ElementOfSeq
<1>2. i - 1 \in Int /\ i + 1 \in Int /\ 1 \in Int /\ Len(s) \in Int
  BY <1>1
<1>3. SubSeq(s, 1, i - 1) \in Seq(Setting)
  <2>1. \A j \in 1..(i - 1) : s[j] \in Setting
    BY <1>1
  <2> QED
    BY <1>2, <2>1, SubSeqProperties
<1>4. SubSeq(s, i + 1, Len(s)) \in Seq(Setting)
  <2>1. \A j \in (i + 1)..Len(s) : s[j] \in Setting
    BY <1>1
  <2> QED
    BY <1>2, <2>1, SubSeqProperties
<1> QED
  BY <1>3, <1>4, ConcatProperties DEF Without

LEMMA AppliedIsSettings ==
  ASSUME NEW s \in Seq(Setting), NEW e \in Edit, e.kind # "none", Applicable(e, s)
  PROVE  Applied(e, s) \in Seq(Setting)
<1>1. e.kind \in {"add", "set", "delete", "toggle"} /\ e.setting \in Setting
  BY DEF Edit
<1>2. CASE e.kind = "add"
  BY <1>1, <1>2 DEF Applied
<1>3. CASE e.kind # "add"
  <2>1. e.index \in 1..Len(s) /\ s[e.index] \in Setting
    BY <1>3, LenProperties, ElementOfSeq DEF Applicable
  <2>2. CASE e.kind = "set"
    BY <1>1, <2>1, <2>2, ExceptSeq DEF Applied
  <2>3. CASE e.kind = "delete"
    BY <2>1, <2>3, WithoutIsSettings DEF Applied
  <2>4. CASE e.kind = "toggle"
    <3> DEFINE other == [s[e.index] EXCEPT !.disabled = ~@]
    <3>1. other \in Setting
      BY <2>1 DEF Setting
    <3>2. Applied(e, s) = [s EXCEPT ![e.index] = other]
      BY <2>4 DEF Applied
    <3> QED
      BY <2>1, <3>1, <3>2, ExceptSeq
  <2> QED
    BY <1>1, <1>3, <2>2, <2>3, <2>4
<1> QED
  BY <1>2, <1>3

LEMMA AboutIsNames ==
  ASSUME NEW s \in Seq(Setting), NEW e \in Edit, e.kind # "none", Applicable(e, s)
  PROVE  About(e, s) \subseteq Names
<1>1. CASE e.kind \in {"set", "delete", "toggle"}
  <2>1. s[e.index] \in Setting
    BY <1>1, LenProperties, ElementOfSeq DEF Applicable
  <2> QED
    BY <1>1, <2>1 DEF About, Setting
<1>2. CASE e.kind \notin {"set", "delete", "toggle"}
  BY <1>2 DEF About
<1> QED
  BY <1>1, <1>2

(* A whole write into an emptied file leaves what was written.                *)
LEMMA OverlayOfEmpty ==
  ASSUME NEW s \in Seq(Setting)
  PROVE  Overlay(Empty, s) = Whole(s) /\ Whole(s) \in Content
<1>1. Len(Empty.settings) <= Len(s) /\ Empty.kind # "torn"
  BY LenProperties, EmptySeq DEF Empty
<1> QED
  BY <1>1 DEF Overlay, Whole, Content

LEMMA EmptyAndTorn == Empty \in Content /\ Torn \in Content
BY EmptySeq DEF Empty, Torn, Content

-----------------------------------------------------------------------------
(* The invariant holds at first, and every step keeps it.                     *)

LEMMA InvariantInitially ==
  ASSUME OneRequest, Installed, Init
  PROVE  CInv
<1>1. Whole(InitialSettings) \in Content /\ <<>> \in Seq(Setting) /\ InitialSettings \in Seq(Setting)
  BY OverlayOfEmpty, EmptySeq DEF Installed
<1>2. File = Whole(InitialSettings)
  BY InodesEnough DEF Init, File
<1>3. Shapes
  BY <1>1, InodesEnough, EmptyAndTorn DEF Init, Shapes, Stages
<1>4. Process
  BY DEF Init, Process
<1>5. RequestsFollow
  BY DEF Init, RequestsFollow, CopyFollows, Temporary
<1>6. FileReadable /\ NeverRefused /\ Updating
  BY <1>2 DEF Init, FileReadable, NeverRefused, Updating, Whole, Installed
<1> QED
  BY <1>3, <1>4, <1>5, <1>6 DEF CInv

(* A step of a request that leaves the files, the records and the process: what *)
(* remains is that the request goes on as the invariant says.                 *)
LEMMA RequestKeepsFiles ==
  ASSUME CInv, NEW h \in Handlers, OneRequest, pc[h] # "idle" \/ life = "up",
         UNCHANGED <<config, tmp, data, records, life, env>>,
         pc' \in [Handlers -> Stages \ {"replace"}], pc[h] # "replace",
         shown' \in [Handlers -> Seq(Setting)], copy' \in [Handlers -> Seq(Setting)],
         edit' \in [Handlers -> Edit \cup {NoEdit}], hit' \in [Handlers -> SUBSET Names],
         fd' \in [Handlers -> Inodes \cup {NoInode}],
         CopyFollows(h)', Temporary(h)'
  PROVE  CInv'
<1>1. File' = File
  BY DEF File
<1>2. Shapes'
  BY DEF CInv, Shapes
<1>3. life = "up" /\ Process'
  BY DEF CInv, Process
<1>4. RequestsFollow'
  BY DEF RequestsFollow, OneRequest
<1>5. FileReadable' /\ NeverRefused'
  BY <1>1 DEF CInv, FileReadable, NeverRefused
<1>6. Updating'
  <2>1. \A g \in Handlers : pc[g] # "replace"
    BY DEF OneRequest
  <2> QED
    BY <1>1, <1>3, <2>1 DEF CInv, Updating
<1> QED
  BY <1>2, <1>3, <1>4, <1>5, <1>6 DEF CInv

LEMMA ViewStep ==
  ASSUME CInv, OneRequest, NEW h \in Handlers, View(h)
  PROVE  CInv'
<1>1. Shapes /\ CopyFollows(h) /\ Temporary(h)
  BY DEF CInv, RequestsFollow
<1>2. File \in Content /\ pc[h] = "idle"
  BY <1>1 DEF Shapes, File, View
<1>3. /\ shown' \in [Handlers -> Seq(Setting)]
      /\ UNCHANGED <<config, tmp, data, pc, edit, copy, hit, fd, records, life, env>>
  BY <1>1, <1>2 DEF View, Shapes, Content
<1>4. pc' \in [Handlers -> Stages \ {"replace"}]
  BY <1>1, <1>2, <1>3 DEF Shapes, OneRequest
<1>5. CopyFollows(h)' /\ Temporary(h)'
  BY <1>1, <1>2, <1>3 DEF CopyFollows, Temporary, File
<1> QED
  BY <1>1, <1>2, <1>3, <1>4, <1>5, RequestKeepsFiles DEF Shapes, View

LEMMA SubmitStep ==
  ASSUME CInv, OneRequest, NEW h \in Handlers, Submit(h)
  PROVE  CInv'
<1>1. Shapes /\ Temporary(h) /\ pc[h] = "idle" /\ life = "up"
  BY DEF CInv, RequestsFollow, Submit
<1>2. PICK e \in Edit : e.kind # "none" /\ edit' = [edit EXCEPT ![h] = e]
  BY DEF Submit
<1>3. /\ pc' = [pc EXCEPT ![h] = "read"]
      /\ UNCHANGED <<config, tmp, data, shown, copy, hit, fd, records, life, env>>
  BY DEF Submit, Goto
<1>4. /\ pc' \in [Handlers -> Stages \ {"replace"}] /\ pc'[h] = "read"
      /\ edit' \in [Handlers -> Edit \cup {NoEdit}] /\ edit'[h] = e
  BY <1>1, <1>2, <1>3 DEF Shapes, OneRequest, Stages
<1>5. CopyFollows(h)' /\ Temporary(h)'
  BY <1>1, <1>2, <1>3, <1>4 DEF CopyFollows, Temporary
<1> QED
  BY <1>1, <1>3, <1>4, <1>5, RequestKeepsFiles DEF Shapes

LEMMA ReadStep ==
  ASSUME CInv, OneRequest, NEW h \in Handlers, ReadRawConfig(h)
  PROVE  CInv'
<1>1. Shapes /\ CopyFollows(h) /\ Temporary(h) /\ pc[h] = "read"
  BY DEF CInv, RequestsFollow, ReadRawConfig
<1>2. /\ edit[h] \in Edit /\ edit[h].kind # "none"
      /\ UNCHANGED <<config, tmp, data, shown, edit, fd, records, life, env>>
      /\ File \in Content /\ File.settings \in Seq(Setting) /\ File' = File
  BY <1>1 DEF CopyFollows, ReadRawConfig, Shapes, File, Content
<1>3. CASE Readable(File) /\ Applicable(edit[h], File.settings)
  <2>1. /\ copy' = [copy EXCEPT ![h] = Applied(edit[h], File.settings)]
        /\ hit' = [hit EXCEPT ![h] = About(edit[h], File.settings)]
        /\ pc' = [pc EXCEPT ![h] = "validate"]
    BY <1>3 DEF ReadRawConfig, Goto
  <2>2. /\ Applied(edit[h], File.settings) \in Seq(Setting)
        /\ About(edit[h], File.settings) \subseteq Names
    BY <1>2, <1>3, AppliedIsSettings, AboutIsNames
  <2>3. /\ copy' \in [Handlers -> Seq(Setting)] /\ copy'[h] = Applied(edit[h], File.settings)
        /\ hit' \in [Handlers -> SUBSET Names]
        /\ pc' \in [Handlers -> Stages \ {"replace"}] /\ pc'[h] = "validate"
    BY <1>1, <2>1, <2>2 DEF Shapes, OneRequest, Stages
  <2>4. CopyFollows(h)' /\ Temporary(h)'
    BY <1>1, <1>2, <1>3, <2>3 DEF CopyFollows, Temporary
  <2> QED
    BY <1>1, <1>2, <2>3, <2>4, RequestKeepsFiles DEF Shapes
<1>4. CASE ~(Readable(File) /\ Applicable(edit[h], File.settings))
  <2>1. pc' = [pc EXCEPT ![h] = "idle"] /\ UNCHANGED <<copy, hit>>
    BY <1>4 DEF ReadRawConfig, Goto
  <2>2. pc' \in [Handlers -> Stages \ {"replace"}] /\ pc'[h] = "idle"
    BY <1>1, <2>1 DEF Shapes, OneRequest, Stages
  <2>3. CopyFollows(h)' /\ Temporary(h)'
    BY <1>1, <1>2, <2>1, <2>2 DEF CopyFollows, Temporary
  <2> QED
    BY <1>1, <1>2, <2>1, <2>2, <2>3, RequestKeepsFiles DEF Shapes
<1> QED
  BY <1>3, <1>4

LEMMA ExtractStep ==
  ASSUME CInv, OneRequest, NEW h \in Handlers, ExtractProviders(h)
  PROVE  CInv'
<1>1. Shapes /\ CopyFollows(h) /\ Temporary(h) /\ pc[h] = "validate"
  BY DEF CInv, RequestsFollow, ExtractProviders
<1>2. /\ pc' = [pc EXCEPT ![h] = IF Valid(copy[h]) THEN "create" ELSE "idle"]
      /\ UNCHANGED <<config, tmp, data, shown, edit, copy, hit, fd, records, life, env>>
      /\ File' = File
  BY DEF ExtractProviders, Goto, File
<1>3. /\ pc' \in [Handlers -> Stages \ {"replace"}]
      /\ \/ pc'[h] = "create" /\ Valid(copy[h])
         \/ pc'[h] = "idle"
  BY <1>1, <1>2 DEF Shapes, OneRequest, Stages
<1>4. CopyFollows(h)' /\ Temporary(h)'
  BY <1>1, <1>2, <1>3 DEF CopyFollows, Temporary, Valid
<1> QED
  BY <1>1, <1>2, <1>3, <1>4, RequestKeepsFiles DEF Shapes

LEMMA ReplyStep ==
  ASSUME CInv, OneRequest, NEW h \in Handlers, Reply(h)
  PROVE  CInv'
<1>1. Shapes /\ CopyFollows(h) /\ Temporary(h) /\ pc[h] = "reply"
  BY DEF CInv, RequestsFollow, Reply
<1>2. /\ pc' = [pc EXCEPT ![h] = "idle"]
      /\ UNCHANGED <<config, tmp, data, edit, copy, hit, fd, records, life, env>>
      /\ File \in Content
  BY <1>1 DEF Reply, Goto, File, Shapes
<1>3. shown' \in [Handlers -> Seq(Setting)]
  BY <1>1, <1>2 DEF Reply, Shapes, Content
<1>4. pc' \in [Handlers -> Stages \ {"replace"}] /\ pc'[h] = "idle"
  BY <1>1, <1>2 DEF Shapes, OneRequest, Stages
<1>5. CopyFollows(h)' /\ Temporary(h)'
  BY <1>1, <1>2, <1>4 DEF CopyFollows, Temporary
<1> QED
  BY <1>1, <1>2, <1>3, <1>4, <1>5, RequestKeepsFiles DEF Shapes

(* The steps on the files.                                                  *)

LEMMA OpenStep ==
  ASSUME CInv, OneRequest, NEW h \in Handlers, OpenTemporary(h)
  PROVE  CInv' /\ File' = File
<1>1. /\ Shapes /\ CopyFollows(h) /\ Temporary(h) /\ pc[h] = "create" /\ life = "up"
      /\ \A g \in Handlers : g = h
  BY DEF CInv, RequestsFollow, OpenTemporary, OneRequest, Process
<1>2. PICK inode \in Inodes \ {config} :
        /\ tmp' = inode /\ fd' = [fd EXCEPT ![h] = inode]
        /\ data' = [data EXCEPT ![inode] = Empty]
  <2>1. CASE tmp = NoInode
    <3>1. Unnamed \in Inodes \ {config}
      BY <1>1, <2>1, UnnamedIsFree DEF Shapes, Temporary
    <3> QED
      BY <2>1, <3>1 DEF OpenTemporary
  <2>2. CASE tmp # NoInode
    BY <1>1, <2>2 DEF OpenTemporary, Shapes
  <2> QED
    BY <2>1, <2>2
<1>3. /\ pc' = [pc EXCEPT ![h] = "write"]
      /\ UNCHANGED <<config, shown, edit, copy, hit, records, life, env>>
  BY DEF OpenTemporary, Goto
<1>4. inode # NoInode /\ inode # config
  BY <1>2, InodesEnough
<1>5. /\ pc' \in [Handlers -> Stages] /\ pc'[h] = "write" /\ fd'[h] = inode
      /\ data' \in [Inodes -> Content] /\ data'[inode] = Empty /\ data'[config] = data[config]
      /\ fd' \in [Handlers -> Inodes \cup {NoInode}]
  BY <1>1, <1>2, <1>3, <1>4, EmptyAndTorn DEF Shapes, Stages
<1>6. File' = File
  BY <1>3, <1>5 DEF File
<1>7. Shapes'
  BY <1>1, <1>2, <1>3, <1>4, <1>5 DEF Shapes
<1>8. RequestsFollow'
  <2>1. CopyFollows(h)'
    BY <1>1, <1>3, <1>5, <1>6 DEF CopyFollows
  <2>2. Temporary(h)'
    BY <1>2, <1>4, <1>5 DEF Temporary
  <2> QED
    BY <1>1, <2>1, <2>2 DEF RequestsFollow
<1>9. Process' /\ FileReadable' /\ NeverRefused' /\ Updating'
  BY <1>1, <1>3, <1>6 DEF CInv, Process, FileReadable, NeverRefused, Updating
<1> QED
  BY <1>6, <1>7, <1>8, <1>9 DEF CInv

LEMMA WriteStep ==
  ASSUME CInv, OneRequest, NEW h \in Handlers, WriteTemporary(h)
  PROVE  CInv' /\ File' = File
<1>1. /\ Shapes /\ CopyFollows(h) /\ Temporary(h) /\ pc[h] = "write" /\ life = "up"
      /\ \A g \in Handlers : g = h
  BY DEF CInv, RequestsFollow, WriteTemporary, OneRequest, Process
<1>2. /\ fd[h] = tmp /\ tmp \in Inodes \ {config} /\ tmp # NoInode /\ data[tmp] = Empty
      /\ copy[h] \in Seq(Setting)
  BY <1>1 DEF Shapes, Temporary
<1>3. PICK content \in Content, stage \in {"rename", "idle"} :
        /\ data' = [data EXCEPT ![tmp] = content] /\ pc' = [pc EXCEPT ![h] = stage]
        /\ stage = "rename" => content = Whole(copy[h])
  <2>1. Overlay(data[tmp], copy[h]) = Whole(copy[h]) /\ Whole(copy[h]) \in Content
    BY <1>2, OverlayOfEmpty
  <2>2. CASE data' = [data EXCEPT ![fd[h]] = Overlay(@, copy[h])] /\ Goto(h, "rename")
    BY <1>1, <1>2, <2>1, <2>2 DEF Goto, Shapes
  <2>3. CASE data' = [data EXCEPT ![fd[h]] = Torn] /\ Goto(h, "idle")
    BY <1>2, <2>3, EmptyAndTorn DEF Goto
  <2> QED
    BY <2>2, <2>3 DEF WriteTemporary
<1>4. /\ fd' = [fd EXCEPT ![h] = NoInode]
      /\ UNCHANGED <<config, tmp, shown, edit, copy, hit, records, life, env>>
  BY DEF WriteTemporary
<1>5. /\ pc' \in [Handlers -> Stages] /\ pc'[h] = stage /\ fd'[h] = NoInode
      /\ data' \in [Inodes -> Content] /\ data'[tmp] = content /\ data'[config] = data[config]
      /\ fd' \in [Handlers -> Inodes \cup {NoInode}]
  BY <1>1, <1>2, <1>3, <1>4 DEF Shapes, Stages
<1>6. File' = File
  BY <1>4, <1>5 DEF File
<1>7. Shapes'
  BY <1>1, <1>4, <1>5 DEF Shapes
<1>8. RequestsFollow'
  <2>1. CopyFollows(h)'
    BY <1>1, <1>4, <1>5, <1>6 DEF CopyFollows
  <2>2. Temporary(h)'
    BY <1>2, <1>3, <1>4, <1>5 DEF Temporary
  <2> QED
    BY <1>1, <2>1, <2>2 DEF RequestsFollow
<1>9. Process' /\ FileReadable' /\ NeverRefused' /\ Updating'
  BY <1>1, <1>4, <1>6 DEF CInv, Process, FileReadable, NeverRefused, Updating
<1> QED
  BY <1>6, <1>7, <1>8, <1>9 DEF CInv

LEMMA RenameStep ==
  ASSUME CInv, OneRequest, NEW h \in Handlers, RenameTemporary(h)
  PROVE  CInv'
<1>1. /\ Shapes /\ CopyFollows(h) /\ Temporary(h) /\ pc[h] = "rename" /\ life = "up"
      /\ \A g \in Handlers : g = h
  BY DEF CInv, RequestsFollow, RenameTemporary, OneRequest, Process
<1>2. /\ config' = tmp /\ tmp' = NoInode /\ pc' = [pc EXCEPT ![h] = "replace"]
      /\ UNCHANGED <<data, shown, edit, copy, hit, fd, records, life, env>>
  BY <1>1 DEF RenameTemporary, Goto, Temporary
<1>3. tmp \in Inodes /\ tmp # NoInode /\ File' = Whole(copy[h]) /\ Valid(copy[h])
  BY <1>1, <1>2 DEF Temporary, CopyFollows, File, Shapes
<1>4. pc' \in [Handlers -> Stages] /\ pc'[h] = "replace"
  BY <1>1, <1>2 DEF Shapes, Stages
<1>5. Shapes'
  BY <1>1, <1>2, <1>3, <1>4 DEF Shapes
<1>6. CopyFollows(h)' /\ Temporary(h)'
  BY <1>1, <1>2, <1>3, <1>4 DEF CopyFollows, Temporary
<1>7. Process' /\ NeverRefused'
  BY <1>1, <1>2 DEF CInv, Process, NeverRefused
<1>8. FileReadable'
  BY <1>3 DEF FileReadable, Whole, Valid
<1>9. Updating'
  BY <1>4 DEF Updating
<1> QED
  BY <1>1, <1>5, <1>6, <1>7, <1>8, <1>9 DEF CInv, RequestsFollow

LEMMA ReplaceStep ==
  ASSUME CInv, OneRequest, NEW h \in Handlers, ReplaceProviders(h)
  PROVE  CInv'
<1>1. /\ Shapes /\ CopyFollows(h) /\ Temporary(h) /\ pc[h] = "replace" /\ life = "up"
      /\ \A g \in Handlers : g = h
  BY DEF CInv, RequestsFollow, ReplaceProviders, OneRequest, Process
<1>2. /\ pc' = [pc EXCEPT ![h] = "reply"] /\ records' = Enabled(copy[h])
      /\ UNCHANGED <<config, tmp, data, shown, edit, copy, hit, fd, life, env>>
      /\ File' = File /\ File = Whole(copy[h])
  BY <1>1 DEF ReplaceProviders, Goto, File, CopyFollows
<1>3. pc' \in [Handlers -> Stages] /\ pc'[h] = "reply"
  BY <1>1, <1>2 DEF Shapes, Stages
<1>4. Shapes'
  BY <1>1, <1>2, <1>3 DEF Shapes
<1>5. CopyFollows(h)' /\ Temporary(h)'
  BY <1>1, <1>2, <1>3 DEF CopyFollows, Temporary
<1>6. Process' /\ NeverRefused' /\ FileReadable'
  BY <1>1, <1>2 DEF CInv, Process, NeverRefused, FileReadable
<1>7. Updating'
  <2>1. File'.settings = copy[h]
    BY <1>2 DEF Whole
  <2> QED
    BY <1>2, <2>1 DEF Updating
<1> QED
  BY <1>1, <1>4, <1>5, <1>6, <1>7 DEF CInv, RequestsFollow

(* The steps of the process.                                                *)

LEMMA KillStep ==
  ASSUME CInv, WholeStarts, Kill
  PROVE  CInv'
<1>1. /\ Shapes /\ Process /\ life # "starting" /\ life' = "down"
      /\ pc' = [h \in Handlers |-> "idle"] /\ fd' = [h \in Handlers |-> NoInode]
      /\ UNCHANGED <<config, tmp, data, shown, edit, copy, hit, env>> /\ File' = File
  BY DEF CInv, Kill, WholeStarts, Process, File
<1>2. Shapes'
  BY <1>1 DEF Shapes, Stages
<1>3. Process' /\ NeverRefused' /\ Updating' /\ FileReadable'
  BY <1>1 DEF CInv, Process, NeverRefused, Updating, FileReadable
<1>4. RequestsFollow'
  BY <1>1 DEF RequestsFollow, CopyFollows, Temporary
<1> QED
  BY <1>2, <1>3, <1>4 DEF CInv

(* Between two lives no request is in progress, so none has to be followed.     *)
LEMMA IdleRequests ==
  ASSUME RequestsFollow, \A h \in Handlers : pc[h] = "idle", UNCHANGED <<pc, fd>>
  PROVE  RequestsFollow'
BY DEF RequestsFollow, CopyFollows, Temporary

LEMMA StartFromFileStep ==
  ASSUME CInv, StartFromFile
  PROVE  CInv'
<1>1. /\ life = "down" /\ Shapes /\ Process /\ RequestsFollow /\ FileReadable /\ env' = {}
      /\ UNCHANGED <<config, tmp, data, pc, shown, edit, copy, hit, fd>> /\ File' = File
  BY DEF CInv, StartFromFile, File
<1>2. File.kind = "json" /\ Valid(File.settings) /\ life' = "up" /\ records' = Enabled(File.settings)
  BY <1>1 DEF FileReadable, StartFromFile
<1>3. Shapes' /\ Process'
  BY <1>1, <1>2 DEF Shapes, Process
<1>4. RequestsFollow'
  BY <1>1, IdleRequests DEF Process
<1>5. NeverRefused' /\ Updating' /\ FileReadable'
  BY <1>1, <1>2 DEF NeverRefused, Updating, FileReadable
<1> QED
  BY <1>3, <1>4, <1>5 DEF CInv

LEMMA StartFromEnvStep ==
  ASSUME CInv, Installed, StartFromEnv
  PROVE  CInv'
<1>1. /\ life = "down" /\ life' = "starting" /\ Shapes /\ Process /\ RequestsFollow
      /\ UNCHANGED <<config, tmp, pc, shown, edit, copy, hit, fd>>
      /\ data' = [data EXCEPT ![config] = Empty]
  BY DEF CInv, StartFromEnv
<1>2. PICK settings \in EnvSettings : Valid(settings) /\ env' = {settings}
  BY DEF StartFromEnv
<1>3. Shapes'
  BY <1>1, EmptyAndTorn DEF Shapes
<1>4. Process'
  BY <1>1, <1>2 DEF Process, Installed
<1>5. RequestsFollow'
  BY <1>1, IdleRequests DEF Process
<1>6. NeverRefused' /\ Updating' /\ FileReadable'
  BY <1>1 DEF NeverRefused, Updating, FileReadable
<1> QED
  BY <1>3, <1>4, <1>5, <1>6 DEF CInv

LEMMA WriteEnvStep ==
  ASSUME CInv, WriteEnv
  PROVE  CInv'
<1>1. /\ life = "starting" /\ life' = "up" /\ Shapes /\ Process /\ RequestsFollow
      /\ UNCHANGED <<config, tmp, pc, shown, edit, copy, hit, fd, env>>
  BY DEF CInv, WriteEnv
<1>2. PICK settings \in env :
        data' = [data EXCEPT ![config] = Whole(settings)] /\ records' = Enabled(settings)
  BY DEF WriteEnv
<1>3. settings \in Seq(Setting) /\ Valid(settings)
  BY <1>1, <1>2 DEF Process
<1>4. File' = Whole(settings)
  BY <1>1, <1>2 DEF File, Shapes
<1>5. Shapes'
  BY <1>1, <1>2, <1>3, OverlayOfEmpty DEF Shapes
<1>6. Process'
  BY <1>1 DEF Process
<1>7. RequestsFollow'
  BY <1>1, IdleRequests DEF Process
<1>8. FileReadable' /\ NeverRefused'
  BY <1>1, <1>3, <1>4 DEF FileReadable, NeverRefused, Whole, Valid
<1>9. Updating'
  <2>1. File'.settings = settings
    BY <1>4 DEF Whole
  <2> QED
    BY <1>2, <2>1 DEF Updating
<1> QED
  BY <1>5, <1>6, <1>7, <1>8, <1>9 DEF CInv

LEMMA InvariantKept ==
  ASSUME OneRequest, Installed, WholeStarts, CInv, [Next]_vars
  PROVE  CInv'
<1>1. ASSUME NEW h \in Handlers, Request(h) PROVE CInv'
  BY <1>1, ViewStep, SubmitStep, ReadStep, ExtractStep, OpenStep, WriteStep, RenameStep,
     ReplaceStep, ReplyStep DEF Request
<1>2. CASE Kill \/ StartFromFile \/ StartFromEnv \/ WriteEnv
  BY <1>2, KillStep, StartFromFileStep, StartFromEnvStep, WriteEnvStep
<1>3. CASE UNCHANGED vars
  <2>1. File' = File
    BY <1>3 DEF vars, File
  <2>2. Shapes' /\ Process'
    BY <1>3 DEF CInv, vars, Shapes, Process
  <2>3. RequestsFollow'
    BY <1>3, <2>1 DEF CInv, vars, RequestsFollow, CopyFollows, Temporary
  <2>4. FileReadable' /\ NeverRefused' /\ Updating'
    BY <1>3, <2>1 DEF CInv, vars, FileReadable, NeverRefused, Updating
  <2> QED
    BY <2>2, <2>3, <2>4 DEF CInv
<1> QED
  BY <1>1, <1>2, <1>3 DEF Next

-----------------------------------------------------------------------------
(* With one request at a time, killed at any moment and with any write failing, *)
(* config.json is a document the program accepts: what the temporary file and   *)
(* the rename of writeRawConfig are for.                                      *)
THEOREM FileReadableAlone ==
  ASSUME OneRequest, Installed, WholeStarts
  PROVE  Spec => []FileReadable
<1>1. Init => CInv
  BY InvariantInitially
<1>2. CInv /\ [Next]_vars => CInv'
  BY InvariantKept
<1>3. CInv => FileReadable
  BY DEF CInv
<1> QED
  BY <1>1, <1>2, <1>3, PTL DEF Spec

(* The same of a start: JSONProviders never refuses the file the program left.   *)
THEOREM NeverRefusedAlone ==
  ASSUME OneRequest, Installed, WholeStarts
  PROVE  Spec => []NeverRefused
<1>1. Init => CInv
  BY InvariantInitially
<1>2. CInv /\ [Next]_vars => CInv'
  BY InvariantKept
<1>3. CInv => NeverRefused
  BY DEF CInv
<1> QED
  BY <1>1, <1>2, <1>3, PTL DEF Spec

(* Between requests ReplaceProviders has given the program the enabled entries   *)
(* of the file, after any sequence of edits, failures and restarts.            *)
THEOREM RecordsMatchFileAlone ==
  ASSUME OneRequest, Installed, WholeStarts
  PROVE  Spec => []RecordsMatchFile
<1>1. Init => CInv
  BY InvariantInitially
<1>2. CInv /\ [Next]_vars => CInv'
  BY InvariantKept
<1>3. CInv => RecordsMatchFile
  BY DEF CInv, Updating, RecordsMatchFile, Quiet
<1> QED
  BY <1>1, <1>2, <1>3, PTL DEF Spec

(* What a step of a request does to config.json: only the rename changes it,    *)
(* and it puts the file with one edit made in its place.                       *)
LEMMA OnlyRenameChangesFile ==
  ASSUME CInv, OneRequest, NEW h \in Handlers, Request(h)
  PROVE  \/ File' = File /\ ~RenameTemporary(h)
         \/ /\ RenameTemporary(h) /\ pc[h] = "rename" /\ Applicable(edit[h], File.settings)
            /\ File' = Whole(Applied(edit[h], File.settings))
<1>1. CopyFollows(h) /\ Temporary(h)
  BY DEF CInv, RequestsFollow
<1>2. CASE RenameTemporary(h)
  <2>1. pc[h] = "rename" /\ config' = tmp /\ UNCHANGED data
    BY <1>1, <1>2 DEF RenameTemporary, Temporary
  <2>2. File' = Whole(copy[h])
    BY <1>1, <2>1 DEF File, Temporary
  <2> QED
    BY <1>1, <1>2, <2>1, <2>2 DEF CopyFollows
<1>3. CASE OpenTemporary(h) \/ WriteTemporary(h)
  <2>1. pc[h] # "rename"
    BY <1>3 DEF OpenTemporary, WriteTemporary
  <2> QED
    BY <1>3, <2>1, OpenStep, WriteStep DEF RenameTemporary
<1>4. CASE View(h) \/ Submit(h) \/ ReadRawConfig(h) \/ ExtractProviders(h)
           \/ ReplaceProviders(h) \/ Reply(h)
  <2>1. UNCHANGED <<config, data>> /\ pc[h] # "rename"
    BY <1>4 DEF View, Submit, ReadRawConfig, ExtractProviders, ReplaceProviders, Reply
  <2> QED
    BY <2>1 DEF File, RenameTemporary
<1> QED
  BY <1>2, <1>3, <1>4 DEF Request

(* Whatever is written to config.json while the program is up is what was there  *)
(* with one edit made to it: no edit is lost, or made in part.                 *)
THEOREM EditsAreSerialAlone ==
  ASSUME OneRequest, Installed, WholeStarts
  PROVE  Spec => EditsAreSerial
<1> DEFINE Serial ==
      File' # File /\ life = "up" =>
        \E h \in Handlers : Applicable(edit[h], File.settings)
                            /\ File' = Whole(Applied(edit[h], File.settings))
<1>1. Init => CInv
  BY InvariantInitially
<1>2. CInv /\ [Next]_vars => CInv'
  BY InvariantKept
<1>3. CInv /\ [Next]_vars => [Serial]_vars
  <2> SUFFICES ASSUME CInv, Next, File' # File, life = "up"
               PROVE  \E h \in Handlers : Applicable(edit[h], File.settings)
                                          /\ File' = Whole(Applied(edit[h], File.settings))
    OBVIOUS
  <2>1. CASE Kill \/ StartFromFile \/ StartFromEnv \/ WriteEnv
    BY <2>1 DEF Kill, StartFromFile, StartFromEnv, WriteEnv, File
  <2>2. ASSUME NEW h \in Handlers, Request(h)
        PROVE  Applicable(edit[h], File.settings) /\ File' = Whole(Applied(edit[h], File.settings))
    BY <2>2, OnlyRenameChangesFile
  <2> QED
    BY <2>1, <2>2 DEF Next
<1> QED
  BY <1>1, <1>2, <1>3, PTL DEF Spec, EditsAreSerial

-----------------------------------------------------------------------------
LEMMA PageFollowsKept ==
  ASSUME CInv, PageFollows, OneRequest, "kill" \notin Faults, [Next]_vars
  PROVE  PageFollows'
<1>1. CASE UNCHANGED vars
  BY <1>1 DEF vars, PageFollows, ShownFollows, File
<1>2. CASE Kill \/ StartFromFile \/ StartFromEnv \/ WriteEnv
  BY <1>2 DEF PageFollows, Kill, StartFromFile, StartFromEnv, WriteEnv
<1>3. ASSUME NEW h \in Handlers, Request(h) PROVE PageFollows'
  <2>1. /\ Shapes /\ CopyFollows(h) /\ ShownFollows(h) /\ life = "up"
        /\ \A g \in Handlers : g = h
    BY DEF CInv, RequestsFollow, PageFollows, OneRequest
  <2>2. life' = "up"
    BY <1>3, <2>1 DEF Request, View, Submit, ReadRawConfig, ExtractProviders, OpenTemporary,
       WriteTemporary, RenameTemporary, ReplaceProviders, Reply
  <2>3. SUFFICES ShownFollows(h)'
    BY <2>1, <2>2 DEF PageFollows
  <2>4. File' = File \/ RenameTemporary(h)
    BY <1>3, OnlyRenameChangesFile
  <2>5. CASE View(h)
    BY <2>1, <2>4, <2>5 DEF View, ShownFollows, Shapes, RenameTemporary
  <2>6. CASE Submit(h)
    <3>1. pc'[h] = "read" /\ UNCHANGED <<shown, config, data>> /\ pc[h] = "idle"
      BY <2>1, <2>6 DEF Submit, Goto, Shapes
    <3> QED
      BY <2>1, <3>1 DEF ShownFollows, File
  <2>7. CASE ReadRawConfig(h)
    <3>1. /\ UNCHANGED <<shown, edit, config, data>> /\ pc[h] = "read" /\ File' = File
          /\ \/ pc'[h] = "validate" /\ hit'[h] = About(edit[h], File.settings)
             \/ pc'[h] = "idle"
      BY <2>1, <2>7 DEF ReadRawConfig, Goto, Shapes, File
    <3> QED
      BY <2>1, <3>1 DEF ShownFollows
  <2>8. CASE ExtractProviders(h) \/ OpenTemporary(h) \/ WriteTemporary(h)
    <3>1. /\ UNCHANGED <<shown, edit, hit>> /\ pc[h] \in {"validate", "create", "write"}
          /\ pc'[h] \in {"create", "write", "rename", "idle"}
      BY <2>1, <2>8 DEF ExtractProviders, OpenTemporary, WriteTemporary, Goto, Shapes
    <3>2. File' = File
      BY <2>4, <3>1 DEF RenameTemporary
    <3> QED
      BY <2>1, <3>1, <3>2 DEF ShownFollows, Stages
  <2>9. CASE RenameTemporary(h)
    <3>1. UNCHANGED <<shown, edit, hit>> /\ pc[h] = "rename" /\ pc'[h] = "replace"
      BY <2>1, <2>9 DEF RenameTemporary, Goto, Shapes, CInv, RequestsFollow, Temporary
    <3> QED
      BY <2>1, <3>1 DEF ShownFollows, Stages
  <2>10. CASE ReplaceProviders(h)
    <3>1. pc'[h] = "reply"
      BY <2>1, <2>10 DEF ReplaceProviders, Goto, Shapes
    <3> QED
      BY <3>1 DEF ShownFollows
  <2>11. CASE Reply(h)
    <3>1. Readable(File)
      BY <2>1 DEF CInv, FileReadable, Readable
    <3>2. pc'[h] = "idle" /\ shown'[h] = File.settings /\ File' = File
      BY <2>1, <2>11, <3>1 DEF Reply, Goto, Shapes, File
    <3> QED
      BY <3>2 DEF ShownFollows
  <2> QED
    BY <1>3, <2>5, <2>6, <2>7, <2>8, <2>9, <2>10, <2>11 DEF Request
<1> QED
  BY <1>1, <1>2, <1>3 DEF Next

(* With one page, in a program that stays up, an edit by index changes the entry  *)
(* the user saw at that index: the page is never older than the file.          *)
THEOREM EditHitsItsEntryAlone ==
  ASSUME OneRequest, Installed, "kill" \notin Faults
  PROVE  Spec => []EditHitsItsEntry
<1>1. Init => CInv /\ PageFollows
  <2>1. ASSUME Init PROVE PageFollows
    <3>1. File.settings = InitialSettings
      BY <2>1, InodesEnough DEF Init, File, Whole
    <3> QED
      BY <2>1, <3>1 DEF Init, PageFollows, ShownFollows
  <2> QED
    BY <2>1, InvariantInitially
<1>2. CInv /\ PageFollows /\ [Next]_vars => (CInv /\ PageFollows)'
  BY InvariantKept, PageFollowsKept DEF WholeStarts
<1>3. CInv /\ PageFollows => EditHitsItsEntry
  BY DEF PageFollows, ShownFollows, EditHitsItsEntry
<1> QED
  BY <1>1, <1>2, <1>3, PTL DEF Spec

-----------------------------------------------------------------------------
(* The admin mode. The inductive invariant of the sessions, then that of the   *)
(* password file.                                                            *)
Tokens == 1..tokens
AuthRequest ==
  [op : {"unlock", "page", "change"}, step : {"read", "truncate", "write", "answer", "grant"},
   who : Browsers, arg : Passwords, acked : SUBSET Passwords]

AuthShapes ==
  /\ password \in {Absent, Emptied} \cup {Hash(p) : p \in Passwords} \cup {Plain(p) : p \in Passwords}
  /\ up \in {"down", "ensuring", "up"} /\ spoiled \in BOOLEAN
  /\ now \in Nat /\ tokens \in Nat
  /\ DOMAIN sessions \subseteq Tokens /\ DOMAIN granted \subseteq Tokens
  /\ cookie \in [Browsers -> Tokens \cup {NoCookie}] /\ locked \subseteq Tokens
  /\ req \in [Requests -> AuthRequest \cup {Idle}]
  /\ promised # {} /\ promised \subseteq Passwords

(* A session in the table was given by this process, expires as it was given,  *)
(* and has not been locked.                                                  *)
SessionsHonest ==
  \A t \in DOMAIN sessions :
    t \in DOMAIN granted \ locked /\ granted[t] \in Nat /\ sessions[t] = granted[t] + Life

AuthInv == AuthShapes /\ SessionsHonest

LEMMA IdleIsNoRequest == Idle \notin AuthRequest
BY DEF Idle, AuthRequest

LEMMA WithoutExpiredKept ==
  ASSUME AuthInv, NEW b \in Browsers
  PROVE  /\ DOMAIN WithoutExpired(b) \subseteq DOMAIN sessions
         /\ \A t \in DOMAIN WithoutExpired(b) : WithoutExpired(b)[t] = sessions[t]
BY DEF WithoutExpired, Restrict

LEMMA AuthInitially == AuthInit => AuthInv
<1> SUFFICES ASSUME AuthInit PROVE AuthInv
  OBVIOUS
<1>1. password \in {Absent, Emptied} \cup {Hash(p) : p \in Passwords} \cup {Plain(p) : p \in Passwords}
  BY AuthAssumption DEF AuthInit
<1>2. promised # {} /\ promised \subseteq Passwords
  BY AuthAssumption DEF AuthInit, Hash, Plain, Absent
<1>3. DOMAIN sessions = {} /\ DOMAIN granted = {}
  BY DEF AuthInit
<1>4. cookie \in [Browsers -> Tokens \cup {NoCookie}] /\ req \in [Requests -> AuthRequest \cup {Idle}]
  BY DEF AuthInit
<1> QED
  BY <1>1, <1>2, <1>3, <1>4 DEF AuthInit, AuthInv, AuthShapes, SessionsHonest

LEMMA AuthKept == AuthInv /\ [AuthNext]_authVars => AuthInv'
<1> SUFFICES ASSUME AuthInv, [AuthNext]_authVars PROVE AuthInv'
  OBVIOUS
<1> USE IdleIsNoRequest
<1>1. CASE UNCHANGED authVars
  BY <1>1 DEF AuthInv, AuthShapes, SessionsHonest, Tokens, authVars
<1>2. ASSUME NEW r \in Requests, NEW b \in Browsers, Page(r, b) PROVE AuthInv'
  <2>1. req' \in [Requests -> AuthRequest \cup {Idle}]
    BY <1>2, AuthAssumption DEF AuthInv, AuthShapes, Page, Serve, AuthRequest
  <2> QED
    BY <1>2, <2>1, WithoutExpiredKept
    DEF AuthInv, AuthShapes, SessionsHonest, Tokens, Page, Serve, told, process
<1>3. ASSUME NEW r \in Requests, NEW b \in Browsers, NEW p \in Passwords, AdminUnlock(r, b, p)
      PROVE  AuthInv'
  <2>1. req' \in [Requests -> AuthRequest \cup {Idle}]
    BY <1>3 DEF AuthInv, AuthShapes, AdminUnlock, Serve, AuthRequest
  <2> QED
    BY <1>3, <2>1
    DEF AuthInv, AuthShapes, SessionsHonest, Tokens, AdminUnlock, Serve, told, process, table
<1>4. ASSUME NEW r \in Requests, NEW b \in Browsers, NEW p \in Passwords, AdminChangePassword(r, b, p)
      PROVE  AuthInv'
  <2>1. req' \in [Requests -> AuthRequest \cup {Idle}]
    BY <1>4 DEF AuthInv, AuthShapes, AdminChangePassword, Serve, AuthRequest
  <2>2. up' = up
    BY <1>4 DEF AdminChangePassword, process
  <2> QED
    BY <1>4, <2>1, <2>2, WithoutExpiredKept
    DEF AuthInv, AuthShapes, SessionsHonest, Tokens, AdminChangePassword, told, process
<1>5. ASSUME NEW b \in Browsers, AdminLock(b) PROVE AuthInv'
  <2>1. cookie' \in [Browsers -> Tokens \cup {NoCookie}] /\ locked' \subseteq Tokens /\ tokens' = tokens
    BY <1>5 DEF AuthInv, AuthShapes, AdminLock
  <2>2. /\ DOMAIN sessions' = DOMAIN sessions \ {cookie[b]}
        /\ \A t \in DOMAIN sessions' : sessions'[t] = sessions[t]
    BY <1>5 DEF AdminLock, Restrict
  <2>3. SessionsHonest'
    BY <1>5, <2>2 DEF AuthInv, SessionsHonest, AdminLock
  <2> QED
    BY <1>5, <2>1, <2>2, <2>3 DEF AuthInv, AuthShapes, Tokens, AdminLock, told, process
<1>6. ASSUME NEW r \in Requests, Serving(r) PROVE AuthInv'
  <2>1. CASE AdminPasswordMatches(r)
    <3>1. req[r] \in AuthRequest
      BY <2>1 DEF AuthInv, AuthShapes, AdminPasswordMatches, Idle
    <3>2. req'[r] \in AuthRequest \cup {Idle}
      BY <2>1, <3>1 DEF AuthInv, AuthShapes, AdminPasswordMatches, AuthRequest
    <3>3. req' \in [Requests -> AuthRequest \cup {Idle}]
      BY <2>1, <3>2 DEF AuthInv, AuthShapes, AdminPasswordMatches
    <3> QED
      BY <2>1, <3>3
      DEF AuthInv, AuthShapes, SessionsHonest, Tokens, AdminPasswordMatches, told, process, table
  <2>2. CASE Truncate(r)
    <3>1. req[r] \in AuthRequest
      BY <2>2 DEF AuthInv, AuthShapes, Truncate, Idle
    <3>2. req' \in [Requests -> AuthRequest \cup {Idle}]
      BY <2>2, <3>1 DEF AuthInv, AuthShapes, Truncate, AuthRequest
    <3> QED
      BY <2>2, <3>2 DEF AuthInv, AuthShapes, SessionsHonest, Tokens, Truncate, told, process, table
  <2>3. CASE Write(r)
    <3>1. req[r] \in AuthRequest
      BY <2>3 DEF AuthInv, AuthShapes, Write, Idle
    <3>2. req' \in [Requests -> AuthRequest \cup {Idle}]
      BY <2>3, <3>1 DEF AuthInv, AuthShapes, Write, AuthRequest
    <3>3. password' \in {password, Hash(req[r].arg)} /\ spoiled' \in BOOLEAN
      BY <2>3 DEF Write
    <3>4. req[r].arg \in Passwords
      BY <3>1 DEF AuthRequest
    <3> QED
      BY <2>3, <3>2, <3>3, <3>4 DEF AuthInv, AuthShapes, SessionsHonest, Tokens, Write, process, table
  <2>4. CASE ChangeAnswered(r)
    <3>1. req[r] \in AuthRequest
      BY <2>4 DEF AuthInv, AuthShapes, ChangeAnswered, Idle
    <3>2. ASSUME NEW q \in Requests PROVE req'[q] \in AuthRequest \cup {Idle}
      <4>1. CASE Changing(q) /\ q # r
        <5>1. req[q] \in AuthRequest
          BY <4>1 DEF AuthInv, AuthShapes, Changing, Idle
        <5>2. req'[q] = [req[q] EXCEPT !.acked = @ \cup {req[r].arg}]
          BY <2>4, <4>1 DEF ChangeAnswered
        <5> QED
          BY <3>1, <5>1, <5>2 DEF AuthRequest
      <4>2. CASE ~(Changing(q) /\ q # r)
        BY <2>4, <4>2 DEF AuthInv, AuthShapes, ChangeAnswered
      <4> QED
        BY <4>1, <4>2
    <3>3. req' \in [Requests -> AuthRequest \cup {Idle}]
      BY <2>4, <3>2 DEF ChangeAnswered
    <3>4. promised' # {} /\ promised' \subseteq Passwords
      BY <2>4, <3>1 DEF ChangeAnswered, AuthRequest
    <3> QED
      BY <2>4, <3>3, <3>4 DEF AuthInv, AuthShapes, SessionsHonest, Tokens, ChangeAnswered, process, table
  <2>5. CASE IssueAdminSession(r)
    <3>1. req[r] \in AuthRequest
      BY <2>5 DEF AuthInv, AuthShapes, IssueAdminSession, Idle
    <3>2. req' \in [Requests -> AuthRequest \cup {Idle}]
      BY <2>5 DEF AuthInv, AuthShapes, IssueAdminSession
    <3>3. /\ tokens' = tokens + 1 /\ tokens + 1 \notin locked
          /\ DOMAIN sessions' = DOMAIN sessions \cup {tokens + 1}
          /\ DOMAIN granted' = DOMAIN granted \cup {tokens + 1}
      BY <2>5 DEF AuthInv, AuthShapes, IssueAdminSession, Tokens
    <3>4. cookie' \in [Browsers -> Tokens' \cup {NoCookie}]
      BY <2>5, <3>1 DEF AuthInv, AuthShapes, IssueAdminSession, Tokens, AuthRequest
    <3>5. SessionsHonest'
      <4> SUFFICES ASSUME NEW t \in DOMAIN sessions'
                   PROVE  /\ t \in DOMAIN granted' \ locked'
                          /\ granted'[t] \in Nat /\ sessions'[t] = granted'[t] + Life
        BY DEF SessionsHonest
      <4>1. CASE t = tokens + 1
        BY <2>5, <3>3, <4>1 DEF AuthInv, AuthShapes, IssueAdminSession
      <4>2. CASE t # tokens + 1
        BY <2>5, <3>3, <4>2 DEF AuthInv, SessionsHonest, IssueAdminSession
      <4> QED
        BY <4>1, <4>2
    <3> QED
      BY <2>5, <3>2, <3>3, <3>4, <3>5
      DEF AuthInv, AuthShapes, Tokens, IssueAdminSession, told, process
  <2> QED
    BY <1>6, <2>1, <2>2, <2>3, <2>4, <2>5 DEF Serving
<1>7. CASE Tick
  BY <1>7 DEF AuthInv, AuthShapes, SessionsHonest, Tokens, Tick, told, table
<1>8. CASE EnsureAdminPassword
  <2>1. password' \in {Absent, Emptied} \cup {Hash(p) : p \in Passwords} \cup {Plain(p) : p \in Passwords}
    BY <1>8, AuthAssumption DEF AuthInv, AuthShapes, EnsureAdminPassword
  <2>2. up' \in {"down", "ensuring", "up"} /\ UNCHANGED <<req, now, told, table>>
    BY <1>8 DEF EnsureAdminPassword
  <2> QED
    BY <2>1, <2>2 DEF AuthInv, AuthShapes, SessionsHonest, Tokens, told, table
<1>9. CASE Crash
  <2>1. promised' # {} /\ promised' \subseteq Passwords
    <3>1. \A q \in Requests : Changing(q) => req[q].arg \in Passwords
      BY DEF AuthInv, AuthShapes, AuthRequest, Changing, Idle
    <3> QED
      BY <1>9, <3>1 DEF AuthInv, AuthShapes, Crash
  <2>2. DOMAIN sessions' = {} /\ DOMAIN granted' = {}
    BY <1>9 DEF Crash
  <2>3. spoiled' \in BOOLEAN /\ up' = "down" /\ req' \in [Requests -> AuthRequest \cup {Idle}]
    BY <1>9 DEF Crash, AuthInv, AuthShapes
  <2> QED
    BY <1>9, <2>1, <2>2, <2>3 DEF AuthInv, AuthShapes, SessionsHonest, Tokens, Crash
<1> QED
  BY <1>1, <1>2, <1>3, <1>4, <1>5, <1>6, <1>7, <1>8, <1>9 DEF AuthNext, Asking

(* The types of the password file and of the sessions hold at every moment.    *)
THEOREM AuthTypesHold == AuthSpec => []AuthTypeOK
<1>1. AuthInv => AuthTypeOK
  <2> SUFFICES ASSUME AuthInv PROVE AuthTypeOK
    OBVIOUS
  <2>1. cookie \in [Browsers -> 0..tokens]
    BY DEF AuthInv, AuthShapes, Tokens, NoCookie
  <2>2. \A r \in Requests : req[r].step \in {"idle", "read", "truncate", "write", "answer", "grant"}
    BY DEF AuthInv, AuthShapes, AuthRequest, Idle
  <2> QED
    BY <2>1, <2>2 DEF AuthTypeOK, AuthInv, AuthShapes, Tokens
<1> QED
  BY <1>1, AuthInitially, AuthKept, PTL DEF AuthSpec

(* Only adminChangePassword makes a request one that changes the password, and *)
(* only for a browser with a session.                                        *)
LEMMA OnlyTheUnlockedChange ==
  ASSUME AuthInv, [AuthNext]_authVars, NEW r \in Requests,
         ~Changing(r), req'[r].op = "change"
  PROVE  req'[r].who \in Browsers /\ IsAdminUnlocked(req'[r].who) /\ UNCHANGED <<cookie, granted, locked, now>>
<1>1. CASE UNCHANGED authVars
  BY <1>1 DEF authVars, Changing
<1>2. ASSUME NEW q \in Requests, NEW b \in Browsers, Asking(q, b),
             req'[r].op = "change"
      PROVE  req'[r].who \in Browsers /\ IsAdminUnlocked(req'[r].who) /\ UNCHANGED <<cookie, granted, locked, now>>
  <2>1. CASE Page(q, b)
    <3>1. req'[r] = req[r] \/ req'[r].op = "page"
      BY <2>1 DEF Page, Serve, AuthInv, AuthShapes
    <3> QED
      BY <1>2, <3>1 DEF Changing
  <2>3. ASSUME NEW p \in Passwords, AdminUnlock(q, b, p) PROVE FALSE
    <3>1. req'[r] = req[r] \/ req'[r].op = "unlock"
      BY <2>3 DEF AdminUnlock, Serve, AuthInv, AuthShapes
    <3> QED
      BY <1>2, <3>1 DEF Changing
  <2>2. ASSUME NEW p \in Passwords, AdminChangePassword(q, b, p)
        PROVE  req'[r].who = b /\ IsAdminUnlocked(b) /\ UNCHANGED <<cookie, granted, locked, now>>
    BY <1>2, <2>2 DEF AdminChangePassword, Serve, Changing, AuthInv, AuthShapes, process
  <2> QED
    BY <1>2, <2>1, <2>2, <2>3 DEF Asking
<1>3. ASSUME NEW q \in Requests, Serving(q) PROVE req'[r].op # "change"
  <2>1. req[r] \in AuthRequest \cup {Idle}
    BY DEF AuthInv, AuthShapes
  <2>2. req'[r] = Idle \/ req'[r].op = req[r].op
    <3>1. CASE AdminPasswordMatches(q)
      BY <2>1, <3>1 DEF AdminPasswordMatches, AuthInv, AuthShapes, AuthRequest, Idle
    <3>2. CASE Truncate(q) \/ IssueAdminSession(q)
      BY <2>1, <3>2 DEF Truncate, IssueAdminSession, AuthInv, AuthShapes, AuthRequest, Idle
    <3>3. CASE Write(q)
      BY <2>1, <3>3 DEF Write, AuthInv, AuthShapes, AuthRequest, Idle
    <3>4. CASE ChangeAnswered(q)
      BY <2>1, <3>4 DEF ChangeAnswered, Changing, AuthInv, AuthShapes, AuthRequest, Idle
    <3> QED
      BY <1>3, <3>1, <3>2, <3>3, <3>4 DEF Serving
  <2> QED
    BY <2>2 DEF Changing, Idle
<1>4. ASSUME NEW b \in Browsers, AdminLock(b) PROVE req' = req
  BY <1>4 DEF AdminLock
<1>5. CASE Tick \/ EnsureAdminPassword
  BY <1>5 DEF Tick, EnsureAdminPassword, Changing
<1>6. CASE Crash
  BY <1>6 DEF Crash, Idle
<1> QED
  BY <1>1, <1>2, <1>3, <1>4, <1>5, <1>6 DEF AuthNext, Changing

(* What needs the admin mode is served within the life of a session that this   *)
(* process has given, and never after its browser locked it: whatever a browser *)
(* keeps of its cookie over expiries, locks and restarts.                     *)
THEOREM ServedOnlyUnlocked == AuthSpec => ServedUnlocked
<1>1. AuthInv /\ [AuthNext]_authVars => [ServesUnlocked]_authVars
  <2> SUFFICES ASSUME AuthInv, [AuthNext]_authVars PROVE ServesUnlocked
    OBVIOUS
  <2>1. ASSUME NEW r \in Requests, ~Changing(r), req'[r].op = "change"
        PROVE  LET t == cookie[req'[r].who]
               IN  t \in DOMAIN granted \ locked /\ now <= granted[t] + Life
    <3>1. IsAdminUnlocked(req'[r].who)
      BY <2>1, OnlyTheUnlockedChange
    <3> QED
      BY <3>1 DEF IsAdminUnlocked, AuthInv, SessionsHonest
  <2> QED
    BY <2>1 DEF ServesUnlocked
<1> QED
  BY <1>1, AuthInitially, AuthKept, PTL DEF AuthSpec, ServedUnlocked

-----------------------------------------------------------------------------
(* The password file, of a program that was never left a password in clear text *)
(* by an older version: then only requests that change the password write it.  *)
NoClearText == \A p \in Passwords : Plain(p) \notin FirstRecords

Answering(q) == req[q].step = "answer"

(* Only what changes the password writes, and nothing outlives the process.    *)
WritersChange ==
  /\ \A q \in Requests : req[q].step \in {"truncate", "write", "answer"} => Changing(q)
  /\ up # "up" => \A q \in Requests : req[q] = Idle
  /\ \A p \in Passwords : password # Plain(p)

(* Where the file comes from: it is empty for the time of a write or for a     *)
(* write cut short, and there is none only before the first start. A hash is of *)
(* a change yet to be answered, or of a password that stays promised whichever *)
(* change is answered next.                                                  *)
Explained(p) ==
  \/ \E q \in Requests : Answering(q) /\ req[q].arg = p
  \/ /\ p \in promised
     /\ \A q \in Requests : Answering(q) => p \in req[q].acked \cup {req[q].arg}

FileExplained ==
  /\ password = Emptied => MidWrite \/ spoiled
  /\ password = Absent => up = "down"
  /\ password = Absent \/ up = "ensuring" => promised = {Default}
  /\ \A p \in Passwords : password = Hash(p) => Explained(p)

KeptInv == AuthInv /\ WritersChange /\ FileExplained

LEMMA RecordsDiffer ==
  ASSUME NEW p, NEW q
  PROVE  /\ Hash(p) \notin {Plain(q), Emptied, Absent} /\ Emptied # Absent
         /\ Plain(p) \notin {Emptied, Absent}
         /\ Hash(p) = Hash(q) => p = q
BY DEF Hash, Plain, Emptied, Absent

LEMMA KeptInitially == ASSUME NoClearText PROVE AuthInit => KeptInv
<1> SUFFICES ASSUME AuthInit PROVE KeptInv
  OBVIOUS
<1>1. WritersChange
  BY DEF AuthInit, WritersChange, NoClearText, Idle
<1>2. password # Emptied
  BY AuthAssumption, RecordsDiffer DEF AuthInit
<1>3. ASSUME NEW p \in Passwords, password = Hash(p) PROVE Explained(p)
  <2>1. promised = {p}
    BY <1>3 DEF AuthInit, Hash, Absent
  <2> QED
    BY <2>1 DEF AuthInit, Explained, Answering, Idle
<1>4. FileExplained
  BY <1>2, <1>3 DEF AuthInit, FileExplained
<1> QED
  BY <1>1, <1>4, AuthInitially DEF KeptInv

(* A step that writes no record and makes no promise, and keeps those at work    *)
(* on the file at it, keeps what explains it.                                *)
LEMMA OthersKeepExplained ==
  ASSUME KeptInv, UNCHANGED <<password, up, promised, spoiled>>,
         \A q \in Requests : Writing(q) => Writing(q)',
         \A q \in Requests : Answering(q) \/ Answering(q)' => req'[q] = req[q]
  PROVE  FileExplained'
<1>1. password' = Emptied => MidWrite' \/ spoiled'
  BY DEF KeptInv, FileExplained, MidWrite
<1>2. ASSUME NEW p \in Passwords, password' = Hash(p) PROVE Explained(p)'
  <2>1. Explained(p)
    BY <1>2 DEF KeptInv, FileExplained
  <2> QED
    BY <2>1 DEF Explained, Answering
<1>3. password' = Absent => up' = "down"
  BY DEF KeptInv, FileExplained
<1>4. password' = Absent \/ up' = "ensuring" => promised' = {Default}
  BY DEF KeptInv, FileExplained
<1> QED
  BY <1>1, <1>2, <1>3, <1>4 DEF FileExplained

(* The requests that are served are of a program that is up.                   *)
LEMMA ServedUp ==
  ASSUME KeptInv, NEW r \in Requests, req[r] # Idle
  PROVE  up = "up"
BY DEF KeptInv, WritersChange

LEMMA KeptKept == KeptInv /\ [AuthNext]_authVars => KeptInv'
<1> SUFFICES ASSUME KeptInv, [AuthNext]_authVars PROVE WritersChange' /\ FileExplained'
  BY AuthKept DEF KeptInv
<1>0. AuthInv /\ WritersChange
  BY DEF KeptInv
<1>1. CASE UNCHANGED authVars
  <2>1. WritersChange'
    BY <1>0, <1>1 DEF WritersChange, Changing, authVars
  <2>2. FileExplained'
    BY <1>1, OthersKeepExplained DEF Writing, Answering, authVars
  <2> QED
    BY <2>1, <2>2
<1>2. ASSUME NEW r \in Requests, NEW b \in Browsers, Asking(r, b)
      PROVE  WritersChange' /\ FileExplained'
  <2>1. /\ up = "up" /\ up' = up /\ req[r] = Idle /\ password' = password /\ UNCHANGED told
        /\ \/ req' = req
           \/ \E op \in {"unlock", "page", "change"}, p \in Passwords, step \in {"read", "truncate"} :
                /\ step = "truncate" => op = "change"
                /\ req' = [req EXCEPT ![r] = [op |-> op, step |-> step, who |-> b, arg |-> p, acked |-> {}]]
    <3>1. CASE Page(r, b)
      BY <3>1, AuthAssumption DEF Page, Serve, told, process
    <3>2. ASSUME NEW p \in Passwords, AdminUnlock(r, b, p)
          PROVE  Serve(r, "unlock", b, p, "read") /\ UNCHANGED <<password, told, process>>
      BY <3>2 DEF AdminUnlock
    <3>3. ASSUME NEW p \in Passwords, AdminChangePassword(r, b, p)
          PROVE  /\ UNCHANGED <<password, told, process>> /\ up = "up" /\ req[r] = Idle
                 /\ Serve(r, "change", b, p, "truncate") \/ req' = req
      BY <3>3 DEF AdminChangePassword, Serve
    <3> QED
      BY <1>2, <3>1, <3>2, <3>3 DEF Asking, Serve, process
  <2>2. \A q \in Requests : q # r => req'[q] = req[q]
    BY <2>1, <1>0 DEF AuthInv, AuthShapes
  <2>3. /\ req'[r].step \in {"idle", "read", "truncate"}
        /\ req'[r].step = "truncate" => Changing(r)'
    BY <2>1, <1>0 DEF AuthInv, AuthShapes, Changing, Idle
  <2>4. WritersChange'
    BY <1>0, <2>1, <2>2, <2>3 DEF WritersChange, Changing
  <2>5. \A q \in Requests : Writing(q) => Writing(q)'
    BY <2>1, <2>2 DEF Writing, Idle
  <2>6. \A q \in Requests : Answering(q) \/ Answering(q)' => req'[q] = req[q]
    BY <2>1, <2>2, <2>3 DEF Answering, Idle
  <2> QED
    BY <2>1, <2>4, <2>5, <2>6, OthersKeepExplained DEF told
<1>3. ASSUME NEW r \in Requests, Serving(r) PROVE WritersChange' /\ FileExplained'
  <2>0. /\ req[r] # Idle /\ req[r] \in AuthRequest /\ up = "up" /\ UNCHANGED up
    <3>1. req[r] # Idle /\ UNCHANGED up
      BY <1>3 DEF Serving, AdminPasswordMatches, Truncate, Write, ChangeAnswered, IssueAdminSession, Idle, process
    <3> QED
      BY <3>1, <1>0, ServedUp DEF AuthInv, AuthShapes
  <2>1. CASE AdminPasswordMatches(r) \/ IssueAdminSession(r)
    <3>1. /\ UNCHANGED <<password, told>> /\ req[r].step \in {"read", "grant"}
          /\ \E next \in {Idle, [req[r] EXCEPT !.step = "grant"]} : req' = [req EXCEPT ![r] = next]
      <4>1. \A p \in Passwords : password # Plain(p)
        BY <1>0 DEF WritersChange
      <4>2. password.form # "plain"
        BY <4>1, <1>0 DEF AuthInv, AuthShapes, Absent, Emptied, Hash, Plain
      <4> QED
        BY <2>1, <2>0, <4>2 DEF AdminPasswordMatches, IssueAdminSession, Matches
    <3>2. \A q \in Requests : q # r => req'[q] = req[q]
      BY <3>1, <1>0 DEF AuthInv, AuthShapes
    <3>3. req'[r].step \in {"idle", "grant"}
      BY <3>1, <2>0, <1>0 DEF AuthInv, AuthShapes, Idle, AuthRequest
    <3>4. WritersChange'
      BY <1>0, <2>0, <3>1, <3>2, <3>3 DEF WritersChange, Changing
    <3>5. \A q \in Requests : Writing(q) => Writing(q)'
      BY <3>1, <3>2 DEF Writing
    <3>6. \A q \in Requests : Answering(q) \/ Answering(q)' => req'[q] = req[q]
      BY <3>1, <3>2, <3>3 DEF Answering
    <3> QED
      BY <2>0, <3>1, <3>4, <3>5, <3>6, OthersKeepExplained DEF told
  <2>2. CASE Truncate(r)
    <3>1. /\ password' = Emptied /\ UNCHANGED told /\ req[r].step = "truncate" /\ Writing(r)'
          /\ req'[r].op = req[r].op /\ \A q \in Requests : q # r => req'[q] = req[q]
      BY <2>2, <2>0, <1>0 DEF Truncate, AuthInv, AuthShapes, AuthRequest, Writing
    <3>2. WritersChange'
      BY <1>0, <2>0, <3>1, RecordsDiffer DEF WritersChange, Changing, Writing
    <3>3. FileExplained'
      BY <2>0, <3>1, RecordsDiffer DEF FileExplained, MidWrite
    <3> QED
      BY <3>2, <3>3
  <2>3. CASE Write(r)
    <3>1. Changing(r) /\ req[r].step = "write" /\ req[r].arg \in Passwords
      BY <1>0, <2>0, <2>3 DEF Write, WritersChange, AuthRequest
    <3>2. \A q \in Requests : q # r => req'[q] = req[q]
      BY <2>3, <1>0 DEF Write, AuthInv, AuthShapes
    <3>3. CASE password' = Hash(req[r].arg) /\ req'[r] = [req[r] EXCEPT !.step = "answer"]
      <4>1. Answering(r)' /\ req'[r].arg = req[r].arg /\ Changing(r)'
        BY <2>0, <3>1, <3>3 DEF Answering, Changing, AuthRequest
      <4>2. WritersChange'
        BY <1>0, <2>0, <3>2, <3>3, <4>1, RecordsDiffer DEF WritersChange, Changing
      <4>3. FileExplained'
        BY <2>0, <3>3, <4>1, RecordsDiffer DEF FileExplained, Explained
      <4> QED
        BY <4>2, <4>3
    <3>4. CASE password' = password /\ req'[r] = Idle /\ spoiled' = TRUE
      <4>1. WritersChange'
        BY <1>0, <2>0, <3>2, <3>4 DEF WritersChange, Changing, Idle
      <4>2. ASSUME NEW p \in Passwords, password' = Hash(p) PROVE Explained(p)'
        <5>1. Explained(p)
          BY <3>4, <4>2 DEF KeptInv, FileExplained
        <5>2. \A q \in Requests : Answering(q) \/ Answering(q)' => req'[q] = req[q]
          BY <3>1, <3>2, <3>4 DEF Answering, Idle
        <5>3. promised' = promised
          BY <2>3 DEF Write
        <5> QED
          BY <5>1, <5>2, <5>3 DEF Explained, Answering
      <4>3. password # Absent
        BY <2>0 DEF KeptInv, FileExplained
      <4>4. FileExplained'
        BY <2>0, <3>4, <4>2, <4>3 DEF FileExplained
      <4> QED
        BY <4>1, <4>4
    <3> QED
      BY <2>3, <3>1, <3>3, <3>4, <1>0 DEF Write, Changing, AuthInv, AuthShapes
  <2>4. CASE ChangeAnswered(r)
    <3>1. /\ Answering(r) /\ password' = password /\ spoiled' = spoiled
          /\ promised' = {req[r].arg} \cup req[r].acked /\ req'[r] = Idle
      BY <2>4 DEF ChangeAnswered, Answering
    <3>2. ASSUME NEW q \in Requests, q # r
          PROVE  /\ req'[q].step = req[q].step /\ req'[q].op = req[q].op /\ req'[q].arg = req[q].arg
                 /\ Changing(q) => req'[q].acked = req[q].acked \cup {req[r].arg}
                 /\ ~Changing(q) => req'[q] = req[q]
      BY <2>4, <3>2, <1>0 DEF ChangeAnswered, Changing, AuthInv, AuthShapes, AuthRequest, Idle
    <3>3. WritersChange'
      BY <1>0, <2>0, <3>1, <3>2 DEF WritersChange, Changing, Idle
    <3>4. ASSUME NEW p \in Passwords, password' = Hash(p) PROVE Explained(p)'
      <4>1. Explained(p)
        BY <3>1, <3>4 DEF KeptInv, FileExplained
      <4>2. CASE \E q \in Requests : q # r /\ Answering(q) /\ req[q].arg = p
        BY <3>2, <4>2 DEF Explained, Answering
      <4>3. CASE ~ \E q \in Requests : q # r /\ Answering(q) /\ req[q].arg = p
        <5>1. p \in promised'
          BY <3>1, <4>1, <4>3 DEF Explained
        <5>2. ASSUME NEW q \in Requests, Answering(q)' PROVE p \in req'[q].acked \cup {req'[q].arg}
          <6>1. q # r
            BY <3>1, <5>2 DEF Answering, Idle
          <6>2. Answering(q) /\ Changing(q)
            BY <1>0, <3>2, <5>2, <6>1 DEF Answering, WritersChange
          <6>3. p = req[r].arg \/ p \in req[q].acked \cup {req[q].arg}
            BY <4>1, <4>3, <6>2 DEF Explained
          <6> QED
            BY <3>2, <6>1, <6>2, <6>3
        <5> QED
          BY <5>1, <5>2 DEF Explained
      <4> QED
        BY <4>2, <4>3
    <3>5. password' = Emptied => MidWrite' \/ spoiled'
      BY <2>0, <3>1, <3>2 DEF KeptInv, FileExplained, MidWrite, Writing, Answering
    <3>6. password # Absent
      BY <2>0 DEF KeptInv, FileExplained
    <3>7. FileExplained'
      BY <2>0, <3>1, <3>4, <3>5, <3>6 DEF FileExplained
    <3> QED
      BY <3>3, <3>7
  <2> QED
    BY <1>3, <2>1, <2>2, <2>3, <2>4 DEF Serving
<1>4. ASSUME NEW b \in Browsers, AdminLock(b) PROVE WritersChange' /\ FileExplained'
  <2>1. UNCHANGED <<password, up, promised, spoiled, req>>
    BY <1>4 DEF AdminLock, told, process
  <2>2. WritersChange'
    BY <1>0, <2>1 DEF WritersChange, Changing
  <2> QED
    BY <2>1, <2>2, OthersKeepExplained DEF Writing, Answering
<1>5. CASE Tick
  <2>1. UNCHANGED <<password, up, promised, spoiled, req>>
    BY <1>5 DEF Tick, told
  <2>2. WritersChange'
    BY <1>0, <2>1 DEF WritersChange, Changing
  <2> QED
    BY <2>1, <2>2, OthersKeepExplained DEF Writing, Answering
<1>6. CASE EnsureAdminPassword
  <2>1. up # "up" /\ UNCHANGED <<req, promised, spoiled>>
    BY <1>6 DEF EnsureAdminPassword, told
  <2>2. \A q \in Requests : req[q] = Idle
    BY <1>0, <2>1 DEF WritersChange
  <2>3. CASE up = "down" /\ password = Absent
    <3>1. password' = Emptied /\ up' = "ensuring"
      BY <1>6, <2>3 DEF EnsureAdminPassword
    <3>2. WritersChange'
      BY <1>0, <2>1, <2>2, <3>1, RecordsDiffer DEF WritersChange, Idle
    <3>3. FileExplained'
      BY <2>1, <2>3, <3>1, RecordsDiffer DEF KeptInv, FileExplained, MidWrite
    <3> QED
      BY <3>2, <3>3
  <2>4. CASE up = "down" /\ password # Absent
    <3>1. password' = password /\ up' = "up"
      BY <1>6, <2>4 DEF EnsureAdminPassword
    <3>2. WritersChange'
      BY <1>0, <2>1, <2>2, <3>1 DEF WritersChange, Idle
    <3>3. password = Emptied => spoiled
      BY <2>2, <2>4 DEF KeptInv, FileExplained, MidWrite, Writing, Idle
    <3>4. ASSUME NEW p \in Passwords, password' = Hash(p) PROVE Explained(p)'
      <4>1. Explained(p)
        BY <3>1, <3>4 DEF KeptInv, FileExplained
      <4> QED
        BY <2>1, <4>1 DEF Explained, Answering
    <3>5. FileExplained'
      BY <2>1, <2>4, <3>1, <3>3, <3>4 DEF FileExplained
    <3> QED
      BY <3>2, <3>5
  <2>5. CASE up = "ensuring"
    <3>1. password' = Hash(Default) /\ up' = "up"
      BY <1>6, <2>5 DEF EnsureAdminPassword
    <3>2. WritersChange'
      BY <1>0, <2>1, <2>2, <3>1, RecordsDiffer DEF WritersChange, Idle
    <3>3. Explained(Default)'
      BY <2>1, <2>2, <2>5 DEF KeptInv, FileExplained, Explained, Answering, Idle
    <3>4. FileExplained'
      BY <3>1, <3>3, RecordsDiffer DEF FileExplained
    <3> QED
      BY <3>2, <3>4
  <2> QED
    BY <1>6, <2>3, <2>4, <2>5 DEF EnsureAdminPassword
<1>7. CASE Crash
  <2>1. /\ password' = password /\ up # "down" /\ up' = "down" /\ spoiled' = (spoiled \/ MidWrite)
        /\ promised' = promised \cup {req[r].arg : r \in {q \in Requests : Changing(q)}}
        /\ \A q \in Requests : req'[q] = Idle
    BY <1>7 DEF Crash
  <2>2. WritersChange'
    <3>1. \A q \in Requests : req'[q] = Idle /\ req'[q].step = "idle"
      BY <1>7 DEF Crash, Idle
    <3>2. \A p \in Passwords : password' # Plain(p)
      BY <1>0, <2>1 DEF WritersChange
    <3> QED
      BY <3>1, <3>2 DEF WritersChange
  <2>3. ASSUME NEW p \in Passwords, password' = Hash(p) PROVE Explained(p)'
    <3>1. Explained(p)
      BY <2>1, <2>3 DEF KeptInv, FileExplained
    <3>2. \A q \in Requests : Answering(q) => Changing(q)
      BY <1>0 DEF WritersChange, Answering
    <3>3. p \in promised'
      BY <2>1, <3>1, <3>2 DEF Explained
    <3> QED
      BY <2>1, <3>3 DEF Explained, Answering, Idle
  <2>4. password # Absent
    BY <2>1 DEF KeptInv, FileExplained
  <2>5. FileExplained'
    BY <2>1, <2>3, <2>4 DEF KeptInv, FileExplained
  <2> QED
    BY <2>2, <2>5
<1> QED
  BY <1>1, <1>2, <1>3, <1>4, <1>5, <1>6, <1>7 DEF AuthNext

(* At rest the password file holds a password that is in force as far as users *)
(* were told, however requests that change it interleave, whatever fails and    *)
(* whenever the program is killed; or none, when a write was cut short.         *)
THEOREM PasswordAlwaysKept ==
  ASSUME NoClearText
  PROVE  AuthSpec => []PasswordKept
<1>1. KeptInv => PasswordKept
  <2> SUFFICES ASSUME KeptInv, up = "up", \A r \in Requests : req[r] = Idle PROVE Kept
    BY DEF PasswordKept
  <2>1. password # Absent /\ (password = Emptied => spoiled)
    BY DEF KeptInv, FileExplained, MidWrite, Writing, Idle
  <2>2. ASSUME NEW p \in Passwords, password = Hash(p) PROVE p \in promised
    BY <2>2 DEF KeptInv, FileExplained, Explained, Answering, Idle
  <2>3. \A p \in Passwords : password # Plain(p)
    BY DEF KeptInv, WritersChange
  <2> QED
    BY <2>1, <2>2, <2>3 DEF Kept, KeptInv, AuthInv, AuthShapes
<1> QED
  BY <1>1, KeptInitially, KeptKept, PTL DEF AuthSpec

(* Nobody who types the password in force is refused, unless it is being changed *)
(* or was lost in a write cut short.                                          *)
THEOREM AlwaysRefusedRightly ==
  ASSUME NoClearText
  PROVE  AuthSpec => RefusedRightly
<1>1. KeptInv /\ [AuthNext]_authVars => [RefusesRightly]_authVars
  <2> SUFFICES ASSUME KeptInv, [AuthNext]_authVars, ~(UNCHANGED authVars),
                      NEW r \in Requests, req[r].op = "unlock", req[r].step = "read",
                      up' = "up", req'[r] = Idle,
                      promised = {req[r].arg}, \A q \in Requests : ~Changing(q)
               PROVE  spoiled /\ password = Emptied
    BY DEF RefusesRightly
  <2>0. up = "up" /\ AuthInv /\ WritersChange
    BY ServedUp DEF Idle, KeptInv
  <2>1. \A q \in Requests : ~Writing(q) /\ ~Answering(q)
    BY <2>0 DEF WritersChange, Writing, Answering
  <2>2. password # Absent /\ (password = Emptied => spoiled)
    BY <2>0, <2>1 DEF KeptInv, FileExplained, MidWrite
  <2>3. ASSUME NEW p \in Passwords, password = Hash(p) PROVE p = req[r].arg
    BY <2>1, <2>3 DEF KeptInv, FileExplained, Explained
  <2>4. AdminPasswordMatches(r)
    <3>1. req[r] # Idle /\ req[r] \in AuthRequest
      BY <2>0 DEF Idle, AuthInv, AuthShapes
    <3>2. ASSUME NEW q \in Requests, NEW b \in Browsers, Asking(q, b) PROVE FALSE
      <4>1. req[q] = Idle /\ \A s \in Requests : s # q => req'[s] = req[s]
        BY <3>2, <2>0 DEF Asking, Page, AdminUnlock, AdminChangePassword, Serve, AuthInv, AuthShapes
      <4> QED
        BY <3>1, <4>1
    <3>3. ASSUME NEW q \in Requests, Serving(q), q # r PROVE FALSE
      <4>1. ~ChangeAnswered(q)
        BY <2>1 DEF ChangeAnswered, Answering
      <4>2. req'[r] = req[r]
        BY <3>3, <4>1, <2>0
        DEF Serving, AdminPasswordMatches, Truncate, Write, IssueAdminSession, AuthInv, AuthShapes
      <4> QED
        BY <3>1, <4>2
    <3>4. Serving(r) => AdminPasswordMatches(r)
      BY DEF Serving, Truncate, Write, ChangeAnswered, IssueAdminSession
    <3>5. ~Tick /\ ~EnsureAdminPassword /\ ~Crash /\ ~(\E b \in Browsers : AdminLock(b))
      BY <2>0, <3>1 DEF Tick, EnsureAdminPassword, Crash, AdminLock
    <3> QED
      BY <3>2, <3>3, <3>4, <3>5 DEF AuthNext, authVars
  <2>5. ~(password.form = "hash" /\ password.pw = req[r].arg)
    BY <2>0, <2>4 DEF AdminPasswordMatches, Matches, AuthInv, AuthShapes, Idle, AuthRequest
  <2> QED
    BY <2>0, <2>2, <2>3, <2>5 DEF AuthInv, AuthShapes, WritersChange, Hash
<1> QED
  BY <1>1, KeptInitially, KeptKept, PTL DEF AuthSpec, RefusedRightly

-----------------------------------------------------------------------------
(* From entries to records.                                                  *)

(* The records the entries of a pool may give, and those of one file.         *)
Row == UNION {Asked(e) : e \in Pool}
NamesOf(f) == UNION {Asked(f[i]) : i \in DOMAIN f}

(* SeqOf bounds the files that are looked at.                                 *)
LEMMA FilesAreSequences ==
  ASSUME NEW f \in Files
  PROVE  f \in Seq(Pool) /\ \A i \in DOMAIN f : f[i] \in Pool
<1>1. PICK m \in 0..MaxRows : f \in [1..m -> Pool]
  BY DEF Files, SeqOf
<1>2. m \in Nat
  BY EntriesAssumption
<1> QED
  BY <1>1, <1>2, IsASeq

(* The owners of an entry stand for the names it asks for, wherever they are   *)
(* written.                                                                  *)
LEMMA OwnersAsAsked ==
  ASSUME NEW e \in Pool, ~e.disabled,
         NEW owners, owners = IF e.owners # <<>> THEN Ok(e.owners) ELSE ExtractFromDomainField(e.domain),
         owners # Error
  PROVE  /\ \E n \in Nat : DOMAIN owners.got = 1..n
         /\ Asked(e) = {[provider |-> e.provider, name |-> Name(owners.got[i], e.domain[1].apex),
                         version |-> e.version, set |-> e.set] : i \in DOMAIN owners.got}
<1>1. /\ e.domain \in Seq(ToSet(e.domain)) /\ e.domain # <<>>
      /\ e.owners \in Seq(ToSet(e.owners))
      /\ \A n \in ToSet(e.domain) : n = [owner |-> n.owner, apex |-> n.apex]
  BY EntriesAssumption
<1> DEFINE Made(n) == [provider |-> e.provider, name |-> n, version |-> e.version, set |-> e.set]
<1>2. CASE e.owners # <<>>
  <2>1. owners.got = e.owners
    BY <1>2 DEF Ok
  <2>2. Asked(e) = {Made(n) : n \in {Name(o, e.domain[1].apex) : o \in ToSet(e.owners)}}
    BY <1>2 DEF Asked
  <2>3. DOMAIN e.owners = 1..Len(e.owners) /\ Len(e.owners) \in Nat
    BY <1>1, LenProperties
  <2> QED
    BY <2>1, <2>2, <2>3 DEF ToSet
<1>3. CASE e.owners = <<>>
  <2>1. /\ owners.got = [i \in DOMAIN e.domain |-> e.domain[i].owner]
        /\ \A i \in DOMAIN e.domain : e.domain[i].apex = e.domain[1].apex
    BY <1>3 DEF ExtractFromDomainField, Ok
  <2>2. DOMAIN e.domain = 1..Len(e.domain) /\ Len(e.domain) \in Nat
    BY <1>1, LenProperties
  <2>3. Asked(e) = {Made(n) : n \in ToSet(e.domain)}
    BY <1>3 DEF Asked
  <2>4. ASSUME NEW i \in DOMAIN e.domain
        PROVE  Name(owners.got[i], e.domain[1].apex) = e.domain[i]
    <3>1. e.domain[i] \in ToSet(e.domain)
      BY DEF ToSet
    <3>2. e.domain[i] = [owner |-> e.domain[i].owner, apex |-> e.domain[i].apex]
      BY <1>1, <3>1, Zenon
    <3>3. owners.got[i] = e.domain[i].owner /\ e.domain[i].apex = e.domain[1].apex
      BY <2>1
    <3> QED
      BY <3>2, <3>3 DEF Name
  <2> QED
    BY <2>1, <2>2, <2>3, <2>4 DEF ToSet
<1> QED
  BY <1>2, <1>3

(* An entry that is accepted gives these names and no others.                  *)
LEMMA MadeAsAsked ==
  ASSUME NEW e \in Pool, MakeSettings(e) # Error
  PROVE  MakeSettings(e).got \in Seq(Row) /\ ToSet(MakeSettings(e).got) = Asked(e)
<1>1. CASE e.disabled
  <2>1. MakeSettings(e).got = <<>>
    BY <1>1 DEF MakeSettings, Ok
  <2>2. Asked(e) = {}
    BY <1>1 DEF Asked
  <2> QED
    BY <2>1, <2>2 DEF ToSet
<1>2. CASE ~e.disabled
  <2> DEFINE owners == IF e.owners # <<>> THEN Ok(e.owners) ELSE ExtractFromDomainField(e.domain)
             made == [i \in DOMAIN owners.got |->
                       [provider |-> e.provider, name |-> Name(owners.got[i], e.domain[1].apex),
                        version |-> e.version, set |-> e.set]]
  <2>1. owners # Error /\ MakeSettings(e) = Ok(made)
    BY <1>2 DEF MakeSettings
  <2> HIDE DEF owners
  <2>2. /\ \E n \in Nat : DOMAIN owners.got = 1..n
        /\ Asked(e) = {made[i] : i \in DOMAIN owners.got}
    BY <1>2, <2>1, OwnersAsAsked DEF owners
  <2>3. MakeSettings(e).got = made
    BY <2>1 DEF Ok
  <2>4. ToSet(made) = Asked(e)
    BY <2>2 DEF ToSet
  <2>5. Asked(e) \subseteq Row
    BY DEF Row
  <2>6. made \in Seq(Row)
    <3>1. PICK n \in Nat : DOMAIN owners.got = 1..n
      BY <2>2
    <3>2. \A i \in 1..n : made[i] \in Row
      BY <2>2, <2>5, <3>1
    <3>3. made \in [1..n -> Row]
      BY <3>1, <3>2
    <3> HIDE DEF made
    <3> QED
      BY <3>3, IsASeq
  <2> QED
    BY <2>3, <2>4, <2>6
<1> QED
  BY <1>1, <1>2

(* So does a file, all of whose entries have to be accepted.                   *)
LEMMA ExtractedAsAsked ==
  ASSUME NEW f \in Files, ExtractAllSettings(f) # Error
  PROVE  ExtractAllSettings(f).got \in Seq(Row) /\ ToSet(ExtractAllSettings(f).got) = NamesOf(f)
<1> DEFINE made == [i \in DOMAIN f |-> MakeSettings(f[i]).got]
<1>1. \A i \in DOMAIN f : f[i] \in Pool /\ MakeSettings(f[i]) # Error
  BY FilesAreSequences DEF ExtractAllSettings
<1>2. ExtractAllSettings(f).got = FlattenSeq(made)
  BY <1>1 DEF ExtractAllSettings, Ok
<1>3. \A i \in DOMAIN f : made[i] \in Seq(Row) /\ ToSet(made[i]) = Asked(f[i])
  BY <1>1, MadeAsAsked
<1>4. DOMAIN f = 1..Len(f) /\ Len(f) \in Nat
  BY FilesAreSequences, LenProperties
<1>5. DOMAIN made = DOMAIN f /\ made \in Seq(Seq(Row))
  <2>1. made \in [1..Len(f) -> Seq(Row)]
    BY <1>3, <1>4
  <2>2. DOMAIN made = DOMAIN f
    OBVIOUS
  <2> HIDE DEF made
  <2> QED
    BY <1>4, <2>1, <2>2, IsASeq
<1> HIDE DEF made
<1>6. /\ FlattenSeq(made) \in Seq(Row)
      /\ ToSet(FlattenSeq(made)) = UNION {ToSet(made[i]) : i \in DOMAIN made}
  BY <1>5, FlattenSeqElements
<1>7. UNION {ToSet(made[i]) : i \in DOMAIN made} = NamesOf(f)
  BY <1>3, <1>5 DEF NamesOf
<1> QED
  BY <1>2, <1>6, <1>7

-----------------------------------------------------------------------------
(* No entry lost and none added. The providers on their way are the names of   *)
(* the file that was written, until they have replaced the records.          *)
ProvidersCover ==
  /\ file \in Files
  /\ updated \in Seq(Row) /\ saving.got \in Seq(Row)
  /\ saving # Error => ToSet(saving.got) = NamesOf(file)

EntriesInv == ProvidersCover /\ EveryNameCovered

LEMMA NoFile == <<>> \in Files
<1>1. 0 \in 0..MaxRows /\ <<>> \in [1..0 -> Pool]
  BY EntriesAssumption
<1> QED
  BY <1>1 DEF Files, SeqOf

LEMMA EntriesInitially == EntriesInit => EntriesInv
<1> SUFFICES ASSUME EntriesInit PROVE EntriesInv
  OBVIOUS
<1>1. ToSet(<<>>) = {} /\ NamesOf(<<>>) = {}
  BY DEF ToSet, NamesOf
<1> QED
  BY <1>1, NoFile DEF EntriesInit, EntriesInv, ProvidersCover, EveryNameCovered, Error, NamesOf

LEMMA EntriesKept == EntriesInv /\ [EntriesNext]_entriesVars => EntriesInv'
<1> SUFFICES ASSUME EntriesInv, [EntriesNext]_entriesVars PROVE EntriesInv'
  OBVIOUS
<1> USE DEF EntriesInv, ProvidersCover, EveryNameCovered, NamesOf
<1>1. ASSUME NEW f \in Files, Save(f) PROVE EntriesInv'
  <2>1. CASE ExtractAllSettings(f) = Error
    BY <1>1, <2>1 DEF Save
  <2>2. CASE ExtractAllSettings(f) # Error
    <3>1. /\ file' = f /\ saving' = ExtractAllSettings(f) /\ updated' = updated
      BY <1>1, <2>2 DEF Save
    <3>2. /\ saving'.got \in Seq(Row) /\ ToSet(saving'.got) = NamesOf(f)
          /\ saving' # Error
      BY <2>2, <3>1, ExtractedAsAsked
    <3> QED
      BY <3>1, <3>2
  <2> QED
    BY <2>1, <2>2
<1>2. CASE ReplaceRecords
  <2>1. /\ updated' = saving.got /\ saving' = Error /\ file' = file /\ saving # Error
    BY <1>2 DEF ReplaceRecords
  <2>2. saving'.got \in Seq(Row)
    BY <2>1 DEF Error
  <2> QED
    BY <2>1, <2>2
<1>3. CASE ReadPage \/ ShowPage \/ ClosePage
  BY <1>3 DEF ReadPage, ShowPage, ClosePage
<1>4. CASE UNCHANGED entriesVars
  BY <1>4 DEF entriesVars
<1> QED
  BY <1>1, <1>2, <1>3, <1>4 DEF EntriesNext

(* Whenever the program updates what config.json says, its records are the      *)
(* names of the enabled entries: none lost, none added, none with the settings *)
(* of another entry.                                                         *)
THEOREM EveryNameCoveredHolds == EntriesSpec => []EveryNameCovered
<1>1. EntriesInv => EveryNameCovered
  BY DEF EntriesInv
<1> QED
  BY <1>1, EntriesInitially, EntriesKept, PTL DEF EntriesSpec

-----------------------------------------------------------------------------
(* The status of a row.                                                     *)

(* Entries are as this version writes them, and none is of the name under which *)
(* the wildcard is looked up.                                                *)
OneNameEach ==
  \A e \in Pool : e.owners = <<>> /\ \A n \in ToSet(e.domain) : n.owner # "any"

PageShape ==
  /\ page = [step |-> page.step, entries |-> page.entries, shown |-> page.shown]
  /\ page.entries \in Files

PageInv == EntriesInv /\ PageShape /\ OwnStatus

(* The name a row shows is the one its entry asks for: only the lookup name of  *)
(* a wildcard could be taken for another.                                    *)
LEMMA LiveIsOwn ==
  ASSUME OneNameEach, NEW e \in Pool, ~e.disabled, NEW recs \in Seq(Row),
         LiveEntry(e, recs).kind = "live"
  PROVE  \E r \in Asked(e) : r.name = LiveEntry(e, recs).name /\ r.version = LiveEntry(e, recs).version
<1> DEFINE same == {i \in DOMAIN recs :
                 EntryKey(<<Built(recs[i].name)>>, recs[i].version) = EntryKey(e.domain, e.version)}
           k == CHOOSE i \in same : \A j \in same : j <= i
<1>1. same # {}
  BY DEF LiveEntry, Nothing
<1>2. LiveEntry(e, recs) = Live(recs[k])
  BY <1>1 DEF LiveEntry
<1>3. k \in same
  <2>1. Len(recs) \in Nat /\ same \subseteq 1..Len(recs)
    BY LenProperties
  <2> HIDE DEF same
  <2>2. \E i \in same : \A j \in same : j <= i
    BY <1>1, <2>1, LatestExists
  <2> QED
    BY <2>2
<1> HIDE DEF k
<1> DEFINE name == recs[k].name
<1>4. k \in DOMAIN recs /\ <<Built(name)>> = e.domain /\ recs[k].version = e.version
  BY <1>3 DEF EntryKey
<1>5. recs[k] \in Row
  BY <1>4, ElementOfSeq, LenProperties
<1>6. PICK o \in Pool : recs[k] \in Asked(o)
  BY <1>5 DEF Row
<1>7. name \in ToSet(o.domain) /\ name = [owner |-> name.owner, apex |-> name.apex]
  <2>1. name \in ToSet(o.domain)
    BY <1>6 DEF Asked, OneNameEach
  <2> QED
    BY <2>1, EntriesAssumption
<1>8. ToSet(e.domain) = {Built(name)}
  BY <1>4 DEF ToSet
<1>9. Built(name) = name
  <2>1. CASE name.owner = "*"
    <3>1. Built(name).owner = "any"
      BY <2>1 DEF Built, Name
    <3> QED
      BY <3>1, <1>8 DEF OneNameEach
  <2>2. CASE name.owner # "*"
    BY <2>2 DEF Built
  <2> QED
    BY <2>1, <2>2
<1>10. [provider |-> e.provider, name |-> name, version |-> e.version, set |-> e.set] \in Asked(e)
  BY <1>8, <1>9 DEF Asked, OneNameEach
<1>11. LiveEntry(e, recs).name = name /\ LiveEntry(e, recs).version = e.version
  BY <1>2, <1>4 DEF Live
<1> QED
  BY <1>10, <1>11

LEMMA PageKept ==
  ASSUME OneNameEach
  PROVE  PageInv /\ [EntriesNext]_entriesVars => PageInv'
<1> SUFFICES ASSUME PageInv, [EntriesNext]_entriesVars PROVE PageInv'
  OBVIOUS
<1>1. EntriesInv'
  BY EntriesKept DEF PageInv
<1> DEFINE Rest == PageShape /\ OwnStatus
<1>2. Rest'
  <2>1. CASE UNCHANGED page
    BY <2>1 DEF PageInv, PageShape, OwnStatus
  <2>2. CASE ReadPage
    <3>1. page' = [step |-> "read", entries |-> file, shown |-> <<>>]
      BY <2>2 DEF ReadPage
    <3> QED
      BY <3>1 DEF PageShape, PageInv, EntriesInv, ProvidersCover, OwnStatus
  <2>3. CASE ShowPage
    <3> DEFINE Status(i) == IF page.entries[i].disabled THEN Inactive
                            ELSE LiveEntry(page.entries[i], updated)
    <3>1. page' = [page EXCEPT !.step = "shown", !.shown = [i \in DOMAIN page.entries |-> Status(i)]]
      BY <2>3 DEF ShowPage
    <3>2. /\ PageShape'
          /\ page'.entries = page.entries /\ page'.shown = [i \in DOMAIN page.entries |-> Status(i)]
      BY <3>1 DEF PageInv, PageShape
    <3>3. ASSUME NEW i \in DOMAIN page.entries, Status(i).kind = "live"
          PROVE  \E r \in Asked(page.entries[i]) : r.name = Status(i).name /\ r.version = Status(i).version
      <4>1. ~page.entries[i].disabled
        BY <3>3 DEF Inactive
      <4>2. page.entries[i] \in Pool /\ updated \in Seq(Row)
        BY FilesAreSequences DEF PageShape, PageInv, EntriesInv, ProvidersCover
      <4> QED
        BY <3>3, <4>1, <4>2, LiveIsOwn
    <3> HIDE DEF Status
    <3>4. DOMAIN page'.shown = DOMAIN page.entries /\ \A i \in DOMAIN page.entries : page'.shown[i] = Status(i)
      BY <3>2
    <3>5. OwnStatus'
      BY <3>2, <3>3, <3>4 DEF OwnStatus, Asked
    <3> QED
      BY <3>2, <3>5
  <2>4. CASE ClosePage
    BY <2>4, NoFile DEF ClosePage, NoPage, PageShape, OwnStatus
  <2> QED
    BY <2>1, <2>2, <2>3, <2>4 DEF EntriesNext, Save, ReplaceRecords, entriesVars
<1> QED
  BY <1>1, <1>2 DEF PageInv

(* A page shows the status of a record of the entry, although it reads the file *)
(* and the records one after the other, with saves in between, and finds one   *)
(* in the other by a text.                                                   *)
THEOREM OwnStatusHolds ==
  ASSUME OneNameEach
  PROVE  EntriesSpec => []OwnStatus
<1>1. EntriesInit => PageInv
  BY EntriesInitially, NoFile DEF EntriesInit, PageInv, PageShape, NoPage, OwnStatus
<1>2. PageInv => OwnStatus
  BY DEF PageInv
<1> QED
  BY <1>1, <1>2, PageKept, PTL DEF EntriesSpec
=============================================================================

------------------------------ MODULE AdminAuth ------------------------------
(***************************************************************************)
(* The admin mode of the web UI: the password file, which requests read and *)
(* rewrite without a lock, and the table of sessions, which has a lock and   *)
(* lives as long as the process. A password record is clear text, of an      *)
(* older version, or a hash; a password that matches a clear text record     *)
(* makes the program write the hash in its place, and both the page and the  *)
(* state of the API try the default password to be able to warn about it.    *)
(***************************************************************************)
EXTENDS Naturals, FiniteSets, Functions

CONSTANTS
  Passwords, Default,  \* what users choose from; "admin", one of them
  Browsers,            \* each holds at most one session cookie
  Requests,            \* requests served at the same time
  FirstRecords,        \* password files the program may be started with
  Life,                \* of a session, in ticks of the clock (12 h)
  AuthFaults,          \* of {"kill", "killWriting", "disk"}
  MaxTime, MaxTokens, MaxCrashes  \* bounds

Hash(p) == [form |-> "hash", pw |-> p]
Plain(p) == [form |-> "plain", pw |-> p]
None == "none"
NoCookie == 0
Emptied == [form |-> "empty", pw |-> None]
Absent == [form |-> "absent", pw |-> None]

ASSUME AuthAssumption ==
  /\ Default \in Passwords
  /\ FirstRecords \subseteq {Absent} \cup {Hash(p) : p \in Passwords} \cup {Plain(p) : p \in Passwords}
  /\ {Life, MaxTime, MaxTokens, MaxCrashes} \subseteq Nat

VARIABLES
  password,      \* the admin password record
  up,        \* the process: "down", "ensuring" there is a record, "up"
  sessions,  \* adminSessions: token -> expiry
  cookie,    \* browser -> token
  req,       \* what each request is doing
  now, tokens, crashes,
  promised,  \* the passwords one of which is in force, as users were told
  spoiled,   \* a write was cut short, and none has ended since
  granted,   \* token -> when it was given to a browser, in this life of the process
  locked     \* tokens whose browser has locked the admin mode

authVars == <<password, up, sessions, cookie, req, now, tokens, crashes, promised, spoiled, granted, locked>>
table == <<sessions, cookie, tokens, granted, locked>>
process == <<up, now, crashes>>
told == <<promised, spoiled>>

Idle == [op |-> "none", step |-> "idle", who |-> None, arg |-> None, acked |-> {}]
Changing(r) == req[r].op = "change"
Writing(r) == req[r].step = "write"

(* A bug: the expiry of a session is not looked at.                         *)
IsAdminUnlockedForEver(b) == cookie[b] \in DOMAIN sessions

IsAdminUnlocked(b) == cookie[b] \in DOMAIN sessions /\ now <= sessions[cookie[b]]

(* The table once isAdminUnlocked has dropped an expired session.           *)
WithoutExpired(b) ==
  IF IsAdminUnlocked(b) THEN sessions ELSE Restrict(sessions, DOMAIN sessions \ {cookie[b]})

Serve(r, op, b, p, step) ==
  /\ up = "up" /\ req[r] = Idle
  /\ req' = [req EXCEPT ![r] = [op |-> op, step |-> step, who |-> b, arg |-> p, acked |-> {}]]

(* adminUnlock; index and apiState, which try the default password.         *)
AdminUnlock(r, b, p) ==
  /\ tokens + Cardinality({q \in Requests : req[q].op = "unlock"}) < MaxTokens
  /\ Serve(r, "unlock", b, p, "read")
  /\ UNCHANGED <<password, told, table, process>>

Page(r, b) ==
  /\ Serve(r, "page", b, Default, "read")
  /\ sessions' = WithoutExpired(b)
  /\ UNCHANGED <<password, told, cookie, tokens, granted, locked, process>>

(* adminChangePassword, with the answer of requireAdmin.                    *)
AdminChangePassword(r, b, p) ==
  /\ IF IsAdminUnlocked(b) THEN Serve(r, "change", b, p, "truncate")
     ELSE up = "up" /\ req[r] = Idle /\ UNCHANGED req
  /\ sessions' = WithoutExpired(b)
  /\ UNCHANGED <<password, told, cookie, tokens, granted, locked, process>>

(* A bug: the session stays in the table, and the browser may keep its cookie. *)
AdminLockKeeping(b) ==
  /\ up = "up" /\ cookie[b] # NoCookie
  /\ locked' = locked \cup {cookie[b]}
  /\ \E c \in {cookie[b], NoCookie} : cookie' = [cookie EXCEPT ![b] = c]
  /\ UNCHANGED <<password, told, req, sessions, tokens, granted, process>>

(* adminLock. The browser may drop the answer that clears its cookie.       *)
AdminLock(b) ==
  /\ up = "up" /\ cookie[b] # NoCookie
  /\ sessions' = Restrict(sessions, DOMAIN sessions \ {cookie[b]})
  /\ locked' = locked \cup {cookie[b]}
  /\ \E c \in {cookie[b], NoCookie} : cookie' = [cookie EXCEPT ![b] = c]
  /\ UNCHANGED <<password, told, req, tokens, granted, process>>

-----------------------------------------------------------------------------
(* A bug: a hash is compared as if it were the password.                    *)
MatchesText(record, p) == record.form = "plain" /\ record.pw = p

Matches(record, p) == record.form \in {"plain", "hash"} /\ record.pw = p

(* adminPasswordMatches up to the write of a migration.                     *)
AdminPasswordMatches(r) ==
  /\ req[r].step = "read"
  /\ LET matches == Matches(password, req[r].arg)
     IN req' = [req EXCEPT ![r] =
          CASE matches /\ password.form = "plain"           -> [@ EXCEPT !.step = "truncate"]
            [] matches /\ password.form = "hash" /\ @.op = "unlock" -> [@ EXCEPT !.step = "grant"]
            [] OTHER                                    -> Idle]
  /\ UNCHANGED <<password, told, table, process>>

(* os.WriteFile of setAdminPassword: the file is emptied, then written.     *)
Truncate(r) ==
  /\ req[r].step = "truncate"
  /\ password' = Emptied
  /\ req' = [req EXCEPT ![r].step = "write"]
  /\ UNCHANGED <<told, table, process>>

(* A bug: whatever the request, the default password is written.            *)
WriteDefault(r) ==
  /\ req[r].step = "write"
  /\ password' = Hash(Default) /\ spoiled' = FALSE
  /\ req' = [req EXCEPT ![r].step = "answer"]
  /\ UNCHANGED <<promised, table, process>>

Write(r) ==
  /\ req[r].step = "write"
  /\ \/ /\ password' = Hash(req[r].arg) /\ spoiled' = FALSE
        /\ req' = [req EXCEPT ![r] =
             CASE @.op = "unlock" -> [@ EXCEPT !.step = "grant"]
               [] @.op = "change" -> [@ EXCEPT !.step = "answer"]
               [] OTHER           -> Idle]
     \/ /\ "disk" \in AuthFaults
        /\ req' = [req EXCEPT ![r] = Idle]
        /\ spoiled' = TRUE
        /\ UNCHANGED password
  /\ UNCHANGED <<promised, table, process>>

(* "Admin password changed successfully"; changes that ended meanwhile may  *)
(* have written before or after this one.                                   *)
ChangeAnswered(r) ==
  /\ req[r].step = "answer"
  /\ promised' = {req[r].arg} \cup req[r].acked
  /\ req' = [q \in Requests |->
       IF q = r THEN Idle
       ELSE IF Changing(q) THEN [req[q] EXCEPT !.acked = @ \cup {req[r].arg}] ELSE req[q]]
  /\ UNCHANGED <<password, spoiled, table, process>>

(* A bug: the next session gets the same token.                             *)
IssueAdminSessionAgain(r) ==
  /\ req[r].step = "grant"
  /\ sessions' = [t \in DOMAIN sessions \cup {tokens + 1} |->
                    IF t = tokens + 1 THEN now + Life ELSE sessions[t]]
  /\ cookie' = [cookie EXCEPT ![req[r].who] = tokens + 1]
  /\ req' = [req EXCEPT ![r] = Idle]
  /\ UNCHANGED <<password, told, tokens, granted, locked, process>>

IssueAdminSession(r) ==
  /\ req[r].step = "grant"
  /\ tokens' = tokens + 1
  /\ sessions' = [t \in DOMAIN sessions \cup {tokens'} |->
                    IF t = tokens' THEN now + Life ELSE sessions[t]]
  /\ cookie' = [cookie EXCEPT ![req[r].who] = tokens']
  /\ granted' = [t \in DOMAIN granted \cup {tokens'} |-> IF t = tokens' THEN now ELSE granted[t]]
  /\ req' = [req EXCEPT ![r] = Idle]
  /\ UNCHANGED <<password, told, locked, process>>

-----------------------------------------------------------------------------
(* The process and its clock                                               *)

Tick == /\ now < MaxTime /\ now' = now + 1
        /\ UNCHANGED <<password, up, req, crashes, told, table>>

(* ensureAdminPassword, before the server listens: a file that is there is    *)
(* left as it is.                                                           *)
EnsureAdminPassword ==
  \/ /\ up = "down"
     /\ IF password = Absent THEN password' = Emptied /\ up' = "ensuring"
        ELSE up' = "up" /\ UNCHANGED password
     /\ UNCHANGED <<req, now, crashes, told, table>>
  \/ /\ up = "ensuring"
     /\ password' = Hash(Default) /\ up' = "up"
     /\ UNCHANGED <<req, now, crashes, told, table>>

MidWrite == up = "ensuring" \/ \E r \in Requests : Writing(r)

Crash ==
  /\ up # "down" /\ crashes < MaxCrashes
  /\ "killWriting" \in AuthFaults \/ ("kill" \in AuthFaults /\ ~MidWrite)
  /\ crashes' = crashes + 1 /\ up' = "down"
  /\ promised' = promised \cup {req[r].arg : r \in {q \in Requests : Changing(q)}}
  /\ spoiled' = (spoiled \/ MidWrite)
  /\ req' = [r \in Requests |-> Idle]
  /\ sessions' = <<>> /\ granted' = <<>>
  /\ UNCHANGED <<password, now, cookie, tokens, locked>>

AuthInit ==
  /\ password \in FirstRecords
  /\ promised = {IF password = Absent THEN Default ELSE password.pw} /\ spoiled = FALSE
  /\ up = "down" /\ req = [r \in Requests |-> Idle]
  /\ sessions = <<>> /\ granted = <<>> /\ locked = {}
  /\ cookie = [b \in Browsers |-> NoCookie]
  /\ now = 0 /\ tokens = 0 /\ crashes = 0

Serving(r) ==
  \/ AdminPasswordMatches(r) \/ Truncate(r) \/ Write(r)
  \/ ChangeAnswered(r) \/ IssueAdminSession(r)

Asking(r, b) ==
  \/ Page(r, b)
  \/ \E p \in Passwords : AdminUnlock(r, b, p) \/ AdminChangePassword(r, b, p)

AuthNext ==
  \/ \E r \in Requests : Serving(r) \/ (\E b \in Browsers : Asking(r, b))
  \/ \E b \in Browsers : AdminLock(b)
  \/ Tick \/ EnsureAdminPassword \/ Crash

AuthSpec == AuthInit /\ [][AuthNext]_authVars

-----------------------------------------------------------------------------
AuthTypeOK ==
  /\ password \in {Absent, Emptied} \cup {Hash(p) : p \in Passwords} \cup {Plain(p) : p \in Passwords}
  /\ up \in {"down", "ensuring", "up"}
  /\ DOMAIN sessions \subseteq 1..tokens /\ DOMAIN granted \subseteq 1..tokens
  /\ cookie \in [Browsers -> 0..tokens]
  /\ \A r \in Requests : req[r].step \in {"idle", "read", "truncate", "write", "answer", "grant"}
  /\ promised # {} /\ promised \subseteq Passwords /\ spoiled \in BOOLEAN

(* The record a user who was told the truth can rely on: a password that is in
   force as far as anybody was told; or none, once a write was cut short.    *)
Kept ==
  \/ \E p \in promised : password \in {Hash(p), Plain(p)}
  \/ spoiled /\ password = Emptied

(* With nothing being written, the file holds a password that a user was told
   is in force: the answers of adminChangePassword are true. Only a kill or a
   failure within a write leaves the file without any.                       *)
PasswordKept == up = "up" /\ (\A r \in Requests : req[r] = Idle) => Kept

(* Nobody who types the password in force is told that it is wrong, unless it
   is being changed, or was lost.                                            *)
RefusesRightly ==
  \A r \in Requests :
    req[r].op = "unlock" /\ req[r].step = "read" /\ up' = "up" /\ req'[r] = Idle
      => \/ promised # {req[r].arg}
         \/ \E q \in Requests : Changing(q)
         \/ spoiled /\ password = Emptied
RefusedRightly == [][RefusesRightly]_authVars

(* A request that needs the admin mode is served within the life of a session
   that this process has given, and not once its browser has locked it.     *)
ServesUnlocked ==
  \A r \in Requests :
    ~Changing(r) /\ req'[r].op = "change"
      => LET t == cookie[req'[r].who]
         IN t \in DOMAIN granted \ locked /\ now <= granted[t] + Life
ServedUnlocked == [][ServesUnlocked]_authVars
=============================================================================

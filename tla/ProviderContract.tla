-------------------------- MODULE ProviderContract --------------------------
(***************************************************************************)
(* What the update cycle expects of Provider.Update (internal/provider/    *)
(* provider.go), whatever the provider: a call changes the addresses of    *)
(* our record only towards the address asked for, never leaves us without  *)
(* one, leaves the other family alone, says it succeeded only when the     *)
(* address was there at some moment of it, and changes nothing with the    *)
(* request that gets it banned.                                            *)
(***************************************************************************)
EXTENDS Integers

CONSTANTS Addrs4, Addrs6

Addrs == Addrs4 \cup Addrs6
Family(ip) == IF ip \in Addrs4 THEN "A" ELSE "AAAA"

VARIABLES
  gaps,    \* may the client delete before it creates?
  addrs,   \* the addresses of our record, per family
  target,  \* the address asked for
  phase,   \* "idle", "calling", or how the last call ended
  served,  \* our record had the address at some moment of the call
  edits    \* the edits of our record by users

cvars == <<gaps, addrs, target, phase, served, edits>>

ContractTypeOK ==
  /\ gaps \in BOOLEAN
  /\ addrs \in [{"A", "AAAA"} -> SUBSET Addrs]
  /\ target \in Addrs
  /\ phase \in {"idle", "calling", "ok", "failed", "banned", "panicked"}
  /\ served \in BOOLEAN
  /\ edits \in Nat

ContractInit ==
  /\ gaps \in BOOLEAN
  /\ addrs \in [{"A", "AAAA"} -> SUBSET Addrs]
  /\ target \in Addrs
  /\ phase = "idle" /\ served = FALSE /\ edits = 0

Begin ==
  /\ phase # "calling"
  /\ phase' = "calling"
  /\ served' = (target \in addrs[Family(target)])
  /\ UNCHANGED <<gaps, addrs, target, edits>>

(* Some of the other addresses give way to the one asked for.                *)
Serve ==
  /\ phase = "calling"
  /\ \E others \in SUBSET addrs[Family(target)] :
       addrs' = [addrs EXCEPT ![Family(target)] = others \cup {target}]
  /\ served' = TRUE
  /\ phase' \in {"calling", "ok", "failed"}
  /\ UNCHANGED <<gaps, target, edits>>

(* A client that cannot edit makes room first.                               *)
Drop ==
  /\ gaps /\ phase = "calling"
  /\ \E left \in SUBSET addrs[Family(target)] :
       addrs' = [addrs EXCEPT ![Family(target)] = left]
  /\ phase' \in {"calling", "failed"}
  /\ UNCHANGED <<gaps, target, served, edits>>

Finish ==
  /\ phase = "calling"
  /\ phase' \in {"failed", "banned", "panicked"} \cup (IF served THEN {"ok"} ELSE {})
  /\ UNCHANGED <<gaps, addrs, target, served, edits>>

(* Not of the program: another address to update to, and an edit by a user.   *)
Retarget ==
  /\ phase # "calling"
  /\ target' \in Addrs
  /\ phase' = "idle" /\ served' = FALSE
  /\ UNCHANGED <<gaps, addrs, edits>>

Meddle ==
  /\ addrs' \in [{"A", "AAAA"} -> SUBSET Addrs]
  /\ served' = (served \/ target \in addrs'[Family(target)])
  /\ edits' = edits + 1
  /\ UNCHANGED <<gaps, target, phase>>

ContractNext == Begin \/ Serve \/ Drop \/ Finish \/ Retarget \/ Meddle

ContractSpec == ContractInit /\ [][ContractNext]_cvars
=============================================================================

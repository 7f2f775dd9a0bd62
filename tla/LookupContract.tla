---------------------------- MODULE LookupContract ----------------------------
(***************************************************************************)
(* What the update cycle relies on in shouldUpdateRecordWithLookup: the       *)
(* record is looked at once, at one instant between the call and the answer,  *)
(* and the answer follows from what was seen. This is what ShouldUpdate and   *)
(* Lookups of UpdateCycle take for one step.                                  *)
(***************************************************************************)
VARIABLES
  pointing,   \* does the record point to the public address, in the DNS?
  stopping,   \* the context of the caller is done
  seen,       \* "nothing yet", what the DNS said at one instant, or "failed"
  decision    \* "none yet", or the answer: update or not

vars == <<pointing, stopping, seen, decision>>
world == <<pointing, stopping>>

Init ==
  /\ pointing \in BOOLEAN
  /\ stopping = FALSE
  /\ seen = "nothing"
  /\ decision = "none"

Look ==
  /\ seen = "nothing"
  /\ seen' \in {IF pointing THEN "here" ELSE "elsewhere", "failed"}
  /\ UNCHANGED <<world, decision>>

(* What did not answer is updated anyway; the end of the program is the only *)
(* other reason to keep a record that was not seen pointing here.            *)
Decide ==
  /\ seen # "nothing" /\ decision = "none"
  /\ \/ decision' = IF seen = "here" THEN "keep" ELSE "update"
     \/ stopping /\ decision' = "keep"
  /\ UNCHANGED <<world, seen>>

World ==
  /\ pointing' \in BOOLEAN
  /\ stopping' \in {stopping, TRUE}
  /\ UNCHANGED <<seen, decision>>

Next == Look \/ Decide \/ World
Spec == Init /\ [][Next]_vars
=============================================================================

----------------------------- MODULE RecordLookup -----------------------------
(***************************************************************************)
(* shouldUpdateRecordWithLookup and lookupIPsResilient: a goroutine for each  *)
(* family asks the resolver, tries again after an error, and hands its result *)
(* over on an unbuffered channel; the first error received cancels the other. *)
(* UpdateCycle takes all of it for one step.                                  *)
(***************************************************************************)
EXTENDS Naturals

CONSTANTS
  Tries,    \* attempts of each lookup
  Wanted,   \* the family of the public address
  Failing   \* may a call to the resolver fail?

Families == {"ip4", "ip6"}

ASSUME TriesAssumption == Tries \in Nat \ {0}
ASSUME WantedAssumption == Wanted \in Families
ASSUME FailingAssumption == Failing \in BOOLEAN

VARIABLES
  pointing,   \* does the record point to the public address, in the DNS?
  stopping,   \* the context of the caller is done
  step,       \* family -> "ask", "wait" for an answer, "send", "ended"
  tries,      \* family -> attempts that failed
  result,     \* family -> "none", "here", "elsewhere", "absent", "error"
  found,      \* family -> the result as received, "absent" before that
  received,   \* how many results were received
  err,        \* did lookupIPsResilient meet an error?
  decision    \* "none", "update", "keep"

world == <<pointing, stopping>>
lookup == <<step, tries, result>>
caller == <<found, received, err, decision>>
vars == <<world, lookup, caller>>

Init ==
  /\ pointing \in BOOLEAN
  /\ stopping = FALSE
  /\ step = [f \in Families |-> "ask"]
  /\ tries = [f \in Families |-> 0]
  /\ result = [f \in Families |-> "none"]
  /\ found = [f \in Families |-> "absent"]
  /\ received = 0
  /\ err = FALSE
  /\ decision = "none"

(* lookupCtx ends with the context of the caller or by cancel().             *)
Cancelled == stopping \/ err

(* A bug: after the last attempt the errors are dropped.                     *)
FailQuietly(f) ==
  /\ tries' = [tries EXCEPT ![f] = @ + 1]
  /\ step' = [step EXCEPT ![f] = IF tries'[f] < Tries THEN "ask" ELSE "send"]
  /\ result' = [result EXCEPT ![f] = IF tries'[f] < Tries THEN @ ELSE "absent"]

(* A bug: a failed attempt does not count.                                   *)
FailUncounted(f) ==
  /\ step' = [step EXCEPT ![f] = "ask"]
  /\ UNCHANGED <<tries, result>>

(* An error: the next attempt, or the errors of all attempts as the result.  *)
FailAttempt(f) ==
  /\ tries' = [tries EXCEPT ![f] = @ + 1]
  /\ step' = [step EXCEPT ![f] = IF tries'[f] < Tries THEN "ask" ELSE "send"]
  /\ result' = [result EXCEPT ![f] = IF tries'[f] < Tries THEN @ ELSE "error"]

(* s.resolver.LookupNetIP is called: with a context that is done it fails at *)
(* once.                                                                     *)
Ask(f) ==
  /\ step[f] = "ask"
  /\ IF Cancelled THEN FailAttempt(f)
     ELSE step' = [step EXCEPT ![f] = "wait"] /\ UNCHANGED <<tries, result>>
  /\ UNCHANGED <<world, caller>>

(* What the DNS says of a family; "absent" stands for "no such host".        *)
Resolved(f) ==
  IF f = Wanted /\ pointing THEN {"here"} ELSE {"elsewhere", "absent"}

(* The call returns: an answer ends the goroutine's loop, an error (of which *)
(* a timeout and the end of the context are two) leads to the next attempt.  *)
Answer(f) ==
  /\ step[f] = "wait"
  /\ \/ /\ \E answer \in Resolved(f) : result' = [result EXCEPT ![f] = answer]
        /\ step' = [step EXCEPT ![f] = "send"]
        /\ UNCHANGED tries
     \/ /\ Failing \/ Cancelled
        /\ FailAttempt(f)
  /\ UNCHANGED <<world, caller>>

(* A bug: lookupIPsResilient returns with the first error.                   *)
ReceiveUntilError(f) ==
  /\ step[f] = "send" /\ ~err
  /\ step' = [step EXCEPT ![f] = "ended"]
  /\ IF result[f] = "error"
     THEN err' = TRUE /\ received' = 2 /\ UNCHANGED found
     ELSE /\ found' = [found EXCEPT ![f] = result[f]]
          /\ received' = received + 1
          /\ UNCHANGED err
  /\ UNCHANGED <<world, tries, result, decision>>

(* A bug: a goroutine goes on after it sent its result.                      *)
ReceiveBoth(f) ==
  /\ step[f] = "send"
  /\ found' = [found EXCEPT ![f] = IF result[f] = "error" THEN @ ELSE result[f]]
  /\ received' = received + 1
  /\ UNCHANGED <<world, lookup, err, decision>>

(* The rendezvous on results: one of the two iterations of the loop.         *)
Receive(f) ==
  /\ step[f] = "send"
  /\ step' = [step EXCEPT ![f] = "ended"]
  /\ IF result[f] = "error"
     THEN err' = TRUE /\ UNCHANGED found
     ELSE found' = [found EXCEPT ![f] = result[f]] /\ UNCHANGED err
  /\ received' = received + 1
  /\ UNCHANGED <<world, tries, result, decision>>

Returned == received = 2

(* A bug: any error keeps the record as it is.                               *)
DecideOnError ==
  /\ Returned /\ decision = "none"
  /\ decision' = IF err \/ found[Wanted] = "here" THEN "keep" ELSE "update"
  /\ UNCHANGED <<world, lookup, found, received, err>>

(* A bug: a host without addresses is kept.                                  *)
DecideIfFound ==
  /\ Returned /\ decision = "none"
  /\ decision' = IF found[Wanted] = "elsewhere" THEN "update" ELSE "keep"
  /\ UNCHANGED <<world, lookup, found, received, err>>

(* The rest of shouldUpdateRecordWithLookup: the addresses of the family of  *)
(* the public address decide, those of the other are not looked at.          *)
Decide ==
  /\ Returned /\ decision = "none"
  /\ decision' = IF (err /\ stopping) \/ found[Wanted] = "here" THEN "keep" ELSE "update"
  /\ UNCHANGED <<world, lookup, found, received, err>>

(* The DNS changes, and the program is told to stop.                         *)
Change == pointing' = ~pointing /\ UNCHANGED <<stopping, lookup, caller>>
Stop == ~stopping /\ stopping' = TRUE /\ UNCHANGED <<pointing, lookup, caller>>

Step(f) == Ask(f) \/ Answer(f) \/ Receive(f)
Next == (\E f \in Families : Step(f)) \/ Decide \/ Change \/ Stop

(* The goroutines are scheduled and every call to the resolver ends: it has  *)
(* a timeout.                                                                *)
Fairness == WF_vars(Decide) /\ \A f \in Families : WF_vars(Step(f))

Spec == Init /\ [][Next]_vars /\ Fairness
-------------------------------------------------------------------------------
TypeOK ==
  /\ pointing \in BOOLEAN /\ stopping \in BOOLEAN /\ err \in BOOLEAN
  /\ step \in [Families -> {"ask", "wait", "send", "ended"}]
  /\ tries \in [Families -> 0..Tries]
  /\ result \in [Families -> {"none", "here", "elsewhere", "absent", "error"}]
  /\ found \in [Families -> {"here", "elsewhere", "absent"}]
  /\ received \in 0..2
  /\ decision \in {"none", "update", "keep"}

(* lookupIPsResilient leaves no goroutine behind: when the caller decides,   *)
(* nobody is left to send on a channel that nothing receives from.           *)
NoneLeftBehind == decision # "none" => \A f \in Families : step[f] = "ended"

(* No address found for a family, and no error, means that an attempt was     *)
(* answered so: lookups that failed are not taken for a host without address.*)
AbsenceConfirmed ==
  Returned /\ ~err => \A f \in Families : found[f] = "absent" => tries[f] < Tries

(* A record is updated only if it was seen elsewhere or a lookup failed, and  *)
(* kept only if it was seen pointing here or the program stops.               *)
DecisionGrounded ==
  /\ decision = "update" => result[Wanted] \in {"elsewhere", "absent"} \/ err
  /\ decision = "keep" => result[Wanted] = "here" \/ stopping

(* Every call returns, whatever the resolver answers.                        *)
AlwaysDecides == <>(decision # "none")

(* What UpdateCycle takes for one look at the DNS: shown from the moment at  *)
(* which the lookup that matters has its result.                             *)
SeenNow ==
  IF result[Wanted] = "none" THEN "nothing"
  ELSE IF result[Wanted] = "error" THEN "failed"
  ELSE IF result[Wanted] = "here" THEN "here" ELSE "elsewhere"

Contract == INSTANCE LookupContract WITH seen <- SeenNow
ImplementsContract == Contract!Spec
=============================================================================

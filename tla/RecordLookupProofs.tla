------------------------- MODULE RecordLookupProofs -------------------------
(***************************************************************************)
(* What holds of a DNS lookup for any number of attempts, either family and  *)
(* a resolver that may fail or not, and that the lookup is the one step       *)
(* UpdateCycle takes it for.                                               *)
(***************************************************************************)
EXTENDS RecordLookup, TLAPS

(* A goroutine that is not done has no result and attempts left; one that is  *)
(* done has an answer, or the errors of all its attempts.                    *)
Attempts ==
  \A f \in Families :
    /\ step[f] \in {"ask", "wait"} => tries[f] < Tries /\ result[f] = "none"
    /\ step[f] \in {"send", "ended"} =>
         result[f] # "none" /\ (result[f] = "error" <=> tries[f] = Tries)

(* The loop over the channel has taken the results of the goroutines that     *)
(* ended, and no others.                                                   *)
Ended(f) == IF step[f] = "ended" THEN 1 ELSE 0
Delivered ==
  /\ received = Ended("ip4") + Ended("ip6")
  /\ \A f \in Families :
       /\ step[f] # "ended" => found[f] = "absent"
       /\ step[f] = "ended" => IF result[f] = "error" THEN err /\ found[f] = "absent"
                               ELSE found[f] = result[f]
  /\ decision # "none" => Returned

LInv == TypeOK /\ Attempts /\ Delivered /\ DecisionGrounded

LEMMA ReturnedMeansEnded ==
  ASSUME TypeOK, Delivered, Returned
  PROVE  \A f \in Families : step[f] = "ended"
BY DEF Delivered, Returned, Ended, Families

LEMMA LookupInitially == Init => LInv
<1> SUFFICES ASSUME Init PROVE LInv
  OBVIOUS
<1>1. 0 \in 0..Tries /\ 0 < Tries
  BY TriesAssumption
<1>2. TypeOK
  <2>1. tries \in [Families -> 0..Tries]
    BY <1>1 DEF Init
  <2>2. /\ step \in [Families -> {"ask", "wait", "send", "ended"}]
        /\ result \in [Families -> {"none", "here", "elsewhere", "absent", "error"}]
        /\ found \in [Families -> {"here", "elsewhere", "absent"}]
    BY DEF Init
  <2>3. /\ pointing \in BOOLEAN /\ stopping \in BOOLEAN /\ err \in BOOLEAN
        /\ decision \in {"none", "update", "keep"}
    BY Zenon DEF Init
  <2>4. received \in 0..2
    BY DEF Init
  <2> QED
    BY <2>1, <2>2, <2>3, <2>4, Zenon DEF TypeOK
<1>3. Attempts
  BY <1>1 DEF Init, Attempts
<1>4. Delivered /\ DecisionGrounded
  BY DEF Init, Delivered, DecisionGrounded, Returned, Ended, Families
<1> QED
  BY <1>2, <1>3, <1>4 DEF LInv

LEMMA FailAttemptStep ==
  ASSUME LInv, NEW f \in Families, step[f] \in {"ask", "wait"}, FailAttempt(f)
  PROVE  /\ tries' \in [Families -> 0..Tries] /\ step' \in [Families -> {"ask", "wait", "send", "ended"}]
         /\ result' \in [Families -> {"none", "here", "elsewhere", "absent", "error"}]
         /\ \A g \in Families \ {f} : step'[g] = step[g] /\ tries'[g] = tries[g] /\ result'[g] = result[g]
         /\ \/ step'[f] = "ask" /\ tries'[f] < Tries /\ result'[f] = "none"
            \/ step'[f] = "send" /\ tries'[f] = Tries /\ result'[f] = "error"
<1>1. /\ tries \in [Families -> 0..Tries] /\ step \in [Families -> {"ask", "wait", "send", "ended"}]
      /\ result \in [Families -> {"none", "here", "elsewhere", "absent", "error"}]
      /\ tries[f] < Tries /\ result[f] = "none" /\ Tries \in Nat
  BY TriesAssumption DEF LInv, TypeOK, Attempts
<1>2. tries'[f] = tries[f] + 1 /\ tries'[f] \in 0..Tries
  BY <1>1 DEF FailAttempt
<1>3. tries' \in [Families -> 0..Tries] /\ \A g \in Families \ {f} : tries'[g] = tries[g]
  BY <1>1, <1>2 DEF FailAttempt
<1>4. CASE tries'[f] < Tries
  BY <1>1, <1>2, <1>3, <1>4 DEF FailAttempt
<1>5. CASE ~(tries'[f] < Tries)
  <2>1. tries'[f] = Tries
    BY <1>1, <1>2, <1>5
  <2> QED
    BY <1>1, <1>2, <1>3, <1>5, <2>1 DEF FailAttempt
<1> QED
  BY <1>4, <1>5

(* What one goroutine does between two receptions.                           *)
LEMMA AskAnswerStep ==
  ASSUME LInv, NEW f \in Families, Ask(f) \/ Answer(f)
  PROVE  /\ tries' \in [Families -> 0..Tries] /\ step' \in [Families -> {"ask", "wait", "send", "ended"}]
         /\ result' \in [Families -> {"none", "here", "elsewhere", "absent", "error"}]
         /\ \A g \in Families \ {f} : step'[g] = step[g] /\ tries'[g] = tries[g] /\ result'[g] = result[g]
         /\ step[f] \in {"ask", "wait"} /\ result[f] = "none"
         /\ \/ step'[f] \in {"ask", "wait"} /\ tries'[f] < Tries /\ result'[f] = "none"
            \/ step'[f] = "send" /\ tries'[f] = Tries /\ result'[f] = "error"
            \/ step'[f] = "send" /\ tries'[f] < Tries /\ result'[f] \in Resolved(f)
         /\ UNCHANGED <<world, caller>>
<1>1. /\ tries \in [Families -> 0..Tries] /\ step \in [Families -> {"ask", "wait", "send", "ended"}]
      /\ result \in [Families -> {"none", "here", "elsewhere", "absent", "error"}]
      /\ step[f] \in {"ask", "wait"} /\ tries[f] < Tries /\ result[f] = "none" /\ Tries \in Nat
  BY TriesAssumption DEF LInv, TypeOK, Attempts, Ask, Answer
<1>2. UNCHANGED <<world, caller>>
  BY DEF Ask, Answer
<1>3. CASE FailAttempt(f)
  BY <1>1, <1>2, <1>3, FailAttemptStep
<1>4. CASE step' = [step EXCEPT ![f] = "wait"] /\ UNCHANGED <<tries, result>>
  BY <1>1, <1>2, <1>4
<1>5. CASE \E answer \in Resolved(f) : /\ result' = [result EXCEPT ![f] = answer]
                                       /\ step' = [step EXCEPT ![f] = "send"] /\ UNCHANGED tries
  BY <1>1, <1>2, <1>5 DEF Resolved
<1> QED
  BY <1>3, <1>4, <1>5 DEF Ask, Answer

LEMMA AskAnswerPreserve ==
  ASSUME LInv, NEW f \in Families, Ask(f) \/ Answer(f)
  PROVE  LInv'
<1>1. /\ tries' \in [Families -> 0..Tries] /\ step' \in [Families -> {"ask", "wait", "send", "ended"}]
      /\ result' \in [Families -> {"none", "here", "elsewhere", "absent", "error"}]
      /\ \A g \in Families \ {f} : step'[g] = step[g] /\ tries'[g] = tries[g] /\ result'[g] = result[g]
      /\ step[f] \in {"ask", "wait"} /\ result[f] = "none"
      /\ \/ step'[f] \in {"ask", "wait"} /\ tries'[f] < Tries /\ result'[f] = "none"
         \/ step'[f] = "send" /\ tries'[f] = Tries /\ result'[f] = "error"
         \/ step'[f] = "send" /\ tries'[f] < Tries /\ result'[f] \in Resolved(f)
      /\ UNCHANGED <<pointing, stopping, found, received, err, decision>>
  BY AskAnswerStep DEF world, caller
<1>2. TypeOK'
  BY <1>1 DEF LInv, TypeOK
<1>3. Tries \in Nat /\ \A r \in Resolved(f) : r # "none" /\ r # "error"
  BY TriesAssumption DEF Resolved
<1>4. Attempts'
  BY <1>1, <1>3 DEF LInv, Attempts
<1>5. \A g \in Families : step'[g] = "ended" <=> step[g] = "ended"
  BY <1>1
<1>6. Ended("ip4")' = Ended("ip4") /\ Ended("ip6")' = Ended("ip6")
  BY <1>5 DEF Ended, Families
<1>7. Delivered'
  BY <1>1, <1>5, <1>6 DEF LInv, Delivered, Returned
<1>8. decision # "none" => \A g \in Families : step[g] = "ended"
  BY ReturnedMeansEnded DEF LInv, Delivered
<1>9. DecisionGrounded'
  BY <1>1, <1>8, WantedAssumption DEF LInv, DecisionGrounded
<1> QED
  BY <1>2, <1>4, <1>7, <1>9 DEF LInv

LEMMA ReceivePreserves ==
  ASSUME LInv, NEW f \in Families, Receive(f)
  PROVE  LInv'
<1>1. /\ step[f] = "send" /\ step' = [step EXCEPT ![f] = "ended"] /\ received' = received + 1
      /\ IF result[f] = "error" THEN err' = TRUE /\ found' = found
         ELSE found' = [found EXCEPT ![f] = result[f]] /\ err' = err
      /\ UNCHANGED <<pointing, stopping, tries, result, decision>>
  BY DEF Receive, world
<1>2. /\ step \in [Families -> {"ask", "wait", "send", "ended"}]
      /\ found \in [Families -> {"here", "elsewhere", "absent"}]
      /\ result \in [Families -> {"none", "here", "elsewhere", "absent", "error"}]
      /\ result[f] # "none" /\ received \in 0..2
  BY <1>1 DEF LInv, TypeOK, Attempts
<1>3. /\ Ended(f) = 0 /\ Ended(f)' = 1
      /\ \A g \in Families \ {f} : Ended(g)' = Ended(g)
      /\ \A g : Ended(g) \in {0, 1}
  BY <1>1, <1>2 DEF Ended
<1>4. received' = Ended("ip4")' + Ended("ip6")' /\ received' \in 0..2 /\ ~Returned
  <2>1. received = Ended("ip4") + Ended("ip6")
    BY DEF LInv, Delivered
  <2>2. CASE f = "ip4"
    <3>1. Ended("ip4") = 0 /\ Ended("ip4")' = 1 /\ Ended("ip6")' = Ended("ip6") /\ Ended("ip6") \in {0, 1}
      BY <1>3, <2>2 DEF Families
    <3> QED
      BY <1>1, <2>1, <3>1 DEF Returned
  <2>3. CASE f = "ip6"
    <3>1. Ended("ip6") = 0 /\ Ended("ip6")' = 1 /\ Ended("ip4")' = Ended("ip4") /\ Ended("ip4") \in {0, 1}
      BY <1>3, <2>3 DEF Families
    <3> QED
      BY <1>1, <2>1, <3>1 DEF Returned
  <2> QED
    BY <2>2, <2>3 DEF Families
<1>5. found' \in [Families -> {"here", "elsewhere", "absent"}]
  BY <1>1, <1>2
<1>6. TypeOK'
  BY <1>1, <1>2, <1>4, <1>5 DEF LInv, TypeOK
<1>7. Attempts'
  BY <1>1, <1>2 DEF LInv, Attempts
<1>8. decision = "none"
  BY <1>4 DEF LInv, Delivered
<1>9. \A g \in Families :
        /\ step'[g] # "ended" => found'[g] = "absent"
        /\ step'[g] = "ended" => IF result'[g] = "error" THEN err' /\ found'[g] = "absent"
                                 ELSE found'[g] = result'[g]
  BY <1>1, <1>2 DEF LInv, Delivered
<1>10. Delivered' /\ DecisionGrounded'
  BY <1>1, <1>4, <1>8, <1>9 DEF Delivered, DecisionGrounded
<1> QED
  BY <1>6, <1>7, <1>10 DEF LInv

LEMMA LookupPreserved == LInv /\ [Next]_vars => LInv'
<1> SUFFICES ASSUME LInv, [Next]_vars PROVE LInv'
  OBVIOUS
<1>1. CASE Decide
  <2>1. /\ Returned /\ UNCHANGED <<pointing, stopping, step, tries, result, found, received, err>>
        /\ decision' = IF (err /\ stopping) \/ found[Wanted] = "here" THEN "keep" ELSE "update"
    BY <1>1 DEF Decide, world, lookup
  <2>2. \A f \in Families : step[f] = "ended"
    BY <2>1, ReturnedMeansEnded DEF LInv
  <2>3. IF result[Wanted] = "error" THEN err /\ found[Wanted] = "absent"
        ELSE found[Wanted] = result[Wanted]
    BY <2>2, WantedAssumption DEF LInv, Delivered
  <2>4. found[Wanted] \in {"here", "elsewhere", "absent"}
    BY WantedAssumption DEF LInv, TypeOK
  <2>5. DecisionGrounded'
    BY <2>1, <2>3, <2>4 DEF DecisionGrounded
  <2>6. TypeOK' /\ Attempts' /\ Delivered'
    BY <2>1 DEF LInv, TypeOK, Attempts, Delivered, Returned, Ended
  <2> QED
    BY <2>5, <2>6 DEF LInv
<1>2. CASE Change \/ Stop
  <2>1. /\ UNCHANGED <<step, tries, result, found, received, err, decision>>
        /\ pointing' \in BOOLEAN /\ stopping' \in BOOLEAN /\ (stopping => stopping')
    BY <1>2 DEF Change, Stop, lookup, caller, LInv, TypeOK
  <2>2. TypeOK' /\ Attempts' /\ Delivered'
    BY <2>1 DEF LInv, TypeOK, Attempts, Delivered, Returned, Ended
  <2>3. DecisionGrounded'
    BY <2>1 DEF LInv, DecisionGrounded
  <2> QED
    BY <2>2, <2>3 DEF LInv
<1>3. CASE UNCHANGED vars
  BY <1>3 DEF vars, world, lookup, caller, LInv, TypeOK, Attempts, Delivered, DecisionGrounded,
              Returned, Ended
<1> QED
  BY <1>1, <1>2, <1>3, AskAnswerPreserve, ReceivePreserves DEF Next, Step

LEMMA LookupInductive == Spec => []LInv
BY LookupInitially, LookupPreserved, PTL DEF Spec

(* Every variable keeps its type.                                            *)
THEOREM LookupTypeCorrect == Spec => []TypeOK
<1>1. LInv => TypeOK
  BY DEF LInv
<1> QED
  BY <1>1, LookupInductive, PTL

(* Once the caller decides, both goroutines have handed over their result: no *)
(* error, cancellation or stop leaves one of them on a channel nobody reads.  *)
THEOREM NoneLeftBehindHolds == Spec => []NoneLeftBehind
<1>1. LInv => NoneLeftBehind
  BY ReturnedMeansEnded DEF LInv, Delivered, NoneLeftBehind
<1> QED
  BY <1>1, LookupInductive, PTL

(* A family is taken to have no address only after an answer that says so,     *)
(* and the decision rests on the result of the family it is about.            *)
THEOREM AnswersAreGrounded == Spec => [](AbsenceConfirmed /\ DecisionGrounded)
<1>1. LInv => AbsenceConfirmed
  <2> SUFFICES ASSUME LInv, Returned, ~err, NEW f \in Families PROVE tries[f] < Tries
    BY DEF AbsenceConfirmed
  <2>1. step[f] = "ended" /\ result[f] # "error"
    BY ReturnedMeansEnded DEF LInv, Delivered
  <2>2. tries[f] # Tries /\ tries[f] \in 0..Tries /\ Tries \in Nat
    BY <2>1, TriesAssumption DEF LInv, Attempts, TypeOK
  <2> QED
    BY <2>2
<1>2. LInv => DecisionGrounded
  BY DEF LInv
<1> QED
  BY <1>1, <1>2, LookupInductive, PTL

-----------------------------------------------------------------------------
(* The lookup implements its contract: the moment the result of the family     *)
(* asked about is known is the one look at the DNS; the other steps are not    *)
(* visible.                                                                *)
LEMMA LookIsOneStep ==
  ASSUME LInv, NEW f \in Families, Ask(f) \/ Answer(f)
  PROVE  Contract!Look \/ UNCHANGED Contract!vars
<1>1. /\ \A g \in Families \ {f} : result'[g] = result[g]
      /\ result[f] = "none"
      /\ result'[f] \in {"none", "error"} \cup Resolved(f)
      /\ UNCHANGED <<pointing, stopping, decision>>
  BY AskAnswerStep DEF world, caller
<1>2. CASE f # Wanted \/ result'[f] = "none"
  <2>1. result'[Wanted] = result[Wanted]
    BY <1>1, <1>2, WantedAssumption
  <2> QED
    BY <1>1, <2>1 DEF Contract!vars, SeenNow
<1>3. CASE f = Wanted /\ result'[f] # "none"
  <2>1. SeenNow = "nothing"
    BY <1>1, <1>3 DEF SeenNow
  <2>2. SeenNow' \in {IF pointing THEN "here" ELSE "elsewhere", "failed"}
    BY <1>1, <1>3 DEF SeenNow, Resolved
  <2> QED
    BY <1>1, <2>1, <2>2 DEF Contract!Look, Contract!world
<1> QED
  BY <1>2, <1>3

LEMMA LookupSimulates ==
  ASSUME LInv, [Next]_vars
  PROVE  [Contract!Next]_Contract!vars
<1>1. ASSUME NEW f \in Families, Step(f) PROVE Contract!Look \/ UNCHANGED Contract!vars
  <2>1. CASE Ask(f) \/ Answer(f)
    BY <2>1, LookIsOneStep
  <2>2. CASE Receive(f)
    BY <2>2 DEF Receive, world, Contract!vars, SeenNow
  <2> QED
    BY <1>1, <2>1, <2>2 DEF Step
<1>2. CASE Decide
  <2>1. /\ Returned /\ decision = "none" /\ UNCHANGED <<pointing, stopping, result>>
        /\ decision' = IF (err /\ stopping) \/ found[Wanted] = "here" THEN "keep" ELSE "update"
    BY <1>2 DEF Decide, world, lookup
  <2>2. step[Wanted] = "ended"
    BY <2>1, ReturnedMeansEnded, WantedAssumption DEF LInv
  <2>3. /\ result[Wanted] \in {"here", "elsewhere", "absent", "error"}
        /\ found[Wanted] = "here" <=> result[Wanted] = "here"
    BY <2>2, WantedAssumption DEF LInv, TypeOK, Attempts, Delivered
  <2>4. SeenNow # "nothing" /\ (SeenNow = "here" <=> found[Wanted] = "here") /\ SeenNow' = SeenNow
    BY <2>1, <2>3 DEF SeenNow
  <2>5. Contract!Decide
    BY <2>1, <2>4 DEF Contract!Decide, Contract!world
  <2> QED
    BY <2>5 DEF Contract!Next
<1>3. CASE Change \/ Stop
  <2>1. /\ pointing' \in BOOLEAN /\ stopping' \in {stopping, TRUE}
        /\ UNCHANGED <<result, decision>>
    BY <1>3 DEF Change, Stop, lookup, caller, LInv, TypeOK
  <2>2. Contract!World
    BY <2>1 DEF Contract!World, SeenNow
  <2> QED
    BY <2>2 DEF Contract!Next
<1>4. CASE UNCHANGED vars
  BY <1>4 DEF vars, world, lookup, caller, Contract!vars, SeenNow
<1> QED
  BY <1>1, <1>2, <1>3, <1>4 DEF Next, Contract!Next

(* lookupIPsResilient and the decision after it behave as one look at the DNS  *)
(* at one instant between the call and the answer: what UpdateCycle takes for  *)
(* a single step.                                                          *)
THEOREM LookupImplementsContract == Spec => ImplementsContract
<1>1. Init => Contract!Init
  BY WantedAssumption DEF Init, Contract!Init, SeenNow
<1>2. LInv /\ [Next]_vars => [Contract!Next]_Contract!vars
  BY LookupSimulates
<1> QED
  BY <1>1, <1>2, LookupInductive, PTL DEF Spec, ImplementsContract, Contract!Spec
=============================================================================

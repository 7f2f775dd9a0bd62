-------------------------------- MODULE IPInfo --------------------------------
(***************************************************************************)
(* The package pkg/publicip/info, which the program itself does not use:     *)
(* Get asks the services for the country of an address, starting at random,  *)
(* and GetMultiple runs one Get per address and gathers their results from   *)
(* one channel. Services that answer "too many requests" are banned for all. *)
(***************************************************************************)
EXTENDS Naturals, Sequences, FiniteSets

CONSTANTS
  Services,   \* how many there are, at least one
  Addresses,  \* how many GetMultiple is given, at least one
  Answers     \* what a service may answer, of "ok", "failed", "banned"

Gets == 1..Addresses
Nothing == 0

VARIABLES
  get,       \* one Get per address: its step, index, failed, result and err
  banned,    \* Info.banned
  received,  \* how many results the loop of GetMultiple has received
  results,   \* position -> the address whose result it holds
  err,       \* the error of GetMultiple
  panicked   \* an index beyond the services

vars == <<get, banned, received, results, err, panicked>>
collected == <<received, results, err>>

Cancelled == err # "none"
Returned == received = Addresses
Ended(i) == get[i].step = "ended"

(* i.rand.Intn; a single service is asked without the loop.                  *)
Pick(i) ==
  /\ get[i].step = "pick"
  /\ \E k \in 1..Services :
       get' = [get EXCEPT ![i].index = k, ![i].step = IF Services = 1 THEN "ask" ELSE "loop"]
  /\ UNCHANGED <<banned, collected, panicked>>

(* The head of the loop and isBanned.                                       *)
Loop(i) ==
  /\ get[i].step = "loop"
  /\ LET g == get[i]
     IN \/ /\ g.failed = Services
           /\ get' = [get EXCEPT ![i].step = "send"] /\ UNCHANGED panicked
        \/ /\ g.failed < Services /\ g.index > Services
           /\ panicked' = TRUE /\ UNCHANGED get
        \/ /\ g.failed < Services /\ g.index <= Services
           /\ get' = [get EXCEPT ![i] =
                IF g.index \in banned THEN [@ EXCEPT !.index = @ + 1, !.failed = @ + 1]
                                      ELSE [@ EXCEPT !.step = "ask"]]
           /\ UNCHANGED panicked
  /\ UNCHANGED <<banned, collected>>

(* A bug: the error of a service is not kept.                               *)
AskSilently(i) ==
  /\ get[i].step = "ask"
  /\ get' = [get EXCEPT ![i].step = "send"]
  /\ UNCHANGED <<banned, collected, panicked>>

(* provider.get: a context that is done makes the request fail. After a      *)
(* success the loop has no way out.                                         *)
Ask(i) ==
  /\ get[i].step = "ask"
  /\ LET g == get[i]
         next == IF Services = 1 THEN "send" ELSE "loop"
     IN \E answer \in IF Cancelled THEN {"cancelled"} ELSE Answers :
          /\ get' = [get EXCEPT ![i] =
               IF answer = "ok" THEN [@ EXCEPT !.step = next, !.result = i, !.err = "none"]
               ELSE [@ EXCEPT !.step = next, !.result = Nothing, !.err = answer,
                              !.index = @ + 1, !.failed = @ + 1]]
          /\ banned' = IF answer = "banned" /\ Services > 1 THEN banned \cup {g.index} ELSE banned
  /\ UNCHANGED <<collected, panicked>>

(* A bug: the loop of GetMultiple is left at the first error.               *)
CollectUntilError(i) ==
  /\ get[i].step = "send" /\ err = "none"
  /\ get' = [get EXCEPT ![i].step = "ended"]
  /\ received' = received + 1
  /\ err' = get[i].err
  /\ results' = [results EXCEPT ![received'] = get[i].result]
  /\ UNCHANGED <<banned, panicked>>

(* A bug: the last error is kept.                                           *)
CollectLastError(i) ==
  /\ get[i].step = "send"
  /\ get' = [get EXCEPT ![i].step = "ended"]
  /\ received' = received + 1
  /\ err' = IF get[i].err # "none" THEN get[i].err ELSE err
  /\ UNCHANGED <<banned, panicked, results>>

(* A bug: a result is kept where an error had been met.                      *)
CollectTwice(i) ==
  /\ get[i].step = "send"
  /\ received' = received + 1
  /\ UNCHANGED <<get, banned, panicked, results, err>>

(* The loop of GetMultiple: the n-th result received becomes the n-th.       *)
Collect(i) ==
  /\ get[i].step = "send"
  /\ get' = [get EXCEPT ![i].step = "ended"]
  /\ received' = received + 1
  /\ IF err = "none" /\ get[i].err = "none"
     THEN results' = [results EXCEPT ![received'] = get[i].result] /\ UNCHANGED err
     ELSE err' = (IF err = "none" THEN get[i].err ELSE err) /\ UNCHANGED results
  /\ UNCHANGED <<banned, panicked>>

Init ==
  /\ get = [i \in Gets |-> [step |-> "pick", index |-> 1, failed |-> 0,
                            result |-> Nothing, err |-> "none"]]
  /\ banned = {} /\ received = 0 /\ err = "none" /\ panicked = FALSE
  /\ results = [n \in Gets |-> Nothing]

Step(i) == Pick(i) \/ Loop(i) \/ Ask(i) \/ Collect(i)

Next == ~panicked /\ \E i \in Gets : Step(i)

(* The scheduler, and requests that end.                                    *)
Spec == Init /\ [][Next]_vars /\ \A i \in Gets : WF_vars(~panicked /\ Step(i))

-----------------------------------------------------------------------------
TypeOK ==
  /\ \A i \in Gets : /\ get[i].step \in {"pick", "loop", "ask", "send", "ended"}
                     /\ get[i].index \in 1..(Services + 1) /\ get[i].failed \in 0..Services
  /\ banned \subseteq 1..Services
  /\ received \in 0..Addresses /\ results \in [Gets -> Gets \cup {Nothing}]

(* The error GetMultiple returns is the one that made it cancel the other
   requests, never the cancellation itself.                                 *)
CauseReported == err # "cancelled"

(* GetMultiple returns, and no goroutine stays behind on its channel.        *)
AllEnd == <>[](panicked \/ (Returned /\ \A i \in Gets : Ended(i)))

(* Get ends in a result or an error.                                        *)
NoPanic == ~panicked

(* What Get returns without an error is a result.                           *)
ResultOrError == \A i \in Gets : get[i].step = "send" /\ get[i].err = "none" => get[i].result = i

(* "It returns a slice of results matching the order of the IP addresses".   *)
ResultsMatch == Returned /\ err = "none" => \A n \in Gets : results[n] = n
=============================================================================

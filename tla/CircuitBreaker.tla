--------------------------- MODULE CircuitBreaker ---------------------------
(***************************************************************************)
(* CircuitBreakerService: the breaker in front of a Bull queue or of       *)
(* another service.  Its methods do not await, so each is a function from  *)
(* the breaker's record to the next one.  The clock is left out: whether   *)
(* the cooldown of an open breaker is over is the caller's choice.         *)
(***************************************************************************)
EXTENDS Naturals

CONSTANTS
  FailureThreshold,  \* BreakerOptions.failureThreshold
  SuccessThreshold   \* BreakerOptions.successThreshold

ASSUME FailureThresholdAssumption == FailureThreshold \in Nat \ {0}
ASSUME SuccessThresholdAssumption == SuccessThreshold \in Nat \ {0}

Circuits == {"CLOSED", "OPEN", "HALF_OPEN"}

Breakers == [state : Circuits, failureCount : Nat, successCount : Nat]

\* register
NewBreaker == [state |-> "CLOSED", failureCount |-> 0, successCount |-> 0]

\* isAllowed answers true ...
MayCall(b, cooled) == b.state = "OPEN" => cooled

\* ... and leaves the breaker half open when it was open.
Admit(b) ==
  IF b.state = "OPEN" THEN [b EXCEPT !.state = "HALF_OPEN", !.successCount = 0]
  ELSE b

\* A fault: the breaker closes without forgetting the failures it counted.
OnSuccessRemembering(b) ==
  CASE b.state = "HALF_OPEN" /\ b.successCount + 1 >= SuccessThreshold ->
         [b EXCEPT !.state = "CLOSED", !.successCount = 0]
    [] b.state = "HALF_OPEN" /\ b.successCount + 1 < SuccessThreshold ->
         [b EXCEPT !.successCount = @ + 1]
    [] b.state = "CLOSED" -> [b EXCEPT !.failureCount = 0]
    [] OTHER -> b

OnSuccess(b) ==
  CASE b.state = "HALF_OPEN" /\ b.successCount + 1 >= SuccessThreshold ->
         NewBreaker
    [] b.state = "HALF_OPEN" /\ b.successCount + 1 < SuccessThreshold ->
         [b EXCEPT !.successCount = @ + 1]
    [] b.state = "CLOSED" -> [b EXCEPT !.failureCount = 0]
    [] OTHER -> b

Trips(b) ==
  \/ b.state = "CLOSED" /\ b.failureCount + 1 >= FailureThreshold
  \/ b.state = "HALF_OPEN"

OnFailure(b) ==
  [b EXCEPT !.failureCount = @ + 1, !.state = IF Trips(b) THEN "OPEN" ELSE @]

\* The breaker is closed exactly as long as the failures it has counted are
\* fewer than the threshold, and the successes of a trial never reach the
\* number that would have closed it: isAllowed, onSuccess and onFailure, called
\* for overlapping requests in any order, leave no breaker that is open without
\* cause or closed in spite of its count.
BreakerIsSound(b) ==
  /\ (b.state = "CLOSED") = (b.failureCount < FailureThreshold)
  /\ b.successCount < SuccessThreshold
  /\ b.state = "CLOSED" => b.successCount = 0

=============================================================================

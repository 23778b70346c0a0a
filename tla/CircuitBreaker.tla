---------------------------- MODULE CircuitBreaker ----------------------------
(***************************************************************************)
(* The circuit breaker that guards the commands sent to one host           *)
(* (internal/rotator/infrastructure/remote/circuit_breaker.go), as a value *)
(* and the functions on it.                                                *)
(*                                                                         *)
(* Time is abstracted to what the code asks of it: "due" is the answer to  *)
(* time.Now().After(nextAttempt).  The failure count is only compared with *)
(* the threshold, so it saturates there.                                   *)
(***************************************************************************)
EXTENDS Naturals

CONSTANT FailureThreshold   \* consecutive failures that open a closed breaker

ASSUME ThresholdAssumption == FailureThreshold \in Nat \ {0}

Breaker == [state: {"closed", "open", "half_open"},
            failureCount: 0..FailureThreshold,
            due: BOOLEAN]

NewCircuitBreaker == [state |-> "closed", failureCount |-> 0, due |-> TRUE]

BadcanExecute(b) == b.state # "half_open" \/ b.due

canExecute(b) == b.state # "open" \/ b.due

BadonSuccess(b) == IF b.state = "half_open" THEN [b EXCEPT !.state = "closed"] ELSE b

(* There is no case for an open breaker: a success after the deadline      *)
(* leaves it open, with the deadline it has.                               *)
onSuccess(b) ==
    IF b.state = "open" THEN b ELSE [b EXCEPT !.state = "closed", !.failureCount = 0]

Opened(b) == [b EXCEPT !.state = "open", !.due = FALSE]

BadonFailure(b) ==
    LET c == [b EXCEPT !.failureCount = @ + 1]
    IN  IF c.failureCount >= FailureThreshold THEN Opened(c) ELSE c

onFailure(b) ==
    LET c == [b EXCEPT !.failureCount = IF @ < FailureThreshold THEN @ + 1 ELSE @]
    IN  CASE b.state = "closed" /\ c.failureCount >= FailureThreshold -> Opened(c)
          [] b.state = "half_open" -> Opened(c)
          [] b.state = "open" /\ b.due -> [c EXCEPT !.state = "half_open"]
          [] OTHER -> c

recordResult(b, ok) == IF ok THEN onSuccess(b) ELSE onFailure(b)
=============================================================================

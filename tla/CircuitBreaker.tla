---------------------------- MODULE CircuitBreaker ----------------------------
(***************************************************************************)
(* The circuit breaker of internal/resilience/circuit_breaker.go and the   *)
(* calls that pass through it.                                             *)
(*                                                                         *)
(* beforeCall and afterCall are two critical sections with the operation   *)
(* between them.  The breaker does not remember which state it admitted a  *)
(* call in, so the result of a call is recorded in whatever state the      *)
(* breaker has reached by then.                                            *)
(***************************************************************************)
EXTENDS Integers

CONSTANTS
  FailureThreshold,
  SuccessThreshold,
  HalfOpenRequests,
  MaxCalls           (* bound: calls in progress together                  *)

ASSUME BreakerConstants ==
  /\ FailureThreshold \in Nat \ {0}
  /\ SuccessThreshold \in Nat \ {0}
  /\ HalfOpenRequests \in Nat \ {0}
  /\ MaxCalls \in Nat \ {0}

VARIABLES
  state,             (* "closed", "open" or "half-open"                    *)
  failures,          (* FailureCount                                       *)
  successes,         (* SuccessCount                                       *)
  slots,             (* HalfOpenRequests of the state: probes counted;     *)
                     (* late results can bring it below zero               *)
  elapsed,           (* the timeout has passed since the breaker opened    *)
  calls,             (* calls in progress that were admitted when closed   *)
  probes,            (* calls in progress that were admitted when half-open*)
  streak,            (* history: failures recorded in a row, up to the     *)
                     (* threshold                                          *)
  up                 (* the service answers                                *)

breaker == <<state, failures, successes, slots, elapsed>>
vars    == <<state, failures, successes, slots, elapsed, calls, probes, streak, up>>

Init ==
  /\ state = "closed"
  /\ failures = 0 /\ successes = 0 /\ slots = 0
  /\ elapsed = FALSE
  /\ calls = 0 /\ probes = 0 /\ streak = 0
  /\ up \in BOOLEAN

-----------------------------------------------------------------------------
(* beforeCall.                                                             *)

CallClosed ==
  /\ state = "closed"
  /\ calls + probes < MaxCalls
  /\ calls' = calls + 1
  /\ UNCHANGED <<breaker, probes, streak, up>>

(* The first call after the timeout is the first probe.                    *)
CallOpen ==
  /\ state = "open" /\ elapsed
  /\ calls + probes < MaxCalls
  /\ state' = "half-open"
  /\ failures' = 0 /\ successes' = 0 /\ slots' = 1
  /\ probes' = probes + 1
  /\ UNCHANGED <<elapsed, calls, streak, up>>

CallHalfOpen ==
  /\ state = "half-open"
  /\ slots < HalfOpenRequests
  /\ calls + probes < MaxCalls
  /\ slots' = slots + 1
  /\ probes' = probes + 1
  /\ UNCHANGED <<state, failures, successes, elapsed, calls, streak, up>>

beforeCall == CallClosed \/ CallOpen \/ CallHalfOpen

-----------------------------------------------------------------------------
(* afterCall.                                                              *)

(* Defect: a successful probe does not give its slot back.                 *)
onSuccessKeepingSlot ==
  \/ /\ state = "closed"
     /\ failures' = 0
     /\ UNCHANGED <<state, successes, slots>>
  \/ /\ state = "half-open"
     /\ failures' = 0
     /\ IF successes + 1 >= SuccessThreshold
        THEN state' = "closed" /\ successes' = 0 /\ slots' = 0
        ELSE successes' = successes + 1 /\ UNCHANGED <<state, slots>>
  \/ /\ state = "open"
     /\ failures' = 0
     /\ UNCHANGED <<state, successes, slots>>

(* Defect: a success while closed leaves the failures counted.             *)
onSuccessKeepingCount ==
  \/ /\ state = "closed"
     /\ UNCHANGED <<state, failures, successes, slots>>
  \/ /\ state = "half-open"
     /\ failures' = 0
     /\ IF successes + 1 >= SuccessThreshold
        THEN state' = "closed" /\ successes' = 0 /\ slots' = 0
        ELSE successes' = successes + 1 /\ slots' = slots - 1 /\ UNCHANGED state
  \/ /\ state = "open"
     /\ failures' = 0
     /\ UNCHANGED <<state, successes, slots>>

onSuccess ==
  \/ /\ state = "closed"
     /\ failures' = 0
     /\ UNCHANGED <<state, successes, slots>>
  \/ /\ state = "half-open"
     /\ failures' = 0
     /\ IF successes + 1 >= SuccessThreshold
        THEN state' = "closed" /\ successes' = 0 /\ slots' = 0
        ELSE successes' = successes + 1 /\ slots' = slots - 1 /\ UNCHANGED state
  \/ /\ state = "open"
     /\ failures' = 0
     /\ UNCHANGED <<state, successes, slots>>

(* Defect: a failed probe opens the breaker and leaves the other probes of *)
(* the period counted.                                                     *)
onFailureKeepingSlots ==
  \/ /\ state = "closed"
     /\ failures' = failures + 1
     /\ successes' = 0
     /\ IF failures' >= FailureThreshold
        THEN state' = "open" /\ elapsed' = FALSE
        ELSE UNCHANGED <<state, elapsed>>
     /\ UNCHANGED slots
  \/ /\ state = "half-open"
     /\ state' = "open" /\ elapsed' = FALSE
     /\ failures' = FailureThreshold
     /\ successes' = 0
     /\ UNCHANGED slots
  \/ /\ state = "open"
     /\ failures' = failures + 1
     /\ UNCHANGED <<state, successes, slots, elapsed>>

onFailure ==
  \/ /\ state = "closed"
     /\ failures' = failures + 1
     /\ successes' = 0
     /\ IF failures' >= FailureThreshold
        THEN state' = "open" /\ elapsed' = FALSE
        ELSE UNCHANGED <<state, elapsed>>
     /\ UNCHANGED slots
  \/ /\ state = "half-open"
     /\ state' = "open" /\ elapsed' = FALSE
     /\ failures' = FailureThreshold
     /\ successes' = 0 /\ slots' = 0
  \/ /\ state = "open"
     /\ failures' = failures + 1
     /\ UNCHANGED <<state, successes, slots, elapsed>>

CallEnds ==
  \/ calls > 0 /\ calls' = calls - 1 /\ UNCHANGED probes
  \/ probes > 0 /\ probes' = probes - 1 /\ UNCHANGED calls

Succeed ==
  /\ CallEnds
  /\ onSuccess
  /\ streak' = 0
  /\ UNCHANGED <<elapsed, up>>

(* A service that is up answers every call.                                *)
Fail ==
  /\ ~up
  /\ CallEnds
  /\ onFailure
  /\ streak' = IF streak < FailureThreshold THEN streak + 1 ELSE streak
  /\ UNCHANGED up

-----------------------------------------------------------------------------

Reset ==
  /\ state' = "closed"
  /\ failures' = 0 /\ successes' = 0 /\ slots' = 0
  /\ elapsed' = FALSE
  /\ UNCHANGED <<calls, probes, streak, up>>

(* The timeout passes.                                                     *)
Elapse ==
  /\ state = "open" /\ ~elapsed
  /\ elapsed' = TRUE
  /\ UNCHANGED <<state, failures, successes, slots, calls, probes, streak, up>>

ServiceChanges ==
  /\ up' = ~up
  /\ UNCHANGED <<breaker, calls, probes, streak>>

Next ==
  \/ beforeCall \/ Succeed \/ Fail
  \/ Reset \/ Elapse \/ ServiceChanges

Spec == Init /\ [][Next]_vars

(* Time passes, calls end, and the client keeps calling; nobody has to     *)
(* reset the breaker.                                                      *)
FairSpec == Spec /\ WF_vars(Elapse) /\ WF_vars(beforeCall) /\ WF_vars(Succeed \/ Fail)

-----------------------------------------------------------------------------
Flags == elapsed \in BOOLEAN /\ up \in BOOLEAN

(* Type invariant; nothing is counted for a half-open period that is over. *)
TypeOK ==
  /\ state \in {"closed", "open", "half-open"}
  /\ failures \in Nat /\ successes \in Nat /\ slots \in Int
  /\ Flags
  /\ calls \in Nat /\ probes \in Nat /\ streak \in 0..FailureThreshold
  /\ state # "half-open" => slots = 0 /\ successes = 0

(* A slot is never lost: a half-open breaker that is full has calls in     *)
(* progress to wait for, however late their results come and whatever      *)
(* state they come in.                                                     *)
SlotsAreReturned == slots <= calls + probes

(* The breaker opens only on FailureThreshold failures in a row, or on a   *)
(* failure while half-open; a success in between starts the count again.   *)
OpensOnStreak ==
  [][state = "closed" /\ state' = "open" => streak' = FailureThreshold]_vars

(* A breaker recovers: once the service stays up and calls keep coming it  *)
(* closes and stays closed, with no reset and in spite of late results.    *)
Recovers == <>[]up => <>[](state = "closed")
===============================================================================

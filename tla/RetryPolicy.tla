----------------------------- MODULE RetryPolicy -----------------------------
(***************************************************************************)
(* RetryPolicy and NoRetryPolicy of include/launch_cpp/safety/             *)
(* retry_policy.hpp, which call an operation again until it succeeds, is   *)
(* refused or has been tried often enough.  No part of the repository uses *)
(* them: ExecuteProcess has a loop of its own, and this is what that loop  *)
(* is compared with.                                                       *)
(***************************************************************************)
EXTENDS Naturals

CONSTANT Width   \* how many values a uint32_t has

\* The errors of an operation, and what execute() may return.
Errors == {"kForkFailed", "kExecFailed", "kTimeout", "kResourceExhausted",
           "kPermissionDenied", "kConfigInvalid", "kUnknown"}
Outcomes == Errors \union {"none", "kSuccess", "kMaxRetriesExceeded"}

VARIABLES
  config,    \* config_, with whether it is a RetryPolicy or a NoRetryPolicy
  stage,     \* where execute() is
  attempt,   \* attempt
  delay,     \* what it sleeps
  outcome    \* what it returned last

vars == <<config, stage, attempt, delay, outcome>>

Configs == [retrying : BOOLEAN, max_attempts : Nat, initial_delay : Nat,
            backoff_multiplier : Nat, retryable_errors : SUBSET Errors]

\* What the constructor of RetryConfig puts into retryable_errors.
Retryable == {"kForkFailed", "kResourceExhausted", "kTimeout"}

Uint32 == 0 .. Width - 1

\* The conversion of a double to uint32_t is undefined when the value is too
\* large: the build truncates it to 32 bits or gives the largest value.
Converted(n) == IF n \in Uint32 THEN {n} ELSE {m \in Uint32 : m \in {n % Width, Width - 1}}

\* The values of calculate_delay(n); a multiplier of 1 is no multiplication.
Delays(initial, multiplier, n) ==
  Converted(IF multiplier = 1 THEN initial ELSE initial * multiplier ^ (n - 1))

Init ==
  /\ config \in Configs
  /\ stage = "out" /\ attempt = 0 /\ delay = 0 /\ outcome = "none"

Return(o) == stage' = "out" /\ outcome' = o

-----------------------------------------------------------------------------
Call ==
  /\ stage = "out"
  /\ attempt' = 0
  /\ IF config.retrying /\ config.max_attempts = 0
     THEN Return("kMaxRetriesExceeded")
     ELSE stage' = "trying" /\ UNCHANGED outcome
  /\ UNCHANGED <<config, delay>>

Succeed ==
  /\ stage = "trying"
  /\ Return("kSuccess")
  /\ UNCHANGED <<config, attempt, delay>>

should_retry(e) == config.retrying /\ e \in config.retryable_errors

FailFor(e) ==
  /\ stage = "trying" /\ ~should_retry(e)
  /\ Return(e)
  /\ UNCHANGED <<config, attempt, delay>>

Fail(e) ==
  /\ stage = "trying" /\ should_retry(e)
  /\ attempt' = attempt + 1
  /\ IF attempt + 1 >= config.max_attempts
     THEN Return("kMaxRetriesExceeded")
     ELSE stage' = "again" /\ UNCHANGED outcome
  /\ UNCHANGED <<config, delay>>

Sleep ==
  /\ stage = "again"
  /\ delay' \in Delays(config.initial_delay, config.backoff_multiplier, attempt)
  /\ stage' = "sleeping"
  /\ UNCHANGED <<config, attempt, outcome>>

Wake ==
  /\ stage = "sleeping"
  /\ stage' = "trying" /\ delay' = 0
  /\ UNCHANGED <<config, attempt, outcome>>

Next == Call \/ Succeed \/ (\E e \in Errors : FailFor(e) \/ Fail(e)) \/ Sleep \/ Wake

Spec == Init /\ [][Next]_vars

=============================================================================

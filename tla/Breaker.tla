------------------------------- MODULE Breaker -------------------------------
(***************************************************************************)
(* ResilientAgentExecutor and ResilientToolExecutor: calls of one agent or *)
(* tool on behalf of one principal, with their timeouts and retries and    *)
(* the circuit breaker they share.  Between two awaits a coroutine is not  *)
(* interrupted: every action is what runs between two of them.             *)
(***************************************************************************)
EXTENDS Naturals, FiniteSets

CONSTANTS Caller,     \* coroutines that may be in execute at once
          MaxRetries, \* agent_default_max_retries
          Threshold   \* agent_circuit_breaker_threshold

ASSUME BreakerAssumption ==
    IsFiniteSet(Caller) /\ MaxRetries \in Nat /\ Threshold \in Nat \ {0}

VARIABLES
    failures, \* _failures of the key
    circuit,  \* _opened_at: closed, open, or open for the reset time and longer
    at,       \* where each call is in execute
    attempt,  \* its attempt
    load      \* attempts begun since the circuit opened

breakerVars == <<failures, circuit, at, attempt, load>>

BreakerInit ==
    /\ failures = 0 /\ circuit = "closed" /\ load = 0
    /\ at = [c \in Caller |-> "out"] /\ attempt = [c \in Caller |-> 0]

CloseCircuit == failures' = 0 /\ circuit' = "closed" /\ load' = 0
Stay == UNCHANGED <<failures, circuit, load>>
Leave(c) == at' = [at EXCEPT ![c] = "out"] /\ attempt' = [attempt EXCEPT ![c] = 0]

-----------------------------------------------------------------------------
\* A call is refused while the circuit is open, which leaves everything as it
\* is; the first one after the reset time closes it.
Enter(c) ==
    /\ at[c] = "out" /\ circuit # "open"
    /\ at' = [at EXCEPT ![c] = "announcing"] /\ attempt' = [attempt EXCEPT ![c] = 1]
    /\ \/ circuit = "closed" /\ Stay
       \/ circuit = "elapsed" /\ CloseCircuit

\* agent.started or agent.retrying is published, then the adapter is called.
Start(c) ==
    /\ at[c] = "announcing"
    /\ at' = [at EXCEPT ![c] = "calling"]
    /\ load' = IF circuit = "closed" THEN 0 ELSE load + 1
    /\ UNCHANGED <<failures, circuit, attempt>>

\* The event cannot be published, the call is cancelled, or the answer is stopped.
Raise(c) ==
    /\ at[c] # "out"
    /\ Leave(c) /\ Stay

Succeed(c) ==
    /\ at[c] = "calling"
    /\ failures' = 0
    /\ at' = [at EXCEPT ![c] = "reporting"]
    /\ UNCHANGED <<circuit, attempt, load>>

Return(c) ==
    /\ at[c] = "reporting"
    /\ Leave(c) /\ Stay

\* The adapter fails or times out, or its success cannot be published.
Failing(c) == at[c] \in {"calling", "reporting"}

\* A variant without the limit on attempts.
RetryOnce(c) ==
    /\ Failing(c)
    /\ at' = [at EXCEPT ![c] = "sleeping"]
    /\ UNCHANGED attempt /\ Stay

\* A retryable code, and no part of the answer has been streamed.
Retry(c) ==
    /\ Failing(c) /\ attempt[c] <= MaxRetries
    /\ at' = [at EXCEPT ![c] = "sleeping"]
    /\ UNCHANGED attempt /\ Stay

Again(c) ==
    /\ at[c] = "sleeping"
    /\ at' = [at EXCEPT ![c] = "announcing"] /\ attempt' = [attempt EXCEPT ![c] = @ + 1]
    /\ Stay

\* A code that is not retryable, or the last attempt.  A circuit that is open
\* already is open from now on.
Fail(c) ==
    /\ Failing(c)
    /\ failures' = failures + 1
    /\ circuit' = IF failures + 1 >= Threshold THEN "open" ELSE circuit
    /\ Leave(c)
    /\ UNCHANGED load

\* agent_circuit_breaker_reset_seconds pass.
ResetElapses ==
    /\ circuit = "open" /\ circuit' = "elapsed"
    /\ UNCHANGED <<failures, at, attempt, load>>

\* Another principal's call finds more than 4096 keys and clears them all.
ClearAll == CloseCircuit /\ UNCHANGED <<at, attempt>>

BreakerNext ==
    \/ \E c \in Caller : \/ Enter(c) \/ Start(c) \/ Raise(c) \/ Succeed(c) \/ Return(c)
                         \/ Retry(c) \/ Again(c) \/ Fail(c)
    \/ ResetElapses \/ ClearAll

BreakerSpec == BreakerInit /\ [][BreakerNext]_breakerVars

-----------------------------------------------------------------------------
\* Every variable holds a value of its type; a call that is out has no attempt.
BreakerTypeOK ==
    /\ failures \in Nat /\ circuit \in {"closed", "open", "elapsed"} /\ load \in Nat
    /\ at \in [Caller -> {"out", "announcing", "calling", "reporting", "sleeping"}]
    /\ attempt \in [Caller -> 0 .. MaxRetries + 1]
    /\ \A c \in Caller : at[c] = "out" <=> attempt[c] = 0
    /\ \A c \in Caller : at[c] = "sleeping" => attempt[c] <= MaxRetries

(***************************************************************************)
(* Once the circuit has opened, only the calls that were under way still   *)
(* reach the agent, with the attempts they have left: the breaker is not   *)
(* asked between attempts, but what that costs is bounded.                 *)
(***************************************************************************)
LoadWhileOpen ==
    circuit # "closed" => load <= (Cardinality(Caller) - 1) * (MaxRetries + 1)
=============================================================================

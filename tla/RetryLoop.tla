----------------------------- MODULE RetryLoop -----------------------------
(***************************************************************************)
(* One invocation of retryAWS (internal/s3/retry.go): the attempts it      *)
(* makes, the sleeps between them and the answer it gives, for any policy  *)
(* a caller could pass and any sequence of errors of the call it wraps.    *)
(* The context of the request may be cancelled at any moment.              *)
(***************************************************************************)
EXTENDS RetryPolicy, Sequences

CONSTANTS
    Policies,   \* the raw policies handed to retryAWS
    Errors      \* the errors the wrapped call may return

ASSUME PoliciesAssumption ==
    Policies \subseteq [maxAttempts : Int, initialDelay : Int, maxDelay : Int]

VARIABLES
    policy,     \* the normalised policy p
    pc,         \* "call" | "sleep" | "ok" | "failed"
    attempt,    \* the loop variable
    calls,      \* how often fn has been called
    lastError,  \* error of the latest failed call
    sleeps,     \* the delays slept so far, in order
    cancelled   \* ctx.Done() is closed

retryVars == <<policy, pc, attempt, calls, lastError, sleeps, cancelled>>

NoError == [ctx |-> FALSE, code |-> "none", status |-> 0, timeout |-> FALSE]
CtxError == [NoError EXCEPT !.ctx = TRUE]

RetryInit ==
    /\ \E raw \in Policies : policy = Normalized(raw)
    /\ pc = "call"
    /\ attempt = 1
    /\ calls = 0
    /\ lastError = NoError
    /\ sleeps = <<>>
    /\ cancelled = FALSE

CallSucceeds ==
    /\ pc = "call"
    /\ calls' = calls + 1
    /\ pc' = "ok"
    /\ UNCHANGED <<policy, attempt, lastError, sleeps, cancelled>>

\* A context error needs a context that is done.
CallFails ==
    /\ pc = "call"
    /\ \E e \in Errors :
        /\ e.ctx => cancelled
        /\ lastError' = e
        /\ pc' = IF GivesUp(policy, attempt, e) THEN "failed" ELSE "sleep"
    /\ calls' = calls + 1
    /\ UNCHANGED <<policy, attempt, sleeps, cancelled>>

\* A plausible bug, for the mutants: the loop goes on only while the context is alive, and forgets to leave.
WakeUnlessCancelled ==
    /\ pc = "sleep"
    /\ ~cancelled
    /\ sleeps' = Append(sleeps, BackoffForAttempt(policy, attempt))
    /\ attempt' = attempt + 1
    /\ pc' = "call"
    /\ UNCHANGED <<policy, calls, lastError, cancelled>>

Wake ==
    /\ pc = "sleep"
    /\ sleeps' = Append(sleeps, BackoffForAttempt(policy, attempt))
    /\ attempt' = attempt + 1
    /\ pc' = "call"
    /\ UNCHANGED <<policy, calls, lastError, cancelled>>

SleepInterrupted ==
    /\ pc = "sleep"
    /\ cancelled
    /\ SleepIsInterruptible(BackoffForAttempt(policy, attempt))
    /\ lastError' = CtxError
    /\ pc' = "failed"
    /\ UNCHANGED <<policy, attempt, calls, sleeps, cancelled>>

Cancel ==
    /\ pc \in {"call", "sleep"}
    /\ ~cancelled
    /\ cancelled' = TRUE
    /\ UNCHANGED <<policy, pc, attempt, calls, lastError, sleeps>>

RetryStep == CallSucceeds \/ CallFails \/ Wake \/ SleepInterrupted
RetryNext == RetryStep \/ Cancel

RetrySpec == RetryInit /\ [][RetryNext]_retryVars /\ WF_retryVars(RetryStep)

-----------------------------------------------------------------------------
RetryTypeOK ==
    /\ policy \in [maxAttempts : Nat \ {0}, initialDelay : Nat, maxDelay : Nat \ {0}]
    /\ pc \in {"call", "sleep", "ok", "failed"}
    /\ attempt \in Nat
    /\ calls \in Nat
    /\ sleeps \in Seq(Nat)
    /\ cancelled \in BOOLEAN

\* The wrapped AWS call is never made more often than the policy allows, and a
\* give-up before that limit is always explained: the last error was final, or
\* the context was cancelled.
GivesUpForAReason ==
    /\ calls <= policy.maxAttempts
    /\ pc = "failed" =>
        \/ calls = policy.maxAttempts
        \/ ~IsRetryable(lastError)
        \/ lastError = CtxError /\ cancelled

\* 2 to the power of n, as a function that can be reasoned about.
TwoTo[n \in Nat] == IF n = 0 THEN 1 ELSE 2 * TwoTo[n - 1]

\* The n-th sleep of the doubling loop equals its closed form: the initial
\* delay for the first, min(initial * 2^(n-1), maxDelay) from the second on.
\* The cap is looked at only where the loop doubles, so it does not hold for the
\* first sleep: a policy that starts above its cap waits longest before its first
\* retry and less before every other, and only from the second sleep on do the
\* delays stay within maxDelay and never shrink.
BackoffClosedForm ==
    \A n \in 1 .. Len(sleeps) :
        LET exponential == policy.initialDelay * TwoTo[n - 1]
        IN  sleeps[n] = IF n = 1 \/ exponential <= policy.maxDelay
                        THEN exponential
                        ELSE policy.maxDelay

\* A loop that is not interrupted ends with the answer of the call: it cannot
\* spin, and the "retry exhausted" fall-through behind the loop is unreachable.
Terminates == <>(pc \in {"ok", "failed"})
=============================================================================

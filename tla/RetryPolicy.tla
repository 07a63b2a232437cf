---------------------------- MODULE RetryPolicy ----------------------------
(***************************************************************************)
(* The pure part of internal/s3/retry.go: how a retry policy is            *)
(* normalised, which errors are worth another attempt, and how long the    *)
(* caller sleeps before it.  Durations are milliseconds.                   *)
(*                                                                         *)
(* An error is abstracted to what isRetryableAWSError tells apart:         *)
(*   ctx      it wraps context.Canceled or context.DeadlineExceeded        *)
(*   code     the smithy API error code, "" when it is no API error        *)
(*   status   the HTTP status of the response error, 0 when there is none  *)
(*   timeout  it is a net.Error whose Timeout() is true                    *)
(***************************************************************************)
EXTENDS Integers

DefaultMaxAttempts  == 3
DefaultInitialDelay == 100
DefaultMaxDelay     == 1000

DefaultRetryPolicy ==
    [maxAttempts  |-> DefaultMaxAttempts,
     initialDelay |-> DefaultInitialDelay,
     maxDelay     |-> DefaultMaxDelay]

Normalized(p) ==
    [maxAttempts  |-> IF p.maxAttempts < 1 THEN DefaultMaxAttempts ELSE p.maxAttempts,
     initialDelay |-> IF p.initialDelay < 0 THEN 0 ELSE p.initialDelay,
     maxDelay     |-> IF p.maxDelay <= 0 THEN DefaultMaxDelay ELSE p.maxDelay]

\* The codes are compared in lower case; a representative of the list stands for it.
RetryableCodes    == {"throttling", "slowdown", "requesttimeout", "internalerror", "serviceunavailable"}
RetryableStatuses == {429, 500, 502, 503, 504}

IsRetryable(e) ==
    /\ ~e.ctx
    /\ \/ e.code \in RetryableCodes
       \/ e.status \in RetryableStatuses
       \/ e.timeout

\* A plausible bug, for the mutants: one attempt too many.
GivesUpLate(p, attempt, e) == attempt > p.maxAttempts \/ ~IsRetryable(e)

\* The test of the loop that decides between another attempt and giving up.
GivesUp(p, attempt, e) == attempt >= p.maxAttempts \/ ~IsRetryable(e)

\* A plausible bug, for the mutants: the cap is compared before the doubling.
BackoffUncapped(p, attempt) ==
    LET doubled[i \in Nat] ==
            IF i = 0 THEN p.initialDelay
            ELSE IF doubled[i - 1] >= p.maxDelay THEN p.maxDelay ELSE 2 * doubled[i - 1]
    IN  IF attempt <= 1 \/ p.initialDelay <= 0
        THEN p.initialDelay
        ELSE doubled[attempt - 1]

\* The doubling loop of backoffForAttempt: it stops as soon as it reaches the cap.
BackoffForAttempt(p, attempt) ==
    LET doubled[i \in Nat] ==
            IF i = 0 THEN p.initialDelay
            ELSE LET d == 2 * doubled[i - 1]
                 IN  IF d >= p.maxDelay THEN p.maxDelay ELSE d
    IN  IF attempt <= 1 \/ p.initialDelay <= 0
        THEN p.initialDelay
        ELSE doubled[attempt - 1]

\* sleepWithContext returns at once, and never looks at the context, when there is nothing to wait for.
SleepIsInterruptible(delay) == delay > 0
=============================================================================

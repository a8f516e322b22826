------------------------------- MODULE Retry --------------------------------
(***************************************************************************)
(* The retry policy shared by the HTTP proxy and the OTLP exporter         *)
(* (internal/retry/retry.go).  Durations are integers of Width bits, in    *)
(* units of which Second make a second.                                    *)
(***************************************************************************)
EXTENDS Integers

CONSTANTS Width,   \* bits of a time.Duration
          Second   \* time.Second

\* The last conjunct is arithmetic that the provers do not know.
ASSUME RetryAssumption ==
    /\ Width \in Nat \ {0}
    /\ Second \in Nat \ {0}
    /\ 2^Width \in Nat \ {0}

MaxInt == 2^(Width - 1) - 1

\* Two's complement: what a product leaves in Width bits.
Wrap(n) == ((n + 2^(Width - 1)) % 2^Width) - 2^(Width - 1)

\* A policy is [maxRetries, initial, max, statuses]; statuses are the ones its
\* classifier retries, and a request error (status 0) is always retried.
\* The default classifier, which the exporter uses.
ShouldRetry(status) == status \in {408, 429} \/ (status >= 500 /\ status # 501)

IsRetryable(p, status, err) == err \/ status \in p.statuses

CanRetry(p, attempt, status, err) ==
    /\ p.maxRetries > 0
    /\ attempt < p.maxRetries
    /\ IsRetryable(p, status, err)

capDelay(delay, maxDelay) == IF maxDelay > 0 /\ delay > maxDelay THEN maxDelay ELSE delay

\* Mutant: Retry-After is obeyed as it comes.
DelayUncapped(p, attempt, retryAfter) ==
    IF retryAfter > 0 THEN retryAfter ELSE p.initial * 2^attempt

\* Delay before the next attempt; attempt counts the retries that backed off.
Delay(p, attempt, retryAfter) ==
    LET maxInterval == IF p.initial > 0 /\ p.max < p.initial THEN p.initial ELSE p.max
        delay == p.initial * 2^attempt
    IN  CASE retryAfter > 0 -> capDelay(retryAfter, maxInterval)
          [] retryAfter <= 0 /\ p.initial <= 0 -> 0
          [] retryAfter <= 0 /\ p.initial > 0 ->
                capDelay(IF delay > MaxInt THEN MaxInt ELSE delay, maxInterval)

\* ParseRetryAfter of a header that says so many seconds; 0 is a missing,
\* malformed or past value.  time.Duration(seconds) * time.Second may wrap.
ParseRetryAfter(seconds) == Wrap(seconds * Second)
=============================================================================

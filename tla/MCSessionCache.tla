--------------------------- MODULE MCSessionCache ---------------------------
(* Three calls over one role seen with a nil, an empty and a real external *)
(* id, and one unusable reference: every pair of callers can collide on    *)
(* one key or work on different keys under the one lock.  Two attempts     *)
(* reach the retry, the sleep and the last attempt.                        *)
EXTENDS SessionCache

CONSTANTS c1, c2, c3

MCCallers == {c1, c2, c3}

MCRefs ==
    { [region |-> "eu", role |-> "writer", external |-> NilExternalID],
      [region |-> "eu", role |-> "writer", external |-> ""],
      [region |-> "eu", role |-> "writer", external |-> "tenant"],
      [region |-> "", role |-> "writer", external |-> NilExternalID] }

MCPolicy == [maxAttempts |-> 2, initialDelay |-> 100, maxDelay |-> 1000]

MCSTSErrors ==
    { [ctx |-> FALSE, code |-> "throttling", status |-> 400, timeout |-> FALSE],
      [ctx |-> FALSE, code |-> "accessdenied", status |-> 403, timeout |-> FALSE],
      [ctx |-> TRUE, code |-> "", status |-> 0, timeout |-> FALSE] }
=============================================================================

--------------------------- MODULE MCRateLimiter ---------------------------
(* A tick is half a second and a window two of them.  A stamp that was      *)
(* overtaken may lie more than a window before the end of the one it meets, *)
(* so that Retry-After has something to round.  Two principals share one    *)
(* address; the last caller is what disabled authentication leaves in the   *)
(* context.                                                                 *)
EXTENDS RateLimiter, TLC

MCCallers ==
    { [type |-> "user", subject |-> "u", ip |-> "a"],
      [type |-> "service", subject |-> "u", ip |-> "a"],
      [type |-> "", subject |-> "", ip |-> "a"] }

\* Requests are alike: they are numbered in the order in which they arrive.  Within one
\* tick users come first, a request without identity comes last of all, and of two that
\* differ in nothing the first consumes first.
Numbered ==
    \A r, next \in Requests :
        next = r + 1 /\ pc[next] # "new" =>
            /\ pc[r] # "new"
            /\ pc[r] = "unauthenticated" => pc[next] = "unauthenticated"
            /\ pc[next] # "unauthenticated" /\ stamp[next] = stamp[r] =>
                 /\ caller[next].type = "user" => caller[r].type = "user"
                 /\ caller[next] = caller[r] /\ pc[r] = "stamped" => pc[next] = "stamped"
=============================================================================

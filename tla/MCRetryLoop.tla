---------------------------- MODULE MCRetryLoop ----------------------------
(* Policies below, at and above the defaults and the caps, with the zero   *)
(* and negative values that normalized() repairs.                          *)
EXTENDS RetryLoop

MCPolicies ==
    [maxAttempts : {-1, 0, 1, 2, 5}, initialDelay : {-5, 0, 100, 400, 1500}, maxDelay : {-1, 0, 350, 800, 1000}]

MCErrors ==
    { [NoError EXCEPT !.code = "slowdown"],
      [NoError EXCEPT !.code = "accessdenied", !.status = 403],
      [NoError EXCEPT !.code = "accessdenied", !.status = 503],
      [NoError EXCEPT !.timeout = TRUE],
      [NoError EXCEPT !.ctx = TRUE, !.timeout = TRUE] }
=============================================================================

----------------------------- MODULE MCPipeline -----------------------------
(* Two callers whose keys come and go, and the ways a token can be refused. *)
EXTENDS Pipeline, TLC

CONSTANTS r1, r2, alice, bob, k1, k2

MCTokens ==
    { [subject |-> alice, kid |-> k1, flaw |-> "none"], [subject |-> bob, kid |-> k2, flaw |-> "none"] }
        \cup { [subject |-> alice, kid |-> k2, flaw |-> flaw] : flaw \in {"malformed", "forged", "expired", "claims"} }

MCSymmetry == Permutations({r1, r2})
=============================================================================

--------------------------- MODULE MCSaladClient ---------------------------
(* Two goroutines with one client, and a token that is replaced by a stale   *)
(* one and back.  A second of 6 = 2 * 3 ticks and a width of 6 bits, which   *)
(* keeps the one thing the real numbers have in common with it: the width    *)
(* is a multiple of the power of two in a second, but not of the second.     *)
EXTENDS SaladClient, TLC

CONSTANTS c1, c2

MCDefaultTTL == "GET" :> 3 * Second @@ "PUT" :> 2 * Second
MCMaxTTL     == "GET" :> 5 * Second @@ "PUT" :> 4 * Second
\* A whole period of the product in the width, which it leaves on both sides.
MCRequested  == -16 .. 16
MCSymmetry   == Permutations({c1, c2})
=============================================================================

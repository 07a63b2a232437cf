-------------------------- MODULE PresignLifetimes --------------------------
(***************************************************************************)
(* How long a presigned URL lives: the seconds of the body become a        *)
(* time.Duration of signed 64 bits (internal/httpapi/handlers/objects.go), *)
(* the service brings it within the bounds of the method                   *)
(* (internal/service/object_presign.go), the helper signs it               *)
(* (internal/s3/presign_helper.go) and the handler reports whole seconds.  *)
(*                                                                         *)
(* The width and the number of ticks in a second are parameters: what      *)
(* matters is that the product of seconds and ticks may leave the width.   *)
(***************************************************************************)
EXTENDS Integers

CONSTANTS
    PresignMethods,  \* GET and PUT
    Second,          \* ticks in a second, time.Second
    Half,            \* a Duration is in -Half .. Half - 1, 2^63
    MinPresignTTL, DefaultTTL, MaxTTL,  \* in ticks, the last two per method
    SDKDefault       \* what the SDK signs when it is given no time

ASSUME LifetimeAssumption ==
    /\ Second \in Nat \ {0} /\ Half \in Nat \ {0}
    /\ DefaultTTL \in [PresignMethods -> Nat] /\ MaxTTL \in [PresignMethods -> Nat]
    /\ MinPresignTTL \in Nat \ {0} /\ SDKDefault \in Nat
    /\ \A m \in PresignMethods : MinPresignTTL <= DefaultTTL[m] /\ DefaultTTL[m] <= MaxTTL[m] /\ MaxTTL[m] < Half

\* time.Duration(s) * time.Second, in two's complement.
AsDuration(s) == ((s * Second + Half) % (2 * Half)) - Half

Clamp(x, low, high) == IF x < low THEN low ELSE IF x > high THEN high ELSE x

\* A plausible bug, for the mutants: the upper bound does not look at the method.
NormalizeWithOneMaximum(m, requested) ==
    IF requested <= 0 THEN DefaultTTL[m]
    ELSE Clamp(requested, MinPresignTTL,
               CHOOSE t \in {MaxTTL[n] : n \in PresignMethods} : \A n \in PresignMethods : t >= MaxTTL[n])

NormalizePresignTTL(m, requested) ==
    IF requested <= 0 THEN DefaultTTL[m] ELSE Clamp(requested, MinPresignTTL, MaxTTL[m])

\* PresignObject of the helper.
Expires(expiresIn) == IF expiresIn > 0 THEN expiresIn ELSE SDKDefault

\* A plausible bug, for the mutants: the answer repeats what was asked for.
PresignReportingRequest(m, seconds) ==
    [lifetime |-> Expires(NormalizePresignTTL(m, AsDuration(seconds))), reported |-> seconds]

\* The lifetime of the URL, in ticks, and the seconds of the answer.
Presign(m, seconds) ==
    LET expiresIn == NormalizePresignTTL(m, AsDuration(seconds))
    IN  [lifetime |-> Expires(expiresIn), reported |-> expiresIn \div Second]
=============================================================================

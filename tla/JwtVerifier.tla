---------------------------- MODULE JwtVerifier ----------------------------
(***************************************************************************)
(* The verifier of bearer tokens, internal/auth/auth.go, and the key set   *)
(* it keeps with the library keyfunc (external): VerifyWithContext looks   *)
(* the key of a token up in the cached set, has the set refreshed when the *)
(* key is not there, looks again, and checks the claims.  Meanwhile the    *)
(* issuer rotates its keys and may be out of reach, and the set is         *)
(* refreshed every hour.                                                   *)
(*                                                                         *)
(* A token is what it is good for: whose it is, which key it names and     *)
(* what is wrong with it.  "malformed" stands for what jwt.Parse refuses   *)
(* before it asks for a key (the algorithm among it), "forged" for a       *)
(* signature that is not of that key, "claims" for an issuer, an audience, *)
(* a subject, an app, a project, a role or a principal type that is        *)
(* missing or wrong.                                                       *)
(***************************************************************************)
EXTENDS Naturals, FiniteSets

CONSTANTS
    Requests,      \* identities of requests
    Subjects,      \* principals a token can name
    Keys,          \* keys of the issuer
    Tokens,        \* the tokens requests carry
    NoToken,       \* no bearer token in the header
    RefreshQueue,  \* requests that can wait for a refresh at a time
    MaxRotations   \* bound on the changes of the issuer's keys

Flaws       == {"none", "malformed", "forged", "expired", "claims"}
TokenShapes == [subject : Subjects, kid : Keys, flaw : Flaws]

ASSUME VerifierAssumption ==
    /\ Tokens \subseteq TokenShapes
    /\ NoToken \notin TokenShapes
    /\ RefreshQueue \in Nat \ {0} /\ MaxRotations \in Nat

VARIABLES
    jwtEnabled,  \* configuration of the verifier
    published,   \* keys the issuer publishes
    cached,      \* keys in the cached set
    rotations,   \* how often the issuer changed its keys
    token,       \* the bearer token of each request
    gone,        \* the client hung up: the context of the request is done
    verdict,     \* how far VerifyWithContext is, and what it returns
    vouched,     \* history: keys published at some moment since the last refresh
    excused,     \* history: a good token may be refused
    stale        \* history: the key was not vouched for when it was found

keyVars    == <<published, cached, rotations, vouched>>
checkVars  == <<verdict, excused, stale>>
verifyVars == <<jwtEnabled, keyVars, token, gone, checkVars>>

Verdicts == {"none", "key", "refresh", "again", "check", "valid", "expired", "invalid"}

\* An enabled verifier exists only when it has loaded the keys once.
VerifierInit ==
    /\ jwtEnabled \in BOOLEAN
    /\ published \in (SUBSET Keys) \ {{}}
    /\ cached = IF jwtEnabled THEN published ELSE {}
    /\ rotations = 0
    /\ token = [r \in Requests |-> NoToken]
    /\ gone = [r \in Requests |-> FALSE]
    /\ verdict = [r \in Requests |-> "none"]
    /\ vouched = published
    /\ excused = [r \in Requests |-> FALSE]
    /\ stale = [r \in Requests |-> FALSE]

Return(r, v) == verdict' = [verdict EXCEPT ![r] = v]

\* The context is looked at here and never again.
Begin(r) ==
    /\ verdict[r] = "none"
    /\ Return(r, IF ~jwtEnabled THEN "valid"
                 ELSE IF gone[r] \/ token[r].flaw = "malformed" THEN "invalid" ELSE "key")
    /\ excused' = [excused EXCEPT ![r] = gone[r] \/ token[r].kid \notin published]
    /\ UNCHANGED <<jwtEnabled, keyVars, token, gone, stale>>

\* A plausible bug, for the mutants: RefreshUnknownKID is not set.
FindKeyInCache(r) ==
    /\ verdict[r] = "key"
    /\ Return(r, IF token[r].kid \in cached THEN "check" ELSE "invalid")
    /\ stale' = [stale EXCEPT ![r] = token[r].kid \notin vouched]
    /\ UNCHANGED <<jwtEnabled, keyVars, token, gone, excused>>

Waiting == {r \in Requests : verdict[r] = "refresh"}

\* A key that is not cached is worth a refresh, unless too many are waiting for one.
FindKey(r) ==
    /\ verdict[r] = "key"
    /\ \/ /\ token[r].kid \in cached
          /\ Return(r, "check")
          /\ stale' = [stale EXCEPT ![r] = token[r].kid \notin vouched]
          /\ UNCHANGED excused
       \/ /\ token[r].kid \notin cached
          /\ Cardinality(Waiting) < RefreshQueue
          /\ Return(r, "refresh")
          /\ UNCHANGED <<excused, stale>>
       \/ /\ token[r].kid \notin cached
          /\ Cardinality(Waiting) >= RefreshQueue
          /\ Return(r, "invalid")
          /\ excused' = [excused EXCEPT ![r] = TRUE]
          /\ UNCHANGED stale
    /\ UNCHANGED <<jwtEnabled, keyVars, token, gone>>

LoadKeys == cached' = published /\ vouched' = published

\* The refresh a request waits for: the request is woken whether or not it succeeded.
Refresh(r) ==
    /\ verdict[r] = "refresh"
    /\ \/ LoadKeys /\ UNCHANGED excused
       \/ UNCHANGED <<cached, vouched>> /\ excused' = [excused EXCEPT ![r] = TRUE]
    /\ Return(r, "again")
    /\ UNCHANGED <<jwtEnabled, published, rotations, token, gone, stale>>

FindKeyAgain(r) ==
    /\ verdict[r] = "again"
    /\ Return(r, IF token[r].kid \in cached THEN "check" ELSE "invalid")
    /\ stale' = [stale EXCEPT ![r] = token[r].kid \in cached /\ token[r].kid \notin vouched]
    /\ UNCHANGED <<jwtEnabled, keyVars, token, gone, excused>>

\* The signature, the dates, the issuer and the audience, then the claims of the service.
CheckToken(r) ==
    /\ verdict[r] = "check"
    /\ Return(r, CASE token[r].flaw = "none" -> "valid"
                   [] token[r].flaw = "expired" -> "expired"
                   [] OTHER -> "invalid")
    /\ UNCHANGED <<jwtEnabled, keyVars, token, gone, excused, stale>>

Verify(r) == Begin(r) \/ FindKey(r) \/ Refresh(r) \/ FindKeyAgain(r) \/ CheckToken(r)

HourlyRefresh ==
    /\ jwtEnabled
    /\ LoadKeys
    /\ UNCHANGED <<jwtEnabled, published, rotations, token, gone, checkVars>>

\* The issuer adds keys and withdraws others.
Rotate ==
    /\ rotations < MaxRotations
    /\ rotations' = rotations + 1
    /\ \E keys \in (SUBSET Keys) \ {{}, published} :
        /\ published' = keys
        /\ vouched' = vouched \cup keys
        /\ excused' = [r \in Requests |->
                         excused[r] \/ (verdict[r] \in {"key", "refresh", "again"} /\ token[r].kid \notin keys)]
    /\ UNCHANGED <<jwtEnabled, cached, token, gone, verdict, stale>>

VerifierTypeOK ==
    /\ jwtEnabled \in BOOLEAN
    /\ published \in SUBSET Keys
    /\ cached \in SUBSET Keys
    /\ rotations \in 0 .. MaxRotations
    /\ token \in [Requests -> Tokens \cup {NoToken}]
    /\ gone \in [Requests -> BOOLEAN]
    /\ verdict \in [Requests -> Verdicts]
    /\ vouched \in SUBSET Keys
    /\ excused \in [Requests -> BOOLEAN]
    /\ stale \in [Requests -> BOOLEAN]
=============================================================================

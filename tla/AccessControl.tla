--------------------------- MODULE AccessControl ---------------------------
(***************************************************************************)
(* Who may do what to which object: the tables bucket_connections and      *)
(* access_policies, the SQL statements that read and write them            *)
(* (internal/database/ownership.go) and the decision the authorization     *)
(* service takes from them (internal/service/action_auth.go).              *)
(*                                                                         *)
(* A connection belongs to a scope, which is a project and an app, and is  *)
(* named by its bucket.  A prefix list is the set of its non-empty         *)
(* members: decodeStringSliceDBValue drops the empty ones, and the order   *)
(* and repetition of the rest decide nothing.  Of the relation between     *)
(* keys and prefixes only "key starts with prefix" is kept, as PrefixesOf. *)
(***************************************************************************)
EXTENDS FiniteSets, Integers

CONSTANTS
    Scopes,       \* (project_id, app_id) pairs
    Buckets,      \* bucket names
    Principals,   \* (principal_type, principal_id) pairs
    Keys,         \* object keys
    Prefixes,     \* the non-empty prefixes the tables mention
    PrefixesOf,   \* [Keys -> SUBSET Prefixes]: the prefixes a key starts with
    NoRow         \* the statement found no row

Actions == {"read", "write", "delete", "list"}

ConnectionRows == [active : BOOLEAN, prefixes : SUBSET Prefixes]
PolicyRows     == [can : SUBSET Actions, prefixes : SUBSET Prefixes]
EffectiveRows  == [can : SUBSET Actions, connectionPrefixes : SUBSET Prefixes, principalPrefixes : SUBSET Prefixes]

ASSUME AccessAssumption ==
    /\ PrefixesOf \in [Keys -> SUBSET Prefixes]
    /\ NoRow \notin ConnectionRows \cup PolicyRows \cup EffectiveRows

VARIABLES
    connections,  \* bucket_connections, unique per scope and bucket
    policies      \* access_policies, unique per connection and principal

ConnectionTables == [Scopes \X Buckets -> ConnectionRows \cup {NoRow}]
PolicyTables     == [Scopes \X Buckets \X Principals -> PolicyRows \cup {NoRow}]
Tables           == [connections : ConnectionTables, policies : PolicyTables]

-----------------------------------------------------------------------------
(* What the statements read. *)

\* The row of ListActiveBucketsForConnectionScope that a service selects by name.
ActiveBucket(s, b) ==
    IF connections[<<s, b>>] # NoRow /\ connections[<<s, b>>].active
    THEN connections[<<s, b>>]
    ELSE NoRow

\* A plausible bug, for the mutants: the join forgets bc.is_active = true.
EffectivePolicyOfAnyRow(s, b, p) ==
    IF connections[<<s, b>>] # NoRow /\ policies[<<s, b, p>>] # NoRow
    THEN [can                |-> policies[<<s, b, p>>].can,
          connectionPrefixes |-> connections[<<s, b>>].prefixes,
          principalPrefixes  |-> policies[<<s, b, p>>].prefixes]
    ELSE NoRow

\* The join of GetEffectiveAuthorizationPolicy.
EffectivePolicy(s, b, p) ==
    IF ActiveBucket(s, b) # NoRow /\ policies[<<s, b, p>>] # NoRow
    THEN [can                |-> policies[<<s, b, p>>].can,
          connectionPrefixes |-> connections[<<s, b>>].prefixes,
          principalPrefixes  |-> policies[<<s, b, p>>].prefixes]
    ELSE NoRow

IsActionAllowed(policy, action) == action \in policy.can

\* A key without any prefix, "" among them, is denied whatever the lists hold.
IsPrefixAllowed(policy, key) ==
    PrefixesOf[key] \cap policy.connectionPrefixes \cap policy.principalPrefixes # {}

\* Authorize, for claims and a bucket that are not empty: the handlers return earlier on an empty one.
Decision(q) ==
    LET policy == EffectivePolicy(q.scope, q.bucket, q.principal)
    IN  CASE policy = NoRow                          -> "bucket_scope"
          [] ~IsActionAllowed(policy, q.action)      -> "action_scope"
          [] ~IsPrefixAllowed(policy, q.key)         -> "prefix_scope"
          [] OTHER                                   -> "allowed"

\* The guardrail the read and delete helpers repeat before they talk to the bucket.
IsWithinAllowedPrefixes(key, prefixes) == PrefixesOf[key] \cap prefixes # {}

-----------------------------------------------------------------------------
(* What the statements write. *)

\* A plausible bug, for the mutants: ON CONFLICT DO UPDATE instead of the refusal.
InsertOrReplaceConnection(s, b, prefixes) ==
    /\ connections' = [connections EXCEPT ![<<s, b>>] = [active |-> TRUE, prefixes |-> prefixes]]
    /\ UNCHANGED policies

\* The unique constraint refuses a second row, of a disabled connection too.
InsertConnection(s, b, prefixes) ==
    /\ connections[<<s, b>>] = NoRow
    /\ connections' = [connections EXCEPT ![<<s, b>>] = [active |-> TRUE, prefixes |-> prefixes]]
    /\ UNCHANGED policies

\* The row an upsert, or an administrator, writes.  The foreign key asks for the
\* connection only: that it is active, the upsert has read at an earlier moment.
WritePolicy(s, b, p, policy) ==
    /\ connections[<<s, b>>] # NoRow
    /\ policies' = [policies EXCEPT ![<<s, b, p>>] = policy]
    /\ UNCHANGED connections

\* The statements below are an administrator's own: the service has none of them.

ToggleConnection(s, b) ==
    /\ connections[<<s, b>>] # NoRow
    /\ connections' = [connections EXCEPT ![<<s, b>>].active = ~@]
    /\ UNCHANGED policies

RewriteConnection(s, b, prefixes) ==
    /\ connections[<<s, b>>] # NoRow
    /\ connections' = [connections EXCEPT ![<<s, b>>].prefixes = prefixes]
    /\ UNCHANGED policies

DeletePolicy(s, b, p) ==
    /\ policies[<<s, b, p>>] # NoRow
    /\ policies' = [policies EXCEPT ![<<s, b, p>>] = NoRow]
    /\ UNCHANGED connections

\* ON DELETE CASCADE takes the policies of the connection along.
DeleteConnection(s, b) ==
    /\ connections[<<s, b>>] # NoRow
    /\ connections' = [connections EXCEPT ![<<s, b>>] = NoRow]
    /\ policies' = [x \in Scopes \X Buckets \X Principals |->
                      IF x[1] = s /\ x[2] = b THEN NoRow ELSE policies[x]]

-----------------------------------------------------------------------------
(* The permission as the schema's comments describe it, for the properties. *)
MayAccess(q) ==
    LET c == connections[<<q.scope, q.bucket>>]
        a == policies[<<q.scope, q.bucket, q.principal>>]
    IN  /\ c # NoRow /\ a # NoRow
        /\ c.active
        /\ q.action \in a.can
        /\ \E x \in Prefixes : x \in c.prefixes /\ x \in a.prefixes /\ x \in PrefixesOf[q.key]
=============================================================================

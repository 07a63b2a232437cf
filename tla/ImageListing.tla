---------------------------- MODULE ImageListing ----------------------------
(***************************************************************************)
(* GET /v1/images in discovery mode: one scan over the buckets of a scope, *)
(* the policies of the principal, the prefixes both sides allow and the    *)
(* pages of each prefix (internal/httpapi/handlers/images.go,              *)
(* internal/service/object_list.go, internal/s3/list_helper.go), while     *)
(* objects come and go and operators change the tables.                    *)
(*                                                                         *)
(* A key is its rank in the order of S3, and a continuation token the last *)
(* key of its page.  The order of the buckets (by age) and of the prefixes *)
(* (as the policy lists them) is any order.  A page that is read after     *)
(* retries is a page read at its last attempt: module RetryLoop has the    *)
(* loop.  The final sort neither adds nor removes an entry; sizes, etags   *)
(* and dates are left out.                                                 *)
(*                                                                         *)
(* The ids of the response go back to the service in the resolve mode of   *)
(* the same route, which reads nothing.  An id is the text that            *)
(* encodeImageID writes: base64 is one-to-one and brings neither blanks    *)
(* nor commas into it.                                                     *)
(***************************************************************************)
EXTENDS AccessControl, Sequences, Functions

Seqs == INSTANCE SequencesExt

CONSTANTS
    Scope, Principal,   \* of the claims
    Folders,            \* keys that are empty or end with "/"
    PolicyForms,        \* what an administrator may grant
    InitialTables,      \* the tables the scan starts with
    MaxObjects,         \* maxObjects of the helper, per prefix
    MaxKeysPerPage,     \* what S3 returns at most, 1000
    Characters,
    NameOf, TextOf,     \* the characters of each bucket's name and of each key
    MaxChanges          \* bound on the changes of the world

ASSUME ListingAssumption ==
    /\ Scope \in Scopes /\ Principal \in Principals
    /\ Keys \subseteq Nat \ {0} /\ IsFiniteSet(Keys)
    /\ Folders \subseteq Keys
    /\ PolicyForms \subseteq PolicyRows
    /\ InitialTables \subseteq Tables
    /\ MaxObjects \in Nat \ {0} /\ MaxKeysPerPage \in Nat \ {0}
    /\ MaxChanges \in Nat

\* strings.TrimSpace leaves nothing.
Blank(text) == \A i \in DOMAIN text : text[i] = " "

\* S3 has no bucket with a colon in its name and no two keys with one text; the prefixes
\* of a policy are not blank, so a key under one of them is not either.
ASSUME NamesAssumption ==
    /\ {":", " "} \subseteq Characters
    /\ NameOf \in [Buckets -> Seq(Characters)] /\ TextOf \in [Keys -> Seq(Characters)]
    /\ \A b \in Buckets : ~Blank(NameOf[b]) /\ ":" \notin Range(NameOf[b])
    /\ \A k \in Keys : ~Blank(TextOf[k])
    /\ IsInjective(NameOf) /\ IsInjective(TextOf)

Objects == Buckets \X Keys

\* The members of a finite set of ranks or positions, in ascending order.
InOrder(S) ==
    CHOOSE s \in [1 .. Cardinality(S) -> S] : \A i, j \in DOMAIN s : i < j => s[i] < s[j]

\* A loop with a map of what it has seen: what s has outside of a set, where it first occurs.
Distinct(s, dropped) ==
    LET at == InOrder({i \in DOMAIN s : s[i] \notin dropped /\ \A j \in 1 .. i - 1 : s[j] # s[i]})
    IN  [n \in DOMAIN at |-> s[at[n]]]

VARIABLES
    stored,    \* the objects of all buckets
    changes,   \* how often the world changed
    phase,     \* where the scan is
    buckets,   \* buckets it has still to look at
    bucket,    \* the bucket it is in
    prefixes,  \* prefixes of that bucket it has still to list
    prefix,    \* the prefix it is listing
    token,     \* continuation token, 0 for none
    batch,     \* keys the helper collected for the prefix
    seen,      \* bucket and key of every entry so far
    entries,   \* entries of the response
    resolved,  \* bucket and key, as texts, of the ids that came back
    granted,   \* history: the objects that could be listed at one moment since the scan began
    found,     \* history: those of them that were stored then or later
    steady,    \* history: the objects that were stored and could be listed ever since
    listed,    \* history: the prefixes the helper was called for, with their bucket
    cut        \* history: those of them whose list it ended early

tables  == <<connections, policies>>
history == <<granted, found, steady>>
vars    == <<connections, policies, stored, changes, phase, buckets, bucket, prefixes, prefix,
             token, batch, seen, entries, resolved, granted, found, steady, listed, cut>>

\* The objects of which the principal may have the list, and which are no folders.
Listable ==
    {o \in Objects :
        /\ o[2] \notin Folders
        /\ MayAccess([scope |-> Scope, principal |-> Principal, bucket |-> o[1], action |-> "list", key |-> o[2]])}

\* History: what the new state of the world adds and takes away.
Observe ==
    /\ granted' = granted \cup Listable'
    /\ found' = found \cup (granted' \cap stored')
    /\ steady' = steady \cap Listable' \cap stored'

Init ==
    /\ \E t \in InitialTables : connections = t.connections /\ policies = t.policies
    /\ stored \in SUBSET Objects
    /\ changes = 0
    /\ phase = "start"
    /\ buckets = {}
    /\ bucket = "none"
    /\ prefixes = {}
    /\ prefix = "none"
    /\ token = 0
    /\ batch = <<>>
    /\ seen = {}
    /\ entries = <<>>
    /\ resolved = <<>>
    /\ granted = Listable
    /\ found = Listable \cap stored
    /\ steady = Listable \cap stored
    /\ listed = {}
    /\ cut = {}

world == <<tables, stored, changes, history>>

-----------------------------------------------------------------------------
(* ListImages. *)

ListBuckets ==
    /\ phase = "start"
    /\ buckets' = {b \in Buckets : ActiveBucket(Scope, b) # NoRow}
    /\ phase' = "bucket"
    /\ UNCHANGED <<world, bucket, prefixes, prefix, token, batch, seen, entries, resolved, listed, cut>>

\* A plausible bug, for the mutants: the prefixes of the policy alone.
PolicyPrefixes(policy) ==
    IF policy # NoRow /\ IsActionAllowed(policy, "list") THEN policy.principalPrefixes ELSE {}

\* intersectAllowedPrefixes of the row that is read now, not of the one listed before.
ListablePrefixes(policy) ==
    IF policy # NoRow /\ IsActionAllowed(policy, "list")
    THEN policy.connectionPrefixes \cap policy.principalPrefixes
    ELSE {}

NextBucket ==
    /\ phase = "bucket"
    /\ \E b \in buckets :
        /\ buckets' = buckets \ {b}
        /\ bucket' = b
        /\ prefixes' = ListablePrefixes(EffectivePolicy(Scope, b, Principal))
        /\ phase' = "prefix"
    /\ UNCHANGED <<world, prefix, token, batch, seen, entries, resolved, listed, cut>>

\* A plausible bug, for the mutants: the helper's token survives the prefix.
NextPrefixKeepingToken ==
    /\ phase = "prefix"
    /\ \E p \in prefixes :
        /\ prefixes' = prefixes \ {p}
        /\ prefix' = p
        /\ listed' = listed \cup {<<bucket, p>>}
        /\ batch' = <<>>
        /\ phase' = "page"
    /\ UNCHANGED <<world, buckets, bucket, token, seen, entries, resolved, cut>>

\* A call of the helper: it begins without a token.
NextPrefix ==
    /\ phase = "prefix"
    /\ \E p \in prefixes :
        /\ prefixes' = prefixes \ {p}
        /\ prefix' = p
        /\ listed' = listed \cup {<<bucket, p>>}
        /\ token' = 0
        /\ batch' = <<>>
        /\ phase' = "page"
    /\ UNCHANGED <<world, buckets, bucket, seen, entries, resolved, cut>>

BucketDone ==
    /\ phase = "prefix"
    /\ prefixes = {}
    /\ phase' = "bucket"
    /\ UNCHANGED <<world, buckets, bucket, prefixes, prefix, token, batch, seen, entries, resolved, listed, cut>>

-----------------------------------------------------------------------------
(* ListObjectsPage. *)

\* What S3 has under the prefix after the token, in its order.
Remaining == InOrder({k \in Keys : <<bucket, k>> \in stored /\ prefix \in PrefixesOf[k] /\ k > token})

MaxKeys == LET left == MaxObjects - Len(batch) IN IF left > MaxKeysPerPage THEN MaxKeysPerPage ELSE left

\* A page may be shorter than it could be, even empty, and brings a token while there is
\* more.  (Without one, which S3 does not do, the helper would end the list.)  The helper
\* stops at MaxObjects, and then the token of a longer list goes unused.
ReadPage ==
    /\ phase = "page"
    /\ \E n \in 0 .. Len(Remaining) :
        LET truncated == n < Len(Remaining)
            full      == Len(batch) + n >= MaxObjects
        IN  /\ n <= MaxKeys
            /\ batch' = batch \o SubSeq(Remaining, 1, n)
            /\ IF truncated /\ ~full
               THEN phase' = "page" /\ token' = (IF n = 0 THEN token ELSE Remaining[n]) /\ UNCHANGED cut
               ELSE /\ phase' = "collect"
                    /\ cut' = IF truncated THEN cut \cup {<<bucket, prefix>>} ELSE cut
                    /\ UNCHANGED token
    /\ UNCHANGED <<world, buckets, bucket, prefixes, prefix, seen, entries, resolved, listed>>

Entries(ks) == [i \in DOMAIN ks |-> <<bucket, ks[i]>>]

\* Folders and what another prefix has brought already are skipped.
Collect ==
    LET fresh == Distinct(Entries(batch), seen \cup Buckets \X Folders)
    IN  /\ phase = "collect"
        /\ entries' = entries \o fresh
        /\ seen' = seen \cup Range(fresh)
        /\ phase' = "prefix"
        /\ UNCHANGED <<world, buckets, bucket, prefixes, prefix, token, batch, resolved, listed, cut>>

\* Any query, session or page that fails fails the whole response.
Fails ==
    /\ phase \in {"start", "bucket", "prefix", "page"}
    /\ phase' = "502"
    /\ UNCHANGED <<world, buckets, bucket, prefixes, prefix, token, batch, seen, entries, resolved, listed, cut>>

Answer ==
    /\ phase = "bucket"
    /\ buckets = {}
    /\ phase' = "200"
    /\ UNCHANGED <<world, buckets, bucket, prefixes, prefix, token, batch, seen, entries, resolved, listed, cut>>

-----------------------------------------------------------------------------
(* The ids of the response. *)

EncodeImageID(bucketName, objectKey) == bucketName \o <<":">> \o objectKey

\* A plausible bug, for the mutants: strings.Split where SplitN stops at the first colon.
DecodeImageIDAtEveryColon(id) ==
    LET colons == {i \in DOMAIN id : id[i] = ":"}
        parts  == <<SubSeq(id, 1, Seqs!Min(colons) - 1), SubSeq(id, Seqs!Min(colons) + 1, Len(id))>>
    IN  IF Cardinality(colons) = 1 /\ ~Blank(parts[1]) /\ ~Blank(parts[2]) THEN parts ELSE <<>>

\* Bucket and key; <<>> stands for an error.
DecodeImageID(id) ==
    LET colons == {i \in DOMAIN id : id[i] = ":"}
        parts  == <<SubSeq(id, 1, Seqs!Min(colons) - 1), SubSeq(id, Seqs!Min(colons) + 1, Len(id))>>
    IN  IF colons # {} /\ ~Blank(parts[1]) /\ ~Blank(parts[2]) THEN parts ELSE <<>>

\* Each value of "ids" is split at its commas; blanks and repetitions are dropped.
ParseImageIDsQuery(chunks) ==
    LET ids == Seqs!FlattenSeq(chunks)
    IN  Distinct(ids, {id \in Range(ids) : Blank(id)})

IDs == [i \in DOMAIN entries |-> EncodeImageID(NameOf[entries[i][1]], TextOf[entries[i][2]])]

\* The client asks for all the ids in one value, in one value each, or for some twice, blanks between.
Queries == {<<IDs>>, [i \in DOMAIN IDs |-> <<IDs[i]>>], <<IDs, <<<<>>, <<" ">>>>, IDs>>}

\* The resolve mode: one id that does not decode fails them all.  (Without any id the route
\* is in discovery mode again.)
Resolve ==
    /\ phase = "200"
    /\ entries # <<>>
    /\ \E query \in Queries :
        LET ids == ParseImageIDsQuery(query)
            answers == [i \in DOMAIN ids |-> DecodeImageID(ids[i])]
        IN  IF <<>> \in Range(answers)
            THEN phase' = "400" /\ UNCHANGED resolved
            ELSE phase' = "resolved" /\ resolved' = answers
    /\ UNCHANGED <<world, buckets, bucket, prefixes, prefix, token, batch, seen, entries, listed, cut>>

-----------------------------------------------------------------------------
scan == <<phase, buckets, bucket, prefixes, prefix, token, batch, seen, entries, resolved, listed, cut>>

Ended == {"200", "502", "resolved", "400"}

\* Other clients put and delete objects.
ObjectChanges ==
    /\ phase \notin Ended
    /\ changes < MaxChanges
    /\ changes' = changes + 1
    /\ \E o \in Objects : stored' = IF o \in stored THEN stored \ {o} ELSE stored \cup {o}
    /\ UNCHANGED <<tables, scan>>
    /\ Observe

Administer ==
    /\ phase \notin Ended
    /\ changes < MaxChanges
    /\ changes' = changes + 1
    /\ \E b \in Buckets :
        \/ \E ps \in SUBSET Prefixes : InsertConnection(Scope, b, ps)
        \/ \E ps \in SUBSET Prefixes : RewriteConnection(Scope, b, ps)
        \/ ToggleConnection(Scope, b) \/ DeleteConnection(Scope, b)
        \/ \E policy \in PolicyForms : WritePolicy(Scope, b, Principal, policy)
        \/ DeletePolicy(Scope, b, Principal)
    /\ UNCHANGED <<stored, scan>>
    /\ Observe

Next ==
    \/ ListBuckets \/ NextBucket \/ NextPrefix \/ BucketDone \/ ReadPage \/ Collect \/ Fails \/ Answer \/ Resolve
    \/ ObjectChanges \/ Administer

Spec == Init /\ [][Next]_vars

-----------------------------------------------------------------------------
Phases == {"start", "bucket", "prefix", "page", "collect"} \cup Ended

TypeOK ==
    /\ connections \in ConnectionTables
    /\ policies \in PolicyTables
    /\ stored \subseteq Objects
    /\ changes \in 0 .. MaxChanges
    /\ phase \in Phases
    /\ buckets \subseteq Buckets
    /\ bucket \in Buckets \cup {"none"}
    /\ prefixes \subseteq Prefixes
    /\ prefix \in Prefixes \cup {"none"}
    /\ token \in Keys \cup {0}
    /\ batch \in Seq(Keys) /\ Len(batch) <= MaxObjects
    /\ seen \subseteq Objects
    /\ entries \in Seq(Objects)
    /\ Range(resolved) \subseteq {<<NameOf[o[1]], TextOf[o[2]]>> : o \in Objects}
    /\ granted \subseteq Objects /\ found \subseteq granted /\ steady \subseteq found
    /\ listed \subseteq Buckets \X Prefixes /\ cut \subseteq listed

\* Every entry is an object the principal could list at one moment of the scan and
\* that was stored then or later: a policy that is gone lists nothing it did not cover.
ListedWereThere == Range(entries) \subseteq found

\* The lists that lead to an object, of those the helper was called for.
ListsOf(o) == {l \in listed : l[1] = o[1] /\ l[2] \in PrefixesOf[o[2]]}

\* An object that was stored and could be listed all the time is in the response,
\* whatever is put, deleted, granted or revoked around it, unless the helper ended
\* every list early that leads to it; and there was one at least.
NothingOverlooked ==
    phase \in {"200", "resolved"} =>
        \A o \in steady : o \in Range(entries) \/ (ListsOf(o) # {} /\ ListsOf(o) \subseteq cut)

\* The ids of a response lead back to its entries, all of them and in their order, however
\* the client puts them into its query and whatever colons the keys have.  No two entries
\* have one id: overlapping prefixes, and an object that moves between the pages of one and
\* of the other, bring no entry twice.
EntriesCanBeFetched ==
    /\ IsInjective(entries)
    /\ phase # "400"
    /\ phase = "resolved" =>
        resolved = [i \in DOMAIN entries |-> <<NameOf[entries[i][1]], TextOf[entries[i][2]]>>]
=============================================================================

--------------------------- MODULE MCBucketAdmin ---------------------------
(* Two requests for one bucket in two scopes, which the first scope may     *)
(* have connected, and disabled, before.  The connections differ in their    *)
(* prefixes, the policies in their scope, caller and validity, the listings  *)
(* in their scope.                                                           *)
EXTENDS BucketAdmin, TLC

CONSTANTS s1, s2, b1, r1, r2, alice, images, cats

\* No request of the model names a key.
MCKeys == {}
MCPrefixesOf == <<>>

Connection(valid, s, ps) ==
    [kind |-> "connection", admin |-> FALSE, valid |-> valid, scope |-> s, bucket |-> b1,
     principal |-> alice, can |-> {}, prefixes |-> ps]
Policy(admin, valid, s, can, ps) ==
    [kind |-> "policy", admin |-> admin, valid |-> valid, scope |-> s, bucket |-> b1,
     principal |-> alice, can |-> can, prefixes |-> ps]
List(s) ==
    [kind |-> "list", admin |-> FALSE, valid |-> TRUE, scope |-> s, bucket |-> b1,
     principal |-> alice, can |-> {}, prefixes |-> NoList]

MCForms ==
    {List(s1), List(s2),
     Connection(TRUE, s1, {images}), Connection(TRUE, s1, {cats}), Connection(TRUE, s1, NoList),
     Connection(FALSE, s1, {images}),
     Policy(TRUE, TRUE, s1, {"read"}, {images}), Policy(TRUE, TRUE, s2, {"write"}, {images}),
     Policy(TRUE, TRUE, s1, {"read"}, NoList), Policy(TRUE, FALSE, s1, {"read"}, {images}),
     Policy(FALSE, TRUE, s1, {"delete"}, {images})}

\* Nothing, a connection in force, or one that an operator disabled.
Before(row) == [x \in Scopes \X Buckets |-> IF x[1] = s1 THEN row ELSE NoRow]
MCInitialConnections ==
    {Before(NoRow), Before([active |-> TRUE, prefixes |-> {cats}]), Before([active |-> FALSE, prefixes |-> {cats}])}

MCSymmetry == Permutations({r1, r2})
=============================================================================

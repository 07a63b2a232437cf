--------------------------- MODULE MCImageListing ---------------------------
(* One scope with two buckets, two overlapping prefixes and three keys: the  *)
(* folder of the inner prefix, an object in it and one that only the outer   *)
(* prefix covers.  The batch of a prefix may be full before its list ends.   *)
EXTENDS ImageListing, TLC

CONSTANTS s1, b1, b2, alice, images, cats

MCKeys == 1 .. 3
\* images/cats/, images/cats/a.jpg and images/dog.jpg, of prefixes images/ and images/cats/.
MCPrefixesOf == 1 :> {images, cats} @@ 2 :> {images, cats} @@ 3 :> {images}
MCFolders == {1}
MCCharacters == {"a", "b", "c", "d", "2", "/", ":", " "}
\* A key may have colons, in front too, and blanks.
MCNameOf == b1 :> <<"b">> @@ b2 :> <<"b", "2">>
MCTextOf == 1 :> <<"c", "/">> @@ 2 :> <<"c", "/", ":", "a", ":">> @@ 3 :> <<":", " ", "d">>

Grant(can, ps) == [can |-> can, prefixes |-> ps]
Both    == {images, cats}
MCPolicyForms == {Grant({"list"}, Both), Grant({"read"}, Both), Grant({"list"}, {cats})}

Connection(active, ps) == [active |-> active, prefixes |-> ps]
Connected(second) ==
    [connections |-> [x \in Scopes \X Buckets |-> IF x[2] = b1 THEN Connection(TRUE, Both) ELSE second],
     policies    |-> [x \in Scopes \X Buckets \X Principals |-> IF x[2] = b1 \/ second # NoRow
                                                               THEN Grant({"list"}, Both) ELSE NoRow]]
MCInitialTables == {Connected(NoRow), Connected(Connection(FALSE, {images}))}
=============================================================================

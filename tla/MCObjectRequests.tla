-------------------------- MODULE MCObjectRequests --------------------------
(* One scope with one bucket, whose connection is to one prefix, and a key  *)
(* under each of two prefixes, the second unsafe to delete.                *)
EXTENDS ObjectRequests, TLC

CONSTANTS s1, b1, p1, keyA, dirB, pxA, pxB

MCKeys == {keyA, dirB}
MCPrefixesOf == keyA :> {pxA} @@ dirB :> {pxB}

Everything == [can |-> {"read", "write", "delete"}, prefixes |-> {pxA, pxB}]
ReadOnly   == [can |-> {"read", "list"}, prefixes |-> {pxA}]
NoPrefix   == [can |-> {"read", "write"}, prefixes |-> {}]

\* The connection is active, or disabled, or there is none yet.
MCTables ==
    { [connections |-> <<s1, b1>> :> row, policies |-> <<s1, b1, p1>> :> policy] :
        <<row, policy>> \in { <<[active |-> TRUE, prefixes |-> {pxA}], Everything>>,
                              <<[active |-> FALSE, prefixes |-> {pxB}], Everything>>,
                              <<NoRow, NoRow>> } }

MCPolicies == {Everything, ReadOnly, NoPrefix}

Form(op, key, payload) ==
    [op |-> op, scope |-> s1, principal |-> p1, bucket |-> b1, key |-> key, payload |-> payload]

\* Every operation on either key, and the payloads that are refused.
MCForms ==
    { Form(op, k, "valid") : op \in Ops, k \in MCKeys }
        \cup { Form(op, keyA, payload) : op \in {"upload", "presignPut"}, payload \in Payloads }

\* Writers and readers of a single object.
MCOneObject ==
    { Form(op, keyA, "valid") : op \in {"upload", "delete", "read", "presignPut"} }
        \cup { Form("upload", keyA, "badBase64") }
MCOneTable ==
    { [connections |-> <<s1, b1>> :> [active |-> TRUE, prefixes |-> {pxA}],
       policies    |-> <<s1, b1, p1>> :> Everything] }
MCOneKey == {keyA}
MCPrefixesOfOneKey == keyA :> {pxA}

MCErrors ==
    { [ctx |-> FALSE, code |-> "slowdown", status |-> 503, timeout |-> FALSE],
      [ctx |-> FALSE, code |-> "accessdenied", status |-> 403, timeout |-> FALSE],
      [ctx |-> TRUE,  code |-> "none", status |-> 0, timeout |-> TRUE] }
=============================================================================

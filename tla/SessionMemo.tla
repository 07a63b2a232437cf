---------------------------- MODULE SessionMemo ----------------------------
(***************************************************************************)
(* What the callers of the assume-role cache are promised, with no lock,   *)
(* no STS and no retries in sight: a table of role sessions that is only   *)
(* ever extended.  A call either takes the session the table already has   *)
(* for its key, or adds one, or fails; and it may fail only while the      *)
(* table has no session for its key.                                       *)
(***************************************************************************)
CONSTANTS
    Callers,        \* one per call
    Asks,           \* what a call may ask for
    NoAsk,
    Key(_),         \* the key of an ask
    Usable(_),      \* the ask is well formed
    SessionFor(_, _), \* the session a call creates for an ask
    NoSession, NoResult, Failed

VARIABLES
    table,          \* key -> session
    ask,            \* caller -> what it asks for
    outcome         \* caller -> the session it was given, Failed, or NoResult

memoVars == <<table, ask, outcome>>

Keys == {Key(a) : a \in Asks}

Init ==
    /\ table = [k \in Keys |-> NoSession]
    /\ ask = [c \in Callers |-> NoAsk]
    /\ outcome = [c \in Callers |-> NoResult]

Pending(c) == ask[c] # NoAsk /\ outcome[c] = NoResult

Ask(c, a) ==
    /\ ask[c] = NoAsk
    /\ ask' = [ask EXCEPT ![c] = a]
    /\ outcome' = IF Usable(a) THEN outcome ELSE [outcome EXCEPT ![c] = Failed]
    /\ UNCHANGED table

Hit(c) ==
    /\ Pending(c)
    /\ table[Key(ask[c])] # NoSession
    /\ outcome' = [outcome EXCEPT ![c] = table[Key(ask[c])]]
    /\ UNCHANGED <<table, ask>>

Fill(c) ==
    /\ Pending(c)
    /\ table[Key(ask[c])] = NoSession
    /\ table' = [table EXCEPT ![Key(ask[c])] = SessionFor(c, ask[c])]
    /\ outcome' = [outcome EXCEPT ![c] = SessionFor(c, ask[c])]
    /\ UNCHANGED ask

Fail(c) ==
    /\ Pending(c)
    /\ table[Key(ask[c])] = NoSession
    /\ outcome' = [outcome EXCEPT ![c] = Failed]
    /\ UNCHANGED <<table, ask>>

Next ==
    \E c \in Callers :
        \/ \E a \in Asks : Ask(c, a)
        \/ Hit(c)
        \/ Fill(c)
        \/ Fail(c)

Spec == Init /\ [][Next]_memoVars
=============================================================================

---------------------------- MODULE ObjectAccess ----------------------------
(***************************************************************************)
(* What the service promises to those who own a bucket and to those who    *)
(* ask for an object in it, without handlers, sessions, retries or URLs.   *)
(*                                                                         *)
(* A request is permitted at one moment and finds its connection open at a *)
(* later one; only then is its operation performed, in whole or not at     *)
(* all, perhaps more than once and perhaps after its answer.  What may     *)
(* still be performed once a request is answered is "loose", and no answer *)
(* makes it more than the request itself left behind.  "done" is said of   *)
(* an operation that was performed, or of a URL that performs it, and      *)
(* "refused" of one that never will be.                                    *)
(*                                                                         *)
(* The owners change what is permitted and what is open as they like.      *)
(***************************************************************************)

CONSTANTS
    Requests,
    Questions,     \* what can be permitted
    Connections,   \* what can be open
    Objects,
    Contents,      \* what an object may hold
    Absent,        \* the content of an object that was removed
    Nothing        \* a request that has not been made

Wishes ==
    [question : Questions, connection : Connections, object : Objects,
     effect : {"store", "remove", "none"}, byUrl : BOOLEAN]

VARIABLES
    permitted,   \* the questions answered with yes
    open,        \* the connections in service
    asked,       \* what each request asks for
    stage,       \* "asking", "permitted", "admitted"
    answer,      \* "none", "refused", "failed", "done"
    loose,       \* requests that may be performed after their answer
    performed,   \* requests performed at least once
    stored       \* what the objects hold

accessVars == <<asked, stage, answer, loose, performed, stored, open, permitted>>

Init ==
    /\ permitted \in SUBSET Questions
    /\ open \in SUBSET Connections
    /\ asked = [r \in Requests |-> Nothing]
    /\ stage = [r \in Requests |-> "asking"]
    /\ answer = [r \in Requests |-> "none"]
    /\ loose = {}
    /\ performed = {}
    /\ stored \in [Objects -> Contents]

Waits(r) == asked[r] # Nothing /\ answer[r] = "none"

Change ==
    /\ UNCHANGED <<asked, stage, answer, loose, performed, stored>>
    /\ open' \subseteq Connections
    /\ permitted' \subseteq Questions

\* What makes no sense is refused on the spot.
Ask(r) ==
    /\ asked[r] = Nothing
    /\ asked'[r] \in Wishes
    /\ asked' = [asked EXCEPT ![r] = asked'[r]]
    /\ answer' \in {answer, [answer EXCEPT ![r] = "refused"]}
    /\ UNCHANGED <<stage, loose, performed, stored, open, permitted>>

Permit(r) ==
    /\ Waits(r) /\ stage[r] = "asking"
    /\ asked[r].question \in permitted
    /\ stage' = [stage EXCEPT ![r] = "permitted"]
    /\ UNCHANGED <<asked, answer, loose, performed, stored, open, permitted>>

Admit(r) ==
    /\ Waits(r) /\ stage[r] = "permitted"
    /\ asked[r].connection \in open
    /\ stage' = [stage EXCEPT ![r] = "admitted"]
    /\ UNCHANGED <<asked, answer, loose, performed, stored, open, permitted>>

Perform(r) ==
    /\ stage[r] = "admitted"
    /\ Waits(r) \/ r \in loose
    /\ performed' = performed \cup {r}
    /\ stored' = CASE asked[r].effect = "store" -> [stored EXCEPT ![asked[r].object] = r]
                   [] asked[r].effect = "remove" -> [stored EXCEPT ![asked[r].object] = Absent]
                   [] OTHER -> stored
    /\ UNCHANGED <<asked, stage, answer, loose, open, permitted>>

\* An attempt is given up that may be carried out after all.
LetLoose(r) ==
    /\ Waits(r) /\ stage[r] = "admitted"
    /\ loose' = loose \cup {r}
    /\ UNCHANGED <<asked, stage, answer, performed, stored, open, permitted>>

Settle(r) ==
    /\ r \in loose
    /\ loose' = loose \ {r}
    /\ UNCHANGED <<asked, stage, answer, performed, stored, open, permitted>>

Refuse(r) ==
    /\ Waits(r)
    /\ r \notin performed \cup loose
    /\ answer' = [answer EXCEPT ![r] = "refused"]
    /\ UNCHANGED <<asked, stage, loose, performed, stored, open, permitted>>

Complete(r) ==
    /\ Waits(r) /\ stage[r] = "admitted"
    /\ \/ asked[r].byUrl /\ loose' = loose \cup {r}
       \/ r \in performed /\ UNCHANGED loose
    /\ answer' = [answer EXCEPT ![r] = "done"]
    /\ UNCHANGED <<asked, stage, performed, stored, open, permitted>>

\* Requests end without a word on their outcome; those that were admitted may leave an attempt.
Fail(failing) ==
    /\ \A r \in failing : Waits(r)
    /\ answer' = [r \in Requests |-> IF r \in failing THEN "failed" ELSE answer[r]]
    /\ \E left \in SUBSET {r \in failing : stage[r] = "admitted"} : loose' = loose \cup left
    /\ UNCHANGED <<asked, stage, performed, stored, open, permitted>>

Next ==
    \/ \E failing \in (SUBSET Requests) \ {{}} : Fail(failing)
    \/ \E r \in Requests :
        \/ Ask(r) \/ Permit(r) \/ Admit(r) \/ Perform(r)
        \/ LetLoose(r) \/ Settle(r) \/ Refuse(r) \/ Complete(r)
    \/ Change

Spec == Init /\ [][Next]_accessVars
=============================================================================

-------------------------- MODULE SaladClientProofs --------------------------
(***************************************************************************)
(* Proofs about SaladClient and PresignLifetimes: what a presigned URL is  *)
(* worth, for every width, second, bound and request, and what a result    *)
(* is worth, for any number of goroutines, tokens and pieces of an image.  *)
(***************************************************************************)
EXTENDS SaladClient, TLAPS

-----------------------------------------------------------------------------
(* The arithmetic of lifetimes. *)

\* What the service makes of any Duration whatever, a wrapped one too, lies within the
\* bounds of its method (normalizePresignTTL).
LEMMA NormalizedInBounds ==
    ASSUME NEW m \in PresignMethods, NEW requested \in Int
    PROVE  /\ NormalizePresignTTL(m, requested) \in Int
           /\ MinPresignTTL <= NormalizePresignTTL(m, requested)
           /\ NormalizePresignTTL(m, requested) <= MaxTTL[m]
<1>1. /\ MinPresignTTL \in Int /\ DefaultTTL[m] \in Int /\ MaxTTL[m] \in Int
      /\ MinPresignTTL <= DefaultTTL[m] /\ DefaultTTL[m] <= MaxTTL[m]
    BY LifetimeAssumption
<1>2. requested <= 0 => NormalizePresignTTL(m, requested) = DefaultTTL[m]
    BY DEF NormalizePresignTTL
<1>3. ~(requested <= 0) => NormalizePresignTTL(m, requested) = Clamp(requested, MinPresignTTL, MaxTTL[m])
    BY DEF NormalizePresignTTL
<1>4. /\ Clamp(requested, MinPresignTTL, MaxTTL[m]) \in Int
      /\ MinPresignTTL <= Clamp(requested, MinPresignTTL, MaxTTL[m])
      /\ Clamp(requested, MinPresignTTL, MaxTTL[m]) <= MaxTTL[m]
    BY <1>1 DEF Clamp
<1> QED
    BY <1>1, <1>2, <1>3, <1>4

\* The product of seconds and ticks is a Duration, whatever the width makes of it.
LEMMA DurationIsInt ==
    ASSUME NEW s \in Int
    PROVE  AsDuration(s) \in Int
<1>1. s * Second + Half \in Int /\ 2 * Half \in Nat \ {0} /\ Half \in Int
    BY LifetimeAssumption
<1>2. (s * Second + Half) % (2 * Half) \in Int
    BY <1>1
<1> QED
    BY <1>1, <1>2 DEF AsDuration

\* Division rounds down.
LEMMA Quotient ==
    ASSUME NEW a \in Int, NEW n \in Nat \ {0}
    PROVE  /\ a \div n \in Int
           /\ (a \div n) * n <= a
           /\ a < (a \div n + 1) * n
  OBVIOUS

\* There is one quotient.
LEMMA QuotientOfProduct ==
    ASSUME NEW s \in Int, NEW n \in Nat \ {0}
    PROVE  (s * n) \div n = s
  OBVIOUS

\* A number of the width is what it is.
LEMMA Remainder ==
    ASSUME NEW a \in Nat, NEW n \in Nat \ {0}, a < n
    PROVE  a % n = a
  OBVIOUS

\* A product that stays in the width is not wrapped.
LEMMA NotWrapped ==
    ASSUME NEW s \in Int, 0 <= s * Second, s * Second < Half
    PROVE  AsDuration(s) = s * Second
<1> DEFINE x == s * Second
<1>1. Half \in Nat \ {0} /\ x \in Int /\ 0 <= x /\ x < Half
    BY LifetimeAssumption
<1> HIDE DEF x
<1>2. (x + Half) % (2 * Half) = x + Half
    <2>1. x + Half \in Nat /\ 2 * Half \in Nat \ {0} /\ x + Half < 2 * Half
        BY <1>1
    <2> QED BY <2>1, Remainder
<1>3. AsDuration(s) = ((x + Half) % (2 * Half)) - Half
    BY DEF AsDuration, x
<1>4. AsDuration(s) = x
    BY <1>1, <1>2, <1>3
<1> QED BY <1>4 DEF x

\* What a presign call is answered: a lifetime in bounds, reported in whole seconds, and the
\* one that was asked for if that is in bounds.
LEMMA PresignIsFair ==
    ASSUME NEW m \in PresignMethods, NEW s \in Int
    PROVE  LET url == Presign(m, s)
           IN  /\ url \in [lifetime : Int, reported : Int]
               /\ MinPresignTTL <= url.lifetime /\ url.lifetime <= MaxTTL[m]
               /\ url.reported * Second <= url.lifetime /\ url.lifetime < (url.reported + 1) * Second
               /\ MinPresignTTL <= s * Second /\ s * Second <= MaxTTL[m] =>
                    url.reported = s /\ url.lifetime = s * Second
<1> DEFINE given == NormalizePresignTTL(m, AsDuration(s))
<1>1. given \in Int /\ MinPresignTTL <= given /\ given <= MaxTTL[m]
    BY DurationIsInt, NormalizedInBounds
<1>2. Second \in Nat \ {0} /\ MinPresignTTL \in Nat \ {0} /\ MaxTTL[m] \in Int /\ MaxTTL[m] < Half /\ Half \in Int
    BY LifetimeAssumption
<1>3. Presign(m, s) = [lifetime |-> Expires(given), reported |-> given \div Second]
    BY DEF Presign
<1>4. ASSUME MinPresignTTL <= s * Second, s * Second <= MaxTTL[m]
      PROVE  given = s * Second
    <2>1. s * Second \in Int
        BY <1>2
    <2>2. AsDuration(s) = s * Second
        BY <1>2, <1>4, <2>1, NotWrapped
    <2> QED BY <1>2, <1>4, <2>1, <2>2 DEF NormalizePresignTTL, Clamp
<1> HIDE DEF given
<1>5. Expires(given) = given
    BY <1>1, <1>2 DEF Expires
<1>6. given \div Second \in Int /\ (given \div Second) * Second <= given /\ given < (given \div Second + 1) * Second
    BY <1>1, <1>2, Quotient
<1>7. given = s * Second => given \div Second = s
    BY <1>2, QuotientOfProduct
<1> QED BY <1>1, <1>3, <1>4, <1>5, <1>6, <1>7

-----------------------------------------------------------------------------
(* The calls. *)

\* What holds of a call, in its record k, while the client's token is t.
Sound(k, t) ==
    /\ k.stage = "built" => t \in k.current
    /\ k.stage \in {"idle", "built", "sent"} => k.answer = "none"
    /\ k.stage # "returned" => k.result = "none"
    /\ k.stage \in {"sent", "streaming", "answered"} => k.carried \in k.current
    /\ k.result \in {"data", "image"} => k.carried \in k.current
    /\ k.answer = "image" => k.declared = ImageSize
    /\ k.result = "image" => k.arrived = ImageSize
    /\ k.method \in PresignOps /\ k.answer = "data" => k.signed = Presign(PresignMethod(k.method), k.seconds)
    /\ k.answer = "malformed" => k.method = "DeleteObject"
    /\ k.method = "DeleteObject" => k.answer # "data" /\ k.result # "data"

Inv == TypeOK /\ \A c \in Callers : Sound(call[c], token)

LEMMA PresignTyped ==
    ASSUME NEW m, NEW s \in Int
    PROVE  Presign(PresignMethod(m), s) \in [lifetime : Int, reported : Int]
<1>1. PresignMethod(m) \in PresignMethods
    BY ClientAssumption DEF PresignMethod
<1> QED BY <1>1, PresignIsFair

LEMMA NoCallSound ==
    /\ NoCall \in Calls /\ NoCall.stage = "idle" /\ NoCall.answer = "none" /\ NoCall.result = "none"
    /\ \A t \in Tokens : Sound(NoCall, t)
  BY ClientAssumption DEF NoCall, NoURL, Calls, Sound, Stages, Methods, BareOps, Unknown

\* The one method whose handler looks for its arguments elsewhere.
LEMMA DeleteObjectIsMisunderstood ==
    /\ ~Understood("DeleteObject")
    /\ \A m \in Methods : ~Understood(m) => m = "DeleteObject"
<1>1. Sends("DeleteObject") = "query" /\ Reads("DeleteObject") = "body"
  BY DEF Sends, Reads, BodyOps, PresignOps, QueryOps, PathOps, BareOps
<1>2. \A m \in BodyOps : Sends(m) = "body" /\ Reads(m) = "body"
  BY DEF Sends, Reads, BodyOps, PresignOps, QueryOps, PathOps, BareOps
<1>3. Sends("ListImagesByIDs") = "query" /\ Reads("ListImagesByIDs") = "query"
  BY DEF Sends, Reads, BodyOps, PresignOps, QueryOps, PathOps, BareOps
<1>4. \A m \in PathOps : Sends(m) = "path" /\ Reads(m) = "path"
  BY DEF Sends, Reads, BodyOps, PresignOps, QueryOps, PathOps, BareOps
<1>5. \A m \in BareOps : Sends(m) = "nothing" /\ Reads(m) = "nothing"
  BY DEF Sends, Reads, BodyOps, PresignOps, QueryOps, PathOps, BareOps
<1> QED BY <1>1, <1>2, <1>3, <1>4, <1>5 DEF Understood, Methods, QueryOps

\* A step that moves one call.
LEMMA OneMoves ==
    ASSUME Inv, NEW c \in Callers, NEW k \in Calls, Sound(k, token),
           call' = [call EXCEPT ![c] = k], UNCHANGED token
    PROVE  Inv'
  BY DEF Inv, TypeOK

\* One step per action: the record it leaves is one, and sound.
LEMMA InvStep == Inv /\ [Next]_vars => Inv'
<1> SUFFICES ASSUME Inv, [Next]_vars PROVE Inv'
  OBVIOUS
<1> USE DEF At
<1>0. /\ token \in Tokens /\ call \in [Callers -> Calls]
      /\ \A c \in Callers : call[c] \in Calls /\ Sound(call[c], token)
  BY DEF Inv, TypeOK
<1>1. ASSUME NEW c \in Callers, Call(c) PROVE Inv'
  <2>1. PICK m \in Methods, s \in Requested :
          call' = [call EXCEPT ![c] = [NoCall EXCEPT !.stage = "built", !.method = m, !.seconds = s, !.current = {token}]]
    BY <1>1 DEF Call
  <2> DEFINE k == [NoCall EXCEPT !.stage = "built", !.method = m, !.seconds = s, !.current = {token}]
  <2>2. k \in Calls /\ Sound(k, token)
    BY <1>0, NoCallSound, ClientAssumption DEF Calls, Sound, Stages
  <2> QED BY <1>1, <2>1, <2>2, OneMoves DEF Call
<1>2. ASSUME NEW c \in Callers, Send(c) PROVE Inv'
  <2> DEFINE k == [call[c] EXCEPT !.stage = "sent", !.carried = token]
  <2>1. k \in Calls /\ Sound(k, token)
    BY <1>0, <1>2, ZenonT(40) DEF Send, Calls, Sound, Stages
  <2>2. call' = [call EXCEPT ![c] = k]
    BY <1>0, <1>2 DEF Send, Calls
  <2> QED BY <1>2, <2>1, <2>2, OneMoves DEF Send
<1>3. ASSUME NEW c \in Callers, Refuse(c) PROVE Inv'
  <2>1. PICK a \in RefusalsOf(c) : call' = [call EXCEPT ![c].stage = "answered", ![c].answer = a]
    BY <1>3 DEF Refuse
  <2>2. a \in Refusals /\ (a = "malformed" => call[c].method = "DeleteObject")
    BY <1>0, <2>1, DeleteObjectIsMisunderstood DEF RefusalsOf, Refusals, Calls
  <2> DEFINE k == [call[c] EXCEPT !.stage = "answered", !.answer = a]
  <2>3. k \in Calls /\ Sound(k, token)
    BY <1>0, <1>3, <2>2, ZenonT(40) DEF Refuse, Calls, Sound, Stages, Refusals
  <2>4. call' = [call EXCEPT ![c] = k]
    BY <1>0, <2>1 DEF Calls
  <2> QED BY <1>3, <2>3, <2>4, OneMoves DEF Refuse
<1>4. ASSUME NEW c \in Callers, Serve(c) PROVE Inv'
  <2> DEFINE m == call[c].method
             url == IF m \in PresignOps THEN Presign(PresignMethod(m), call[c].seconds) ELSE call[c].signed
             k == [call[c] EXCEPT !.stage = "answered", !.answer = "data", !.signed = url]
  <2>1. url \in [lifetime : Int, reported : Int]
    BY <1>0, PresignTyped DEF Calls
  <2>2. call' = [call EXCEPT ![c] = k]
    BY <1>0, <1>4 DEF Serve, Calls
  <2>3. m \in PresignOps => url = Presign(PresignMethod(m), call[c].seconds)
    OBVIOUS
  <2>4. m # "DeleteObject"
    BY <1>4, DeleteObjectIsMisunderstood DEF Serve
  <2> HIDE DEF url
  <2>5. k \in Calls /\ Sound(k, token)
    BY <1>0, <1>4, <2>1, <2>3, <2>4 DEF Serve, Calls, Sound, Stages
  <2> QED BY <1>4, <2>2, <2>5, OneMoves DEF Serve
<1>5. ASSUME NEW c \in Callers, BeginImage(c) PROVE Inv'
  <2> DEFINE k == [call[c] EXCEPT !.stage = "streaming", !.answer = "image", !.declared = ImageSize]
  <2>1. k \in Calls /\ Sound(k, token)
    BY <1>0, <1>5 DEF BeginImage, Calls, Sound, Stages
  <2>2. call' = [call EXCEPT ![c] = k]
    BY <1>0, <1>5 DEF BeginImage, Calls
  <2> QED BY <1>5, <2>1, <2>2, OneMoves DEF BeginImage
<1>6. ASSUME NEW c \in Callers, SendPiece(c) PROVE Inv'
  <2> DEFINE k == [call[c] EXCEPT !.arrived = call[c].arrived + 1]
  <2>1. k \in Calls /\ Sound(k, token)
    BY <1>0, <1>6, ClientAssumption DEF SendPiece, Calls, Sound
  <2>2. call' = [call EXCEPT ![c] = k]
    BY <1>0, <1>6 DEF SendPiece, Calls
  <2> QED BY <1>6, <2>1, <2>2, OneMoves DEF SendPiece
<1>7. ASSUME NEW c \in Callers, EndImage(c) PROVE Inv'
  <2> DEFINE k == [call[c] EXCEPT !.stage = "answered"]
  <2>1. k \in Calls /\ Sound(k, token)
    BY <1>0, <1>7 DEF EndImage, Calls, Sound, Stages
  <2>2. call' = [call EXCEPT ![c] = k]
    BY <1>0, <1>7 DEF EndImage, Calls
  <2> QED BY <1>7, <2>1, <2>2, OneMoves DEF EndImage
<1>8. ASSUME NEW c \in Callers, Failed(c), UNCHANGED token PROVE Inv'
  <2> DEFINE k == [NoCall EXCEPT !.stage = "returned", !.result = "error"]
  <2>1. k \in Calls /\ Sound(k, token)
    BY NoCallSound DEF Calls, Sound, Stages
  <2> QED BY <1>8, <2>1, OneMoves DEF Failed
<1>9. ASSUME NEW c \in Callers, Receive(c) PROVE Inv'
  <2>1. PICK x \in ResultsOf(call[c]) :
          IF x = "error" THEN Failed(c)
          ELSE call' = [call EXCEPT ![c].stage = "returned", ![c].result = x]
    BY <1>9 DEF Receive
  <2>2. CASE x = "error"
    BY <1>8, <1>9, <2>1, <2>2 DEF Receive
  <2>3. CASE x # "error"
    <3> DEFINE k == [call[c] EXCEPT !.stage = "returned", !.result = x]
    <3>1. /\ x \in {"data", "image", "empty"}
          /\ x = "image" => call[c].answer = "image" /\ ReadAllSucceeds(call[c])
          /\ x = "data" => call[c].answer = "data"
      BY <2>1, <2>3 DEF ResultsOf
    <3>2. x = "image" => call[c].arrived = ImageSize
      BY <1>0, <3>1, ClientAssumption DEF ReadAllSucceeds, Unknown, Sound, Calls
    <3>3. k \in Calls /\ Sound(k, token)
      BY <1>0, <1>9, <3>1, <3>2, ZenonT(40) DEF Receive, Calls, Sound, Stages
    <3>4. call' = [call EXCEPT ![c] = k]
      BY <1>0, <2>1, <2>3 DEF Calls
    <3> QED BY <1>9, <3>3, <3>4, OneMoves DEF Receive
  <2> QED BY <2>2, <2>3
<1>10. ASSUME NEW c \in Callers, Return(c) PROVE Inv'
  BY <1>0, <1>10, NoCallSound, OneMoves DEF Return
<1>11. ASSUME NEW t \in Tokens, SetToken(t) PROVE Inv'
  <2>1. token' = t
        /\ call' = [c \in Callers |-> IF At(c, "built") THEN [call[c] EXCEPT !.current = @ \cup {t}] ELSE call[c]]
    BY <1>11 DEF SetToken
  <2>2. ASSUME NEW c \in Callers PROVE call'[c] \in Calls /\ Sound(call'[c], t)
    <3>1. CASE At(c, "built")
      <4>1. call'[c] = [call[c] EXCEPT !.current = @ \cup {t}]
        BY <2>1, <3>1
      <4> QED BY <1>0, <3>1, <4>1 DEF Calls, Sound, Stages
    <3>2. CASE ~At(c, "built")
      <4>1. call'[c] = call[c]
        BY <2>1, <3>2
      <4> QED BY <1>0, <3>2, <4>1 DEF Sound
    <3> QED BY <3>1, <3>2
  <2>3. call' \in [Callers -> Calls]
    BY <2>1, <2>2
  <2> QED BY <2>1, <2>2, <2>3 DEF Inv, TypeOK
<1>12. CASE UNCHANGED vars
  BY <1>12 DEF vars, Inv, TypeOK
<1> QED
  BY <1>1, <1>2, <1>3, <1>4, <1>5, <1>6, <1>7, <1>8, <1>9, <1>10, <1>11, <1>12 DEF Next, GiveUp

LEMMA InvHolds == Spec => []Inv
<1>1. Init => Inv
  BY ClientAssumption, NoCallSound DEF Init, Inv, TypeOK
<1> QED BY <1>1, InvStep, PTL DEF Spec

\* Every variable keeps its type.
THEOREM TypeCorrect == Spec => []TypeOK
<1>1. Inv => TypeOK
  BY DEF Inv
<1> QED BY <1>1, InvHolds, PTL

\* What a caller of a presign method has in hand.
LEMMA SignedIsFair ==
    ASSUME Inv, NEW c \in Callers, Signed(c)
    PROVE  /\ call[c].seconds \in Int /\ PresignMethod(call[c].method) \in PresignMethods
           /\ call[c].signed = Presign(PresignMethod(call[c].method), call[c].seconds)
  BY ClientAssumption DEF Inv, TypeOK, Calls, Sound, Signed, PresignMethod

\* Every URL that is signed lives within the bounds of its method (docs/003-api-reference.md:
\* "Service enforces min/max bounds"), also when the requested seconds leave the 64 bits.
THEOREM BoundsAreEnforced == Spec => []LifetimeInBounds
<1>1. Inv => LifetimeInBounds
  BY SignedIsFair, PresignIsFair DEF LifetimeInBounds
<1> QED BY <1>1, InvHolds, PTL

\* The answer to a presign call says how long its URL lives, and a caller who asks for a
\* lifetime in bounds gets that one.
THEOREM ReportedLifetimesAreTrue == Spec => []AnswerMatchesLifetime
<1>1. Inv => AnswerMatchesLifetime
  BY SignedIsFair, PresignIsFair DEF AnswerMatchesLifetime
<1> QED BY <1>1, InvHolds, PTL

\* A call that returns without an error was made under a token of its time and brought its
\* image whole.
THEOREM ResultsCanBeRelied == Spec => []ResultsAreSound
<1>1. Inv => ResultsAreSound
  BY DEF Inv, Sound, ResultsAreSound
<1> QED BY <1>1, InvHolds, PTL

\* Every method is understood but DeleteObject, and no call of that one succeeds, whatever
\* saladclient/README.md says of it.
THEOREM DeleteObjectNeverWorks == Spec => []OnlyDeleteObjectIsMisunderstood
<1>1. Inv => OnlyDeleteObjectIsMisunderstood
  BY DEF Inv, Sound, OnlyDeleteObjectIsMisunderstood
<1> QED BY <1>1, InvHolds, PTL
=============================================================================

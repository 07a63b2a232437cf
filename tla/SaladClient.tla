---------------------------- MODULE SaladClient ----------------------------
(***************************************************************************)
(* The Go client (saladclient/client.go) against the routes of the service *)
(* (internal/httpapi/router/routes_v1.go): goroutines share one Client and *)
(* its token, which another goroutine may replace; a method puts its       *)
(* arguments into the body, the query or the path of a request, the        *)
(* handler looks for them where it expects them, and doRequest turns the   *)
(* answer into a result.                                                   *)
(*                                                                         *)
(* What the service does with a request it understands is the matter of    *)
(* the modules Pipeline, ObjectRequests, ImageListing and BucketAdmin;     *)
(* here it is any of its outcomes.  Two answers are modelled to the end:   *)
(* a presigned URL, whose lifetime is the matter of PresignLifetimes, and  *)
(* an image, which the handler streams after the status 200 is out         *)
(* (internal/httpapi/handlers/images.go).                                  *)
(***************************************************************************)
EXTENDS PresignLifetimes

CONSTANTS Callers,      \* goroutines that use the client
          Tokens,       \* bearer tokens, good for the service or not
          GoodTokens,
          FirstToken,   \* the one NewClient is given
          Requested,    \* the seconds a caller may ask a URL to live
          ImageSize     \* pieces in which an image arrives

ASSUME ClientAssumption ==
    /\ {"GET", "PUT"} \subseteq PresignMethods
    /\ Requested \subseteq Int
    /\ FirstToken \in Tokens
    /\ ImageSize \in Nat \ {0}

VARIABLES token,  \* Client.token, behind tokenMu
          call    \* caller -> the call it has in hand, or its result

vars == <<token, call>>

\* The methods by where they put their arguments ...
PresignOps == {"PresignUploadURL", "PresignDownloadURL"}
BodyOps    == {"CreateBucketConnection", "UpsertAccessPolicy", "UploadObject"} \cup PresignOps
QueryOps   == {"DeleteObject", "ListImagesByIDs"}
PathOps    == {"GetImage", "DeleteImage"}
BareOps    == {"Health", "AuthCheck", "ListBucketConnections", "ListImages"}
Methods    == BodyOps \cup QueryOps \cup PathOps \cup BareOps

\* A plausible bug, for the mutants: the id of the image to delete goes into the query.
SendsIdInQuery(m) == CASE m \in BodyOps -> "body" [] m \in QueryOps \cup {"DeleteImage"} -> "query"
                       [] m = "GetImage" -> "path" [] m \in BareOps -> "nothing"

Sends(m) == CASE m \in BodyOps -> "body" [] m \in QueryOps -> "query"
              [] m \in PathOps -> "path" [] m \in BareOps -> "nothing"

\* ... and the handlers by where they look: decodeJSONOrBadRequest, the query
\* of ListImagesHandler, or the route parameter.
Reads(m) == CASE m \in BodyOps \cup {"DeleteObject"} -> "body"
              [] m = "ListImagesByIDs" -> "query"
              [] m \in PathOps -> "path" [] m \in BareOps -> "nothing"

Understood(m) == Reads(m) = Sends(m)

PresignMethod(m) == IF m = "PresignUploadURL" THEN "PUT" ELSE "GET"

Stages   == {"idle", "built", "sent", "streaming", "answered", "returned"}
Refusals == {"unauthorized", "malformed", "refused", "gateway"}
Unknown  == -1   \* no Content-Length

\* "signed" is what the service made of a presign call, "current" the tokens that were
\* the client's at one moment between the call and its request.
NoURL  == [lifetime |-> 0, reported |-> 0]
NoCall == [stage |-> "idle", method |-> "Health", seconds |-> 0, current |-> {}, carried |-> FirstToken,
           answer |-> "none", signed |-> NoURL, declared |-> Unknown, arrived |-> 0, result |-> "none"]

Init == token = FirstToken /\ call = [c \in Callers |-> NoCall]

At(c, stage) == call[c].stage = stage

-----------------------------------------------------------------------------
(* The client sends. *)

Call(c) ==
  /\ At(c, "idle")
  /\ \E m \in Methods, s \in Requested :
        /\ m \notin PresignOps => s = 0
        /\ call' = [call EXCEPT ![c] = [NoCall EXCEPT !.stage = "built", !.method = m, !.seconds = s,
                                                      !.current = {token}]]
  /\ UNCHANGED token

SetToken(t) ==
  /\ token' = t
  /\ call' = [c \in Callers |-> IF At(c, "built") THEN [call[c] EXCEPT !.current = @ \cup {t}] ELSE call[c]]

\* tokenValue takes the read lock for the moment of the read; Health sends none.
Send(c) ==
  /\ At(c, "built")
  /\ call' = [call EXCEPT ![c].stage = "sent", ![c].carried = token]
  /\ UNCHANGED token

-----------------------------------------------------------------------------
(* The service answers, or what stands between it and the client. *)

Authorized(c) == call[c].method = "Health" \/ call[c].carried \in GoodTokens

\* An envelope with an error, "refused" for every other one than the first two, or a gateway's page.
RefusalsOf(c) ==
  IF call[c].method = "Health" THEN {"gateway"}
  ELSE IF ~Authorized(c) THEN {"unauthorized", "gateway"}
  ELSE IF ~Understood(call[c].method) THEN {"malformed", "refused", "gateway"}
  ELSE {"refused", "gateway"}

Refuse(c) ==
  /\ At(c, "sent")
  /\ \E a \in RefusalsOf(c) : call' = [call EXCEPT ![c].stage = "answered", ![c].answer = a]
  /\ UNCHANGED token

\* An envelope with data, that of a presign call among them.
Serve(c) ==
  LET m == call[c].method
  IN  /\ At(c, "sent")
      /\ Authorized(c) /\ Understood(m)
      /\ m # "GetImage"
      /\ call' = [call EXCEPT ![c].stage = "answered", ![c].answer = "data",
                              ![c].signed = IF m \in PresignOps THEN Presign(PresignMethod(m), call[c].seconds) ELSE @]
      /\ UNCHANGED token

\* A plausible bug, for the mutants: the handler does not pass the length on.
BeginImageOfUnknownLength(c) ==
  /\ At(c, "sent")
  /\ call[c].method = "GetImage"
  /\ Authorized(c)
  /\ call' = [call EXCEPT ![c].stage = "streaming", ![c].answer = "image"]
  /\ UNCHANGED token

\* Status and headers go out before the body of the object is read.
BeginImage(c) ==
  /\ At(c, "sent")
  /\ call[c].method = "GetImage"
  /\ Authorized(c)
  /\ call' = [call EXCEPT ![c].stage = "streaming", ![c].answer = "image", ![c].declared = ImageSize]
  /\ UNCHANGED token

SendPiece(c) ==
  /\ At(c, "streaming")
  /\ call[c].arrived < ImageSize
  /\ call' = [call EXCEPT ![c].arrived = @ + 1]
  /\ UNCHANGED token

\* The end of the object, or of the connection to S3: the handler ignores what io.Copy returns.
EndImage(c) ==
  /\ At(c, "streaming")
  /\ call' = [call EXCEPT ![c].stage = "answered"]
  /\ UNCHANGED token

-----------------------------------------------------------------------------
(* The client receives. *)

\* io.ReadAll tells a body that ends before its declared length from a whole one.
ReadAllSucceeds(k) == k.declared \in {Unknown, k.arrived}

\* doRequest for an enveloped answer; GetImage takes a body of status 2xx as it
\* is; Health looks for its field outside of the envelope, whatever the status,
\* and finds it empty in whatever is JSON.
ResultsOf(k) ==
  CASE k.method = "Health"   -> IF k.answer = "data" THEN {"empty"} ELSE {"empty", "error"}
    [] k.method = "GetImage" -> IF k.answer = "image" /\ ReadAllSucceeds(k) THEN {"image"} ELSE {"error"}
    [] OTHER                 -> IF k.answer = "data" THEN {"data"} ELSE {"error"}

\* An error is all that is left of the call.
Failed(c) == call' = [call EXCEPT ![c] = [NoCall EXCEPT !.stage = "returned", !.result = "error"]]

Receive(c) ==
  /\ At(c, "answered")
  /\ \E x \in ResultsOf(call[c]) :
        IF x = "error" THEN Failed(c)
        ELSE call' = [call EXCEPT ![c].stage = "returned", ![c].result = x]
  /\ UNCHANGED token

\* The connection breaks, the context ends, or 30 seconds are over: the service
\* may have carried the request out.
GiveUp(c) ==
  /\ At(c, "sent") \/ At(c, "streaming") \/ At(c, "answered")
  /\ Failed(c)
  /\ UNCHANGED token

Return(c) ==
  /\ At(c, "returned")
  /\ call' = [call EXCEPT ![c] = NoCall]
  /\ UNCHANGED token

Next ==
  \/ \E c \in Callers :
       \/ Call(c) \/ Send(c)
       \/ Refuse(c) \/ Serve(c) \/ BeginImage(c) \/ SendPiece(c) \/ EndImage(c)
       \/ Receive(c) \/ GiveUp(c) \/ Return(c)
  \/ \E t \in Tokens : SetToken(t)

Spec == Init /\ [][Next]_vars

-----------------------------------------------------------------------------
Calls ==
  [stage : Stages, method : Methods, seconds : Int, current : SUBSET Tokens, carried : Tokens,
   answer : {"none", "data", "image"} \cup Refusals, signed : [lifetime : Int, reported : Int],
   declared : {Unknown, ImageSize}, arrived : 0 .. ImageSize, result : {"none", "data", "image", "empty", "error"}]

TypeOK ==
  /\ token \in Tokens
  /\ call \in [Callers -> Calls]

Signed(c) == call[c].method \in PresignOps /\ call[c].answer = "data"

\* docs/003-api-reference.md: "Service enforces min/max bounds", also for lifetimes that
\* leave the width of a Duration, negative ones and none.
LifetimeInBounds ==
  \A c \in Callers :
    Signed(c) => /\ MinPresignTTL <= call[c].signed.lifetime
                 /\ call[c].signed.lifetime <= MaxTTL[PresignMethod(call[c].method)]

\* The URL lives as long as the answer says, and less than a second longer: a wrapped
\* Duration is no whole number of seconds.  A request within the bounds is answered with
\* its own seconds: the wrap-around of the product never reaches it.
AnswerMatchesLifetime ==
  \A c \in Callers :
    LET url == call[c].signed
        s   == call[c].seconds
    IN  Signed(c) =>
          /\ url.reported * Second <= url.lifetime /\ url.lifetime < (url.reported + 1) * Second
          /\ MinPresignTTL <= s * Second /\ s * Second <= MaxTTL[PresignMethod(call[c].method)] =>
               url.reported = s /\ url.lifetime = s * Second

\* A call that returns without an error was made under a token the client had while the
\* call ran, however SetToken races with it, and its image is whole, although the service
\* tells nobody that it lost the object half-way.  (Health is another matter: it returns an
\* empty status without an error for the service's own answer.)
ResultsAreSound ==
  \A c \in Callers :
    /\ call[c].result \in {"data", "image"} => call[c].carried \in call[c].current
    /\ call[c].result = "image" => call[c].arrived = ImageSize

\* Wherever a method puts its arguments the handler finds them, DeleteObject apart:
\* saladclient/README.md has it as "Delete an object", but it sends the bucket and the
\* key in the query, the handler reads a body, and every call of it ends as malformed
\* at best.  None deletes anything.
OnlyDeleteObjectIsMisunderstood ==
  \A c \in Callers :
    /\ call[c].answer = "malformed" => call[c].method = "DeleteObject"
    /\ call[c].method = "DeleteObject" => call[c].result # "data"
=============================================================================

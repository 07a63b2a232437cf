---------------------------- MODULE RateLimiter ----------------------------
(***************************************************************************)
(* identityIPRateLimiter (internal/httpapi/middleware/rate_limit.go): a    *)
(* fixed-window counter per (principal, ip), shared by all requests in     *)
(* flight.  A request reads the clock BEFORE it takes the mutex, so the    *)
(* time it consumes with may be older than the window it finds.            *)
(*                                                                         *)
(* Time is counted in ticks.  The counters live as long as the process;    *)
(* the history variable `admitted` records, per counter, every request     *)
(* that was let through, in the order the mutex was held.                  *)
(***************************************************************************)
EXTENDS Integers, Sequences

CONSTANTS
    Requests,
    Callers,            \* who may send them: [type, subject, ip]
    ConfiguredLimit, ConfiguredWindow,  \* arguments of NewIdentityIPRateLimitMiddleware
    DefaultWindow,      \* one minute, in ticks
    Second,             \* one second, in ticks
    MaxTime,            \* bound on the clock
    NoCaller, NoCounter

DefaultRateLimitPerWindow == 60

ASSUME Durations ==
    /\ ConfiguredLimit \in Int /\ ConfiguredWindow \in Int
    /\ DefaultWindow \in Nat \ {0} /\ Second \in Nat \ {0} /\ MaxTime \in Nat

ASSUME NoCounterAssumption == NoCounter \notin [windowStart : Nat, count : Nat]
ASSUME CallersAssumption ==
    /\ Callers \subseteq [type : STRING, subject : STRING, ip : STRING]
    /\ NoCaller \notin Callers

Limit  == IF ConfiguredLimit <= 0 THEN DefaultRateLimitPerWindow ELSE ConfiguredLimit
Window == IF ConfiguredWindow <= 0 THEN DefaultWindow ELSE ConfiguredWindow

VARIABLES
    clock,      \* the monotonic clock behind nowFunc
    pc,         \* where each request stands
    caller,     \* its principal and address
    stamp,      \* the `now` it read
    answer,     \* what the middleware told it: [remaining, retryAfter]
    counters,   \* r.counters
    admitted    \* history: key -> admissions, in order

vars == <<clock, pc, caller, stamp, answer, counters, admitted>>

\* callerIdentity is missing when the claims carry no principal type or no subject.
HasIdentity(who) == who.type # "" /\ who.subject # ""

\* A plausible bug, for the mutants: keyed by address only.
KeyOfAddress(who) == <<"", "", who.ip>>

\* Principal types contain no ":" and addresses no "|": the joined key is as good as the tuple.
KeyOf(who) == <<who.type, who.subject, who.ip>>
Keys == {KeyOf(who) : who \in Callers}

Init ==
    /\ clock = 0
    /\ pc = [r \in Requests |-> "new"]
    /\ caller = [r \in Requests |-> NoCaller]
    /\ stamp = [r \in Requests |-> 0]
    /\ answer = [r \in Requests |-> [remaining |-> 0, retryAfter |-> 0]]
    /\ counters = [k \in Keys |-> NoCounter]
    /\ admitted = [k \in Keys |-> <<>>]

Tick ==
    /\ clock < MaxTime
    /\ clock' = clock + 1
    /\ UNCHANGED <<pc, caller, stamp, answer, counters, admitted>>

\* A request without identity is answered 401 and leaves the counters alone.
Arrive(r, who) ==
    /\ pc[r] = "new"
    /\ caller' = [caller EXCEPT ![r] = who]
    /\ IF HasIdentity(who)
       THEN /\ pc' = [pc EXCEPT ![r] = "stamped"]
            /\ stamp' = [stamp EXCEPT ![r] = clock]
       ELSE /\ pc' = [pc EXCEPT ![r] = "unauthenticated"]
            /\ UNCHANGED stamp
    /\ UNCHANGED <<clock, answer, counters, admitted>>

-----------------------------------------------------------------------------
(* consume: the critical section under r.mu *)

\* A plausible bug, for the mutants: the window is renewed one tick early.
FoundEarly(k, now) ==
    IF counters[k] = NoCounter \/ now - counters[k].windowStart >= Window - 1
    THEN [windowStart |-> now, count |-> 0]
    ELSE counters[k]

\* The counter the request finds, after the window was renewed if it is over.
Found(k, now) ==
    IF counters[k] = NoCounter \/ now - counters[k].windowStart >= Window
    THEN [windowStart |-> now, count |-> 0]
    ELSE counters[k]

\* A plausible bug, for the mutants: rounds down.
RetryAfterRoundedDown(counter, now) ==
    LET seconds == (counter.windowStart + Window - now) \div Second
    IN  IF seconds < 1 THEN 1 ELSE seconds

\* Seconds until the window ends, rounded up, at least 1.
RetryAfter(counter, now) ==
    LET left    == counter.windowStart + Window - now
        retry   == IF left < 0 THEN 0 ELSE left
        seconds == (retry + Second - 1) \div Second
    IN  IF seconds < 1 THEN 1 ELSE seconds

Admit(r) ==
    LET k == KeyOf(caller[r])
        found == Found(k, stamp[r])
        counter == [found EXCEPT !.count = @ + 1]
    IN  /\ pc[r] = "stamped"
        /\ found.count < Limit
        /\ counters' = [counters EXCEPT ![k] = counter]
        /\ answer' = [answer EXCEPT ![r] = [remaining |-> Limit - counter.count, retryAfter |-> 0]]
        /\ admitted' = [admitted EXCEPT ![k] = Append(@,
                          [window |-> counter.windowStart, count |-> counter.count,
                           stamp |-> stamp[r], at |-> clock, by |-> caller[r]])]
        /\ pc' = [pc EXCEPT ![r] = "admitted"]
        /\ UNCHANGED <<clock, caller, stamp>>

Reject(r) ==
    LET k == KeyOf(caller[r])
        found == Found(k, stamp[r])
    IN  /\ pc[r] = "stamped"
        /\ found.count >= Limit
        /\ counters' = [counters EXCEPT ![k] = found]
        /\ answer' = [answer EXCEPT ![r] = [remaining |-> 0, retryAfter |-> RetryAfter(found, stamp[r])]]
        /\ pc' = [pc EXCEPT ![r] = "rejected"]
        /\ UNCHANGED <<clock, caller, stamp, admitted>>

Consume(r) == Admit(r) \/ Reject(r)

Next ==
    \/ Tick
    \/ \E r \in Requests : Consume(r) \/ \E who \in Callers : Arrive(r, who)

Spec == Init /\ [][Next]_vars

-----------------------------------------------------------------------------
(* Properties *)

TypeOK ==
    /\ clock \in Nat
    /\ pc \in [Requests -> {"new", "unauthenticated", "stamped", "admitted", "rejected"}]
    /\ caller \in [Requests -> Callers \cup {NoCaller}]
    /\ stamp \in [Requests -> Nat]
    /\ answer \in [Requests -> [remaining : Nat, retryAfter : Nat]]
    /\ counters \in [Keys -> [windowStart : Nat, count : Nat] \cup {NoCounter}]
    /\ admitted \in [Keys -> Seq([window : Nat, count : Nat, stamp : Nat, at : Nat, by : Callers])]

\* However requests overtake each other between the clock and the mutex, no
\* counter lets more than twice the limit pass within one window length: from
\* the moment the first of 2 * limit + 1 admitted requests read the clock to the
\* moment the last one is admitted, more than a window goes by.  (Once the limit,
\* twice at the seam of two fixed windows, is what a fixed-window limiter can promise.)
SlidingQuota ==
    \A k \in Keys :
        \A i \in 1 .. Len(admitted[k]) :
            i + 2 * Limit <= Len(admitted[k]) =>
                admitted[k][i + 2 * Limit].at - admitted[k][i].stamp > Window

\* The windows a counter goes through do not overlap and never go back in
\* time, and a window admits at most limit requests, numbered 1, 2, ... .
WindowsInOrder ==
    \A k \in Keys :
        \A i, j \in 1 .. Len(admitted[k]) :
            i < j =>
                LET a == admitted[k][i] 
                    b == admitted[k][j]
                IN  \/ b.window = a.window /\ b.count = a.count + (j - i) /\ b.count <= Limit
                    \/ b.window >= a.window + Window

\* A rejected caller that comes back after Retry-After seconds (by the clock
\* it was judged with) finds the window it was rejected by over, and it is not
\* kept away a whole second longer than that.
RetryAfterSuffices ==
    [][\A r \in Requests : pc[r] = "stamped" /\ pc'[r] = "rejected" =>
        LET k == KeyOf(caller[r])
            back == stamp[r] + answer'[r].retryAfter * Second
        IN  /\ back - counters'[k].windowStart >= Window
            /\ back - counters'[k].windowStart < Window + Second]_vars

\* A caller is turned away only after the limit was used up by that very
\* principal from that very address, in a window still open at the time the
\* caller was judged with: neither a principal behind the same address nor an
\* overtaken request with an old stamp uses up somebody's quota.
RejectedOnlyWhenExhausted ==
    [][\A r \in Requests : pc[r] = "stamped" /\ pc'[r] = "rejected" =>
        LET log == admitted[KeyOf(caller[r])]
        IN  /\ Len(log) >= Limit
            /\ stamp[r] < log[Len(log)].window + Window
            /\ \A i \in Len(log) - Limit + 1 .. Len(log) :
                log[i].window = log[Len(log)].window /\ log[i].by = caller[r]]_vars
=============================================================================

------------------------- MODULE RateLimiterProofs -------------------------
(***************************************************************************)
(* Proofs about RateLimiter for any limit, window, clock bound, callers    *)
(* and number of requests.                                                 *)
(*                                                                         *)
(* The quota over a sliding window needs a count of admissions across      *)
(* windows.  Instead of an induction over the log, GoodLog relates EVERY   *)
(* pair of entries: they are in one window and numbered consecutively, or  *)
(* in neighbouring windows that hold at most limit entries each, or at     *)
(* least two windows apart.  One admission extends that relation.          *)
(***************************************************************************)
EXTENDS RateLimiter, SequenceTheorems, TLAPS

Entry == [window : Nat, count : Nat, stamp : Nat, at : Nat, by : Callers]

EntryOK(e) ==
    /\ e.count >= 1
    /\ e.count <= Limit
    /\ e.stamp < e.window + Window
    /\ e.window <= e.at

\* a is the i-th entry of a log and b the j-th, i < j.
Apart(a, b, i, j) ==
    \/ b.window = a.window /\ j - i = b.count - a.count
    \/ b.window >= a.window + Window /\ j - i <= b.count + Limit - a.count
    \/ b.window >= a.window + 2 * Window

GoodLog(log) ==
    /\ \A i \in 1 .. Len(log) : EntryOK(log[i]) /\ log[i].count <= i
    /\ \A i, j \in 1 .. Len(log) : i < j => Apart(log[i], log[j], i, j)
    /\ \A i, j \in 1 .. Len(log) :
        i <= j /\ j - i < log[j].count => log[i].window = log[j].window

\* The counter of a key is the last entry of its log.
Agrees(counter, log) ==
    IF log = <<>> THEN counter = NoCounter
    ELSE counter = [windowStart |-> log[Len(log)].window, count |-> log[Len(log)].count]

LogInv ==
    \A k \in Keys :
        /\ GoodLog(admitted[k])
        /\ Agrees(counters[k], admitted[k])
        /\ \A i \in 1 .. Len(admitted[k]) :
            admitted[k][i].window <= clock /\ KeyOf(admitted[k][i].by) = k

RequestInv ==
    \A r \in Requests :
        /\ stamp[r] <= clock
        /\ pc[r] = "stamped" => caller[r] \in Callers

Inv == TypeOK /\ RequestInv /\ LogInv

LEMMA LimitPositive == Limit \in Nat \ {0} /\ Window \in Nat \ {0}
BY Durations DEF Limit, Window, DefaultRateLimitPerWindow

LEMMA KeysTellCallersApart ==
    ASSUME NEW a \in Callers, NEW b \in Callers, KeyOf(a) = KeyOf(b) PROVE a = b
BY CallersAssumption DEF KeyOf

\* An entry that continues the last window, or opens one after it, keeps the log good.
LEMMA ExtendLog ==
    ASSUME NEW log \in Seq(Entry), GoodLog(log), NEW e \in Entry, EntryOK(e),
           IF log = <<>> THEN e.count = 1
           ELSE \/ /\ e.window = log[Len(log)].window
                   /\ e.count = log[Len(log)].count + 1
                \/ /\ e.window >= log[Len(log)].window + Window
                   /\ e.count = 1
    PROVE  GoodLog(Append(log, e))
<1> DEFINE n == Len(log)
           new == Append(log, e)
<1>1. n \in Nat /\ Len(new) = n + 1 /\ new[n + 1] = e /\ \A i \in 1 .. n : new[i] = log[i]
  OBVIOUS
<1>2. \A i \in 1 .. n : log[i] \in Entry
  OBVIOUS
<1>3. ASSUME NEW i \in 1 .. n + 1 PROVE EntryOK(new[i]) /\ new[i].count <= i
  <2>1. CASE i \in 1 .. n
    BY <1>1, <2>1 DEF GoodLog
  <2>2. CASE i = n + 1
    <3>1. CASE n = 0
      BY <1>1, <2>2, <3>1
    <3>2. CASE n > 0
      <4>1. log # <<>> /\ log[n].count <= n /\ log[n] \in Entry
        BY <1>1, <1>2, <3>2 DEF GoodLog
      <4>2. log[n].count \in Nat
        BY <4>1 DEF Entry
      <4>3. e.count = 1 \/ e.count = log[n].count + 1
        BY <4>1
      <4>4. e.count <= n + 1
        BY <1>1, <4>1, <4>2, <4>3
      <4>5. new[i] = e
        BY <1>1, <2>2
      <4> QED BY <2>2, <4>4, <4>5
    <3> QED BY <1>1, <3>1, <3>2
  <2> QED BY <1>1, <2>1, <2>2
<1>4. ASSUME NEW i \in 1 .. n + 1, NEW j \in 1 .. n + 1, i < j
      PROVE  Apart(new[i], new[j], i, j)
  <2>1. CASE j \in 1 .. n
    BY <1>1, <1>4, <2>1 DEF GoodLog
  <2>2. CASE j = n + 1
    <3>1. i \in 1 .. n /\ n \in 1 .. n /\ log # <<>>
      BY <1>1, <1>4, <2>2
    <3>2. log[i] \in Entry /\ log[n] \in Entry /\ EntryOK(log[i]) /\ EntryOK(log[n])
      BY <1>2, <3>1 DEF GoodLog
    <3>3. i = n \/ Apart(log[i], log[n], i, n)
      BY <1>1, <3>1 DEF GoodLog
    <3>4. Apart(log[i], e, i, n + 1)
      <4> DEFINE wi == log[i].window  ci == log[i].count
                 wn == log[n].window  cn == log[n].count
                 we == e.window       ce == e.count
      <4>1. \/ we = wn /\ ce = cn + 1
            \/ we >= wn + Window /\ ce = 1
        BY <1>1, <3>1
      <4>2. \/ i = n /\ wi = wn /\ ci = cn
            \/ wn = wi /\ n - i = cn - ci
            \/ wn >= wi + Window /\ n - i <= cn + Limit - ci
            \/ wn >= wi + 2 * Window
        BY <3>3 DEF Apart
      <4>3. wi \in Nat /\ ci \in Nat /\ wn \in Nat /\ cn \in Nat
        BY <3>2 DEF Entry
      <4>4. we \in Nat /\ ce \in Nat
        BY DEF Entry
      <4>5. ci <= Limit /\ cn <= Limit
        BY <3>2 DEF EntryOK
      <4>6. i \in Nat /\ n \in Nat /\ Limit \in Nat /\ Window \in Nat
        BY <1>1, <3>1, LimitPositive
      <4> HIDE DEF wi, ci, wn, cn, we, ce, n, new
      <4>7. \/ we = wi /\ (n + 1) - i = ce - ci
            \/ we >= wi + Window /\ (n + 1) - i <= ce + Limit - ci
            \/ we >= wi + 2 * Window
        BY <4>1, <4>2, <4>3, <4>4, <4>5, <4>6
      <4> QED BY <4>7 DEF Apart, wi, ci, we, ce
    <3> QED BY <1>1, <2>2, <3>1, <3>4
  <2> QED BY <1>1, <2>1, <2>2
<1>5. ASSUME NEW i \in 1 .. n + 1, NEW j \in 1 .. n + 1, i <= j, j - i < new[j].count
      PROVE  new[i].window = new[j].window
  <2>1. CASE j \in 1 .. n
    BY <1>1, <1>5, <2>1 DEF GoodLog
  <2>2. CASE j = n + 1 /\ i = n + 1
    BY <2>2
  <2>3. CASE j = n + 1 /\ i \in 1 .. n
    <3>1. n \in 1 .. n /\ log # <<>> /\ log[n] \in Entry /\ log[i] \in Entry
      BY <1>1, <1>2, <2>3
    <3>0. new[j] = e
      BY <1>1, <2>3
    <3>1a. j - i < e.count
      BY <1>5, <3>0
    <3>1b. e.count \in Nat
      BY DEF Entry
    <3>1c. log[n].count \in Nat
      BY <3>1 DEF Entry
    <3>1d. i \in Nat /\ n \in Nat
      BY <1>1, <2>3
    <3>2. n + 1 - i < e.count
      BY <2>3, <3>1a, <3>1b, <3>1d
    <3>3. e.count # 1
      BY <2>3, <3>1b, <3>1d, <3>2
    <3>4. e.window = log[n].window /\ e.count = log[n].count + 1
      BY <1>1, <3>1, <3>3
    <3>5. n - i < log[n].count
      BY <3>1b, <3>1c, <3>1d, <3>2, <3>4
    <3>6. log[i].window = log[n].window
      BY <1>1, <2>3, <3>1, <3>5 DEF GoodLog
    <3> QED BY <1>1, <2>3, <3>4, <3>6
  <2> QED BY <1>1, <2>1, <2>2, <2>3
<1> QED BY <1>1, <1>3, <1>4, <1>5 DEF GoodLog

LEMMA Appended ==
    ASSUME NEW S, NEW seq \in Seq(S), NEW x \in S
    PROVE  /\ Append(seq, x) \in Seq(S)
           /\ Append(seq, x) # <<>>
           /\ Len(Append(seq, x)) = Len(seq) + 1
           /\ Append(seq, x)[Len(seq) + 1] = x
           /\ \A i \in 1 .. Len(seq) : Append(seq, x)[i] = seq[i]
           /\ Len(seq) \in Nat
OBVIOUS

LEMMA EmptyLogGood == GoodLog(<<>>)
BY DEF GoodLog

\* What a request finds in its counter, compared with the last admission.
LEMMA FoundCounter ==
    ASSUME Inv, NEW r \in Requests, pc[r] = "stamped",
           NEW k, k = KeyOf(caller[r]), NEW log, log = admitted[k],
           NEW found, found = Found(k, stamp[r])
    PROVE  /\ k \in Keys /\ log \in Seq(Entry) /\ GoodLog(log)
           /\ found \in [windowStart : Nat, count : Nat]
           /\ found.windowStart <= clock
           /\ stamp[r] < found.windowStart + Window
           /\ IF log = <<>> THEN found.count = 0
              ELSE \/ /\ found = counters[k]
                      /\ found.windowStart = log[Len(log)].window
                      /\ found.count = log[Len(log)].count
                   \/ /\ found.windowStart >= log[Len(log)].window + Window
                      /\ found.count = 0
<1>1. caller[r] \in Callers /\ stamp[r] \in Nat /\ stamp[r] <= clock /\ clock \in Nat
  BY DEF Inv, RequestInv, TypeOK
<1>2. k \in Keys
  BY <1>1 DEF Keys
<1>3. log \in Seq(Entry) /\ GoodLog(log) /\ Agrees(counters[k], log)
  BY <1>2 DEF Inv, TypeOK, LogInv, Entry
<1>4. Window \in Nat /\ Window > 0
  BY LimitPositive
<1>5. CASE log = <<>>
  <2>1. found = [windowStart |-> stamp[r], count |-> 0]
    BY <1>3, <1>5 DEF Found, Agrees
  <2> QED BY <1>1, <1>2, <1>3, <1>4, <1>5, <2>1
<1>6. CASE log # <<>>
  <2> DEFINE last == log[Len(log)]
  <2>1. last \in Entry /\ Len(log) \in 1 .. Len(log)
    BY <1>3, <1>6
  <2>2. last.window \in Nat /\ last.count \in Nat
    BY <2>1 DEF Entry
  <2>3. counters[k] = [windowStart |-> last.window, count |-> last.count]
    BY <1>3, <1>6 DEF Agrees
  <2>4. counters[k] # NoCounter
    BY <2>2, <2>3, NoCounterAssumption
  <2>5. last.window <= clock
    BY <1>2, <2>1 DEF Inv, LogInv
  <2> HIDE DEF last
  <2>6. CASE stamp[r] - last.window >= Window
    <3>1. found = [windowStart |-> stamp[r], count |-> 0]
      BY <2>3, <2>6 DEF Found
    <3> QED BY <1>1, <1>2, <1>3, <1>4, <1>6, <2>2, <2>6, <3>1 DEF last
  <2>7. CASE ~(stamp[r] - last.window >= Window)
    <3>1. found = counters[k]
      BY <2>3, <2>4, <2>7 DEF Found
    <3>2. stamp[r] < last.window + Window
      BY <1>1, <1>4, <2>2, <2>7
    <3> QED BY <1>1, <1>2, <1>3, <1>4, <1>6, <2>2, <2>3, <2>5, <3>1, <3>2 DEF last
  <2> QED BY <2>6, <2>7
<1> QED BY <1>5, <1>6

LEMMA AdmitStep ==
    ASSUME Inv, NEW r \in Requests, Admit(r)
    PROVE  Inv'
<1> DEFINE k == KeyOf(caller[r])
           found == Found(k, stamp[r])
           log == admitted[k]
           e == [window |-> found.windowStart, count |-> found.count + 1,
                 stamp |-> stamp[r], at |-> clock, by |-> caller[r]]
<1>1. /\ k \in Keys /\ log \in Seq(Entry) /\ GoodLog(log)
      /\ found \in [windowStart : Nat, count : Nat]
      /\ found.windowStart <= clock
      /\ stamp[r] < found.windowStart + Window
      /\ IF log = <<>> THEN found.count = 0
         ELSE \/ /\ found = counters[k]
                 /\ found.windowStart = log[Len(log)].window
                 /\ found.count = log[Len(log)].count
              \/ /\ found.windowStart >= log[Len(log)].window + Window
                 /\ found.count = 0
  BY FoundCounter DEF Admit
<1>2. /\ found.count < Limit
      /\ counters' = [counters EXCEPT ![k] = [windowStart |-> e.window, count |-> e.count]]
      /\ answer' = [answer EXCEPT ![r] = [remaining |-> Limit - e.count, retryAfter |-> 0]]
      /\ admitted' = [admitted EXCEPT ![k] = Append(log, e)]
      /\ pc' = [pc EXCEPT ![r] = "admitted"]
      /\ UNCHANGED <<clock, caller, stamp>>
  <2>1. [found EXCEPT !.count = @ + 1] = [windowStart |-> e.window, count |-> e.count]
    <3> HIDE DEF found
    <3> QED BY <1>1
  <2>2. ([found EXCEPT !.count = @ + 1]).count = e.count
        /\ ([found EXCEPT !.count = @ + 1]).windowStart = e.window
    BY <2>1
  <2> QED BY <2>1, <2>2 DEF Admit
<1>3. caller[r] \in Callers /\ stamp[r] \in Nat /\ clock \in Nat /\ admitted \in [Keys -> Seq(Entry)]
  BY DEF Inv, RequestInv, TypeOK, Admit, Entry
<1>4. e \in Entry /\ EntryOK(e)
  <2> HIDE DEF found
  <2>1. found.windowStart \in Nat /\ found.count \in Nat
    BY <1>1
  <2> QED BY <1>1, <1>2, <1>3, <2>1, LimitPositive, SMTT(30) DEF Entry, EntryOK
<1>5. GoodLog(Append(log, e))
  <2>1. IF log = <<>> THEN e.count = 1
        ELSE \/ /\ e.window = log[Len(log)].window
                /\ e.count = log[Len(log)].count + 1
             \/ /\ e.window >= log[Len(log)].window + Window
                /\ e.count = 1
    BY <1>1
  <2> HIDE DEF log, e
  <2> QED BY <1>1, <1>4, <2>1, ExtendLog
<1> HIDE DEF k, found, log, e
<1>6. /\ Append(log, e) \in Seq(Entry)
      /\ Append(log, e) # <<>>
      /\ Len(Append(log, e)) = Len(log) + 1
      /\ Append(log, e)[Len(log) + 1] = e
      /\ \A i \in 1 .. Len(log) : Append(log, e)[i] = log[i]
      /\ Len(log) \in Nat
  BY <1>1, <1>4, Appended
<1>7. admitted'[k] = Append(log, e)
  BY <1>1, <1>2, <1>3
<1>8. TypeOK'
  <2>1. counters' \in [Keys -> [windowStart : Nat, count : Nat] \cup {NoCounter}]
    BY <1>2, <1>4 DEF Inv, TypeOK, Entry
  <2>2. answer' \in [Requests -> [remaining : Nat, retryAfter : Nat]]
    <3>1. Limit - e.count \in Nat
      BY <1>4, LimitPositive DEF Entry, EntryOK
    <3> QED BY <1>2, <3>1 DEF Inv, TypeOK
  <2>3. admitted' \in [Keys -> Seq(Entry)]
    BY <1>2, <1>3, <1>6
  <2> QED BY <1>2, <2>1, <2>2, <2>3 DEF Inv, TypeOK, Entry
<1>9. RequestInv'
  BY <1>2 DEF Inv, TypeOK, RequestInv
<1>10. LogInv'
  <2> SUFFICES ASSUME NEW x \in Keys
               PROVE  /\ GoodLog(admitted'[x])
                      /\ Agrees(counters'[x], admitted'[x])
                      /\ \A i \in 1 .. Len(admitted'[x]) :
                          admitted'[x][i].window <= clock /\ KeyOf(admitted'[x][i].by) = x
    BY <1>2 DEF LogInv
  <2>1. CASE x # k
    BY <1>2, <1>3, <2>1 DEF Inv, TypeOK, LogInv
  <2>2. CASE x = k
    <3>1. counters'[k] = [windowStart |-> e.window, count |-> e.count]
      BY <1>1, <1>2 DEF Inv, TypeOK
    <3>2. Agrees(counters'[k], Append(log, e))
      BY <1>6, <3>1 DEF Agrees
    <3>3. e.window <= clock /\ KeyOf(e.by) = k
      BY <1>1 DEF e, k
    <3>4. \A i \in 1 .. Len(log) : log[i].window <= clock /\ KeyOf(log[i].by) = k
      BY <1>1 DEF Inv, LogInv, log
    <3>5. \A i \in 1 .. Len(log) + 1 : i \in 1 .. Len(log) \/ i = Len(log) + 1
      BY <1>6
    <3> QED BY <1>5, <1>6, <1>7, <2>2, <3>2, <3>3, <3>4, <3>5
  <2> QED BY <2>1, <2>2
<1> QED BY <1>8, <1>9, <1>10 DEF Inv

\* With a positive limit a request that finds a full window leaves it as it is.
LEMMA RejectStep ==
    ASSUME Inv, NEW r \in Requests, Reject(r)
    PROVE  /\ Inv'
           /\ UNCHANGED counters
           /\ LET log == admitted[KeyOf(caller[r])]
                  found == Found(KeyOf(caller[r]), stamp[r])
              IN  /\ log \in Seq(Entry) /\ GoodLog(log) /\ log # <<>>
                  /\ found = counters[KeyOf(caller[r])]
                  /\ found.windowStart = log[Len(log)].window
                  /\ log[Len(log)].count = Limit
                  /\ found.windowStart \in Nat
                  /\ stamp[r] < found.windowStart + Window
                  /\ \A i \in 1 .. Len(log) : KeyOf(log[i].by) = KeyOf(caller[r])
<1> DEFINE k == KeyOf(caller[r])
           found == Found(k, stamp[r])
           log == admitted[k]
<1>1. /\ k \in Keys /\ log \in Seq(Entry) /\ GoodLog(log)
      /\ found \in [windowStart : Nat, count : Nat]
      /\ stamp[r] < found.windowStart + Window
      /\ IF log = <<>> THEN found.count = 0
         ELSE \/ /\ found = counters[k]
                 /\ found.windowStart = log[Len(log)].window
                 /\ found.count = log[Len(log)].count
              \/ /\ found.windowStart >= log[Len(log)].window + Window
                 /\ found.count = 0
  BY FoundCounter DEF Reject
<1>2. found.count >= Limit
  BY DEF Reject
<1> HIDE DEF found, log, k
<1>3. found.count # 0
  BY <1>2, LimitPositive
<1>4. log # <<>> /\ found = counters[k] /\ found.windowStart = log[Len(log)].window
      /\ found.count = log[Len(log)].count
  BY <1>1, <1>3
<1>5. log[Len(log)].count = Limit
  <2>1. Len(log) \in 1 .. Len(log)
    BY <1>1, <1>4
  <2>2. log[Len(log)].count <= Limit
    BY <1>1, <2>1 DEF GoodLog, EntryOK
  <2>3. log[Len(log)].count \in Nat
    BY <1>1, <1>4
  <2> QED BY <1>2, <1>4, <2>2, <2>3, LimitPositive
<1>6. counters' = counters
  BY <1>1, <1>4 DEF Reject, found, k, Inv, TypeOK
<1>7. RetryAfter(found, stamp[r]) \in Nat
  <2> DEFINE left == found.windowStart + Window - stamp[r]
             retry == IF left < 0 THEN 0 ELSE left
             seconds == (retry + Second - 1) \div Second
  <2>1. found.windowStart \in Nat /\ stamp[r] \in Nat /\ Window \in Nat
    BY <1>1, LimitPositive DEF Inv, TypeOK
  <2>2. left \in Int
    BY <2>1
  <2>3. retry \in Nat
    BY <2>2
  <2>4. Second \in Nat \ {0}
    BY Durations
  <2>5. seconds \in Int
    <3> HIDE DEF retry
    <3> QED BY <2>3, <2>4
  <2>6. RetryAfter(found, stamp[r]) = IF seconds < 1 THEN 1 ELSE seconds
    BY DEF RetryAfter
  <2> HIDE DEF seconds
  <2> QED BY <2>5, <2>6
<1>8. TypeOK'
  <2>1. answer' = [answer EXCEPT ![r] = [remaining |-> 0, retryAfter |-> RetryAfter(found, stamp[r])]]
        /\ pc' = [pc EXCEPT ![r] = "rejected"]
        /\ UNCHANGED <<clock, caller, stamp, admitted>>
    BY DEF Reject, found, k
  <2> QED BY <1>6, <1>7, <2>1 DEF Inv, TypeOK
<1>9. RequestInv' /\ LogInv'
  BY <1>6 DEF Reject, Inv, TypeOK, RequestInv, LogInv
<1>10. \A i \in 1 .. Len(log) : KeyOf(log[i].by) = k
  BY <1>1 DEF Inv, LogInv, log
<1>11. found.windowStart \in Nat
  BY <1>1
<1> QED BY <1>1, <1>4, <1>5, <1>6, <1>8, <1>9, <1>10, <1>11 DEF Inv, k, found, log

LEMMA InitInv == Init => Inv
<1> SUFFICES ASSUME Init PROVE Inv
  OBVIOUS
<1>1. TypeOK
  BY DEF Init, TypeOK
<1>2. RequestInv
  <2>2. \A r \in Requests : pc[r] # "stamped"
    BY DEF Init
  <2>3. ASSUME NEW r \in Requests PROVE stamp[r] <= clock
    <3>1. stamp[r] = 0 /\ clock = 0
      BY DEF Init
    <3>2. 0 <= 0
      OBVIOUS
    <3> QED BY <3>1, <3>2
  <2> QED BY <2>2, <2>3 DEF RequestInv
<1>3. LogInv
  BY EmptyLogGood DEF Init, LogInv, Agrees
<1> QED BY <1>1, <1>2, <1>3 DEF Inv

LEMMA InvStep == Inv /\ [Next]_vars => Inv'
<1> SUFFICES ASSUME Inv, [Next]_vars PROVE Inv'
  OBVIOUS
<1>1. CASE Tick
  <2>0. clock \in Nat /\ clock' = clock + 1 /\ \A r \in Requests : stamp[r] \in Nat
    BY <1>1 DEF Tick, Inv, TypeOK
  <2>1. TypeOK'
    <3>1. clock' \in Nat
      BY <2>0
    <3>2. UNCHANGED <<pc, caller, stamp, answer, counters, admitted>>
      BY <1>1 DEF Tick
    <3> QED BY <3>1, <3>2 DEF Inv, TypeOK
  <2>2a. RequestInv'
    BY <1>1, <2>0 DEF Tick, Inv, RequestInv
  <2>2. LogInv'
    <3>1. clock \in Nat /\ clock' = clock + 1 /\ counters' = counters /\ admitted' = admitted
      BY <1>1 DEF Tick, Inv, TypeOK
    <3>2. ASSUME NEW k \in Keys, NEW i \in 1 .. Len(admitted[k])
          PROVE  admitted[k][i].window \in Nat
      <4>1. admitted[k] \in Seq(Entry)
        BY DEF Inv, TypeOK, Entry
      <4>2. admitted[k][i] \in Entry
        BY <4>1
      <4> QED BY <4>2 DEF Entry
    <3>3. \A k \in Keys : \A i \in 1 .. Len(admitted[k]) : admitted[k][i].window <= clock'
      BY <3>1, <3>2 DEF Inv, LogInv
    <3> QED BY <3>1, <3>3 DEF Inv, LogInv
  <2> QED BY <2>1, <2>2a, <2>2 DEF Inv
<1>2. ASSUME NEW r \in Requests, NEW who \in Callers, Arrive(r, who) PROVE Inv'
  <2>1. TypeOK'
    BY <1>2 DEF Arrive, Inv, TypeOK
  <2>2. RequestInv'
    BY <1>2 DEF Arrive, Inv, TypeOK, RequestInv
  <2>3. LogInv'
    BY <1>2 DEF Arrive, Inv, LogInv
  <2> QED BY <2>1, <2>2, <2>3 DEF Inv
<1>3. ASSUME NEW r \in Requests, Consume(r) PROVE Inv'
  BY <1>3, AdmitStep, RejectStep DEF Consume
<1>4. CASE UNCHANGED vars
  BY <1>4 DEF vars, Inv, TypeOK, RequestInv, LogInv
<1> QED BY <1>1, <1>2, <1>3, <1>4 DEF Next

-----------------------------------------------------------------------------
\* Inv is inductive.
THEOREM InvHolds == Spec => []Inv
BY InitInv, InvStep, PTL DEF Spec

\* Type correctness of the limiter's state.
THEOREM TypeCorrect == Spec => []TypeOK
BY InvHolds, PTL DEF Inv

\* 2 * limit + 1 admissions of one counter never fit into one window length,
\* whatever the limit, the window and the delays between clock and mutex.
THEOREM QuotaOverAnyWindow == Spec => []SlidingQuota
<1>1. ASSUME Inv, NEW k \in Keys, NEW i \in 1 .. Len(admitted[k]),
             i + 2 * Limit <= Len(admitted[k])
      PROVE  admitted[k][i + 2 * Limit].at - admitted[k][i].stamp > Window
  <2> DEFINE j == i + 2 * Limit
             log == admitted[k]
             wi == log[i].window  ci == log[i].count
             wj == log[j].window  cj == log[j].count
  <2>1. log \in Seq(Entry) /\ GoodLog(log)
    BY <1>1 DEF Inv, TypeOK, LogInv, Entry
  <2>2. Limit \in Nat /\ Limit > 0 /\ Window \in Nat
    BY LimitPositive
  <2>3. j \in 1 .. Len(log) /\ i < j /\ i \in Nat
    BY <1>1, <2>1, <2>2
  <2>4. log[i] \in Entry /\ log[j] \in Entry
    BY <2>1, <2>3
  <2>5. /\ wi \in Nat /\ ci \in Nat /\ log[i].stamp \in Nat
        /\ wj \in Nat /\ cj \in Nat /\ log[j].at \in Nat
    BY <2>4 DEF Entry
  <2>6. ci >= 1 /\ cj <= Limit /\ log[i].stamp < wi + Window /\ wj <= log[j].at
    BY <2>1, <2>3 DEF GoodLog, EntryOK
  <2>7. \/ wj = wi /\ j - i = cj - ci
        \/ wj >= wi + Window /\ j - i <= cj + Limit - ci
        \/ wj >= wi + 2 * Window
    BY <2>1, <2>3 DEF GoodLog, Apart
  <2>8. j - i = 2 * Limit
    BY <2>2, <2>3
  <2> HIDE DEF wi, ci, wj, cj, j, log
  <2>9. wj >= wi + 2 * Window
    BY <2>2, <2>5, <2>6, <2>7, <2>8
  <2>10. log[j].at - log[i].stamp > Window
    BY <2>2, <2>5, <2>6, <2>9
  <2> QED BY <2>10 DEF j, log
<1>2. Inv => SlidingQuota
  BY <1>1 DEF SlidingQuota
<1> QED BY <1>2, InvHolds, PTL

\* The windows of a counter follow each other without overlap, each with its
\* admissions numbered up to at most the limit.
THEOREM WindowsNeverOverlap == Spec => []WindowsInOrder
<1>1. ASSUME Inv, NEW k \in Keys, NEW i \in 1 .. Len(admitted[k]),
             NEW j \in 1 .. Len(admitted[k]), i < j
      PROVE  LET a == admitted[k][i]
                 b == admitted[k][j]
             IN  \/ b.window = a.window /\ b.count = a.count + (j - i) /\ b.count <= Limit
                 \/ b.window >= a.window + Window
  <2> DEFINE log == admitted[k]
             wi == log[i].window  ci == log[i].count
             wj == log[j].window  cj == log[j].count
  <2>1. log \in Seq(Entry) /\ GoodLog(log)
    BY <1>1 DEF Inv, TypeOK, LogInv, Entry
  <2>2. log[i] \in Entry /\ log[j] \in Entry /\ i \in Nat /\ j \in Nat
    BY <2>1
  <2>3. wi \in Nat /\ ci \in Nat /\ wj \in Nat /\ cj \in Nat
    BY <2>2 DEF Entry
  <2>4. cj <= Limit /\ Apart(log[i], log[j], i, j)
    BY <1>1, <2>1 DEF GoodLog, EntryOK
  <2>5. \/ wj = wi /\ j - i = cj - ci
        \/ wj >= wi + Window
        \/ wj >= wi + 2 * Window
    BY <2>4 DEF Apart
  <2> HIDE DEF wi, ci, wj, cj, log
  <2>6. \/ wj = wi /\ cj = ci + (j - i)
        \/ wj >= wi + Window
    BY <2>2, <2>3, <2>5, LimitPositive
  <2> QED BY <2>4, <2>6 DEF wi, ci, wj, cj, log
<1>2. Inv => WindowsInOrder
  BY <1>1 DEF WindowsInOrder
<1> QED BY <1>2, InvHolds, PTL

\* A rejection is always paid for by limit admissions of the same principal and
\* address in the window that is still open for the rejected request.
THEOREM RejectionsAreEarned == Spec => RejectedOnlyWhenExhausted
<1>1. ASSUME Inv, [Next]_vars, NEW r \in Requests, pc[r] = "stamped", pc'[r] = "rejected"
      PROVE  LET log == admitted[KeyOf(caller[r])]
             IN  /\ Len(log) >= Limit
                 /\ stamp[r] < log[Len(log)].window + Window
                 /\ \A i \in Len(log) - Limit + 1 .. Len(log) :
                     log[i].window = log[Len(log)].window /\ log[i].by = caller[r]
  <2> DEFINE log == admitted[KeyOf(caller[r])]
  <2>1. Reject(r)
    BY <1>1 DEF Next, Tick, Arrive, Consume, Admit, Reject, vars, Inv, TypeOK
  <2>2. /\ log \in Seq(Entry) /\ GoodLog(log) /\ log # <<>>
        /\ log[Len(log)].count = Limit
        /\ stamp[r] < log[Len(log)].window + Window
        /\ \A i \in 1 .. Len(log) : KeyOf(log[i].by) = KeyOf(caller[r])
    BY <1>1, <2>1, RejectStep
  <2>3. caller[r] \in Callers
    BY <1>1 DEF Inv, RequestInv
  <2> HIDE DEF log
  <2>4. Len(log) \in Nat /\ Len(log) \in 1 .. Len(log) /\ Limit \in Nat /\ Limit > 0
    BY <2>2, LimitPositive
  <2>5. Len(log) >= Limit
    BY <2>2, <2>4 DEF GoodLog
  <2>6. ASSUME NEW i \in Len(log) - Limit + 1 .. Len(log)
        PROVE  log[i].window = log[Len(log)].window /\ log[i].by = caller[r]
    <3>1. i \in 1 .. Len(log) /\ i <= Len(log) /\ Len(log) - i < Limit
      BY <2>4, <2>5, <2>6
    <3>2. log[i].window = log[Len(log)].window
      BY <2>2, <2>4, <3>1 DEF GoodLog
    <3>3. log[i] \in Entry
      BY <2>2, <3>1
    <3>4. log[i].by \in Callers
      BY <3>3 DEF Entry
    <3> QED BY <2>2, <2>3, <3>1, <3>2, <3>4, KeysTellCallersApart
  <2> QED BY <2>2, <2>5, <2>6 DEF log
<1>2. Inv /\ [Next]_vars =>
        [\A r \in Requests : pc[r] = "stamped" /\ pc'[r] = "rejected" =>
            LET log == admitted[KeyOf(caller[r])]
            IN  /\ Len(log) >= Limit
                /\ stamp[r] < log[Len(log)].window + Window
                /\ \A i \in Len(log) - Limit + 1 .. Len(log) :
                    log[i].window = log[Len(log)].window /\ log[i].by = caller[r]]_vars
  BY <1>1
<1> QED BY <1>2, InvHolds, PTL DEF Spec, RejectedOnlyWhenExhausted

-----------------------------------------------------------------------------
(* Retry-After: rounded up to whole seconds. *)

\* Division rounds down.
LEMMA Quotient ==
    ASSUME NEW a \in Int, NEW n \in Nat \ {0}
    PROVE  /\ a \div n \in Int
           /\ (a \div n) * n <= a
           /\ a < (a \div n) * n + n
  OBVIOUS

LEMMA NoProductAboveZero ==
    ASSUME NEW q \in Int, NEW n \in Nat, q <= 0
    PROVE  q * n <= 0
  OBVIOUS

\* Rounded up, the seconds cover what is left, and less than one second more.
LEMMA RoundedUp ==
    ASSUME NEW left \in Nat \ {0}
    PROVE  LET seconds == (left + Second - 1) \div Second
           IN  /\ seconds \in Int /\ seconds >= 1
               /\ seconds * Second \in Int
               /\ left <= seconds * Second
               /\ seconds * Second < left + Second
<1> DEFINE a == left + Second - 1
           q == a \div Second
           x == q * Second
<1>1. Second \in Nat \ {0}
  BY Durations
<1>2. a \in Int
  BY <1>1
<1> HIDE DEF a
<1>3. q \in Int /\ q * Second <= a /\ a < q * Second + Second
  BY <1>1, <1>2, Quotient
<1>4. x \in Int /\ x <= a /\ a < x + Second
  <2> HIDE DEF q
  <2> QED BY <1>1, <1>3
<1>5. left <= x /\ x < left + Second
  <2> HIDE DEF x
  <2> QED BY <1>1, <1>4 DEF a
<1>6. q >= 1
  <2> SUFFICES ASSUME q <= 0 PROVE FALSE
    <3> HIDE DEF q
    <3> QED BY <1>3
  <2>1. q * Second <= 0
    <3> HIDE DEF q
    <3> QED BY <1>1, <1>3, NoProductAboveZero
  <2> HIDE DEF q
  <2> QED BY <2>1, <1>4, <1>5
<1> QED BY <1>3, <1>4, <1>5, <1>6 DEF a

\* Whoever is turned away is told when to come back: the window that turned him away is
\* over by then, whatever the limit, the window and the length of a second are, and the
\* rounding keeps nobody a whole second longer.
THEOREM RetryAfterIsHonest == Spec => RetryAfterSuffices
<1>1. ASSUME Inv, [Next]_vars, NEW r \in Requests, pc[r] = "stamped", pc'[r] = "rejected"
      PROVE  LET k == KeyOf(caller[r])
                 back == stamp[r] + answer'[r].retryAfter * Second
             IN  /\ back - counters'[k].windowStart >= Window
                 /\ back - counters'[k].windowStart < Window + Second
  <2> DEFINE k == KeyOf(caller[r])
             now == stamp[r]
             start == counters[k].windowStart
             left == start + Window - now
             seconds == (left + Second - 1) \div Second
             shift == seconds * Second
  <2>1. Reject(r)
    BY <1>1 DEF Next, Tick, Arrive, Consume, Admit, Reject, vars, Inv, TypeOK
  <2>2. k \in Keys /\ now \in Nat /\ counters[k] \in [windowStart : Nat, count : Nat] \cup {NoCounter}
    BY <1>1 DEF Inv, TypeOK, RequestInv, Keys
  <2>3. Limit \in Nat \ {0} /\ Window \in Nat \ {0} /\ Second \in Nat \ {0}
    BY LimitPositive, Durations
  \* A window that is new has nothing used up, so the one that turns away is open.
  <2>4. /\ counters[k] # NoCounter /\ ~(now - start >= Window)
        /\ Found(k, now) = counters[k]
    <3>1. Found(k, now).count >= Limit
      BY <2>1 DEF Reject
    <3>2. CASE counters[k] = NoCounter \/ now - start >= Window
      BY <2>3, <3>1, <3>2 DEF Found
    <3>3. CASE ~(counters[k] = NoCounter \/ now - start >= Window)
      BY <3>3 DEF Found
    <3> QED BY <3>2, <3>3
  <2>5. start \in Nat
    BY <2>2, <2>4
  <2>6. left \in Nat \ {0}
    <3> HIDE DEF now, start
    <3> QED BY <2>2, <2>3, <2>4, <2>5
  <2>7. seconds \in Int /\ seconds >= 1 /\ shift \in Int /\ left <= shift /\ shift < left + Second
    <3> HIDE DEF left
    <3> QED BY <2>6, RoundedUp
  <2>8. RetryAfter(counters[k], now) = seconds
    <3>1. ~(left < 0) /\ ~(seconds < 1)
      <4> HIDE DEF left, seconds
      <4> QED BY <2>6, <2>7
    <3> QED BY <3>1 DEF RetryAfter
  <2>9. answer'[r].retryAfter = seconds /\ counters'[k].windowStart = start
    <3>1. answer' = [answer EXCEPT ![r] = [remaining |-> 0, retryAfter |-> seconds]]
      <4> HIDE DEF seconds
      <4> QED BY <2>1, <2>4, <2>8 DEF Reject
    <3>2. counters' = [counters EXCEPT ![k] = counters[k]]
      BY <2>1, <2>4 DEF Reject
    <3>3. r \in DOMAIN answer /\ k \in DOMAIN counters
      BY <1>1, <2>2 DEF Inv, TypeOK
    <3> HIDE DEF seconds, k
    <3> QED BY <3>1, <3>2, <3>3 DEF start
  <2>10. (now + shift) - start >= Window /\ (now + shift) - start < Window + Second
    <3> HIDE DEF now, start, shift
    <3> QED BY <2>2, <2>3, <2>5, <2>7
  <2>11. LET back == stamp[r] + answer'[r].retryAfter * Second
         IN  back - counters'[k].windowStart = (now + shift) - start
    BY <2>9
  <2> HIDE DEF seconds, start, shift, left, now
  <2> QED BY <2>10, <2>11, Zenon
<1>2. Inv /\ [Next]_vars =>
        [\A r \in Requests : pc[r] = "stamped" /\ pc'[r] = "rejected" =>
            LET k == KeyOf(caller[r])
                back == stamp[r] + answer'[r].retryAfter * Second
            IN  /\ back - counters'[k].windowStart >= Window
                /\ back - counters'[k].windowStart < Window + Second]_vars
  BY <1>1
<1> QED BY <1>2, InvHolds, PTL DEF Spec, RetryAfterSuffices
=============================================================================

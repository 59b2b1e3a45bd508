----------------------------- MODULE AIAnalysisProofs -----------------------------
(***************************************************************************)
(* AIAnalysis for every limit, interval, TTL and clock: types, freshness,  *)
(* no redundant call, the metering of calls from above and from below, and *)
(* the size of the cache, which nothing but that metering bounds.          *)
(***************************************************************************)
EXTENDS AIAnalysis, SequenceTheorems, FunctionTheorems, FiniteSetTheorems, WellFoundedInduction, TLAPS

(***************************************************************************)
(* Arithmetic of the token bucket                                          *)
(***************************************************************************)
\* Integer division by a positive number rounds down.
LEMMA Division ==
    ASSUME NEW a \in Nat, NEW b \in Nat \ {0}
    PROVE  /\ a \div b \in Nat
           /\ (a \div b) * b <= a
           /\ a < (a \div b + 1) * b
BY SMT

\* A product of an integer with a sum.
LEMMA Distribute ==
    ASSUME NEW a \in Int, NEW b \in Int, NEW c \in Int
    PROVE  /\ a * (b + c) = a * b + a * c
           /\ (b + c) * a = b * a + c * a
           /\ a * b \in Int
BY SMT

\* Multiplication by a natural number keeps the order.
LEMMA Monotone ==
    ASSUME NEW a \in Nat, NEW b \in Int, NEW c \in Int, b <= c
    PROVE  /\ a * b <= a * c
           /\ b * a <= c * a
BY SMT

(***************************************************************************)
(* The token bucket                                                        *)
(***************************************************************************)
\* What one refill adds is paid for by the time that lastFill moves, and less than
\* one token of time is left uncounted.
LEMMA BucketFacts ==
    ASSUME now \in Nat, lastFill \in 0..now, tokens \in 0..PerMinute
    PROVE  /\ Refilled \in 0..PerMinute
           /\ FilledAt \in lastFill..now
           /\ (Refilled - tokens) * Interval <= PerMinute * (FilledAt - lastFill)
           /\ PerMinute * (now - FilledAt) < Interval
<1> DEFINE a == Accrued
<1>1. /\ PerMinute \in Nat \ {0} /\ Interval \in Nat \ {0}
      /\ now - lastFill \in Nat
    BY PerMinuteAssumption, IntervalAssumption
<1>2. PerMinute * (now - lastFill) \in Nat
    <2>1. \A x, y \in Nat : x * y \in Nat
        BY SMT
    <2> QED
        BY <2>1, <1>1
<1>3. /\ a \in Nat
      /\ a * Interval <= PerMinute * (now - lastFill)
      /\ PerMinute * (now - lastFill) < (a + 1) * Interval
    BY <1>1, <1>2, Division DEF Accrued
<1>4. Refilled \in 0..PerMinute /\ Refilled - tokens <= a /\ Refilled - tokens \in Int
    BY <1>1, <1>3 DEF Refilled
<1>5. CASE a = 0
    <2>1. FilledAt = lastFill /\ Refilled = tokens
        BY <1>5, <1>1 DEF FilledAt, Refilled
    <2>2. FilledAt - lastFill = 0 /\ Refilled - tokens = 0
        BY <2>1
    <2>3. 0 * Interval = 0 /\ PerMinute * 0 = 0 /\ (0 + 1) * Interval = Interval
        BY <1>1, SMT
    <2> QED
        BY <1>1, <1>3, <1>4, <1>5, <2>1, <2>2, <2>3
<1>6. CASE a # 0
    <2>1. FilledAt = now
        BY <1>6, <1>3 DEF FilledAt
    <2>2. (Refilled - tokens) * Interval <= a * Interval
        BY <1>1, <1>3, <1>4, Monotone
    <2>3. (Refilled - tokens) * Interval \in Int /\ a * Interval \in Int
        BY <1>1, <1>3, <1>4, Distribute
    <2>4. PerMinute * (now - FilledAt) = 0
        <3>1. now - FilledAt = 0
            BY <2>1
        <3> QED
            BY <3>1, <1>1, SMT
    <2> QED
        BY <1>1, <1>2, <1>3, <1>4, <2>1, <2>2, <2>3, <2>4
<1> QED
    BY <1>5, <1>6

\* From call i on, the calls made and the tokens left are paid for by a bucket
\* and by the time up to lastFill.
Metered(i) ==
    (tokens + Len(calls) - i) * Interval < PerMinute * (Interval + lastFill - calls[i])

\* Spending and refilling keep a call metered.
LEMMA MeteredOn ==
    ASSUME NEW k \in Int, NEW d \in Int, NEW L \in Int, NEW F \in Int, NEW c \in Int,
           k * Interval < PerMinute * (Interval + L - c),
           d * Interval <= PerMinute * (F - L)
    PROVE  (k + d) * Interval < PerMinute * (Interval + F - c)
<1>1. PerMinute \in Int /\ Interval \in Int
    BY PerMinuteAssumption, IntervalAssumption
<1>2. /\ k * Interval \in Int /\ d * Interval \in Int
      /\ (k + d) * Interval = k * Interval + d * Interval
    BY <1>1, Distribute
<1>3. /\ PerMinute * (Interval + L - c) \in Int /\ PerMinute * (F - L) \in Int
      /\ PerMinute * ((Interval + L - c) + (F - L))
            = PerMinute * (Interval + L - c) + PerMinute * (F - L)
    BY <1>1, Distribute
<1>4. (Interval + L - c) + (F - L) = Interval + F - c
    BY <1>1
<1>5. PerMinute * (Interval + F - c) = PerMinute * (Interval + L - c) + PerMinute * (F - L)
    BY <1>3, <1>4
<1> QED
    BY <1>2, <1>3, <1>5

\* Fewer calls in more time are metered as well.
LEMMA Weaken ==
    ASSUME NEW k \in Int, NEW m \in Int, k <= m, NEW x \in Int, NEW y \in Int, x <= y,
           m * Interval < PerMinute * x
    PROVE  k * Interval < PerMinute * y
<1>1. PerMinute \in Nat /\ Interval \in Nat
    BY PerMinuteAssumption, IntervalAssumption
<1>2. k * Interval <= m * Interval /\ PerMinute * x <= PerMinute * y
    BY <1>1, Monotone
<1>3. /\ k * Interval \in Int /\ m * Interval \in Int
      /\ PerMinute * x \in Int /\ PerMinute * y \in Int
    BY <1>1, Distribute
<1> QED
    BY <1>2, <1>3

\* A call that has just been granted is metered.
LEMMA MeteredNew ==
    ASSUME NEW T \in 0..PerMinute, NEW F \in Int, NEW c \in Int,
           PerMinute * (c - F) < Interval
    PROVE  (T - 1) * Interval < PerMinute * (Interval + F - c)
<1>1. PerMinute \in Nat /\ Interval \in Nat
    BY PerMinuteAssumption, IntervalAssumption
<1>2. /\ T * Interval <= PerMinute * Interval
      /\ T * Interval \in Int /\ PerMinute * Interval \in Int
    BY <1>1, Monotone, Distribute
<1>3. (T - 1) * Interval = T * Interval - Interval
    BY <1>1, SMT
<1>4. /\ PerMinute * (Interval + (F - c)) = PerMinute * Interval + PerMinute * (F - c)
      /\ PerMinute * (F - c) \in Int
    BY <1>1, Distribute
<1>5. PerMinute * (F - c) + PerMinute * (c - F) = 0 /\ PerMinute * (c - F) \in Int
    <2>1. PerMinute * ((F - c) + (c - F)) = PerMinute * (F - c) + PerMinute * (c - F)
        BY <1>1, Distribute
    <2>2. (F - c) + (c - F) = 0
        OBVIOUS
    <2>3. PerMinute * 0 = 0
        BY <1>1, SMT
    <2>4. PerMinute * (c - F) \in Int
        BY <1>1, Distribute
    <2> QED
        BY <2>1, <2>2, <2>3, <2>4
<1>6. Interval + F - c = Interval + (F - c)
    BY <1>1
<1> QED
    BY <1>1, <1>2, <1>3, <1>4, <1>5, <1>6

(***************************************************************************)
(* The cache                                                               *)
(***************************************************************************)
\* Set stores the new entry, changes no other, and drops only what has expired.
LEMMA SetFacts ==
    ASSUME NEW f, NEW n, now \in Nat
    PROVE  LET m == Set(f, n) IN
           /\ f \in DOMAIN m /\ m[f] = [response |-> n, expiresAt |-> now + TTL]
           /\ \A k \in DOMAIN m : k # f => k \in DOMAIN entries /\ m[k] = entries[k]
           /\ \A k \in DOMAIN entries : k # f /\ ~Expired(entries[k]) => k \in DOMAIN m
<1> DEFINE p == Put(f, n)
           e == [response |-> n, expiresAt |-> now + TTL]
<1>1. /\ DOMAIN p = DOMAIN entries \cup {f}
      /\ p[f] = e
      /\ \A k \in DOMAIN entries : k # f => p[k] = entries[k]
    BY DEF Put
<1>2. ~Expired(e)
    BY TTLAssumption DEF Expired
<1>3. /\ DOMAIN Evict(p) = {k \in DOMAIN p : ~Expired(p[k])}
      /\ \A k \in DOMAIN Evict(p) : Evict(p)[k] = p[k]
    BY DEF Evict
<1>4. Set(f, n) = p \/ Set(f, n) = Evict(p)
    BY DEF Set
<1> HIDE DEF p, e
<1>5. CASE Set(f, n) = p
    BY <1>1, <1>5 DEF e
<1>6. CASE Set(f, n) = Evict(p)
    <2>1. f \in DOMAIN Evict(p) /\ Evict(p)[f] = e
        BY <1>1, <1>2, <1>3
    <2>2. \A k \in DOMAIN Evict(p) : k # f => k \in DOMAIN entries /\ Evict(p)[k] = entries[k]
        BY <1>1, <1>3
    <2>3. \A k \in DOMAIN entries : k # f /\ ~Expired(entries[k]) => k \in DOMAIN Evict(p)
        BY <1>1, <1>3
    <2> QED
        BY <1>6, <2>1, <2>2, <2>3 DEF e
<1> QED
    BY <1>4, <1>5, <1>6

\* An entry holds an answer to its own fingerprint, and expires a TTL after it.
Cached ==
    \A f \in DOMAIN entries : LET a == answers[entries[f].response] IN
        a.fp = f /\ entries[f].expiresAt = a.at + TTL

\* An answer younger than the TTL is in the cache, or a newer one is.
Remembered ==
    \A n \in DOMAIN answers : answers[n].at + TTL >= now =>
        /\ answers[n].fp \in DOMAIN entries
        /\ entries[answers[n].fp].expiresAt >= answers[n].at + TTL

\* While the analyzer asks, all it has been told about these findings had expired
\* when it looked.
Missed ==
    phase # "idle" =>
        \A n \in DOMAIN answers :
            answers[n].fp = query.fp => answers[n].at + TTL < query.asked

(***************************************************************************)
(* What the limiter grants at least                                        *)
(***************************************************************************)
\* The calls made since s.
Spent(s) == {i \in DOMAIN calls : calls[i] >= s}

\* Since s, the calls made and the tokens left come to at least half of what the
\* time up to lastFill is worth, or to a whole bucket.
Budgeted(s) ==
    LET c == Cardinality(Spent(s)) + tokens
    IN  c >= PerMinute \/ (s > 0 /\ 2 * (c * Interval) >= PerMinute * (lastFill - s))

\* What Analyze has returned is forgotten when the next analysis begins.
QuietWhileBusy == phase # "idle" => returned = None

(***************************************************************************)
(* What bounds the cache                                                   *)
(***************************************************************************)
\* Every answer had a call of its own, made after the answer before it.
OneCallEach ==
    /\ phase = "waiting" =>
          calls # <<>> /\ \A n \in DOMAIN answers : answers[n].at <= calls[Len(calls)]
    /\ \A i, j \in DOMAIN answers : i < j =>
          \E a, b \in DOMAIN calls :
             /\ a <= b /\ b - a >= j - i - 1
             /\ answers[i].at <= calls[a] /\ calls[b] <= answers[j].at
             /\ phase = "waiting" => b < Len(calls)

\* A cache above its limit holds nothing that had expired at the last answer.
Evicted ==
    Cardinality(DOMAIN entries) > CacheLimit =>
        \A f \in DOMAIN entries :
            answers[Len(answers)].at <= answers[entries[f].response].at + TTL

IInv ==
    /\ TypeOK
    /\ Cached /\ Remembered /\ Missed
    /\ \A i \in DOMAIN calls : Metered(i)
    /\ CallsAreMetered
    /\ AnalysisIsFresh
    /\ \A s \in Int : Budgeted(s)
    /\ QuietWhileBusy /\ HalfTheBudgetIsUsable
    /\ OneCallEach /\ Evicted

(***************************************************************************)
(* Types                                                                   *)
(***************************************************************************)
\* A sequence over a set is one over a larger set.
LEMMA SeqSubset ==
    ASSUME NEW S, NEW T, S \subseteq T, NEW s \in Seq(S)
    PROVE  s \in Seq(T)
OBVIOUS

\* When an answer was received.
LEMMA AnswerAt ==
    ASSUME NEW s \in Seq([fp : Fingerprints, at : 0..now]), NEW i \in DOMAIN s, now \in Nat
    PROVE  s[i].at \in 0..now /\ s[i].at \in Nat
<1>1. i \in 1..Len(s)
    BY LenProperties
<1>2. s[i] \in [fp : Fingerprints, at : 0..now]
    BY <1>1, ElementOfSeq
<1> QED
    BY <1>2

\* Every initial state satisfies the invariant.
LEMMA InitInv == Init => IInv
<1> SUFFICES ASSUME Init PROVE IInv
    OBVIOUS
<1>1. DOMAIN entries = {} /\ DOMAIN calls = {} /\ DOMAIN answers = {}
    BY DEF Init
<1>2. TypeOK
    <2>1. PerMinute \in 0..PerMinute
        BY PerMinuteAssumption
    <2> QED
        BY <1>1, <2>1 DEF Init, TypeOK
<1>3. ASSUME NEW s \in Int PROVE Budgeted(s)
    <2>1. Spent(s) = {}
        BY <1>1 DEF Spent
    <2>2. Cardinality(Spent(s)) + tokens >= PerMinute
        BY <2>1, FS_EmptySet, PerMinuteAssumption DEF Init
    <2> QED
        BY <2>2 DEF Budgeted
<1>4. Evicted
    BY <1>1 DEF Evicted
<1>5. OneCallEach
    BY <1>1 DEF Init, OneCallEach
<1>6. QuietWhileBusy /\ HalfTheBudgetIsUsable
    BY DEF Init, QuietWhileBusy, HalfTheBudgetIsUsable
<1> QED
    BY <1>1, <1>2, <1>3, <1>4, <1>5, <1>6
    DEF Init, IInv, Cached, Remembered, Missed, CallsAreMetered, AnalysisIsFresh

\* Every step keeps the types.
LEMMA TypeStep == TypeOK /\ [Next]_vars => TypeOK'
<1> SUFFICES ASSUME TypeOK, [Next]_vars PROVE TypeOK'
    OBVIOUS
<1> USE DEF TypeOK
<1>1. CASE Tick
    <2>1. now \in Nat /\ now' = now + 1 /\ 0..now \subseteq 0..now'
        BY <1>1 DEF Tick
    <2>2. query' \in IF phase' = "idle" THEN {None} ELSE [fp : Fingerprints, asked : 0..now']
        BY <1>1, <2>1 DEF Tick
    <2>3. calls' = calls /\ answers' = answers
        BY <1>1 DEF Tick, limiter, cache
    <2>4. calls' \in Seq(0..now')
        BY <2>1, <2>3, SeqSubset
    <2>5. answers' \in Seq([fp : Fingerprints, at : 0..now'])
        <3>1. [fp : Fingerprints, at : 0..now] \subseteq [fp : Fingerprints, at : 0..now']
            BY <2>1
        <3> QED
            BY <3>1, <2>3, SeqSubset
    <2> QED
        BY <1>1, <2>1, <2>2, <2>4, <2>5 DEF Tick, limiter, cache
<1>2. ASSUME NEW f \in Fingerprints, CacheHit(f) PROVE TypeOK'
    <2>1. f \in DOMAIN entries
        BY <1>2 DEF CacheHit, Hit
    <2>2. returned' \in Results'
        BY <1>2, <2>1 DEF CacheHit, ReturnAnalysis, Results, cache
    <2> QED
        BY <1>2, <2>2 DEF CacheHit, limiter, cache, Results
<1>3. ASSUME NEW f \in Fingerprints, CacheMiss(f) PROVE TypeOK'
    BY <1>3 DEF CacheMiss, limiter, cache, Results
<1>4. CASE Call
    <2>1. Refilled \in 0..PerMinute /\ Refilled > 0 /\ FilledAt \in lastFill..now
        BY <1>4, BucketFacts DEF Call
    <2>2. tokens' \in 0..PerMinute /\ lastFill' \in 0..now
        BY <1>4, <2>1, PerMinuteAssumption DEF Call
    <2>3. calls' \in Seq(0..now)
        BY <1>4 DEF Call
    <2> QED
        BY <1>4, <2>2, <2>3 DEF Call, cache, Results
<1>5. CASE Refuse
    <2>1. Refilled \in 0..PerMinute /\ FilledAt \in lastFill..now
        BY <1>5, BucketFacts DEF Refuse
    <2>2. tokens' \in 0..PerMinute /\ lastFill' \in 0..now
        BY <1>5, <2>1, PerMinuteAssumption DEF Refuse
    <2>3. returned' \in Results'
        BY <1>5 DEF Refuse, ReturnError, Results, cache
    <2> QED
        BY <1>5, <2>2, <2>3 DEF Refuse, Return, cache, Results
<1>6. CASE Answer
    <2>1. query.fp \in Fingerprints
        BY <1>6 DEF Answer
    <2>2. /\ answers' \in Seq([fp : Fingerprints, at : 0..now])
          /\ Len(answers') = Len(answers) + 1 /\ Len(answers) \in Nat
        BY <1>6, <2>1 DEF Answer
    <2>3. /\ DOMAIN entries' \subseteq Fingerprints
          /\ \A f \in DOMAIN entries' :
                entries'[f] \in [response : 1..Len(answers'), expiresAt : Nat]
        <3>1. entries' = Set(query.fp, Len(answers'))
            BY <1>6 DEF Answer
        <3>2. /\ entries'[query.fp] = [response |-> Len(answers'), expiresAt |-> now + TTL]
              /\ \A k \in DOMAIN entries' :
                    k # query.fp => k \in DOMAIN entries /\ entries'[k] = entries[k]
            BY <3>1, SetFacts
        <3>3. now + TTL \in Nat /\ Len(answers') \in 1..Len(answers')
            BY <2>2, TTLAssumption
        <3>4. \A k \in DOMAIN entries :
                 entries[k] \in [response : 1..Len(answers'), expiresAt : Nat]
            BY <2>2
        <3> QED
            BY <2>1, <3>2, <3>3, <3>4
    <2>4. returned' \in Results'
        BY <1>6, <2>1, <2>2 DEF Answer, ReturnAnalysis, Results
    <2> QED
        BY <1>6, <2>2, <2>3, <2>4 DEF Answer, Return, limiter
<1>7. CASE Fail
    <2>1. returned' \in Results'
        BY <1>7 DEF Fail, ReturnError, Results, cache
    <2> QED
        BY <1>7, <2>1 DEF Fail, Return, limiter, cache, Results
<1>8. CASE UNCHANGED vars
    BY <1>8 DEF vars, Results
<1> QED
    BY <1>1, <1>2, <1>3, <1>4, <1>5, <1>6, <1>7, <1>8 DEF Next

(***************************************************************************)
(* The cache and the history of answers                                    *)
(***************************************************************************)
\* Every step keeps what relates the cache to the answers it was filled from.
LEMMA CacheStep ==
    ASSUME TypeOK, TypeOK', Cached, Remembered, Missed, [Next]_vars
    PROVE  Cached' /\ Remembered' /\ Missed'
<1> USE DEF TypeOK
<1>1. CASE UNCHANGED cache /\ now \in Nat /\ now' \in Nat /\ now' >= now
    <2>1. entries' = entries /\ answers' = answers
        BY <1>1 DEF cache
    <2>2. Cached'
        BY <2>1 DEF Cached
    <2>3. Remembered'
        <3> SUFFICES ASSUME NEW n \in DOMAIN answers, answers[n].at + TTL >= now'
                     PROVE  /\ answers[n].fp \in DOMAIN entries
                            /\ entries[answers[n].fp].expiresAt >= answers[n].at + TTL
            BY <2>1 DEF Remembered
        <3>1. answers[n].at \in Nat
            BY AnswerAt
        <3>2. answers[n].at + TTL >= now
            BY <1>1, <3>1, TTLAssumption
        <3> QED
            BY <3>2 DEF Remembered
    <2>4. CASE phase' = "idle"
        BY <2>2, <2>3, <2>4 DEF Missed
    <2>5. CASE phase # "idle" /\ query' = query
        BY <2>1, <2>2, <2>3, <2>5 DEF Missed
    <2>6. CASE \E f \in Fingerprints : CacheMiss(f)
        <3>1. PICK f \in Fingerprints : CacheMiss(f)
            BY <2>6
        <3>2. query' = [fp |-> f, asked |-> now] /\ ~Hit(f)
            BY <3>1 DEF CacheMiss
        <3>3. ASSUME NEW n \in DOMAIN answers, answers[n].fp = f
              PROVE  answers[n].at + TTL < now
            <4>1. answers[n].at \in Nat
                BY <3>3, AnswerAt
            <4>2. SUFFICES ASSUME answers[n].at + TTL >= now PROVE FALSE
                BY <4>1, TTLAssumption
            <4>3. f \in DOMAIN entries /\ entries[f].expiresAt >= answers[n].at + TTL
                BY <3>3, <4>2 DEF Remembered
            <4>4. entries[f].expiresAt \in Nat /\ now \in Nat
                <5>1. entries[f] \in [response : 1..Len(answers), expiresAt : Nat]
                    BY <4>3
                <5> QED
                    BY <5>1
            <4> HIDE DEF TypeOK
            <4>5. ~(now > entries[f].expiresAt)
                BY <4>1, <4>2, <4>3, <4>4, TTLAssumption
            <4> QED
                BY <3>2, <4>3, <4>5 DEF Hit, Expired
        <3> QED
            BY <2>1, <2>2, <2>3, <3>2, <3>3 DEF Missed
    <2>7. phase' = "idle" \/ (phase # "idle" /\ query' = query) \/ \E f \in Fingerprints : CacheMiss(f)
        <3>1. CASE Answer
            BY <3>1 DEF Answer, Return
        <3>2. CASE Tick \/ Call \/ Refuse \/ Fail \/ UNCHANGED vars
            BY <3>2 DEF Tick, Call, Refuse, Fail, Return, vars
        <3>3. ASSUME NEW f \in Fingerprints, CacheHit(f) PROVE phase' = "idle"
            BY <3>3 DEF CacheHit
        <3> QED
            BY <3>1, <3>2, <3>3 DEF Next
    <2> QED
        BY <2>4, <2>5, <2>6, <2>7
<1>2. CASE Answer
    <2> DEFINE f == query.fp
               N == Len(answers) + 1
    <2>1. /\ answers' = Append(answers, [fp |-> f, at |-> now])
          /\ now' = now /\ phase' = "idle"
        BY <1>2 DEF Answer, Return
    <2>2. Len(answers') = N /\ Len(answers) \in Nat /\ f \in Fingerprints
        BY <1>2, <2>1 DEF Answer
    <2>3. /\ DOMAIN answers' = DOMAIN answers \cup {N}
          /\ answers'[N] = [fp |-> f, at |-> now]
          /\ \A n \in DOMAIN answers : answers'[n] = answers[n]
        BY <2>1, <2>2
    <2>4. entries' = Set(f, N)
        BY <1>2, <2>2 DEF Answer
    <2> HIDE DEF f, N
    <2>5. /\ f \in DOMAIN entries'
          /\ entries'[f] = [response |-> N, expiresAt |-> now + TTL]
          /\ \A k \in DOMAIN entries' : k # f => k \in DOMAIN entries /\ entries'[k] = entries[k]
          /\ \A k \in DOMAIN entries : k # f /\ ~Expired(entries[k]) => k \in DOMAIN entries'
        BY <2>4, SetFacts
    <2>6. Cached'
        <3> SUFFICES ASSUME NEW k \in DOMAIN entries'
                     PROVE  /\ answers'[entries'[k].response].fp = k
                            /\ entries'[k].expiresAt = answers'[entries'[k].response].at + TTL
            BY DEF Cached
        <3>1. CASE k = f
            BY <2>3, <2>5, <3>1
        <3>2. CASE k # f
            <4>1. k \in DOMAIN entries /\ entries'[k] = entries[k]
                BY <2>5, <3>2
            <4>2. entries[k].response \in DOMAIN answers
                BY <4>1
            <4> QED
                BY <2>3, <4>1, <4>2 DEF Cached
        <3> QED
            BY <3>1, <3>2
    <2>7. Remembered'
        <3> SUFFICES ASSUME NEW n \in DOMAIN answers', answers'[n].at + TTL >= now
                     PROVE  /\ answers'[n].fp \in DOMAIN entries'
                            /\ entries'[answers'[n].fp].expiresAt >= answers'[n].at + TTL
            BY <2>1 DEF Remembered
        <3>1. answers'[n].at \in 0..now
            <4>1. answers' \in Seq([fp : Fingerprints, at : 0..now]) /\ n \in DOMAIN answers'
                BY <2>1
            <4> QED
                BY <4>1, AnswerAt
        <3>2. CASE answers'[n].fp = f
            <4>1. entries'[f].expiresAt = now + TTL
                BY <2>5
            <4> QED
                BY <2>5, <3>1, <3>2, <4>1, TTLAssumption
        <3>3. CASE answers'[n].fp # f
            <4>1. n \in DOMAIN answers /\ answers'[n] = answers[n]
                BY <2>3, <3>3
            <4> DEFINE k == answers[n].fp
            <4>2. k \in DOMAIN entries /\ entries[k].expiresAt >= answers[n].at + TTL
                BY <4>1 DEF Remembered
            <4>3. entries[k].expiresAt \in Nat
                <5>1. entries[k] \in [response : 1..Len(answers), expiresAt : Nat]
                    BY <4>2
                <5> QED
                    BY <5>1
            <4>4. ~Expired(entries[k])
                <5>1. answers[n].at \in Nat /\ answers[n].at + TTL >= now /\ now \in Nat
                    BY <3>1, <4>1
                <5> HIDE DEF k, TypeOK
                <5>2. ~(now > entries[k].expiresAt)
                    BY <4>2, <4>3, <5>1, TTLAssumption
                <5> QED
                    BY <5>2 DEF Expired
            <4>5. k \in DOMAIN entries' /\ entries'[k] = entries[k]
                BY <2>5, <3>3, <4>1, <4>2, <4>4
            <4> QED
                BY <4>1, <4>2, <4>5
        <3> QED
            BY <3>2, <3>3
    <2> QED
        BY <2>1, <2>6, <2>7 DEF Missed
<1>3. Answer \/ (UNCHANGED cache /\ now \in Nat /\ now' \in Nat /\ now' >= now)
    <2>1. CASE Tick
        BY <2>1 DEF Tick
    <2>2. CASE Call \/ Refuse \/ Fail
        BY <2>2 DEF Call, Refuse, Fail
    <2>3. ASSUME NEW f \in Fingerprints, CacheHit(f) \/ CacheMiss(f)
          PROVE  UNCHANGED cache /\ now' = now
        BY <2>3 DEF CacheHit, CacheMiss
    <2>4. CASE UNCHANGED vars
        BY <2>4 DEF vars, cache
    <2> QED
        BY <2>1, <2>2, <2>3, <2>4 DEF Next
<1> QED
    BY <1>1, <1>2, <1>3

\* Every step returns a fresh analysis or none.
LEMMA FreshStep ==
    ASSUME TypeOK, Cached, AnalysisIsFresh, [Next]_vars
    PROVE  AnalysisIsFresh'
<1> USE DEF TypeOK
<1>1. CASE Tick
    BY <1>1 DEF Tick, AnalysisIsFresh
<1>2. ASSUME NEW f \in Fingerprints, CacheHit(f) PROVE AnalysisIsFresh'
    <2> DEFINE n == entries[f].response
    <2>1. f \in DOMAIN entries /\ ~Expired(entries[f])
        BY <1>2 DEF CacheHit, Hit
    <2>2. /\ returned' = [fp |-> f, kind |-> "analysis", response |-> n]
          /\ now' = now /\ answers' = answers
        BY <1>2 DEF CacheHit, ReturnAnalysis, cache
    <2>3. answers[n].fp = f /\ entries[f].expiresAt = answers[n].at + TTL
        BY <2>1 DEF Cached
    <2>4. answers[n].at + TTL >= now
        BY <2>1, <2>3 DEF Expired
    <2> QED
        BY <2>2, <2>3, <2>4 DEF AnalysisIsFresh
<1>3. ASSUME NEW f \in Fingerprints, CacheMiss(f) PROVE AnalysisIsFresh'
    BY <1>3 DEF CacheMiss, AnalysisIsFresh
<1>4. CASE Call
    BY <1>4 DEF Call, cache, AnalysisIsFresh
<1>5. CASE Refuse \/ Fail
    BY <1>5 DEF Refuse, Fail, ReturnError, AnalysisIsFresh
<1>6. CASE Answer
    <2> DEFINE N == Len(answers')
    <2>1. /\ returned' = [fp |-> query.fp, kind |-> "analysis", response |-> N]
          /\ answers' = Append(answers, [fp |-> query.fp, at |-> now]) /\ now' = now
        BY <1>6 DEF Answer, ReturnAnalysis
    <2>2. answers'[N] = [fp |-> query.fp, at |-> now]
        BY <2>1
    <2>3. now + TTL >= now
        BY TTLAssumption
    <2> QED
        BY <2>1, <2>2, <2>3 DEF AnalysisIsFresh
<1>7. CASE UNCHANGED vars
    BY <1>7 DEF vars, AnalysisIsFresh
<1> QED
    BY <1>1, <1>2, <1>3, <1>4, <1>5, <1>6, <1>7 DEF Next

(***************************************************************************)
(* The calls                                                               *)
(***************************************************************************)
\* Every step keeps all calls metered.
LEMMA MeteredStep ==
    ASSUME TypeOK, \A i \in DOMAIN calls : Metered(i), CallsAreMetered, [Next]_vars
    PROVE  (\A i \in DOMAIN calls : Metered(i))' /\ CallsAreMetered'
<1> USE DEF TypeOK
<1> DEFINE n == Len(calls)
<1>0. /\ n \in Nat /\ DOMAIN calls = 1..n
      /\ tokens \in Int /\ lastFill \in Int
      /\ \A i \in 1..n : calls[i] \in 0..now
      /\ PerMinute \in Nat \ {0} /\ Interval \in Nat \ {0}
    BY PerMinuteAssumption, IntervalAssumption
<1>1. CASE UNCHANGED limiter
    BY <1>1 DEF limiter, Metered, CallsAreMetered
<1>2. ASSUME Call \/ Refuse, NEW i \in 1..n
      PROVE  (Refilled + n - i) * Interval < PerMinute * (Interval + FilledAt - calls[i])
    <2>1. /\ Refilled \in Int /\ FilledAt \in Int
          /\ (Refilled - tokens) * Interval <= PerMinute * (FilledAt - lastFill)
        BY <1>0, BucketFacts
    <2>2. (tokens + n - i) * Interval < PerMinute * (Interval + lastFill - calls[i])
        BY <1>0 DEF Metered
    <2>3. calls[i] \in Int /\ tokens + n - i \in Int /\ Refilled - tokens \in Int
        BY <1>0, <2>1
    <2>4. ((tokens + n - i) + (Refilled - tokens)) * Interval
             < PerMinute * (Interval + FilledAt - calls[i])
        BY <1>0, <2>1, <2>2, <2>3, MeteredOn
    <2>5. (tokens + n - i) + (Refilled - tokens) = Refilled + n - i
        BY <1>0, <2>1
    <2> QED
        BY <2>4, <2>5
<1>3. CASE Refuse
    <2>1. tokens' = Refilled /\ lastFill' = FilledAt /\ calls' = calls
        BY <1>3 DEF Refuse
    <2>2. \A i \in 1..n : (tokens' + n - i) * Interval
                             < PerMinute * (Interval + lastFill' - calls[i])
        BY <1>2, <1>3, <2>1
    <2>3. (\A i \in DOMAIN calls : Metered(i))'
        BY <1>0, <2>1, <2>2 DEF Metered
    <2> QED
        BY <2>1, <2>3 DEF CallsAreMetered
<1>4. CASE Call
    <2>1. /\ tokens' = Refilled - 1 /\ lastFill' = FilledAt /\ Refilled > 0
          /\ calls' = Append(calls, now)
        BY <1>4 DEF Call
    <2>2. /\ Refilled \in 1..PerMinute /\ FilledAt \in Int /\ FilledAt <= now /\ now \in Nat
          /\ PerMinute * (now - FilledAt) < Interval
        BY <1>0, <2>1, BucketFacts
    <2>3. /\ Len(calls') = n + 1 /\ DOMAIN calls' = 1..(n + 1)
          /\ calls'[n + 1] = now
          /\ \A i \in 1..n : calls'[i] = calls[i]
        BY <1>0, <2>1
    <2>4. ASSUME NEW i \in 1..n
          PROVE  /\ (tokens' + Len(calls') - i) * Interval
                       < PerMinute * (Interval + lastFill' - calls'[i])
                 /\ (n + 1 - i) * Interval < PerMinute * (Interval + calls'[n + 1] - calls'[i])
        <3>1. (Refilled + n - i) * Interval < PerMinute * (Interval + FilledAt - calls[i])
            BY <1>2, <1>4
        <3>2. tokens' + Len(calls') - i = Refilled + n - i
            BY <1>0, <2>1, <2>2, <2>3
        <3>3. /\ n + 1 - i \in Int /\ Refilled + n - i \in Int
              /\ n + 1 - i <= Refilled + n - i
            BY <1>0, <2>2
        <3>5. /\ Interval + FilledAt - calls[i] \in Int /\ Interval + now - calls[i] \in Int
              /\ Interval + FilledAt - calls[i] <= Interval + now - calls[i]
            BY <1>0, <2>2
        <3>8. (n + 1 - i) * Interval < PerMinute * (Interval + now - calls[i])
            BY <3>1, <3>3, <3>5, Weaken
        <3> QED
            BY <2>1, <2>3, <3>1, <3>2, <3>8
    <2>5. (tokens' + Len(calls') - (n + 1)) * Interval
             < PerMinute * (Interval + lastFill' - calls'[n + 1])
        <3>1. (Refilled - 1) * Interval < PerMinute * (Interval + FilledAt - now)
            <4>1. Refilled \in 0..PerMinute /\ now \in Int
                BY <2>2
            <4> QED
                BY <2>2, <4>1, MeteredNew
        <3>2. tokens' + Len(calls') - (n + 1) = Refilled - 1
            BY <1>0, <2>1, <2>2, <2>3
        <3> QED
            BY <2>1, <2>3, <3>1, <3>2
    <2>6. ((n + 1) - (n + 1)) * Interval
             < PerMinute * (Interval + calls'[n + 1] - calls'[n + 1])
        <3>1. (n + 1) - (n + 1) = 0 /\ Interval + now - now = Interval
            BY <1>0, <2>2
        <3>2. 0 * Interval < PerMinute * Interval
            BY <1>0, SMT
        <3> QED
            BY <2>3, <3>1, <3>2
    <2>7. (\A i \in DOMAIN calls : Metered(i))'
        <3> SUFFICES ASSUME NEW i \in 1..(n + 1)
                     PROVE  (tokens' + Len(calls') - i) * Interval
                               < PerMinute * (Interval + lastFill' - calls'[i])
            BY <2>3 DEF Metered
        <3>1. i \in 1..n \/ i = n + 1
            BY <1>0
        <3> QED
            BY <2>4, <2>5, <3>1
    <2>8. CallsAreMetered'
        <3> SUFFICES ASSUME NEW j \in 1..(n + 1), NEW i \in 1..j
                     PROVE  (j - i) * Interval
                               < PerMinute * (Interval + calls'[j] - calls'[i])
            BY <2>3 DEF CallsAreMetered
        <3>1. CASE j \in 1..n
            <4>1. i \in 1..n
                BY <1>0, <3>1
            <4>2. (j - i) * Interval < PerMinute * (Interval + calls[j] - calls[i])
                BY <1>0, <3>1 DEF CallsAreMetered
            <4> QED
                BY <2>3, <3>1, <4>1, <4>2
        <3>2. CASE j = n + 1 /\ i \in 1..n
            BY <2>4, <3>2
        <3>3. CASE j = n + 1 /\ i = n + 1
            BY <2>6, <3>3
        <3>4. j \in 1..n \/ (j = n + 1 /\ i \in 1..n) \/ (j = n + 1 /\ i = n + 1)
            BY <1>0
        <3> QED
            BY <3>1, <3>2, <3>3, <3>4
    <2> QED
        BY <2>7, <2>8
<1>5. Call \/ Refuse \/ UNCHANGED limiter
    <2>1. CASE Tick \/ Answer \/ Fail
        BY <2>1 DEF Tick, Answer, Fail
    <2>2. ASSUME NEW f \in Fingerprints, CacheHit(f) \/ CacheMiss(f)
          PROVE  UNCHANGED limiter
        BY <2>2 DEF CacheHit, CacheMiss
    <2>3. CASE UNCHANGED vars
        BY <2>3 DEF vars, limiter
    <2> QED
        BY <2>1, <2>2, <2>3 DEF Next
<1> QED
    BY <1>1, <1>3, <1>4, <1>5

(***************************************************************************)
(* Half the budget                                                         *)
(***************************************************************************)
\* A call made now is one of those since s, unless s is still to come.
LEMMA SpentAppend ==
    ASSUME TypeOK, calls' = Append(calls, now), NEW s \in Int, s <= now
    PROVE  /\ Cardinality(Spent(s)) \in Nat
           /\ Cardinality(Spent(s)') = Cardinality(Spent(s)) + 1
<1> DEFINE n == Len(calls)
<1>1. n \in Nat /\ DOMAIN calls = 1..n /\ now \in Nat /\ calls \in Seq(0..now)
    BY DEF TypeOK
<1>2. /\ DOMAIN calls' = 1..(n + 1) /\ calls'[n + 1] = now
      /\ \A i \in 1..n : calls'[i] = calls[i]
    BY <1>1
<1>3. Spent(s)' = Spent(s) \cup {n + 1} /\ n + 1 \notin Spent(s)
    BY <1>1, <1>2 DEF Spent
<1>4. IsFiniteSet(Spent(s))
    <2>1. IsFiniteSet(1..n)
        BY <1>1, FS_Interval
    <2>2. Spent(s) \in SUBSET (1..n)
        BY <1>1 DEF Spent
    <2> QED
        BY <2>1, <2>2, FS_Subset
<1> QED
    BY <1>3, <1>4, FS_AddElement, FS_CardinalityType

\* The number of calls since any moment.
LEMMA SpentType ==
    ASSUME TypeOK, NEW s \in Int
    PROVE  Cardinality(Spent(s)) \in Nat
<1>1. Len(calls) \in Nat /\ DOMAIN calls = 1..Len(calls)
    BY DEF TypeOK
<1>2. IsFiniteSet(1..Len(calls)) /\ Spent(s) \in SUBSET (1..Len(calls))
    BY <1>1, FS_Interval DEF Spent
<1> QED
    BY <1>2, FS_Subset, FS_CardinalityType

\* Counting whole tokens only, a refill is worth at least half of its time.
LEMMA RefillIsHalf ==
    ASSUME now \in Nat, lastFill \in 0..now, tokens \in 0..PerMinute
    PROVE  \/ Refilled = PerMinute
           \/ /\ Refilled - tokens \in Nat
              /\ 2 * ((Refilled - tokens) * Interval) >= PerMinute * (FilledAt - lastFill)
<1> DEFINE a == Accrued
<1>1. /\ PerMinute \in Nat \ {0} /\ Interval \in Nat \ {0}
      /\ now - lastFill \in Nat
    BY PerMinuteAssumption, IntervalAssumption
<1>2. PerMinute * (now - lastFill) \in Nat
    <2>1. \A x, y \in Nat : x * y \in Nat
        BY SMT
    <2> QED
        BY <2>1, <1>1
<1>3. a \in Nat /\ PerMinute * (now - lastFill) < (a + 1) * Interval
    BY <1>1, <1>2, Division DEF Accrued
<1>4. CASE tokens + a > PerMinute
    BY <1>4 DEF Refilled
<1>5. CASE ~(tokens + a > PerMinute) /\ a = 0
    <2>1. Refilled - tokens = 0 /\ FilledAt - lastFill = 0
        BY <1>5 DEF Refilled, FilledAt
    <2>2. 2 * (0 * Interval) = 0 /\ PerMinute * 0 = 0
        BY <1>1, SMT
    <2> QED
        BY <2>1, <2>2
<1>6. CASE ~(tokens + a > PerMinute) /\ a # 0
    <2>1. Refilled - tokens = a /\ FilledAt = now
        BY <1>3, <1>6 DEF Refilled, FilledAt
    <2>2. (a + 1) * Interval <= (2 * a) * Interval
        BY <1>1, <1>3, <1>6, Monotone
    <2>3. (2 * a) * Interval = 2 * (a * Interval) /\ a * Interval \in Int
        BY <1>1, <1>3, SMT
    <2>4. (a + 1) * Interval \in Int
        BY <1>1, <1>3, SMT
    <2> QED
        BY <1>2, <1>3, <2>1, <2>2, <2>3, <2>4
<1> QED
    BY <1>4, <1>5, <1>6

\* Two sums that are each worth half of their time are so together.
LEMMA HalfOn ==
    ASSUME NEW c \in Int, NEW d \in Int, NEW x \in Int, NEW y \in Int,
           2 * (c * Interval) >= PerMinute * x, 2 * (d * Interval) >= PerMinute * y
    PROVE  2 * ((c + d) * Interval) >= PerMinute * (x + y)
<1>1. PerMinute \in Int /\ Interval \in Int
    BY PerMinuteAssumption, IntervalAssumption
<1>2. /\ (c + d) * Interval = c * Interval + d * Interval
      /\ PerMinute * (x + y) = PerMinute * x + PerMinute * y
      /\ c * Interval \in Int /\ d * Interval \in Int
      /\ PerMinute * x \in Int /\ PerMinute * y \in Int
    BY <1>1, Distribute
<1> QED
    BY <1>2

\* What is left after a refill keeps every moment budgeted.
LEMMA RefillBudgeted ==
    ASSUME TypeOK, NEW s \in Int, Budgeted(s)
    PROVE  LET c == Cardinality(Spent(s)) + Refilled
           IN  c >= PerMinute \/ (s > 0 /\ 2 * (c * Interval) >= PerMinute * (FilledAt - s))
<1>0. PICK n \in Nat : n = Cardinality(Spent(s))
    BY SpentType
<1>1. /\ now \in Nat /\ lastFill \in 0..now /\ tokens \in 0..PerMinute
      /\ lastFill \in Int /\ tokens \in Nat /\ PerMinute \in Nat
    BY PerMinuteAssumption DEF TypeOK
<1>2. Refilled \in 0..PerMinute /\ FilledAt \in lastFill..now
    BY <1>1, BucketFacts
<1>2a. Refilled \in Nat /\ FilledAt \in Int
    BY <1>1, <1>2
<1>3. n + tokens >= PerMinute \/ (s > 0 /\ 2 * ((n + tokens) * Interval) >= PerMinute * (lastFill - s))
    BY <1>0 DEF Budgeted
<1>4. n + Refilled >= PerMinute \/ (s > 0 /\ 2 * ((n + Refilled) * Interval) >= PerMinute * (FilledAt - s))
    <2>1. CASE Refilled = PerMinute
        BY <1>1, <2>1
    <2> SUFFICES ASSUME /\ Refilled - tokens \in Nat
                        /\ 2 * ((Refilled - tokens) * Interval) >= PerMinute * (FilledAt - lastFill)
                 PROVE  n + Refilled >= PerMinute \/ (s > 0 /\ 2 * ((n + Refilled) * Interval) >= PerMinute * (FilledAt - s))
        BY <1>1, <2>1, RefillIsHalf
    <2>2. CASE n + tokens >= PerMinute
        BY <1>1, <1>2a, <2>2
    <2>3. CASE s > 0 /\ 2 * ((n + tokens) * Interval) >= PerMinute * (lastFill - s)
        <3>1. n + tokens \in Int /\ Refilled - tokens \in Int
              /\ lastFill - s \in Int /\ FilledAt - lastFill \in Int
            BY <1>1, <1>2a
        <3>2. 2 * (((n + tokens) + (Refilled - tokens)) * Interval)
                 >= PerMinute * ((lastFill - s) + (FilledAt - lastFill))
            BY <2>3, <3>1, HalfOn
        <3>3. (n + tokens) + (Refilled - tokens) = n + Refilled
              /\ (lastFill - s) + (FilledAt - lastFill) = FilledAt - s
            BY <1>1, <1>2a
        <3> QED
            BY <2>3, <3>2, <3>3
    <2> QED
        BY <1>3, <2>2, <2>3
<1> QED
    BY <1>0, <1>4

\* A refused caller has seen half of the budget spent within the last interval.
LEMMA RefusedIsHalf ==
    ASSUME TypeOK, \A s \in Int : Budgeted(s), Refilled = 0
    PROVE  2 * Cardinality(Spent(now - Interval)) >= PerMinute
<1> DEFINE s == now - Interval
<1>1. /\ now \in Nat /\ lastFill \in 0..now /\ tokens \in 0..PerMinute
      /\ PerMinute \in Nat \ {0} /\ Interval \in Nat \ {0} /\ s \in Int
    BY PerMinuteAssumption, IntervalAssumption DEF TypeOK
<1>2. PICK n \in Nat : n = Cardinality(Spent(s))
    BY <1>1, SpentType
<1>3. n >= PerMinute \/ 2 * (n * Interval) >= PerMinute * (FilledAt - s)
    <2>1. Budgeted(s)
        BY <1>1
    <2> HIDE DEF s
    <2>2. \/ Cardinality(Spent(s)) + Refilled >= PerMinute
          \/ 2 * ((Cardinality(Spent(s)) + Refilled) * Interval) >= PerMinute * (FilledAt - s)
        BY <1>1, <2>1, RefillBudgeted
    <2>3. Cardinality(Spent(s)) + Refilled = n
        BY <1>2
    <2> QED
        BY <2>2, <2>3
<1> SUFFICES 2 * n >= PerMinute
    BY <1>2
<1>4. CASE n >= PerMinute
    BY <1>1, <1>4
<1>5. CASE 2 * (n * Interval) >= PerMinute * (FilledAt - s)
    <2>1. FilledAt \in Int /\ PerMinute * (now - FilledAt) < Interval
        BY <1>1, BucketFacts
    <2>2. FilledAt - s = Interval - (now - FilledAt)
        BY <1>1, <2>1
    <2>3. PICK d \in Int : d = now - FilledAt
        BY <1>1, <2>1
    <2> HIDE DEF s
    <2>4. PerMinute * (Interval - d) = PerMinute * Interval - PerMinute * d
        <3>1. PerMinute * ((Interval - d) + d) = PerMinute * (Interval - d) + PerMinute * d
              /\ PerMinute * (Interval - d) \in Int /\ PerMinute * d \in Int
            BY <1>1, Distribute
        <3>2. (Interval - d) + d = Interval
            BY <1>1
        <3> QED
            BY <3>1, <3>2
    <2>5. 2 * (n * Interval) > PerMinute * Interval - Interval
        <3>1. n * Interval \in Int /\ PerMinute * Interval \in Int /\ PerMinute * d \in Int
            BY <1>1, Distribute
        <3> QED
            BY <1>1, <1>5, <2>1, <2>2, <2>3, <2>4, <3>1
    <2>6. SUFFICES ASSUME 2 * n + 1 <= PerMinute PROVE FALSE
        BY <1>1, <1>2
    <2>7. (2 * n + 1) * Interval <= PerMinute * Interval
        BY <1>1, <2>6, Monotone
    <2>8. (2 * n + 1) * Interval = 2 * (n * Interval) + Interval
          /\ n * Interval \in Int /\ PerMinute * Interval \in Int
        BY <1>1, SMT
    <2> QED
        BY <1>1, <2>5, <2>7, <2>8
<1> QED
    BY <1>3, <1>4, <1>5

\* Every step keeps every moment budgeted.
LEMMA BudgetedStep ==
    ASSUME TypeOK, TypeOK', \A s \in Int : Budgeted(s), [Next]_vars
    PROVE  (\A s \in Int : Budgeted(s))'
<1> SUFFICES ASSUME NEW s \in Int PROVE Budgeted(s)'
    OBVIOUS
<1>0. Budgeted(s)
    OBVIOUS
<1>1. CASE UNCHANGED limiter
    BY <1>0, <1>1 DEF limiter, Budgeted, Spent
<1>2. CASE Refuse
    <2>1. tokens' = Refilled /\ lastFill' = FilledAt /\ Spent(s)' = Spent(s)
        BY <1>2 DEF Refuse, Spent
    <2> QED
        BY <1>0, <2>1, RefillBudgeted DEF Budgeted
<1>3. CASE Call /\ s <= now
    <2>1. /\ tokens' = Refilled - 1 /\ lastFill' = FilledAt
          /\ calls' = Append(calls, now)
        BY <1>3 DEF Call
    <2>2. Cardinality(Spent(s)) \in Nat /\ Cardinality(Spent(s)') = Cardinality(Spent(s)) + 1
        BY <1>3, <2>1, SpentAppend
    <2>3. Refilled \in Nat
        <3>1. Refilled \in 0..PerMinute
            BY BucketFacts DEF TypeOK
        <3> QED
            BY <3>1
    <2>4. Cardinality(Spent(s)') + tokens' = Cardinality(Spent(s)) + Refilled
        BY <2>1, <2>2, <2>3
    <2> QED
        BY <1>0, <2>1, <2>4, RefillBudgeted DEF Budgeted
<1>4. CASE Call /\ s > now
    <2>1. PICK m \in Nat, t \in Nat, l \in Nat :
             m = Cardinality(Spent(s)') /\ t = tokens' /\ l = lastFill' /\ l <= now
        <3>1. Cardinality(Spent(s)') \in Nat
            <4>1. Len(calls') \in Nat /\ DOMAIN calls' = 1..Len(calls')
                BY DEF TypeOK
            <4>2. IsFiniteSet(1..Len(calls')) /\ Spent(s)' \in SUBSET (1..Len(calls'))
                BY <4>1, FS_Interval DEF Spent
            <4> QED
                BY <4>2, FS_Subset, FS_CardinalityType
        <3>2. tokens' \in Nat /\ lastFill' \in Nat /\ lastFill' <= now
            BY <1>4, PerMinuteAssumption DEF TypeOK, Call
        <3> QED
            BY <3>1, <3>2
    <2>2. /\ PerMinute \in Nat /\ Interval \in Nat /\ now \in Nat
          /\ s > 0 /\ l - s <= 0 /\ l - s \in Int /\ m + t \in Nat
        <3>1. now \in Nat
            BY DEF TypeOK
        <3>2. l <= now /\ s > now
            BY <1>4, <2>1, Zenon
        <3> QED
            BY <3>1, <3>2, PerMinuteAssumption, IntervalAssumption
    <2>3. PerMinute * (l - s) <= PerMinute * 0 /\ PerMinute * 0 = 0
          /\ PerMinute * (l - s) \in Int
        BY <2>2, Monotone, Distribute
    <2>4. (m + t) * Interval \in Nat
        <3>1. \A x, y \in Nat : x * y \in Nat
            BY SMT
        <3> QED
            BY <2>2, <3>1
    <2>5. s > 0 /\ 2 * ((m + t) * Interval) >= PerMinute * (l - s)
        BY <2>2, <2>3, <2>4
    <2>6. /\ Cardinality(Spent(s)') + tokens' = m + t
          /\ lastFill' - s = l - s
        BY <2>1
    <2> QED
        BY <2>5, <2>6, Zenon DEF Budgeted
<1>5. Call \/ Refuse \/ UNCHANGED limiter
    <2>1. CASE Tick \/ Answer \/ Fail
        BY <2>1 DEF Tick, Answer, Fail
    <2>2. ASSUME NEW f \in Fingerprints, CacheHit(f) \/ CacheMiss(f)
          PROVE  UNCHANGED limiter
        BY <2>2 DEF CacheHit, CacheMiss
    <2>3. CASE UNCHANGED vars
        BY <2>3 DEF vars, limiter
    <2> QED
        BY <2>1, <2>2, <2>3 DEF Next
<1>6. now \in Int
    BY DEF TypeOK
<1> QED
    BY <1>1, <1>2, <1>3, <1>4, <1>5, <1>6

\* Only a refusal is reported as one, and by then half of the budget was spent.
LEMMA HalfStep ==
    ASSUME TypeOK, \A s \in Int : Budgeted(s), QuietWhileBusy, HalfTheBudgetIsUsable,
           [Next]_vars
    PROVE  QuietWhileBusy' /\ HalfTheBudgetIsUsable'
<1>1. CASE Tick
    BY <1>1 DEF Tick, QuietWhileBusy, HalfTheBudgetIsUsable
<1>2. ASSUME NEW f \in Fingerprints, CacheHit(f)
      PROVE  QuietWhileBusy' /\ HalfTheBudgetIsUsable'
    BY <1>2 DEF CacheHit, ReturnAnalysis, QuietWhileBusy, HalfTheBudgetIsUsable
<1>3. ASSUME NEW f \in Fingerprints, CacheMiss(f)
      PROVE  QuietWhileBusy' /\ HalfTheBudgetIsUsable'
    BY <1>3 DEF CacheMiss, QuietWhileBusy, HalfTheBudgetIsUsable
<1>4. CASE Call
    BY <1>4 DEF Call, QuietWhileBusy, HalfTheBudgetIsUsable
<1>5. CASE Refuse
    <2>1. Refilled = 0
        <3>1. Refilled \in 0..PerMinute /\ ~(Refilled > 0)
            BY <1>5, BucketFacts, PerMinuteAssumption DEF Refuse, TypeOK
        <3> QED
            BY <3>1
    <2>2. 2 * Cardinality(Spent(now - Interval)) >= PerMinute
        BY <2>1, RefusedIsHalf
    <2>3. Spent(now - Interval) = {i \in DOMAIN calls : calls[i] + Interval >= now}
        <3>1. \A i \in DOMAIN calls : calls[i] \in Int
            BY DEF TypeOK
        <3> QED
            BY <3>1, IntervalAssumption DEF Spent, TypeOK
    <2>4. phase' = "idle" /\ calls' = calls /\ now' = now
        BY <1>5 DEF Refuse, Return
    <2> QED
        BY <2>2, <2>3, <2>4 DEF QuietWhileBusy, HalfTheBudgetIsUsable
<1>6. CASE Answer
    BY <1>6 DEF Answer, Return, ReturnAnalysis, QuietWhileBusy, HalfTheBudgetIsUsable
<1>7. CASE Fail
    BY <1>7 DEF Fail, Return, ReturnError, QuietWhileBusy, HalfTheBudgetIsUsable
<1>8. CASE UNCHANGED vars
    BY <1>8 DEF vars, QuietWhileBusy, HalfTheBudgetIsUsable
<1> QED
    BY <1>1, <1>2, <1>3, <1>4, <1>5, <1>6, <1>7, <1>8 DEF Next

(***************************************************************************)
(* The size of the cache                                                   *)
(***************************************************************************)
\* A nonempty set of natural numbers has a least one.
LEMMA LeastNumber ==
    ASSUME NEW T \in SUBSET Nat, T # {}
    PROVE  \E m \in T : \A k \in T : m <= k
<1>1. PICK m \in T : \A k \in T : ~(<<k, m>> \in OpToRel(<, Nat))
    BY NatLessThanWellFounded, WFMin
<1>2. ASSUME NEW k \in T PROVE m <= k
    <2>1. ~(k < m)
        BY <1>1 DEF OpToRel
    <2> QED
        BY <2>1
<1> QED
    BY <1>2

\* Every step keeps the calls between any two answers.
LEMMA CallEachStep ==
    ASSUME TypeOK, TypeOK', OneCallEach, [Next]_vars
    PROVE  OneCallEach'
<1> DEFINE n == Len(calls)
           N == Len(answers)
<1>0. /\ n \in Nat /\ DOMAIN calls = 1..n
      /\ N \in Nat /\ DOMAIN answers = 1..N
      /\ now \in Nat
      /\ \A i \in 1..n : calls[i] \in Int /\ calls[i] <= now
      /\ \A i \in 1..N : answers[i].at \in Int /\ answers[i].at <= now
    <2>1. n \in Nat /\ DOMAIN calls = 1..n /\ N \in Nat /\ DOMAIN answers = 1..N /\ now \in Nat
        BY DEF TypeOK
    <2>2. \A i \in 1..n : calls[i] \in 0..now
        BY <2>1 DEF TypeOK
    <2>3. \A i \in 1..N : answers[i].at \in 0..now
        BY <2>1, AnswerAt DEF TypeOK
    <2> QED
        BY <2>1, <2>2, <2>3
<1>1. CASE UNCHANGED <<calls, answers>> /\ (phase' = "waiting" => phase = "waiting")
    BY <1>1 DEF OneCallEach
<1>2. CASE Call
    <2>1. calls' = Append(calls, now) /\ answers' = answers
        BY <1>2 DEF Call, cache
    <2>2. /\ Len(calls') = n + 1 /\ DOMAIN calls' = 1..(n + 1) /\ calls'[n + 1] = now
          /\ \A i \in 1..n : calls'[i] = calls[i]
        BY <1>0, <2>1
    <2> HIDE DEF n, N
    <2>3. calls' # <<>> /\ \A k \in DOMAIN answers' : answers'[k].at <= calls'[Len(calls')]
        BY <1>0, <2>1, <2>2
    <2>4. ASSUME NEW i \in DOMAIN answers', NEW j \in DOMAIN answers', i < j
          PROVE  \E a, b \in DOMAIN calls' :
                    /\ a <= b /\ b - a >= j - i - 1
                    /\ answers'[i].at <= calls'[a] /\ calls'[b] <= answers'[j].at
                    /\ phase' = "waiting" => b < Len(calls')
        <3>1. PICK a \in DOMAIN calls, b \in DOMAIN calls :
                    /\ a <= b /\ b - a >= j - i - 1
                    /\ answers[i].at <= calls[a] /\ calls[b] <= answers[j].at
            BY <2>1, <2>4 DEF OneCallEach
        <3>2. a \in 1..n /\ b \in 1..n /\ a \in 1..(n + 1) /\ b \in 1..(n + 1) /\ b < n + 1
            BY <1>0
        <3> QED
            BY <2>1, <2>2, <3>1, <3>2
    <2> QED
        BY <2>3, <2>4 DEF OneCallEach
<1>3. CASE Answer
    <2>1. /\ answers' = Append(answers, [fp |-> query.fp, at |-> now]) /\ calls' = calls
          /\ phase = "waiting" /\ phase' = "idle"
        BY <1>3 DEF Answer, limiter, Return
    <2>2. /\ DOMAIN answers' = 1..(N + 1) /\ answers'[N + 1].at = now
          /\ \A i \in 1..N : answers'[i] = answers[i]
        BY <1>0, <2>1
    <2>3. n \in 1..n /\ \A k \in 1..N : answers[k].at <= calls[n]
        <3>1. calls # <<>> /\ \A k \in DOMAIN answers : answers[k].at <= calls[Len(calls)]
            BY <2>1 DEF OneCallEach
        <3>2. n # 0
            BY <3>1, EmptySeq DEF TypeOK
        <3> QED
            BY <1>0, <3>1, <3>2
    <2>4. \A i, j \in 1..N : i < j =>
             \E a, b \in 1..n :
                /\ a <= b /\ b - a >= j - i - 1
                /\ answers[i].at <= calls[a] /\ calls[b] <= answers[j].at
                /\ b < n
        BY <1>0, <2>1 DEF OneCallEach
    <2> HIDE DEF n, N
    <2>5. ASSUME NEW i \in 1..(N + 1), NEW j \in 1..(N + 1), i < j
          PROVE  \E a, b \in 1..n :
                    /\ a <= b /\ b - a >= j - i - 1
                    /\ answers'[i].at <= calls[a] /\ calls[b] <= answers'[j].at
        <3>1. CASE j # N + 1
            <4>1. i \in 1..N /\ j \in 1..N
                BY <1>0, <2>5, <3>1
            <4>2. PICK a \in 1..n, b \in 1..n :
                    /\ a <= b /\ b - a >= j - i - 1
                    /\ answers[i].at <= calls[a] /\ calls[b] <= answers[j].at
                BY <2>4, <2>5, <4>1
            <4> QED
                BY <2>2, <4>1, <4>2
        <3>2. CASE j = N + 1 /\ i = N
            <4>1. N \in 1..N
                BY <3>2
            <4>2. n <= n /\ n - n >= j - i - 1
                BY <1>0, <3>2
            <4>3. answers'[i].at <= calls[n] /\ calls[n] <= answers'[j].at
                BY <1>0, <2>2, <2>3, <3>2, <4>1
            <4> QED
                BY <2>3, <4>2, <4>3
        <3>3. CASE j = N + 1 /\ i # N
            <4>1. i \in 1..N /\ N \in 1..N /\ i < N
                BY <1>0, <2>5, <3>3
            <4>2. PICK a \in 1..n, b \in 1..n :
                    a <= b /\ b - a >= N - i - 1 /\ answers[i].at <= calls[a] /\ b < n
                BY <2>4, <4>1
            <4>3. a <= n /\ n - a >= j - i - 1
                BY <1>0, <3>3, <4>1, <4>2
            <4>4. answers'[i].at <= calls[a] /\ calls[n] <= answers'[j].at
                BY <1>0, <2>2, <2>3, <3>3, <4>1, <4>2
            <4> QED
                BY <2>3, <4>3, <4>4
        <3> QED
            BY <1>0, <3>1, <3>2, <3>3
    <2> QED
        BY <1>0, <2>1, <2>2, <2>5 DEF OneCallEach
<1>4. Call \/ Answer \/ (UNCHANGED <<calls, answers>> /\ (phase' = "waiting" => phase = "waiting"))
    <2>1. CASE Tick \/ Refuse \/ Fail
        BY <2>1 DEF Tick, Refuse, Fail, Return, limiter, cache
    <2>2. ASSUME NEW f \in Fingerprints, CacheHit(f) \/ CacheMiss(f)
          PROVE  UNCHANGED <<calls, answers>> /\ (phase' = "waiting" => phase = "waiting")
        BY <2>2 DEF CacheHit, CacheMiss, limiter, cache
    <2>3. CASE UNCHANGED vars
        BY <2>3 DEF vars
    <2> QED
        BY <2>1, <2>2, <2>3 DEF Next
<1> QED
    BY <1>1, <1>2, <1>3, <1>4

\* Every step leaves a cache that is too large without expired entries.
LEMMA EvictedStep ==
    ASSUME TypeOK, TypeOK', Cached, Cached', Evicted, [Next]_vars
    PROVE  Evicted'
<1>1. CASE UNCHANGED cache
    BY <1>1 DEF cache, Evicted
<1>2. CASE Answer
    <2> DEFINE m == Put(query.fp, Len(answers'))
    <2>1. entries' = IF Cardinality(DOMAIN m) > CacheLimit THEN Evict(m) ELSE m
        BY <1>2 DEF Answer, Set
    <2>2. /\ DOMAIN Evict(m) = {k \in DOMAIN m : ~Expired(m[k])}
          /\ \A k \in DOMAIN Evict(m) : Evict(m)[k] = m[k]
        BY DEF Evict
    <2> HIDE DEF m
    <2>3. CASE ~(Cardinality(DOMAIN m) > CacheLimit)
        BY <2>1, <2>3 DEF Evicted
    <2>4. CASE Cardinality(DOMAIN m) > CacheLimit
        <3> SUFFICES ASSUME NEW f \in DOMAIN entries'
                     PROVE  answers'[Len(answers')].at <= answers'[entries'[f].response].at + TTL
            BY DEF Evicted
        <3>1. ~Expired(entries'[f])
            BY <2>1, <2>2, <2>4
        <3>2. entries'[f].expiresAt = answers'[entries'[f].response].at + TTL
            BY DEF Cached
        <3>3. answers'[Len(answers')].at = now
            BY <1>2 DEF Answer, TypeOK
        <3>4. now \in Nat /\ entries'[f].expiresAt \in Nat
            <4>1. entries'[f] \in [response : 1..Len(answers'), expiresAt : Nat]
                BY DEF TypeOK
            <4>2. now \in Nat
                BY DEF TypeOK
            <4> QED
                BY <4>1, <4>2
        <3> QED
            BY <3>1, <3>2, <3>3, <3>4 DEF Expired
    <2> QED
        BY <2>3, <2>4
<1>3. Answer \/ UNCHANGED cache
    <2>1. CASE Tick \/ Call \/ Refuse \/ Fail
        BY <2>1 DEF Tick, Call, Refuse, Fail
    <2>2. ASSUME NEW f \in Fingerprints, CacheHit(f) \/ CacheMiss(f)
          PROVE  UNCHANGED cache
        BY <2>2 DEF CacheHit, CacheMiss
    <2>3. CASE UNCHANGED vars
        BY <2>3 DEF vars, cache
    <2> QED
        BY <2>1, <2>2, <2>3 DEF Next
<1> QED
    BY <1>1, <1>2, <1>3

\* The entries hold different responses: there are no more of them than answers
\* from the oldest one on.
LEMMA EntriesAreAnswers ==
    ASSUME TypeOK, Cached, NEW m \in Nat, NEW N \in Nat, m <= N, N = Len(answers),
           \A f \in DOMAIN entries : entries[f].response \in m..N
    PROVE  /\ Cardinality(DOMAIN entries) \in Nat
           /\ Cardinality(DOMAIN entries) <= N - m + 1
<1> DEFINE r == [f \in DOMAIN entries |-> entries[f].response]
<1>1. r \in [DOMAIN entries -> m..N]
    OBVIOUS
<1>2. ASSUME NEW f \in DOMAIN entries, NEW g \in DOMAIN entries, r[f] = r[g]
      PROVE  f = g
    <2>1. answers[entries[f].response].fp = f /\ answers[entries[g].response].fp = g
        BY DEF Cached
    <2> QED
        BY <1>2, <2>1
<1> HIDE DEF r
<1>3. r \in Injection(DOMAIN entries, m..N)
    BY <1>1, <1>2, Fun_IsInj
<1>4. IsFiniteSet(m..N) /\ Cardinality(m..N) = N - m + 1
    <2>1. m \in Int /\ N \in Int /\ ~(m > N)
        OBVIOUS
    <2>2. IsFiniteSet(m..N) /\ Cardinality(m..N) = IF m > N THEN 0 ELSE N - m + 1
        BY <2>1, FS_Interval, Zenon
    <2> QED
        BY <2>1, <2>2
<1>5. IsFiniteSet(DOMAIN entries) /\ Cardinality(DOMAIN entries) <= Cardinality(m..N)
    BY <1>3, <1>4, FS_Injection
<1> QED
    BY <1>4, <1>5, FS_CardinalityType

\* The limiter bounds the cache.
LEMMA CacheBound ==
    ASSUME TypeOK, Cached, Evicted, OneCallEach, CallsAreMetered
    PROVE  CacheIsBounded
<1> DEFINE size == Cardinality(DOMAIN entries)
<1> SUFFICES ASSUME size > CacheLimit
             PROVE  (size - 2) * Interval < PerMinute * (Interval + TTL)
    BY DEF CacheIsBounded
<1>0. PICK N \in Nat : N = Len(answers) /\ DOMAIN answers = 1..N
    BY DEF TypeOK
<1>1. /\ PerMinute \in Nat \ {0} /\ Interval \in Nat \ {0} /\ TTL \in Nat
      /\ PerMinute * (Interval + TTL) \in Nat
      /\ PerMinute * (Interval + TTL) > 0
    <2>1. /\ PerMinute \in Nat \ {0} /\ Interval \in Nat \ {0} /\ TTL \in Nat
          /\ Interval + TTL \in Nat
        BY PerMinuteAssumption, IntervalAssumption, TTLAssumption
    <2>2. 1 * (Interval + TTL) <= PerMinute * (Interval + TTL)
        BY <2>1, Monotone
    <2>3. PerMinute * (Interval + TTL) \in Int /\ 1 * (Interval + TTL) = Interval + TTL
        BY <2>1, Distribute
    <2> QED
        BY <2>1, <2>2, <2>3
<1>2. \A k \in Int : k <= 0 => k * Interval < PerMinute * (Interval + TTL)
    <2> SUFFICES ASSUME NEW k \in Int, k <= 0 PROVE k * Interval < PerMinute * (Interval + TTL)
        OBVIOUS
    <2>1. k * Interval <= 0 * Interval /\ 0 * Interval = 0 /\ k * Interval \in Int
        BY <1>1, Monotone, Distribute
    <2> QED
        BY <1>1, <2>1
<1>3. CASE DOMAIN entries = {}
    <2>1. size = 0
        BY <1>3, FS_EmptySet
    <2> QED
        BY <1>2, <2>1
<1>4. CASE DOMAIN entries # {}
    <2> DEFINE R == {entries[f].response : f \in DOMAIN entries}
    <2>1. R \subseteq 1..N /\ R \in SUBSET Nat /\ R # {}
        BY <1>0, <1>4 DEF TypeOK
    <2>2. PICK m \in R : \A k \in R : m <= k
        BY <2>1, LeastNumber
    <2>3. m \in 1..N /\ m \in Nat /\ m <= N /\ N \in 1..N
        BY <2>1, <2>2
    <2>4. \A f \in DOMAIN entries : entries[f].response \in m..N
        <3>1. \A k \in R : k \in m..N
            BY <2>1, <2>2, <2>3
        <3> QED
            BY <3>1
    <2>5. size \in Nat /\ size <= N - m + 1
        BY <1>0, <2>3, <2>4, EntriesAreAnswers
    <2>6. answers[N].at <= answers[m].at + TTL
        BY <1>0, <2>2 DEF Evicted
    <2> HIDE DEF R, size
    <2>7. CASE m = N
        BY <1>2, <2>3, <2>5, <2>7
    <2>8. CASE m # N
        <3>1. m < N /\ m \in DOMAIN answers /\ N \in DOMAIN answers
            BY <1>0, <2>3, <2>8
        <3>2. PICK a \in DOMAIN calls, b \in DOMAIN calls :
                    /\ a <= b /\ b - a >= N - m - 1
                    /\ answers[m].at <= calls[a] /\ calls[b] <= answers[N].at
            BY <3>1 DEF OneCallEach
        <3>3. a \in Nat /\ b \in Nat /\ a \in 1..b
              /\ calls[a] \in Int /\ calls[b] \in Int
              /\ answers[m].at \in Int /\ answers[N].at \in Int
            <4>1. a \in 1..Len(calls) /\ b \in 1..Len(calls) /\ Len(calls) \in Nat
                BY DEF TypeOK
            <4>2. calls[a] \in 0..now /\ calls[b] \in 0..now
                BY <4>1 DEF TypeOK
            <4>3. answers[m].at \in Nat /\ answers[N].at \in Nat
                BY <3>1, AnswerAt DEF TypeOK
            <4> QED
                BY <3>2, <4>1, <4>2, <4>3
        <3>4. (b - a) * Interval < PerMinute * (Interval + calls[b] - calls[a])
            BY <3>2, <3>3 DEF CallsAreMetered
        <3>5. size - 2 \in Int /\ b - a \in Int /\ size - 2 <= b - a
            BY <2>3, <2>5, <3>2, <3>3
        <3>6. /\ Interval + calls[b] - calls[a] \in Int /\ Interval + TTL \in Int
              /\ Interval + calls[b] - calls[a] <= Interval + TTL
            BY <1>1, <2>6, <3>2, <3>3
        <3> QED
            BY <3>4, <3>5, <3>6, Weaken DEF size
    <2> QED
        BY <2>7, <2>8 DEF size
<1> QED
    BY <1>3, <1>4

(***************************************************************************)
(* The theorems                                                            *)
(***************************************************************************)
\* The invariant holds in every reachable state.
THEOREM Invariance == Spec => []IInv
<1>1. IInv /\ [Next]_vars => IInv'
    <2> SUFFICES ASSUME IInv, [Next]_vars PROVE IInv'
        OBVIOUS
    <2>1. TypeOK'
        BY TypeStep DEF IInv
    <2>2. Cached' /\ Remembered' /\ Missed'
        BY <2>1, CacheStep DEF IInv
    <2>3. (\A i \in DOMAIN calls : Metered(i))' /\ CallsAreMetered'
        BY MeteredStep DEF IInv
    <2>4. AnalysisIsFresh'
        BY FreshStep DEF IInv
    <2>5. (\A s \in Int : Budgeted(s))'
        BY <2>1, BudgetedStep DEF IInv
    <2>6. QuietWhileBusy' /\ HalfTheBudgetIsUsable'
        BY HalfStep DEF IInv
    <2>7. OneCallEach'
        BY <2>1, CallEachStep DEF IInv
    <2>8. Evicted'
        BY <2>1, <2>2, EvictedStep DEF IInv
    <2> QED
        BY <2>1, <2>2, <2>3, <2>4, <2>5, <2>6, <2>7, <2>8 DEF IInv
<1> QED
    BY <1>1, InitInv, PTL DEF Spec

\* Every variable keeps its type; in particular the bucket never overflows.
THEOREM TypeCorrect == Spec => []TypeOK
<1>1. IInv => TypeOK
    BY DEF IInv
<1> QED
    BY <1>1, Invariance, PTL

\* No report carries a foreign or an expired analysis.
THEOREM Fresh == Spec => []AnalysisIsFresh
<1>1. IInv => AnalysisIsFresh
    BY DEF IInv
<1> QED
    BY <1>1, Invariance, PTL

\* The provider is not called for what the cache could have answered.
THEOREM NotRedundant == Spec => []NoRedundantCalls
<1>1. IInv => NoRedundantCalls
    BY DEF IInv, Missed, NoRedundantCalls
<1> QED
    BY <1>1, Invariance, PTL

\* The limiter bounds the calls between any two moments.
THEOREM MeteredCalls == Spec => []CallsAreMetered
<1>1. IInv => CallsAreMetered
    BY DEF IInv
<1> QED
    BY <1>1, Invariance, PTL

\* The limiter starves nobody: a refusal means that half of the budget of the last
\* interval was spent, whatever allow lost to rounding.
THEOREM HalfIsUsable == Spec => []HalfTheBudgetIsUsable
<1>1. IInv => HalfTheBudgetIsUsable
    BY DEF IInv
<1> QED
    BY <1>1, Invariance, PTL

\* The cache does not outgrow what the limiter lets into it within a TTL, although
\* Set drops nothing that is younger.
THEOREM BoundedCache == Spec => []CacheIsBounded
<1>1. IInv => CacheIsBounded
    BY CacheBound DEF IInv
<1> QED
    BY <1>1, Invariance, PTL
=============================================================================

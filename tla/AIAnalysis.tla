-------------------------------- MODULE AIAnalysis --------------------------------
(***************************************************************************)
(* The optional second phase of Diagnose: DefaultAnalyzer.Analyze with its *)
(* Cache and its RateLimitedProvider, over a clock.                        *)
(*                                                                         *)
(* doctor asks about one set of findings after the other, so there is one  *)
(* call of Analyze at a time; time passes between any two of its steps,    *)
(* and for as long as the provider likes: its client has no timeout.       *)
(* Findings without a warning never get here (hasActionableFindings).      *)
(***************************************************************************)
EXTENDS Integers, Sequences, FiniteSets

CONSTANTS
    Fingerprints,   \* what findingsFingerprint keeps of findings: rules and severities
    PerMinute,      \* maxTokens (10 by default)
    Interval,       \* the minute, in ticks
    TTL,            \* cache_ttl (5m by default), in ticks
    CacheLimit,     \* entries that Set tolerates before it evicts (100 in the code)
    MaxTime,        \* bound of the model: the clock stops
    None            \* no value

ASSUME PerMinuteAssumption  == PerMinute \in Nat \ {0}
ASSUME IntervalAssumption   == Interval \in Nat \ {0}
ASSUME TTLAssumption        == TTL \in Nat
ASSUME CacheLimitAssumption == CacheLimit \in Nat
ASSUME MaxTimeAssumption    == MaxTime \in Nat

VARIABLES
    now,        \* the clock
    phase,      \* control of Analyze: "idle", "asking" (cache missed), "waiting" (call sent)
    query,      \* the findings being analyzed: [fp, asked: when], or None
    entries,    \* Cache.entries: fingerprint -> [response, expiresAt]
    tokens,     \* of RateLimitedProvider
    lastFill,   \* of RateLimitedProvider
    returned,   \* history: what Analyze has returned in this tick: [fp, kind, response], or None
    calls,      \* history: when the provider was called
    answers     \* history: what it answered: [fp, at]; a response is its number here

vars == <<now, phase, query, entries, tokens, lastFill, returned, calls, answers>>

cache   == <<entries, answers>>
limiter == <<tokens, lastFill, calls>>

Results == [fp : Fingerprints, kind : {"analysis"}, response : 1..Len(answers)]
              \cup [fp : Fingerprints, kind : {"failed", "refused"}]

TypeOK ==
    /\ now \in Nat
    /\ phase \in {"idle", "asking", "waiting"}
    /\ query \in IF phase = "idle" THEN {None} ELSE [fp : Fingerprints, asked : 0..now]
    /\ DOMAIN entries \subseteq Fingerprints
    /\ \A f \in DOMAIN entries :
          entries[f] \in [response : 1..Len(answers), expiresAt : Nat]
    /\ tokens \in 0..PerMinute
    /\ lastFill \in 0..now
    /\ returned \in Results \cup {None}
    /\ calls \in Seq(0..now)
    /\ answers \in Seq([fp : Fingerprints, at : 0..now])

Init ==
    /\ now = 0 /\ phase = "idle" /\ query = None
    /\ entries = <<>>
    /\ tokens = PerMinute /\ lastFill = 0
    /\ returned = None /\ calls = <<>> /\ answers = <<>>

Tick ==
    /\ now < MaxTime
    /\ now' = now + 1 /\ returned' = None
    /\ UNCHANGED <<phase, query, cache, limiter>>

(***************************************************************************)
(* The cache. An expired entry is not returned, and stays until a Set      *)
(* finds the map too large.                                                *)
(***************************************************************************)
Expired(e) == now > e.expiresAt

\* Mutant: Get forgets the expiry.
HitAlways(f) == f \in DOMAIN entries

Hit(f) == f \in DOMAIN entries /\ ~Expired(entries[f])

\* Mutant: an expired entry is not replaced.
PutIfAbsent(f, n) ==
    IF f \in DOMAIN entries THEN entries
    ELSE [k \in DOMAIN entries \cup {f} |->
             IF k = f THEN [response |-> n, expiresAt |-> now + TTL] ELSE entries[k]]

Put(f, n) ==
    LET e == [response |-> n, expiresAt |-> now + TTL]
    IN  [k \in DOMAIN entries \cup {f} |-> IF k = f THEN e ELSE entries[k]]

Evict(m) ==
    LET kept == {k \in DOMAIN m : ~Expired(m[k])}
    IN  [k \in kept |-> m[k]]

\* Mutant: Set never evicts.
SetOnly(f, n) == Put(f, n)

Set(f, n) ==
    LET m == Put(f, n)
    IN  IF Cardinality(DOMAIN m) > CacheLimit THEN Evict(m) ELSE m

(***************************************************************************)
(* The token bucket. What has accrued is rounded down, and the fraction is *)
(* forgotten with the old lastFill; after an interval or more the bucket   *)
(* is full in either branch of allow.                                      *)
(***************************************************************************)
Accrued == (PerMinute * (now - lastFill)) \div Interval

\* Mutant: the bucket has no brim.
RefilledUncapped == tokens + Accrued

Refilled == IF tokens + Accrued > PerMinute THEN PerMinute ELSE tokens + Accrued

\* Mutants: the reference moves with every call, or only when the bucket is full.
FilledAtAlways == now
FilledAtInterval == IF now - lastFill >= Interval THEN now ELSE lastFill

FilledAt == IF Accrued > 0 THEN now ELSE lastFill

(***************************************************************************)
(* Analyze. An error is what Diagnose goes on without.                     *)
(***************************************************************************)
ReturnAnalysis(f, n) == returned' = [fp |-> f, kind |-> "analysis", response |-> n]

ReturnError(kind) == returned' = [fp |-> query.fp, kind |-> kind]

Return == phase' = "idle" /\ query' = None

CacheHit(f) ==
    /\ phase = "idle" /\ Hit(f)
    /\ ReturnAnalysis(f, entries[f].response)
    /\ UNCHANGED <<now, phase, query, cache, limiter>>

CacheMiss(f) ==
    /\ phase = "idle" /\ ~Hit(f)
    /\ phase' = "asking" /\ query' = [fp |-> f, asked |-> now]
    /\ returned' = None
    /\ UNCHANGED <<now, cache, limiter>>

\* Complete, when allow grants a call.
Call ==
    /\ phase = "asking" /\ Refilled > 0
    /\ tokens' = Refilled - 1 /\ lastFill' = FilledAt
    /\ calls' = Append(calls, now)
    /\ phase' = "waiting"
    /\ UNCHANGED <<now, query, cache, returned>>

\* Complete, when it does not.
Refuse ==
    /\ phase = "asking" /\ Refilled <= 0
    /\ tokens' = Refilled /\ lastFill' = FilledAt
    /\ ReturnError("refused") /\ Return
    /\ UNCHANGED <<now, cache, calls>>

\* Text that is not JSON becomes a summary and is cached like any answer.
Answer ==
    /\ phase = "waiting"
    /\ answers' = Append(answers, [fp |-> query.fp, at |-> now])
    /\ entries' = Set(query.fp, Len(answers'))
    /\ ReturnAnalysis(query.fp, Len(answers')) /\ Return
    /\ UNCHANGED <<now, limiter>>

\* A failed call keeps its token and leaves nothing in the cache.
Fail ==
    /\ phase = "waiting"
    /\ ReturnError("failed") /\ Return
    /\ UNCHANGED <<now, cache, limiter>>

Next ==
    \/ Tick
    \/ \E f \in Fingerprints : CacheHit(f) \/ CacheMiss(f)
    \/ Call \/ Refuse
    \/ Answer \/ Fail

Spec == Init /\ [][Next]_vars

(***************************************************************************)
(* Properties                                                              *)
(***************************************************************************)
\* A report carries an analysis of its own findings, received no longer than the
\* TTL ago, whatever was evicted, failed or refused meanwhile.
AnalysisIsFresh ==
    returned # None => (returned.kind = "analysis" =>
        LET a == answers[returned.response]
        IN  a.fp = returned.fp /\ a.at + TTL >= now)

\* "Prevents redundant LLM calls" (cache.go:16): the provider is called only when
\* all it has answered to the same findings had expired when the cache was read.
NoRedundantCalls ==
    phase = "waiting" =>
        \A n \in DOMAIN answers :
            answers[n].fp = query.fp => answers[n].at + TTL < query.asked

\* From any call on, the limiter admits no more calls than one bucket and what
\* accrues meanwhile, whatever the rounding of allow and its moving reference.
CallsAreMetered ==
    \A j \in DOMAIN calls : \A i \in 1..j :
        (j - i) * Interval < PerMinute * (Interval + calls[j] - calls[i])

\* allow forgets fractions of a token, but never starves its caller: when it
\* refuses, at least half of the budget was spent within the last interval.
HalfTheBudgetIsUsable ==
    returned # None => (returned.kind = "refused" =>
        2 * Cardinality({i \in DOMAIN calls : calls[i] + Interval >= now}) >= PerMinute)

\* The cache evicts only what has expired and only above its limit, and yet it is
\* bounded, because the limiter bounds the answers that are younger than the TTL.
CacheIsBounded ==
    LET size == Cardinality(DOMAIN entries)
    IN  size > CacheLimit => (size - 2) * Interval < PerMinute * (Interval + TTL)

\* "perMinute is the maximum number of calls allowed per minute" (ratelimit.go:26).
PerMinuteIsMaximum ==
    \A j \in DOMAIN calls : \A i \in 1..j :
        calls[j] - calls[i] < Interval => j - i < PerMinute
=============================================================================

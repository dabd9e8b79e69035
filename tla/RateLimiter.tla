---------------------------- MODULE RateLimiter -----------------------------
(***************************************************************************)
(* The token bucket of application/rate-limit.ts.  Tokens are counted in   *)
(* thousandths, so a millisecond at a whole number of tokens a second adds *)
(* a whole number; the clock does not go back.                             *)
(***************************************************************************)
EXTENDS Naturals, Sequences

CONSTANTS
  Key,
  MaxTokens, RefillTokensPerSecond,
  MaxMs, MsStep,  \* bound and step of the clock
  NoBucket

Token == 1000

Bucket == [tokens: 0 .. MaxTokens * Token, updatedAtMs: 0 .. MaxMs]

ASSUME LimiterAssumption ==
  /\ {MaxTokens, RefillTokensPerSecond, MaxMs, MsStep} \subseteq Nat
  /\ NoBucket \notin Bucket

VARIABLES
  nowMs,
  buckets,  \* buckets[k]: the stored bucket
  grants    \* history: grants[k]: when calls were let through

limiterVars == <<nowMs, buckets, grants>>

LimiterTypeOK ==
  /\ nowMs \in 0 .. MaxMs
  /\ buckets \in [Key -> Bucket \cup {NoBucket}]
  /\ grants \in [Key -> Seq(0 .. MaxMs)]

LimiterInit ==
  /\ nowMs = 0
  /\ buckets = [k \in Key |-> NoBucket]
  /\ grants = [k \in Key |-> <<>>]

-----------------------------------------------------------------------------
(* What is in a bucket now; one never used is full.                        *)
Stored(k) ==
  IF buckets[k] = NoBucket THEN [tokens |-> MaxTokens * Token, updatedAtMs |-> nowMs] ELSE buckets[k]

Refilled(k) ==
  LET tokens == Stored(k).tokens + (nowMs - Stored(k).updatedAtMs) * RefillTokensPerSecond IN
  IF tokens < MaxTokens * Token THEN tokens ELSE MaxTokens * Token

SlipBucketAfter(k, tokens) ==
  IF tokens < Token THEN [Stored(k) EXCEPT !.tokens = tokens]
  ELSE [tokens |-> tokens - Token, updatedAtMs |-> nowMs]

(* What is stored: a refused call too refills the bucket up to now.        *)
BucketAfter(k, tokens) ==
  [tokens |-> IF tokens < Token THEN tokens ELSE tokens - Token, updatedAtMs |-> nowMs]

Allow(k) ==
  /\ buckets' = [buckets EXCEPT ![k] = BucketAfter(k, Refilled(k))]
  /\ grants' = IF Refilled(k) < Token THEN grants ELSE [grants EXCEPT ![k] = Append(@, nowMs)]
  /\ UNCHANGED nowMs

MsPasses ==
  /\ nowMs + MsStep <= MaxMs
  /\ nowMs' = nowMs + MsStep
  /\ UNCHANGED <<buckets, grants>>

LimiterNext == (\E k \in Key : Allow(k)) \/ MsPasses

-----------------------------------------------------------------------------
(* As many calls more of a key would be too many now: with them, from some *)
(* earlier grant on, more tokens were taken than a full bucket holds and   *)
(* the time since then refills.                                            *)
TooMany(k, more) ==
  \/ more > MaxTokens
  \/ \E i \in DOMAIN grants[k] :
       (Len(grants[k]) - i + 1 + more) * Token
         > MaxTokens * Token + (nowMs - grants[k][i]) * RefillTokensPerSecond

(* The limit is kept and never more than kept: whatever calls were refused *)
(* before, a call of one key passes exactly when it is not one too many of *)
(* that key, and no key is slowed down by another.                         *)
AdmitsExactly ==
  [][\A k \in Key : Allow(k) => (grants' # grants <=> ~ TooMany(k, 1))]_limiterVars
=============================================================================

----------------------------- MODULE RateLimiter -----------------------------
(***************************************************************************)
(* The per-client rate limit (core/policy/rate_limiter.cpp): a token       *)
(* bucket for each client, in a table of bounded size.  When the table is  *)
(* full, refilled buckets are forgotten, at most once a second, and new    *)
(* clients that still find no room share one bucket.                       *)
(*                                                                         *)
(* Tokens are counted in parts, PartsPerToken to a query, so that a tick   *)
(* of the clock refills a whole number of them.  Exempt clients and a      *)
(* limit of 0 return before any of this state is touched.  Module          *)
(* QueryLimits says when allow() is called.                                *)
(***************************************************************************)
EXTENDS Integers, FiniteSetsExt

CONSTANTS
  Clients,
  PartsPerToken,
  PartsPerTick,   \* qps
  burst, max_clients,
  Second,         \* in ticks
  MaxTime         \* bound: the clock stops here

Capacity == burst * PartsPerToken

VARIABLES
  now,
  buckets_,         \* tracked client -> Bucket
  overflow_, overflow_used_,
  last_sweep_,
  ideal,            \* history: client -> its own bucket, had none been forgotten
  granted           \* history: queries let through

Full(t) == [tokens |-> Capacity, last |-> t]

\* The machine has been up for a second when the first query comes.
Init ==
  /\ now = Second
  /\ buckets_ = [c \in {} |-> Full(now)]
  /\ overflow_ = Full(now) /\ overflow_used_ = FALSE
  /\ last_sweep_ = 0
  /\ ideal = [c \in Clients |-> Full(now)]
  /\ granted = 0

----------------------------------------------------------------------------
Level(b) == Min({Capacity, b.tokens + (now - b.last) * PartsPerTick})

HasToken(b) == Level(b) >= PartsPerToken

\* take()
Taken(b) ==
  [tokens |-> IF HasToken(b) THEN Level(b) - PartsPerToken ELSE Level(b), last |-> now]

Count(b) == granted' = IF HasToken(b) THEN granted + 1 ELSE granted

ForgetNearly(f) ==   \* wrong: a bucket that can serve again is not yet full
  [c \in {d \in DOMAIN f : f[d].tokens + (now - f[d].last) * PartsPerTick < PartsPerToken} |-> f[c]]

\* forget_idle(): "a bucket that has refilled completely is no different from a new one".
forget_idle(f) ==
  [c \in {d \in DOMAIN f : f[d].tokens + (now - f[d].last) * PartsPerTick < Capacity} |-> f[c]]

TableFull(f) == Cardinality(DOMAIN f) >= max_clients

SweepDue == TableFull(buckets_) /\ now - last_sweep_ >= Second

AlwaysNew == Full(now)   \* wrong: everyone who overflows gets a full bucket

Overflow == IF overflow_used_ THEN overflow_ ELSE Full(now)

\* The table as a new client finds it.
Kept == IF SweepDue THEN forget_idle(buckets_) ELSE buckets_

With(f, c, b) == [d \in DOMAIN f \cup {c} |-> IF d = c THEN b ELSE f[d]]

AllowTracked(c) ==
  /\ c \in DOMAIN buckets_
  /\ buckets_' = With(buckets_, c, Taken(buckets_[c]))
  /\ ideal' = [ideal EXCEPT ![c] = Taken(@)]
  /\ Count(buckets_[c])
  /\ UNCHANGED <<overflow_, overflow_used_, last_sweep_>>

AllowNew(c) ==
  /\ c \notin DOMAIN buckets_
  /\ last_sweep_' = IF SweepDue THEN now ELSE last_sweep_
  /\ IF TableFull(Kept)
       THEN /\ buckets_' = Kept
            /\ overflow_' = Taken(Overflow) /\ overflow_used_' = TRUE
            /\ Count(Overflow)
            /\ UNCHANGED ideal
       ELSE /\ buckets_' = With(Kept, c, Taken(Full(now)))
            /\ ideal' = [ideal EXCEPT ![c] = Taken(@)]
            /\ Count(Full(now))
            /\ UNCHANGED <<overflow_, overflow_used_>>

allow(c) == AllowTracked(c) \/ AllowNew(c)

----------------------------------------------------------------------------
Bucket == [tokens : 0..Capacity, last : 0..MaxTime]

Typed ==
  /\ Cardinality(DOMAIN buckets_) <= max_clients
  /\ \A c \in DOMAIN buckets_ : buckets_[c] \in Bucket /\ buckets_[c].last <= now
  /\ overflow_ \in Bucket /\ overflow_used_ \in BOOLEAN /\ last_sweep_ \in 0..now

\* allow(c) would draw on the shared bucket.
Shares(c) == c \notin DOMAIN buckets_ /\ TableFull(Kept)

\* The bucket of its own that allow(c) would draw on.
Own(c) == IF c \in DOMAIN buckets_ THEN buckets_[c] ELSE Full(now)

\* No client of the table had a full bucket a second ago.
Crowded ==
  \A d \in DOMAIN Kept : Kept[d].tokens + (now - Second - Kept[d].last) * PartsPerTick < Capacity

\* A client that draws on a bucket of its own finds in it what there would be if no
\* bucket had been forgotten.  One that has to share, and may find less, has nothing
\* to make up for, and the table is full of clients that had a second ago.
NothingForgotten ==
  \A c \in Clients :
    IF Shares(c) THEN Level(ideal[c]) = Capacity /\ Crowded
    ELSE Level(ideal[c]) = Level(Own(c))

\* What max_clients clients and one more would get.
WithinLimit ==
  granted * PartsPerToken <= (max_clients + 1) * (Capacity + (now - Second) * PartsPerTick)
==============================================================================

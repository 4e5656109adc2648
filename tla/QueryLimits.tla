----------------------------- MODULE QueryLimits -----------------------------
(***************************************************************************)
(* The two rate limits as QueryProcessor::handle() uses them for queries   *)
(* over UDP (core/server/query_processor.cpp): allow() when the query      *)
(* comes, check() on every response on its way out, the refusal of a query *)
(* over the limit included.  Answers take their time, so a later query may *)
(* be refused before an earlier one is answered.                           *)
(***************************************************************************)
EXTENDS Integers, FiniteSetsExt

CONSTANTS
  Clients,
  PartsPerToken, PartsPerTick, burst, max_clients,   \* RateLimitConfig
  Cap, slip, max_entries, window_,                   \* RrlConfig
  action,         \* RateLimitConfig::action: "Refuse" or "Drop"
  Second,         \* in ticks
  MaxClock,       \* bound: the clock stops here
  MaxResolving    \* bound: queries of one client being resolved

LimitsConstants ==
  /\ {PartsPerToken, PartsPerTick, burst, Cap, window_, Second} \subseteq Nat \ {0}
  /\ {max_clients, max_entries, slip, MaxClock, MaxResolving} \subseteq Nat
  /\ Second <= MaxClock
  /\ action \in {"Refuse", "Drop"}

ASSUME LimitsAssumption == LimitsConstants

\* One question each, so a client's responses are the refusals and the answers.
Fingerprints == Clients \X {"REFUSED", "answer"}

VARIABLES
  clock,
  resolving,   \* [Clients -> queries whose answer is still to come]
  buckets_, overflow_, overflow_used_, last_sweep_, idealBuckets, granted,
  entries_, rrlOverflow, rrlOverflowUsed, rrlLastSweep, idealEntries, total

Limiter == INSTANCE RateLimiter
  WITH now <- clock, MaxTime <- MaxClock, ideal <- idealBuckets
RRL == INSTANCE Rrl
  WITH now <- clock, MaxTime <- MaxClock,
       overflow_ <- rrlOverflow, overflow_used_ <- rrlOverflowUsed,
       last_sweep_ <- rrlLastSweep, ideal <- idealEntries

limiter == <<buckets_, overflow_, overflow_used_, last_sweep_, idealBuckets, granted>>
rrl == <<entries_, rrlOverflow, rrlOverflowUsed, rrlLastSweep, idealEntries, total>>
limitsVars == <<clock, resolving, limiter, rrl>>

\* The machine has been up for a second when the first query comes.
LimitsInit ==
  /\ clock = Second
  /\ resolving = [c \in Clients |-> 0]
  /\ Limiter!Init /\ RRL!Init

ClockTicks ==
  /\ clock < MaxClock /\ clock' = clock + 1
  /\ UNCHANGED <<resolving, limiter, rrl>>

Refuse(c) ==
  IF action = "Refuse" THEN RRL!check(<<c, "REFUSED">>) ELSE UNCHANGED rrl

handle(c) ==
  /\ resolving[c] < MaxResolving
  /\ Limiter!allow(c)
  /\ IF granted' > granted
       THEN resolving' = [resolving EXCEPT ![c] = @ + 1] /\ UNCHANGED rrl
       ELSE Refuse(c) /\ UNCHANGED resolving
  /\ UNCHANGED clock

\* The resolver calls back.
Answer(c) ==
  /\ resolving[c] > 0 /\ resolving' = [resolving EXCEPT ![c] = @ - 1]
  /\ RRL!check(<<c, "answer">>)
  /\ UNCHANGED <<clock, limiter>>

LimitsNext == ClockTicks \/ \E c \in Clients : handle(c) \/ Answer(c)

LimitsSpec == LimitsInit /\ [][LimitsNext]_limitsVars

----------------------------------------------------------------------------
\* "a flood from many spoofed addresses can't grow the table", and what is forgotten
\* to make room changes no decision: allow() and check() decide by an entry as good
\* as the one that was never forgotten, or by the shared one.  The shared one may
\* refuse what an entry of one's own would let through; it is used only by those
\* with nothing to answer for, while the table is full of others that had a second
\* ago, for a sweep is never further back.
ForgettingInvisible ==
  /\ Limiter!Typed /\ RRL!Typed
  /\ Limiter!NothingForgotten /\ RRL!NothingForgotten

\* "... or escape the limit": however many addresses a flood uses, and however they
\* come and go in the tables, no more queries are resolved, and no more responses
\* go out whole, than full tables and one client more could have.
FloodBounded == Limiter!WithinLimit /\ RRL!WithinLimit
==============================================================================

--------------------------------- MODULE Rrl ---------------------------------
(***************************************************************************)
(* Response rate limiting (core/security/rrl.cpp): identical responses to  *)
(* one network are counted in windows, in a table of bounded size like the *)
(* one of module RateLimiter.                                              *)
(*                                                                         *)
(* A fingerprint stands for the key built from network, rcode, type and    *)
(* counted_name().  Exempt clients and a cap of 0 return before any of     *)
(* this state is touched.  Module QueryLimits says when check() is called. *)
(***************************************************************************)
EXTENDS Integers, FiniteSetsExt

CONSTANTS
  Fingerprints,
  Cap,            \* responses_per_second times the seconds of a window
  slip, max_entries,
  window_,        \* in ticks
  Second,         \* in ticks
  MaxTime         \* bound: the clock stops here

VARIABLES
  now,
  entries_,       \* tracked fingerprint -> Entry
  overflow_, overflow_used_,
  last_sweep_,
  ideal,          \* history: fingerprint -> its own entry, had none been forgotten
  total           \* history: responses sent whole

New(t) == [window_start |-> t, sent |-> 0, excess |-> 0]

\* The machine has been up for a second when the first response goes out; the first
\* window of a fingerprint starts with its first response.
Init ==
  /\ now = Second
  /\ entries_ = [f \in {} |-> New(now)]
  /\ overflow_ = New(now) /\ overflow_used_ = FALSE
  /\ last_sweep_ = 0
  /\ ideal = [f \in Fingerprints |-> New(now - window_)]
  /\ total = 0

----------------------------------------------------------------------------
(* count() *)

Expired(e) == now - e.window_start >= window_

Current(e) == IF Expired(e) THEN New(now) ELSE e

\* The excess only matters modulo slip, and sent up to Cap + 1.
Counted(e) ==
  LET c == Current(e) IN
  IF c.sent < Cap THEN [c EXCEPT !.sent = @ + 1]
  ELSE [window_start |-> c.window_start, sent |-> Cap + 1,
        excess |-> IF slip = 0 THEN 0 ELSE (c.excess + 1) % slip]

verdict(e) ==
  CASE Current(e).sent < Cap -> "Send"
    [] Current(e).sent >= Cap /\ slip > 0 /\ Counted(e).excess = 0 -> "Slip"
    [] OTHER -> "Drop"

----------------------------------------------------------------------------
(* check() *)

forget_expired(t) == [f \in {g \in DOMAIN t : ~Expired(t[g])} |-> t[f]]

TableFull(t) == Cardinality(DOMAIN t) >= max_entries

SweepDue == TableFull(entries_) /\ now - last_sweep_ >= Second

Overflow == IF overflow_used_ THEN overflow_ ELSE New(now)

\* The table as a new fingerprint finds it.
Kept == IF SweepDue THEN forget_expired(entries_) ELSE entries_

With(t, f, e) == [g \in DOMAIN t \cup {f} |-> IF g = f THEN e ELSE t[g]]

\* Fingerprint f is counted in an entry of its own.
CountsOwn(f) ==
  /\ ideal' = [ideal EXCEPT ![f] = Counted(@)]
  /\ UNCHANGED <<overflow_, overflow_used_>>

Total(e) == total' = IF verdict(e) = "Send" THEN total + 1 ELSE total

CheckTracked(f) ==
  /\ f \in DOMAIN entries_
  /\ entries_' = With(entries_, f, Counted(entries_[f]))
  /\ CountsOwn(f) /\ Total(entries_[f])
  /\ UNCHANGED last_sweep_

CheckNew(f) ==
  /\ f \notin DOMAIN entries_
  /\ last_sweep_' = IF SweepDue THEN now ELSE last_sweep_
  /\ IF TableFull(Kept)
       THEN /\ entries_' = Kept
            /\ overflow_' = Counted(Overflow) /\ overflow_used_' = TRUE
            /\ Total(Overflow)
            /\ UNCHANGED ideal
       ELSE /\ entries_' = With(Kept, f, Counted(New(now)))
            /\ CountsOwn(f) /\ Total(New(now))

check(f) == CheckTracked(f) \/ CheckNew(f)

----------------------------------------------------------------------------
Entry == [window_start : 0..MaxTime, sent : 0..(Cap + 1), excess : 0..slip]

Typed ==
  /\ Cardinality(DOMAIN entries_) <= max_entries
  /\ \A f \in DOMAIN entries_ : entries_[f] \in Entry
  /\ overflow_ \in Entry /\ overflow_used_ \in BOOLEAN /\ last_sweep_ \in 0..now

\* check() would count a response with fingerprint f in the shared entry.
Shares(f) == f \notin DOMAIN entries_ /\ TableFull(Kept)

\* The entry of its own it would count it in.
Own(f) == IF f \in DOMAIN entries_ THEN entries_[f] ELSE New(now)

\* No window of the table had ended a second ago.
Crowded == \A g \in DOMAIN Kept : now - Second - Kept[g].window_start < window_

\* A response counted in an entry of its own meets the verdict it would meet if no
\* entry had been forgotten.  One counted in the shared entry may meet another: its
\* own window is over, and the table is full of windows that were not a second ago.
NothingForgotten ==
  \A f \in Fingerprints :
    IF Shares(f) THEN Expired(ideal[f]) /\ Crowded
    ELSE verdict(ideal[f]) = verdict(Own(f))

\* What max_entries fingerprints and one more would get.
WithinLimit == total <= (max_entries + 1) * Cap * ((now - Second) \div window_ + 1)
==============================================================================

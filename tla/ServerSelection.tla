--------------------------- MODULE ServerSelection ---------------------------
(***************************************************************************)
(* What is remembered of the servers asked, and which is asked next        *)
(* (core/resolver/server_selection.cpp).                                   *)
(*                                                                         *)
(* Time matters only as the age of an entry against kForgetAfter, so an    *)
(* entry has its age, which stops at "older".  updates_ matters modulo     *)
(* kPruneEvery, and failures up to kMaxFailures.                           *)
(***************************************************************************)
EXTENDS Integers, FiniteSetsExt

CONSTANTS
  Servers,
  Rtts,        \* round trips, in ticks
  Ceilings,    \* longest waits, in milliseconds, callers ask for
  TicksPerMs,
  kUnmeasured, kTimeoutPenalty, kMaxSrtt, kMaxFailures, kMinTimeout, kForgetAfter, kPruneEvery

SelectionConstants ==
  /\ Rtts \subseteq Nat   \* may exceed kMaxSrtt: max_query_timeout_ms has no upper limit
  /\ Ceilings \subseteq Nat /\ {kUnmeasured, kTimeoutPenalty, kMaxSrtt, kMinTimeout} \subseteq Nat
  /\ kUnmeasured <= kMaxSrtt
  /\ {TicksPerMs, kMaxFailures, kForgetAfter, kPruneEvery} \subseteq Nat \ {0}

VARIABLES
  servers_,  \* known server -> Info
  updates_

vars == <<servers_, updates_>>

Unknown == [measured |-> FALSE, srtt |-> 0, rttvar |-> 0, failures |-> 0, age |-> 0]

Init == servers_ = [s \in {} |-> Unknown] /\ updates_ = 0

Forgotten(info) == info.age > kForgetAfter

Tick ==
  /\ servers_' = [s \in DOMAIN servers_ |->
                    [servers_[s] EXCEPT !.age = Min({@ + 1, kForgetAfter + 1})]]
  /\ UNCHANGED updates_

----------------------------------------------------------------------------
(* What is known of a server *)

fresh(s) == s \in DOMAIN servers_ /\ ~Forgotten(servers_[s])

entry(s) == IF fresh(s) THEN servers_[s] ELSE Unknown

Prune(f) == [s \in {t \in DOMAIN f : ~Forgotten(f[t])} |-> f[s]]

\* touched(): a sweep every kPruneEvery updates.
touched(s, info) ==
  LET new == [t \in DOMAIN servers_ \cup {s} |->
                IF t = s THEN [info EXCEPT !.age = 0] ELSE servers_[t]]
  IN  /\ updates_' = (updates_ + 1) % kPruneEvery
      /\ servers_' = IF updates_' = 0 THEN Prune(new) ELSE new

----------------------------------------------------------------------------
(* Recording *)

Abs(n) == IF n < 0 THEN -n ELSE n

\* A clean sample (RFC 6298 2.2, 2.3).
Sampled(info, rtt) ==
  IF info.measured
    THEN [info EXCEPT !.rttvar = (3 * @ + Abs(info.srtt - rtt)) \div 4,
                      !.srtt = (7 * @ + rtt) \div 8]
    ELSE [info EXCEPT !.measured = TRUE, !.srtt = rtt, !.rttvar = rtt \div 2]

record_answer(s, rtt) == touched(s, [Sampled(entry(s), rtt) EXCEPT !.failures = 0])

\* Over TCP there is no sample.
record_tcp_answer(s) == touched(s, [entry(s) EXCEPT !.failures = 0])

OneMore(failures) == Min({failures + 1, kMaxFailures})

record_unusable(s) == touched(s, [entry(s) EXCEPT !.failures = OneMore(@)])

Penalised(srtt) == Min({srtt + kTimeoutPenalty, kMaxSrtt})

record_failure(s) ==
  LET info == entry(s)
      srtt == IF info.measured THEN info.srtt ELSE kUnmeasured
  IN  touched(s, [info EXCEPT !.measured = TRUE, !.srtt = Penalised(srtt),
                              !.failures = OneMore(@)])

----------------------------------------------------------------------------
(* Choosing *)

Srtt(s) == IF fresh(s) /\ servers_[s].measured THEN servers_[s].srtt ELSE kUnmeasured

Deprioritised(s) == fresh(s) /\ servers_[s].failures >= kMaxFailures

SrttOnly(s, t) == Srtt(s) < Srtt(t)   \* wrong: a dead server that was fast comes first

\* The order of pick()'s Rank pairs.
RanksBefore(s, t) ==
  \/ ~Deprioritised(s) /\ Deprioritised(t)
  \/ (Deprioritised(s) <=> Deprioritised(t)) /\ Srtt(s) < Srtt(t)

\* The servers pick() chooses from at random: any, if it explores (the draw of one in
\* explore_one_in_ says so), otherwise those nobody ranks before.
pick(candidates, explores) ==
  IF explores /\ Cardinality(candidates) > 1 THEN candidates
  ELSE {s \in candidates : \A t \in candidates : ~RanksBefore(t, s)}

Floor(ceiling) == Min({kMinTimeout, ceiling})

\* std::clamp
Clamped(rto, ceiling) == Max({Min({rto, ceiling}), Floor(ceiling)})

timeout(s, ceiling) ==
  IF fresh(s) /\ servers_[s].measured
    THEN Clamped((servers_[s].srtt + 4 * servers_[s].rttvar + TicksPerMs - 1) \div TicksPerMs,
                 ceiling)
    ELSE ceiling

----------------------------------------------------------------------------
Record(s) ==
  \/ \E rtt \in Rtts : record_answer(s, rtt)
  \/ record_tcp_answer(s)
  \/ record_unusable(s)
  \/ record_failure(s)

Next == Tick \/ \E s \in Servers : Record(s)

Spec == Init /\ [][Next]_vars

----------------------------------------------------------------------------
Worst == Max({kMaxSrtt} \cup Rtts)

\* The repeated effect of a clean sample.
AfterSamples(info, rtt, count) ==
  LET f[n \in 0..count] == IF n = 0 THEN info ELSE Sampled(f[n - 1], rtt) IN f[count]

\* Every variable keeps its type; smoothing and penalties keep srtt within kMaxSrtt, or
\* the slowest answer there was.  "penalties stop adding up, so a revived server can
\* recover": however long a server failed, every quick answer lowers its estimate, never
\* below the answer's time, and a bounded number of them make it that of the answers.
Recovers ==
  /\ updates_ \in 0..(kPruneEvery - 1) /\ DOMAIN servers_ \subseteq Servers
  /\ \A s \in DOMAIN servers_ :
       /\ servers_[s].srtt \in 0..Worst /\ servers_[s].rttvar \in 0..Worst
       /\ servers_[s].failures \in 0..kMaxFailures /\ servers_[s].age \in 0..(kForgetAfter + 1)
       /\ \A rtt \in {r \in Rtts : servers_[s].measured /\ r < servers_[s].srtt} :
            /\ Sampled(servers_[s], rtt).srtt \in rtt..(servers_[s].srtt - 1)
            /\ AfterSamples(servers_[s], rtt, servers_[s].srtt - rtt).srtt = rtt

\* "The candidate to ask next: the lowest SRTT among those not deprioritised", when it
\* does not explore: one that failed kMaxFailures times in a row, however fast it was,
\* only if all did.  A pick that explores may be any, so one that was given up still
\* gets a chance to recover.  How long to wait for it lies between kMinTimeout and the
\* ceiling, and is the ceiling itself where that is below kMinTimeout.
ChoiceSound ==
  /\ \A candidates \in SUBSET Servers \ {{}} :
       LET trusted == {s \in candidates : ~Deprioritised(s)}
           usable == IF trusted = {} THEN candidates ELSE trusted
       IN  /\ pick(candidates, FALSE) = {s \in usable : Srtt(s) = Min({Srtt(t) : t \in usable})}
           /\ pick(candidates, TRUE) = candidates
  /\ \A s \in Servers, ceiling \in Ceilings :
       timeout(s, ceiling) <= ceiling /\ timeout(s, ceiling) >= Floor(ceiling)

\* Recording something of one server changes nothing known of another, also when
\* the record triggers the sweep, and survives that sweep itself.  "untouched this
\* long: unmeasured again": the first record after kForgetAfter is as if the server
\* had never been asked, whether or not a sweep came in between.
MemoryExact(s) ==
  /\ s \in DOMAIN servers_'
  /\ \A t \in Servers \ {s} : fresh(t) => t \in DOMAIN servers_' /\ servers_'[t] = servers_[t]
  /\ ~fresh(s) =>
       /\ servers_'[s].failures <= 1
       /\ servers_'[s].measured =>
            \/ servers_'[s].srtt \in Rtts /\ servers_'[s].rttvar = servers_'[s].srtt \div 2
            \/ servers_'[s].srtt = Min({kUnmeasured + kTimeoutPenalty, kMaxSrtt})
==============================================================================

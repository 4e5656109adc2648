----------------------------- MODULE LoopProofs -----------------------------
(***************************************************************************)
(* The event loop, and the TCP listener, which lives by it.  Events,       *)
(* timers and posted callbacks reach whom they are for, for any number of  *)
(* descriptors, registrations and timers, any delays and any resolution of *)
(* the clock.  The listener keeps its limits and its promises to clients,  *)
(* for any connections, clients and queries.                               *)
(***************************************************************************)
EXTENDS EventLoop, TcpListener, TLAPS, WellFoundedInduction

USE SMTT(60), SMTT(90)   \* a second try, should the machine be busy

\* A set of natural numbers has a least one.
LEMMA NatMin ==
  ASSUME NEW S, S \subseteq Nat, S # {}
  PROVE  \E m \in S : \A k \in S : m <= k
<1> DEFINE Less == {ss \in Nat \X Nat : ss[1] < ss[2]}
<1>1. IsWellFoundedOn(Less, Nat)
  BY NatLessThanWellFounded, Zenon DEF OpToRel
<1>2. PICK m \in S : \A k \in S : <<k, m>> \notin Less
  BY <1>1, WFMin, Zenon
<1>3. ASSUME NEW k \in S, k < m PROVE FALSE
  <2>1. <<k, m>> \in Nat \X Nat
    OBVIOUS
  <2>2. <<k, m>>[1] < <<k, m>>[2]
    BY <1>3
  <2> QED  BY <1>2, <2>1, <2>2, Zenon
<1> QED  BY <1>3

\* timers_.begin() is the first timer in the order of (deadline, id).
LEMMA FirstIsFirst ==
  ASSUME TimersTyped, timers_ # {}
  PROVE  First \in timers_ /\ \A s \in timers_ \ {First} : Before(First, s)
<1> DEFINE Deadlines == {t.deadline : t \in timers_}
<1>1. Deadlines \subseteq Nat /\ Deadlines # {}
  BY DEF TimersTyped
<1>2. PICK d \in Deadlines : \A e \in Deadlines : d <= e
  BY <1>1, NatMin, Zenon
<1> DEFINE Numbers == {t.id : t \in {u \in timers_ : u.deadline = d}}
<1>3. Numbers \subseteq Nat /\ Numbers # {}
  BY DEF TimersTyped
<1>4. PICK i \in Numbers : \A j \in Numbers : i <= j
  BY <1>3, NatMin, Zenon
<1>5. PICK t \in timers_ : t.deadline = d /\ t.id = i
  OBVIOUS
<1>6. ASSUME NEW s \in timers_ \ {t} PROVE Before(t, s)
  <2>1. s.id # t.id /\ s.id \in Nat /\ t.id \in Nat /\ s.deadline \in Nat /\ t.deadline \in Nat
    BY DEF TimersTyped
  <2>2. s.deadline \in Deadlines
    OBVIOUS
  <2>3. s.deadline = d => s.id \in Numbers
    OBVIOUS
  <2>4. t.deadline <= s.deadline
    BY <1>2, <1>5, <2>2
  <2>5. s.deadline = d => t.id <= s.id
    BY <1>4, <1>5, <2>3
  <2> QED  BY <1>5, <2>1, <2>4, <2>5 DEF Before
<1> QED  BY <1>5, <1>6, Zenon DEF First

\* Init establishes the invariant.
LEMMA LoopInitInv == Init => LoopInv
<1> SUFFICES ASSUME Init PROVE LoopInv
  OBVIOUS
<1>1. ~InRound /\ pc # "wait"
  BY DEF Init, InRound
<1>2. IterationTyped
  BY DEF Init, IterationTyped, NoIteration
<1> QED  BY <1>1, <1>2 DEF Init, LoopInv, TokensExact, TimersTyped, RoundExact, TimeoutExact

----------------------------------------------------------------------------
\* Registering takes a token of its own, and epoll_wait reports the tokens it was given.
LEMMA TokensKept == LoopInv /\ [Next]_vars => TokensExact'
<1> SUFFICES ASSUME TokensExact, [Next]_vars PROVE TokensExact'
  BY DEF LoopInv
<1>1. CASE UNCHANGED <<watches_, batch>>
  BY <1>1 DEF TokensExact
<1>2. ASSUME NEW fd \in Fds, add_fd(fd) PROVE TokensExact'
  BY <1>2 DEF TokensExact, add_fd, NewToken
<1>3. ASSUME NEW fd \in Fds, remove_fd(fd) PROVE TokensExact'
  BY <1>3 DEF TokensExact, remove_fd
<1>4. CASE Collect
  <2>1. PICK got \in SUBSET watches_ :
          batch' = {[token |-> w.token, call |-> w.call] : w \in got}
                      \cup (IF wake THEN {[token |-> kWakeToken, call |-> 0]} ELSE {})
    BY <1>4, Zenon DEF Collect
  <2>2. ASSUME NEW e \in batch' PROVE e.token = e.call
    <3>1. CASE e \in {[token |-> w.token, call |-> w.call] : w \in got}
      BY <3>1 DEF TokensExact
    <3>2. CASE e = [token |-> kWakeToken, call |-> 0]
      BY <3>2 DEF kWakeToken
    <3> QED  BY <2>1, <3>1, <3>2, Zenon
  <2>3. watches_' = watches_
    BY <1>4 DEF Collect, watching
  <2> QED  BY <2>2, <2>3 DEF TokensExact
<1>5. CASE TimesOut \/ Interrupted \/ \E e \in batch : Dispatch(e)
  <2>1. watches_' = watches_ /\ batch' \subseteq batch
    BY <1>5, Zenon DEF TimesOut, Interrupted, Dispatch, watching
  <2> QED  BY <2>1 DEF TokensExact
<1>6. CASE \/ CheckStop \/ Exit \/ StartRound \/ FireTimer \/ EndRound \/ CallbackReturns
           \/ (\E delay \in Delays : add_timer(delay)) \/ (\E t \in timers_ : cancel_timer(t))
           \/ RunCalled \/ StopCalled \/ StopStep \/ Tick \/ UNCHANGED vars
  BY <1>1, <1>6, Zenon
  DEF CheckStop, Exit, StartRound, FireTimer, EndRound, CallbackReturns, add_timer, cancel_timer,
      RunCalled, StopCalled, StopStep, Tick, vars, watching
<1> QED  BY <1>2, <1>3, <1>4, <1>5, <1>6 DEF Next, LoopStep

----------------------------------------------------------------------------
\* Steps of the loop, or of stop(), that leave clock and timers alone.
Untimed ==
  \/ CheckStop \/ Exit \/ Collect \/ TimesOut \/ Interrupted \/ (\E e \in batch : Dispatch(e))
  \/ StartRound \/ EndRound \/ CallbackReturns \/ RunCalled \/ StopCalled \/ StopStep
  \/ \E fd \in Fds : add_fd(fd) \/ remove_fd(fd)

\* The steps by what they do to timers.
LEMMA TimedSteps ==
  ASSUME [Next]_vars
  PROVE  \/ UNCHANGED <<now, timing>> /\ (Untimed \/ UNCHANGED vars)
         \/ Tick \/ FireTimer
         \/ (\E delay \in Delays : add_timer(delay)) \/ (\E t \in timers_ : cancel_timer(t))
<1>1. CASE UNCHANGED vars
  BY <1>1 DEF vars
<1>2. CASE Untimed
  BY <1>2, Zenon
  DEF Untimed, CheckStop, Exit, Collect, TimesOut, Interrupted, Dispatch, StartRound, EndRound,
      CallbackReturns, RunCalled, StopCalled, StopStep, add_fd, remove_fd
<1> QED  BY <1>1, <1>2, Zenon DEF Next, LoopStep, Untimed

\* Numbers are never used again.
LEMMA TimersKept == LoopInv /\ [Next]_vars => TimersTyped'
<1> SUFFICES ASSUME TimersTyped, [Next]_vars PROVE TimersTyped'
  BY DEF LoopInv
<1>1. CASE UNCHANGED <<now, timing>>
  BY <1>1 DEF TimersTyped, timing
<1>2. CASE Tick
  BY <1>2 DEF TimersTyped, Tick, timing
<1>3. CASE FireTimer \/ \E t \in timers_ : cancel_timer(t)
  <2>1. UNCHANGED <<now, next_timer_id_>> /\ timers_' \subseteq timers_
    BY <1>3, Zenon DEF FireTimer, cancel_timer
  <2> QED  BY <2>1 DEF TimersTyped
<1>4. ASSUME NEW delay \in Delays, add_timer(delay) PROVE TimersTyped'
  <2>1. /\ timers_' = timers_ \cup {[deadline |-> now + delay, id |-> next_timer_id_]}
        /\ next_timer_id_' = next_timer_id_ + 1 /\ now' = now
    BY <1>4, Zenon DEF add_timer
  <2>2. delay \in Nat
    BY LoopConstants
  <2> QED  BY <2>1, <2>2 DEF TimersTyped
<1> QED  BY <1>1, <1>2, <1>3, <1>4, TimedSteps

\* An iteration remembers the clock and the ids of its moment.
LEMMA IterationKept == LoopInv /\ [Next]_vars => IterationTyped'
<1> SUFFICES ASSUME TimersTyped, IterationTyped, [Next]_vars PROVE IterationTyped'
  BY DEF LoopInv
<1>1. next_timer_id_ \in Nat /\ next_timer_id_' \in Nat /\ next_timer_id_ <= next_timer_id_' /\ now \in Nat
  <2>1. next_timer_id_' = next_timer_id_ \/ next_timer_id_' = next_timer_id_ + 1
    BY TimedSteps, Zenon DEF timing, Tick, FireTimer, add_timer, cancel_timer
  <2> QED  BY <2>1 DEF TimersTyped
<1>2. CASE iteration' = iteration
  BY <1>1, <1>2 DEF IterationTyped
<1>3. CASE iteration' = NoIteration
  BY <1>1, <1>3 DEF IterationTyped, NoIteration
<1>4. CASE iteration' = [since |-> now, newest |-> next_timer_id_]
  BY <1>1, <1>4 DEF IterationTyped
<1>5. CASE iteration' = [iteration EXCEPT !.since = 0]
  BY <1>1, <1>5 DEF IterationTyped
<1>6. CASE CheckStop \/ EndRound
  BY <1>3, <1>4, <1>6, Zenon DEF CheckStop, EndRound
<1>7. CASE Collect \/ TimesOut \/ Interrupted
  BY <1>5, <1>7, Zenon DEF Collect, TimesOut, Interrupted
<1>8. CASE ~(CheckStop \/ EndRound \/ Collect \/ TimesOut \/ Interrupted)
  <2>1. iteration' = iteration
    BY <1>8, TimedSteps, Zenon
    DEF Untimed, Exit, Dispatch, StartRound, CallbackReturns, RunCalled, StopCalled, StopStep,
        add_fd, remove_fd, add_timer, cancel_timer, FireTimer, Tick, vars
  <2> QED  BY <1>2, <2>1
<1> QED  BY <1>6, <1>7, <1>8

\* A round starts with the clock and the ids of its moment, and timers are added to it
\* only for later.
LEMMA RoundKept == LoopInv /\ [Next]_vars => RoundExact'
<1> SUFFICES ASSUME TimersTyped, IterationTyped, RoundExact, [Next]_vars, InRound'
             PROVE  RoundExact'
  BY Zenon DEF LoopInv, RoundExact
<1>1. CASE StartRound
  <2>1. /\ UNCHANGED <<now, timers_, next_timer_id_, iteration>>
        /\ round' = [now |-> now, newest |-> next_timer_id_]
    BY <1>1, Zenon DEF StartRound, timing
  <2> QED  BY <2>1 DEF TimersTyped, IterationTyped, RoundExact
<1>2. CASE UNCHANGED <<now, timing, round, iteration>> /\ InRound
  BY <1>2 DEF RoundExact, timing
<1>3. CASE UNCHANGED <<now, timing>> /\ (Untimed \/ UNCHANGED vars)
  <2>1. StartRound \/ (UNCHANGED <<round, iteration>> /\ InRound)
    BY <1>3, Zenon
    DEF Untimed, CheckStop, Exit, Collect, TimesOut, Interrupted, Dispatch, EndRound,
        CallbackReturns, InCallback, InRound, RunCalled, StopCalled, StopStep, add_fd, remove_fd, vars
  <2> QED  BY <1>1, <1>2, <1>3, <2>1
<1>4. CASE Tick
  <2>1. now' = now + 1 /\ UNCHANGED <<timers_, next_timer_id_, round, iteration>> /\ InRound
    BY <1>4, Zenon DEF Tick, timing, InRound
  <2> QED  BY <2>1 DEF TimersTyped, RoundExact
<1>5. CASE FireTimer \/ \E t \in timers_ : cancel_timer(t)
  <2>1. /\ UNCHANGED <<now, next_timer_id_, round, iteration>> /\ timers_' \subseteq timers_
        /\ InRound
    BY <1>5, Zenon DEF FireTimer, cancel_timer, InRound
  <2> QED  BY <2>1 DEF RoundExact
<1>6. ASSUME NEW delay \in Delays, add_timer(delay) PROVE RoundExact'
  <2>1. /\ timers_' = timers_ \cup {[deadline |-> now + delay, id |-> next_timer_id_]}
        /\ next_timer_id_' = next_timer_id_ + 1 /\ UNCHANGED <<now, round, iteration>> /\ InRound
    BY <1>6, Zenon DEF add_timer, InRound
  <2>2. delay \in Nat
    BY LoopConstants
  <2> QED  BY <2>1, <2>2 DEF TimersTyped, IterationTyped, RoundExact
<1> QED  BY <1>3, <1>4, <1>5, <1>6, TimedSteps

\* next_timeout_ms() rounds up, by less than a millisecond.
LEMMA RoundsUp ==
  ASSUME NEW delay \in Nat
  PROVE  /\ Milliseconds(delay) \in Nat
         /\ Milliseconds(delay) * TicksPerMs >= delay
         /\ Milliseconds(delay) * TicksPerMs < delay + TicksPerMs
  BY LoopConstants DEF Milliseconds

\* Longer in milliseconds is longer in ticks.
LEMMA TicksGrow ==
  ASSUME NEW a \in Nat, NEW b \in Nat, a <= b
  PROVE  a * TicksPerMs \in Nat /\ a * TicksPerMs <= b * TicksPerMs
  BY LoopConstants

\* What next_timeout_ms() makes of the first timer, which may be due already or be
\* too far off for one call of epoll_wait.
LEMMA TimeoutIs ==
  ASSUME TimersTyped, timers_ # {}
  PROVE  LET ticks == next_timeout_ms * TicksPerMs
             wait == First.deadline - now IN
         /\ ticks \in Nat /\ next_timeout_ms # Block
         /\ wait <= 0 => ticks = 0
         /\ wait > 0 => ticks < wait + TicksPerMs /\ (ticks >= wait \/ ticks = INT_MAX * TicksPerMs)
<1>1. First \in timers_ /\ First.deadline \in Nat /\ now \in Nat
  BY FirstIsFirst DEF TimersTyped
<1>2. CASE First.deadline <= now
  <2>1. next_timeout_ms = 0
    BY <1>2 DEF next_timeout_ms
  <2> QED  BY <1>1, <1>2, <2>1, LoopConstants DEF Block
<1>3. CASE ~(First.deadline <= now)
  <2>1. PICK wait \in Nat : wait = First.deadline - now /\ wait > 0
    BY <1>1, <1>3
  <2>2. PICK ms \in Nat : ms = Milliseconds(wait)
    BY RoundsUp
  <2>3. ms * TicksPerMs >= wait /\ ms * TicksPerMs < wait + TicksPerMs
    BY <2>2, RoundsUp
  <2>4. next_timeout_ms = IF ms <= INT_MAX THEN ms ELSE INT_MAX
    BY <1>3, <2>1, <2>2 DEF next_timeout_ms
  <2>5. CASE ms <= INT_MAX
    <3>1. next_timeout_ms = ms /\ ms * TicksPerMs \in Nat
      BY <2>4, <2>5, LoopConstants
    <3> QED  BY <2>1, <2>3, <3>1 DEF Block
  <2>6. CASE ~(ms <= INT_MAX)
    <3>1. next_timeout_ms = INT_MAX /\ INT_MAX \in Nat /\ INT_MAX <= ms
      BY <2>4, <2>6, LoopConstants
    <3>2. INT_MAX * TicksPerMs \in Nat /\ INT_MAX * TicksPerMs <= ms * TicksPerMs
      BY <3>1, TicksGrow, Zenon
    <3>3. ms * TicksPerMs \in Nat /\ TicksPerMs \in Nat
      BY LoopConstants
    <3>4. PICK most \in Nat : most = INT_MAX * TicksPerMs
      BY <3>2
    <3>5. PICK all \in Nat : all = ms * TicksPerMs
      BY <3>3
    <3>6. most < wait + TicksPerMs
      BY <2>3, <3>2, <3>3, <3>4, <3>5
    <3> QED  BY <2>1, <3>1, <3>4, <3>6 DEF Block
  <2> QED  BY <2>5, <2>6
<1> QED  BY <1>2, <1>3

\* run() goes into epoll_wait.
LEMMA WaitBegins ==
  ASSUME TimersTyped, CheckStop, pc' = "wait" PROVE TimeoutExact'
<1>1. /\ ~stop_requested_ /\ timers_' = timers_
      /\ timeout' = (IF next_timeout_ms = Block THEN Block ELSE now + next_timeout_ms * TicksPerMs)
      /\ iteration' = [since |-> now, newest |-> next_timer_id_]
  <2>1. ~stop_requested_
    BY DEF CheckStop
  <2> QED  BY <2>1, Zenon DEF CheckStop, timing
<1>2. iteration'.since = now
  BY <1>1
<1>3. CASE timers_ = {}
  <2>1. timeout' = Block
    BY <1>1, <1>3, Zenon DEF next_timeout_ms
  <2> QED  BY <1>1, <1>3, <2>1 DEF TimeoutExact, NoOversleep
<1>4. CASE timers_ # {}
  <2>1. First \in timers_ /\ First.deadline \in Nat /\ now \in Nat /\ TicksPerMs \in Nat
    BY <1>4, FirstIsFirst, LoopConstants DEF TimersTyped
  <2>2. ASSUME NEW t \in timers_ PROVE t.deadline \in Nat /\ First.deadline <= t.deadline
    <3>1. t = First \/ Before(First, t)
      BY <1>4, FirstIsFirst
    <3>2. t.deadline \in Nat
      BY DEF TimersTyped
    <3> QED  BY <2>1, <3>1, <3>2 DEF Before
  <2>3. PICK ticks \in Nat : ticks = next_timeout_ms * TicksPerMs
    BY <1>4, TimeoutIs
  <2>4. PICK most : most = INT_MAX * TicksPerMs
    OBVIOUS
  <2>5. /\ next_timeout_ms # Block
        /\ First.deadline - now <= 0 => ticks = 0
        /\ First.deadline - now > 0 =>
             ticks < First.deadline - now + TicksPerMs /\ (ticks >= First.deadline - now \/ ticks = most)
    BY <1>4, <2>3, <2>4, TimeoutIs
  <2>6. timeout' = now + ticks
    BY <1>1, <2>3, <2>5, Zenon
  <2>7. timeout' \in Int /\ timeout' # Block
    BY <2>1, <2>6 DEF Block
  <2>8. First.deadline <= timeout' \/ timeout' >= now + most
    BY <2>1, <2>5, <2>6
  <2>9. ASSUME NEW t \in timers_ PROVE timeout' <= now \/ timeout' < t.deadline + TicksPerMs
    <3>1. t.deadline \in Nat /\ First.deadline <= t.deadline
      BY <2>2
    <3> QED  BY <2>1, <2>5, <2>6, <3>1
  <2>10. NoOversleep'
    BY <1>1, <1>2, <2>7, <2>9, Zenon DEF NoOversleep
  <2> QED  BY <1>1, <1>2, <2>1, <2>4, <2>7, <2>8, <2>10, Zenon DEF TimeoutExact
<1> QED  BY <1>3, <1>4

\* epoll_wait is given a timeout that ends when the first timer is due, or later, and
\* no timer is added or cancelled before it returns.
LEMMA TimeoutKept == LoopInv /\ [Next]_vars => TimeoutExact'
<1> SUFFICES ASSUME TimersTyped, TimeoutExact, [Next]_vars, pc' = "wait"
             PROVE  TimeoutExact'
  BY Zenon DEF LoopInv, TimeoutExact
<1>1. CASE CheckStop
  BY <1>1, WaitBegins, Zenon
<1>2. CASE pc = "wait" /\ UNCHANGED <<timeout, timers_, iteration>>
  BY <1>2, Zenon DEF TimeoutExact, NoOversleep
<1>3. CASE Tick
  BY <1>2, <1>3, Zenon DEF Tick, timing
<1>4. CASE UNCHANGED <<now, timing>> /\ (Untimed \/ UNCHANGED vars)
  <2>1. CheckStop \/ (pc = "wait" /\ UNCHANGED <<timeout, timers_, iteration>>)
    BY <1>4, Zenon
    DEF Untimed, Exit, Collect, TimesOut, Interrupted, Dispatch, StartRound, EndRound,
        CallbackReturns, InCallback, UserCode, RunCalled, StopCalled, StopStep, add_fd, remove_fd,
        vars, timing
  <2> QED  BY <1>1, <1>2, <2>1
<1>5. CASE \/ FireTimer \/ (\E delay \in Delays : add_timer(delay))
           \/ \E t \in timers_ : cancel_timer(t)
  <2>1. FALSE
    BY <1>5, Zenon DEF FireTimer, add_timer, cancel_timer, UserCode, InCallback
  <2> QED  BY <2>1
<1> QED  BY <1>3, <1>4, <1>5, TimedSteps

\* Every step keeps the invariant.
LEMMA LoopNextInv == LoopInv /\ [Next]_vars => LoopInv'
  BY TokensKept, TimersKept, IterationKept, RoundKept, TimeoutKept DEF LoopInv

----------------------------------------------------------------------------
\* dispatch_io() finds, by an event's token, the registration it was collected for.
LEMMA EventsExact == LoopInv /\ [Next]_vars => [EventExact]_vars
<1> SUFFICES ASSUME TokensExact, Next, NEW e \in batch, pc' = "io callback", e \notin batch'
             PROVE  \E w \in watches_ : w.token = e.token /\ w.call = e.call
  BY Zenon DEF LoopInv, EventExact
<1>1. ASSUME NEW f \in batch, Dispatch(f)
      PROVE  \E w \in watches_ : w.token = e.token /\ w.call = e.call
  <2>1. e = f /\ f.token \in Tokens
    BY <1>1, Zenon DEF Dispatch
  <2> QED  BY <2>1, Zenon DEF Tokens, TokensExact
<1>2. CASE \/ CheckStop \/ Exit \/ TimesOut \/ StartRound \/ Collect \/ Interrupted
           \/ CallbackReturns \/ EndRound \/ FireTimer
  <2>1. FALSE
    BY <1>2, Zenon
    DEF CheckStop, Exit, TimesOut, StartRound, Collect, Interrupted, CallbackReturns, EndRound,
        FireTimer
  <2> QED  BY <2>1, Zenon
<1>3. CASE ~\/ CheckStop \/ Exit \/ TimesOut \/ StartRound \/ Collect \/ Interrupted
            \/ CallbackReturns \/ EndRound \/ FireTimer \/ \E f \in batch : Dispatch(f)
  <2>1. batch' = batch
    BY <1>3, Zenon
    DEF Next, LoopStep, add_fd, remove_fd, add_timer, cancel_timer, RunCalled, StopCalled, StopStep,
        Tick
  <2> QED  BY <2>1, Zenon
<1> QED  BY <1>1, <1>2, <1>3, Zenon

\* "a stale event can never reach a newer registration of the same fd", however often
\* callbacks remove and add descriptors, under whichever numbers.
THEOREM EventsReachTheirOwn == Spec => NoStaleEvent
  BY LoopInitInv, LoopNextInv, EventsExact, PTL DEF Spec, NoStaleEvent

\* What run_due_timers() takes from the front of timers_ is due and the first.
LEMMA FiresExact == ASSUME LoopInv, FireTimer PROVE FireExact
<1>1. /\ timers_ # {} /\ FiresInRound(First) /\ timers_' = timers_ \ {First} /\ InRound
  BY Zenon DEF FireTimer, InRound
<1>2. First \in timers_ /\ \A s \in timers_ \ {First} : Before(First, s)
  BY <1>1, FirstIsFirst DEF LoopInv
<1>3. First.deadline <= round.now /\ First.id < round.newest
  BY <1>1, Zenon DEF FiresInRound
<1>4. First.deadline <= now
  BY <1>1, <1>2, <1>3 DEF LoopInv, TimersTyped, RoundExact
<1> QED  BY <1>1, <1>2, <1>3, <1>4, Zenon DEF FireExact

\* When the first timer is not for this round, none is.
LEMMA EndsExact == ASSUME LoopInv, EndRound PROVE EndExact
<1> SUFFICES ASSUME NEW t \in timers_, t.id < iteration.newest, ~(t.deadline > round.now)
             PROVE  FALSE
  BY Zenon DEF EndExact
<1>1. ~FiresInRound(First) /\ InRound
  BY Zenon DEF EndRound, InRound
<1>2. First \in timers_ /\ (t = First \/ Before(First, t))
  BY FirstIsFirst DEF LoopInv
<1>3. /\ {t.deadline, t.id, First.deadline, First.id, round.now, round.newest, iteration.newest} \subseteq Nat
      /\ iteration.newest <= round.newest
      /\ First.id >= round.newest => First.deadline >= round.now
  BY <1>1, <1>2 DEF LoopInv, TimersTyped, IterationTyped, RoundExact
<1> QED  BY <1>1, <1>2, <1>3 DEF FiresInRound, Before

\* run_due_timers() and epoll_wait's timeout, step by step.
LEMMA RoundsExact == LoopInv /\ [Next]_vars => [FireExact /\ EndExact /\ WakesForTimer /\ NoOversleep]_vars
<1> SUFFICES ASSUME LoopInv, Next PROVE FireExact /\ EndExact /\ WakesForTimer /\ NoOversleep
  OBVIOUS
<1>1. FireExact
  <2>1. pc = "timers" /\ pc' = "timer callback" => FireTimer
    BY Zenon
    DEF Next, LoopStep, CheckStop, Exit, TimesOut, Dispatch, StartRound, EndRound, CallbackReturns,
        InCallback, Collect, Interrupted, add_fd, remove_fd, add_timer, cancel_timer, RunCalled,
        StopCalled, StopStep, Tick
  <2> QED  BY <2>1, FiresExact, Zenon DEF FireExact
<1>2. EndExact
  <2>1. pc = "timers" /\ pc' = "check" => EndRound
    BY Zenon
    DEF Next, LoopStep, CheckStop, Exit, TimesOut, Dispatch, StartRound, FireTimer, CallbackReturns,
        InCallback, Collect, Interrupted, add_fd, remove_fd, add_timer, cancel_timer, RunCalled,
        StopCalled, StopStep, Tick
  <2> QED  BY <2>1, EndsExact, Zenon DEF EndExact
<1>3. WakesForTimer
  <2> SUFFICES ASSUME TimesOut, ~LastsAsLongAsItCan PROVE \E t \in timers_ : t.deadline <= now
    BY DEF WakesForTimer
  <2>1. timeout <= now /\ pc = "wait" /\ timeout # Block
    BY Zenon DEF TimesOut
  <2>2. /\ timeout \in Int
        /\ (\E t \in timers_ : t.deadline <= timeout) \/ timeout >= iteration.since + INT_MAX * TicksPerMs
    BY <2>1, Zenon DEF LoopInv, TimeoutExact
  <2>3. now \in Int /\ iteration.since + INT_MAX * TicksPerMs \in Int
    BY LoopConstants DEF LoopInv, TimersTyped, IterationTyped
  <2>4. ~(timeout >= iteration.since + INT_MAX * TicksPerMs)
    BY <2>1, <2>2, <2>3 DEF LastsAsLongAsItCan
  <2>5. PICK t \in timers_ : t.deadline <= timeout
    BY <2>2, <2>4
  <2>6. t.deadline \in Int
    BY <2>5 DEF LoopInv, TimersTyped
  <2> QED  BY <2>1, <2>2, <2>3, <2>5, <2>6
<1>4. NoOversleep
  BY Zenon DEF LoopInv, TimeoutExact, NoOversleep
<1> QED  BY <1>1, <1>2, <1>3, <1>4

\* A round fires timers that are due and were there when it began, first deadline
\* first, and all that were there when the iteration began; epoll_wait never times out
\* before a timer is due, unless it can wait no longer, nor a millisecond or more after
\* one: whatever callbacks add and cancel, and however coarse milliseconds are.
THEOREM RoundsFireWhatIsDue == Spec => RoundsAreExact
  BY LoopInitInv, LoopNextInv, RoundsExact, PTL DEF Spec, RoundsAreExact

----------------------------------------------------------------------------
(* The TCP listener: what is left of a handler *)

Calls == {"process_messages", "flush", "update"}

\* Two sequences in a row: what calling one function after another leaves to do.
LEMMA InARow ==
  ASSUME NEW S, NEW s \in Seq(S), NEW t \in Seq(S), NEW u \in Seq(S),
         Len(u) = Len(s) + Len(t),
         \A i \in 1..Len(s) : u[i] = s[i],
         \A i \in 1..Len(t) : u[Len(s) + i] = t[i]
  PROVE  s \o t = u
  <1>1. s \o t \in Seq(S) /\ Len(s \o t) = Len(s) + Len(t)
    OBVIOUS
  <1>2. \A i \in 1..Len(u) : (s \o t)[i] = u[i]
    OBVIOUS
  <1>3. PICK v \in Seq(S) : v = s \o t
    BY <1>1, Zenon
  <1>4. Len(v) = Len(u) /\ \A i \in 1..Len(u) : v[i] = u[i]
    BY <1>1, <1>2, <1>3, Zenon
  <1>5. v \in [1..Len(u) -> S] /\ u \in [1..Len(u) -> S]
    BY <1>4
  <1>6. v = u
    BY <1>4, <1>5
  <1> QED BY <1>3, <1>6, Zenon

\* One call and another.
LEMMA OneThenOne ==
  ASSUME NEW S, NEW a \in S, NEW b \in S
  PROVE  <<a>> \o <<b>> = <<a, b>>
  <1> DEFINE s == <<a>> t == <<b>> u == <<a, b>>
  <1>1. s \in Seq(S) /\ t \in Seq(S) /\ u \in Seq(S) /\ Len(s) = 1 /\ Len(t) = 1 /\ Len(u) = 2
    OBVIOUS
  <1>2. /\ s[1] = a /\ t[1] = b
        /\ u[1] = a /\ u[2] = b
    OBVIOUS
  <1> HIDE DEF s, t, u
  <1>3. /\ Len(u) = Len(s) + Len(t)
        /\ \A i \in 1..Len(s) : u[i] = s[i]
        /\ \A i \in 1..Len(t) : u[Len(s) + i] = t[i]
    BY <1>1, <1>2
  <1>4. s \o t = u
    BY <1>1, <1>3, InARow, Zenon
  <1> QED BY <1>4 DEF s, t, u

\* Two calls and another.
LEMMA TwoThenOne ==
  ASSUME NEW S, NEW a \in S, NEW b \in S, NEW c \in S
  PROVE  <<a, b>> \o <<c>> = <<a, b, c>>
  <1> DEFINE s == <<a, b>> t == <<c>> u == <<a, b, c>>
  <1>1. s \in Seq(S) /\ t \in Seq(S) /\ u \in Seq(S) /\ Len(s) = 2 /\ Len(t) = 1 /\ Len(u) = 3
    OBVIOUS
  <1>2. /\ s[1] = a /\ s[2] = b /\ t[1] = c
        /\ u[1] = a /\ u[2] = b /\ u[3] = c
    OBVIOUS
  <1> HIDE DEF s, t, u
  <1>3. /\ Len(u) = Len(s) + Len(t)
        /\ \A i \in 1..Len(s) : u[i] = s[i]
        /\ \A i \in 1..Len(t) : u[Len(s) + i] = t[i]
    BY <1>1, <1>2
  <1>4. s \o t = u
    BY <1>1, <1>3, InARow, Zenon
  <1> QED BY <1>4 DEF s, t, u

\* Two calls and two more.
LEMMA TwoThenTwo ==
  ASSUME NEW S, NEW a \in S, NEW b \in S, NEW c \in S, NEW d \in S
  PROVE  <<a, b>> \o <<c, d>> = <<a, b, c, d>>
  <1> DEFINE s == <<a, b>> t == <<c, d>> u == <<a, b, c, d>>
  <1>1. s \in Seq(S) /\ t \in Seq(S) /\ u \in Seq(S) /\ Len(s) = 2 /\ Len(t) = 2 /\ Len(u) = 4
    OBVIOUS
  <1>2. /\ s[1] = a /\ s[2] = b /\ t[1] = c /\ t[2] = d
        /\ u[1] = a /\ u[2] = b /\ u[3] = c /\ u[4] = d
    OBVIOUS
  <1> HIDE DEF s, t, u
  <1>3. /\ Len(u) = Len(s) + Len(t)
        /\ \A i \in 1..Len(s) : u[i] = s[i]
        /\ \A i \in 1..Len(t) : u[Len(s) + i] = t[i]
    BY <1>1, <1>2
  <1>4. s \o t = u
    BY <1>1, <1>3, InARow, Zenon
  <1> QED BY <1>4 DEF s, t, u

\* Two calls and three more.
LEMMA TwoThenThree ==
  ASSUME NEW S, NEW a \in S, NEW b \in S, NEW c \in S, NEW d \in S, NEW e \in S
  PROVE  <<a, b>> \o <<c, d, e>> = <<a, b, c, d, e>>
  <1> DEFINE s == <<a, b>> t == <<c, d, e>> u == <<a, b, c, d, e>>
  <1>1. s \in Seq(S) /\ t \in Seq(S) /\ u \in Seq(S) /\ Len(s) = 2 /\ Len(t) = 3 /\ Len(u) = 5
    OBVIOUS
  <1>2. /\ s[1] = a /\ s[2] = b /\ t[1] = c /\ t[2] = d /\ t[3] = e
        /\ u[1] = a /\ u[2] = b /\ u[3] = c /\ u[4] = d /\ u[5] = e
    OBVIOUS
  <1> HIDE DEF s, t, u
  <1>3. /\ Len(u) = Len(s) + Len(t)
        /\ \A i \in 1..Len(s) : u[i] = s[i]
        /\ \A i \in 1..Len(t) : u[Len(s) + i] = t[i]
    BY <1>1, <1>2
  <1>4. s \o t = u
    BY <1>1, <1>3, InARow, Zenon
  <1> QED BY <1>4 DEF s, t, u

\* read_from() and on_event() leave one of the handlers to do.
LEMMA ReadLeaves ==
  /\ <<"process_messages">> \o <<>> \o <<"update">> = <<"process_messages", "update">>
  /\ <<"process_messages">> \o <<"flush">> \o <<"update">> = <<"process_messages", "flush", "update">>
  /\ <<>> \o <<"update">> = <<"update">>
  /\ <<"flush">> \o <<"update">> = <<"flush", "update">>
  <1>0. "process_messages" \in Calls /\ "flush" \in Calls /\ "update" \in Calls
    BY DEF Calls
  <1>1. <<"process_messages">> \o <<>> = <<"process_messages">> /\ <<>> \o <<"update">> = <<"update">>
    OBVIOUS
  <1>2. <<"process_messages">> \o <<"update">> = <<"process_messages", "update">>
    BY <1>0, OneThenOne, Zenon
  <1>3. <<"process_messages">> \o <<"flush">> = <<"process_messages", "flush">>
    BY <1>0, OneThenOne, Zenon
  <1>4. <<"process_messages", "flush">> \o <<"update">> = <<"process_messages", "flush", "update">>
    BY <1>0, TwoThenOne, Zenon
  <1>5. <<"flush">> \o <<"update">> = <<"flush", "update">>
    BY <1>0, OneThenOne, Zenon
  <1> QED BY <1>1, <1>2, <1>3, <1>4, <1>5, Zenon

\* respond() inside process_messages() puts its calls in front.
LEMMA AnswerLeaves ==
  ASSUME NEW t \in Handlers, t # <<>>, Head(t) = "process_messages"
  PROVE  t \in Processing /\ <<"flush", "update">> \o t \in Processing
  <1>0. "process_messages" \in Calls /\ "flush" \in Calls /\ "update" \in Calls
    BY DEF Calls
  <1>1. t \in { <<"process_messages", "update">>, <<"process_messages", "flush", "update">> }
    BY DEF Handlers, Processing
  <1>2. <<"flush", "update">> \o <<"process_messages", "update">>
          = <<"flush", "update", "process_messages", "update">>
    BY <1>0, TwoThenTwo, Zenon
  <1>3. <<"flush", "update">> \o <<"process_messages", "flush", "update">>
          = <<"flush", "update", "process_messages", "flush", "update">>
    BY <1>0, TwoThenThree
  <1> QED BY <1>1, <1>2, <1>3, Zenon DEF Processing

\* A function that returns leaves the rest: update() comes last, and one that is
\* not last is followed by process_messages().
LEMMA ReturnLeaves ==
  ASSUME NEW t \in Handlers, t # <<>>
  PROVE  /\ Tail(t) \in Handlers
         /\ Head(t) # "update" => Tail(t) # <<>>
         /\ Head(t) # "process_messages" => (Tail(t) \notin Processing => t \notin Processing)
  <1>1. /\ Tail(<<"process_messages", "update">>) = <<"update">>
        /\ Tail(<<"process_messages", "flush", "update">>) = <<"flush", "update">>
        /\ Tail(<<"flush", "process_messages", "update">>) = <<"process_messages", "update">>
        /\ Tail(<<"update", "process_messages", "update">>) = <<"process_messages", "update">>
        /\ Tail(<<"update", "process_messages", "flush", "update">>) = <<"process_messages", "flush", "update">>
    OBVIOUS
  <1>2. /\ Tail(<<"flush", "update", "process_messages", "update">>) = <<"update", "process_messages", "update">>
        /\ Tail(<<"flush", "update", "process_messages", "flush", "update">>)
             = <<"update", "process_messages", "flush", "update">>
        /\ Tail(<<"flush", "update">>) = <<"update">>
        /\ Tail(<<"update">>) = <<>>
    OBVIOUS
  <1>3. /\ Head(<<"process_messages", "update">>) = "process_messages"
        /\ Head(<<"process_messages", "flush", "update">>) = "process_messages"
        /\ Head(<<"update">>) = "update"
    OBVIOUS
  <1>4. /\ <<"update">> # <<>> /\ <<"flush", "update">> # <<>> /\ <<"process_messages", "update">> # <<>>
        /\ <<"process_messages", "flush", "update">> # <<>> /\ <<"update", "process_messages", "update">> # <<>>
        /\ <<"update", "process_messages", "flush", "update">> # <<>>
    OBVIOUS
  <1>5. Tail(t) \in Handlers
    BY <1>1, <1>2, Zenon DEF Handlers, Processing
  <1>6. Head(t) # "update" => Tail(t) # <<>>
    BY <1>1, <1>2, <1>3, <1>4, Zenon DEF Handlers, Processing
  <1>7. ASSUME Head(t) # "process_messages", t \in Processing PROVE Tail(t) \in Processing
    BY <1>1, <1>2, <1>3, <1>7, Zenon DEF Processing
  <1> QED BY <1>5, <1>6, <1>7

\* What the handlers are made of: they can be told apart.
LEMMA HandlerFacts ==
  /\ Processing \subseteq Handlers /\ <<>> \in Handlers \ Processing
  /\ <<"flush", "update">> \in Handlers \ Processing /\ <<"flush", "update">> # <<>>
  /\ <<"update">> \in Handlers \ Processing /\ <<"update">> # <<>>
  /\ <<"process_messages", "update">> \in Processing
  /\ <<"process_messages", "flush", "update">> \in Processing
  /\ <<"flush", "process_messages", "update">> \in Processing
  /\ \A t \in Processing : t # <<>>
  BY DEF Handlers, Processing

----------------------------------------------------------------------------
(* Counting connections *)

\* What is to be known of finite sets: the library's theorems, as the end of the
\* module shows.
FiniteFacts ==
  /\ IsFiniteSet({}) /\ Cardinality({}) = 0
  /\ \A S : IsFiniteSet(S) => Cardinality(S) \in Nat
  /\ \A S : \A T \in SUBSET S : IsFiniteSet(S) => IsFiniteSet(T)
  /\ \A S, x : IsFiniteSet(S) =>
       /\ IsFiniteSet(S \cup {x})
       /\ Cardinality(S \cup {x}) = IF x \in S THEN Cardinality(S) ELSE Cardinality(S) + 1
  /\ \A S, x : IsFiniteSet(S) =>
       /\ IsFiniteSet(S \ {x})
       /\ Cardinality(S \ {x}) = IF x \in S THEN Cardinality(S) - 1 ELSE Cardinality(S)

\* The connections among S of client k.
Own(S, k) == {d \in S : ClientOf[d] = k}

\* connections_, per_client_ and the limits on them.
Books ==
  /\ \A k \in Clients : per_client_[k] = Cardinality(Own(connections_, k))
  /\ \A k \in Clients : per_client_[k] <= max_per_client
  /\ connections_ \subseteq Conns /\ Cardinality(connections_) <= max_connections
  /\ IsFiniteSet(connections_)
  /\ DOMAIN per_client_ = Clients

\* A client's connections are counted by a number.
LEMMA CountsAreNumbers ==
  ASSUME FiniteFacts, NEW S, IsFiniteSet(S), NEW k
  PROVE  IsFiniteSet(Own(S, k)) /\ Cardinality(Own(S, k)) \in Nat
  <1>1. Own(S, k) \in SUBSET S
    BY DEF Own
  <1>2. IsFiniteSet(Own(S, k))
    BY <1>1, Zenon DEF FiniteFacts
  <1> QED BY <1>2, Zenon DEF FiniteFacts

\* One more connection counts for its own client only.
LEMMA OneMore ==
  ASSUME FiniteFacts, NEW S, IsFiniteSet(S), NEW c, c \notin S, NEW k
  PROVE  /\ ClientOf[c] = k => Cardinality(Own(S \cup {c}, k))
                                 = Cardinality(Own(S, k)) + 1
         /\ ClientOf[c] # k => Cardinality(Own(S \cup {c}, k))
                                 = Cardinality(Own(S, k))
  <1> DEFINE OwnS == Own(S, k)
  <1>1. IsFiniteSet(OwnS) /\ Cardinality(OwnS) \in Nat
    BY CountsAreNumbers, Zenon
  <1>2. ASSUME ClientOf[c] = k PROVE Cardinality(Own(S \cup {c}, k)) = Cardinality(OwnS) + 1
    <2>1. Own(S \cup {c}, k) = OwnS \cup {c} /\ c \notin OwnS
      BY <1>2 DEF Own
    <2>2. Cardinality(OwnS \cup {c}) = IF c \in OwnS THEN Cardinality(OwnS) ELSE Cardinality(OwnS) + 1
      BY <1>1, Zenon DEF FiniteFacts
    <2> HIDE DEF OwnS
    <2> QED BY <2>1, <2>2, Zenon
  <1>3. ASSUME ClientOf[c] # k PROVE Cardinality(Own(S \cup {c}, k)) = Cardinality(OwnS)
    <2>1. Own(S \cup {c}, k) = OwnS
      BY <1>3 DEF Own
    <2> HIDE DEF OwnS
    <2> QED BY <2>1, Zenon
  <1> QED BY <1>2, <1>3, Zenon

\* One connection less counts for its own client only.
LEMMA OneLess ==
  ASSUME FiniteFacts, NEW S, IsFiniteSet(S), NEW c \in S, NEW k
  PROVE  /\ ClientOf[c] = k => Cardinality(Own(S \ {c}, k))
                                 = Cardinality(Own(S, k)) - 1
         /\ ClientOf[c] # k => Cardinality(Own(S \ {c}, k))
                                 = Cardinality(Own(S, k))
  <1> DEFINE OwnS == Own(S, k)
  <1>1. IsFiniteSet(OwnS) /\ Cardinality(OwnS) \in Nat
    BY CountsAreNumbers, Zenon
  <1>2. ASSUME ClientOf[c] = k PROVE Cardinality(Own(S \ {c}, k)) = Cardinality(OwnS) - 1
    <2>1. Own(S \ {c}, k) = OwnS \ {c} /\ c \in OwnS
      BY <1>2 DEF Own
    <2>2. Cardinality(OwnS \ {c}) = IF c \in OwnS THEN Cardinality(OwnS) - 1 ELSE Cardinality(OwnS)
      BY <1>1, Zenon DEF FiniteFacts
    <2> HIDE DEF OwnS
    <2> QED BY <2>1, <2>2, Zenon
  <1>3. ASSUME ClientOf[c] # k PROVE Cardinality(Own(S \ {c}, k)) = Cardinality(OwnS)
    <2>1. Own(S \ {c}, k) = OwnS
      BY <1>3 DEF Own
    <2> HIDE DEF OwnS
    <2> QED BY <2>1, Zenon
  <1> QED BY <1>2, <1>3, Zenon

\* Accepting a connection that has room keeps the books.
LEMMA AcceptCounts ==
  ASSUME FiniteFacts, Books, NEW c \in Conns, c \notin connections_, HasRoom(c),
         connections_' = connections_ \cup {c},
         per_client_' = [per_client_ EXCEPT ![ClientOf[c]] = @ + 1]
  PROVE  Books'
  <1>0. IsFiniteSet(connections_) /\ ClientOf[c] \in Clients
    BY TcpConstants DEF Books, Clients, Range
  <1>1. IsFiniteSet(connections_') /\ Cardinality(connections_') = Cardinality(connections_) + 1
    <2>1. /\ IsFiniteSet(connections_ \cup {c})
          /\ Cardinality(connections_ \cup {c}) =
               IF c \in connections_ THEN Cardinality(connections_) ELSE Cardinality(connections_) + 1
      BY <1>0, Zenon DEF FiniteFacts
    <2> QED BY <2>1, Zenon
  <1>2. Cardinality(connections_) \in Nat
    BY <1>0, Zenon DEF FiniteFacts
  <1>3. Cardinality(connections_') <= max_connections
    BY <1>1, <1>2, TcpConstants DEF HasRoom
  <1>4. ASSUME NEW k \in Clients
        PROVE  /\ per_client_'[k] = Cardinality(Own(connections_', k))
               /\ per_client_'[k] <= max_per_client
    <2> DEFINE n == Cardinality(Own(connections_, k))
               m == Cardinality(Own(connections_ \cup {c}, k))
    <2>1. n \in Nat
      BY <1>0, CountsAreNumbers, Zenon
    <2>2. (ClientOf[c] = k => m = n + 1) /\ (ClientOf[c] # k => m = n)
      BY <1>0, OneMore
    <2>3. per_client_[k] = n /\ per_client_[k] <= max_per_client /\ k \in DOMAIN per_client_
      BY Zenon DEF Books
    <2>4. ClientOf[c] = k => per_client_[k] < max_per_client
      BY Zenon DEF HasRoom
    <2> HIDE DEF n, m
    <2>5. per_client_'[k] = m /\ per_client_'[k] <= max_per_client
      BY <2>1, <2>2, <2>3, <2>4, TcpConstants
    <2> QED BY <2>5, Zenon DEF m
  <1>5. DOMAIN per_client_' = Clients /\ connections_' \subseteq Conns
    BY DEF Books
  <1>6. Clients' = Clients
    BY DEF Clients
  <1> QED BY <1>1, <1>3, <1>4, <1>5, <1>6, Zenon DEF Books

\* close() keeps the books.
LEMMA CloseCounts ==
  ASSUME FiniteFacts, Books, NEW c \in connections_,
         connections_' = connections_ \ {c}, per_client_' = OneFewer(c)
  PROVE  Books'
  <1>0. IsFiniteSet(connections_) /\ ClientOf[c] \in Clients
    BY TcpConstants DEF Books, Clients, Range
  <1>1. IsFiniteSet(connections_') /\ Cardinality(connections_') = Cardinality(connections_) - 1
    <2>1. /\ IsFiniteSet(connections_ \ {c})
          /\ Cardinality(connections_ \ {c}) =
               IF c \in connections_ THEN Cardinality(connections_) - 1 ELSE Cardinality(connections_)
      BY <1>0, Zenon DEF FiniteFacts
    <2> QED BY <2>1, Zenon
  <1>2. Cardinality(connections_) \in Nat /\ Cardinality(connections_) <= max_connections
    BY <1>0, Zenon DEF Books, FiniteFacts
  <1>3. Cardinality(connections_') <= max_connections
    BY <1>1, <1>2, TcpConstants
  <1>4. ASSUME NEW k \in Clients
        PROVE  /\ per_client_'[k] = Cardinality(Own(connections_', k))
               /\ per_client_'[k] <= max_per_client
    <2> DEFINE n == Cardinality(Own(connections_, k))
               m == Cardinality(Own(connections_ \ {c}, k))
    <2>1. n \in Nat
      BY <1>0, CountsAreNumbers, Zenon
    <2>2. (ClientOf[c] = k => m = n - 1) /\ (ClientOf[c] # k => m = n)
      BY <1>0, OneLess, Zenon
    <2>3. per_client_[k] = n /\ per_client_[k] <= max_per_client /\ k \in DOMAIN per_client_
      BY Zenon DEF Books
    <2> HIDE DEF n, m
    <2>5. per_client_'[k] = m /\ per_client_'[k] <= max_per_client
      BY <2>1, <2>2, <2>3, TcpConstants DEF OneFewer
    <2> QED BY <2>5, Zenon DEF m
  <1>5. DOMAIN per_client_' = Clients /\ connections_' \subseteq Conns
    BY DEF Books, OneFewer
  <1>6. Clients' = Clients
    BY DEF Clients
  <1> QED BY <1>1, <1>3, <1>4, <1>5, <1>6, Zenon DEF Books
----------------------------------------------------------------------------
(* One connection *)

\* The rest of TcpInv: what is known of each connection and of the handler.
Lanes ==
  /\ pending \in [Conns -> 0..kMaxPipelined] /\ owed \in [Conns -> 0..kMaxPipelined]
  /\ out \in [Conns -> Nat]
  /\ DOMAIN peer = Conns /\ DOMAIN in = Conns /\ DOMAIN interest = Conns
  /\ \A c \in connections_ : peer[c] \in {"open", "done"}
  /\ \A c \in Conns : owed[c] <= pending[c]
  /\ idle_timers = connections_
  /\ todo \in Handlers
  /\ todo # <<>> => Underway(at)
  /\ \A c \in connections_ : (todo # <<>> /\ c = at) \/ Settled(c)

\* TcpInv is the books and the lanes.
LEMMA TcpParts == (TcpInv => Books /\ Lanes) /\ (Books /\ Lanes => TcpInv)
  BY Zenon DEF TcpInv, Books, Lanes, LimitsExact, Own

\* The same in the next state.
LEMMA TcpPartsNext == Books' /\ Lanes' => TcpInv'
  BY Zenon DEF TcpInv, Books, Lanes, LimitsExact, Own

\* The books do not change unless a connection is accepted or closed.
LEMMA BooksKept ==
  ASSUME Books, connections_' = connections_, per_client_' = per_client_ PROVE Books'
  BY Zenon DEF Books, Clients, Own

\* A connection that a step does not touch stays as settled as it was.
LEMMA StaysSettled ==
  ASSUME NEW d, Settled(d), in'[d] = in[d], pending'[d] = pending[d], out'[d] = out[d],
         interest'[d] = interest[d], d \in peer_done' <=> d \in peer_done
  PROVE  Settled(d)'
  BY DEF Settled, Finished, Wanted

\* close() leaves the other connections as they are, and ends the handler.
LEMMA CloseInv ==
  ASSUME FiniteFacts, Books, Lanes, NEW c \in connections_, todo = <<>> \/ at = c, close(c)
  PROVE  TcpInv'
  <1>0. c \in Conns /\ connections_ \subseteq Conns
    BY DEF Books
  <1>1. Books'
    BY CloseCounts, Zenon DEF close
  <1>2. /\ pending' = [pending EXCEPT ![c] = 0] /\ owed' = [owed EXCEPT ![c] = 0]
        /\ out' = [out EXCEPT ![c] = 0] /\ in' = [in EXCEPT ![c] = <<>>]
        /\ peer_done' = peer_done \ {c} /\ interest' = [interest EXCEPT ![c] = {}]
        /\ peer' = [peer EXCEPT ![c] = "closed"] /\ connections_' = connections_ \ {c}
        /\ idle_timers' = idle_timers \ {c} /\ todo' = <<>>
    BY Zenon DEF close, Fresh
  <1>3. /\ pending' \in [Conns -> 0..kMaxPipelined] /\ owed' \in [Conns -> 0..kMaxPipelined]
        /\ out' \in [Conns -> Nat]
        /\ DOMAIN peer' = Conns /\ DOMAIN in' = Conns /\ DOMAIN interest' = Conns
        /\ \A d \in Conns : owed'[d] <= pending'[d]
        /\ idle_timers' = connections_'
    BY <1>0, <1>2, TcpConstants DEF Lanes
  <1>4. todo' \in Handlers
    BY <1>2, HandlerFacts, Zenon
  <1>5. ASSUME NEW d \in connections_' PROVE Settled(d)' /\ peer'[d] \in {"open", "done"}
    <2>1. d \in connections_ /\ d # c /\ d \in Conns
      BY <1>0, <1>2
    <2>2. Settled(d) /\ peer[d] \in {"open", "done"}
      BY <2>1, Zenon DEF Lanes
    <2>3. /\ in'[d] = in[d] /\ pending'[d] = pending[d] /\ out'[d] = out[d]
          /\ interest'[d] = interest[d] /\ (d \in peer_done' <=> d \in peer_done)
          /\ peer'[d] = peer[d]
      BY <1>2, <2>1 DEF Lanes
    <2> QED BY <2>2, <2>3, StaysSettled, Zenon
  <1>6. Lanes'
    BY <1>2, <1>3, <1>4, <1>5, Zenon DEF Lanes
  <1> QED BY <1>1, <1>6, TcpPartsNext, Zenon

\* What the clients do changes nothing of a connection.
LEMMA ClientsInv ==
  ASSUME Books, Lanes, NEW c \in Conns,
         Connects(c) \/ ShutsDown(c) \/ \E q \in Kinds : SendsQuery(c, q)
  PROVE  TcpInv'
  <1>1. /\ UNCHANGED <<connections_, per_client_, conn, idle_timers, at, todo>>
        /\ \/ peer' = peer
           \/ peer[c] = "away" /\ peer' = [peer EXCEPT ![c] = "connecting"]
           \/ peer' = [peer EXCEPT ![c] = "done"]
    BY Zenon DEF Connects, ShutsDown, SendsQuery, limits
  <1>2. Books'
    BY <1>1, BooksKept, Zenon
  <1>3. DOMAIN peer' = Conns /\ \A d \in connections_' : peer'[d] \in {"open", "done"}
    <2>1. DOMAIN peer = Conns /\ connections_ \subseteq Conns /\ connections_' = connections_
          /\ \A d \in connections_ : peer[d] \in {"open", "done"}
      BY <1>1, Zenon DEF Lanes, Books
    <2> QED BY <1>1, <2>1
  <1>4. Lanes'
    BY <1>1, <1>3, Zenon DEF Lanes, conn, Underway, Settled, Wanted, Finished
  <1> QED BY <1>2, <1>4, TcpPartsNext, Zenon

\* on_acceptable() makes a connection that is settled from the start.
LEMMA AcceptInv ==
  ASSUME FiniteFacts, Books, Lanes, NEW c \in Conns, Accept(c)
  PROVE  TcpInv'
  <1>1. c \notin connections_ /\ connections_ \subseteq Conns /\ todo = <<>> /\ todo' = <<>>
    <2>1. peer[c] = "connecting" /\ todo = <<>> /\ todo' = todo
      BY Zenon DEF Accept, Idle
    <2>2. connections_ \subseteq Conns /\ \A d \in connections_ : peer[d] \in {"open", "done"}
      BY Zenon DEF Lanes, Books
    <2> QED BY <2>1, <2>2
  <1>2. CASE /\ HasRoom(c)
             /\ connections_' = connections_ \cup {c}
             /\ per_client_' = [per_client_ EXCEPT ![ClientOf[c]] = @ + 1]
             /\ peer' = [peer EXCEPT ![c] = "open"]
             /\ interest' = [interest EXCEPT ![c] = {"r"}]
             /\ idle_timers' = idle_timers \cup {c}
             /\ Fresh(c)
    <2>1. Books'
      BY <1>1, <1>2, AcceptCounts, Zenon
    <2>2. /\ pending' = [pending EXCEPT ![c] = 0] /\ owed' = [owed EXCEPT ![c] = 0]
          /\ out' = [out EXCEPT ![c] = 0] /\ in' = [in EXCEPT ![c] = <<>>]
          /\ peer_done' = peer_done \ {c}
      BY <1>2, Zenon DEF Fresh
    <2>3. /\ pending' \in [Conns -> 0..kMaxPipelined] /\ owed' \in [Conns -> 0..kMaxPipelined]
          /\ out' \in [Conns -> Nat]
          /\ DOMAIN peer' = Conns /\ DOMAIN in' = Conns /\ DOMAIN interest' = Conns
          /\ \A d \in Conns : owed'[d] <= pending'[d]
          /\ idle_timers' = connections_'
      BY <1>2, <2>2, TcpConstants DEF Lanes
    <2>4. ASSUME NEW d \in connections_' PROVE Settled(d)' /\ peer'[d] \in {"open", "done"}
      <3>1. CASE d = c
        <4>1. /\ in'[c] = <<>> /\ pending'[c] = 0 /\ out'[c] = 0 /\ c \notin peer_done'
              /\ interest'[c] = {"r"} /\ peer'[c] = "open"
          BY <1>2, <2>2 DEF Lanes
        <4>2. Settled(c)'
          BY <4>1, TcpConstants DEF Settled, Finished, Wanted
        <4> QED BY <3>1, <4>1, <4>2, Zenon
      <3>2. CASE d # c
        <4>1. d \in connections_ /\ d \in Conns
          BY <1>1, <1>2, <3>2
        <4>2. Settled(d) /\ peer[d] \in {"open", "done"}
          BY <1>1, <4>1, Zenon DEF Lanes
        <4>3. /\ in'[d] = in[d] /\ pending'[d] = pending[d] /\ out'[d] = out[d]
              /\ interest'[d] = interest[d] /\ (d \in peer_done' <=> d \in peer_done)
              /\ peer'[d] = peer[d]
          BY <1>2, <2>2, <3>2, <4>1 DEF Lanes
        <4> QED BY <4>2, <4>3, StaysSettled, Zenon
      <3> QED BY <3>1, <3>2
    <2>5. Lanes'
      BY <1>1, <2>3, <2>4, HandlerFacts, Zenon DEF Lanes
    <2> QED BY <2>1, <2>5, TcpPartsNext, Zenon
  <1>3. CASE /\ peer' = [peer EXCEPT ![c] = "closed"]
             /\ UNCHANGED <<connections_, per_client_, conn, idle_timers>>
    <2>1. Books'
      BY <1>3, BooksKept, Zenon
    <2>2. DOMAIN peer' = Conns /\ \A d \in connections_' : peer'[d] \in {"open", "done"}
      BY <1>1, <1>3 DEF Lanes
    <2>3. at' = at /\ todo' = todo
      BY Zenon DEF Accept
    <2>4. Lanes'
      BY <1>3, <2>2, <2>3, Zenon DEF Lanes, conn, Underway, Settled, Wanted, Finished
    <2> QED BY <2>1, <2>4, TcpPartsNext, Zenon
  <1> QED BY <1>2, <1>3, Zenon DEF Accept
\* The event loop calls a handler only between handlers; nothing else of the
\* listener changes when accepting is paused or taken up again.
LEMMA PauseInv ==
  ASSUME Books, Lanes, NEW c \in Conns, PauseAccepting(c) \/ AcceptRetry
  PROVE  TcpInv'
  <1>1. UNCHANGED <<env, connections_, per_client_, conn, idle_timers, at, todo>>
    BY Zenon DEF PauseAccepting, AcceptRetry
  <1>2. Books'
    BY <1>1, BooksKept, Zenon
  <1>3. Lanes'
    BY <1>1, Zenon DEF Lanes, conn, env, Underway, Settled, Wanted, Finished
  <1> QED BY <1>2, <1>3, TcpPartsNext, Zenon

\* What a step of a handler at work on c has to keep: the other connections stay
\* settled, so c alone is left to look at.
LEMMA WorkInv ==
  ASSUME Books, Lanes, NEW c \in connections_, todo = <<>> \/ at = c, at' = c,
         connections_' = connections_, per_client_' = per_client_, peer' = peer,
         idle_timers' = connections_, todo' \in Handlers,
         pending' \in [Conns -> 0..kMaxPipelined], owed' \in [Conns -> 0..kMaxPipelined],
         out' \in [Conns -> Nat], DOMAIN in' = Conns, DOMAIN interest' = Conns,
         owed'[c] <= pending'[c],
         \A d \in Conns \ {c} : /\ in'[d] = in[d] /\ pending'[d] = pending[d] /\ owed'[d] = owed[d]
                                /\ out'[d] = out[d] /\ interest'[d] = interest[d]
                                /\ (d \in peer_done' <=> d \in peer_done),
         todo' # <<>> => Underway(c)',
         todo' = <<>> => Settled(c)'
  PROVE  TcpInv'
  <1>1. Books'
    BY BooksKept, Zenon
  <1>2. c \in Conns /\ connections_ \subseteq Conns
    BY DEF Books
  <1>3. \A d \in Conns : owed'[d] <= pending'[d]
    <2>1. ASSUME NEW d \in Conns PROVE owed'[d] <= pending'[d]
      <3>1. owed[d] <= pending[d]
        BY Zenon DEF Lanes
      <3>2. CASE d # c
        <4>1. owed'[d] = owed[d] /\ pending'[d] = pending[d]
          BY <3>2, Zenon
        <4> QED BY <3>1, <4>1, Zenon
      <3> QED BY <3>2, Zenon
    <2> QED BY <2>1
  <1>4. ASSUME NEW d \in connections_', d # c PROVE Settled(d)'
    <2>1. d \in connections_ /\ d \in Conns \ {c}
      BY <1>2, <1>4
    <2>2. Settled(d)
      BY <1>4, <2>1, Zenon DEF Lanes
    <2>3. /\ in'[d] = in[d] /\ pending'[d] = pending[d] /\ out'[d] = out[d]
          /\ interest'[d] = interest[d] /\ (d \in peer_done' <=> d \in peer_done)
      BY <2>1, Zenon
    <2> QED BY <2>2, <2>3, StaysSettled, Zenon
  <1>5. \A d \in connections_' : (todo' # <<>> /\ d = at') \/ Settled(d)'
    BY <1>4, Zenon
  <1>6. todo' # <<>> => Underway(at)'
    BY Zenon DEF Underway
  <1>7. DOMAIN peer' = Conns /\ \A d \in connections_' : peer'[d] \in {"open", "done"}
    BY Zenon DEF Lanes
  <1>8. Lanes'
    BY <1>3, <1>5, <1>6, <1>7, Zenon DEF Lanes
  <1> QED BY <1>1, <1>8, TcpPartsNext, Zenon

\* Between handlers every connection is settled.
LEMMA SettledWhenIdle ==
  ASSUME Books, Lanes, todo = <<>>, NEW c \in connections_
  PROVE  /\ c \in Conns /\ Settled(c)
         /\ pending[c] \in 0..kMaxPipelined /\ owed[c] \in 0..kMaxPipelined
         /\ out[c] \in Nat /\ owed[c] <= pending[c]
  <1>1. c \in Conns
    BY DEF Books
  <1>2. Settled(c) /\ owed[c] <= pending[c]
    BY <1>1, Zenon DEF Lanes
  <1> QED BY <1>1, <1>2 DEF Lanes

\* A pipeline that is full, or that grew from one query, holds a query.
LEMMA HoldsQueries ==
  ASSUME NEW n \in 0..kMaxPipelined
  PROVE  /\ n >= kMaxPipelined => n > 0
         /\ \A m \in 0..kMaxPipelined : m > 0 /\ n >= m => n > 0
  BY TcpConstants

\* read_from() begins a handler on a connection whose client is not done sending:
\* that is why the socket was watched.
LEMMA ReadableInv ==
  ASSUME Books, Lanes, NEW c \in Conns, Readable(c)
  PROVE  TcpInv'
  <1>1. todo = <<>> /\ c \in connections_ /\ "r" \in interest[c]
    BY Zenon DEF Readable, Idle
  <1>2. /\ Settled(c) /\ pending[c] \in 0..kMaxPipelined /\ owed[c] <= pending[c]
        /\ idle_timers = connections_
    BY <1>1, SettledWhenIdle, Zenon DEF Lanes
  <1>3. c \notin peer_done
    BY <1>1, <1>2 DEF Settled, Wanted
  <1>4. /\ at' = c /\ connections_' = connections_ /\ per_client_' = per_client_ /\ peer' = peer
        /\ idle_timers' = connections_ /\ pending' = pending /\ owed' = owed /\ out' = out
        /\ interest' = interest
    BY <1>2, Zenon DEF Readable, limits
  <1>5. PICK also \in IF "w" \in interest[c] THEN {<<>>, <<"flush">>} ELSE {<<>>} :
       \/ \E n \in 1..Len(socket[c]) :
            /\ in' = [in EXCEPT ![c] = @ \o SubSeq(socket[c], 1, n)]
            /\ todo' = <<"process_messages">> \o also \o <<"update">>
            /\ UNCHANGED peer_done
       \/ /\ peer_done' = peer_done \cup {c}
          /\ todo' = also \o <<"update">>
          /\ UNCHANGED in
    BY Zenon DEF Readable
  <1>6. also = <<>> \/ also = <<"flush">>
    BY <1>5, Zenon
  <1>7. \/ /\ todo' \in Processing /\ peer_done' = peer_done
           /\ DOMAIN in' = Conns /\ \A d \in Conns \ {c} : in'[d] = in[d]
        \/ /\ todo' \in { <<"update">>, <<"flush", "update">> }
           /\ peer_done' = peer_done \cup {c} /\ in' = in
    <2>1. CASE \E n \in 1..Len(socket[c]) :
                 /\ in' = [in EXCEPT ![c] = @ \o SubSeq(socket[c], 1, n)]
                 /\ todo' = <<"process_messages">> \o also \o <<"update">>
                 /\ UNCHANGED peer_done
      <3>1. PICK x : in' = [in EXCEPT ![c] = x]
        BY <2>1, Zenon
      <3>2. DOMAIN in = Conns
        BY Zenon DEF Lanes
      <3>3. DOMAIN in' = Conns /\ \A d \in Conns \ {c} : in'[d] = in[d]
        BY <3>1, <3>2
      <3>4. todo' \in Processing
        BY <2>1, <1>6, ReadLeaves, HandlerFacts, Zenon
      <3> QED BY <2>1, <3>3, <3>4, Zenon
    <2>2. CASE /\ peer_done' = peer_done \cup {c}
               /\ todo' = also \o <<"update">>
               /\ UNCHANGED in
      <3>1. todo' \in { <<"update">>, <<"flush", "update">> }
        BY <2>2, <1>6, ReadLeaves, Zenon
      <3> QED BY <2>2, <3>1, Zenon
    <2> QED BY <1>5, <2>1, <2>2, Zenon
  <1>8. todo' \in Handlers /\ todo' # <<>>
    BY <1>7, HandlerFacts, Zenon
  <1>9. Underway(c)'
    <2>1. CASE todo' \in Processing /\ peer_done' = peer_done
      BY <1>1, <1>3, <1>4, <2>1, Zenon DEF Underway
    <2>2. CASE in' = in
      <3>1. in[c] # <<>> => pending[c] >= kMaxPipelined
        BY <1>2, Zenon DEF Settled
      <3>2. in'[c] # <<>> => pending'[c] >= kMaxPipelined /\ pending'[c] > 0
        BY <1>2, <1>4, <2>2, <3>1, HoldsQueries, Zenon
      <3> QED BY <1>1, <1>4, <3>2, Zenon DEF Underway
    <2> QED BY <1>7, <2>1, <2>2, Zenon
  <1>10. /\ pending' \in [Conns -> 0..kMaxPipelined] /\ owed' \in [Conns -> 0..kMaxPipelined]
         /\ out' \in [Conns -> Nat] /\ DOMAIN in' = Conns /\ DOMAIN interest' = Conns
    BY <1>4, <1>7, Zenon DEF Lanes
  <1>11. \A d \in Conns \ {c} : in'[d] = in[d] /\ (d \in peer_done' <=> d \in peer_done)
    BY <1>7
  <1>12. owed'[c] <= pending'[c]
    BY <1>2, <1>4, Zenon
  <1> QED BY <1>1, <1>4, <1>8, <1>9, <1>10, <1>11, <1>12, WorkInv, Zenon

\* The limits are numbers.
LEMMA NumericConstants == kMaxPipelined \in Nat /\ kMaxUnsent \in Nat
  BY TcpConstants

\* A counter of one connection takes a new value.
LEMMA CounterSet ==
  ASSUME NEW S, NEW f \in [Conns -> S], NEW c \in Conns, NEW x \in S
  PROVE  [f EXCEPT ![c] = x] \in [Conns -> S]
  BY Zenon

\* on_event() for a writable socket: flush(), then update().
LEMMA WritableInv ==
  ASSUME Books, Lanes, NEW c \in Conns, Writable(c)
  PROVE  TcpInv'
  <1>1. /\ todo = <<>> /\ c \in connections_ /\ at' = c /\ todo' = <<"flush", "update">>
        /\ UNCHANGED <<env, limits, conn, idle_timers>>
    BY Zenon DEF Writable, Idle
  <1>2. /\ Settled(c) /\ pending[c] \in 0..kMaxPipelined /\ owed[c] <= pending[c]
        /\ idle_timers = connections_
    BY <1>1, SettledWhenIdle, Zenon DEF Lanes
  <1>3. /\ connections_' = connections_ /\ per_client_' = per_client_ /\ peer' = peer
        /\ idle_timers' = connections_ /\ pending' = pending /\ owed' = owed /\ out' = out
        /\ interest' = interest /\ in' = in /\ peer_done' = peer_done
    BY <1>1, <1>2, Zenon DEF env, limits, conn
  <1>4. todo' \in Handlers /\ todo' # <<>>
    BY <1>1, HandlerFacts, Zenon
  <1>5. Underway(c)'
    <2>1. in[c] # <<>> => pending[c] >= kMaxPipelined
      BY <1>2, Zenon DEF Settled
    <2>2. in[c] # <<>> => pending[c] >= kMaxPipelined /\ pending[c] > 0
      BY <1>2, <2>1, TcpConstants
    <2> QED BY <1>1, <1>3, <2>2, Zenon DEF Underway
  <1>6. /\ pending' \in [Conns -> 0..kMaxPipelined] /\ owed' \in [Conns -> 0..kMaxPipelined]
        /\ out' \in [Conns -> Nat] /\ DOMAIN in' = Conns /\ DOMAIN interest' = Conns
        /\ owed'[c] <= pending'[c]
    BY <1>2, <1>3, Zenon DEF Lanes
  <1> QED BY <1>1, <1>3, <1>4, <1>5, <1>6, WorkInv, Zenon

\* respond() takes one from pending and leaves the queries behind kMaxPipelined to
\* process_messages(); kMaxPipelined is at least 2, so others are still pending.
LEMMA RespondInv ==
  ASSUME Books, Lanes, NEW c \in Conns, respond(c)
  PROVE  TcpInv'
  <1>1. /\ todo = <<>> /\ c \in connections_ /\ owed[c] > 0 /\ at' = c
        /\ todo' = <<"flush", "process_messages", "update">>
        /\ owed' = [owed EXCEPT ![c] = @ - 1] /\ pending' = [pending EXCEPT ![c] = @ - 1]
        /\ out' = [out EXCEPT ![c] = @ + 1]
        /\ UNCHANGED <<env, limits, in, peer_done, interest, idle_timers>>
    BY Zenon DEF respond, Idle, AfterAnswer
  <1>2. /\ Settled(c) /\ pending[c] \in 0..kMaxPipelined /\ owed[c] \in 0..kMaxPipelined
        /\ owed[c] <= pending[c] /\ out[c] \in Nat
    BY <1>1, SettledWhenIdle, Zenon
  <1>3. /\ connections_' = connections_ /\ per_client_' = per_client_ /\ peer' = peer
        /\ idle_timers' = connections_ /\ interest' = interest /\ in' = in /\ peer_done' = peer_done
    BY <1>1, Zenon DEF env, limits, Lanes
  <1>4. todo' \in Processing /\ todo' \in Handlers /\ todo' # <<>>
    BY <1>1, HandlerFacts, Zenon
  <1>5. /\ pending \in [Conns -> 0..kMaxPipelined] /\ owed \in [Conns -> 0..kMaxPipelined]
        /\ out \in [Conns -> Nat]
    BY Zenon DEF Lanes
  <1>6. pending'[c] = pending[c] - 1 /\ owed'[c] = owed[c] - 1
    BY <1>1, <1>5
  <1>7. Underway(c)'
    <2>1. in[c] # <<>> => pending[c] >= kMaxPipelined
      BY <1>2, Zenon DEF Settled
    <2>2. in[c] # <<>> => pending'[c] > 0
      BY <1>2, <1>6, <2>1, TcpConstants
    <2> QED BY <1>1, <1>3, <1>4, <2>2, Zenon DEF Underway
  <1>8. /\ pending' \in [Conns -> 0..kMaxPipelined] /\ owed' \in [Conns -> 0..kMaxPipelined]
        /\ out' \in [Conns -> Nat]
    <2>1. /\ pending[c] - 1 \in 0..kMaxPipelined /\ owed[c] - 1 \in 0..kMaxPipelined
          /\ out[c] + 1 \in Nat
      <3>1. owed[c] > 0
        BY <1>1, Zenon
      <3> QED BY <1>2, <3>1, NumericConstants
    <2> QED BY <1>1, <1>5, <2>1, CounterSet, Zenon
  <1>9. DOMAIN in' = Conns /\ DOMAIN interest' = Conns
    BY <1>3, Zenon DEF Lanes
  <1>10. owed'[c] <= pending'[c]
    BY <1>2, <1>6
  <1>11. \A d \in Conns \ {c} : pending'[d] = pending[d] /\ owed'[d] = owed[d] /\ out'[d] = out[d]
    BY <1>1, <1>5
  <1> QED BY <1>1, <1>3, <1>4, <1>7, <1>8, <1>9, <1>10, <1>11, WorkInv, Zenon

\* What is known inside a handler, of its connection.
LEMMA Inside1 ==
  ASSUME Books, Lanes, todo # <<>>, at \in Conns
  PROVE  /\ at \in connections_ /\ Underway(at) /\ todo \in Handlers /\ idle_timers = connections_
         /\ pending[at] \in 0..kMaxPipelined /\ owed[at] \in 0..kMaxPipelined
         /\ out[at] \in Nat /\ owed[at] <= pending[at]
  <1>1. /\ at \in connections_ /\ Underway(at) /\ todo \in Handlers /\ idle_timers = connections_
        /\ owed[at] <= pending[at]
    BY Zenon DEF Lanes, Underway
  <1> QED BY <1>1 DEF Lanes

\* One query of process_messages().
LEMMA ProcessQueryInv ==
  ASSUME FiniteFacts, Books, Lanes, NEW c \in Conns, ProcessQuery(c)
  PROVE  TcpInv'
  <1>1. /\ todo # <<>> /\ Head(todo) = "process_messages" /\ at = c
        /\ pending[c] < kMaxPipelined /\ in[c] # <<>>
    BY Zenon DEF ProcessQuery, At, MayProcess
  <1>2. /\ c \in connections_ /\ Underway(c) /\ todo \in Handlers /\ idle_timers = connections_
        /\ pending[c] \in 0..kMaxPipelined /\ owed[c] \in 0..kMaxPipelined
        /\ out[c] \in Nat /\ owed[c] <= pending[c]
    BY <1>1, Inside1, Zenon
  <1>3. CASE Head(in[c]) = "bad"
    <2>1. close(c)
      BY <1>3, Zenon DEF ProcessQuery
    <2> QED BY <1>1, <1>2, <2>1, CloseInv, Zenon
  <1>4. CASE Head(in[c]) # "bad"
    <2> DEFINE p == IF Head(in[c]) = "sync" THEN 0 ELSE 1
               o == IF Head(in[c]) = "async" THEN 1 ELSE 0
               w == IF Head(in[c]) = "sync" THEN 1 ELSE 0
    <2>1. /\ in' = [in EXCEPT ![c] = Tail(@)]
          /\ pending' = [pending EXCEPT ![c] = @ + p]
          /\ owed' = [owed EXCEPT ![c] = @ + o]
          /\ out' = [out EXCEPT ![c] = @ + w]
          /\ todo' = IF Head(in[c]) = "sync" THEN <<"flush", "update">> \o todo ELSE todo
          /\ idle_timers' = idle_timers \cup {c}
          /\ UNCHANGED <<env, limits, peer_done, interest, at>>
      BY <1>4, Zenon DEF ProcessQuery
    <2>2. p \in {0, 1} /\ o \in {0, 1} /\ w \in {0, 1} /\ o <= p
      OBVIOUS
    <2> HIDE DEF p, o, w
    <2>3. /\ connections_' = connections_ /\ per_client_' = per_client_ /\ peer' = peer
          /\ interest' = interest /\ peer_done' = peer_done /\ at' = c
      BY <1>1, <2>1, Zenon DEF env, limits
    <2>4. idle_timers' = connections_
      BY <1>2, <2>1
    <2>5. todo' \in Processing /\ todo' \in Handlers /\ todo' # <<>>
      BY <1>1, <1>2, <2>1, AnswerLeaves, HandlerFacts, Zenon
    <2>6. /\ pending \in [Conns -> 0..kMaxPipelined] /\ owed \in [Conns -> 0..kMaxPipelined]
          /\ out \in [Conns -> Nat] /\ DOMAIN in = Conns /\ DOMAIN interest = Conns
      BY Zenon DEF Lanes
    <2>7. /\ pending'[c] = pending[c] + p /\ owed'[c] = owed[c] + o
      BY <2>1, <2>6
    <2>8. owed'[c] <= pending'[c] /\ pending'[c] >= pending[c]
      BY <1>2, <2>2, <2>7
    <2>9. /\ pending' \in [Conns -> 0..kMaxPipelined] /\ owed' \in [Conns -> 0..kMaxPipelined]
      <3>1. pending[c] + p \in 0..kMaxPipelined /\ owed[c] + o \in 0..kMaxPipelined
        <4>1. pending[c] < kMaxPipelined
          BY <1>1, Zenon
        <4> QED BY <1>2, <2>2, <4>1, NumericConstants
      <3> QED BY <2>1, <2>6, <3>1, CounterSet, Zenon
    <2>10. out' \in [Conns -> Nat] /\ DOMAIN in' = Conns /\ DOMAIN interest' = Conns
      BY <1>2, <2>1, <2>2, <2>3, <2>6
    <2>11. \A d \in Conns \ {c} : /\ pending'[d] = pending[d] /\ owed'[d] = owed[d] /\ out'[d] = out[d]
                                  /\ in'[d] = in[d]
      BY <2>1, <2>6
    <2>12. Underway(c)'
      <3>1. c \in peer_done => pending[c] > 0
        BY <1>1, <1>2, Zenon DEF Underway
      <3>2. pending'[c] \in 0..kMaxPipelined
        BY <2>9, Zenon
      <3>3. c \in peer_done => pending'[c] > 0
        BY <1>2, <2>8, <3>1, <3>2, HoldsQueries, Zenon
      <3> QED BY <1>2, <2>3, <2>5, <3>3, Zenon DEF Underway
    <2> QED BY <1>1, <1>2, <2>3, <2>4, <2>5, <2>8, <2>9, <2>10, <2>11, <2>12, WorkInv, Zenon
  <1> QED BY <1>3, <1>4

\* process_messages() returns: nothing is left, or too much is unanswered.
LEMMA ProcessEndsInv ==
  ASSUME Books, Lanes, NEW c \in Conns, ProcessEnds(c)
  PROVE  TcpInv'
  <1>1. /\ todo # <<>> /\ Head(todo) = "process_messages" /\ at = c
        /\ ~(pending[c] < kMaxPipelined /\ in[c] # <<>>) /\ todo' = Tail(todo)
        /\ UNCHANGED <<env, limits, conn, idle_timers, at>>
    BY Zenon DEF ProcessEnds, At, MayProcess
  <1>2. /\ c \in connections_ /\ Underway(c) /\ todo \in Handlers /\ idle_timers = connections_
        /\ pending[c] \in 0..kMaxPipelined /\ owed[c] <= pending[c]
    BY <1>1, Inside1, Zenon
  <1>3. /\ connections_' = connections_ /\ per_client_' = per_client_ /\ peer' = peer
        /\ idle_timers' = connections_ /\ pending' = pending /\ owed' = owed /\ out' = out
        /\ interest' = interest /\ in' = in /\ peer_done' = peer_done /\ at' = c
    BY <1>1, <1>2, Zenon DEF env, limits, conn
  <1>4. "process_messages" # "update"
    OBVIOUS
  <1>5. todo' \in Handlers /\ todo' # <<>>
    BY <1>1, <1>2, <1>4, ReturnLeaves, Zenon
  <1>6. in[c] # <<>> => pending[c] >= kMaxPipelined
    BY <1>1, <1>2, TcpConstants
  <1>7. Underway(c)'
    BY <1>2, <1>3, <1>6, Zenon DEF Underway
  <1>8. /\ pending' \in [Conns -> 0..kMaxPipelined] /\ owed' \in [Conns -> 0..kMaxPipelined]
        /\ out' \in [Conns -> Nat] /\ DOMAIN in' = Conns /\ DOMAIN interest' = Conns
        /\ owed'[c] <= pending'[c]
    BY <1>2, <1>3, Zenon DEF Lanes
  <1> QED BY <1>1, <1>2, <1>3, <1>5, <1>7, <1>8, WorkInv, Zenon

\* flush() changes what is unsent, or closes the connection.
LEMMA FlushInv ==
  ASSUME FiniteFacts, Books, Lanes, NEW c \in Conns, flush(c)
  PROVE  TcpInv'
  <1>1. todo # <<>> /\ Head(todo) = "flush" /\ at = c
    BY Zenon DEF flush, At
  <1>2. /\ c \in connections_ /\ Underway(c) /\ todo \in Handlers /\ idle_timers = connections_
        /\ owed[c] <= pending[c] /\ out[c] \in Nat
    BY <1>1, Inside1, Zenon
  <1>3. CASE close(c)
    BY <1>1, <1>2, <1>3, CloseInv, Zenon
  <1>4. CASE \E n \in 0..out[c] :
               /\ out' = [out EXCEPT ![c] = @ - n]
               /\ idle_timers' = IF n > 0 THEN idle_timers \cup {c} ELSE idle_timers
               /\ todo' = Tail(todo)
               /\ UNCHANGED <<env, limits, in, pending, owed, peer_done, interest, at>>
    <2>1. PICK n \in 0..out[c] :
               /\ out' = [out EXCEPT ![c] = @ - n]
               /\ idle_timers' = IF n > 0 THEN idle_timers \cup {c} ELSE idle_timers
               /\ todo' = Tail(todo)
               /\ UNCHANGED <<env, limits, in, pending, owed, peer_done, interest, at>>
      BY <1>4, Zenon
    <2>2. /\ connections_' = connections_ /\ per_client_' = per_client_ /\ peer' = peer
          /\ pending' = pending /\ owed' = owed
          /\ interest' = interest /\ in' = in /\ peer_done' = peer_done /\ at' = c
      BY <1>1, <2>1, Zenon DEF env, limits
    <2>3. idle_timers' = connections_
      <3>1. idle_timers \cup {c} = connections_
        BY <1>2
      <3> QED BY <1>2, <2>1, <3>1, Zenon
    <2>4. "flush" # "update" /\ "flush" # "process_messages"
      OBVIOUS
    <2>5. todo' \in Handlers /\ todo' # <<>> /\ (todo' \notin Processing => todo \notin Processing)
      BY <1>1, <1>2, <2>1, <2>4, ReturnLeaves, Zenon
    <2>6. Underway(c)'
      BY <1>2, <2>2, <2>5, Zenon DEF Underway
    <2>7. /\ pending' \in [Conns -> 0..kMaxPipelined] /\ owed' \in [Conns -> 0..kMaxPipelined]
          /\ DOMAIN in' = Conns /\ DOMAIN interest' = Conns /\ owed'[c] <= pending'[c]
          /\ out \in [Conns -> Nat]
      BY <1>2, <2>2, Zenon DEF Lanes
    <2>8. out' \in [Conns -> Nat] /\ \A d \in Conns \ {c} : out'[d] = out[d]
      BY <1>2, <2>1, <2>7
    <2> QED BY <1>1, <1>2, <2>2, <2>3, <2>5, <2>6, <2>7, <2>8, WorkInv, Zenon
  <1> QED BY <1>3, <1>4, Zenon DEF flush

\* update() closes a connection that is finished, and settles one that is not when
\* it comes last.
LEMMA UpdateInv ==
  ASSUME FiniteFacts, Books, Lanes, NEW c \in Conns, update(c)
  PROVE  TcpInv'
  <1>1. todo # <<>> /\ Head(todo) = "update" /\ at = c
    BY Zenon DEF update, At
  <1>2. /\ c \in connections_ /\ Underway(c) /\ todo \in Handlers /\ idle_timers = connections_
        /\ owed[c] <= pending[c]
    BY <1>1, Inside1, Zenon
  <1>3. CASE Finished(c)
    <2>1. close(c)
      BY <1>3, Zenon DEF update
    <2> QED BY <1>1, <1>2, <2>1, CloseInv, Zenon
  <1>4. CASE ~Finished(c)
    <2>1. /\ interest' = [interest EXCEPT ![c] = Wanted(c)]
          /\ todo' = Tail(todo)
          /\ UNCHANGED <<env, limits, in, pending, owed, out, peer_done, idle_timers, at>>
      BY <1>4, Zenon DEF update
    <2>2. /\ connections_' = connections_ /\ per_client_' = per_client_ /\ peer' = peer
          /\ pending' = pending /\ owed' = owed /\ out' = out /\ idle_timers' = connections_
          /\ in' = in /\ peer_done' = peer_done /\ at' = c
      BY <1>1, <1>2, <2>1, Zenon DEF env, limits
    <2>3. "update" # "process_messages"
      OBVIOUS
    <2>4. todo' \in Handlers /\ (todo' \notin Processing => todo \notin Processing)
      BY <1>1, <1>2, <2>1, <2>3, ReturnLeaves, Zenon
    <2>5. Underway(c)'
      BY <1>2, <2>2, <2>4, Zenon DEF Underway
    <2>6. /\ pending' \in [Conns -> 0..kMaxPipelined] /\ owed' \in [Conns -> 0..kMaxPipelined]
          /\ out' \in [Conns -> Nat]
          /\ DOMAIN in' = Conns /\ DOMAIN interest = Conns /\ owed'[c] <= pending'[c]
      BY <1>2, <2>2, Zenon DEF Lanes
    <2>7. /\ DOMAIN interest' = Conns /\ interest'[c] = Wanted(c)
          /\ \A d \in Conns \ {c} : interest'[d] = interest[d]
      BY <2>1, <2>6
    <2>8. ASSUME todo' = <<>> PROVE Settled(c)'
      <3>1. todo \notin Processing
        BY <2>4, <2>8, HandlerFacts, Zenon
      <3>2. in[c] # <<>> => pending[c] >= kMaxPipelined
        BY <1>2, <3>1, Zenon DEF Underway
      <3>3. Wanted(c)' = Wanted(c) /\ ~Finished(c)'
        BY <1>4, <2>2, Zenon DEF Wanted, Finished
      <3> QED BY <2>2, <2>7, <3>2, <3>3, Zenon DEF Settled
    <2> QED BY <1>1, <1>2, <2>2, <2>4, <2>5, <2>6, <2>7, <2>8, WorkInv, Zenon
  <1> QED BY <1>3, <1>4

\* The idle timer is armed again or closes the connection; a reset closes it.
LEMMA TimerInv ==
  ASSUME FiniteFacts, Books, Lanes, NEW c \in Conns, IdleTimerFires(c) \/ Reset(c)
  PROVE  TcpInv'
  <1>1. todo = <<>> /\ c \in connections_
    BY Zenon DEF IdleTimerFires, Reset, Idle
  <1>2. CASE close(c)
    BY <1>1, <1>2, CloseInv, Zenon
  <1>3. CASE idle_timers' = idle_timers /\ UNCHANGED <<env, limits, conn, at, todo>>
    <2>1. Books'
      BY <1>3, BooksKept, Zenon DEF limits
    <2>2. Lanes'
      BY <1>3, Zenon DEF Lanes, env, limits, conn, Underway, Settled, Wanted, Finished
    <2> QED BY <2>1, <2>2, TcpPartsNext, Zenon
  <1> QED BY <1>2, <1>3, Zenon DEF IdleTimerFires, Reset, Rearmed

----------------------------------------------------------------------------
(* The listener as a whole *)

\* The listener starts with no connection and no handler.
LEMMA TcpInitInv ==
  ASSUME FiniteFacts, TcpInit
  PROVE  TcpInv
  <1>1. connections_ = {} /\ per_client_ = [k \in Clients |-> 0] /\ todo = <<>> /\ idle_timers = {}
    BY Zenon DEF TcpInit
  <1>2. ASSUME NEW k PROVE Cardinality(Own(connections_, k)) = 0
    <2>1. Own(connections_, k) = {}
      BY <1>1 DEF Own
    <2> QED BY <2>1, Zenon DEF FiniteFacts
  <1>3. IsFiniteSet(connections_) /\ Cardinality(connections_) = 0
    BY <1>1, Zenon DEF FiniteFacts
  <1>4. Books
    <2>1. \A k \in Clients : per_client_[k] = 0
      BY <1>1
    <2>2. \A k \in Clients : per_client_[k] = Cardinality(Own(connections_, k))
      BY <1>2, <2>1, Zenon
    <2>3. /\ \A k \in Clients : per_client_[k] <= max_per_client
          /\ Cardinality(connections_) <= max_connections
      BY <1>3, <2>1, TcpConstants
    <2>4. connections_ \subseteq Conns /\ DOMAIN per_client_ = Clients
      BY <1>1
    <2> QED BY <1>3, <2>2, <2>3, <2>4, Zenon DEF Books
  <1>5. Lanes
    <2>1. /\ pending = [c \in Conns |-> 0] /\ owed = [c \in Conns |-> 0] /\ out = [c \in Conns |-> 0]
          /\ DOMAIN peer = Conns /\ DOMAIN in = Conns /\ DOMAIN interest = Conns
      BY DEF TcpInit
    <2>2. /\ pending \in [Conns -> 0..kMaxPipelined] /\ owed \in [Conns -> 0..kMaxPipelined]
          /\ out \in [Conns -> Nat] /\ \A c \in Conns : owed[c] <= pending[c]
      BY <2>1, TcpConstants
    <2>3. \A c : c \notin connections_
      BY <1>1
    <2> QED BY <1>1, <2>1, <2>2, <2>3, HandlerFacts, Zenon DEF Lanes
  <1> QED BY <1>4, <1>5, TcpParts, Zenon

\* Every step keeps TcpInv.
LEMMA TcpNextInv ==
  ASSUME FiniteFacts, TcpInv, [TcpNext]_tcpVars
  PROVE  TcpInv'
  <1>0. Books /\ Lanes
    BY TcpParts, Zenon
  <1>1. ASSUME NEW c \in Conns, Connects(c) \/ ShutsDown(c) \/ \E q \in Kinds : SendsQuery(c, q)
        PROVE  TcpInv'
    BY <1>0, <1>1, ClientsInv, Zenon
  <1>2. ASSUME NEW c \in Conns, Accept(c) PROVE TcpInv'
    BY <1>0, <1>2, AcceptInv, Zenon
  <1>3. ASSUME NEW c \in Conns, PauseAccepting(c) PROVE TcpInv'
    BY <1>0, <1>3, PauseInv, Zenon
  <1>4. ASSUME NEW c \in Conns, Reset(c) \/ IdleTimerFires(c) PROVE TcpInv'
    BY <1>0, <1>4, TimerInv, Zenon
  <1>5. ASSUME NEW c \in Conns, Readable(c) PROVE TcpInv'
    BY <1>0, <1>5, ReadableInv, Zenon
  <1>6. ASSUME NEW c \in Conns, Writable(c) PROVE TcpInv'
    BY <1>0, <1>6, WritableInv, Zenon
  <1>7. ASSUME NEW c \in Conns, respond(c) PROVE TcpInv'
    BY <1>0, <1>7, RespondInv, Zenon
  <1>8. ASSUME AcceptRetry PROVE TcpInv'
    <2>1. UNCHANGED <<env, connections_, per_client_, conn, idle_timers, at, todo>>
      BY <1>8, Zenon DEF AcceptRetry
    <2>2. Books'
      BY <1>0, <2>1, BooksKept, Zenon
    <2>3. Lanes'
      BY <1>0, <2>1, Zenon DEF Lanes, conn, env, Underway, Settled, Wanted, Finished
    <2> QED BY <2>2, <2>3, TcpPartsNext, Zenon
  <1>9. ASSUME Inside PROVE TcpInv'
    <2>1. PICK c \in Conns : ProcessQuery(c) \/ ProcessEnds(c) \/ flush(c) \/ update(c)
      BY <1>9, Zenon DEF Inside
    <2> QED BY <1>0, <2>1, ProcessQueryInv, ProcessEndsInv, FlushInv, UpdateInv, Zenon
  <1>10. CASE UNCHANGED tcpVars
    <2>1. Books'
      BY <1>0, <1>10, BooksKept, Zenon DEF tcpVars
    <2>2. Lanes'
      BY <1>0, <1>10, Zenon DEF Lanes, tcpVars, conn, Underway, Settled, Wanted, Finished
    <2> QED BY <2>1, <2>2, TcpPartsNext, Zenon
  <1> QED BY <1>1, <1>2, <1>3, <1>4, <1>5, <1>6, <1>7, <1>8, <1>9, <1>10, Zenon DEF TcpNext

\* Between handlers a settled connection waits for what will come.
LEMMA StrandsNone == TcpInv => NoneStranded
  <1> SUFFICES ASSUME TcpInv PROVE NoneStranded
    OBVIOUS
  <1>0. Books /\ Lanes
    BY TcpParts, Zenon
  <1>1. idle_timers = connections_
    BY <1>0, Zenon DEF Lanes
  <1>2. ASSUME todo = <<>>, NEW c \in connections_
        PROVE  /\ in[c] # <<>> => pending[c] >= kMaxPipelined
               /\ out[c] > 0 => "w" \in interest[c]
               /\ "r" \in interest[c] <=>
                    c \notin peer_done /\ pending[c] < kMaxPipelined /\ out[c] < kMaxUnsent
               /\ interest[c] = {} => pending[c] > 0
    <2>1. Settled(c) /\ pending[c] \in 0..kMaxPipelined /\ out[c] \in Nat
      BY <1>0, <1>2, SettledWhenIdle, Zenon
    <2>2. /\ in[c] # <<>> => pending[c] >= kMaxPipelined
          /\ interest[c] = Wanted(c) /\ ~Finished(c)
      BY <2>1, Zenon DEF Settled
    <2>3. out[c] > 0 => "w" \in interest[c]
      BY <2>2 DEF Wanted
    <2>4. "r" \in interest[c] <=>
                    c \notin peer_done /\ pending[c] < kMaxPipelined /\ out[c] < kMaxUnsent
      BY <2>2 DEF Wanted
    <2>5. ASSUME interest[c] = {} PROVE pending[c] > 0
      <3>1. ~(out[c] > 0) /\ ~(c \notin peer_done /\ pending[c] < kMaxPipelined /\ out[c] < kMaxUnsent)
        BY <2>3, <2>4, <2>5
      <3>2. out[c] = 0 /\ kMaxUnsent > 0 /\ kMaxPipelined > 1 /\ kMaxUnsent \in Nat /\ kMaxPipelined \in Nat
        BY <2>1, <3>1, TcpConstants
      <3>3. c \in peer_done => pending[c] # 0
        BY <2>2, <3>2, Zenon DEF Finished
      <3> QED BY <2>1, <3>1, <3>2, <3>3
    <2> QED BY <2>2, <2>3, <2>4, <2>5, Zenon
  <1> QED BY <1>1, <1>2, Zenon DEF NoneStranded, Idle

\* update() closes no connection that is owed something.
LEMMA ClosesOwingNothing ==
  ASSUME TcpInv, [TcpNext]_tcpVars
  PROVE  [\A c \in connections_ : c \notin connections_' /\ At("update", c) =>
            in[c] = <<>> /\ owed[c] = 0 /\ out[c] = 0]_tcpVars
  <1> SUFFICES ASSUME NEW c \in connections_, c \notin connections_', At("update", c), TcpNext
               PROVE  in[c] = <<>> /\ owed[c] = 0 /\ out[c] = 0
    <2>1. tcpVars' = tcpVars => connections_' = connections_
      BY Zenon DEF tcpVars
    <2> QED BY <2>1, Zenon
  <1>0. Books /\ Lanes /\ todo # <<>> /\ Head(todo) = "update" /\ at = c
    BY TcpParts, Zenon DEF At
  <1>1. c \in Conns
    BY <1>0 DEF Books
  <1>2. /\ Underway(c) /\ pending[c] \in 0..kMaxPipelined
        /\ owed[c] \in 0..kMaxPipelined /\ out[c] \in Nat /\ owed[c] <= pending[c]
    BY <1>0, <1>1, Inside1, Zenon
  <1>3. update(c)
    <2>1. "update" # "process_messages" /\ "update" # "flush"
      OBVIOUS
    <2>2. PICK d \in Conns :
            \/ Connects(d) \/ ShutsDown(d) \/ \E q \in Kinds : SendsQuery(d, q)
            \/ Accept(d) \/ PauseAccepting(d) \/ Reset(d) \/ Readable(d) \/ Writable(d)
            \/ respond(d) \/ IdleTimerFires(d) \/ AcceptRetry
            \/ ProcessQuery(d) \/ ProcessEnds(d) \/ flush(d) \/ update(d)
      BY <1>1, Zenon DEF TcpNext, Inside
    <2>3. ~(Connects(d) \/ ShutsDown(d) \/ \E q \in Kinds : SendsQuery(d, q))
      BY Zenon DEF Connects, ShutsDown, SendsQuery, limits
    <2>4. ~(\/ Accept(d) \/ PauseAccepting(d) \/ Reset(d) \/ Readable(d) \/ Writable(d)
            \/ respond(d) \/ IdleTimerFires(d) \/ AcceptRetry)
      BY <1>0, Zenon DEF Idle, Accept, PauseAccepting, Reset, Readable, Writable, respond,
                         IdleTimerFires, AcceptRetry
    <2>5. ~(ProcessQuery(d) \/ ProcessEnds(d) \/ flush(d))
      BY <1>0, <2>1, Zenon DEF ProcessQuery, ProcessEnds, flush, At
    <2>6. update(d) => d = c
      BY <1>0, Zenon DEF update, At
    <2> QED BY <2>2, <2>3, <2>4, <2>5, <2>6, Zenon
  <1>4. Finished(c)
    BY <1>3, Zenon DEF update, limits
  <1>5. pending[c] = 0 /\ out[c] = 0 /\ c \in peer_done
    BY <1>4, Zenon DEF Finished
  <1>6. in[c] = <<>>
    <2>1. ~(pending[c] > 0)
      BY <1>5
    <2> QED BY <1>2, <1>5, <2>1, Zenon DEF Underway
  <1>7. owed[c] = 0
    BY <1>2, <1>5
  <1> QED BY <1>5, <1>6, <1>7

----------------------------------------------------------------------------
(* The listener's theorems *)

INSTANCE FiniteSetTheorems

\* The facts the lemmas on connections assume.
LEMMA FiniteFactsHold == FiniteFacts
  <1>1. IsFiniteSet({}) /\ Cardinality({}) = 0
    BY FS_EmptySet, Zenon
  <1>2. \A S : IsFiniteSet(S) => Cardinality(S) \in Nat
    BY FS_CardinalityType, Zenon
  <1>3. \A S : \A T \in SUBSET S : IsFiniteSet(S) => IsFiniteSet(T)
    BY FS_Subset, Zenon
  <1>4. \A S, x : IsFiniteSet(S) =>
          /\ IsFiniteSet(S \cup {x})
          /\ Cardinality(S \cup {x}) = IF x \in S THEN Cardinality(S) ELSE Cardinality(S) + 1
    BY FS_AddElement, Zenon
  <1>5. \A S, x : IsFiniteSet(S) =>
          /\ IsFiniteSet(S \ {x})
          /\ Cardinality(S \ {x}) = IF x \in S THEN Cardinality(S) - 1 ELSE Cardinality(S)
    BY FS_RemoveElement, Zenon
  <1> QED BY <1>1, <1>2, <1>3, <1>4, <1>5, Zenon DEF FiniteFacts

\* TcpInv is an invariant.
LEMMA TcpAlways == TcpSpec => []TcpInv
  <1>1. TcpInit => TcpInv
    BY FiniteFactsHold, TcpInitInv, Zenon
  <1>2. TcpInv /\ [TcpNext]_tcpVars => TcpInv'
    BY FiniteFactsHold, TcpNextInv, Zenon
  <1> QED BY <1>1, <1>2, PTL DEF TcpSpec

\* For every number of clients and connections and whatever the queries, per_client_
\* and pending are exact counts within their limits: no path through respond(),
\* flush(), update(), the idle timer or an error closes a connection twice or
\* without giving its slot back, and pending, a size_t, never wraps.
THEOREM TcpLimitsExact == TcpSpec => []LimitsExact
  <1>1. TcpInv => LimitsExact
    BY Zenon DEF TcpInv
  <1> QED BY <1>1, TcpAlways, PTL

\* Between handlers no connection is left without what wakes it up: its idle timer,
\* and the event its queries or its responses wait for.
THEOREM TcpNoneStranded == TcpSpec => []NoneStranded
  <1>1. TcpInv => NoneStranded
    BY StrandsNone, Zenon
  <1> QED BY <1>1, TcpAlways, PTL

\* "update() closes once we owe it nothing": it closes no half-closed connection
\* that has a query unprocessed, unanswered or unsent, even from a response nested
\* in process_messages().
THEOREM TcpHalfCloseAnswered == TcpSpec => HalfCloseAnswered
  <1>1. TcpInv /\ [TcpNext]_tcpVars =>
          [\A c \in connections_ : c \notin connections_' /\ At("update", c) =>
             in[c] = <<>> /\ owed[c] = 0 /\ out[c] = 0]_tcpVars
    BY ClosesOwingNothing, Zenon
  <1> QED BY <1>1, TcpAlways, PTL DEF TcpSpec, HalfCloseAnswered
============================================================================

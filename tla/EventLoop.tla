----------------------------- MODULE EventLoop -----------------------------
(***************************************************************************)
(* The event loop (core/net/event_loop.cpp): run() on one thread, stop()   *)
(* from any thread or signal handler, and callbacks that add and remove    *)
(* fds and timers, their own included, while a batch of events collected   *)
(* earlier is still being dispatched.                                      *)
(*                                                                         *)
(* timers_ and timer_deadlines_ hold the same pairs and are one set here.  *)
(* The kernel may report any watched fd: which, and for what, is not the   *)
(* loop's business, so modify_fd() has no effect on this state.            *)
(***************************************************************************)
EXTENDS Integers, Sequences

CONSTANTS
  Fds,         \* fd numbers, which the kernel reuses
  TicksPerMs,  \* clock ticks in one millisecond, the unit of epoll_wait
  INT_MAX,     \* the longest timeout of epoll_wait
  Delays,      \* delays, in ticks, that callers ask for
  MaxTime, MaxTokens, MaxTimers   \* bounds: clock, registrations and timers ever made

ASSUME LoopConstants ==
  /\ Fds \subseteq 1..MaxTokens
  /\ TicksPerMs \in Nat \ {0} /\ INT_MAX \in Nat \ {0}
  /\ Delays \subseteq Nat
  /\ {MaxTime, MaxTokens, MaxTimers} \subseteq Nat

kWakeToken == 0
Block == -1    \* the timeout that waits for ever
NoRound == [now |-> 0, newest |-> 0]
NoIteration == [since |-> 0, newest |-> 0]

VARIABLES
  now,             \* steady_clock
  pc,              \* "out" of run(), or where in it
  stop_requested_,
  wake,            \* the eventfd wake_fd_ was written
  stopping,        \* what is left of a stop() that another thread is in
  timeout,         \* when epoll_wait gives up, or Block; Block outside epoll_wait too
  watches_,        \* registrations: token, fd, and which call of add_fd() made it
  next_token_,
  batch,           \* events collected by epoll_wait, not yet dispatched
  timers_,         \* (deadline, id) pairs
  next_timer_id_,
  round,           \* now and newest in run_due_timers(), NoRound outside it
  iteration        \* history: next_timer_id_ when the iteration began, and since when
                   \* it has been in epoll_wait (0 after it)

watching == <<watches_, next_token_>>
timing == <<timers_, next_timer_id_>>
stopper == <<stop_requested_, wake, stopping>>
vars == <<now, pc, stopper, timeout, watching, batch, timing, round, iteration>>

Tokens == {w.token : w \in watches_}

Before(s, t) == s.deadline < t.deadline \/ (s.deadline = t.deadline /\ s.id < t.id)

\* timers_.begin()
First == CHOOSE t \in timers_ : \A s \in timers_ \ {t} : Before(t, s)

Init ==
  /\ now = 0 /\ pc = "out"
  /\ stop_requested_ = FALSE /\ wake = FALSE /\ stopping = <<>>
  /\ timeout = Block
  /\ watches_ = {} /\ next_token_ = 1
  /\ batch = {}
  /\ timers_ = {} /\ next_timer_id_ = 1
  /\ round = NoRound /\ iteration = NoIteration

\* The clock runs on to the millisecond after the last deadline.
Tick ==
  /\ now < MaxTime + TicksPerMs - 1 /\ now' = now + 1
  /\ UNCHANGED <<pc, stopper, timeout, watching, batch, timing, round, iteration>>

----------------------------------------------------------------------------
(* What the loop's thread calls outside run() and in callbacks *)

InCallback == pc \in {"io callback", "timer callback"}
UserCode == pc = "out" \/ InCallback

FdAsToken(fd) == fd   \* wrong: the token is not the registration's own

NewToken(fd) == next_token_

\* add_fd(): a token is used up even when the kernel refuses the fd.
add_fd(fd) ==
  /\ UserCode /\ next_token_ <= MaxTokens
  /\ fd \notin {w.fd : w \in watches_}
  /\ next_token_' = next_token_ + 1
  /\ \/ watches_' = watches_ \cup {[token |-> NewToken(fd), fd |-> fd, call |-> next_token_]}
     \/ UNCHANGED watches_
  /\ UNCHANGED <<now, pc, stopper, timeout, batch, timing, round, iteration>>

remove_fd(fd) ==
  /\ UserCode /\ fd \in {w.fd : w \in watches_}
  /\ watches_' = {w \in watches_ : w.fd # fd}
  /\ UNCHANGED <<now, pc, stopper, timeout, next_token_, batch, timing, round, iteration>>

add_timer(delay) ==
  /\ UserCode /\ next_timer_id_ <= MaxTimers /\ now + delay <= MaxTime
  /\ timers_' = timers_ \cup {[deadline |-> now + delay, id |-> next_timer_id_]}
  /\ next_timer_id_' = next_timer_id_ + 1
  /\ UNCHANGED <<now, pc, stopper, timeout, watching, batch, round, iteration>>

cancel_timer(t) ==
  /\ UserCode /\ timers_' = timers_ \ {t}
  /\ UNCHANGED <<now, pc, stopper, timeout, watching, batch, next_timer_id_, round, iteration>>

CallbackReturns ==
  /\ InCallback
  /\ pc' = IF pc = "io callback" THEN "dispatch" ELSE "timers"
  /\ UNCHANGED <<now, stopper, timeout, watching, batch, timing, round, iteration>>

----------------------------------------------------------------------------
(* stop(), on any thread: the flag is stored, then the loop is woken.      *)

WakeThenStore == <<"write", "store">>   \* wrong: swapped order

StoreThenWake == <<"store", "write">>

StopCalled ==
  /\ stopping = <<>> /\ stopping' = StoreThenWake
  /\ UNCHANGED <<now, pc, stop_requested_, wake, timeout, watching, batch, timing, round, iteration>>

StopStep ==
  /\ stopping # <<>> /\ stopping' = Tail(stopping)
  /\ IF Head(stopping) = "store" THEN stop_requested_' = TRUE /\ UNCHANGED wake
                                ELSE wake' = TRUE /\ UNCHANGED stop_requested_
  /\ UNCHANGED <<now, pc, timeout, watching, batch, timing, round, iteration>>

----------------------------------------------------------------------------
(* run() *)

RunCalled ==
  /\ pc = "out" /\ pc' = "check"
  /\ UNCHANGED <<now, stopper, timeout, watching, batch, timing, round, iteration>>

Milliseconds(delay) == (delay + TicksPerMs - 1) \div TicksPerMs

NeverTimesOut == Block   \* wrong: timers are forgotten while no fd is ready

next_timeout_ms ==
  IF timers_ = {} THEN Block
  ELSE IF First.deadline <= now THEN 0
  ELSE IF Milliseconds(First.deadline - now) <= INT_MAX THEN Milliseconds(First.deadline - now)
  ELSE INT_MAX

\* The test of the while loop, and next_timeout_ms().
CheckStop ==
  /\ pc = "check"
  /\ pc' = IF stop_requested_ THEN "exit" ELSE "wait"
  /\ timeout' = IF stop_requested_ \/ next_timeout_ms = Block THEN Block
                ELSE now + next_timeout_ms * TicksPerMs
  /\ iteration' = IF stop_requested_ THEN NoIteration ELSE [since |-> now, newest |-> next_timer_id_]
  /\ UNCHANGED <<now, stopper, watching, batch, timing, round>>

\* stop_requested_ is cleared on the way out, for the next run().
Exit ==
  /\ pc = "exit" /\ pc' = "out"
  /\ stop_requested_' = FALSE
  /\ UNCHANGED <<now, wake, stopping, timeout, watching, batch, timing, round, iteration>>

\* epoll_wait returns events ...
Collect ==
  /\ pc = "wait" /\ pc' = "dispatch"
  /\ \E got \in SUBSET watches_ :
       /\ got # {} \/ wake
       /\ batch' = {[token |-> w.token, call |-> w.call] : w \in got}
                      \cup (IF wake THEN {[token |-> kWakeToken, call |-> 0]} ELSE {})
  /\ timeout' = Block /\ iteration' = [iteration EXCEPT !.since = 0]
  /\ UNCHANGED <<now, stopper, watching, timing, round>>

\* ... or the time is up ...
TimesOut ==
  /\ pc = "wait" /\ timeout # Block /\ timeout <= now
  /\ pc' = "dispatch" /\ batch' = {}
  /\ timeout' = Block /\ iteration' = [iteration EXCEPT !.since = 0]
  /\ UNCHANGED <<now, stopper, watching, timing, round>>

\* ... or a signal arrived.
Interrupted ==
  /\ pc = "wait" /\ pc' = "dispatch" /\ batch' = {}
  /\ timeout' = Block /\ iteration' = [iteration EXCEPT !.since = 0]
  /\ UNCHANGED <<now, stopper, watching, timing, round>>

\* One event of dispatch_io(): a registration removed earlier in this batch is
\* not found.
Dispatch(e) ==
  /\ pc = "dispatch" /\ e \in batch
  /\ batch' = batch \ {e}
  /\ wake' = (wake /\ e.token # kWakeToken)
  /\ pc' = IF e.token \in Tokens THEN "io callback" ELSE "dispatch"
  /\ UNCHANGED <<now, stop_requested_, stopping, timeout, watching, timing, round, iteration>>

\* run_due_timers()
StartRound ==
  /\ pc = "dispatch" /\ batch = {}
  /\ pc' = "timers" /\ round' = [now |-> now, newest |-> next_timer_id_]
  /\ UNCHANGED <<now, stopper, timeout, watching, batch, timing, iteration>>

AnyDue(t) == t.deadline <= round.now   \* wrong: timers added in this round fire in it

FiresInRound(t) == t.deadline <= round.now /\ t.id < round.newest

FireTimer ==
  /\ pc = "timers" /\ timers_ # {} /\ FiresInRound(First)
  /\ timers_' = timers_ \ {First}
  /\ pc' = "timer callback"
  /\ UNCHANGED <<now, stopper, timeout, watching, batch, next_timer_id_, round, iteration>>

EndRound ==
  /\ pc = "timers" /\ ~(timers_ # {} /\ FiresInRound(First))
  /\ pc' = "check"
  /\ round' = NoRound /\ iteration' = NoIteration
  /\ UNCHANGED <<now, stopper, timeout, watching, batch, timing>>

----------------------------------------------------------------------------
LoopStep ==
  \/ CheckStop \/ Exit \/ TimesOut
  \/ \E e \in batch : Dispatch(e)
  \/ StartRound \/ FireTimer \/ EndRound
  \/ CallbackReturns

Next ==
  \/ LoopStep \/ Collect \/ Interrupted
  \/ \E fd \in Fds : add_fd(fd) \/ remove_fd(fd)
  \/ \E delay \in Delays : add_timer(delay)
  \/ \E t \in timers_ : cancel_timer(t)
  \/ RunCalled \/ StopCalled \/ StopStep
  \/ Tick

Spec == Init /\ [][Next]_vars

\* The loop's thread runs, a callback returns, stop() goes on to its end, time
\* passes while the loop runs, and epoll_wait returns once the eventfd is written.
\* No fd need ever become ready and no signal need come.
LoopFairness ==
  WF_vars(LoopStep) /\ WF_vars(StopStep) /\ WF_vars(pc # "out" /\ Tick) /\ WF_vars(wake /\ Collect)

----------------------------------------------------------------------------
EventExact ==
  \A e \in batch :
    pc' = "io callback" /\ e \notin batch' => \E w \in watches_ : w.token = e.token /\ w.call = e.call

\* "a stale event can never reach a newer registration of the same fd": an event
\* collected for one registration runs that registration's callback, or none,
\* whatever the callbacks before it in the batch removed and added.
NoStaleEvent == [][EventExact]_vars

FireExact ==
  pc = "timers" /\ pc' = "timer callback" =>
    \E t \in timers_ \ timers_' :
      /\ t.deadline <= now /\ t.id < round.newest
      /\ \A s \in timers_' : Before(t, s)

EndExact ==
  pc = "timers" /\ pc' = "check" =>
    \A t \in timers_ : t.id < iteration.newest => t.deadline > round.now

LastsAsLongAsItCan == now >= iteration.since + INT_MAX * TicksPerMs

WakesForTimer == TimesOut => LastsAsLongAsItCan \/ \E t \in timers_ : t.deadline <= now

NoOversleep ==
  pc = "wait" =>
    \A t \in timers_ : timeout # Block /\ (timeout <= iteration.since \/ timeout < t.deadline + TicksPerMs)

\* A round fires timers at or after their deadlines, in the order of (deadline, id),
\* and only ones that existed when it began; of those that were there when the
\* iteration began it leaves none that is due, although callbacks add and cancel
\* timers meanwhile.  "Round up: waking before the deadline would just spin until it
\* passes": when epoll_wait times out, a timer is due, or the timeout was the longest
\* there is.  And it never sleeps a millisecond or more past a deadline.
RoundsAreExact == [][FireExact /\ EndExact /\ WakesForTimer /\ NoOversleep]_vars

\* "A timer added by a callback fires no earlier than the next iteration": whatever
\* fires was there when the iteration began.
NextIteration ==
  [][pc = "timers" /\ pc' = "timer callback" =>
       \A t \in timers_ \ timers_' : t.id < iteration.newest]_vars

\* A stop() from another thread ends run(), wherever in its iteration the loop is
\* and even when no fd is ever ready; one that came before run() ends it too.
StopHonoured == (Len(stopping) = 2 \/ stop_requested_) /\ pc # "out" ~> pc = "out"

\* While the loop runs, no timer is forgotten: it fires or is cancelled.
TimersFire ==
  \A i \in 1..MaxTimers :
    pc # "out" /\ (\E t \in timers_ : t.id = i) ~> pc = "out" \/ ~\E t \in timers_ : t.id = i

----------------------------------------------------------------------------
(* Why NoStaleEvent and RoundsAreExact hold *)

\* Tokens are never used again, so token and registration say the same, in watches_
\* and in a batch.
TokensExact ==
  /\ \A w \in watches_ : w.token = w.call
  /\ \A e \in batch : e.token = e.call

\* Timers are told apart by id.
TimersTyped ==
  /\ now \in Nat /\ next_timer_id_ \in Nat
  /\ \A t \in timers_ : t.deadline \in Nat /\ t.id \in Nat /\ t.id < next_timer_id_
  /\ \A s, t \in timers_ : s.id = t.id => s = t

InRound == pc \in {"timers", "timer callback"}

\* One added in a round is not due before it, and what was there when the iteration
\* began was there when the round did.
RoundExact ==
  InRound =>
    /\ round.now \in Nat /\ round.newest \in Nat
    /\ round.now <= now /\ round.newest <= next_timer_id_ /\ iteration.newest <= round.newest
    /\ \A t \in timers_ : t.id >= round.newest => t.deadline >= round.now

IterationTyped == iteration \in [since : Nat, newest : Nat] /\ iteration.newest <= next_timer_id_

\* epoll_wait gives up no earlier than the first timer is due, if it can, and less
\* than a millisecond later than any is.
TimeoutExact ==
  pc = "wait" =>
    /\ timeout # Block =>
         /\ timeout \in Int
         /\ \/ \E t \in timers_ : t.deadline <= timeout
            \/ timeout >= iteration.since + INT_MAX * TicksPerMs
    /\ NoOversleep

LoopInv == TokensExact /\ TimersTyped /\ IterationTyped /\ RoundExact /\ TimeoutExact
============================================================================

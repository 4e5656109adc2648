--------------------------- MODULE ResolverTasks ---------------------------
(***************************************************************************)
(* The life of the resolver's tasks (core/resolver/recursive_resolver.cpp, *)
(* "Task lifecycle"): who is called back, what each task waits for, and    *)
(* what is torn down when one ends.  What a task decides to do next (ask a *)
(* server, look up a name server's address, give up, answer) is left open  *)
(* here; module Resolver supplies it and implements this specification.    *)
(*                                                                         *)
(* The resolver runs on one thread.  Every call to finish(), and to any    *)
(* function that may call it, is the last thing its caller does, so what   *)
(* the thread is doing is one record, call, and needs no stack:            *)
(*   idle     back in the event loop                                       *)
(*   run      in a resolution step of task id                              *)
(*   finish   in finish(id)                                                *)
(*   cancel   finish(top) is cancelling the sub-query id                   *)
(*   done     finish(id) has released the task and calls back              *)
(*   clients  a client finish(id) called back is running, others are due   *)
(* While call is not idle no timer or socket gets a turn.  Clients call in *)
(* from the event loop and from their callbacks; the last callback is not  *)
(* told apart from the event loop it returns to.                           *)
(***************************************************************************)
EXTENDS Naturals

CONSTANTS
  Clients,     \* callers of resolve(): each has at most one call outstanding
  Questions,   \* what they, and sub-queries, may ask
  TaskIds,     \* ids of the tasks alive at one time (bound: the code's ids only grow)
  Queries,     \* what may be sent to a server
  MaxUpstreamQueries,  \* config.max_upstream_queries
  None

ASSUME TaskConstants ==
  /\ MaxUpstreamQueries \in Nat
  /\ None \notin Questions /\ None \notin TaskIds /\ None \notin Queries

VARIABLES
  alive,        \* the RecursiveResolver object exists
  waiting,      \* [Clients -> Questions or None]: asked, not yet called back
  live,         \* the keys of `tasks`
  question,     \* Task::question
  parent,       \* whose on_child_done() is Task::done; None: a client's callback
  callers,      \* clients whose callbacks the task owns: its own and its joiners'
  child,        \* Task::child
  upstream,     \* Task::upstream
  budget,       \* Task::budget, named by the client task that made it
  queries,      \* Budget::queries
  start_timer,  \* tasks with a start timer in the event loop
  deadline,     \* tasks with a deadline timer in the event loop
  pending,      \* UpstreamClient::pending_: <<task called back, query>>
  in_flight,    \* [Questions -> TaskIds or None]
  call          \* what the loop's thread is doing

taskVars == <<alive, waiting, live, question, parent, callers, child, upstream,
              budget, queries, start_timer, deadline, pending, in_flight, call>>

----------------------------------------------------------------------------
Idle == [fn |-> "idle", id |-> None, top |-> None]

Running(i) == call.fn = "run" /\ call.id = i /\ i \in live

\* A task is a client's query, not a sub-query (Task::client).
IsClient(i) == parent[i] = None

TasksInit ==
  /\ alive = TRUE
  /\ waiting = [c \in Clients |-> None]
  /\ live = {}
  /\ question = [i \in TaskIds |-> None]
  /\ parent = [i \in TaskIds |-> None]
  /\ callers = [i \in TaskIds |-> {}]
  /\ child = [i \in TaskIds |-> None]
  /\ upstream = [i \in TaskIds |-> None]
  /\ budget = [i \in TaskIds |-> None]
  /\ queries = [i \in TaskIds |-> 0]
  /\ start_timer = {}
  /\ deadline = {}
  /\ pending = {}
  /\ in_flight = [q \in Questions |-> None]
  /\ call = Idle

\* spawn(): a task starts on the loop's next turn.  NewId stands for next_task_id++,
\* which never gives the id of a task that exists or that finish() is still busy with.
FreeIds == TaskIds \ (live \cup {call.id})

NewId == CHOOSE i \in FreeIds : TRUE

HasRoom == FreeIds # {}

spawn(i, q, p, b, cs) ==
  /\ live' = live \cup {i}
  /\ question' = [question EXCEPT ![i] = q]
  /\ parent' = [parent EXCEPT ![i] = p]
  /\ budget' = [budget EXCEPT ![i] = b]
  /\ callers' = [callers EXCEPT ![i] = cs]
  /\ start_timer' = start_timer \cup {i}

\* resolve_client(): join the resolution in flight, or start one with its own
\* budget and deadline.
ForgetfulJoin(c, q) ==   \* wrong: the joiner's callback is dropped
  /\ in_flight[q] \in live
  /\ UNCHANGED <<callers, live, question, parent, budget, queries, start_timer, deadline,
                 in_flight>>

Join(c, q) ==
  /\ in_flight[q] \in live
  /\ callers' = [callers EXCEPT ![in_flight[q]] = @ \cup {c}]
  /\ UNCHANGED <<live, question, parent, budget, queries, start_timer, deadline, in_flight>>

\* The deadline timer of a client task, from before its first step.
WithDeadline(i) == deadline \cup {i}

StartNew(c, q) ==
  /\ in_flight[q] \notin live
  /\ HasRoom
  /\ LET i == NewId IN
       /\ spawn(i, q, None, i, {c})
       /\ queries' = [queries EXCEPT ![i] = 0]
       /\ deadline' = WithDeadline(i)
       /\ in_flight' = [in_flight EXCEPT ![q] = i]

ClientsTurn == call.fn \in {"idle", "clients"}

resolve_client(c, q) ==
  /\ alive /\ ClientsTurn /\ waiting[c] = None
  /\ waiting' = [waiting EXCEPT ![c] = q]
  /\ Join(c, q) \/ StartNew(c, q)
  /\ UNCHANGED <<alive, child, upstream, pending, call>>

\* The start timer fires: the task takes its first step.
StartTimerFires(i) ==
  /\ call = Idle /\ i \in start_timer
  /\ start_timer' = start_timer \ {i}
  /\ call' = IF i \in live THEN [fn |-> "run", id |-> i, top |-> None] ELSE Idle
  /\ UNCHANGED <<alive, waiting, live, question, parent, callers, child, upstream, budget,
                 queries, deadline, pending, in_flight>>

\* The deadline timer fires: whatever the task is waiting for, it is over.
DeadlineFires(i) ==
  /\ call = Idle /\ i \in deadline
  /\ deadline' = deadline \ {i}
  /\ call' = IF i \in live THEN [fn |-> "finish", id |-> i, top |-> None] ELSE Idle
  /\ UNCHANGED <<alive, waiting, live, question, parent, callers, child, upstream, budget,
                 queries, start_timer, pending, in_flight>>

\* The upstream client calls back, having dropped its own record of the query:
\* on_response() finds the task and goes on with it.
on_response(i, m) ==
  /\ call = Idle /\ <<i, m>> \in pending
  /\ pending' = pending \ {<<i, m>>}
  /\ IF i \in live
       THEN /\ upstream' = [upstream EXCEPT ![i] = None]
            /\ call' = [fn |-> "run", id |-> i, top |-> None]
       ELSE UNCHANGED <<upstream, call>>
  /\ UNCHANGED <<alive, waiting, live, question, parent, callers, child, budget, queries,
                 start_timer, deadline, in_flight>>

\* send_query(): within the budget, ask and return to the loop.
send_query(i, m) ==
  /\ Running(i)
  /\ queries[budget[i]] < MaxUpstreamQueries
  /\ queries' = [queries EXCEPT ![budget[i]] = @ + 1]
  /\ upstream' = [upstream EXCEPT ![i] = m]
  /\ pending' = pending \cup {<<i, m>>}
  /\ call' = Idle
  /\ UNCHANGED <<alive, waiting, live, question, parent, callers, child, budget,
                 start_timer, deadline, in_flight>>

\* A sub-query shares its parent's budget.
ChildBudget(i) == budget[i]

\* next_server() looks up a name server's address: a sub-query on the same budget.
SpawnChild(i, q) ==
  /\ Running(i) /\ HasRoom
  /\ LET j == NewId IN
       /\ spawn(j, q, i, ChildBudget(i), {})
       /\ child' = [child EXCEPT ![i] = j]
  /\ call' = Idle
  /\ UNCHANGED <<alive, waiting, upstream, queries, deadline, pending, in_flight>>

\* A resolution step reaches an outcome, or gives up: it calls finish().
GoFinish(i) ==
  /\ Running(i)
  /\ call' = [fn |-> "finish", id |-> i, top |-> None]
  /\ UNCHANGED <<alive, waiting, live, question, parent, callers, child, upstream, budget,
                 queries, start_timer, deadline, pending, in_flight>>

\* A client task unregisters its question, if it is the one registered.
Unregister(i) ==
  IF IsClient(i) /\ in_flight[question[i]] = i
    THEN [in_flight EXCEPT ![question[i]] = None] ELSE in_flight

KeepQuery(i) == pending   \* wrong: the upstream client still has the query

\* upstream.cancel(task.upstream)
WithoutQuery(i) == pending \ {<<i, upstream[i]>>}

\* release(): everything the task has in the resolver, the upstream client and
\* the event loop.  Its sub-query is cancelled next, by the caller.
release(i) ==
  /\ live' = live \ {i}
  /\ in_flight' = Unregister(i)
  /\ pending' = WithoutQuery(i)
  /\ upstream' = [upstream EXCEPT ![i] = None]
  /\ child' = [child EXCEPT ![i] = None]
  /\ start_timer' = start_timer \ {i}
  /\ deadline' = deadline \ {i}

\* The Task object goes away, and the budget with the client task that made it.
Forget(i) ==
  /\ question' = [question EXCEPT ![i] = None]
  /\ parent' = [parent EXCEPT ![i] = None]
  /\ budget' = [budget EXCEPT ![i] = None]
  /\ callers' = [callers EXCEPT ![i] = {}]
  /\ queries' = [queries EXCEPT ![i] = 0]

\* finish() cancels the sub-query the task waits for, then calls back.
AfterRelease(i) ==
  IF child[i] = None THEN [fn |-> "done", id |-> i, top |-> None]
                     ELSE [fn |-> "cancel", id |-> child[i], top |-> i]

finish(i) ==
  /\ call.fn = "finish" /\ call.id = i
  /\ release(i)
  /\ call' = AfterRelease(i)
  /\ UNCHANGED <<alive, waiting, question, parent, callers, budget, queries>>

\* cancel(): the same for a sub-query, and its own sub-query in turn; no callback.
cancel(j) ==
  /\ call.fn = "cancel" /\ call.id = j
  /\ IF j \in live
       THEN release(j) /\ Forget(j)
       ELSE UNCHANGED <<live, in_flight, pending, upstream, child, start_timer, deadline,
                        question, parent, budget, callers, queries>>
  /\ call' = IF j \in live /\ child[j] # None
               THEN [fn |-> "cancel", id |-> child[j], top |-> call.top]
               ELSE [fn |-> "done", id |-> call.top, top |-> None]
  /\ UNCHANGED <<alive, waiting>>

\* finish() ends: a client task calls back its own client and its joiners, one
\* after the other, even if one of them destroys the resolver ...
CallClient(i, c) ==
  /\ call.fn \in {"done", "clients"} /\ call.id = i /\ c \in callers[i]
  /\ waiting' = [waiting EXCEPT ![c] = None]
  /\ IF callers[i] = {c}
       THEN Forget(i) /\ call' = Idle
       ELSE /\ callers' = [callers EXCEPT ![i] = @ \ {c}]
            /\ call' = [call EXCEPT !.fn = "clients"]
            /\ UNCHANGED <<question, parent, budget, queries>>
  /\ UNCHANGED <<alive, live, child, upstream, start_timer, deadline, pending, in_flight>>

\* on_child_done(): task.child = 0.
WithoutChild(i) == [child EXCEPT ![parent[i]] = None]

\* ... and a sub-query its parent: on_child_done() goes on with it.
on_child_done(i) ==
  /\ call.fn = "done" /\ call.id = i /\ ~IsClient(i)
  /\ IF parent[i] \in live
       THEN /\ child' = WithoutChild(i)
            /\ call' = [fn |-> "run", id |-> parent[i], top |-> None]
       ELSE call' = Idle /\ UNCHANGED child
  /\ Forget(i)
  /\ UNCHANGED <<alive, waiting, live, upstream, start_timer, deadline, pending, in_flight>>

\* ~Impl(): tasks are abandoned, their timers cancelled, their callbacks never
\* called; ~UpstreamClient() drops its queries.  What is left are the callbacks
\* that finish() is about to make: Kept is f with only what belongs to those.
Kept(f, nothing) == [i \in TaskIds |-> IF i = call.id THEN f[i] ELSE nothing]

Destroy ==
  /\ alive /\ ClientsTurn
  /\ alive' = FALSE
  /\ waiting' = [c \in Clients |->
                   IF call.id # None /\ c \in callers[call.id] THEN waiting[c] ELSE None]
  /\ start_timer' = start_timer \ live
  /\ deadline' = deadline \ live
  /\ pending' = {}
  /\ live' = {}
  /\ child' = [i \in TaskIds |-> None]
  /\ upstream' = [i \in TaskIds |-> None]
  /\ question' = Kept(question, None)
  /\ parent' = Kept(parent, None)
  /\ budget' = Kept(budget, None)
  /\ callers' = Kept(callers, {})
  /\ in_flight' = [q \in Questions |-> None]
  /\ queries' = Kept(queries, 0)
  /\ UNCHANGED call

\* Impl(): a new resolver starts with no tasks.
Create ==
  /\ ~alive
  /\ alive' = TRUE
  /\ UNCHANGED <<waiting, live, question, parent, callers, child, upstream, budget, queries,
                 start_timer, deadline, pending, in_flight, call>>

TasksNext ==
  \/ \E c \in Clients, q \in Questions : resolve_client(c, q)
  \/ \E i \in TaskIds :
       \/ StartTimerFires(i)
       \/ DeadlineFires(i)
       \/ \E m \in Queries : on_response(i, m) \/ send_query(i, m)
       \/ \E q \in Questions : SpawnChild(i, q)
       \/ GoFinish(i)
       \/ finish(i)
       \/ cancel(i)
       \/ \E c \in Clients : CallClient(i, c)
       \/ on_child_done(i)
  \/ Destroy
  \/ Create

TasksSpec == TasksInit /\ [][TasksNext]_taskVars

----------------------------------------------------------------------------
\* Every variable keeps its type; call names a task whenever it is not idle.
TasksTypeOK ==
  /\ alive \in BOOLEAN
  /\ waiting \in [Clients -> Questions \cup {None}]
  /\ live \subseteq TaskIds
  /\ question \in [TaskIds -> Questions \cup {None}]
  /\ parent \in [TaskIds -> TaskIds \cup {None}]
  /\ callers \in [TaskIds -> SUBSET Clients]
  /\ child \in [TaskIds -> TaskIds \cup {None}]
  /\ upstream \in [TaskIds -> Queries \cup {None}]
  /\ budget \in [TaskIds -> TaskIds \cup {None}]
  /\ queries \in [TaskIds -> Nat]
  /\ start_timer \subseteq TaskIds
  /\ deadline \subseteq TaskIds
  /\ pending \subseteq TaskIds \X Queries
  /\ in_flight \in [Questions -> TaskIds \cup {None}]
  /\ call \in {Idle} \cup [fn : {"run", "finish", "done", "clients"}, id : TaskIds, top : {None}]
                 \cup [fn : {"cancel"}, id : TaskIds, top : TaskIds]

\* What a task can be waiting for.
WaitsToStart(i) == i \in start_timer
WaitsForServer(i) == upstream[i] # None
WaitsForChild(i) == child[i] # None

WaitsForNothing(i) == ~WaitsToStart(i) /\ ~WaitsForServer(i) /\ ~WaitsForChild(i)

WaitsForAtMostOne(i) ==
  /\ ~(WaitsToStart(i) /\ WaitsForServer(i))
  /\ ~(WaitsToStart(i) /\ WaitsForChild(i))
  /\ ~(WaitsForServer(i) /\ WaitsForChild(i))

InHand(fn, i) == call.fn = fn /\ call.id = i

\* No task is lost or doubly driven ("every wait is a return to the event
\* loop"): a task the thread is not working on waits for exactly one of its
\* start timer, an upstream query and a sub-query; one it is stepping waits for
\* nothing, so no second wake-up can reach it later.
EveryTaskWaits ==
  \A i \in live :
    /\ WaitsForAtMostOne(i)
    /\ InHand("run", i) => WaitsForNothing(i)
    /\ WaitsForNothing(i) => InHand("run", i) \/ InHand("finish", i)

\* Nothing outlives its task: timers in the event loop and queries in the
\* upstream client belong to live tasks that know of them, and every client task
\* has its deadline running until it finishes.
NothingDangles ==
  /\ start_timer \subseteq live
  /\ \A i \in TaskIds, m \in Queries : <<i, m>> \in pending <=> i \in live /\ upstream[i] = m
  /\ \A i \in deadline : i \in live /\ IsClient(i)
  /\ \A i \in live : IsClient(i) => i \in deadline \/ InHand("finish", i)

\* Sub-queries form chains under client tasks: a parent that waits for a child
\* and the child that will call it back name each other, and a sub-query whose
\* parent has ended is already being cancelled, so none is orphaned.
FamiliesLinked ==
  /\ \A i \in live : child[i] # None =>
        /\ parent[child[i]] = i
        /\ child[i] \in live \/ InHand("done", child[i])
  /\ \A j \in live : parent[j] # None =>
        \/ parent[j] \in live /\ child[parent[j]] = j
        \/ InHand("cancel", j)

\* In-flight deduplication: in_flight holds exactly the live client tasks under
\* their questions, so an identical question always finds the task to join.
InFlightExact ==
  /\ \A i \in live : question[i] \in Questions
  /\ \A q \in Questions, i \in TaskIds :
       in_flight[q] = i <=> i \in live /\ IsClient(i) /\ question[i] = q

\* "done is called exactly once": a waiting client's callback is held by exactly
\* one task, for the question the client asked, live or about to call back; no
\* task holds the callback of a client already called.
CallbackOwnedOnce ==
  /\ \A c \in Clients : waiting[c] # None => \E i \in TaskIds : c \in callers[i]
  /\ \A i, j \in TaskIds : \A c \in callers[i] : c \in callers[j] => i = j
  /\ \A i \in TaskIds : \A c \in callers[i] :
       /\ IsClient(i) /\ waiting[c] # None /\ waiting[c] = question[i]
       /\ \/ i \in live
          \/ InHand("done", i) \/ InHand("clients", i)
          \/ call.fn = "cancel" /\ call.top = i

\* max_upstream_queries bounds a client query and its sub-queries together: a
\* whole family draws on one budget, which is never overdrawn.
BudgetShared ==
  \A i \in live :
    /\ budget[i] \in TaskIds
    /\ queries[budget[i]] <= MaxUpstreamQueries
    /\ IsClient(i) => budget[i] = i
    /\ ~IsClient(i) /\ parent[i] \in live => budget[i] = budget[parent[i]]

\* What the inductive argument needs besides: where the thread is agrees with the
\* tasks, and a dead task holds nothing.
ThreadConsistent ==
  /\ call.fn \in {"run", "finish"} => call.id \in live
  /\ call.fn = "finish" /\ child[call.id] # None => IsClient(call.id)
  /\ call.fn = "cancel" =>
       /\ call.id \in live /\ parent[call.id] # None /\ parent[call.id] \notin live
       /\ call.top \notin live /\ IsClient(call.top)
  /\ call.fn = "done" =>
       /\ call.id \notin live
       /\ parent[call.id] # None =>
            parent[call.id] \in live /\ child[parent[call.id]] = call.id
  /\ call.fn = "clients" => call.id \notin live /\ IsClient(call.id)
  /\ ~alive => ClientsTurn /\ live = {}

DeadHoldNothing == \A i \in TaskIds \ live : child[i] = None /\ upstream[i] = None

\* The inductive invariant of the tasks: all of the above together.
TasksInv ==
  /\ TasksTypeOK
  /\ EveryTaskWaits
  /\ NothingDangles
  /\ FamiliesLinked
  /\ InFlightExact
  /\ CallbackOwnedOnce
  /\ BudgetShared
  /\ ThreadConsistent
  /\ DeadHoldNothing

\* The clients whose resolution is over but who have not been called back yet.
Due ==
  IF call.fn = "cancel" THEN callers[call.top]
  ELSE IF call.fn \in {"done", "clients"} THEN callers[call.id]
  ELSE {}

Service == INSTANCE ResolverService WITH due <- Due

\* The promise made to callers of resolve(): one callback each, with the outcome
\* shared by all who asked the same question until then, whatever joins,
\* sub-queries, deadlines and cancellations do inside, and whatever the callbacks
\* called before it do.
ServiceSpec == Service!Spec
============================================================================

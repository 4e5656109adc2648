------------------------ MODULE ResolverTasksProofs ------------------------
(***************************************************************************)
(* The resolver's task lifecycle is correct for any number of clients,     *)
(* questions, tasks and servers: TasksInv is inductive, so each invariant  *)
(* it is made of holds in every reachable state, and the tasks keep the    *)
(* promise of ResolverService.                                             *)
(***************************************************************************)
EXTENDS ResolverTasks, TLAPS

USE DEF Idle, IsClient, InHand, WaitsToStart, WaitsForServer, WaitsForChild,
        WaitsForNothing, WaitsForAtMostOne, Running, ChildBudget, Unregister, WithoutQuery,
        AfterRelease, WithoutChild, WithDeadline, ClientsTurn
USE SMTT(60), SMTT(90)   \* a second try, should the machine be busy

----------------------------------------------------------------------------
(* Steps that begin a task or take it further *)

\* Before any call there are no tasks, and every part of the invariant holds.
LEMMA InitInv == TasksInit => TasksInv
  BY TaskConstants
     DEF TasksInit, TasksInv, TasksTypeOK, EveryTaskWaits, NothingDangles, FamiliesLinked,
         InFlightExact, CallbackOwnedOnce, BudgetShared, ThreadConsistent, DeadHoldNothing

\* A stuttering step changes nothing the invariant speaks of.
LEMMA StutterInv == TasksInv /\ UNCHANGED taskVars => TasksInv'
  BY DEF taskVars, TasksInv, TasksTypeOK, EveryTaskWaits, NothingDangles, FamiliesLinked,
         InFlightExact, CallbackOwnedOnce, BudgetShared, ThreadConsistent, DeadHoldNothing

\* A client joins the resolution of its question that is in flight.
LEMMA JoinInv ==
  ASSUME NEW c \in Clients, NEW q \in Questions, TasksInv, resolve_client(c, q), Join(c, q)
  PROVE  TasksInv'
  <1> USE TaskConstants DEF resolve_client, Join, TasksInv, TasksTypeOK
  <1>1. TasksTypeOK'
    OBVIOUS
  <1>2. /\ EveryTaskWaits' /\ NothingDangles' /\ FamiliesLinked'
        /\ InFlightExact' /\ BudgetShared' /\ DeadHoldNothing'
    BY DEF EveryTaskWaits, NothingDangles, FamiliesLinked, InFlightExact, BudgetShared,
           DeadHoldNothing
  <1>3. CallbackOwnedOnce'
    BY DEF InFlightExact, CallbackOwnedOnce
  <1>4. ThreadConsistent'
    BY DEF ThreadConsistent
  <1> HIDE DEF resolve_client, Join, TasksTypeOK
  <1> QED BY <1>1, <1>2, <1>3, <1>4

\* A task with its own budget and deadline is started for a client.
LEMMA StartNewInv ==
  ASSUME NEW c \in Clients, NEW q \in Questions,
         TasksInv, resolve_client(c, q), StartNew(c, q)
  PROVE  TasksInv'
  <1> USE TaskConstants DEF resolve_client, StartNew, spawn, TasksInv, TasksTypeOK
  <1>0. NewId \in TaskIds \ live /\ NewId # call.id
    BY DEF NewId, HasRoom, FreeIds
  <1>1. TasksTypeOK'
    BY <1>0 DEF DeadHoldNothing
  <1>2. EveryTaskWaits'
    BY <1>0 DEF EveryTaskWaits, DeadHoldNothing
  <1>3. NothingDangles'
    BY <1>0 DEF NothingDangles, DeadHoldNothing
  <1>4. FamiliesLinked'
    BY <1>0 DEF FamiliesLinked, ThreadConsistent, DeadHoldNothing
  <1>5. InFlightExact'
    BY <1>0 DEF InFlightExact, DeadHoldNothing
  <1>6. CallbackOwnedOnce'
    BY <1>0 DEF InFlightExact, CallbackOwnedOnce, ThreadConsistent
  <1>7. BudgetShared'
    BY <1>0 DEF FamiliesLinked, BudgetShared, ThreadConsistent
  <1>8. ThreadConsistent'
    BY <1>0 DEF ThreadConsistent, DeadHoldNothing
  <1>9. DeadHoldNothing'
    BY <1>0 DEF DeadHoldNothing
  <1> HIDE DEF resolve_client, StartNew, spawn, TasksTypeOK
  <1> QED BY <1>1, <1>2, <1>3, <1>4, <1>5, <1>6, <1>7, <1>8, <1>9

\* The start timer of a task fires, and the task is stepped.
LEMMA StartTimerInv ==
  ASSUME NEW i \in TaskIds, TasksInv, StartTimerFires(i)
  PROVE  TasksInv'
  <1> USE TaskConstants DEF StartTimerFires, TasksInv, TasksTypeOK
  <1>1. TasksTypeOK'
    OBVIOUS
  <1>2. /\ EveryTaskWaits' /\ NothingDangles' /\ FamiliesLinked' /\ InFlightExact'
        /\ CallbackOwnedOnce' /\ BudgetShared' /\ DeadHoldNothing'
    BY DEF EveryTaskWaits, NothingDangles, FamiliesLinked, InFlightExact, CallbackOwnedOnce,
           BudgetShared, DeadHoldNothing
  <1>3. ThreadConsistent'
    BY DEF ThreadConsistent
  <1> HIDE DEF StartTimerFires, TasksTypeOK
  <1> QED BY <1>1, <1>2, <1>3

\* A deadline fires, whatever its task is waiting for.
LEMMA DeadlineInv ==
  ASSUME NEW i \in TaskIds, TasksInv, DeadlineFires(i)
  PROVE  TasksInv'
  <1> USE TaskConstants DEF DeadlineFires, TasksInv, TasksTypeOK
  <1>1. TasksTypeOK'
    OBVIOUS
  <1>2. /\ EveryTaskWaits' /\ NothingDangles' /\ FamiliesLinked' /\ InFlightExact'
        /\ CallbackOwnedOnce' /\ BudgetShared' /\ DeadHoldNothing'
    BY DEF EveryTaskWaits, NothingDangles, FamiliesLinked, InFlightExact, CallbackOwnedOnce,
           BudgetShared, DeadHoldNothing
  <1>3. ThreadConsistent'
    BY DEF NothingDangles, ThreadConsistent
  <1> HIDE DEF DeadlineFires, TasksTypeOK
  <1> QED BY <1>1, <1>2, <1>3

\* The upstream client calls a task back.
LEMMA OnResponseInv ==
  ASSUME NEW i \in TaskIds, NEW m \in Queries, TasksInv, on_response(i, m)
  PROVE  TasksInv'
  <1> USE TaskConstants DEF on_response, TasksInv, TasksTypeOK
  <1>1. TasksTypeOK'
    OBVIOUS
  <1>2. EveryTaskWaits'
    BY DEF EveryTaskWaits, NothingDangles
  <1>3. /\ NothingDangles' /\ FamiliesLinked' /\ InFlightExact'
        /\ CallbackOwnedOnce' /\ BudgetShared' /\ DeadHoldNothing'
    BY DEF NothingDangles, FamiliesLinked, InFlightExact, CallbackOwnedOnce, BudgetShared,
           DeadHoldNothing
  <1>4. ThreadConsistent'
    BY DEF ThreadConsistent
  <1> HIDE DEF on_response, TasksTypeOK
  <1> QED BY <1>1, <1>2, <1>3, <1>4

\* A task sends a query within its budget.
LEMMA SendQueryInv ==
  ASSUME NEW i \in TaskIds, NEW m \in Queries, TasksInv, send_query(i, m)
  PROVE  TasksInv'
  <1> USE TaskConstants DEF send_query, TasksInv, TasksTypeOK
  <1>1. TasksTypeOK'
    BY DEF BudgetShared
  <1>2. /\ EveryTaskWaits' /\ FamiliesLinked' /\ InFlightExact'
        /\ CallbackOwnedOnce' /\ BudgetShared' /\ DeadHoldNothing'
    BY DEF EveryTaskWaits, FamiliesLinked, InFlightExact, CallbackOwnedOnce, BudgetShared,
           DeadHoldNothing
  <1>3. NothingDangles'
    BY DEF EveryTaskWaits, NothingDangles
  <1>4. ThreadConsistent'
    BY DEF ThreadConsistent
  <1> HIDE DEF send_query, TasksTypeOK
  <1> QED BY <1>1, <1>2, <1>3, <1>4

\* A task starts a sub-query and waits for it.
LEMMA SpawnChildInv ==
  ASSUME NEW i \in TaskIds, NEW q \in Questions, TasksInv, SpawnChild(i, q)
  PROVE  TasksInv'
  <1> USE TaskConstants DEF SpawnChild, spawn, TasksInv, TasksTypeOK
  <1>0. NewId \in TaskIds \ live /\ NewId # call.id
    BY DEF NewId, HasRoom, FreeIds
  <1>1. TasksTypeOK'
    BY <1>0
  <1>2. EveryTaskWaits'
    BY <1>0 DEF EveryTaskWaits, DeadHoldNothing
  <1>3. NothingDangles'
    BY <1>0 DEF NothingDangles, DeadHoldNothing
  <1>4. FamiliesLinked'
    BY <1>0 DEF EveryTaskWaits, FamiliesLinked, ThreadConsistent, DeadHoldNothing
  <1>5. InFlightExact'
    BY <1>0 DEF InFlightExact
  <1>6. CallbackOwnedOnce'
    BY <1>0 DEF CallbackOwnedOnce
  <1>7. BudgetShared'
    BY <1>0 DEF FamiliesLinked, BudgetShared
  <1>8. ThreadConsistent'
    BY <1>0 DEF ThreadConsistent
  <1>9. DeadHoldNothing'
    BY <1>0 DEF DeadHoldNothing
  <1> HIDE DEF SpawnChild, spawn, TasksTypeOK
  <1> QED BY <1>1, <1>2, <1>3, <1>4, <1>5, <1>6, <1>7, <1>8, <1>9

\* A step of a task reaches an outcome.
LEMMA GoFinishInv ==
  ASSUME NEW i \in TaskIds, TasksInv, GoFinish(i)
  PROVE  TasksInv'
  <1> USE TaskConstants DEF GoFinish, TasksInv, TasksTypeOK
  <1>1. TasksTypeOK'
    OBVIOUS
  <1>2. /\ EveryTaskWaits' /\ NothingDangles' /\ FamiliesLinked' /\ InFlightExact'
        /\ CallbackOwnedOnce' /\ BudgetShared' /\ DeadHoldNothing'
    BY DEF EveryTaskWaits, NothingDangles, FamiliesLinked, InFlightExact, CallbackOwnedOnce,
           BudgetShared, DeadHoldNothing
  <1>3. ThreadConsistent'
    BY DEF EveryTaskWaits, ThreadConsistent
  <1> HIDE DEF GoFinish, TasksTypeOK
  <1> QED BY <1>1, <1>2, <1>3

----------------------------------------------------------------------------
(* Steps that end a task *)

\* finish() takes a task out.
LEMMA FinishInv ==
  ASSUME NEW i \in TaskIds, TasksInv, finish(i)
  PROVE  TasksInv'
  <1> USE TaskConstants DEF finish, release, TasksInv, TasksTypeOK
  <1>1. TasksTypeOK'
    <2>1. call' \in [fn : {"done"}, id : TaskIds, top : {None}]
                     \cup [fn : {"cancel"}, id : TaskIds, top : TaskIds]
      <3>1. call' = AfterRelease(i) /\ child[i] \in TaskIds \cup {None}
        OBVIOUS
      <3> HIDE DEF finish, TasksTypeOK
      <3>2. CASE child[i] = None
        BY <3>1, <3>2
      <3>3. CASE child[i] # None
        BY <3>1, <3>3
      <3> QED BY <3>2, <3>3
    <2>2. in_flight' \in [Questions -> TaskIds \cup {None}]
      <3>1. \/ in_flight' = in_flight
            \/ in_flight' = [in_flight EXCEPT ![question[i]] = None]
        OBVIOUS
      <3>2. in_flight \in [Questions -> TaskIds \cup {None}]
        OBVIOUS
      <3> HIDE DEF finish, release, TasksInv, TasksTypeOK
      <3> QED BY <3>1, <3>2
    <2>3. /\ upstream' \in [TaskIds -> Queries \cup {None}]
          /\ child' \in [TaskIds -> TaskIds \cup {None}]
      OBVIOUS
    <2>4. /\ UNCHANGED <<alive, waiting, question, parent, callers, budget, queries>>
          /\ live' \subseteq live /\ pending' \subseteq pending
          /\ start_timer' \subseteq start_timer /\ deadline' \subseteq deadline
      <3> HIDE DEF TasksInv, TasksTypeOK
      <3> QED OBVIOUS
    <2> HIDE DEF finish, release
    <2> QED BY <2>1, <2>2, <2>3, <2>4
  <1>2. EveryTaskWaits'
    BY DEF EveryTaskWaits
  <1>3. NothingDangles'
    BY DEF NothingDangles
  <1>4. FamiliesLinked'
    BY DEF FamiliesLinked, ThreadConsistent
  <1>5. InFlightExact'
    BY DEF InFlightExact
  <1>6. CallbackOwnedOnce'
    BY DEF CallbackOwnedOnce
  <1>7. BudgetShared'
    BY DEF BudgetShared
  <1>8. ThreadConsistent'
    BY DEF FamiliesLinked, InFlightExact, ThreadConsistent
  <1>9. DeadHoldNothing'
    BY DEF DeadHoldNothing
  <1> HIDE DEF finish, release, TasksTypeOK
  <1> QED BY <1>1, <1>2, <1>3, <1>4, <1>5, <1>6, <1>7, <1>8, <1>9

\* cancel() takes out a sub-query whose client is done.
LEMMA CancelInv ==
  ASSUME NEW i \in TaskIds, TasksInv, cancel(i)
  PROVE  TasksInv'
  <1> USE TaskConstants DEF cancel, release, Forget, TasksInv, TasksTypeOK
  <1>0. i \in live /\ parent[i] # None /\ call.top \in TaskIds
    BY DEF ThreadConsistent
  <1>1. TasksTypeOK'
    <2>1. call' \in [fn : {"done"}, id : TaskIds, top : {None}] \cup [fn : {"cancel"}, id : TaskIds, top : TaskIds]
      BY <1>0
    <2>2. /\ question' \in [TaskIds -> Questions \cup {None}]
          /\ parent' \in [TaskIds -> TaskIds \cup {None}]
          /\ budget' \in [TaskIds -> TaskIds \cup {None}]
          /\ callers' \in [TaskIds -> SUBSET Clients]
          /\ queries' \in [TaskIds -> Nat]
      BY <1>0
    <2>3. /\ in_flight' \in [Questions -> TaskIds \cup {None}]
          /\ pending' \subseteq TaskIds \X Queries
          /\ upstream' \in [TaskIds -> Queries \cup {None}]
          /\ child' \in [TaskIds -> TaskIds \cup {None}]
      BY <1>0
    <2>4. UNCHANGED <<alive, waiting>> /\ live' \subseteq live
          /\ start_timer' \subseteq start_timer /\ deadline' \subseteq deadline
      BY <1>0
    <2> HIDE DEF cancel, release, Forget
    <2> QED BY <2>1, <2>2, <2>3, <2>4
  <1>2. EveryTaskWaits'
    BY <1>0 DEF EveryTaskWaits
  <1>3. NothingDangles'
    BY <1>0 DEF NothingDangles
  <1>4. FamiliesLinked'
    BY <1>0 DEF FamiliesLinked, ThreadConsistent
  <1>5. InFlightExact'
    BY <1>0 DEF InFlightExact
  <1>6. CallbackOwnedOnce'
    <2>1. callers[i] = {}
      BY <1>0 DEF CallbackOwnedOnce
    <2>2. callers' = callers
      <3>1. callers' = [callers EXCEPT ![i] = {}]
        BY <1>0
      <3>2. callers' \in [TaskIds -> SUBSET Clients] /\ \A j \in TaskIds : callers'[j] = callers[j]
        BY <2>1, <3>1
      <3> HIDE DEF cancel
      <3> QED BY <3>2
    <2>3. \A j \in TaskIds : j # i => question'[j] = question[j] /\ parent'[j] = parent[j]
      OBVIOUS
    <2> QED
      BY <1>0, <2>1, <2>2, <2>3 DEF CallbackOwnedOnce, ThreadConsistent
  <1>7. BudgetShared'
    BY <1>0 DEF BudgetShared
  <1>8. ThreadConsistent'
    BY <1>0 DEF FamiliesLinked, ThreadConsistent
  <1>9. DeadHoldNothing'
    BY <1>0 DEF DeadHoldNothing
  <1> HIDE DEF cancel, release, Forget, TasksTypeOK
  <1> QED BY <1>1, <1>2, <1>3, <1>4, <1>5, <1>6, <1>7, <1>8, <1>9

\* finish() calls back one of its clients, the last or not.
LEMMA CallClientInv ==
  ASSUME NEW i \in TaskIds, NEW c \in Clients, TasksInv, CallClient(i, c)
  PROVE  TasksInv'
  <1> USE TaskConstants DEF CallClient, Forget, TasksInv, TasksTypeOK
  <1>0. i \notin live /\ parent[i] = None
    BY DEF CallbackOwnedOnce, ThreadConsistent
  <1>1. TasksTypeOK'
    OBVIOUS
  <1>2. EveryTaskWaits'
    BY DEF EveryTaskWaits
  <1>3. NothingDangles'
    BY <1>0 DEF NothingDangles
  <1>4. FamiliesLinked'
    BY <1>0 DEF FamiliesLinked
  <1>5. InFlightExact'
    BY <1>0 DEF InFlightExact
  <1>6. CallbackOwnedOnce'
    <2>1. c \in callers[i] /\ \A j \in TaskIds : j # i => c \notin callers[j]
      BY DEF CallbackOwnedOnce
    <2>2. /\ waiting' = [waiting EXCEPT ![c] = None]
          /\ callers' \in [TaskIds -> SUBSET Clients]
          /\ \A j \in TaskIds : callers'[j] = callers[j] \ {c}
      BY <2>1
    <2>3. \A j \in TaskIds : j # i \/ callers[i] # {c} =>
                                question'[j] = question[j] /\ parent'[j] = parent[j]
      OBVIOUS
    <2>4. /\ call.fn # "cancel" /\ live' = live
          /\ callers[i] # {c} => call'.fn = "clients" /\ call'.id = i
      OBVIOUS
    <2>5. \A j \in TaskIds : (callers[j] \ {c}) # {} /\ j = i => callers[i] # {c}
      OBVIOUS
    <2> HIDE DEF CallClient, Forget
    <2>6. CallClient(i, c) => call.id = i
      BY DEF CallClient
    <2> QED BY <1>0, <2>1, <2>2, <2>3, <2>4, <2>5, <2>6 DEF CallbackOwnedOnce
  <1>7. BudgetShared'
    BY <1>0 DEF BudgetShared, ThreadConsistent
  <1>8. ThreadConsistent'
    BY <1>0 DEF ThreadConsistent
  <1>9. DeadHoldNothing'
    BY DEF DeadHoldNothing
  <1> HIDE DEF CallClient, Forget, TasksTypeOK
  <1> QED BY <1>1, <1>2, <1>3, <1>4, <1>5, <1>6, <1>7, <1>8, <1>9

\* A sub-query reports to its parent.
LEMMA OnChildDoneInv ==
  ASSUME NEW i \in TaskIds, TasksInv, on_child_done(i)
  PROVE  TasksInv'
  <1> USE TaskConstants DEF on_child_done, Forget, TasksInv, TasksTypeOK
  <1>1. TasksTypeOK'
    <2>1. call' \in [fn : {"idle"}, id : {None}, top : {None}]
                     \cup [fn : {"run"}, id : TaskIds, top : {None}]
      OBVIOUS
    <2>2. /\ question' \in [TaskIds -> Questions \cup {None}]
          /\ parent' \in [TaskIds -> TaskIds \cup {None}]
          /\ budget' \in [TaskIds -> TaskIds \cup {None}]
          /\ callers' \in [TaskIds -> SUBSET Clients]
          /\ queries' \in [TaskIds -> Nat]
      OBVIOUS
    <2>3. child' \in [TaskIds -> TaskIds \cup {None}]
      OBVIOUS
    <2>4. UNCHANGED <<alive, waiting, live, upstream, start_timer, deadline, pending, in_flight>>
      OBVIOUS
    <2> HIDE DEF on_child_done, Forget
    <2> QED BY <2>1, <2>2, <2>3, <2>4
  <1>2. EveryTaskWaits'
    BY DEF EveryTaskWaits, ThreadConsistent
  <1>3. NothingDangles'
    BY DEF NothingDangles, ThreadConsistent
  <1>4. FamiliesLinked'
    BY DEF FamiliesLinked, ThreadConsistent
  <1>5. InFlightExact'
    BY DEF InFlightExact, ThreadConsistent
  <1>6. CallbackOwnedOnce'
    BY DEF CallbackOwnedOnce
  <1>7. BudgetShared'
    BY DEF BudgetShared, ThreadConsistent
  <1>8. ThreadConsistent'
    BY DEF ThreadConsistent
  <1>9. DeadHoldNothing'
    BY DEF DeadHoldNothing
  <1> HIDE DEF on_child_done, Forget, TasksTypeOK
  <1> QED BY <1>1, <1>2, <1>3, <1>4, <1>5, <1>6, <1>7, <1>8, <1>9

\* The resolver is destroyed.
LEMMA DestroyInv ==
  ASSUME TasksInv, Destroy
  PROVE  TasksInv'
  <1> USE TaskConstants DEF Destroy, Kept, TasksInv, TasksTypeOK
  <1>1. TasksTypeOK'
    <2>1. /\ waiting' \in [Clients -> Questions \cup {None}]
          /\ in_flight' \in [Questions -> TaskIds \cup {None}]
      OBVIOUS
    <2>2. /\ question' \in [TaskIds -> Questions \cup {None}]
          /\ parent' \in [TaskIds -> TaskIds \cup {None}]
          /\ budget' \in [TaskIds -> TaskIds \cup {None}]
      OBVIOUS
    <2>3. callers' \in [TaskIds -> SUBSET Clients] /\ queries' \in [TaskIds -> Nat]
      OBVIOUS
    <2>4. /\ upstream' \in [TaskIds -> Queries \cup {None}]
          /\ child' \in [TaskIds -> TaskIds \cup {None}]
      OBVIOUS
    <2>5. /\ live' = {} /\ pending' = {} /\ UNCHANGED call
          /\ start_timer' \subseteq start_timer /\ deadline' \subseteq deadline
      <3> HIDE DEF TasksInv, TasksTypeOK
      <3> QED OBVIOUS
    <2>6. alive' \in BOOLEAN
      BY Zenon
    <2> HIDE DEF Destroy, Kept
    <2> QED BY <2>1, <2>2, <2>3, <2>4, <2>5, <2>6
  <1>2. EveryTaskWaits'
    BY DEF EveryTaskWaits
  <1>3. NothingDangles'
    BY DEF NothingDangles
  <1>4. FamiliesLinked'
    BY DEF FamiliesLinked
  <1>5. InFlightExact'
    BY DEF InFlightExact
  <1>6. CallbackOwnedOnce'
    BY DEF CallbackOwnedOnce
  <1>7. BudgetShared'
    BY DEF BudgetShared
  <1>8. ThreadConsistent'
    BY DEF ThreadConsistent
  <1>9. DeadHoldNothing'
    BY DEF DeadHoldNothing
  <1> HIDE DEF Destroy, Kept, TasksTypeOK
  <1> QED BY <1>1, <1>2, <1>3, <1>4, <1>5, <1>6, <1>7, <1>8, <1>9

\* A resolver is made.
LEMMA CreateInv ==
  ASSUME TasksInv, Create
  PROVE  TasksInv'
  <1> USE TaskConstants DEF Create, TasksInv, TasksTypeOK
  <1>1. TasksTypeOK'
    OBVIOUS
  <1>2. EveryTaskWaits' /\ NothingDangles' /\ FamiliesLinked'
    BY DEF EveryTaskWaits, NothingDangles, FamiliesLinked
  <1>3. InFlightExact' /\ CallbackOwnedOnce'
    BY DEF InFlightExact, CallbackOwnedOnce
  <1>4. BudgetShared' /\ DeadHoldNothing'
    BY DEF BudgetShared, DeadHoldNothing
  <1>5. ThreadConsistent'
    BY DEF ThreadConsistent
  <1> HIDE DEF Create, TasksTypeOK
  <1> QED BY <1>1, <1>2, <1>3, <1>4, <1>5

\* One step of the resolver, whichever it is, preserves the invariant.
LEMMA NextInv == TasksInv /\ [TasksNext]_taskVars => TasksInv'
  <1> SUFFICES ASSUME TasksInv, [TasksNext]_taskVars PROVE TasksInv'
    OBVIOUS
  <1>1. ASSUME NEW c \in Clients, NEW q \in Questions, resolve_client(c, q) PROVE TasksInv'
    <2>1. Join(c, q) \/ StartNew(c, q) BY <1>1 DEF resolve_client
    <2> QED BY <1>1, <2>1, JoinInv, StartNewInv
  <1>2. ASSUME NEW i \in TaskIds,
               \/ StartTimerFires(i) \/ DeadlineFires(i)
               \/ \E m \in Queries : on_response(i, m) \/ send_query(i, m)
               \/ \E q \in Questions : SpawnChild(i, q)
        PROVE TasksInv'
    BY <1>2, StartTimerInv, DeadlineInv, OnResponseInv, SendQueryInv, SpawnChildInv
  <1>3. ASSUME NEW i \in TaskIds,
               \/ GoFinish(i) \/ finish(i) \/ cancel(i) \/ on_child_done(i)
               \/ \E c \in Clients : CallClient(i, c)
        PROVE TasksInv'
    BY <1>3, GoFinishInv, FinishInv, CancelInv, CallClientInv, OnChildDoneInv
  <1> QED BY <1>1, <1>2, <1>3, DestroyInv, CreateInv, StutterInv DEF TasksNext

\* The invariant of the task lifecycle holds in every reachable state.
THEOREM TasksCorrect == TasksSpec => []TasksInv
  BY InitInv, NextInv, PTL DEF TasksSpec

\* "done is called exactly once": no callback resolve() was given is lost or held
\* twice, whatever deadline, sub-query or joiner a resolution meets.
THEOREM CallbacksSafe == TasksSpec => []CallbackOwnedOnce
  <1>1. TasksInv => CallbackOwnedOnce BY DEF TasksInv
  <1> QED BY <1>1, TasksCorrect, PTL

\* No task is lost: each one the thread is not working on waits for exactly one
\* thing, and everything waited for belongs to a live task.
THEOREM NoTaskLost == TasksSpec => [](EveryTaskWaits /\ NothingDangles /\ FamiliesLinked)
  <1>1. TasksInv => EveryTaskWaits /\ NothingDangles /\ FamiliesLinked BY DEF TasksInv
  <1> QED BY <1>1, TasksCorrect, PTL

\* max_upstream_queries bounds what a client's query costs, sub-queries included.
THEOREM BudgetKept == TasksSpec => []BudgetShared
  <1>1. TasksInv => BudgetShared BY DEF TasksInv
  <1> QED BY <1>1, TasksCorrect, PTL

\* in_flight finds the one task an identical question can join.
THEOREM DeduplicationExact == TasksSpec => []InFlightExact
  <1>1. TasksInv => InFlightExact BY DEF TasksInv
  <1> QED BY <1>1, TasksCorrect, PTL

----------------------------------------------------------------------------
(* The resolver keeps its promise to the callers of resolve(): the tasks     *)
(* implement ResolverService, with the callers of the task that finish() is  *)
(* busy with as the clients due to be called back.                           *)

HIDE DEF WaitsToStart, WaitsForServer, WaitsForChild, WaitsForNothing, WaitsForAtMostOne,
         ChildBudget, Unregister, WithoutQuery, WithDeadline

\* Whoever waits for the question of the task that finish() takes out is one of its
\* callers: nobody is left out of its outcome.
LEMMA CallersComplete ==
  ASSUME NEW i \in TaskIds, TasksInv, InHand("finish", i), IsClient(i),
         NEW c \in Clients, waiting[c] = question[i], waiting[c] # None
  PROVE  c \in callers[i]
  <1>1. PICK j \in TaskIds : c \in callers[j]
    BY DEF TasksInv, CallbackOwnedOnce
  <1>2. IsClient(j) /\ question[j] = question[i] /\ j \in live /\ i \in live
    BY <1>1 DEF TasksInv, CallbackOwnedOnce, ThreadConsistent
  <1>3. j = i
    BY <1>2 DEF TasksInv, InFlightExact
  <1> QED BY <1>1, <1>3

\* on_child_done() leaves the thread with the parent or back in the loop.
LEMMA Elsewhere ==
  ASSUME NEW c, NEW p, c = [fn |-> "run", id |-> p, top |-> None] \/ c = Idle
  PROVE  c.fn \in {"idle", "run", "finish"}
  OBVIOUS

\* Nobody is due to be called back while the thread is elsewhere, or when nobody waits
\* for the task that is done.
LEMMA NobodyDue ==
  /\ call.fn \in {"idle", "run", "finish"} => Due = {}
  /\ call'.fn \in {"idle", "run", "finish"} => Due' = {}
  /\ call.fn = "done" /\ callers[call.id] = {} => Due = {}
  BY DEF Due

\* A step of the thread that neither ends a resolution nor calls back is none of
\* the service.
LEMMA QuietStep ==
  ASSUME NEW i \in TaskIds, TasksInv,
         \/ StartTimerFires(i) \/ DeadlineFires(i)
         \/ \E m \in Queries : on_response(i, m) \/ send_query(i, m)
         \/ \E q \in Questions : SpawnChild(i, q)
         \/ GoFinish(i) \/ cancel(i) \/ on_child_done(i)
  PROVE  UNCHANGED <<waiting, Due>>
  <1>1. CASE cancel(i)
    <2>1. call.top \in TaskIds /\ call.top # i
      BY <1>1 DEF cancel, TasksInv, TasksTypeOK, ThreadConsistent
    <2> QED BY <1>1, <2>1 DEF cancel, release, Forget, TasksInv, TasksTypeOK, Due
  <1>2. CASE on_child_done(i)
    <2>1. callers[i] = {}
      BY <1>2 DEF on_child_done, TasksInv, TasksTypeOK, CallbackOwnedOnce
    <2>2. call.fn = "done" /\ call.id = i /\ waiting' = waiting
      BY <1>2, Zenon DEF on_child_done
    <2>3. call' = [fn |-> "run", id |-> parent[i], top |-> None] \/ call' = Idle
      BY <1>2, Zenon DEF on_child_done
    <2>4. call'.fn \in {"idle", "run", "finish"}
      BY <2>3, Elsewhere, Zenon
    <2>5. Due = {}
      BY <2>1, <2>2, NobodyDue, Zenon
    <2> QED BY <2>2, <2>4, <2>5, NobodyDue, Zenon
  <1>3. CASE StartTimerFires(i) \/ DeadlineFires(i) \/ GoFinish(i)
    <2>1. waiting' = waiting /\ call.fn \in {"idle", "run"}
      BY <1>3 DEF StartTimerFires, DeadlineFires, GoFinish
    <2>2. call'.fn \in {"idle", "run", "finish"}
      BY <1>3 DEF StartTimerFires, DeadlineFires, GoFinish
    <2> QED BY <2>1, <2>2, NobodyDue, Zenon
  <1>4. ASSUME NEW m \in Queries, on_response(i, m) \/ send_query(i, m)
        PROVE  UNCHANGED <<waiting, Due>>
    <2>1. waiting' = waiting /\ call.fn \in {"idle", "run"}
      BY <1>4 DEF on_response, send_query
    <2>2. call'.fn \in {"idle", "run"}
      BY <1>4 DEF on_response, send_query
    <2> QED BY <2>1, <2>2, NobodyDue, Zenon
  <1>5. ASSUME NEW q \in Questions, SpawnChild(i, q) PROVE UNCHANGED <<waiting, Due>>
    <2>1. waiting' = waiting /\ call.fn = "run" /\ call' = Idle
      BY <1>5, Zenon DEF SpawnChild
    <2>2. call'.fn = "idle"
      BY <2>1
    <2> QED BY <2>1, <2>2, NobodyDue, Zenon
  <1> QED BY <1>1, <1>2, <1>3, <1>4, <1>5

\* finish() of a client task is where the outcome for its question is known.
LEMMA FinishAnswers ==
  ASSUME NEW i \in TaskIds, TasksInv, finish(i), IsClient(i)
  PROVE  Service!Answer(question[i])
  <1>1. Due = {} /\ Due' = callers[i] /\ waiting' = waiting
    BY DEF finish, Due, TasksInv, TasksTypeOK
  <1>2. i \in live /\ question[i] \in Questions /\ question[i] # None
    BY TaskConstants DEF finish, TasksInv, ThreadConsistent, InFlightExact
  <1>3. callers[i] = {c \in Clients : waiting[c] = question[i]}
    <2>1. InHand("finish", i)
      BY Zenon DEF finish
    <2>2. \A c \in Clients : waiting[c] = question[i] => c \in callers[i]
      BY <1>2, <2>1, CallersComplete, Zenon
    <2>3. callers[i] \subseteq Clients /\ \A c \in callers[i] : waiting[c] = question[i]
      BY DEF TasksInv, TasksTypeOK, CallbackOwnedOnce
    <2> QED BY <2>2, <2>3, Zenon
  <1> QED BY <1>1, <1>2, <1>3, Zenon DEF Service!Answer

\* Every step of the tasks is a step of the service, or changes nothing in it.
LEMMA ServiceStep == TasksInv /\ [TasksNext]_taskVars => [Service!Next]_<<waiting, Due>>
  <1> SUFFICES ASSUME TasksInv, [TasksNext]_taskVars PROVE Service!Next \/ UNCHANGED <<waiting, Due>>
    OBVIOUS
  <1> USE DEF Service!Next
  <1>1. ASSUME NEW c \in Clients, NEW q \in Questions, resolve_client(c, q)
        PROVE  Service!Next
    <2>1. Due' = Due
      <3>1. CASE Join(c, q)
        BY <1>1, <3>1 DEF resolve_client, Join, Due, TasksInv, TasksTypeOK, ThreadConsistent
      <3>2. CASE StartNew(c, q)
        <4>1. NewId # call.id
          BY <3>2 DEF StartNew, NewId, HasRoom, FreeIds
        <4> QED BY <1>1, <3>2, <4>1 DEF resolve_client, StartNew, spawn, Due, TasksInv, TasksTypeOK
      <3> QED BY <1>1, <3>1, <3>2 DEF resolve_client
    <2> QED BY <1>1, <2>1, ZenonT(60) DEF resolve_client, Service!Ask
  <1>2. ASSUME NEW i \in TaskIds, NEW c \in Clients, CallClient(i, c) PROVE Service!Next
    <2>1. Due = callers[i] /\ Due' = callers[i] \ {c}
      BY <1>2 DEF CallClient, Due, TasksInv, TasksTypeOK
    <2> QED BY <1>2, <2>1, ZenonT(60) DEF CallClient, Service!CallBack
  <1>3. ASSUME NEW i \in TaskIds, finish(i) PROVE Service!Next \/ UNCHANGED <<waiting, Due>>
    <2>1. CASE IsClient(i)
      <3>1. i \in live
        BY <1>3 DEF finish, TasksInv, ThreadConsistent
      <3>2. question[i] \in Questions
        BY <3>1, Zenon DEF TasksInv, InFlightExact
      <3> QED BY <1>3, <2>1, <3>2, FinishAnswers, Zenon
    <2>2. CASE ~IsClient(i)
      BY <1>3, <2>2 DEF finish, Due, TasksInv, TasksTypeOK, CallbackOwnedOnce, ThreadConsistent
    <2> QED BY <2>1, <2>2
  <1>4. CASE Destroy
    <2>1. CASE call = Idle
      <3>1. Due = {} /\ Due' = {}
        <4>1. call' = call
          BY <1>4, Zenon DEF Destroy
        <4>2. call.fn = "idle" /\ call'.fn = "idle"
          BY <2>1, <4>1
        <4> QED BY <4>2, NobodyDue, Zenon
      <3> QED BY <1>4, <2>1, <3>1 DEF Destroy, Service!Abandon
    <2>2. CASE call.fn = "clients"
      <3>1. call.id \in TaskIds /\ call.id # None
        BY <2>2, TaskConstants DEF TasksInv, TasksTypeOK
      <3>2. Due = callers[call.id] /\ Due' = callers[call.id]
        <4>1. call' = call /\ callers'[call.id] = callers[call.id]
          BY <1>4, <2>2, <3>1 DEF Destroy, Kept
        <4> QED BY <2>2, <3>1, <4>1 DEF Due
      <3> QED BY <1>4, <3>1, <3>2 DEF Destroy, Service!Abandon
    <2>3. call = Idle \/ call.fn = "clients"
      <3>1. ClientsTurn /\ TasksTypeOK
        BY <1>4, Zenon DEF Destroy, TasksInv
      <3> QED BY <3>1 DEF TasksTypeOK
    <2> QED BY <2>1, <2>2, <2>3, Zenon
  <1>5. CASE Create \/ UNCHANGED taskVars
    <2>1. waiting' = waiting /\ call' = call /\ callers' = callers
      BY <1>5, Zenon DEF Create, taskVars
    <2> QED BY <2>1, Zenon DEF Due
  <1> QED BY <1>1, <1>2, <1>3, <1>4, <1>5, QuietStep DEF TasksNext

\* The tasks implement the service: whatever joins, sub-queries, deadlines and
\* cancellations do inside, a caller of resolve() is called back once, with the
\* outcome of everyone waiting for the same question, unless the resolver is
\* destroyed before that outcome is known.
THEOREM ImplementsService == TasksSpec => ServiceSpec
  <1>1. TasksInit => Service!Init
    BY DEF TasksInit, Service!Init, Due
  <1> QED BY <1>1, ServiceStep, TasksCorrect, PTL DEF TasksSpec, ServiceSpec, Service!Spec
=============================================================================

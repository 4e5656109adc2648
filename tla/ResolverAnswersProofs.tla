----------------------- MODULE ResolverAnswersProofs ------------------------
(***************************************************************************)
(* What finish() hands to the callbacks answers the question they asked,   *)
(* whatever the servers say and the cache holds, for any names, zones,     *)
(* servers and clients; and the chain of CNAMEs in it keeps its limit as   *)
(* long as the uint8_t that counts them cannot wrap.  A task asks only in  *)
(* zones its name is in, and a response changes the cache only there.      *)
(***************************************************************************)
EXTENDS ResolverProofs

USE DEF Running, Idle
USE SMTT(60), SMTT(90)   \* a second try, should the machine be busy

\* An outcome that answers a question, if it is a success: what AnswersTheQuestion
\* says of one outcome.
AnswersFor(o, q) ==
  Succeeded(o) =>
    \E m \in Names :
      /\ Links(o.chain, q.qname, m)
      /\ \A rr \in o.records : rr.name = m /\ rr.type = q.qtype

\* The task whose outcome the thread is about to hand over.
Ender(c) == IF c.fn = "cancel" THEN c.top ELSE c.id

Ending(c) == c.fn \in {"finish", "cancel", "done", "clients"}

\* AnswersTheQuestion, now and after a step, by the outcome and whose it is.
LEMMA AnswersUnfolded ==
  /\ AnswersTheQuestion <=> (Ending(call) => AnswersFor(result, question[Ender(call)]))
  /\ AnswersTheQuestion' <=> (Ending(call') => AnswersFor(result', question'[Ender(call')]))
  <1>1. AnswersTheQuestion <=> (Ending(call) => AnswersFor(result, question[Ender(call)]))
    BY Zenon DEF AnswersTheQuestion, AnswersFor, Ending, Ender
  <1>2. AnswersTheQuestion' <=> (Ending(call') => AnswersFor(result', question'[Ender(call')]))
    BY Zenon DEF AnswersTheQuestion, AnswersFor, Ending, Ender
  <1> QED BY <1>1, <1>2

\* While a task runs or the thread is in the loop, nothing is handed over.
LEMMA NothingHanded ==
  ASSUME call'.fn = "run" \/ call'.fn = "idle" PROVE AnswersTheQuestion'
  <1>1. ~Ending(call')
    BY DEF Ending
  <1> QED BY <1>1, AnswersUnfolded, Zenon

\* The outcome stays, and so does the question it is for.
LEMMA StillAnswers ==
  ASSUME AnswersTheQuestion, Ending(call), result' = result,
         question'[Ender(call')] = question[Ender(call)]
  PROVE  AnswersTheQuestion'
  BY AnswersUnfolded, Zenon

\* A step ends its task.
LEMMA EndAnswers ==
  ASSUME NEW i, NEW o, End(i, o), AnswersFor(o, question[i]) PROVE AnswersTheQuestion'
  <1>1. result' = o /\ question' = question /\ call' = [fn |-> "finish", id |-> i, top |-> None]
    BY Zenon DEF End, GoFinish
  <1>2. Ender(call') = i
    BY <1>1 DEF Ender
  <1> QED BY <1>1, <1>2, AnswersUnfolded, Zenon

\* An error promises nothing about the question.
LEMMA FailureAnswers == ASSUME NEW q PROVE
  /\ AnswersFor(Failure("Timeout"), q) /\ AnswersFor(Failure("ServFail"), q)
  /\ AnswersFor(Failure("MaxCnameChainExceeded"), q) /\ AnswersFor(Failure("AllServersFailed"), q)
  /\ AnswersFor(Failure("MaxQueriesExceeded"), q) /\ AnswersFor(Failure("MaxDepthExceeded"), q)
  BY DEF AnswersFor, Failure, Succeeded

\* outcome(): a task's chain leads to its name, so records of that name and of the
\* type asked for answer its question.
LEMMA OutcomeAnswers ==
  ASSUME NEW i, SoundTask(question[i], res[i]), NEW kind, NEW rrs,
         \A rr \in rrs : rr.name = res[i].qname /\ rr.type = question[i].qtype
  PROVE  AnswersFor(outcome(i, kind, rrs), question[i])
  <1>1. Links(res[i].chain, question[i].qname, res[i].qname) /\ res[i].qname \in Names
    BY Zenon DEF SoundTask, SoundChain
  <1>2. outcome(i, kind, rrs).chain = res[i].chain /\ outcome(i, kind, rrs).records = rrs
    BY DEF outcome
  <1> QED BY <1>1, <1>2, Zenon DEF AnswersFor

\* A running task goes on.
LEMMA ContinueAnswers ==
  ASSUME NEW i, Running(i), NEW t, NEW next, Continue(i, t, next) PROVE AnswersTheQuestion'
  <1>1. call'.fn = "run"
    BY DEF Continue, taskVars
  <1> QED BY <1>1, NothingHanded, Zenon

----------------------------------------------------------------------------
(* The steps *)

\* What the cache answers by itself answers the question of the task.
LEMMA CacheAnswersTheQuestion ==
  ASSUME TasksInv, ResolutionSound, NEW i \in live, NEW o \in CacheAnswers(i)
  PROVE  AnswersFor(o, question[i])
  <1>1. SoundTask(question[i], res[i])
    BY Zenon DEF ResolutionSound, TasksSound
  <1>2. <<res[i].qname, question[i].qtype>> \in Keys
    <2>1. res[i].qname \in Names /\ question[i].qtype \in Types
      BY <1>1, QuestionParts, Zenon DEF TasksInv, InFlightExact, SoundTask
    <2> QED BY <2>1, KeyParts, Zenon
  <1>3. PICK e : e = cache[<<res[i].qname, question[i].qtype>>]
    BY Zenon
  <1>4. SoundEntry(<<res[i].qname, question[i].qtype>>, e)
    BY <1>2, <1>3, Zenon DEF ResolutionSound, CacheSound
  <1>5. \/ o = Failure("ServFail")
        \/ o = outcome(i, "NXDomain", {})
        \/ o = outcome(i, "NoError", {})
        \/ e # None /\ ~e.negative /\ o = outcome(i, "NoError", e.records)
    BY <1>3, Zenon DEF CacheAnswers
  <1>6. CASE o = Failure("ServFail")
    BY <1>6, FailureAnswers, Zenon
  <1>7. CASE o = outcome(i, "NXDomain", {}) \/ o = outcome(i, "NoError", {})
    BY <1>1, <1>7, OutcomeAnswers, Zenon
  <1>8. CASE e # None /\ ~e.negative /\ o = outcome(i, "NoError", e.records)
    <2>1. \A rr \in e.records : rr.name = res[i].qname /\ rr.type = question[i].qtype
      BY <1>4, <1>8 DEF SoundEntry
    <2> QED BY <1>1, <1>8, <2>1, OutcomeAnswers, Zenon
  <1> QED BY <1>5, <1>6, <1>7, <1>8

\* step(), next_server() and send_query()
LEMMA AskingAnswers ==
  ASSUME TasksInv, ResolutionSound, NEW i \in TaskIds,
         \/ StepAnswers(i) \/ StepFollows(i) \/ StepStarts(i)
         \/ PickServer(i) \/ LookUpNameServer(i) \/ RetryTimedOut(i) \/ GiveUp(i)
         \/ SendQuery(i)
  PROVE  AnswersTheQuestion'
  <1>1. CASE StepAnswers(i)
    <2>1. PICK o \in CacheAnswers(i) : End(i, o)
      BY <1>1, Zenon DEF StepAnswers
    <2>2. i \in live
      BY <1>1, Zenon DEF StepAnswers
    <2> QED BY <2>1, <2>2, CacheAnswersTheQuestion, EndAnswers, Zenon
  <1>2. CASE StepFollows(i)
    BY <1>2, ContinueAnswers, EndAnswers, FailureAnswers, Zenon DEF StepFollows
  <1>3. CASE StepStarts(i)
    BY <1>3, ContinueAnswers, Zenon DEF StepStarts
  <1>4. CASE PickServer(i) \/ RetryTimedOut(i)
    BY <1>4, ContinueAnswers, Zenon DEF PickServer, RetryTimedOut, AtNextServer
  <1>5. CASE LookUpNameServer(i)
    <2>1. PICK n : \/ Continue(i, Taken(res[i], n), At("next_server"))
                   \/ call' = [fn |-> "idle", id |-> None, top |-> None]
      BY <1>5, Zenon DEF LookUpNameServer, SpawnChild
    <2>2. CASE call' = [fn |-> "idle", id |-> None, top |-> None]
      <3>1. call'.fn = "idle"
        BY <2>2
      <3> QED BY <3>1, NothingHanded, Zenon
    <2>3. CASE Continue(i, Taken(res[i], n), At("next_server"))
      BY <1>5, <2>3, ContinueAnswers, Zenon DEF LookUpNameServer, AtNextServer
    <2> QED BY <2>1, <2>2, <2>3
  <1>6. CASE GiveUp(i)
    BY <1>6, EndAnswers, FailureAnswers, Zenon DEF GiveUp
  <1>7. CASE SendQuery(i)
    <2>1. \/ End(i, Failure("MaxQueriesExceeded"))
          \/ call' = [fn |-> "idle", id |-> None, top |-> None]
      BY <1>7, Zenon DEF SendQuery, send_query
    <2>2. CASE call' = [fn |-> "idle", id |-> None, top |-> None]
      <3>1. call'.fn = "idle"
        BY <2>2
      <3> QED BY <3>1, NothingHanded, Zenon
    <2> QED BY <2>1, <2>2, EndAnswers, FailureAnswers, Zenon
  <1> QED BY <1>1, <1>2, <1>3, <1>4, <1>5, <1>6, <1>7, Zenon

\* handle_response()
LEMMA HandlingAnswers ==
  ASSUME TasksInv, ResolutionSound, NEW i \in TaskIds,
         \/ HandleResponse(i) \/ HandleAnswer(i) \/ HandleCname(i) \/ HandleChainEnd(i)
         \/ HandleNxDomain(i) \/ HandleReferral(i) \/ HandleNoData(i) \/ HandleLame(i)
  PROVE  AnswersTheQuestion'
  <1>1. Running(i)
    BY Zenon DEF HandleResponse, HandleAnswer, HandleCname, HandleChainEnd, HandleNxDomain,
                 HandleReferral, HandleNoData, HandleLame, NothingAnswered, AtAnswersOf
  <1>2. SoundTask(question[i], res[i])
    BY <1>1, Zenon DEF ResolutionSound, TasksSound
  <1>3. CASE HandleResponse(i) \/ HandleChainEnd(i) \/ HandleLame(i)
    <2>1. PICK t, next : Continue(i, t, next)
      <3>1. PICK a : at' = a
        BY Zenon
      <3>2. Continue(i, res[i], a)
        BY <1>3, <3>1, Zenon DEF HandleResponse, HandleChainEnd, HandleLame, Continue
      <3>3. PICK t : t = res[i]
        BY Zenon
      <3> QED BY <3>2, <3>3, Zenon DEF Continue
    <2> QED BY <1>1, <2>1, ContinueAnswers, Zenon
  <1>4. CASE HandleAnswer(i)
    <2>1. End(i, outcome(i, "NoError", RRset(i)))
      BY <1>4, Zenon DEF HandleAnswer
    <2>2. \A rr \in RRset(i) : rr.name = res[i].qname /\ rr.type = question[i].qtype
      BY DEF RRset, collect
    <2> QED BY <1>2, <2>1, <2>2, OutcomeAnswers, EndAnswers, Zenon
  <1>5. CASE HandleCname(i)
    BY <1>1, <1>5, ContinueAnswers, EndAnswers, FailureAnswers, Zenon DEF HandleCname
  <1>6. CASE HandleNxDomain(i) \/ HandleNoData(i)
    <2>1. PICK kind : End(i, outcome(i, kind, {}))
      BY <1>6, Zenon DEF HandleNxDomain, HandleNoData, Deny
    <2> QED BY <1>2, <2>1, OutcomeAnswers, EndAnswers, Zenon
  <1>7. CASE HandleReferral(i)
    BY <1>1, <1>7, ContinueAnswers, EndAnswers, FailureAnswers, Zenon DEF HandleReferral
  <1> QED BY <1>3, <1>4, <1>5, <1>6, <1>7, Zenon

\* The callbacks are called for a task.
LEMMA CallTyped ==
  ASSUME TasksInv
  PROVE  call.fn \in {"done", "clients"}
           => call \in [fn : {"run", "finish", "done", "clients"}, id : TaskIds, top : {None}]
  BY DEF TasksInv, TasksTypeOK

\* finish() and cancel() keep the outcome for the callbacks.
LEMMA ReleaseAnswers ==
  ASSUME TasksInv, AnswersTheQuestion, NEW i \in TaskIds, Finish(i) \/ Cancel(i)
  PROVE  AnswersTheQuestion'
  <1>1. result' = result
    BY Zenon DEF Finish, Cancel
  <1>2. ThreadConsistent /\ question \in [TaskIds -> Questions \cup {None}]
    BY Zenon DEF TasksInv, TasksTypeOK
  <1>3. CASE Finish(i)
    <2>1. call.fn = "finish" /\ call.id = i /\ call' = AfterRelease(i) /\ question' = question
      BY <1>3, Zenon DEF Finish, finish
    <2>2. Ending(call) /\ Ender(call) = i
      BY <2>1 DEF Ending, Ender
    <2>3. Ender(call') = i
      BY <2>1 DEF Ender, AfterRelease
    <2> QED BY <1>1, <2>1, <2>2, <2>3, StillAnswers, Zenon
  <1>4. CASE Cancel(i)
    <2>1. /\ call.fn = "cancel" /\ call.id = i
          /\ question' = question \/ question' = [question EXCEPT ![i] = None]
      BY <1>4, Zenon DEF Cancel, cancel, Forget
    <2>2. call.top # i
      BY <1>2, <2>1, Zenon DEF ThreadConsistent, IsClient
    <2>3. Ending(call) /\ Ender(call) = call.top
      BY <2>1 DEF Ending, Ender
    <2>4. Ender(call') = call.top
      <3>1. \/ \E j : call' = [fn |-> "cancel", id |-> j, top |-> call.top]
            \/ call' = [fn |-> "done", id |-> call.top, top |-> None]
        BY <1>4, Zenon DEF Cancel, cancel
      <3> QED BY <3>1 DEF Ender
    <2>5. call.top \in TaskIds
      BY <2>1 DEF TasksInv, TasksTypeOK
    <2>6. question'[call.top] = question[call.top]
      BY <1>2, <2>1, <2>2, <2>5
    <2> QED BY <1>1, <2>3, <2>4, <2>6, StillAnswers, Zenon
  <1> QED BY <1>3, <1>4

\* Each callback is handed the same outcome, until the last has it.
LEMMA CallBackAnswers ==
  ASSUME TasksInv, AnswersTheQuestion, NEW i \in TaskIds,
         OnChildDone(i) \/ \E c \in Clients : CallBack(i, c)
  PROVE  AnswersTheQuestion'
  <1>1. CASE OnChildDone(i)
    <2>1. \/ \E j : call' = [fn |-> "run", id |-> j, top |-> None]
          \/ call' = [fn |-> "idle", id |-> None, top |-> None]
      BY <1>1, Zenon DEF OnChildDone, on_child_done
    <2>2. call'.fn = "run" \/ call'.fn = "idle"
      BY <2>1
    <2> QED BY <2>2, NothingHanded, Zenon
  <1>2. ASSUME NEW c \in Clients, CallBack(i, c) PROVE AnswersTheQuestion'
    <2>1. /\ call.fn \in {"done", "clients"}
          /\ \/ call' = [fn |-> "idle", id |-> None, top |-> None]
             \/ call' = [call EXCEPT !.fn = "clients"] /\ question' = question
          /\ result' = IF call' = Idle THEN NoResult ELSE result
      BY <1>2, Zenon DEF CallBack, CallClient
    <2>2. CASE call' = [fn |-> "idle", id |-> None, top |-> None]
      <3>1. call'.fn = "idle"
        BY <2>2
      <3> QED BY <3>1, NothingHanded, Zenon
    <2>3. CASE call' = [call EXCEPT !.fn = "clients"] /\ question' = question
      <3>1. call \in [fn : {"run", "finish", "done", "clients"}, id : TaskIds, top : {None}]
        BY <2>1, CallTyped, Zenon
      <3>2. /\ Ending(call) /\ Ender(call) = call.id
            /\ call'.fn = "clients" /\ Ender(call') = call.id
        BY <2>1, <2>3, <3>1 DEF Ending, Ender
      <3>3. result' = result
        BY <2>1, <3>2
      <3> QED BY <2>3, <3>2, <3>3, StillAnswers, Zenon
    <2> QED BY <2>1, <2>2, <2>3
  <1> QED BY <1>1, <1>2

\* A new resolution, started by a callback, is a task of its own; and a callback that
\* destroys the resolver leaves what the remaining callbacks are to be given.
LEMMA ClientAnswers ==
  ASSUME TasksInv, AnswersTheQuestion,
         (\E c \in Clients, q \in Questions : Resolve(c, q)) \/ DestroyResolver
  PROVE  AnswersTheQuestion'
  <1>1. result' = result /\ call' = call /\ ClientsTurn
    BY Zenon DEF Resolve, resolve_client, DestroyResolver, Destroy
  <1>2. CASE call.fn = "idle"
    BY <1>1, <1>2, NothingHanded, Zenon
  <1>3. CASE call.fn = "clients"
    <2>1. Ending(call) /\ Ender(call) = call.id
      BY <1>3 DEF Ending, Ender
    <2>2. call.id \in TaskIds /\ question \in [TaskIds -> Questions \cup {None}]
      BY <1>3 DEF TasksInv, TasksTypeOK
    <2>3. ASSUME NEW c \in Clients, NEW q \in Questions, Resolve(c, q)
          PROVE  question'[call.id] = question[call.id]
      <3>1. \/ question' = question
            \/ HasRoom /\ question' = [question EXCEPT ![NewId] = q]
        BY <2>3, Zenon DEF Resolve, resolve_client, Join, StartNew, spawn
      <3>2. HasRoom => NewId # call.id
        BY DEF HasRoom, NewId, FreeIds
      <3> QED BY <2>2, <3>1, <3>2
    <2>4. ASSUME DestroyResolver PROVE question'[call.id] = question[call.id]
      <3>1. question' = Kept(question, None)
        BY <2>4, Zenon DEF DestroyResolver, Destroy
      <3> QED BY <2>2, <3>1 DEF Kept
    <2> QED BY <1>1, <2>1, <2>3, <2>4, StillAnswers, Zenon
  <1> QED BY <1>1, <1>2, <1>3 DEF ClientsTurn

\* The timers, the upstream client and the clock.
LEMMA LoopAnswers ==
  ASSUME TasksInv, AnswersTheQuestion,
         \/ \E i \in TaskIds : Start(i) \/ Deadline(i) \/ UpstreamAnswers(i)
         \/ \E k \in Keys : Expire(k)
         \/ CreateResolver
         \/ UNCHANGED vars
  PROVE  AnswersTheQuestion'
  <1>1. ASSUME NEW i \in TaskIds, Start(i) \/ UpstreamAnswers(i) PROVE AnswersTheQuestion'
    <2>1. \/ call' = [fn |-> "run", id |-> i, top |-> None]
          \/ call' = [fn |-> "idle", id |-> None, top |-> None]
      BY <1>1, Zenon
      DEF Start, StartTimerFires, UpstreamAnswers, OnResponse, OnSpoofSuspected, OnCaseMismatch,
          OnTimeout, OnNetworkError, OnReply, on_response
    <2>2. call'.fn = "run" \/ call'.fn = "idle"
      BY <2>1
    <2> QED BY <2>2, NothingHanded, Zenon
  <1>2. ASSUME NEW i \in TaskIds, Deadline(i) PROVE AnswersTheQuestion'
    <2>1. result' = Failure("Timeout")
      BY <1>2, Zenon DEF Deadline
    <2> QED BY <2>1, FailureAnswers, AnswersUnfolded, Zenon
  <1>3. CASE (\E k \in Keys : Expire(k)) \/ CreateResolver \/ UNCHANGED vars
    <2>1. call' = call /\ result' = result /\ question' = question
      BY <1>3, Zenon DEF Expire, CreateResolver, Create, vars, resVars, taskVars
    <2> QED BY <2>1, AnswersUnfolded, Zenon
  <1> QED BY <1>1, <1>2, <1>3

\* Every step keeps what is handed over an answer.
LEMMA AnswersNext ==
  TasksInv /\ ResolutionSound /\ AnswersTheQuestion /\ [Next]_vars => AnswersTheQuestion'
  <1> SUFFICES ASSUME TasksInv, ResolutionSound, AnswersTheQuestion, [Next]_vars
               PROVE  AnswersTheQuestion'
    OBVIOUS
  <1>1. CASE Inside
    <2>1. PICK i \in TaskIds :
            \/ StepAnswers(i) \/ StepFollows(i) \/ StepStarts(i)
            \/ PickServer(i) \/ LookUpNameServer(i) \/ RetryTimedOut(i) \/ GiveUp(i)
            \/ SendQuery(i)
            \/ HandleResponse(i) \/ HandleAnswer(i) \/ HandleCname(i) \/ HandleChainEnd(i)
            \/ HandleNxDomain(i) \/ HandleReferral(i) \/ HandleNoData(i) \/ HandleLame(i)
            \/ Finish(i) \/ Cancel(i) \/ (\E c \in Clients : CallBack(i, c)) \/ OnChildDone(i)
      BY <1>1, Zenon DEF Inside
    <2>2. CASE \/ StepAnswers(i) \/ StepFollows(i) \/ StepStarts(i)
               \/ PickServer(i) \/ LookUpNameServer(i) \/ RetryTimedOut(i) \/ GiveUp(i)
               \/ SendQuery(i)
      BY <2>2, AskingAnswers, Zenon
    <2>3. CASE \/ HandleResponse(i) \/ HandleAnswer(i) \/ HandleCname(i) \/ HandleChainEnd(i)
               \/ HandleNxDomain(i) \/ HandleReferral(i) \/ HandleNoData(i) \/ HandleLame(i)
      BY <2>3, HandlingAnswers, Zenon
    <2>4. CASE Finish(i) \/ Cancel(i)
      BY <2>4, ReleaseAnswers, Zenon
    <2>5. CASE OnChildDone(i) \/ \E c \in Clients : CallBack(i, c)
      BY <2>5, CallBackAnswers, Zenon
    <2> QED BY <2>1, <2>2, <2>3, <2>4, <2>5, Zenon
  <1> QED BY <1>1, ClientAnswers, LoopAnswers, Zenon DEF Next

\* What finish() hands to the callbacks answers the question that was asked: the
\* CNAMEs that step() and handle_response() followed lead from its name to the owner
\* of the records, whether a server or the cache gave them, and the records have
\* the type asked for; however callbacks start resolutions or destroy the resolver.
THEOREM CallersGetAnswers == Spec => []AnswersTheQuestion
  <1>1. Init => AnswersTheQuestion
    <2>1. ASSUME Init PROVE ~Ending(call)
      BY <2>1 DEF Init, TasksInit, Ending
    <2> QED BY <2>1, AnswersUnfolded, Zenon
  <1> QED BY <1>1, AnswersNext, ResolverCorrect, PTL DEF Spec

\* follow_cname() keeps every chain within max_cname_chain, as long as that is less
\* than what its uint8_t counter holds before it wraps.
THEOREM ChainsKeptShort ==
  ASSUME MaxCnameChain + 1 < HopWrap PROVE Spec => []ChainBounded
  <1>1. ResolutionSound => ChainBounded
    BY DEF ResolutionSound, TasksSound, SoundTask, SoundChain, ChainBounded
  <1> QED BY <1>1, ResolverCorrect, PTL

----------------------------------------------------------------------------
(* Zones: whom a task asks about its name, and what it believes of a reply *)

\* The zone contains the name, and is in every stub zone that does.
InZone(t) ==
  /\ IsSubdomainOf(t.qname, t.zone)
  /\ \A z \in DOMAIN Stubs : IsSubdomainOf(t.qname, z) => IsSubdomainOf(t.zone, z)

MessageInZone(m, z) ==
  \A rr \in m.answers \cup m.authority \cup m.additional : IsSubdomainOf(rr.name, z)

\* The tasks NameInZone speaks of.
Asks(i) ==
  \/ WaitsForServer(i)
  \/ WaitsForChild(i)
  \/ InHand("run", i) /\ at.fn \in {"next_server", "send_query", "handle_response"}

TasksInZone == \A i \in live : Asks(i) => InZone(res[i])

\* The message handle_response() is looking at has only records of the zone asked
\* about, and until a CNAME of it is followed, the name is in that zone too.
BelievedInZone ==
  at.fn = "answers" =>
    /\ call.fn = "run"
    /\ MessageInZone(at.msg, res[call.id].zone)
    /\ ~at.followed => InZone(res[call.id])

\* TasksInZone, now and after a step.
LEMMA TasksInZoneUnfolded ==
  /\ TasksInZone <=> \A i \in live : Asks(i) => InZone(res[i])
  /\ TasksInZone' <=> \A i \in live' : Asks(i)' => InZone(res'[i])
  BY Zenon DEF TasksInZone, Asks, InZone

\* Tasks other than i ask no more than they did, of the same zones.
LEMMA OthersInZone ==
  ASSUME TasksInZone, NEW i,
         \A j \in live' : j # i /\ Asks(j)' => j \in live /\ Asks(j) /\ res'[j] = res[j],
         i \in live' /\ Asks(i)' => InZone(res'[i])
  PROVE  TasksInZone'
  BY TasksInZoneUnfolded, Zenon

\* Outside handle_response() there is no message in hand.
LEMMA NothingBelieved == ASSUME at'.fn # "answers" PROVE BelievedInZone'
  BY Zenon DEF BelievedInZone

\* What the places in a task's code are made of.
LEMMA ElsewhereThan ==
  /\ Nowhere.fn # "answers" /\ At("step").fn = "step" /\ At("next_server").fn = "next_server"
  /\ \A s, tcp : AtSend(s, tcp).fn = "send_query"
  /\ \A s, tcp, m : AtHandle(s, tcp, m).fn = "handle_response"
  /\ \A m, f : AtAnswers(m, f).fn = "answers" /\ AtAnswers(m, f).msg = m
               /\ AtAnswers(m, f).followed = f
  BY DEF Nowhere, At, AtSend, AtHandle, AtAnswers

\* filter_to_bailiwick() keeps the records of the zone.
LEMMA FilterInZone ==
  ASSUME NEW m \in Messages, NEW z PROVE MessageInZone(filter_to_bailiwick(m, z), z)
  <1>1. {"answers", "authority", "additional"} \subseteq DOMAIN m
    BY ResolverConstants
  <1> QED BY <1>1 DEF filter_to_bailiwick, MessageInZone

\* enter_zone() and start_at_closest_zone() keep the name and set the zone.
LEMMA EnterZone ==
  ASSUME NEW q, NEW t, SoundTask(q, t), NEW z, NEW names, NEW glue, NEW c
  PROVE  enter_zone(t, z, names, glue, c).qname = t.qname /\ enter_zone(t, z, names, glue, c).zone = z
  <1>1. PICK s, u : enter_zone(t, z, names, glue, c)
                      = [reset_zone(t, z) EXCEPT !.servers = s, !.unresolved = u]
    BY Zenon DEF enter_zone
  <1>2. /\ {"qname", "zone"} \subseteq DOMAIN reset_zone(t, z)
        /\ reset_zone(t, z).qname = t.qname /\ reset_zone(t, z).zone = z
    BY DEF SoundTask, reset_zone
  <1> QED BY <1>1, <1>2

\* start_at_closest_zone() enters a zone above the name, the root if no other.
LEMMA StartInZone ==
  ASSUME NEW q, NEW t, SoundTask(q, t) PROVE InZone(start_at_closest_zone(t))
  <1> DEFINE cuts == {z \in Above[t.qname] : z \in DOMAIN Stubs \/ CachedNs(z) # {}}
             z == CHOOSE y \in cuts : cuts \subseteq Above[y]
  <1>1. t.qname \in Names /\ Root \in Above[t.qname]
    BY ResolverConstants DEF SoundTask
  <1>2. cuts # {} => z \in Above[t.qname] /\ cuts \subseteq Above[z]
    <2>1. cuts \in SUBSET Above[t.qname]
      OBVIOUS
    <2> HIDE DEF cuts
    <2>2. cuts # {} => \E y \in cuts : cuts \subseteq Above[y]
      <3>1. \A n \in Names : \A zs \in SUBSET Above[n] : zs # {} => \E y \in zs : zs \subseteq Above[y]
        BY ResolverConstants, Zenon
      <3>2. \A zs \in SUBSET Above[t.qname] : zs # {} => \E y \in zs : zs \subseteq Above[y]
        BY <1>1, <3>1, Zenon
      <3> QED BY <2>1, <3>2, Zenon
    <2> QED BY <2>1, <2>2, Zenon
  <1>3. PICK y \in Above[t.qname] :
          /\ cuts \subseteq Above[y]
          /\ \/ \E names : start_at_closest_zone(t) = enter_zone(t, y, names, {}, cache)
             \/ \E s : start_at_closest_zone(t) = [reset_zone(t, y) EXCEPT !.servers = s]
    BY <1>1, <1>2, ZenonT(30) DEF start_at_closest_zone
  <1>4. /\ {"qname", "zone"} \subseteq DOMAIN reset_zone(t, y)
        /\ reset_zone(t, y).qname = t.qname /\ reset_zone(t, y).zone = y
    BY DEF SoundTask, reset_zone
  <1>5. start_at_closest_zone(t).qname = t.qname /\ start_at_closest_zone(t).zone = y
    <2>1. ASSUME NEW names, start_at_closest_zone(t) = enter_zone(t, y, names, {}, cache)
          PROVE  start_at_closest_zone(t).qname = t.qname /\ start_at_closest_zone(t).zone = y
      BY <2>1, EnterZone
    <2>2. CASE \E s : start_at_closest_zone(t) = [reset_zone(t, y) EXCEPT !.servers = s]
      BY <1>4, <2>2
    <2> QED BY <1>3, <2>1, <2>2
  <1>6. \A s \in DOMAIN Stubs : s \in Above[t.qname] => s \in Above[y]
    BY <1>3, Zenon
  <1> QED BY <1>5, <1>6, Zenon DEF InZone, IsSubdomainOf

\* A running task waits for nothing.
LEMMA RunsWaitsNot ==
  ASSUME TasksInv, NEW i, Running(i) PROVE upstream[i] = None /\ child[i] = None
  BY Zenon
  DEF TasksInv, EveryTaskWaits, InHand, WaitsForNothing, WaitsForServer, WaitsForChild

\* A running task goes on: in the zone, unless it starts over.
LEMMA ContinueInZone ==
  ASSUME TasksInv, TasksInZone, DOMAIN res = TaskIds, NEW i \in TaskIds, Running(i),
         NEW t, NEW next, Continue(i, t, next),
         next.fn \in {"next_server", "send_query", "handle_response"} => InZone(t)
  PROVE  TasksInZone' /\ res'[i] = t
  <1>1. /\ call' = call /\ live' = live /\ upstream' = upstream /\ child' = child
        /\ at' = next /\ res' = [res EXCEPT ![i] = t]
    BY Zenon DEF Continue, taskVars
  <1>2. res'[i] = t /\ \A j \in TaskIds : j # i => res'[j] = res[j]
    BY <1>1
  <1>3. live \subseteq TaskIds
    BY Zenon DEF TasksInv, TasksTypeOK
  <1>4. \A j \in live' : j # i /\ Asks(j)' => j \in live /\ Asks(j) /\ res'[j] = res[j]
    BY <1>1, <1>2, <1>3, Zenon DEF Asks, WaitsForServer, WaitsForChild, InHand
  <1>5. Asks(i)' => InZone(res'[i])
    BY <1>1, <1>2, RunsWaitsNot, Zenon DEF Asks, WaitsForServer, WaitsForChild, InHand
  <1> QED BY <1>2, <1>4, <1>5, OthersInZone, Zenon

\* A task that ends, and whatever else only takes tasks or waits away.
LEMMA FewerAsk ==
  ASSUME TasksInZone, live' \subseteq live, \A j \in live' : res'[j] = res[j],
         \A j \in live' : upstream'[j] = upstream[j] /\ child'[j] = child[j],
         call'.fn # "run"
  PROVE  TasksInZone'
  <1>1. \A j \in live' : Asks(j)' => j \in live /\ Asks(j) /\ res'[j] = res[j]
    BY Zenon DEF Asks, WaitsForServer, WaitsForChild, InHand
  <1> QED BY <1>1, TasksInZoneUnfolded, Zenon

\* A task that ends asks nobody any more.
LEMMA EndInZone ==
  ASSUME TasksInZone, NEW i, NEW o, End(i, o), res' = res PROVE TasksInZone' /\ BelievedInZone'
  <1>1. /\ call' = [fn |-> "finish", id |-> i, top |-> None] /\ at' = Nowhere
        /\ live' = live /\ upstream' = upstream /\ child' = child
    BY Zenon DEF End, GoFinish
  <1>2. call'.fn # "run"
    BY <1>1
  <1>3. at'.fn # "answers"
    BY <1>1, ElsewhereThan, Zenon
  <1> QED BY <1>1, <1>2, <1>3, FewerAsk, NothingBelieved, Zenon

\* Steps that change neither the name nor the zone.
LEMMA ZoneKept ==
  ASSUME NEW q, NEW t, SoundTask(q, t), InZone(t)
  PROVE  \A x : /\ InZone([t EXCEPT !.tried = x])
                /\ InZone([t EXCEPT !.timed_out = x])
                /\ InZone([t EXCEPT !.servers = x])
  BY DEF SoundTask, InZone

\* step() enters a zone above the name; next_server() stays in it.
LEMMA AskingInZone ==
  ASSUME TasksInv, ResolutionSound, TasksInZone, NEW i \in TaskIds,
         \/ StepAnswers(i) \/ StepFollows(i) \/ StepStarts(i)
         \/ PickServer(i) \/ RetryTimedOut(i) \/ GiveUp(i)
  PROVE  TasksInZone' /\ BelievedInZone'
  <1>1. Running(i) /\ i \in live
    BY Zenon DEF StepAnswers, StepFollows, StepStarts, PickServer, RetryTimedOut, GiveUp, AtNextServer
  <1>2. SoundTask(question[i], res[i]) /\ DOMAIN res = TaskIds
    BY <1>1, Zenon DEF ResolutionSound, TasksSound
  <1>3. at.fn = "next_server" => InZone(res[i])
    BY <1>1, TasksInZoneUnfolded, Zenon DEF Asks, InHand
  <1>4. CASE StepAnswers(i) \/ GiveUp(i)
    BY <1>4, EndInZone, Zenon DEF StepAnswers, GiveUp
  <1>5. ASSUME NEW t, NEW next, Continue(i, t, next), next.fn # "answers",
               next.fn = "step" \/ InZone(t)
        PROVE  TasksInZone' /\ BelievedInZone'
    <2>1. next.fn \in {"next_server", "send_query", "handle_response"} => InZone(t)
      BY <1>5
    <2>2. at'.fn # "answers"
      BY <1>5, Zenon DEF Continue
    <2> QED BY <1>1, <1>2, <1>5, <2>1, <2>2, ContinueInZone, NothingBelieved, Zenon
  <1>6. At("step").fn = "step" /\ At("step").fn # "answers" /\ At("next_server").fn # "answers"
    BY ElsewhereThan
  <1>7. CASE StepFollows(i)
    <2>1. PICK rr : \/ Continue(i, Followed(res[i], rr), At("step"))
                    \/ End(i, Failure("MaxCnameChainExceeded")) /\ res' = res
      BY <1>7, Zenon DEF StepFollows
    <2> QED BY <1>5, <1>6, <2>1, EndInZone, Zenon
  <1>8. CASE StepStarts(i)
    <2>1. Continue(i, start_at_closest_zone(res[i]), At("next_server"))
      BY <1>8, Zenon DEF StepStarts
    <2> QED BY <1>2, <1>5, <1>6, <2>1, StartInZone, Zenon
  <1>9. CASE PickServer(i)
    <2>1. PICK s : Continue(i, res[i], AtSend(s, FALSE)) /\ at.fn = "next_server"
      BY <1>9, Zenon DEF PickServer, AtNextServer
    <2>2. AtSend(s, FALSE).fn # "answers"
      BY DEF AtSend
    <2> QED BY <1>3, <1>5, <2>1, <2>2, Zenon
  <1>10. CASE RetryTimedOut(i)
    <2>1. Continue(i, AnotherRound(res[i]), At("next_server")) /\ at.fn = "next_server"
      BY <1>10, Zenon DEF RetryTimedOut, AtNextServer
    <2>2. InZone(AnotherRound(res[i]))
      BY <1>2, <1>3, <2>1 DEF AnotherRound, SoundTask, InZone
    <2> QED BY <1>5, <1>6, <2>1, <2>2, Zenon
  <1> QED BY <1>4, <1>7, <1>8, <1>9, <1>10, Zenon

\* A sub-query for an address: the task waits in its zone, the new one asks nobody yet.
LEMMA LookUpInZone ==
  ASSUME TasksInv, ResolutionSound, TasksInZone, NEW i \in TaskIds, LookUpNameServer(i)
  PROVE  TasksInZone' /\ BelievedInZone'
  <1>1. Running(i) /\ i \in live /\ at.fn = "next_server"
    BY Zenon DEF LookUpNameServer, AtNextServer
  <1>2. SoundTask(question[i], res[i]) /\ DOMAIN res = TaskIds /\ live \subseteq TaskIds
    BY <1>1, Zenon DEF ResolutionSound, TasksSound, TasksInv, TasksTypeOK
  <1>3. InZone(res[i])
    BY <1>1, TasksInZoneUnfolded, Zenon DEF Asks, InHand
  <1>4. PICK n :
          \/ Continue(i, Taken(res[i], n), At("next_server"))
          \/ /\ SpawnChild(i, AddressQuestion(n))
             /\ \E new : res' = [res EXCEPT ![i] = [Taken(res[i], n) EXCEPT !.glueless_lookups = @ + 1],
                                            ![NewId] = new]
             /\ at' = Nowhere
    BY ZenonT(30) DEF LookUpNameServer
  <1>5. PICK t : t = Taken(res[i], n)
    BY Zenon
  <1>6. InZone(t) /\ SoundTask(question[i], t)
    BY <1>2, <1>3, <1>5 DEF Taken, SoundTask, InZone
  <1>7. CASE Continue(i, Taken(res[i], n), At("next_server"))
    <2>1. Continue(i, t, At("next_server"))
      BY <1>5, <1>7, Zenon
    <2>2. at'.fn # "answers"
      BY <2>1, ElsewhereThan DEF Continue
    <2> QED BY <1>1, <1>2, <1>6, <2>1, <2>2, ContinueInZone, NothingBelieved, Zenon
  <1>8. CASE /\ SpawnChild(i, AddressQuestion(n)) /\ at' = Nowhere
             /\ \E new : res' = [res EXCEPT ![i] = [Taken(res[i], n) EXCEPT !.glueless_lookups = @ + 1],
                                            ![NewId] = new]
    <2>1. /\ HasRoom /\ live' = live \cup {NewId} /\ upstream' = upstream
          /\ child' = [child EXCEPT ![i] = NewId]
          /\ call' = [fn |-> "idle", id |-> None, top |-> None]
      BY <1>8, Zenon DEF SpawnChild, spawn
    <2>2. PICK k \in TaskIds \ live : k = NewId
      BY <2>1, NewIdFree, Zenon
    <2>3. PICK u, new : u = [t EXCEPT !.glueless_lookups = @ + 1]
                        /\ res' = [res EXCEPT ![i] = u, ![k] = new]
      BY <1>5, <1>8, <2>2, Zenon
    <2>4. InZone(u)
      BY <1>6, <2>3 DEF SoundTask, InZone
    <2>5. res'[i] = u /\ \A j \in live : j # i => res'[j] = res[j]
      BY <1>1, <1>2, <2>2, <2>3
    <2>6. upstream[k] = None /\ child[k] = None /\ child \in [TaskIds -> TaskIds \cup {None}]
      BY <2>2, Zenon DEF TasksInv, DeadHoldNothing, TasksTypeOK
    <2>7. \A j \in TaskIds : j # i => child'[j] = child[j]
      BY <2>1, <2>6
    <2>8. ~Asks(k)' /\ \A j \in live : j # i /\ Asks(j)' => Asks(j)
      <3>1. call'.fn # "run"
        BY <2>1
      <3>2. k # i
        BY <1>1, <2>2
      <3>3. child'[k] = None /\ upstream'[k] = None
        BY <2>1, <2>2, <2>6, <2>7, <3>2, Zenon
      <3> QED BY <1>2, <2>1, <2>7, <3>1, <3>3, Zenon
              DEF Asks, WaitsForServer, WaitsForChild, InHand
    <2>9. \A j \in live' : j # i /\ Asks(j)' => j \in live /\ Asks(j) /\ res'[j] = res[j]
      BY <2>1, <2>2, <2>5, <2>8
    <2>10. at'.fn # "answers"
      BY <1>8, ElsewhereThan, Zenon
    <2> QED BY <2>4, <2>5, <2>9, <2>10, OthersInZone, NothingBelieved, Zenon
  <1> QED BY <1>4, <1>7, <1>8, Zenon

\* send_query(): the task waits for a server of its zone.
LEMMA SendInZone ==
  ASSUME TasksInv, ResolutionSound, TasksInZone, NEW i \in TaskIds, SendQuery(i)
  PROVE  TasksInZone' /\ BelievedInZone'
  <1>1. Running(i) /\ i \in live /\ at.fn = "send_query"
    BY Zenon DEF SendQuery
  <1>2. SoundTask(question[i], res[i]) /\ DOMAIN res = TaskIds /\ live \subseteq TaskIds
    BY <1>1, Zenon DEF ResolutionSound, TasksSound, TasksInv, TasksTypeOK
  <1>3. InZone(res[i])
    BY <1>1, TasksInZoneUnfolded, Zenon DEF Asks, InHand
  <1>4. \/ End(i, Failure("MaxQueriesExceeded")) /\ res' = res
        \/ /\ \E m : upstream' = [upstream EXCEPT ![i] = m]
           /\ call' = [fn |-> "idle", id |-> None, top |-> None]
           /\ live' = live /\ child' = child /\ at' = Nowhere
           /\ res' = [res EXCEPT ![i].tried = IF at.tcp THEN @ ELSE @ \cup {at.server}]
    BY Zenon DEF SendQuery, send_query
  <1>5. CASE /\ \E m : upstream' = [upstream EXCEPT ![i] = m]
             /\ call' = [fn |-> "idle", id |-> None, top |-> None]
             /\ live' = live /\ child' = child /\ at' = Nowhere
             /\ res' = [res EXCEPT ![i].tried = IF at.tcp THEN @ ELSE @ \cup {at.server}]
    <2>1. PICK x : res' = [res EXCEPT ![i] = [res[i] EXCEPT !.tried = x]]
      BY <1>5, Zenon
    <2>2. res'[i] = [res[i] EXCEPT !.tried = x] /\ \A j \in TaskIds : j # i => res'[j] = res[j]
      BY <1>2, <2>1
    <2>3. InZone(res'[i])
      <3>1. \A y : InZone([res[i] EXCEPT !.tried = y])
        BY <1>2, <1>3, ZoneKept, Zenon
      <3> QED BY <2>2, <3>1, Zenon
    <2>4. \A j \in TaskIds : j # i => upstream'[j] = upstream[j]
      <3>1. upstream \in [TaskIds -> Queries \cup {None}]
        BY Zenon DEF TasksInv, TasksTypeOK
      <3> QED BY <1>5, <3>1
    <2>5. call'.fn # "run"
      BY <1>5
    <2>6. \A j \in live' : j # i /\ Asks(j)' => j \in live /\ Asks(j) /\ res'[j] = res[j]
      BY <1>2, <1>5, <2>2, <2>4, <2>5, Zenon DEF Asks, WaitsForServer, WaitsForChild, InHand
    <2>7. at'.fn # "answers"
      BY <1>5, ElsewhereThan, Zenon
    <2> QED BY <2>3, <2>6, <2>7, OthersInZone, NothingBelieved, Zenon
  <1> QED BY <1>4, <1>5, EndInZone, Zenon

\* on_response(): the task that waited for this server has stayed in the zone.
LEMMA ResponseInZone ==
  ASSUME TasksInv, ResolutionSound, TasksInZone, NEW i \in TaskIds, i \in live,
         NEW m \in Queries, OnResponse(i, m)
  PROVE  TasksInZone' /\ BelievedInZone'
  <1>1. SoundTask(question[i], res[i]) /\ DOMAIN res = TaskIds /\ live \subseteq TaskIds
    BY Zenon DEF ResolutionSound, TasksSound, TasksInv, TasksTypeOK
  <1>2. on_response(i, m)
    BY Zenon DEF OnResponse, OnSpoofSuspected, OnCaseMismatch, OnTimeout, OnNetworkError, OnReply
  <1>3. /\ <<i, m>> \in pending /\ call = [fn |-> "idle", id |-> None, top |-> None]
        /\ call' = [fn |-> "run", id |-> i, top |-> None]
        /\ upstream' = [upstream EXCEPT ![i] = None] /\ live' = live /\ child' = child
    BY <1>2, Zenon DEF on_response
  <1>4. InZone(res[i])
    <2>1. upstream[i] = m /\ None \notin Queries
      BY <1>3, TaskConstants, Zenon DEF TasksInv, NothingDangles
    <2> QED BY <2>1, TasksInZoneUnfolded, Zenon DEF Asks, WaitsForServer
  <1>5. PICK t : /\ res' = [res EXCEPT ![i] = t] \/ (res' = res /\ t = res[i])
                 /\ \/ t = res[i]
                    \/ \E x : t = [res[i] EXCEPT !.tried = x]
                    \/ \E x : t = [res[i] EXCEPT !.timed_out = x]
    <2>1. \/ res' = res
          \/ \E x : res' = [res EXCEPT ![i] = [res[i] EXCEPT !.tried = x]]
          \/ \E x : res' = [res EXCEPT ![i] = [res[i] EXCEPT !.timed_out = x]]
      BY Zenon DEF OnResponse, OnSpoofSuspected, OnCaseMismatch, OnTimeout, OnNetworkError, OnReply
    <2> QED BY <2>1, Zenon
  <1>6. \A j \in TaskIds : j # i => res'[j] = res[j] /\ upstream'[j] = upstream[j]
    <2>1. \A j \in TaskIds : j # i => res'[j] = res[j]
      BY <1>1, <1>5
    <2>2. upstream \in [TaskIds -> Queries \cup {None}]
      BY Zenon DEF TasksInv, TasksTypeOK
    <2>3. \A j \in TaskIds : j # i => upstream'[j] = upstream[j]
      BY <1>3, <2>2
    <2> QED BY <2>1, <2>3, Zenon
  <1>7. InZone(res'[i])
    <2>1. res'[i] = t
      BY <1>1, <1>5
    <2>2. InZone(t)
      <3>1. \A y : InZone([res[i] EXCEPT !.tried = y]) /\ InZone([res[i] EXCEPT !.timed_out = y])
        BY <1>1, <1>4, ZoneKept, Zenon
      <3> QED BY <1>4, <1>5, <3>1, Zenon
    <2> QED BY <2>1, <2>2, Zenon
  <1>8. call'.id = i
    BY <1>3
  <1>9. \A j \in live' : j # i /\ Asks(j)' => j \in live /\ Asks(j) /\ res'[j] = res[j]
    BY <1>1, <1>3, <1>6, <1>8, Zenon DEF Asks, WaitsForServer, WaitsForChild, InHand
  <1>10. at'.fn # "answers"
    <2>1. \/ at' = At("next_server")
          \/ at' = AtSend(m.server, TRUE) \/ at' = AtSend(m.server, FALSE)
          \/ \E reply \in Messages : at' = AtHandle(m.server, m.tcp, reply)
      BY Zenon DEF OnResponse, OnSpoofSuspected, OnCaseMismatch, OnTimeout, OnNetworkError, OnReply
    <2> QED BY <2>1 DEF At, AtSend, AtHandle
  <1> QED BY <1>7, <1>9, <1>10, OthersInZone, NothingBelieved, Zenon

\* handle_response()
LEMMA HandlingInZone ==
  ASSUME TasksInv, ResolutionSound, TasksInZone, BelievedInZone, NEW i \in TaskIds,
         \/ HandleResponse(i) \/ HandleAnswer(i) \/ HandleCname(i) \/ HandleChainEnd(i)
         \/ HandleNxDomain(i) \/ HandleNoData(i) \/ HandleLame(i)
  PROVE  TasksInZone' /\ BelievedInZone'
  <1>1. Running(i) /\ i \in live
    BY Zenon DEF HandleResponse, HandleAnswer, HandleCname, HandleChainEnd, HandleNxDomain,
                 HandleNoData, HandleLame, NothingAnswered, AtAnswersOf
  <1>2. SoundTask(question[i], res[i]) /\ DOMAIN res = TaskIds
    BY <1>1, Zenon DEF ResolutionSound, TasksSound
  <1>3. CASE HandleResponse(i)
    <2>1. at.fn = "handle_response"
      BY <1>3, Zenon DEF HandleResponse
    <2>2. InZone(res[i]) /\ at.msg \in Messages
      <3>1. InZone(res[i])
        BY <1>1, <2>1, TasksInZoneUnfolded, Zenon DEF Asks, InHand
      <3> QED BY <2>1, <3>1, Zenon DEF ResolutionSound, SoundStep
    <2>3. PICK next : /\ Continue(i, res[i], next)
                      /\ \/ next.fn # "answers"
                         \/ next = AtAnswers(filter_to_bailiwick(at.msg, res[i].zone), FALSE)
      <3>1. PICK next : at' = next
        BY Zenon
      <3>2. Continue(i, res[i], next)
        BY <1>3, <3>1, Zenon DEF HandleResponse, Continue
      <3>3. \/ next = At("next_server") \/ next = AtSend(at.server, TRUE)
            \/ next = AtAnswers(filter_to_bailiwick(at.msg, res[i].zone), FALSE)
        BY <1>3, <3>1, Zenon DEF HandleResponse, Continue
      <3>4. At("next_server").fn # "answers" /\ AtSend(at.server, TRUE).fn # "answers"
        BY DEF At, AtSend
      <3> QED BY <3>2, <3>3, <3>4, Zenon
    <2>4. TasksInZone' /\ res'[i] = res[i]
      BY <1>1, <1>2, <2>2, <2>3, ContinueInZone, Zenon
    <2>5. at' = next /\ call' = call /\ call.fn = "run" /\ call.id = i
      BY <1>1, <2>3, Zenon DEF Continue, taskVars
    <2>6. CASE next.fn # "answers"
      BY <2>4, <2>5, <2>6, NothingBelieved, Zenon
    <2>7. CASE next = AtAnswers(filter_to_bailiwick(at.msg, res[i].zone), FALSE)
      <3>1. at'.msg = filter_to_bailiwick(at.msg, res[i].zone)
        BY <2>5, <2>7 DEF AtAnswers
      <3>2. MessageInZone(at'.msg, res[i].zone)
        BY <2>2, <3>1, FilterInZone, Zenon
      <3> QED BY <2>2, <2>4, <2>5, <3>2, Zenon DEF BelievedInZone
    <2> QED BY <2>3, <2>6, <2>7, Zenon
  <1>4. CASE HandleAnswer(i) \/ HandleNxDomain(i) \/ HandleNoData(i)
    <2>1. PICK o : End(i, o) /\ res' = res
      <3>1. PICK o : result' = o
        BY Zenon
      <3>2. End(i, o) /\ res' = res
        BY <1>4, <3>1, Zenon DEF HandleAnswer, HandleNxDomain, HandleNoData, Deny, End
      <3> QED BY <3>2, Zenon
    <2> QED BY <2>1, EndInZone, Zenon
  <1>5. CASE HandleCname(i)
    <2>1. PICK rr : \/ Continue(i, Followed(res[i], rr), AtAnswers(at.msg, TRUE))
                    \/ End(i, Failure("MaxCnameChainExceeded")) /\ res' = res
      BY <1>5, Zenon DEF HandleCname
    <2>2. CASE Continue(i, Followed(res[i], rr), AtAnswers(at.msg, TRUE))
      <3>1. PICK t : t = Followed(res[i], rr)
        BY Zenon
      <3>2. t.zone = res[i].zone
        BY <1>2, <3>1 DEF Followed, SoundTask
      <3>3. Continue(i, t, AtAnswers(at.msg, TRUE))
        BY <2>2, <3>1, Zenon
      <3>4. AtAnswers(at.msg, TRUE).fn \notin {"next_server", "send_query", "handle_response"}
        BY DEF AtAnswers
      <3>5. TasksInZone' /\ res'[i] = t
        BY <1>1, <1>2, <3>3, <3>4, ContinueInZone, Zenon
      <3>6. call' = call /\ call.fn = "run" /\ call.id = i /\ at' = AtAnswers(at.msg, TRUE)
        BY <1>1, <3>3, Zenon DEF Continue, taskVars
      <3>7. at'.msg = at.msg /\ at'.followed
        BY <3>6 DEF AtAnswers
      <3>8. MessageInZone(at.msg, res[i].zone)
        BY <1>1, <1>5, Zenon DEF BelievedInZone, HandleCname, AtAnswersOf
      <3> QED BY <3>2, <3>5, <3>6, <3>7, <3>8, Zenon DEF BelievedInZone
    <2> QED BY <2>1, <2>2, EndInZone, Zenon
  <1>6. CASE HandleChainEnd(i)
    <2>1. Continue(i, res[i], At("step"))
      BY <1>6, Zenon DEF HandleChainEnd
    <2>2. At("step").fn = "step"
      BY DEF At
    <2>3. TasksInZone'
      <3>1. At("step").fn \notin {"next_server", "send_query", "handle_response"}
        BY DEF At
      <3> QED BY <1>1, <1>2, <2>1, <3>1, ContinueInZone, Zenon
    <2>4. at'.fn # "answers"
      BY <2>1, <2>2 DEF Continue
    <2> QED BY <2>3, <2>4, NothingBelieved, Zenon
  <1>7. CASE HandleLame(i)
    <2>1. Continue(i, res[i], At("next_server"))
      BY <1>7, Zenon DEF HandleLame
    <2>2. InZone(res[i])
      BY <1>1, <1>7, Zenon DEF HandleLame, NothingAnswered, AtAnswersOf, BelievedInZone
    <2>3. at'.fn # "answers"
      BY <2>1, ElsewhereThan DEF Continue
    <2> QED BY <1>1, <1>2, <2>1, <2>2, <2>3, ContinueInZone, NothingBelieved, Zenon
  <1> QED BY <1>3, <1>4, <1>5, <1>6, <1>7, Zenon

\* A referral leads down to a zone that still contains the name, or nowhere.
LEMMA ReferralInZone ==
  ASSUME TasksInv, ResolutionSound, TasksInZone, BelievedInZone, NEW i \in TaskIds, HandleReferral(i)
  PROVE  TasksInZone' /\ BelievedInZone'
  <1>1. Running(i) /\ i \in live /\ at.fn = "answers" /\ ~at.followed
    BY Zenon DEF HandleReferral, NothingAnswered, AtAnswersOf
  <1>2. SoundTask(question[i], res[i]) /\ DOMAIN res = TaskIds /\ InZone(res[i])
    BY <1>1, Zenon DEF ResolutionSound, TasksSound, BelievedInZone
  <1>3. PICK owner, names, glue :
          \/ Continue(i, res[i], At("next_server"))
          \/ End(i, Failure("MaxDepthExceeded")) /\ res' = res
          \/ /\ Downward(i, owner) /\ owner \in Delegated(i)
             /\ Continue(i, enter_zone([res[i] EXCEPT !.referrals = @ + 1], owner, names, glue, cache'),
                         At("next_server"))
    BY ZenonT(30) DEF HandleReferral
  <1>4. ASSUME NEW t, Continue(i, t, At("next_server")), InZone(t)
        PROVE  TasksInZone' /\ BelievedInZone'
    <2>1. at'.fn # "answers"
      BY <1>4, ElsewhereThan DEF Continue
    <2> QED BY <1>1, <1>2, <1>4, <2>1, ContinueInZone, NothingBelieved, Zenon
  <1>5. CASE Continue(i, res[i], At("next_server"))
    BY <1>2, <1>4, <1>5, Zenon
  <1>6. CASE /\ Downward(i, owner) /\ owner \in Delegated(i)
             /\ Continue(i, enter_zone([res[i] EXCEPT !.referrals = @ + 1], owner, names, glue, cache'),
                         At("next_server"))
    <2>1. PICK t : t = [res[i] EXCEPT !.referrals = @ + 1]
      BY Zenon
    <2>2. SoundTask(question[i], t) /\ t.qname = res[i].qname
      BY <1>2, <2>1 DEF SoundTask
    <2>3. PICK u : u = enter_zone(t, owner, names, glue, cache')
      BY Zenon
    <2>4. u.qname = t.qname /\ u.zone = owner
      BY <2>2, <2>3, EnterZone
    <2>5. IsSubdomainOf(u.qname, owner)
      BY <1>6, <2>2, <2>4, Zenon DEF Downward
    <2>6. Above[res[i].zone] \subseteq Above[owner]
      <3>1. MessageInZone(at.msg, res[i].zone)
        BY <1>1, Zenon DEF BelievedInZone
      <3>2. res[i].zone \in Above[owner]
        BY <1>6, <3>1, Zenon DEF Delegated, MessageInZone, IsSubdomainOf
      <3>3. owner \in Names
        BY <1>2, <1>6, ResolverConstants DEF Downward, IsSubdomainOf, SoundTask
      <3> QED BY <3>2, <3>3, ResolverConstants, Zenon
    <2>7. InZone(u)
      BY <1>2, <2>2, <2>4, <2>5, <2>6, Zenon DEF InZone, IsSubdomainOf
    <2> QED BY <1>4, <1>6, <2>1, <2>3, <2>7, Zenon
  <1> QED BY <1>3, <1>5, <1>6, EndInZone, Zenon

\* What is left when tasks end and callers are called back.
LEMMA EndingInZone ==
  ASSUME TasksInv, ResolutionSound, TasksInZone, BelievedInZone, NEW i \in TaskIds,
         Finish(i) \/ Cancel(i) \/ \E c \in Clients : CallBack(i, c)
  PROVE  TasksInZone' /\ BelievedInZone'
  <1>1. /\ finish(i) \/ cancel(i) \/ \E c \in Clients : CallClient(i, c)
        /\ at' = at /\ (res' = res \/ res' = [res EXCEPT ![i] = None])
    BY Zenon DEF Finish, Cancel, CallBack
  <1>2. DOMAIN res = TaskIds /\ live \subseteq TaskIds
        /\ upstream \in [TaskIds -> Queries \cup {None}] /\ child \in [TaskIds -> TaskIds \cup {None}]
    BY Zenon DEF ResolutionSound, TasksSound, TasksInv, TasksTypeOK
  <1>3. call.fn \in {"finish", "cancel", "done", "clients"}
    BY <1>1, Zenon DEF finish, cancel, CallClient
  <1>4. call'.fn # "run"
    <2>1. CASE finish(i)
      BY <2>1 DEF finish, AfterRelease
    <2>2. CASE cancel(i)
      BY <2>2 DEF cancel
    <2>3. ASSUME NEW c \in Clients, CallClient(i, c) PROVE call'.fn # "run"
      <3>1. call' = [fn |-> "idle", id |-> None, top |-> None] \/ call' = [call EXCEPT !.fn = "clients"]
        BY <2>3, Zenon DEF CallClient
      <3>2. call \in [fn : {"run", "finish", "done", "clients"}, id : TaskIds, top : {None}]
        BY <2>3, CallTyped, Zenon DEF CallClient
      <3> QED BY <3>1, <3>2
    <2> QED BY <1>1, <2>1, <2>2, <2>3
  <1>5. at'.fn # "answers"
    BY <1>1, <1>3, <1>4 DEF BelievedInZone
  <1>6. \A j \in live' : j \in live /\ j # i
    BY <1>1, EndingKeeps, Zenon
  <1>7. /\ upstream' = upstream \/ upstream' = [upstream EXCEPT ![i] = None]
        /\ child' = child \/ child' = [child EXCEPT ![i] = None]
    BY <1>1, Zenon DEF finish, cancel, CallClient, release
  <1>8. \A j \in TaskIds : j # i =>
          res'[j] = res[j] /\ upstream'[j] = upstream[j] /\ child'[j] = child[j]
    <2>1. \A j \in TaskIds : j # i => res'[j] = res[j]
      BY <1>1, <1>2
    <2>2. \A j \in TaskIds : j # i => upstream'[j] = upstream[j]
      BY <1>2, <1>7
    <2>3. \A j \in TaskIds : j # i => child'[j] = child[j]
      BY <1>2, <1>7
    <2> QED BY <2>1, <2>2, <2>3, Zenon
  <1>9. live' \subseteq live
    BY <1>6, Zenon
  <1> QED BY <1>2, <1>4, <1>5, <1>6, <1>8, <1>9, FewerAsk, NothingBelieved, Zenon

\* on_child_done(): the parent waited in its zone, and goes on there.
LEMMA ChildInZone ==
  ASSUME TasksInv, ResolutionSound, TasksInZone, NEW i \in TaskIds, OnChildDone(i)
  PROVE  TasksInZone' /\ BelievedInZone'
  <1>1. call.fn = "done" /\ call.id = i /\ parent[i] # None /\ at' = At("next_server")
    BY Zenon DEF OnChildDone, on_child_done, IsClient
  <1>2. PICK p \in live : p = parent[i] /\ child[p] = i
    BY <1>1, Zenon DEF TasksInv, ThreadConsistent
  <1>3. SoundTask(question[p], res[p]) /\ DOMAIN res = TaskIds /\ live \subseteq TaskIds
        /\ child \in [TaskIds -> TaskIds \cup {None}]
    BY Zenon DEF ResolutionSound, TasksSound, TasksInv, TasksTypeOK
  <1>4. /\ live' = live /\ upstream' = upstream /\ child' = [child EXCEPT ![p] = None]
        /\ call' = [fn |-> "run", id |-> p, top |-> None]
    BY <1>2, Zenon DEF OnChildDone, on_child_done, WithoutChild
  <1>5. InZone(res[p])
    <2>1. i # None
      BY TaskConstants, Zenon
    <2> QED BY <1>2, <2>1, TasksInZoneUnfolded, Zenon DEF Asks, WaitsForChild
  <1>6. res' = res \/ \E s : res' = [res EXCEPT ![p] = [res[p] EXCEPT !.servers = s]]
    BY <1>2, Zenon DEF OnChildDone
  <1>7. InZone(res'[p]) /\ \A j \in TaskIds : j # p => res'[j] = res[j]
    <2>1. ASSUME NEW s, res' = [res EXCEPT ![p] = [res[p] EXCEPT !.servers = s]]
          PROVE  InZone(res'[p]) /\ \A j \in TaskIds : j # p => res'[j] = res[j]
      <3>1. InZone([res[p] EXCEPT !.servers = s])
        BY <1>3, <1>5, ZoneKept, Zenon
      <3>2. PICK t : t = [res[p] EXCEPT !.servers = s] /\ res' = [res EXCEPT ![p] = t]
        BY <2>1, Zenon
      <3>3. res'[p] = t /\ \A j \in TaskIds : j # p => res'[j] = res[j]
        BY <1>3, <3>2
      <3> QED BY <3>1, <3>2, <3>3, Zenon
    <2> QED BY <1>5, <1>6, <2>1, Zenon
  <1>8. call'.id = p /\ \A j \in TaskIds : j # p => child'[j] = child[j]
    BY <1>3, <1>4
  <1>9. \A j \in live' : j # p /\ Asks(j)' => j \in live /\ Asks(j) /\ res'[j] = res[j]
    BY <1>3, <1>4, <1>7, <1>8, Zenon DEF Asks, WaitsForServer, WaitsForChild, InHand
  <1>10. at'.fn # "answers"
    BY <1>1, ElsewhereThan
  <1> QED BY <1>7, <1>9, <1>10, OthersInZone, NothingBelieved, Zenon

\* New tasks ask nobody; timers, callers and the clock take nobody out of a zone.
LEMMA OutsideInZone ==
  ASSUME TasksInv, ResolutionSound, TasksInZone, BelievedInZone,
         \/ \E c \in Clients, q \in Questions : Resolve(c, q)
         \/ \E i \in TaskIds : Start(i) \/ Deadline(i)
         \/ \E k \in Keys : Expire(k)
         \/ DestroyResolver \/ CreateResolver \/ UNCHANGED vars
  PROVE  TasksInZone' /\ BelievedInZone'
  <1>1. DOMAIN res = TaskIds /\ live \subseteq TaskIds
    BY Zenon DEF ResolutionSound, TasksSound, TasksInv, TasksTypeOK
  <1>2. ASSUME NEW c \in Clients, NEW q \in Questions, Resolve(c, q)
        PROVE  TasksInZone' /\ BelievedInZone'
    <2>1. call' = call /\ at' = at /\ upstream' = upstream /\ child' = child /\ ClientsTurn
      BY <1>2, Zenon DEF Resolve, resolve_client
    <2>2. call.fn # "run"
      BY <2>1 DEF ClientsTurn
    <2>3. CASE in_flight[q] \in live
      <3>1. live' = live /\ res' = res
        BY <1>2, <2>3, Zenon DEF Resolve, resolve_client, Join, StartNew
      <3> QED BY <2>1, <2>2, <3>1, FewerAsk, Zenon DEF BelievedInZone
    <2>4. CASE in_flight[q] \notin live
      <3>1. /\ HasRoom /\ live' = live \cup {NewId}
            /\ res' = [res EXCEPT ![NewId] = NewTask(q, <<>>)]
        BY <1>2, <2>4, Zenon DEF Resolve, resolve_client, Join, StartNew, spawn
      <3>2. PICK k \in TaskIds \ live : k = NewId
        BY <3>1, NewIdFree, Zenon
      <3>3. \A j \in live : res'[j] = res[j]
        BY <1>1, <3>1, <3>2
      <3>4. upstream[k] = None /\ child[k] = None
        BY <3>2, Zenon DEF TasksInv, DeadHoldNothing
      <3>5. ~Asks(k)' /\ \A j \in live : Asks(j)' => Asks(j)
        BY <2>1, <2>2, <3>4, Zenon DEF Asks, WaitsForServer, WaitsForChild, InHand
      <3>6. \A j \in live' : j # k => j \in live
        BY <3>1, <3>2
      <3>7. TasksInZone'
        BY <3>3, <3>5, <3>6, OthersInZone, Zenon
      <3> QED BY <2>1, <2>2, <3>7, Zenon DEF BelievedInZone
    <2> QED BY <2>3, <2>4
  <1>3. ASSUME NEW i \in TaskIds, Start(i) \/ Deadline(i) PROVE TasksInZone' /\ BelievedInZone'
    <2>1. /\ call = [fn |-> "idle", id |-> None, top |-> None]
          /\ live' = live /\ res' = res /\ upstream' = upstream /\ child' = child
          /\ \/ at' = At("step")
             \/ at' = at /\ ( \/ call' = [fn |-> "finish", id |-> i, top |-> None]
                              \/ call' = [fn |-> "idle", id |-> None, top |-> None])
      BY <1>3, Zenon DEF Start, StartTimerFires, Deadline, DeadlineFires
    <2>2. call.fn # "run"
      BY <2>1
    <2>3. at'.fn # "answers"
      BY <2>1, <2>2 DEF BelievedInZone, At
    <2>4. at'.fn = "step" \/ call'.fn # "run"
      BY <2>1 DEF At
    <2>5. \A j \in live' : Asks(j)' => j \in live /\ Asks(j) /\ res'[j] = res[j]
      BY <2>1, <2>4 DEF Asks, WaitsForServer, WaitsForChild, InHand
    <2>6. TasksInZone'
      BY <2>5, TasksInZoneUnfolded, Zenon
    <2> QED BY <2>3, <2>6, NothingBelieved, Zenon
  <1>4. CASE DestroyResolver
    <2>1. live' = {} /\ at' = at /\ ClientsTurn
      BY <1>4, Zenon DEF DestroyResolver, Destroy
    <2>2. call.fn # "run"
      BY <2>1 DEF ClientsTurn
    <2>3. at'.fn # "answers"
      BY <2>1, <2>2, Zenon DEF BelievedInZone
    <2>4. TasksInZone'
      BY <2>1, TasksInZoneUnfolded, Zenon
    <2> QED BY <2>3, <2>4, NothingBelieved, Zenon
  <1>5. CASE (\E k \in Keys : Expire(k)) \/ CreateResolver \/ UNCHANGED vars
    <2>1. live' = live /\ res' = res /\ at' = at /\ call' = call /\ upstream' = upstream /\ child' = child
      BY <1>5, Zenon DEF Expire, CreateResolver, Create, vars, resVars, taskVars
    <2>2. \A j \in live' : Asks(j)' => j \in live /\ Asks(j) /\ res'[j] = res[j]
      BY <2>1, Zenon DEF Asks, WaitsForServer, WaitsForChild, InHand
    <2>3. TasksInZone'
      BY <2>2, TasksInZoneUnfolded, Zenon
    <2> QED BY <2>1, <2>3, Zenon DEF BelievedInZone
  <1> QED BY <1>2, <1>3, <1>4, <1>5, Zenon

\* Every step of the resolver.
LEMMA InZoneNext ==
  TasksInv /\ ResolutionSound /\ TasksInZone /\ BelievedInZone /\ [Next]_vars
    => TasksInZone' /\ BelievedInZone'
  <1> SUFFICES ASSUME TasksInv, ResolutionSound, TasksInZone, BelievedInZone, [Next]_vars
               PROVE  TasksInZone' /\ BelievedInZone'
    OBVIOUS
  <1>1. ASSUME NEW i \in TaskIds, UpstreamAnswers(i) PROVE TasksInZone' /\ BelievedInZone'
    <2>1. PICK e \in pending : OnResponse(i, e[2])
      BY <1>1, Zenon DEF UpstreamAnswers
    <2>2. e[2] \in Queries /\ i \in live
      BY <1>1, <2>1, PendingParts, Zenon DEF UpstreamAnswers
    <2> QED BY <2>1, <2>2, ResponseInZone, Zenon
  <1>2. CASE Inside
    <2>1. PICK i \in TaskIds :
            \/ StepAnswers(i) \/ StepFollows(i) \/ StepStarts(i)
            \/ PickServer(i) \/ LookUpNameServer(i) \/ RetryTimedOut(i) \/ GiveUp(i)
            \/ SendQuery(i)
            \/ HandleResponse(i) \/ HandleAnswer(i) \/ HandleCname(i) \/ HandleChainEnd(i)
            \/ HandleNxDomain(i) \/ HandleReferral(i) \/ HandleNoData(i) \/ HandleLame(i)
            \/ Finish(i) \/ Cancel(i) \/ (\E c \in Clients : CallBack(i, c)) \/ OnChildDone(i)
      BY <1>2, Zenon DEF Inside
    <2>2. CASE \/ StepAnswers(i) \/ StepFollows(i) \/ StepStarts(i)
               \/ PickServer(i) \/ RetryTimedOut(i) \/ GiveUp(i)
      BY <2>2, AskingInZone, Zenon
    <2>3. CASE \/ HandleResponse(i) \/ HandleAnswer(i) \/ HandleCname(i) \/ HandleChainEnd(i)
               \/ HandleNxDomain(i) \/ HandleNoData(i) \/ HandleLame(i)
      BY <2>3, HandlingInZone, Zenon
    <2>4. CASE Finish(i) \/ Cancel(i) \/ \E c \in Clients : CallBack(i, c)
      BY <2>4, EndingInZone, Zenon
    <2> QED BY <2>1, <2>2, <2>3, <2>4, LookUpInZone, SendInZone, ReferralInZone, ChildInZone, Zenon
  <1> QED BY <1>1, <1>2, OutsideInZone, Zenon DEF Next

\* At first there is no task.
LEMMA InZoneInit == Init => TasksInZone /\ BelievedInZone
  <1> SUFFICES ASSUME Init PROVE TasksInZone /\ BelievedInZone
    OBVIOUS
  <1>1. live = {} /\ at = Nowhere
    BY Zenon DEF Init, TasksInit
  <1> QED BY <1>1 DEF TasksInZone, BelievedInZone, Nowhere

\* Whenever a task asks a server, waits for one or looks one up, its name is in the
\* zone it is in: step() and referrals only enter zones above the name, and a CNAME
\* that leads out of the zone starts over.
THEOREM NamesStayInZone == Spec => []NameInZone
  <1>1. TasksInZone => NameInZone
    BY Zenon DEF TasksInZone, Asks, InZone, NameInZone
  <1> QED BY <1>1, InZoneInit, InZoneNext, ResolverCorrect, PTL DEF Spec

----------------------------------------------------------------------------
(* What handle_response() puts into the cache *)

SlotsInZone(new, z) == \A k \in DOMAIN new : IsSubdomainOf(k[1], z)

\* Two inserts of the zone's names are one.
LEMMA SlotsJoin ==
  ASSUME NEW f, NEW g, NEW z, SlotsInZone(f, z), SlotsInZone(g, z)
  PROVE  SlotsInZone(Join2(f, g), z)
  BY DEF SlotsInZone, Join2

\* An insert under a name of the zone.
LEMMA SlotIn ==
  ASSUME NEW n, NEW ty, NEW e, NEW z, IsSubdomainOf(n, z) PROVE SlotsInZone(Slot(<<n, ty>>, e), z)
  BY DEF SlotsInZone, Slot

\* No insert at all.
LEMMA NoSlotsIn == ASSUME NEW z PROVE SlotsInZone(NoSlots, z)
  BY DEF SlotsInZone, NoSlots

\* cache_glue(): the addresses of the zone's names.
LEMMA GlueIn ==
  ASSUME NEW m, NEW ns, NEW z, MessageInZone(m, z)
  PROVE  SlotsInZone(cache_glue(m.additional, ns), z)
  <1> SUFFICES ASSUME NEW k \in DOMAIN cache_glue(m.additional, ns) PROVE IsSubdomainOf(k[1], z)
    BY DEF SlotsInZone
  <1>1. PICK n : k = <<n, "A">> /\ collect(m.additional, n, "A") # {}
    BY DEF cache_glue
  <1>2. PICK rr \in m.additional : rr.name = n
    BY <1>1 DEF collect
  <1>3. IsSubdomainOf(n, z)
    BY <1>2, Zenon DEF MessageInZone
  <1> QED BY <1>1, <1>3

\* What is inserted under names of the zone changes nothing else.
LEMMA InsertIn ==
  ASSUME NEW new, NEW z, SlotsInZone(new, z), cache' = Insert(new)
  PROVE  \A k \in Keys : cache'[k] # cache[k] => IsSubdomainOf(k[1], z)
  BY DEF SlotsInZone, Insert

\* handle_response() on the message in hand.
LEMMA HandlingIn ==
  ASSUME TasksInv, ResolutionSound, BelievedInZone, NEW i \in TaskIds, AtAnswersOf(i),
         \/ HandleAnswer(i) \/ HandleCname(i)
         \/ HandleNxDomain(i) \/ HandleNoData(i) \/ HandleReferral(i)
  PROVE  \A k \in Keys : cache'[k] # cache[k] => IsSubdomainOf(k[1], res[call.id].zone)
  <1> DEFINE z == res[i].zone
  <1>1. call.id = i /\ MessageInZone(at.msg, z)
    BY Zenon DEF BelievedInZone, AtAnswersOf
  <1>2. SoundTask(question[i], res[i])
    BY AnswersFacts, Zenon
  <1>3. \A rr \in at.msg.answers \cup at.msg.authority \cup at.msg.additional : IsSubdomainOf(rr.name, z)
    BY <1>1, Zenon DEF MessageInZone
  <1>4. RRset(i) # {} \/ Cnames(i) # {} => IsSubdomainOf(res[i].qname, z)
    BY <1>3, Zenon DEF RRset, Cnames, collect
  <1> HIDE DEF z
  <1>5. SUFFICES (cache' = cache) \/ \E new : SlotsInZone(new, z) /\ cache' = Insert(new)
    BY <1>1, <1>5, InsertIn, Zenon DEF z
  <1>6. CASE HandleAnswer(i)
    <2>1. PICK k, e, glue :
            /\ k = <<res[i].qname, question[i].qtype>>
            /\ cache' = Insert(Join2(Slot(k, e), glue))
            /\ glue = cache_glue(at.msg.additional, RRset(i)) \/ glue = NoSlots
      BY <1>6, Zenon DEF HandleAnswer
    <2>2. SlotsInZone(Slot(k, e), z)
      BY <1>4, <1>6, <2>1, SlotIn, Zenon DEF HandleAnswer
    <2>3. SlotsInZone(glue, z)
      BY <1>1, <2>1, GlueIn, NoSlotsIn, Zenon DEF z
    <2> QED BY <2>1, <2>2, <2>3, SlotsJoin, Zenon
  <1>7. CASE HandleCname(i)
    <2>1. PICK e : cache' = Insert(Slot(<<res[i].qname, "CNAME">>, e)) /\ Cnames(i) # {}
      BY <1>7, Zenon DEF HandleCname
    <2> QED BY <1>4, <2>1, SlotIn, Zenon
  <1>8. CASE HandleNxDomain(i) \/ HandleNoData(i)
    <2>1. PICK ty, e : \/ cache' = cache
                       \/ cache' = Insert(Slot(<<res[i].qname, ty>>, e)) /\ Soa(i) # {}
      BY <1>8, Zenon DEF HandleNxDomain, HandleNoData, Deny
    <2>2. ASSUME Soa(i) # {} PROVE IsSubdomainOf(res[i].qname, z)
      <3>1. PICK rr \in at.msg.authority : rr.name \in Above[res[i].qname]
        BY <2>2, Zenon DEF Soa, find_soa, IsSubdomainOf
      <3>2. z \in Above[rr.name] /\ res[i].qname \in Names
        BY <1>2, <1>3, Zenon DEF IsSubdomainOf, SoundTask
      <3>3. Above[rr.name] \subseteq Above[res[i].qname]
        BY <3>1, <3>2, ResolverConstants, Zenon
      <3> QED BY <3>2, <3>3, Zenon DEF IsSubdomainOf
    <2> QED BY <2>1, <2>2, SlotIn, Zenon
  <1>9. CASE HandleReferral(i)
    <2>1. PICK owner, e, ns :
            /\ owner \in Delegated(i)
            /\ \/ cache' = cache
               \/ cache' = Insert(Join2(Slot(<<owner, "NS">>, e), cache_glue(at.msg.additional, ns)))
      BY <1>9, Zenon DEF HandleReferral
    <2>2. IsSubdomainOf(owner, z)
      BY <1>3, <2>1, Zenon DEF Delegated
    <2>3. SlotsInZone(Slot(<<owner, "NS">>, e), z) /\ SlotsInZone(cache_glue(at.msg.additional, ns), z)
      BY <1>1, <2>2, SlotIn, GlueIn, Zenon DEF z
    <2> QED BY <2>1, <2>3, SlotsJoin, Zenon
  <1> QED BY <1>6, <1>7, <1>8, <1>9

\* The cache changes only in handle_response(), and when an entry expires.
LEMMA CacheChanges ==
  ASSUME Next
  PROVE  \/ cache' = cache
         \/ \E k \in Keys : Expire(k)
         \/ \E i \in TaskIds :
              AtAnswersOf(i) /\ ( \/ HandleAnswer(i) \/ HandleCname(i)
                                 \/ HandleNxDomain(i) \/ HandleNoData(i) \/ HandleReferral(i))
  <1>1. CASE Inside
    <2>1. PICK i \in TaskIds :
            \/ StepAnswers(i) \/ StepFollows(i) \/ StepStarts(i)
            \/ PickServer(i) \/ LookUpNameServer(i) \/ RetryTimedOut(i) \/ GiveUp(i)
            \/ SendQuery(i)
            \/ HandleResponse(i) \/ HandleAnswer(i) \/ HandleCname(i) \/ HandleChainEnd(i)
            \/ HandleNxDomain(i) \/ HandleReferral(i) \/ HandleNoData(i) \/ HandleLame(i)
            \/ Finish(i) \/ Cancel(i) \/ (\E c \in Clients : CallBack(i, c)) \/ OnChildDone(i)
      BY <1>1, Zenon DEF Inside
    <2>2. CASE \/ StepAnswers(i) \/ StepFollows(i) \/ StepStarts(i)
               \/ PickServer(i) \/ LookUpNameServer(i) \/ RetryTimedOut(i) \/ GiveUp(i)
               \/ SendQuery(i)
      BY <2>2, Zenon DEF StepAnswers, StepFollows, StepStarts, PickServer, LookUpNameServer,
                         RetryTimedOut, GiveUp, SendQuery
    <2>3. CASE HandleResponse(i) \/ HandleChainEnd(i) \/ HandleLame(i)
      BY <2>3, Zenon DEF HandleResponse, HandleChainEnd, HandleLame
    <2>4. CASE Finish(i) \/ Cancel(i) \/ (\E c \in Clients : CallBack(i, c)) \/ OnChildDone(i)
      BY <2>4, Zenon DEF Finish, Cancel, CallBack, OnChildDone
    <2>5. CASE \/ HandleAnswer(i) \/ HandleCname(i)
               \/ HandleNxDomain(i) \/ HandleNoData(i) \/ HandleReferral(i)
      BY <2>5, Zenon DEF HandleAnswer, HandleCname, HandleNxDomain, HandleNoData, HandleReferral,
                         NothingAnswered
    <2> QED BY <2>1, <2>2, <2>3, <2>4, <2>5, Zenon
  <1>2. CASE \/ \E c \in Clients, q \in Questions : Resolve(c, q)
             \/ \E i \in TaskIds : Start(i) \/ Deadline(i) \/ UpstreamAnswers(i)
             \/ DestroyResolver \/ CreateResolver
    BY <1>2, Zenon
    DEF Resolve, Start, Deadline, UpstreamAnswers, OnResponse, OnSpoofSuspected, OnCaseMismatch,
        OnTimeout, OnNetworkError, OnReply, DestroyResolver, CreateResolver, resVars
  <1> QED BY <1>1, <1>2, Zenon DEF Next

\* Every step of the resolver.
LEMMA CacheInZone ==
  ASSUME TasksInv, ResolutionSound, BelievedInZone, Next,
         NEW k \in Keys, cache'[k] # cache[k], cache'[k] # None
  PROVE  IsSubdomainOf(k[1], res[call.id].zone)
  <1>1. ASSUME NEW x \in Keys, Expire(x) PROVE FALSE
    <2>1. cache' = [cache EXCEPT ![x] = None] /\ DOMAIN cache = Keys
      BY <1>1, Zenon DEF Expire, ResolutionSound, CacheSound
    <2> QED BY <2>1
  <1> QED BY <1>1, CacheChanges, HandlingIn, Zenon

\* "Only records inside the zone we asked about are believed": whatever a response
\* holds, handle_response() and cache_glue() change the cache only under names of
\* the zone its server was asked about.
THEOREM BailiwickKept == Spec => BailiwickRespected
  <1>1. TasksInv /\ ResolutionSound /\ BelievedInZone /\ [Next]_vars
          => [\A k \in Keys : cache'[k] # cache[k] /\ cache'[k] # None =>
                                IsSubdomainOf(k[1], res[call.id].zone)]_vars
    BY CacheInZone, Zenon
  <1> QED BY <1>1, InZoneInit, InZoneNext, ResolverCorrect, PTL DEF Spec, BailiwickRespected
=============================================================================

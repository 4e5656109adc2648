----------------------- MODULE ResolverQueriesProofs ------------------------
(***************************************************************************)
(* What a task remembers is about what it is doing: the query in flight is *)
(* about its current name and zone, its record of the questions above it   *)
(* is theirs, and servers it has asked are forgotten only after a timeout; *)
(* for any names, servers, answers, clients and limits.                    *)
(*                                                                         *)
(* The inductive invariant is Walk: about each task by itself, the place   *)
(* the thread is at, the queries in flight, and tasks and their parents.   *)
(***************************************************************************)
EXTENDS ResolverAnswersProofs

USE DEF Running, Idle
USE SMTT(60), SMTT(90)   \* a second try, should the machine be busy

----------------------------------------------------------------------------
(* What a task remembers of servers and of its ancestors *)

\* A field of a task may be set to anything of its type.
LEMMA Updated ==
  ASSUME NEW t \in TaskState
  PROVE  /\ \A x \in Names \cup {None} : [t EXCEPT !.zone = x] \in TaskState
         /\ \A x \in SUBSET Addresses :
              /\ [t EXCEPT !.servers = x] \in TaskState
              /\ [t EXCEPT !.tried = x] \in TaskState
              /\ [t EXCEPT !.timed_out = x] \in TaskState
         /\ \A x \in SUBSET Names : [t EXCEPT !.unresolved = x] \in TaskState
         /\ \A x \in 0..kMaxRetryRounds : [t EXCEPT !.retry_rounds = x] \in TaskState
         /\ \A x \in 0..MaxGluelessNs : [t EXCEPT !.glueless_lookups = x] \in TaskState
         /\ \A x \in 0..MaxReferralDepth : [t EXCEPT !.referrals = x] \in TaskState
  <1>1. \A x \in Names \cup {None} : [t EXCEPT !.zone = x] \in TaskState
    BY Zenon DEF TaskState
  <1>2. \A x \in SUBSET Addresses : [t EXCEPT !.servers = x] \in TaskState
    BY DEF TaskState
  <1>3. \A x \in SUBSET Names : [t EXCEPT !.unresolved = x] \in TaskState
    BY DEF TaskState
  <1>4. \A x \in SUBSET Addresses : [t EXCEPT !.tried = x] \in TaskState
    BY DEF TaskState
  <1>5. \A x \in SUBSET Addresses : [t EXCEPT !.timed_out = x] \in TaskState
    BY DEF TaskState
  <1>6. \A x \in 0..kMaxRetryRounds : [t EXCEPT !.retry_rounds = x] \in TaskState
    BY Zenon DEF TaskState
  <1>7. \A x \in 0..MaxGluelessNs : [t EXCEPT !.glueless_lookups = x] \in TaskState
    BY Zenon DEF TaskState
  <1>8. \A x \in 0..MaxReferralDepth : [t EXCEPT !.referrals = x] \in TaskState
    BY Zenon DEF TaskState
  <1> QED BY <1>1, <1>2, <1>3, <1>4, <1>5, <1>6, <1>7, <1>8, Zenon

\* A task is a record with these fields.
LEMMA TaskDomain ==
  ASSUME NEW t \in TaskState
  PROVE  /\ "qname" \in DOMAIN t /\ "hops" \in DOMAIN t /\ "chain" \in DOMAIN t
         /\ "ancestry" \in DOMAIN t /\ "zone" \in DOMAIN t /\ "servers" \in DOMAIN t
         /\ "unresolved" \in DOMAIN t /\ "tried" \in DOMAIN t /\ "timed_out" \in DOMAIN t
         /\ "retry_rounds" \in DOMAIN t /\ "glueless_lookups" \in DOMAIN t
         /\ "referrals" \in DOMAIN t
  BY DEF TaskState

\* The types of those a step looks at.
LEMMA TaskFields ==
  ASSUME NEW t \in TaskState
  PROVE  /\ t.tried \in SUBSET Addresses /\ t.timed_out \in SUBSET Addresses
         /\ t.servers \in SUBSET Addresses /\ t.unresolved \in SUBSET Names
         /\ t.ancestry \in Seq(Asked)
         /\ t.retry_rounds \in Nat /\ t.glueless_lookups \in Nat /\ t.referrals \in Nat
  <1>1. /\ t.retry_rounds \in 0..kMaxRetryRounds /\ t.glueless_lookups \in 0..MaxGluelessNs
        /\ t.referrals \in 0..MaxReferralDepth
    BY Zenon DEF TaskState
  <1>2. /\ t.tried \in SUBSET Addresses /\ t.timed_out \in SUBSET Addresses
        /\ t.servers \in SUBSET Addresses /\ t.unresolved \in SUBSET Names
        /\ t.ancestry \in Seq(Asked)
    BY Zenon DEF TaskState
  <1> QED BY <1>1, <1>2

\* reset_zone() keeps the ancestry, and forgets the servers.
LEMMA ResetTyped ==
  ASSUME NEW t \in TaskState, NEW z \in Names
  PROVE  /\ reset_zone(t, z) \in TaskState /\ reset_zone(t, z).ancestry = t.ancestry
         /\ reset_zone(t, z).zone = z
         /\ reset_zone(t, z).tried = {} /\ reset_zone(t, z).timed_out = {}
  <1>1. 0 \in 0..kMaxRetryRounds /\ 0 \in 0..MaxGluelessNs
    BY ResolverConstants
  <1>2. {} \in SUBSET Names /\ {} \in SUBSET Addresses /\ z \in Names \cup {None}
    OBVIOUS
  <1>3. PICK u1 \in TaskState : u1 = [t EXCEPT !.zone = z]
    BY <1>2, Updated, Zenon
  <1>4. PICK u2 \in TaskState : u2 = [u1 EXCEPT !.servers = {}]
    BY <1>2, Updated, Zenon
  <1>5. PICK u3 \in TaskState : u3 = [u2 EXCEPT !.unresolved = {}]
    BY <1>2, Updated, Zenon
  <1>6. PICK u4 \in TaskState : u4 = [u3 EXCEPT !.tried = {}]
    BY <1>2, Updated, Zenon
  <1>7. PICK u5 \in TaskState : u5 = [u4 EXCEPT !.timed_out = {}]
    BY <1>2, Updated, Zenon
  <1>8. PICK u6 \in TaskState : u6 = [u5 EXCEPT !.retry_rounds = 0]
    BY <1>1, Updated, Zenon
  <1>9. reset_zone(t, z) =
          [[[[[[[t EXCEPT !.zone = z] EXCEPT !.servers = {}] EXCEPT !.unresolved = {}]
             EXCEPT !.tried = {}] EXCEPT !.timed_out = {}] EXCEPT !.retry_rounds = 0]
             EXCEPT !.glueless_lookups = 0]
    BY Zenon DEF reset_zone
  <1>10. reset_zone(t, z) = [u6 EXCEPT !.glueless_lookups = 0]
    BY <1>3, <1>4, <1>5, <1>6, <1>7, <1>8, <1>9, Zenon
  <1>11. reset_zone(t, z) \in TaskState
    BY <1>1, <1>10, Updated, Zenon
  <1>12. /\ "tried" \in DOMAIN t /\ "timed_out" \in DOMAIN t
         /\ "ancestry" \in DOMAIN t /\ "zone" \in DOMAIN t
    BY TaskDomain, Zenon
  <1>13. /\ reset_zone(t, z).ancestry = t.ancestry /\ reset_zone(t, z).zone = z
         /\ reset_zone(t, z).tried = {} /\ reset_zone(t, z).timed_out = {}
    BY <1>12 DEF reset_zone
  <1> QED BY <1>11, <1>13

\* A zone entered with these servers, and with these names yet to look up.
WithServers(t, z, s) == [reset_zone(t, z) EXCEPT !.servers = s]
Entered(t, z, s, n) == [reset_zone(t, z) EXCEPT !.servers = s, !.unresolved = n]

StartsOver(t, u, z) ==
  /\ u \in TaskState /\ u.ancestry = t.ancestry /\ u.zone = z
  /\ u.tried = {} /\ u.timed_out \subseteq {}

\* So does what enters a zone.
LEMMA EnteredTyped ==
  ASSUME NEW t \in TaskState, NEW z \in Names, NEW s, NEW n
  PROVE  /\ WithServers(t, z, s).servers = s /\ WithServers(t, z, s).zone = z
         /\ Entered(t, z, s, n).servers = s /\ Entered(t, z, s, n).unresolved = n
         /\ Entered(t, z, s, n).zone = z
         /\ s \in SUBSET Addresses => StartsOver(t, WithServers(t, z, s), z)
         /\ s \in SUBSET Addresses /\ n \in SUBSET Names => StartsOver(t, Entered(t, z, s, n), z)
  <1>1. PICK r \in TaskState : /\ r = reset_zone(t, z) /\ r.ancestry = t.ancestry /\ r.zone = z
                               /\ r.tried = {} /\ r.timed_out = {}
    BY ResetTyped, Zenon
  <1>2. PICK v, u : v = [r EXCEPT !.servers = s] /\ u = [v EXCEPT !.unresolved = n]
    BY Zenon
  <1>3. v = WithServers(t, z, s) /\ u = Entered(t, z, s, n)
    BY <1>1, <1>2, Zenon DEF WithServers, Entered
  <1>4. /\ "servers" \in DOMAIN r /\ "ancestry" \in DOMAIN r /\ "zone" \in DOMAIN r
        /\ "unresolved" \in DOMAIN r /\ "tried" \in DOMAIN r /\ "timed_out" \in DOMAIN r
    BY TaskDomain, Zenon
  <1>5. /\ v.ancestry = t.ancestry /\ v.zone = z /\ v.tried = {} /\ v.timed_out = {}
        /\ v.servers = s
    BY <1>1, <1>2, <1>4
  <1>6. /\ u.ancestry = t.ancestry /\ u.zone = z /\ u.tried = {} /\ u.timed_out = {}
        /\ u.servers = s /\ u.unresolved = n
    BY <1>1, <1>2, <1>4
  <1>7. s \in SUBSET Addresses => v \in TaskState
    BY <1>2, Updated, Zenon
  <1>8. s \in SUBSET Addresses /\ n \in SUBSET Names => u \in TaskState
    BY <1>2, <1>7, Updated, Zenon
  <1>9. v.timed_out \subseteq {} /\ u.timed_out \subseteq {}
    BY <1>5, <1>6, Zenon
  <1>10. /\ s \in SUBSET Addresses => StartsOver(t, v, z)
         /\ s \in SUBSET Addresses /\ n \in SUBSET Names => StartsOver(t, u, z)
    BY <1>5, <1>6, <1>7, <1>8, <1>9, Zenon DEF StartsOver
  <1> QED BY <1>3, <1>5, <1>6, <1>10, Zenon

\* follow_cname() keeps everything but the name and the chain.
LEMMA FollowedTyped ==
  ASSUME NEW q, NEW t \in TaskState, SoundTask(q, t), CanFollow(t),
         NEW rr, SoundRR(rr), rr.type = "CNAME", rr.name = t.qname
  PROVE  LET u == Followed(t, rr) IN
         /\ u \in TaskState /\ u.ancestry = t.ancestry /\ u.zone = t.zone
         /\ u.tried = t.tried /\ u.timed_out = t.timed_out
  <1>1. PICK chain, hops, n : /\ chain = Append(t.chain, rr)
                             /\ hops = (t.hops + 1) % HopWrap
                             /\ n = rr.data
    BY Zenon
  <1>2. n \in Names /\ rr \in RR
    BY <1>1 DEF SoundRR, RR
  <1>3. t.chain \in Seq(RR) /\ t.hops \in Nat
    BY ResolverConstants DEF TaskState
  <1>4. chain \in Seq(RR)
    BY <1>1, <1>2, <1>3
  <1>5. hops \in 0..MaxCnameChain
    <2>1. hops <= MaxCnameChain
      BY <1>1, Zenon DEF CanFollow
    <2>2. MaxCnameChain \in Nat /\ HopWrap \in Nat /\ MaxCnameChain < HopWrap
      BY ResolverConstants
    <2> QED BY <1>1, <1>3, <2>1, <2>2
  <1>6. PICK u1 : u1 = [t EXCEPT !.hops = hops]
    BY Zenon
  <1>7. u1 \in TaskState
    BY <1>5, <1>6, Zenon DEF TaskState
  <1>8. PICK u2 : u2 = [u1 EXCEPT !.chain = chain]
    BY Zenon
  <1>9. u2 \in TaskState
    BY <1>4, <1>7, <1>8, Zenon DEF TaskState
  <1>10. PICK u : u = [u2 EXCEPT !.qname = n]
    BY Zenon
  <1>11. u \in TaskState
    BY <1>2, <1>9, <1>10, Zenon DEF TaskState
  <1>12. u = [[[t EXCEPT !.hops = hops] EXCEPT !.chain = chain] EXCEPT !.qname = n]
    BY <1>6, <1>8, <1>10, Zenon
  <1>13. u = Followed(t, rr)
    BY <1>1, <1>12, Zenon DEF Followed
  <1>14. u.ancestry = t.ancestry /\ u.zone = t.zone /\ u.tried = t.tried /\ u.timed_out = t.timed_out
    <2>1. /\ "hops" \in DOMAIN t /\ "chain" \in DOMAIN t /\ "qname" \in DOMAIN t
          /\ "ancestry" \in DOMAIN t /\ "zone" \in DOMAIN t
          /\ "tried" \in DOMAIN t /\ "timed_out" \in DOMAIN t
      BY TaskDomain, Zenon
    <2> QED BY <1>12, <2>1
  <1> QED BY <1>11, <1>13, <1>14, Zenon

----------------------------------------------------------------------------
(* One task's turn *)

\* The server in hand is one of the task's and has not timed out, and one that was
\* asked before counts as tried.
InHandOf(t, a) ==
  a.fn \in {"send_query", "handle_response"} =>
    /\ a.server \in t.servers /\ a.server \notin t.timed_out
    /\ a.tcp \/ a.fn = "handle_response" => a.server \in t.tried

\* A task's state has its type, and a server was tried before it timed out.
Orderly(t) == t \in TaskState /\ t.timed_out \subseteq t.tried

\* Servers leave `tried` only with their timeouts, or with the zone.
TriedKept(t, u) == u.zone = t.zone => \A s \in t.tried \ u.tried : s \in t.timed_out

\* A task in state t at place a goes on in state u at place b.
Turn(t, a, u, b) ==
  /\ Orderly(u) /\ u.ancestry = t.ancestry
  /\ a.fn = "step" \/ TriedKept(t, u)
  /\ b \in Steps /\ b.fn # "none" /\ InHandOf(u, b)

\* Task i ends, or goes on.
Goes(i) ==
  \/ \E o : End(i, o) /\ res' = res
  \/ \E u, b : Continue(i, u, b) /\ Turn(res[i], at, u, b)

\* The places that hold no server.
LEMMA PlacesTyped ==
  /\ At("step") \in Steps /\ At("step").fn # "none"
  /\ At("next_server") \in Steps /\ At("next_server").fn # "none"
  /\ Nowhere \in Steps /\ Nowhere.fn = "none"
  /\ \A t : InHandOf(t, At("step")) /\ InHandOf(t, At("next_server")) /\ InHandOf(t, Nowhere)
  /\ \A t, m, f : InHandOf(t, AtAnswers(m, f)) /\ AtAnswers(m, f).fn # "none"
  <1>1. /\ At("step") \in Steps /\ At("next_server") \in Steps /\ Nowhere \in Steps
    BY DEF At, Nowhere, Steps
  <1>2. /\ At("step").fn = "step" /\ At("next_server").fn = "next_server" /\ Nowhere.fn = "none"
        /\ \A m, f : AtAnswers(m, f).fn = "answers"
    BY DEF At, Nowhere, AtAnswers
  <1>3. \A t, a : a.fn \in {"step", "next_server", "none", "answers"} => InHandOf(t, a)
    BY DEF InHandOf
  <1> QED BY <1>1, <1>2, <1>3

\* The place with the believed part of a message in hand.
LEMMA AnswersPlace ==
  ASSUME NEW m \in Messages, NEW z \in Names, NEW f \in BOOLEAN
  PROVE  AtAnswers(filter_to_bailiwick(m, z), f) \in Steps
  <1>1. PICK a : a = AtAnswers(filter_to_bailiwick(m, z), f)
    BY Zenon
  <1>2. a \in Steps
    BY <1>1, SMTT(20) DEF Steps
  <1> QED BY <1>1, <1>2, Zenon

\* A task that stays as it is, and goes on without a server in hand.
LEMMA TurnSame ==
  ASSUME NEW t, Orderly(t), NEW a, NEW b, b \in Steps, b.fn # "none", InHandOf(t, b)
  PROVE  Turn(t, a, t, b)
  BY DEF Turn, TriedKept

\* step() follows an alias.
LEMMA FollowsTurn ==
  ASSUME TasksInv, ResolutionSound, NEW i \in TaskIds, Orderly(res[i]), StepFollows(i)
  PROVE  Goes(i)
  <1>1. Running(i) /\ i \in live /\ at.fn = "step"
    BY Zenon DEF StepFollows
  <1>2. SoundTask(question[i], res[i])
    BY <1>1, Zenon DEF ResolutionSound, TasksSound
  <1>3. PICK rr \in CachedCname(i) :
          IF CanFollow(res[i])
            THEN Continue(i, Followed(res[i], rr), At("step"))
            ELSE End(i, Failure("MaxCnameChainExceeded")) /\ UNCHANGED res
    BY Zenon DEF StepFollows
  <1>4. SoundRR(rr) /\ rr.type = "CNAME" /\ rr.name = res[i].qname
    BY <1>1, CacheAnswersSound, Zenon
  <1>5. CASE CanFollow(res[i])
    <2>1. PICK u : u = Followed(res[i], rr)
      BY Zenon
    <2>2. u \in TaskState /\ u.ancestry = res[i].ancestry /\ u.tried = res[i].tried
          /\ u.timed_out = res[i].timed_out
      BY <1>2, <1>4, <1>5, <2>1, FollowedTyped, Zenon DEF Orderly
    <2>3. Turn(res[i], at, u, At("step"))
      BY <1>1, <2>2, PlacesTyped, Zenon DEF Turn, Orderly
    <2> QED BY <1>3, <1>5, <2>1, <2>3, Zenon DEF Goes
  <1> QED BY <1>3, <1>5, Zenon DEF Goes

\* A zone is entered with sound servers and names.
LEMMA EnterTurn ==
  ASSUME NEW q, NEW t, NEW v \in TaskState, v.ancestry = t.ancestry, NEW z \in Names, NEW a,
         NEW s, NEW n, NEW u, SoundTask(q, u), u = WithServers(v, z, s) \/ u = Entered(v, z, s, n),
         a.fn = "step" \/ z # t.zone
  PROVE  Turn(t, a, u, At("next_server"))
  <1>1. StartsOver(v, u, z)
    <2>1. u.servers \in SUBSET Addresses /\ u.unresolved \in SUBSET Names
      BY AskedIsName DEF SoundTask
    <2>2. CASE u = WithServers(v, z, s)
      BY <2>1, <2>2, EnteredTyped, Zenon
    <2>3. CASE u = Entered(v, z, s, n)
      BY <2>1, <2>3, EnteredTyped, Zenon
    <2> QED BY <2>2, <2>3
  <1>2. u.timed_out \subseteq u.tried
    BY <1>1, Zenon DEF StartsOver
  <1> QED BY <1>1, <1>2, PlacesTyped, Zenon DEF Turn, Orderly, TriedKept, StartsOver

\* step() goes to the closest zone.
LEMMA StartsTurn ==
  ASSUME TasksInv, ResolutionSound, NEW i \in TaskIds, Orderly(res[i]), StepStarts(i)
  PROVE  Goes(i)
  <1>1. Running(i) /\ i \in live /\ at.fn = "step"
    BY Zenon DEF StepStarts
  <1>2. SoundTask(question[i], res[i]) /\ CacheSound
    BY <1>1, Zenon DEF ResolutionSound, TasksSound
  <1>3. PICK t, u : t = res[i] /\ u = start_at_closest_zone(t)
    BY Zenon
  <1>4. Continue(i, u, At("next_server")) /\ SoundTask(question[i], u)
    BY <1>2, <1>3, StartSound, Zenon DEF StepStarts
  <1>5. PICK z, s, n : u = WithServers(t, z, s) \/ u = Entered(t, z, s, n)
    <2>1. PICK z, s, n : \/ u = [reset_zone(t, z) EXCEPT !.servers = s, !.unresolved = n]
                         \/ u = [reset_zone(t, z) EXCEPT !.servers = s]
      BY <1>3, ZenonT(30) DEF start_at_closest_zone, enter_zone
    <2> QED BY <2>1, Zenon DEF WithServers, Entered
  <1>6. z \in Names
    <2>1. u.zone = z
      <3>1. /\ {"zone", "servers", "unresolved"} \subseteq DOMAIN reset_zone(t, z)
            /\ reset_zone(t, z).zone = z
        BY <1>2, <1>3 DEF SoundTask, reset_zone
      <3>2. PICK r : r = reset_zone(t, z)
        BY Zenon
      <3>3. u = [r EXCEPT !.servers = s] \/ u = [r EXCEPT !.servers = s, !.unresolved = n]
        BY <1>5, <3>2, Zenon DEF WithServers, Entered
      <3>4. {"zone", "servers", "unresolved"} \subseteq DOMAIN r /\ r.zone = z
        BY <3>1, <3>2, Zenon
      <3> QED BY <3>3, <3>4, Zenon
    <2>2. u.zone \in Above[u.qname] /\ u.qname \in Names
      BY <1>2, <1>3, <1>4, StartInZone, Zenon DEF InZone, IsSubdomainOf, SoundTask
    <2>3. Above[u.qname] \subseteq Names
      BY <2>2, ResolverConstants
    <2> QED BY <2>1, <2>2, <2>3, Zenon
  <1>7. t \in TaskState
    BY <1>3, Zenon DEF Orderly
  <1>8. Turn(t, at, u, At("next_server"))
    BY <1>1, <1>4, <1>5, <1>6, <1>7, EnterTurn, Zenon
  <1> QED BY <1>3, <1>4, <1>8, Zenon DEF Goes

\* next_server() picks a server not tried yet.
LEMMA PickTurn ==
  ASSUME NEW i \in TaskIds, Orderly(res[i]), PickServer(i)
  PROVE  Goes(i)
  <1>1. PICK s \in res[i].servers : s \notin res[i].tried /\ Continue(i, res[i], AtSend(s, FALSE))
    BY Zenon DEF PickServer, Untried
  <1>2. s \in Addresses /\ s \notin res[i].timed_out
    <2>1. res[i].servers \in SUBSET Addresses
      BY TaskFields, Zenon DEF Orderly
    <2> QED BY <1>1, <2>1, Zenon DEF Orderly
  <1>3. AtSend(s, FALSE) \in Steps /\ AtSend(s, FALSE).fn # "none" /\ InHandOf(res[i], AtSend(s, FALSE))
    BY <1>1, <1>2 DEF AtSend, Steps, InHandOf
  <1> QED BY <1>1, <1>3, TurnSame, Zenon DEF Goes

\* A field changes that is neither the ancestry, the zone nor the servers tried.
LEMMA TakenTurn ==
  ASSUME NEW t, Orderly(t), NEW n, NEW a
  PROVE  /\ Turn(t, a, Taken(t, n), At("next_server"))
         /\ Taken(t, n).qname = t.qname /\ Taken(t, n).glueless_lookups = t.glueless_lookups
  <1>1. PICK x : x = t.unresolved \ {n}
    BY Zenon
  <1>2. t \in TaskState /\ t.timed_out \subseteq t.tried
    BY Zenon DEF Orderly
  <1>3. x \in SUBSET Names
    BY <1>1, <1>2, TaskFields
  <1>4. PICK u \in TaskState : u = [t EXCEPT !.unresolved = x]
    BY <1>2, <1>3, Updated, Zenon
  <1>5. /\ "qname" \in DOMAIN t /\ "ancestry" \in DOMAIN t /\ "zone" \in DOMAIN t
        /\ "tried" \in DOMAIN t /\ "timed_out" \in DOMAIN t /\ "glueless_lookups" \in DOMAIN t
    BY <1>2, TaskDomain, Zenon
  <1>6. /\ u.ancestry = t.ancestry /\ u.tried = t.tried /\ u.timed_out = t.timed_out
        /\ u.qname = t.qname /\ u.glueless_lookups = t.glueless_lookups
    BY <1>4, <1>5
  <1>7. u = Taken(t, n)
    BY <1>1, <1>4, Zenon DEF Taken
  <1>8. Turn(t, a, u, At("next_server"))
    BY <1>2, <1>4, <1>6, PlacesTyped, Zenon DEF Turn, Orderly, TriedKept
  <1> QED BY <1>6, <1>7, <1>8, Zenon

\* Another round for the servers that timed out, and for no others.
LEMMA RetryTurn ==
  ASSUME NEW i \in TaskIds, Orderly(res[i]), RetryTimedOut(i)
  PROVE  Goes(i)
  <1>1. PICK t : t = res[i] /\ Continue(i, AnotherRound(t), At("next_server"))
    BY Zenon DEF RetryTimedOut
  <1>2. t \in TaskState /\ t.timed_out \subseteq t.tried /\ t.retry_rounds < kMaxRetryRounds
    BY <1>1, Zenon DEF RetryTimedOut, MayRetry, Orderly
  <1>3. PICK k, x : k = t.retry_rounds + 1 /\ x = t.tried \ t.timed_out
    BY Zenon
  <1>4. k \in 0..kMaxRetryRounds
    <2>1. t.retry_rounds \in Nat /\ kMaxRetryRounds \in Nat
      BY <1>2, TaskFields, ResolverConstants
    <2> QED BY <1>2, <1>3, <2>1
  <1>5. x \in SUBSET Addresses /\ {} \in SUBSET Addresses
    BY <1>2, <1>3, TaskFields
  <1>6. PICK u1 \in TaskState : u1 = [t EXCEPT !.retry_rounds = k]
    BY <1>2, <1>4, Updated, Zenon
  <1>7. PICK u2 \in TaskState : u2 = [u1 EXCEPT !.tried = x]
    BY <1>5, Updated, Zenon
  <1>8. PICK u \in TaskState : u = [u2 EXCEPT !.timed_out = {}]
    BY <1>5, Updated, Zenon
  <1>9. u = AnotherRound(t)
    BY <1>3, <1>6, <1>7, <1>8, Zenon DEF AnotherRound
  <1>10. u.ancestry = t.ancestry /\ u.tried = x /\ u.timed_out = {}
    <2>1. "ancestry" \in DOMAIN t /\ "tried" \in DOMAIN t /\ "timed_out" \in DOMAIN t
      BY <1>2, TaskDomain, Zenon
    <2> QED BY <1>6, <1>7, <1>8, <2>1
  <1>11. u.timed_out \subseteq u.tried /\ \A s \in t.tried \ u.tried : s \in t.timed_out
    BY <1>3, <1>10, Zenon
  <1>12. Turn(t, at, u, At("next_server"))
    BY <1>10, <1>11, PlacesTyped, Zenon DEF Turn, Orderly, TriedKept
  <1> QED BY <1>1, <1>9, <1>12, Zenon DEF Goes

\* The zone a task asks about its name is a name.
LEMMA ZoneIsName ==
  ASSUME NEW q, NEW t, SoundTask(q, t), InZone(t) PROVE t.zone \in Names
  <1>1. t.qname \in Names /\ t.zone \in Above[t.qname]
    BY Zenon DEF SoundTask, InZone, IsSubdomainOf
  <1>2. Above[t.qname] \subseteq Names
    BY <1>1, ResolverConstants
  <1> QED BY <1>1, <1>2, Zenon

\* handle_response(): the same server over TCP, another one, or what the reply says.
LEMMA ResponseTurn ==
  ASSUME ResolutionSound, TasksInZone, NEW i \in TaskIds, Orderly(res[i]),
         InHandOf(res[i], at), HandleResponse(i)
  PROVE  Goes(i)
  <1>1. Running(i) /\ i \in live /\ at.fn = "handle_response"
    BY Zenon DEF HandleResponse
  <1>2. SoundTask(question[i], res[i]) /\ InZone(res[i])
    BY <1>1, TasksInZoneUnfolded, Zenon DEF ResolutionSound, TasksSound, Asks, InHand
  <1>3. at.server \in Addresses /\ at.msg \in Messages /\ res[i].zone \in Names
    BY <1>1, <1>2, ZoneIsName, Zenon DEF ResolutionSound, SoundStep
  <1>4. at.server \in res[i].servers /\ at.server \notin res[i].timed_out /\ at.server \in res[i].tried
    BY <1>1, Zenon DEF InHandOf
  <1>5. PICK next : at' = next
    BY Zenon
  <1>6. Continue(i, res[i], next)
    BY <1>5, Zenon DEF HandleResponse, Continue
  <1>7. \/ next = At("next_server") \/ next = AtSend(at.server, TRUE)
        \/ next = AtAnswers(filter_to_bailiwick(at.msg, res[i].zone), FALSE)
    BY <1>5, Zenon DEF HandleResponse, Continue
  <1>8. next \in Steps /\ next.fn # "none" /\ InHandOf(res[i], next)
    <2>1. CASE next = At("next_server")
      BY <2>1, PlacesTyped, Zenon
    <2>2. CASE next = AtSend(at.server, TRUE)
      BY <1>3, <1>4, <2>2 DEF AtSend, Steps, InHandOf
    <2>3. CASE next = AtAnswers(filter_to_bailiwick(at.msg, res[i].zone), FALSE)
      <3>1. next \in Steps
        BY <1>3, <2>3, AnswersPlace, Zenon
      <3> QED BY <2>3, <3>1, PlacesTyped, Zenon
    <2> QED BY <1>7, <2>1, <2>2, <2>3, Zenon
  <1> QED BY <1>6, <1>8, TurnSame, Zenon DEF Goes

\* handle_response() follows a CNAME of the reply, to another name of the reply or to
\* the start; or it has no use for the reply.
LEMMA CnameTurn ==
  ASSUME TasksInv, ResolutionSound, NEW i \in TaskIds, Orderly(res[i]), at \in Steps,
         HandleCname(i) \/ HandleChainEnd(i) \/ HandleLame(i)
  PROVE  Goes(i)
  <1>1. AtAnswersOf(i)
    BY Zenon DEF HandleCname, HandleChainEnd, HandleLame, NothingAnswered
  <1>2. CASE HandleChainEnd(i) \/ HandleLame(i)
    <2>1. Continue(i, res[i], At("step")) \/ Continue(i, res[i], At("next_server"))
      BY <1>2, Zenon DEF HandleChainEnd, HandleLame
    <2> QED BY <2>1, TurnSame, PlacesTyped, Zenon DEF Goes
  <1>3. CASE HandleCname(i)
    <2>1. PICK rr \in Cnames(i) :
            \/ CanFollow(res[i]) /\ Continue(i, Followed(res[i], rr), AtAnswers(at.msg, TRUE))
            \/ End(i, Failure("MaxCnameChainExceeded")) /\ res' = res
      BY <1>3, Zenon DEF HandleCname
    <2>2. CASE CanFollow(res[i]) /\ Continue(i, Followed(res[i], rr), AtAnswers(at.msg, TRUE))
      <3>1. SoundRR(rr) /\ rr.type = "CNAME" /\ rr.name = res[i].qname
        BY <1>1, <2>1, AnswersFacts, Zenon
      <3>2. SoundTask(question[i], res[i])
        BY <1>1, AnswersFacts, Zenon
      <3>3. PICK t, u : t = res[i] /\ u = Followed(t, rr)
        BY Zenon
      <3>4. t \in TaskState /\ t.timed_out \subseteq t.tried
        BY <3>3, Zenon DEF Orderly
      <3>5. /\ u \in TaskState /\ u.ancestry = t.ancestry /\ u.zone = t.zone
            /\ u.tried = t.tried /\ u.timed_out = t.timed_out
        BY <2>2, <3>1, <3>2, <3>3, <3>4, FollowedTyped, Zenon
      <3>6. AtAnswers(at.msg, TRUE) \in Steps
        <4>1. at.fn = "answers"
          BY <1>1, Zenon DEF AtAnswersOf
        <4>2. PICK m \in Messages, z \in Names, f \in BOOLEAN : at = AtAnswers(filter_to_bailiwick(m, z), f)
          BY <4>1 DEF Steps
        <4>3. at.msg = filter_to_bailiwick(m, z)
          BY <4>2 DEF AtAnswers
        <4>4. TRUE \in BOOLEAN
          OBVIOUS
        <4> QED BY <4>2, <4>3, <4>4, AnswersPlace, Zenon
      <3>7. Turn(t, at, u, AtAnswers(at.msg, TRUE))
        BY <3>4, <3>5, <3>6, PlacesTyped, Zenon DEF Turn, Orderly, TriedKept
      <3> QED BY <2>2, <3>3, <3>7, Zenon DEF Goes
    <2> QED BY <2>1, <2>2, Zenon DEF Goes
  <1> QED BY <1>2, <1>3

\* A referral leads to another zone, where nobody was asked yet.
LEMMA ReferralTurn ==
  ASSUME TasksInv, ResolutionSound, ResolutionSound', BelievedInZone, NEW i \in TaskIds,
         Orderly(res[i]), HandleReferral(i)
  PROVE  Goes(i)
  <1>1. Running(i) /\ i \in live /\ at.fn = "answers" /\ ~at.followed
    BY Zenon DEF HandleReferral, NothingAnswered, AtAnswersOf
  <1>2. SoundTask(question[i], res[i]) /\ DOMAIN res = TaskIds /\ InZone(res[i])
    BY <1>1, Zenon DEF ResolutionSound, TasksSound, BelievedInZone
  <1>3. PICK t, v : t = res[i] /\ v = [t EXCEPT !.referrals = @ + 1]
    BY Zenon
  <1>4. PICK owner, names, glue :
          \/ Continue(i, t, At("next_server"))
          \/ End(i, Failure("MaxDepthExceeded")) /\ res' = res
          \/ /\ Downward(i, owner) /\ ~(v.referrals > MaxReferralDepth)
             /\ Continue(i, enter_zone(v, owner, names, glue, cache'), At("next_server"))
    BY <1>3, ZenonT(30) DEF HandleReferral
  <1>5. CASE Continue(i, t, At("next_server"))
    BY <1>3, <1>5, TurnSame, PlacesTyped, Zenon DEF Goes
  <1>6. CASE /\ Downward(i, owner) /\ ~(v.referrals > MaxReferralDepth)
             /\ Continue(i, enter_zone(v, owner, names, glue, cache'), At("next_server"))
    <2>1. t \in TaskState
      BY <1>3, Zenon DEF Orderly
    <2>2. v \in TaskState /\ v.ancestry = t.ancestry
      <3>1. PICK k : k = t.referrals + 1 /\ v = [t EXCEPT !.referrals = k]
        BY <1>3, Zenon
      <3>2. "referrals" \in DOMAIN t /\ "ancestry" \in DOMAIN t /\ t.referrals \in Nat
        BY <2>1, TaskDomain, TaskFields, Zenon
      <3>3. v.referrals = k /\ v.ancestry = t.ancestry
        BY <3>1, <3>2
      <3>4. k \in 0..MaxReferralDepth
        <4>1. MaxReferralDepth \in Nat
          BY ResolverConstants
        <4> QED BY <1>6, <3>1, <3>2, <3>3, <4>1
      <3> QED BY <2>1, <3>1, <3>3, <3>4, Updated, Zenon
    <2>3. PICK s, n, u : /\ u = Entered(v, owner, s, n)
                         /\ Continue(i, u, At("next_server"))
      BY <1>6, Zenon DEF enter_zone, Entered
    <2>4. owner \in Names
      <3>1. owner \in Above[t.qname] /\ t.qname \in Names
        BY <1>2, <1>3, <1>6, Zenon DEF Downward, IsSubdomainOf, SoundTask
      <3>2. Above[t.qname] \subseteq Names
        BY <3>1, ResolverConstants
      <3> QED BY <3>1, <3>2, Zenon
    <2>5. owner # t.zone
      <3>1. LabelCount(owner) \in Nat
        BY <2>4, LabelsCounted, Zenon DEF LabelCount
      <3>2. LabelCount(owner) > LabelCount(t.zone)
        BY <1>3, <1>6, Zenon DEF Downward
      <3> QED BY <3>1, <3>2
    <2>6. SoundTask(question[i], u)
      <3>1. res' = [res EXCEPT ![i] = u] /\ live' = live /\ question' = question
        BY <2>3, Zenon DEF Continue, taskVars
      <3>2. res'[i] = u
        BY <1>2, <3>1
      <3> QED BY <1>1, <3>1, <3>2, Zenon DEF ResolutionSound, TasksSound
    <2>7. Turn(t, at, u, At("next_server"))
      BY <2>2, <2>3, <2>4, <2>5, <2>6, EnterTurn, Zenon
    <2> QED BY <1>3, <2>3, <2>7, Zenon DEF Goes
  <1> QED BY <1>4, <1>5, <1>6, Zenon DEF Goes

----------------------------------------------------------------------------
(* What all tasks keep *)

TasksOrderly ==
  /\ res \in [TaskIds -> TaskState \cup {None}]
  /\ \A i \in live : Orderly(res[i])
  /\ \A i \in TaskIds \ live : res[i] = None

\* The place in the code, and the server in hand there.
PlaceKept ==
  /\ at \in Steps /\ (at.fn # "none" <=> call.fn = "run")
  /\ call.fn = "run" => InHandOf(res[call.id], at)

\* What QueryIsCurrent says of a query m of a task t, but for the stub zones.
Current(t, ty, m) ==
  /\ m.qname = t.qname /\ m.qtype = ty
  /\ m.server \in t.servers /\ m.server \in t.tried /\ m.server \notin t.timed_out
  /\ m.x20 => ~m.tcp

PendingCurrent == \A e \in pending : Current(res[e[1]], question[e[1]].qtype, e[2])

\* What AncestryCurrent says of a task.
Nested(j) ==
  /\ parent[j] \in live => res[j].ancestry = Append(res[parent[j]].ancestry, Working(parent[j]))
  /\ \A k \in DOMAIN res[j].ancestry : res[j].ancestry[k] # question[j]
  /\ Len(res[j].ancestry) <= kMaxSubqueryDepth

TasksNested == \A j \in live : Nested(j)

\* Tasks whose state stays, or that end.
LEMMA OrderlyStays ==
  ASSUME TasksOrderly, live' \subseteq live, res' \in [TaskIds -> TaskState \cup {None}],
         \A j \in live' : Orderly(res'[j]) \/ res'[j] = res[j],
         \A j \in TaskIds \ live' : res'[j] = None
  PROVE  TasksOrderly'
  <1>1. \A j \in live' : Orderly(res'[j])
    BY Zenon DEF TasksOrderly
  <1> QED BY <1>1, Zenon DEF TasksOrderly, Orderly

\* One task's state changes.
LEMMA OneChanges ==
  ASSUME TasksInv, TasksOrderly, NEW i \in live, NEW u, Orderly(u), live' = live,
         res' = [res EXCEPT ![i] = u]
  PROVE  TasksOrderly' /\ res'[i] = u /\ \A j \in live : j # i => res'[j] = res[j]
  <1>1. i \in TaskIds /\ live \subseteq TaskIds
    BY Zenon DEF TasksInv, TasksTypeOK
  <1>2. res \in [TaskIds -> TaskState \cup {None}] /\ u \in TaskState
    BY Zenon DEF TasksOrderly, Orderly
  <1>3. /\ res' \in [TaskIds -> TaskState \cup {None}]
        /\ res'[i] = u /\ \A j \in TaskIds : j # i => res'[j] = res[j]
    BY <1>1, <1>2
  <1>4. \A j \in live' : Orderly(res'[j]) \/ res'[j] = res[j]
    BY <1>1, <1>3, Zenon
  <1>5. \A j \in TaskIds \ live' : res'[j] = None
    BY <1>3, Zenon DEF TasksOrderly
  <1>6. TasksOrderly'
    BY <1>3, <1>4, <1>5, OrderlyStays, Zenon
  <1> QED BY <1>1, <1>3, <1>6, Zenon

\* Queries whose tasks stay as they are.
LEMMA PendingStays ==
  ASSUME PendingCurrent,
         \A e \in pending' : /\ e \in pending /\ res'[e[1]] = res[e[1]]
                             /\ question'[e[1]] = question[e[1]]
  PROVE  PendingCurrent'
  BY Zenon DEF PendingCurrent, Current

\* A task that stays on its question, and its parent on its own.
LEMMA NestedTask ==
  ASSUME NEW j, Nested(j), question'[j] = question[j], parent'[j] = parent[j],
         res'[j].ancestry = res[j].ancestry,
         parent[j] \in live' => /\ parent[j] \in live
                                /\ question'[parent[j]] = question[parent[j]]
                                /\ res'[parent[j]].qname = res[parent[j]].qname
                                /\ res'[parent[j]].ancestry = res[parent[j]].ancestry
  PROVE  Nested(j)'
  <1>1. PICK p : p = parent[j] /\ p = parent'[j]
    BY Zenon
  <1>2. ASSUME p \in live' PROVE res'[j].ancestry = Append(res'[p].ancestry, Working(p)')
    <2>1. Working(p)' = Working(p)
      BY <1>1, <1>2, Zenon DEF Working
    <2>2. res[j].ancestry = Append(res[p].ancestry, Working(p))
      BY <1>1, <1>2, Zenon DEF Nested
    <2>3. res'[p].ancestry = res[p].ancestry
      BY <1>1, <1>2, Zenon
    <2> QED BY <2>1, <2>2, <2>3, Zenon
  <1>3. p \in live' => res'[j].ancestry = Append(res'[parent'[j]].ancestry, Working(parent[j])')
    BY <1>1, <1>2, Zenon
  <1>4. (\A k \in DOMAIN res'[j].ancestry : res'[j].ancestry[k] # question'[j])
        /\ Len(res'[j].ancestry) <= kMaxSubqueryDepth
    BY Zenon DEF Nested
  <1> QED BY <1>1, <1>3, <1>4, Zenon DEF Nested

\* Tasks that stay on their questions, and their parents on theirs.
LEMMA NestedStays ==
  ASSUME TasksNested, live' \subseteq live,
         \A j \in live' : /\ question'[j] = question[j] /\ parent'[j] = parent[j]
                          /\ res'[j].ancestry = res[j].ancestry,
         \A j \in live' : parent[j] \in live' => res'[parent[j]].qname = res[parent[j]].qname
  PROVE  TasksNested'
  <1>1. ASSUME NEW j \in live' PROVE Nested(j)'
    <2>1. Nested(j)
      BY Zenon DEF TasksNested
    <2> QED BY <2>1, NestedTask, Zenon
  <1> QED BY <1>1, Zenon DEF TasksNested, Nested, Working

\* The inductive invariant, next to those of ResolverProofs and ResolverAnswersProofs.
Walk == TasksOrderly /\ PlaceKept /\ PendingCurrent /\ TasksNested

\* A task that waits for no live sub-query is nobody's parent.
LEMMA Childless ==
  ASSUME TasksInv, NEW i \in live, child[i] \notin live, call.fn # "cancel"
  PROVE  \A j \in live : parent[j] # i
  <1>1. i # None
    BY TaskConstants, Zenon DEF TasksInv, TasksTypeOK
  <1>2. \A j \in live : parent[j] # None => child[parent[j]] = j \/ InHand("cancel", j)
    BY Zenon DEF TasksInv, FamiliesLinked
  <1>3. \A j : ~InHand("cancel", j)
    BY Zenon DEF InHand
  <1> QED BY <1>1, <1>2, <1>3, Zenon

\* Queries are those the tasks wait for.
LEMMA QueryOwner ==
  ASSUME TasksInv, NEW e \in pending
  PROVE  e[1] \in live /\ upstream[e[1]] = e[2] /\ e[2] \in Queries /\ upstream[e[1]] # None
  <1>1. e = <<e[1], e[2]>> /\ e[1] \in TaskIds /\ e[2] \in Queries
    BY DEF TasksInv, TasksTypeOK
  <1>2. PICK i \in TaskIds, m \in Queries : i = e[1] /\ m = e[2]
    BY <1>1, Zenon
  <1>3. \A j \in TaskIds, n \in Queries : <<j, n>> \in pending => j \in live /\ upstream[j] = n
    BY Zenon DEF TasksInv, NothingDangles
  <1>4. <<i, m>> \in pending
    BY <1>1, <1>2, Zenon
  <1>5. i \in live /\ upstream[i] = m
    BY <1>3, <1>4, Zenon
  <1>6. m # None
    BY TaskConstants, Zenon
  <1> QED BY <1>2, <1>5, <1>6, Zenon

\* A task that ends leaves the others and their queries alone.
LEMMA EndKeeps ==
  ASSUME TasksInv, Walk, NEW i, NEW o, End(i, o), res' = res PROVE Walk'
  <1>1. /\ call' = [fn |-> "finish", id |-> i, top |-> None] /\ at' = Nowhere
        /\ live' = live /\ question' = question /\ parent' = parent /\ pending' = pending
    BY Zenon DEF End, GoFinish
  <1>2. call'.fn # "run"
    BY <1>1
  <1>3. PlaceKept'
    BY <1>1, <1>2, PlacesTyped, Zenon DEF PlaceKept
  <1>4. TasksOrderly'
    BY <1>1, Zenon DEF Walk, TasksOrderly
  <1>5. PendingCurrent' /\ TasksNested'
    BY <1>1, PendingStays, NestedStays, Zenon DEF Walk
  <1> QED BY <1>3, <1>4, <1>5, Zenon DEF Walk

\* A task that goes on does, too: it is waiting for nothing, and nobody's parent.
LEMMA GoesKeeps ==
  ASSUME TasksInv, Walk, NEW i \in TaskIds, Running(i), Goes(i) PROVE Walk'
  <1>1. i \in live /\ call.fn = "run" /\ call.id = i /\ live \subseteq TaskIds
    BY Zenon DEF TasksInv, TasksTypeOK
  <1>2. ASSUME NEW u, NEW b, Continue(i, u, b), Turn(res[i], at, u, b) PROVE Walk'
    <2>1. /\ call' = call /\ live' = live /\ question' = question /\ parent' = parent
          /\ pending' = pending /\ at' = b /\ res' = [res EXCEPT ![i] = u]
      BY <1>2, Zenon DEF Continue, taskVars
    <2>2. TasksOrderly' /\ res'[i] = u /\ \A j \in live : j # i => res'[j] = res[j]
      BY <1>1, <1>2, <2>1, OneChanges, Zenon DEF Turn, Walk
    <2>3. PlaceKept'
      BY <1>1, <1>2, <2>1, <2>2, Zenon DEF PlaceKept, Turn
    <2>4. upstream[i] = None /\ child[i] = None /\ None \notin live
      BY <1>1, RunsWaitsNot, TaskConstants, Zenon
    <2>5. PendingCurrent'
      <3>1. \A e \in pending : e[1] \in live /\ e[1] # i
        BY <2>4, QueryOwner, Zenon
      <3> QED BY <2>1, <2>2, <3>1, PendingStays, Zenon DEF Walk
    <2>6. \A j \in live : parent[j] # i
      <3>1. call.fn # "cancel"
        BY <1>1
      <3> QED BY <1>1, <2>4, <3>1, Childless, Zenon
    <2>7. TasksNested'
      <3>1. \A j \in live' : res'[j].ancestry = res[j].ancestry
        BY <1>2, <2>1, <2>2, Zenon DEF Turn
      <3>2. \A j \in live' : parent[j] \in live' => res'[parent[j]].qname = res[parent[j]].qname
        BY <2>1, <2>2, <2>6, Zenon
      <3> QED BY <2>1, <3>1, <3>2, NestedStays, Zenon DEF Walk
    <2> QED BY <2>2, <2>3, <2>5, <2>7, Zenon DEF Walk
  <1> QED BY <1>2, EndKeeps, Zenon DEF Goes

\* send_query(): the server asked is one of the task's, and counts as tried.
LEMMA SendKeeps ==
  ASSUME TasksInv, ResolutionSound, Walk, NEW i \in TaskIds, SendQuery(i) PROVE Walk'
  <1>1. /\ i \in live /\ call.fn = "run" /\ call.id = i /\ at.fn = "send_query"
        /\ live \subseteq TaskIds
    BY Zenon DEF SendQuery, TasksInv, TasksTypeOK
  <1>2. PICK t, m, x : /\ t = res[i]
                       /\ m = [server |-> at.server, tcp |-> at.tcp, x20 |-> MixCase(at.server, at.tcp),
                               qname |-> res[i].qname, qtype |-> question[i].qtype]
                       /\ x = IF at.tcp THEN t.tried ELSE t.tried \cup {at.server}
    BY Zenon
  <1>3. \/ End(i, Failure("MaxQueriesExceeded")) /\ res' = res
        \/ /\ pending' = pending \cup {<<i, m>>}
           /\ call' = [fn |-> "idle", id |-> None, top |-> None]
           /\ live' = live /\ question' = question /\ parent' = parent /\ at' = Nowhere
           /\ res' = [res EXCEPT ![i] = [t EXCEPT !.tried = x]]
    BY <1>2, Zenon DEF SendQuery, send_query
  <1>4. CASE /\ pending' = pending \cup {<<i, m>>}
             /\ call' = [fn |-> "idle", id |-> None, top |-> None]
             /\ live' = live /\ question' = question /\ parent' = parent /\ at' = Nowhere
             /\ res' = [res EXCEPT ![i] = [t EXCEPT !.tried = x]]
    <2>1. t \in TaskState /\ t.timed_out \subseteq t.tried /\ InHandOf(t, at)
      BY <1>1, <1>2, Zenon DEF Walk, TasksOrderly, Orderly, PlaceKept
    <2>2. /\ at.server \in t.servers /\ at.server \notin t.timed_out
          /\ at.tcp => at.server \in t.tried
      BY <1>1, <2>1, Zenon DEF InHandOf
    <2>3. at.server \in Addresses /\ at.tcp \in BOOLEAN
      BY <1>1, Zenon DEF ResolutionSound, SoundStep
    <2>4. at.server \in x /\ t.timed_out \subseteq x /\ x \in SUBSET Addresses
      <3>1. t.tried \in SUBSET Addresses
        BY <2>1, TaskFields, Zenon
      <3> QED BY <1>2, <2>1, <2>2, <2>3, <3>1
    <2>5. PICK u \in TaskState : u = [t EXCEPT !.tried = x]
      BY <2>1, <2>4, Updated, Zenon
    <2>6. /\ u.ancestry = t.ancestry /\ u.qname = t.qname /\ u.servers = t.servers
          /\ u.tried = x /\ u.timed_out = t.timed_out
      <3>1. /\ "ancestry" \in DOMAIN t /\ "qname" \in DOMAIN t /\ "servers" \in DOMAIN t
            /\ "tried" \in DOMAIN t /\ "timed_out" \in DOMAIN t
        BY <2>1, TaskDomain, Zenon
      <3> QED BY <2>5, <3>1
    <2>7. TasksOrderly' /\ res'[i] = u /\ \A j \in live : j # i => res'[j] = res[j]
      <3>1. Orderly(u) /\ res' = [res EXCEPT ![i] = u]
        BY <1>4, <2>4, <2>5, <2>6, Zenon DEF Orderly
      <3> QED BY <1>1, <1>4, <3>1, OneChanges, Zenon DEF Walk
    <2>8. PlaceKept'
      <3>1. call'.fn # "run"
        BY <1>4
      <3> QED BY <1>4, <3>1, PlacesTyped, Zenon DEF PlaceKept
    <2>9. upstream[i] = None /\ child[i] = None /\ None \notin live /\ call.fn # "cancel"
      BY <1>1, RunsWaitsNot, TaskConstants, Zenon
    <2>10. PendingCurrent'
      <3>1. \A e \in pending : e[1] \in live /\ e[1] # i
        BY <2>9, QueryOwner, Zenon
      <3>2. \A e \in pending : Current(res'[e[1]], question'[e[1]].qtype, e[2])
        BY <1>4, <2>7, <3>1, Zenon DEF Walk, PendingCurrent
      <3>3. m.x20 => ~m.tcp
        <4>1. m.x20 = MixCase(at.server, at.tcp) /\ m.tcp = at.tcp
          BY <1>2, Zenon
        <4> QED BY <4>1, Zenon DEF MixCase
      <3>4. /\ m.server = at.server /\ m.qname = t.qname /\ m.qtype = question[i].qtype
        BY <1>2
      <3>5. Current(u, question'[i].qtype, m)
        BY <1>4, <2>2, <2>4, <2>6, <3>3, <3>4, Zenon DEF Current
      <3>6. \A e \in pending' : e \in pending \/ (e[1] = i /\ e[2] = m)
        BY <1>4
      <3> QED BY <2>7, <3>2, <3>5, <3>6, Zenon DEF PendingCurrent, Current
    <2>11. TasksNested'
      <3>1. \A j \in live' : res'[j].ancestry = res[j].ancestry
        BY <1>2, <1>4, <2>6, <2>7, Zenon
      <3>2. \A j \in live' : parent[j] \in live' => res'[parent[j]].qname = res[parent[j]].qname
        BY <1>1, <1>4, <2>7, <2>9, Childless, Zenon
      <3> QED BY <1>4, <3>1, <3>2, NestedStays, Zenon DEF Walk
    <2> QED BY <2>7, <2>8, <2>10, <2>11, Zenon DEF Walk
  <1> QED BY <1>3, <1>4, EndKeeps, Zenon

\* on_response() makes u of task i.
Becomes(i, u) ==
  /\ Orderly(u) /\ u.ancestry = res[i].ancestry /\ u.qname = res[i].qname
  /\ (u = res[i] /\ res' = res) \/ res' = [res EXCEPT ![i] = u]
  /\ at' \in Steps /\ at'.fn # "none" /\ InHandOf(u, at')

\* What on_response() makes of the task that waited for query m.
LEMMA ResponseTask ==
  ASSUME NEW i \in TaskIds, NEW m \in Queries, Orderly(res[i]), OnResponse(i, m),
         m.server \in res[i].servers, m.server \in res[i].tried, m.server \notin res[i].timed_out
  PROVE  \E u : Becomes(i, u)
  <1> PICK t : t = res[i]
    BY Zenon
  <1>1. m.server \in Addresses /\ m.tcp \in BOOLEAN
    BY QueryParts, Zenon
  <1>2. t \in TaskState /\ t.timed_out \subseteq t.tried /\ Orderly(t)
    BY Zenon DEF Orderly
  <1>3. /\ "ancestry" \in DOMAIN t /\ "qname" \in DOMAIN t /\ "servers" \in DOMAIN t
        /\ "tried" \in DOMAIN t /\ "timed_out" \in DOMAIN t
    BY <1>2, TaskDomain, Zenon
  <1>4. t.tried \in SUBSET Addresses /\ t.timed_out \in SUBSET Addresses
    BY <1>2, TaskFields, Zenon
  <1>5. CASE OnSpoofSuspected(i, m) \/ OnNetworkError(i, m) \/ \E reply \in Messages : OnReply(i, m, reply)
    <2>1. /\ res' = res
          /\ \/ at' = At("next_server") \/ at' = AtSend(m.server, TRUE)
             \/ \E reply \in Messages : at' = AtHandle(m.server, m.tcp, reply)
      BY <1>5, Zenon DEF OnSpoofSuspected, OnNetworkError, OnReply
    <2>2. at' \in Steps /\ at'.fn # "none" /\ InHandOf(t, at')
      <3>1. CASE at' = At("next_server")
        BY <3>1, PlacesTyped, Zenon
      <3>2. CASE at' = AtSend(m.server, TRUE)
        BY <1>1, <3>2 DEF AtSend, Steps, InHandOf
      <3>3. ASSUME NEW reply \in Messages, at' = AtHandle(m.server, m.tcp, reply)
            PROVE  at' \in Steps /\ at'.fn # "none" /\ InHandOf(t, at')
        BY <1>1, <3>3 DEF AtHandle, Steps, InHandOf
      <3> QED BY <2>1, <3>1, <3>2, <3>3, Zenon
    <2> QED BY <1>2, <2>1, <2>2, Zenon DEF Becomes
  <1>6. CASE OnCaseMismatch(i, m)
    <2>1. PICK x, u : x = t.tried \ {m.server} /\ u = [t EXCEPT !.tried = x]
      BY Zenon
    <2>2. res' = [res EXCEPT ![i] = u] /\ at' = AtSend(m.server, FALSE)
      BY <1>6, <2>1, Zenon DEF OnCaseMismatch
    <2>3. x \in SUBSET Addresses /\ t.timed_out \subseteq x
      BY <1>2, <1>4, <2>1
    <2>4. u \in TaskState
      BY <1>2, <2>1, <2>3, Updated, Zenon
    <2>5. /\ u.ancestry = t.ancestry /\ u.qname = t.qname /\ u.servers = t.servers
          /\ u.tried = x /\ u.timed_out = t.timed_out
      BY <1>3, <2>1
    <2>6. at' \in Steps /\ at'.fn # "none" /\ InHandOf(u, at')
      BY <1>1, <2>2, <2>5 DEF AtSend, Steps, InHandOf
    <2> QED BY <2>2, <2>3, <2>4, <2>5, <2>6, Zenon DEF Orderly, Becomes
  <1>7. CASE OnTimeout(i, m)
    <2>1. PICK x, u : x = t.timed_out \cup {m.server} /\ u = [t EXCEPT !.timed_out = x]
      BY Zenon
    <2>2. res' = [res EXCEPT ![i] = u] /\ at' = At("next_server")
      BY <1>7, <2>1, Zenon DEF OnTimeout
    <2>3. x \in SUBSET Addresses /\ x \subseteq t.tried
      BY <1>1, <1>2, <1>4, <2>1
    <2>4. u \in TaskState
      BY <1>2, <2>1, <2>3, Updated, Zenon
    <2>5. u.ancestry = t.ancestry /\ u.qname = t.qname /\ u.tried = t.tried /\ u.timed_out = x
      BY <1>3, <2>1
    <2> QED BY <2>2, <2>3, <2>4, <2>5, PlacesTyped, Zenon DEF Orderly, Becomes
  <1> QED BY <1>5, <1>6, <1>7, Zenon DEF OnResponse

\* on_response(): the query is not pending any more, and its server is in hand.
LEMMA ResponseKeeps ==
  ASSUME TasksInv, Walk, NEW i \in TaskIds, i \in live, NEW m \in Queries, OnResponse(i, m)
  PROVE  Walk'
  <1>1. on_response(i, m)
    BY Zenon DEF OnResponse, OnSpoofSuspected, OnCaseMismatch, OnTimeout, OnNetworkError, OnReply
  <1>2. /\ <<i, m>> \in pending /\ pending' = pending \ {<<i, m>>}
        /\ call = [fn |-> "idle", id |-> None, top |-> None]
        /\ call' = [fn |-> "run", id |-> i, top |-> None]
        /\ live' = live /\ question' = question /\ parent' = parent
    BY <1>1, Zenon DEF on_response
  <1>3. call.fn # "cancel" /\ call'.fn = "run" /\ call'.id = i
    BY <1>2
  <1>4. PICK t : t = res[i] /\ Orderly(t)
    BY Zenon DEF Walk, TasksOrderly
  <1>5. m.server \in t.servers /\ m.server \in t.tried /\ m.server \notin t.timed_out
    <2>1. PICK e \in pending : e[1] = i /\ e[2] = m
      BY <1>2
    <2> QED BY <1>4, <2>1, Zenon DEF Walk, PendingCurrent, Current
  <1>6. PICK u : /\ Orderly(u) /\ u.ancestry = t.ancestry /\ u.qname = t.qname
                 /\ (u = t /\ res' = res) \/ res' = [res EXCEPT ![i] = u]
                 /\ at' \in Steps /\ at'.fn # "none" /\ InHandOf(u, at')
    <2>1. PICK u : Becomes(i, u)
      BY <1>4, <1>5, ResponseTask, Zenon
    <2> QED BY <1>4, <2>1, Zenon DEF Becomes
  <1>7. TasksOrderly' /\ res'[i] = u /\ \A j \in live : j # i => res'[j] = res[j]
    <2>1. CASE u = t /\ res' = res
      BY <1>2, <1>4, <2>1, Zenon DEF Walk, TasksOrderly
    <2>2. CASE res' = [res EXCEPT ![i] = u]
      BY <1>2, <1>6, <2>2, OneChanges, Zenon DEF Walk
    <2> QED BY <1>6, <2>1, <2>2, Zenon
  <1>8. PlaceKept'
    BY <1>3, <1>6, <1>7, Zenon DEF PlaceKept
  <1>9. upstream[i] = m /\ m # None /\ child[i] = None /\ None \notin live
    <2>1. upstream[i] = m /\ m # None
      BY <1>2, TaskConstants, Zenon DEF TasksInv, NothingDangles
    <2>2. child[i] = None
      BY <2>1, Zenon DEF TasksInv, EveryTaskWaits, WaitsForAtMostOne, WaitsForServer, WaitsForChild
    <2>3. None \notin live
      BY TaskConstants, Zenon DEF TasksInv, TasksTypeOK
    <2> QED BY <2>1, <2>2, <2>3, Zenon
  <1>10. PendingCurrent'
    <2>1. \A e \in pending' : e \in pending /\ e[1] \in live /\ e[1] # i
      <3> SUFFICES ASSUME NEW e \in pending' PROVE e \in pending /\ e[1] \in live /\ e[1] # i
        OBVIOUS
      <3>1. e \in pending /\ e # <<i, m>>
        BY <1>2
      <3>2. e[1] \in live /\ upstream[e[1]] = e[2] /\ e = <<e[1], e[2]>>
        <4>1. e = <<e[1], e[2]>>
          BY <3>1 DEF TasksInv, TasksTypeOK
        <4> QED BY <3>1, <4>1, QueryOwner, Zenon
      <3> QED BY <1>9, <3>1, <3>2, Zenon
    <2> QED BY <1>2, <1>7, <2>1, PendingStays, Zenon DEF Walk
  <1>11. TasksNested'
    <2>1. \A j \in live' : res'[j].ancestry = res[j].ancestry
      BY <1>2, <1>4, <1>6, <1>7, Zenon
    <2>2. \A j \in live' : parent[j] \in live' => res'[parent[j]].qname = res[parent[j]].qname
      BY <1>2, <1>3, <1>7, <1>9, Childless, Zenon
    <2> QED BY <1>2, <2>1, <2>2, NestedStays, Zenon DEF Walk
  <1> QED BY <1>7, <1>8, <1>10, <1>11, Zenon DEF Walk

\* spawn() makes a task that knows nothing yet.
LEMMA NewTaskTyped ==
  ASSUME NEW q \in Questions, NEW a \in Seq(Asked)
  PROVE  Orderly(NewTask(q, a)) /\ NewTask(q, a).ancestry = a
  <1>1. PICK t : t = NewTask(q, a)
    BY Zenon
  <1>2. t.ancestry = a /\ t.timed_out \subseteq t.tried
    BY <1>1 DEF NewTask
  <1>3. q.qname \in Names /\ <<>> \in Seq(RR)
    BY QuestionParts
  <1>4. /\ 0 \in 0..MaxCnameChain /\ 0 \in 0..kMaxRetryRounds /\ 0 \in 0..MaxGluelessNs
        /\ 0 \in 0..MaxReferralDepth
    BY ResolverConstants
  <1>5. {} \in SUBSET Addresses /\ {} \in SUBSET Names /\ None \in Names \cup {None}
    OBVIOUS
  <1>6. NewTask(q, a) \in TaskState
    BY <1>3, <1>4, <1>5, Zenon DEF NewTask, TaskState
  <1> QED BY <1>1, <1>2, <1>6, Zenon DEF Orderly

\* A new task k joins tasks that stay on their names and queries.
LEMMA GrowKeeps ==
  ASSUME TasksInv, Walk, call.fn # "cancel", NEW k \in TaskIds \ live, NEW q, NEW p,
         live' = live \cup {k}, pending' = pending,
         question' = [question EXCEPT ![k] = q], parent' = [parent EXCEPT ![k] = p],
         res' \in [TaskIds -> TaskState \cup {None}],
         Orderly(res'[k]), \A j \in TaskIds \ live : j # k => res'[j] = res[j],
         \A j \in live : /\ Orderly(res'[j])
                         /\ res'[j].ancestry = res[j].ancestry /\ res'[j].qname = res[j].qname
                         /\ upstream[j] = None \/ res'[j] = res[j],
         Nested(k)'
  PROVE  TasksOrderly' /\ PendingCurrent' /\ TasksNested'
  <1>1. /\ live \subseteq TaskIds /\ question \in [TaskIds -> Questions \cup {None}]
        /\ parent \in [TaskIds -> TaskIds \cup {None}] /\ None \notin TaskIds
    BY TaskConstants, Zenon DEF TasksInv, TasksTypeOK
  <1>2. \A j \in live : question'[j] = question[j] /\ parent'[j] = parent[j]
    BY <1>1
  <1>3. TasksOrderly'
    <2>1. \A j \in live' : Orderly(res'[j])
      BY Zenon
    <2>2. \A j \in TaskIds \ live' : res'[j] = None
      BY Zenon DEF Walk, TasksOrderly
    <2> QED BY <2>1, <2>2, Zenon DEF TasksOrderly, Orderly
  <1>4. PendingCurrent'
    <2>1. \A e \in pending : e[1] \in live /\ upstream[e[1]] # None
      BY QueryOwner, Zenon
    <2> QED BY <1>2, <2>1, PendingStays, Zenon DEF Walk
  <1>5. TasksNested'
    <2>1. ASSUME NEW j \in live PROVE Nested(j)'
      <3>1. Nested(j)
        BY Zenon DEF Walk, TasksNested
      <3>2. parent[j] = None \/ parent[j] \in live
        BY Zenon DEF TasksInv, FamiliesLinked, InHand
      <3>3. parent[j] \in live' => parent[j] \in live
        BY <1>1, <3>2
      <3> QED BY <1>2, <3>1, <3>3, NestedTask, Zenon
    <2> QED BY <2>1, Zenon DEF TasksNested, Nested
  <1> QED BY <1>3, <1>4, <1>5

\* A question one level down, asked by nobody above.
LEMMA SpawnNested ==
  ASSUME NEW i, NEW q, NEW a \in Seq(Asked), a = res[i].ancestry, Working(i) \in Asked,
         ~would_cycle(i, q), ~(Len(a) >= kMaxSubqueryDepth)
  PROVE  LET b == Append(a, Working(i)) IN
         /\ b \in Seq(Asked) /\ Len(b) <= kMaxSubqueryDepth
         /\ \A k \in DOMAIN b : b[k] # q
  <1>1. PICK w \in Asked : w = Working(i)
    BY Zenon
  <1>2. w # q /\ \A k \in DOMAIN a : a[k] # q
    BY <1>1, Zenon DEF would_cycle
  <1>3. kMaxSubqueryDepth \in Nat
    BY ResolverConstants
  <1>4. PICK b : b = Append(a, w)
    BY Zenon
  <1>5. b \in Seq(Asked) /\ Len(b) = Len(a) + 1
    BY <1>4
  <1>6. Len(b) <= kMaxSubqueryDepth
    BY <1>3, <1>5
  <1>7. \A k \in DOMAIN b : b[k] # q
    BY <1>2, <1>4
  <1> QED BY <1>1, <1>4, <1>5, <1>6, <1>7, Zenon

\* next_server() looks up an address, or passes the name over.
LEMMA LookUpKeeps ==
  ASSUME TasksInv, ResolutionSound, ResolutionSound', Walk, NEW i \in TaskIds, LookUpNameServer(i)
  PROVE  Walk'
  <1>1. /\ Running(i) /\ i \in live /\ call.fn = "run" /\ live \subseteq TaskIds
        /\ res[i].glueless_lookups < MaxGluelessNs
    BY Zenon DEF LookUpNameServer, AtNextServer, MayLookUp, TasksInv, TasksTypeOK
  <1>2. PICK n, t : /\ n \in res[i].unresolved /\ t = Taken(res[i], n)
                    /\ \/ Continue(i, t, At("next_server"))
                       \/ /\ ~would_cycle(i, AddressQuestion(n)) /\ ~(Len(t.ancestry) >= kMaxSubqueryDepth)
                          /\ SpawnChild(i, AddressQuestion(n))
                          /\ res' = [res EXCEPT ![i] = [t EXCEPT !.glueless_lookups = @ + 1],
                                     ![NewId] = NewTask(AddressQuestion(n), Append(t.ancestry, Working(i)))]
                          /\ at' = Nowhere
    BY ZenonT(30) DEF LookUpNameServer
  <1>3. Orderly(res[i])
    BY <1>1, Zenon DEF Walk, TasksOrderly
  <1>4. /\ Turn(res[i], at, t, At("next_server"))
        /\ t.qname = res[i].qname /\ t.glueless_lookups = res[i].glueless_lookups
    BY <1>2, <1>3, TakenTurn, Zenon
  <1>5. CASE Continue(i, t, At("next_server"))
    BY <1>1, <1>4, <1>5, GoesKeeps, Zenon DEF Goes
  <1>6. PICK q : q = AddressQuestion(n)
    BY Zenon
  <1>7. CASE /\ ~would_cycle(i, q) /\ ~(Len(t.ancestry) >= kMaxSubqueryDepth)
             /\ SpawnChild(i, q)
             /\ res' = [res EXCEPT ![i] = [t EXCEPT !.glueless_lookups = @ + 1],
                                   ![NewId] = NewTask(q, Append(t.ancestry, Working(i)))]
             /\ at' = Nowhere
    <2>1. /\ HasRoom /\ live' = live \cup {NewId} /\ pending' = pending
          /\ question' = [question EXCEPT ![NewId] = q] /\ parent' = [parent EXCEPT ![NewId] = i]
          /\ call' = [fn |-> "idle", id |-> None, top |-> None]
      BY <1>7, Zenon DEF SpawnChild, spawn
    <2>2. PICK k \in TaskIds \ live : k = NewId
      BY <2>1, NewIdFree, Zenon
    <2>3. PICK a, w, v, new : /\ a = res[i].ancestry /\ w = Append(a, Working(i))
                              /\ v = [t EXCEPT !.glueless_lookups = @ + 1] /\ new = NewTask(q, w)
      BY Zenon
    <2>4. t \in TaskState /\ t.timed_out \subseteq t.tried /\ t.ancestry = a
      BY <1>4, <2>3, Zenon DEF Turn, Orderly
    <2>5. v \in TaskState /\ v.ancestry = a /\ v.qname = t.qname /\ Orderly(v)
      <3>1. PICK g : g = t.glueless_lookups + 1 /\ v = [t EXCEPT !.glueless_lookups = g]
        BY <2>3, Zenon
      <3>2. g \in 0..MaxGluelessNs
        <4>1. t.glueless_lookups \in Nat /\ MaxGluelessNs \in Nat
          BY <2>4, TaskFields, ResolverConstants
        <4> QED BY <1>1, <1>4, <3>1, <4>1
      <3>3. v \in TaskState
        BY <2>4, <3>1, <3>2, Updated, Zenon
      <3>4. /\ "ancestry" \in DOMAIN t /\ "qname" \in DOMAIN t
            /\ "tried" \in DOMAIN t /\ "timed_out" \in DOMAIN t
        BY <2>4, TaskDomain, Zenon
      <3>5. /\ v.ancestry = t.ancestry /\ v.qname = t.qname
            /\ v.tried = t.tried /\ v.timed_out = t.timed_out
        BY <3>1, <3>4
      <3> QED BY <2>4, <3>3, <3>5, Zenon DEF Orderly
    <2>6. Working(i) \in Asked /\ q \in Questions
      <3>1. SoundTask(question[i], res[i]) /\ question[i] \in Questions
        BY <1>1, Zenon DEF ResolutionSound, TasksSound, TasksInv, InFlightExact
      <3>2. res[i].qname \in Names /\ question[i].qtype \in Types
        BY <3>1, QuestionParts, Zenon DEF SoundTask
      <3>3. q \in Questions
        BY <1>2, <1>6, <3>1, Zenon DEF SoundTask
      <3> QED BY <3>2, <3>3 DEF Working, Asked
    <2>7. a \in Seq(Asked)
      BY <1>3, <2>3, TaskFields, Zenon DEF Orderly
    <2>8. w \in Seq(Asked) /\ Len(w) <= kMaxSubqueryDepth /\ \A x \in DOMAIN w : w[x] # q
      BY <1>7, <2>3, <2>4, <2>6, <2>7, SpawnNested, Zenon
    <2>9. Orderly(new) /\ new.ancestry = w /\ new \in TaskState
      BY <2>3, <2>6, <2>8, NewTaskTyped, Zenon DEF Orderly
    <2>10. res' = [res EXCEPT ![i] = v, ![k] = new] /\ k # i
      BY <1>1, <1>7, <2>2, <2>3, <2>4, Zenon
    <2>11. /\ res' \in [TaskIds -> TaskState \cup {None}]
           /\ res'[k] = new /\ res'[i] = v /\ \A j \in TaskIds : j # i /\ j # k => res'[j] = res[j]
      <3>1. res \in [TaskIds -> TaskState \cup {None}]
        BY Zenon DEF Walk, TasksOrderly
      <3> QED BY <1>1, <2>2, <2>5, <2>9, <2>10, <3>1
    <2>12. upstream[i] = None /\ call.fn # "cancel"
      BY <1>1, RunsWaitsNot, Zenon
    <2>13. \A j \in live : /\ Orderly(res'[j])
                           /\ res'[j].ancestry = res[j].ancestry /\ res'[j].qname = res[j].qname
                           /\ upstream[j] = None \/ res'[j] = res[j]
      BY <1>1, <1>4, <2>2, <2>3, <2>5, <2>11, <2>12, Zenon DEF Walk, TasksOrderly
    <2>14. Nested(k)'
      <3>1. question'[k] = q /\ parent'[k] = i /\ question'[i] = question[i]
        <4>1. question \in [TaskIds -> Questions \cup {None}] /\ parent \in [TaskIds -> TaskIds \cup {None}]
          BY Zenon DEF TasksInv, TasksTypeOK
        <4> QED BY <2>1, <2>2, <2>10, <4>1
      <3>2. Working(i)' = Working(i)
        BY <1>4, <2>5, <2>11, <3>1, Zenon DEF Working
      <3>3. res'[k].ancestry = Append(res'[i].ancestry, Working(i)')
        BY <2>3, <2>5, <2>9, <2>11, <3>2, Zenon
      <3> QED BY <2>8, <2>9, <2>11, <3>1, <3>3, Zenon DEF Nested
    <2>15. PlaceKept'
      <3>1. call'.fn # "run"
        BY <2>1
      <3> QED BY <1>7, <3>1, PlacesTyped, Zenon DEF PlaceKept
    <2>16. TasksOrderly' /\ PendingCurrent' /\ TasksNested'
      <3>1. /\ live' = live \cup {k} /\ Orderly(res'[k])
            /\ question' = [question EXCEPT ![k] = q] /\ parent' = [parent EXCEPT ![k] = i]
        BY <2>1, <2>2, <2>9, <2>11, Zenon
      <3>2. \A j \in TaskIds \ live : j # k => res'[j] = res[j]
        BY <1>1, <2>11, Zenon
      <3> QED BY <2>1, <2>11, <2>12, <2>13, <2>14, <3>1, <3>2, GrowKeeps, Zenon
    <2> QED BY <2>15, <2>16, Zenon DEF Walk
  <1> QED BY <1>2, <1>5, <1>6, <1>7, Zenon

\* on_child_done(): the parent goes on with the addresses found.
LEMMA ChildKeeps ==
  ASSUME TasksInv, ResolutionSound, Walk, NEW i \in TaskIds, OnChildDone(i) PROVE Walk'
  <1>1. /\ call.fn = "done" /\ call.id = i /\ parent[i] # None /\ at' = At("next_server")
        /\ pending' = pending /\ live' = live
        /\ question' = [question EXCEPT ![i] = None] /\ parent' = [parent EXCEPT ![i] = None]
    BY Zenon DEF OnChildDone, on_child_done, IsClient, Forget
  <1>2. PICK p \in live : p = parent[i] /\ child[p] = i /\ i \notin live
    BY <1>1, Zenon DEF TasksInv, ThreadConsistent
  <1>3. /\ live \subseteq TaskIds /\ question \in [TaskIds -> Questions \cup {None}]
        /\ parent \in [TaskIds -> TaskIds \cup {None}]
    BY Zenon DEF TasksInv, TasksTypeOK
  <1>4. \A j \in live : question'[j] = question[j] /\ parent'[j] = parent[j]
    BY <1>1, <1>2, <1>3
  <1>5. PICK t : t = res[p] /\ t \in TaskState /\ t.timed_out \subseteq t.tried
    BY Zenon DEF Walk, TasksOrderly, Orderly
  <1>6. PICK u : /\ Orderly(u) /\ u.ancestry = t.ancestry /\ u.qname = t.qname
                 /\ (u = t /\ res' = res) \/ res' = [res EXCEPT ![p] = u]
    <2>1. CASE res' = res
      BY <1>5, <2>1, Zenon DEF Orderly
    <2>2. CASE res' = [res EXCEPT ![p].servers = @ \cup ipv4_addresses(result.records)]
      <3>1. PICK x, u : /\ x = t.servers \cup ipv4_addresses(result.records)
                        /\ u = [t EXCEPT !.servers = x]
        BY Zenon
      <3>2. x \in SUBSET Addresses
        <4>1. ipv4_addresses(result.records) \subseteq Addresses
          BY AddressesSound, Zenon DEF ResolutionSound, ResultSound
        <4>2. t.servers \in SUBSET Addresses
          BY <1>5, TaskFields, Zenon
        <4> QED BY <3>1, <4>1, <4>2, Zenon
      <3>3. u \in TaskState
        BY <1>5, <3>1, <3>2, Updated, Zenon
      <3>4. /\ "ancestry" \in DOMAIN t /\ "qname" \in DOMAIN t
            /\ "tried" \in DOMAIN t /\ "timed_out" \in DOMAIN t
        BY <1>5, TaskDomain, Zenon
      <3>5. /\ u.ancestry = t.ancestry /\ u.qname = t.qname
            /\ u.tried = t.tried /\ u.timed_out = t.timed_out
        BY <3>1, <3>4
      <3>6. res' = [res EXCEPT ![p] = u]
        BY <1>5, <2>2, <3>1, Zenon
      <3> QED BY <1>5, <3>3, <3>5, <3>6, Zenon DEF Orderly
    <2>3. res' = res \/ res' = [res EXCEPT ![p].servers = @ \cup ipv4_addresses(result.records)]
      BY <1>2, Zenon DEF OnChildDone
    <2> QED BY <2>1, <2>2, <2>3, Zenon
  <1>7. TasksOrderly' /\ res'[p] = u /\ \A j \in live : j # p => res'[j] = res[j]
    <2>1. CASE u = t /\ res' = res
      BY <1>1, <1>5, <2>1, Zenon DEF Walk, TasksOrderly
    <2>2. CASE res' = [res EXCEPT ![p] = u]
      BY <1>1, <1>6, <2>2, OneChanges, Zenon DEF Walk
    <2> QED BY <1>6, <2>1, <2>2, Zenon
  <1>8. PlaceKept'
    <2>1. call' = [fn |-> "run", id |-> p, top |-> None]
      BY <1>2, Zenon DEF OnChildDone, on_child_done
    <2>2. call'.fn = "run"
      BY <2>1
    <2> QED BY <1>1, <2>2, PlacesTyped, Zenon DEF PlaceKept
  <1>9. PendingCurrent'
    <2>1. upstream[p] = None
      <3>1. i # None
        BY TaskConstants, Zenon
      <3> QED BY <1>2, <3>1, Zenon
              DEF TasksInv, EveryTaskWaits, WaitsForAtMostOne, WaitsForServer, WaitsForChild
    <2>2. \A e \in pending : e[1] \in live /\ e[1] # p
      BY <2>1, QueryOwner, Zenon
    <2> QED BY <1>1, <1>4, <1>7, <2>2, PendingStays, Zenon DEF Walk
  <1>10. TasksNested'
    <2>1. call.fn # "cancel"
      BY <1>1
    <2>2. \A j \in live : parent[j] # p
      BY <1>2, <2>1, Childless, Zenon
    <2>3. \A j \in live' : res'[j].ancestry = res[j].ancestry
      BY <1>1, <1>5, <1>6, <1>7, Zenon
    <2>4. \A j \in live' : parent[j] \in live' => res'[parent[j]].qname = res[parent[j]].qname
      BY <1>1, <1>7, <2>2, Zenon
    <2> QED BY <1>1, <1>4, <2>3, <2>4, NestedStays, Zenon DEF Walk
  <1> QED BY <1>7, <1>8, <1>9, <1>10, Zenon DEF Walk

\* Tasks end and callers are called back: nothing changes for the others.
LEMMA EndingLeaves ==
  ASSUME TasksInv, Walk, NEW i \in TaskIds,
         Finish(i) \/ Cancel(i) \/ \E c \in Clients : CallBack(i, c)
  PROVE  Walk'
  <1>1. /\ finish(i) \/ cancel(i) \/ \E c \in Clients : CallClient(i, c)
        /\ at' = at
    BY Zenon DEF Finish, Cancel, CallBack
  <1>2. /\ live \subseteq TaskIds /\ parent \in [TaskIds -> TaskIds \cup {None}]
        /\ pending \subseteq TaskIds \X Queries
        /\ res \in [TaskIds -> TaskState \cup {None}] /\ \A j \in TaskIds \ live : res[j] = None
    BY Zenon DEF TasksInv, TasksTypeOK, Walk, TasksOrderly
  <1>3. \A j \in live' : j \in live /\ j # i /\ question'[j] = question[j]
    BY <1>1, EndingKeeps, Zenon
  <1>4. call.fn \in {"finish", "cancel", "done", "clients"} /\ call'.fn # "run"
    <2>1. CASE finish(i)
      BY <2>1 DEF finish, AfterRelease
    <2>2. CASE cancel(i)
      BY <2>2 DEF cancel
    <2>3. ASSUME NEW c \in Clients, CallClient(i, c)
          PROVE  call.fn \in {"finish", "cancel", "done", "clients"} /\ call'.fn # "run"
      <3>1. call' = [fn |-> "idle", id |-> None, top |-> None] \/ call' = [call EXCEPT !.fn = "clients"]
        BY <2>3, Zenon DEF CallClient
      <3>2. /\ call \in [fn : {"run", "finish", "done", "clients"}, id : TaskIds, top : {None}]
            /\ call.fn \in {"done", "clients"}
        BY <2>3, CallTyped, Zenon DEF CallClient
      <3> QED BY <3>1, <3>2
    <2> QED BY <1>1, <2>1, <2>2, <2>3, Zenon
  <1>5. PlaceKept'
    <2>1. call.fn # "run"
      BY <1>4
    <2> QED BY <1>1, <1>4, <2>1, Zenon DEF Walk, PlaceKept
  <1>6. \A j \in live' : parent'[j] = parent[j]
    <2>1. parent' = parent \/ parent' = [parent EXCEPT ![i] = None]
      BY <1>1, Zenon DEF finish, cancel, CallClient, Forget
    <2> QED BY <1>2, <1>3, <2>1
  <1>7. /\ res' \in [TaskIds -> TaskState \cup {None}]
        /\ \A j \in live' : res'[j] = res[j]
        /\ \A j \in TaskIds \ live' : res'[j] = None
    <2>1. CASE Finish(i) \/ Cancel(i)
      <3>1. res' = [res EXCEPT ![i] = None]
        BY <2>1, Zenon DEF Finish, Cancel
      <3>2. \A j \in TaskIds \ live' : j # i => j \notin live
        BY <2>1, Zenon DEF Finish, Cancel, finish, cancel, release
      <3> QED BY <1>2, <1>3, <3>1, <3>2
    <2>2. CASE \E c \in Clients : CallBack(i, c)
      <3>1. res' = res /\ live' = live
        BY <2>2, Zenon DEF CallBack, CallClient
      <3> QED BY <1>2, <3>1, Zenon
    <2> QED BY <2>1, <2>2
  <1>8. TasksOrderly'
    <2>1. live' \subseteq live
      BY <1>3, Zenon
    <2> QED BY <1>7, <2>1, OrderlyStays, Zenon DEF Walk
  <1>9. PendingCurrent'
    <2>1. \A e \in pending' : e \in pending /\ e[1] \in live'
      <3> SUFFICES ASSUME NEW e \in pending' PROVE e \in pending /\ e[1] \in live'
        OBVIOUS
      <3>1. /\ pending' \subseteq pending
            /\ live' = live \/ (live' = live \ {i} /\ pending' = pending \ {<<i, upstream[i]>>})
        BY <1>1, Zenon DEF finish, cancel, CallClient, release, WithoutQuery
      <3>2. e \in pending /\ e[1] \in live /\ upstream[e[1]] = e[2]
        BY <3>1, QueryOwner, Zenon
      <3>3. e = <<e[1], e[2]>>
        BY <1>2, <3>2
      <3>4. e[1] = i => e = <<i, upstream[i]>>
        BY <3>2, <3>3, Zenon
      <3> QED BY <3>1, <3>2, <3>4
    <2> QED BY <1>3, <1>7, <2>1, PendingStays, Zenon DEF Walk
  <1>10. TasksNested'
    <2>1. live' \subseteq live
      BY <1>3, Zenon
    <2> QED BY <1>3, <1>6, <1>7, <2>1, NestedStays, Zenon DEF Walk
  <1> QED BY <1>5, <1>8, <1>9, <1>10, Zenon DEF Walk

\* resolve(): a caller joins, or a task starts that has no ancestors.
LEMMA ResolveKeeps ==
  ASSUME TasksInv, Walk, NEW c \in Clients, NEW q \in Questions, Resolve(c, q) PROVE Walk'
  <1>1. call' = call /\ at' = at /\ pending' = pending /\ ClientsTurn
    BY Zenon DEF Resolve, resolve_client
  <1>2. call.fn # "run" /\ call.fn # "cancel"
    BY <1>1 DEF ClientsTurn
  <1>3. PlaceKept'
    BY <1>1, <1>2, Zenon DEF Walk, PlaceKept
  <1>4. CASE in_flight[q] \in live
    <2>1. live' = live /\ res' = res /\ question' = question /\ parent' = parent
      BY <1>4, Zenon DEF Resolve, resolve_client, Join, StartNew
    <2> QED BY <1>1, <1>3, <2>1, PendingStays, NestedStays, Zenon DEF Walk, TasksOrderly
  <1>5. CASE in_flight[q] \notin live
    <2>1. /\ HasRoom /\ live' = live \cup {NewId}
          /\ question' = [question EXCEPT ![NewId] = q] /\ parent' = [parent EXCEPT ![NewId] = None]
          /\ res' = [res EXCEPT ![NewId] = NewTask(q, <<>>)]
      BY <1>5, Zenon DEF Resolve, resolve_client, Join, StartNew, spawn
    <2>2. PICK k \in TaskIds \ live : k = NewId
      BY <2>1, NewIdFree, Zenon
    <2>3. PICK new : new = NewTask(q, <<>>)
      BY Zenon
    <2>4. /\ live' = live \cup {k} /\ res' = [res EXCEPT ![k] = new]
          /\ question' = [question EXCEPT ![k] = q] /\ parent' = [parent EXCEPT ![k] = None]
      BY <2>1, <2>2, <2>3, Zenon
    <2>5. Orderly(new) /\ new.ancestry = <<>> /\ new \in TaskState
      <3>1. <<>> \in Seq(Asked)
        OBVIOUS
      <3> QED BY <2>3, <3>1, NewTaskTyped, Zenon DEF Orderly
    <2>6. /\ res \in [TaskIds -> TaskState \cup {None}] /\ live \subseteq TaskIds
          /\ parent \in [TaskIds -> TaskIds \cup {None}]
      BY Zenon DEF Walk, TasksOrderly, TasksInv, TasksTypeOK
    <2>7. /\ res' \in [TaskIds -> TaskState \cup {None}]
          /\ res'[k] = new /\ \A j \in TaskIds : j # k => res'[j] = res[j]
      BY <2>4, <2>5, <2>6
    <2>8. \A j \in live : j # k /\ Orderly(res'[j]) /\ res'[j] = res[j]
      BY <2>2, <2>6, <2>7, Zenon DEF Walk, TasksOrderly
    <2>9. Nested(k)'
      <3>1. parent'[k] = None /\ None \notin live'
        <4>1. None \notin TaskIds
          BY TaskConstants
        <4> QED BY <2>2, <2>4, <2>6, <4>1
      <3>2. /\ \A x \in DOMAIN new.ancestry : new.ancestry[x] # question'[k]
            /\ Len(new.ancestry) <= kMaxSubqueryDepth
        BY <2>5, ResolverConstants
      <3> QED BY <2>7, <3>1, <3>2, Zenon DEF Nested
    <2>10. TasksOrderly' /\ PendingCurrent' /\ TasksNested'
      BY <1>1, <1>2, <2>4, <2>5, <2>7, <2>8, <2>9, GrowKeeps, Zenon
    <2> QED BY <1>3, <2>10, Zenon DEF Walk
  <1> QED BY <1>4, <1>5

\* Timers, the clock, and the end and the beginning of the resolver.
LEMMA OutsideKeeps ==
  ASSUME TasksInv, Walk,
         \/ \E i \in TaskIds : Start(i) \/ Deadline(i)
         \/ \E k \in Keys : Expire(k)
         \/ DestroyResolver \/ CreateResolver \/ UNCHANGED vars
  PROVE  Walk'
  <1>1. ASSUME NEW i \in TaskIds, Start(i) \/ Deadline(i) PROVE Walk'
    <2>1. /\ live' = live /\ res' = res /\ question' = question /\ parent' = parent
          /\ pending' = pending /\ call = [fn |-> "idle", id |-> None, top |-> None]
      BY <1>1, Zenon DEF Start, StartTimerFires, Deadline, DeadlineFires
    <2>2. TasksOrderly' /\ PendingCurrent' /\ TasksNested'
      BY <2>1, PendingStays, NestedStays, Zenon DEF Walk, TasksOrderly
    <2>3. PlaceKept'
      <3>1. CASE Start(i)
        <4>1. i \in live
          BY <3>1, Zenon DEF Start, StartTimerFires, TasksInv, NothingDangles
        <4>2. at' = At("step") /\ call' = [fn |-> "run", id |-> i, top |-> None]
          BY <3>1, <4>1, Zenon DEF Start, StartTimerFires
        <4>3. call'.fn = "run"
          BY <4>2
        <4> QED BY <4>2, <4>3, PlacesTyped, Zenon DEF PlaceKept
      <3>2. CASE Deadline(i)
        <4>1. at' = at /\ (\/ call' = [fn |-> "finish", id |-> i, top |-> None]
                           \/ call' = [fn |-> "idle", id |-> None, top |-> None])
          BY <3>2, Zenon DEF Deadline, DeadlineFires
        <4>2. call'.fn # "run" /\ call.fn # "run"
          BY <2>1, <4>1
        <4> QED BY <4>1, <4>2, Zenon DEF Walk, PlaceKept
      <3> QED BY <1>1, <3>1, <3>2
    <2> QED BY <2>2, <2>3, Zenon DEF Walk
  <1>2. CASE DestroyResolver
    <2>1. /\ live' = {} /\ pending' = {} /\ res' = [i \in TaskIds |-> None]
          /\ at' = at /\ call' = call /\ ClientsTurn
      BY <1>2, Zenon DEF DestroyResolver, Destroy
    <2>2. call.fn # "run"
      BY <2>1 DEF ClientsTurn
    <2>3. PlaceKept'
      BY <2>1, <2>2, Zenon DEF Walk, PlaceKept
    <2>4. TasksOrderly'
      BY <2>1 DEF TasksOrderly
    <2>5. PendingCurrent' /\ TasksNested'
      BY <2>1, Zenon DEF PendingCurrent, TasksNested
    <2> QED BY <2>3, <2>4, <2>5, Zenon DEF Walk
  <1>3. CASE (\E k \in Keys : Expire(k)) \/ CreateResolver \/ UNCHANGED vars
    <2>1. /\ live' = live /\ res' = res /\ question' = question /\ parent' = parent
          /\ pending' = pending /\ at' = at /\ call' = call
      BY <1>3, Zenon DEF Expire, CreateResolver, Create, vars, resVars, taskVars
    <2>2. TasksOrderly' /\ PendingCurrent' /\ TasksNested'
      BY <2>1, PendingStays, NestedStays, Zenon DEF Walk, TasksOrderly
    <2> QED BY <2>1, <2>2, Zenon DEF Walk, PlaceKept
  <1> QED BY <1>1, <1>2, <1>3, Zenon

\* The steps of a running task that neither ask nor spawn.
StepsOn(i) ==
  \/ StepAnswers(i) \/ StepFollows(i) \/ StepStarts(i)
  \/ PickServer(i) \/ RetryTimedOut(i) \/ GiveUp(i)
  \/ HandleResponse(i) \/ HandleAnswer(i) \/ HandleCname(i) \/ HandleChainEnd(i)
  \/ HandleNxDomain(i) \/ HandleReferral(i) \/ HandleNoData(i) \/ HandleLame(i)

\* With such a step the task ends or goes on.
LEMMA StepsGo ==
  ASSUME TasksInv, ResolutionSound, ResolutionSound', TasksInZone, BelievedInZone, Walk,
         NEW i \in TaskIds, StepsOn(i)
  PROVE  Running(i) /\ Goes(i)
  <1>1. Running(i) /\ i \in live
    BY Zenon DEF StepsOn, StepAnswers, StepFollows, StepStarts, PickServer, RetryTimedOut, GiveUp,
       AtNextServer, HandleResponse, HandleAnswer, HandleCname, HandleChainEnd, HandleNxDomain,
       HandleReferral, HandleNoData, HandleLame, NothingAnswered, AtAnswersOf
  <1>2. Orderly(res[i]) /\ InHandOf(res[i], at) /\ at \in Steps
    BY <1>1, Zenon DEF Walk, TasksOrderly, PlaceKept
  <1>3. CASE StepAnswers(i) \/ GiveUp(i) \/ HandleAnswer(i) \/ HandleNxDomain(i) \/ HandleNoData(i)
    <2>1. PICK o : result' = o
      BY Zenon
    <2>2. End(i, o) /\ res' = res
      BY <1>3, <2>1, Zenon
         DEF StepAnswers, GiveUp, HandleAnswer, HandleNxDomain, HandleNoData, Deny, End
    <2> QED BY <1>1, <2>2, Zenon DEF Goes
  <1>4. CASE \/ StepFollows(i) \/ StepStarts(i) \/ PickServer(i) \/ RetryTimedOut(i)
             \/ HandleResponse(i) \/ HandleCname(i) \/ HandleChainEnd(i)
             \/ HandleReferral(i) \/ HandleLame(i)
    <2>1. Goes(i)
      BY <1>2, <1>4, FollowsTurn, StartsTurn, PickTurn, RetryTurn, ResponseTurn, CnameTurn,
         ReferralTurn, Zenon
    <2> QED BY <1>1, <2>1
  <1> QED BY <1>3, <1>4, Zenon DEF StepsOn

\* The steps of the thread inside the resolver.
LEMMA InsideSteps ==
  Inside => \E i \in TaskIds :
              \/ StepsOn(i) \/ LookUpNameServer(i) \/ SendQuery(i) \/ OnChildDone(i)
              \/ Finish(i) \/ Cancel(i) \/ \E c \in Clients : CallBack(i, c)
  BY Zenon DEF Inside, StepsOn

\* Every step of the resolver.
LEMMA WalkNext ==
  /\ TasksInv /\ ResolutionSound /\ ResolutionSound' /\ TasksInZone /\ BelievedInZone
  /\ Walk /\ [Next]_vars
  => Walk'
  <1> SUFFICES ASSUME TasksInv, ResolutionSound, ResolutionSound', TasksInZone, BelievedInZone,
                      Walk, [Next]_vars
               PROVE  Walk'
    OBVIOUS
  <1>1. ASSUME NEW i \in TaskIds, UpstreamAnswers(i) PROVE Walk'
    <2>1. PICK e \in pending : OnResponse(i, e[2])
      BY <1>1, Zenon DEF UpstreamAnswers
    <2>2. e[2] \in Queries /\ i \in live
      BY <1>1, <2>1, PendingParts, Zenon DEF UpstreamAnswers
    <2> QED BY <2>1, <2>2, ResponseKeeps, Zenon
  <1>2. ASSUME NEW i \in TaskIds, StepsOn(i) PROVE Walk'
    BY <1>2, StepsGo, GoesKeeps, Zenon
  <1>3. CASE Inside
    BY <1>2, <1>3, InsideSteps, LookUpKeeps, SendKeeps, EndingLeaves, ChildKeeps, Zenon
  <1> QED BY <1>1, <1>3, ResolveKeeps, OutsideKeeps, Zenon DEF Next

\* At first there are no tasks.
LEMMA WalkInit == Init => Walk
  <1> SUFFICES ASSUME Init PROVE Walk
    OBVIOUS
  <1>1. /\ live = {} /\ pending = {} /\ call = [fn |-> "idle", id |-> None, top |-> None]
        /\ res = [i \in TaskIds |-> None] /\ at = Nowhere
    BY Zenon DEF Init, TasksInit
  <1>2. call.fn # "run"
    BY <1>1
  <1>3. PlaceKept
    BY <1>1, <1>2, PlacesTyped, Zenon DEF PlaceKept
  <1>4. TasksOrderly
    BY <1>1 DEF TasksOrderly
  <1>5. PendingCurrent /\ TasksNested
    BY <1>1, Zenon DEF PendingCurrent, TasksNested
  <1> QED BY <1>3, <1>4, <1>5, Zenon DEF Walk

\* A reply is judged against the name and the zone it was asked about: the query a task
\* waits for is for its name, to a server of its zone that counts as tried and has not
\* timed out, and in the stub zones the name is in, however CNAMEs, referrals, retries
\* and sub-queries interleave.
THEOREM QueriesCurrent == Spec => []QueryIsCurrent
  <1>1. TasksInv /\ TasksInZone /\ Walk => QueryIsCurrent
    <2> SUFFICES ASSUME TasksInv, TasksInZone, Walk, NEW e \in pending
                 PROVE  /\ Current(res[e[1]], question[e[1]].qtype, e[2])
                        /\ \A z \in DOMAIN Stubs :
                             IsSubdomainOf(e[2].qname, z) => IsSubdomainOf(res[e[1]].zone, z)
      BY Zenon DEF QueryIsCurrent, Current
    <2>1. Current(res[e[1]], question[e[1]].qtype, e[2])
      BY Zenon DEF Walk, PendingCurrent
    <2>2. InZone(res[e[1]])
      BY QueryOwner, TasksInZoneUnfolded, Zenon DEF Asks, WaitsForServer
    <2> QED BY <2>1, <2>2, Zenon DEF InZone, Current
  <1> QED BY <1>1, InZoneInit, InZoneNext, WalkInit, WalkNext, ResolverCorrect, PTL DEF Spec

----------------------------------------------------------------------------
(* The types of the cache and of no_0x20_, and AncestryCurrent *)

TypedSlots(new) == \A k \in DOMAIN new : new[k] \in Entry

CacheTyped == cache \in [Keys -> Entry \cup {None}] /\ no_0x20 \subseteq Addresses

\* What Cache::insert() is given.
LEMMA EntriesTyped ==
  ASSUME NEW rrs \in SUBSET RR
  PROVE  /\ Positive(Glue, rrs) \in Entry /\ Positive(Authority, rrs) \in Entry
         /\ \A m : Positive(Rank(m), rrs) \in Entry
         /\ Negative(rrs) \in Entry
  BY DEF Entry, Positive, Negative, Rank, Glue, Authority, Answer

\* One entry, none, and two inserts in one.
LEMMA SlotsTyped ==
  /\ \A k, e : e \in Entry => TypedSlots(Slot(k, e))
  /\ TypedSlots(NoSlots)
  /\ \A f, g : TypedSlots(f) /\ TypedSlots(g) => TypedSlots(Join2(f, g))
  BY DEF TypedSlots, Slot, NoSlots, Join2

\* cache_glue() inserts address records.
LEMMA GlueTyped ==
  ASSUME NEW additional \in SUBSET RR, NEW ns
  PROVE  TypedSlots(cache_glue(additional, ns))
  <1> SUFFICES ASSUME NEW k \in DOMAIN cache_glue(additional, ns)
               PROVE  cache_glue(additional, ns)[k] \in Entry
    BY Zenon DEF TypedSlots
  <1>1. cache_glue(additional, ns)[k] = Positive(Glue, collect(additional, k[1], "A"))
    BY DEF cache_glue
  <1>2. collect(additional, k[1], "A") \in SUBSET RR
    BY DEF collect
  <1> QED BY <1>1, <1>2, EntriesTyped, Zenon

\* Cache::insert().
LEMMA InsertTyped ==
  ASSUME cache \in [Keys -> Entry \cup {None}], NEW new, TypedSlots(new), cache' = Insert(new)
  PROVE  cache' \in [Keys -> Entry \cup {None}]
  BY DEF Insert, TypedSlots

\* handle_response() on the message in hand.
LEMMA HandlingTyped ==
  ASSUME TasksInv, ResolutionSound, cache \in [Keys -> Entry \cup {None}],
         NEW i \in TaskIds, AtAnswersOf(i),
         \/ HandleAnswer(i) \/ HandleCname(i)
         \/ HandleNxDomain(i) \/ HandleNoData(i) \/ HandleReferral(i)
  PROVE  cache' \in [Keys -> Entry \cup {None}]
  <1>1. \A rr \in at.msg.answers \cup at.msg.authority \cup at.msg.additional : rr \in RR
    BY AnswersFacts, Zenon DEF SoundRR
  <1>2. at.msg.additional \in SUBSET RR
    BY <1>1, Zenon
  <1>3. \A n, ty : /\ collect(at.msg.answers, n, ty) \in SUBSET RR
                  /\ collect(at.msg.authority, n, ty) \in SUBSET RR
    BY <1>1, Zenon DEF collect
  <1>4. SUFFICES (cache' = cache) \/ \E new : TypedSlots(new) /\ cache' = Insert(new)
    BY <1>4, InsertTyped, Zenon
  <1>5. CASE HandleAnswer(i)
    <2>1. PICK k, rrs, glue :
            /\ rrs = RRset(i)
            /\ cache' = Insert(Join2(Slot(k, Positive(Rank(at.msg), rrs)), glue))
            /\ glue = cache_glue(at.msg.additional, rrs) \/ glue = NoSlots
      BY <1>5, Zenon DEF HandleAnswer
    <2>2. rrs \in SUBSET RR
      BY <1>3, <2>1, Zenon DEF RRset
    <2>3. TypedSlots(Slot(k, Positive(Rank(at.msg), rrs)))
      BY <2>2, EntriesTyped, SlotsTyped, Zenon
    <2>4. TypedSlots(glue)
      BY <1>2, <2>1, GlueTyped, SlotsTyped, Zenon
    <2> QED BY <2>1, <2>3, <2>4, SlotsTyped, Zenon
  <1>6. CASE HandleCname(i)
    <2>1. PICK rr, k : rr \in Cnames(i) /\ cache' = Insert(Slot(k, Positive(Rank(at.msg), {rr})))
      BY <1>6, Zenon DEF HandleCname
    <2>2. {rr} \in SUBSET RR
      BY <1>1, <2>1, Zenon DEF Cnames, collect
    <2> QED BY <2>1, <2>2, EntriesTyped, SlotsTyped, Zenon
  <1>7. CASE HandleNxDomain(i) \/ HandleNoData(i)
    <2>1. PICK proof, k :
            /\ proof \in IF Soa(i) = {} THEN {{}} ELSE {{rr} : rr \in Soa(i)}
            /\ cache' = cache \/ (proof # {} /\ cache' = Insert(Slot(k, Negative(proof))))
      BY <1>7, Zenon DEF HandleNxDomain, HandleNoData, Deny
    <2>2. proof \in SUBSET RR
      BY <1>1, <2>1, Zenon DEF Soa, find_soa
    <2> QED BY <2>1, <2>2, EntriesTyped, SlotsTyped, Zenon
  <1>8. CASE HandleReferral(i)
    <2>1. PICK owner, ns :
            /\ ns = collect(at.msg.authority, owner, "NS")
            /\ \/ cache' = cache
               \/ cache' = Insert(Join2(Slot(<<owner, "NS">>, Positive(Authority, ns)),
                                        cache_glue(at.msg.additional, ns)))
      BY <1>8, Zenon DEF HandleReferral, referral_ns
    <2>2. TypedSlots(Slot(<<owner, "NS">>, Positive(Authority, ns)))
      BY <1>3, <2>1, EntriesTyped, SlotsTyped, Zenon
    <2>3. TypedSlots(cache_glue(at.msg.additional, ns))
      BY <1>2, GlueTyped, Zenon
    <2> QED BY <2>1, <2>2, <2>3, SlotsTyped, Zenon
  <1> QED BY <1>5, <1>6, <1>7, <1>8, Zenon

\* Only a server that was asked is found not to echo letter case.
LEMMA CaseTyped ==
  ASSUME TasksInv, no_0x20 \subseteq Addresses, Next
  PROVE  no_0x20' \subseteq Addresses
  <1>1. ASSUME NEW i \in TaskIds, UpstreamAnswers(i) PROVE no_0x20' \subseteq Addresses
    <2>1. PICK e \in pending : OnResponse(i, e[2])
      BY <1>1, Zenon DEF UpstreamAnswers
    <2>2. e[2].server \in Addresses
      BY PendingParts, QueryParts, Zenon
    <2> QED BY <2>1, <2>2, Zenon DEF OnResponse, OnSpoofSuspected, OnCaseMismatch, OnTimeout,
               OnNetworkError, OnReply
  <1>2. CASE Inside
    <2>1. PICK i \in TaskIds :
            \/ StepsOn(i) \/ LookUpNameServer(i) \/ SendQuery(i) \/ OnChildDone(i)
            \/ Finish(i) \/ Cancel(i) \/ \E c \in Clients : CallBack(i, c)
      BY <1>2, InsideSteps, Zenon
    <2>2. CASE StepsOn(i)
      BY <2>2, Zenon
      DEF StepsOn, StepAnswers, StepFollows, StepStarts, PickServer, RetryTimedOut, GiveUp,
          HandleResponse, HandleAnswer, HandleCname, HandleChainEnd, HandleNxDomain,
          HandleReferral, HandleNoData, HandleLame, Deny
    <2> QED BY <2>1, <2>2, Zenon
            DEF LookUpNameServer, SendQuery, OnChildDone, Finish, Cancel, CallBack
  <1>3. CASE \/ \E c \in Clients, q \in Questions : Resolve(c, q)
             \/ \E i \in TaskIds : Start(i) \/ Deadline(i)
             \/ \E k \in Keys : Expire(k)
             \/ DestroyResolver \/ CreateResolver
    BY <1>3, Zenon DEF Resolve, Start, Deadline, Expire, DestroyResolver, CreateResolver, resVars
  <1> QED BY <1>1, <1>2, <1>3, Zenon DEF Next

\* Every step of the resolver.
LEMMA CacheTypedNext == TasksInv /\ ResolutionSound /\ CacheTyped /\ [Next]_vars => CacheTyped'
  <1> SUFFICES ASSUME TasksInv, ResolutionSound, CacheTyped, [Next]_vars PROVE CacheTyped'
    OBVIOUS
  <1>1. ASSUME NEW k \in Keys, Expire(k) PROVE cache' \in [Keys -> Entry \cup {None}]
    <2>1. cache' = [cache EXCEPT ![k] = None]
      BY <1>1, Zenon DEF Expire
    <2> QED BY <2>1 DEF CacheTyped
  <1>2. CASE Next
    BY <1>1, <1>2, CacheChanges, HandlingTyped, CaseTyped, Zenon DEF CacheTyped
  <1>3. CASE UNCHANGED vars
    BY <1>3, Zenon DEF CacheTyped, vars, resVars
  <1> QED BY <1>2, <1>3

\* Cycle detection is never misled: what a sub-query records of its ancestors is what
\* they still work on, no sub-query repeats one of these questions, the nesting stays
\* within kMaxSubqueryDepth; and every variable of the resolver keeps its type.
THEOREM AncestryKept == Spec => []AncestryCurrent
  <1>1. TasksInv /\ Walk /\ CacheTyped => AncestryCurrent
    <2> SUFFICES ASSUME TasksInv, Walk, CacheTyped PROVE AncestryCurrent
      OBVIOUS
    <2>1. \A i \in TaskIds : res[i] # None <=> i \in live
      BY TaskIsSomething, Zenon DEF Walk, TasksOrderly, Orderly
    <2>2. TypeOK
      BY <2>1, Zenon DEF TypeOK, TasksInv, Walk, TasksOrderly, PlaceKept, CacheTyped
    <2> QED BY <2>2, Zenon DEF AncestryCurrent, Walk, TasksNested, Nested
  <1>2. Init => CacheTyped
    BY DEF Init, CacheTyped
  <1> QED BY <1>1, <1>2, CacheTypedNext, InZoneInit, InZoneNext, WalkInit, WalkNext,
             ResolverCorrect, PTL DEF Spec

----------------------------------------------------------------------------
(* OnlyTimedOutRetried *)

\* What OnlyTimedOutRetried says of a task.
TriedHeld(j) ==
  res'[j].zone = res[j].zone /\ at.fn # "step" =>
    \A s \in res[j].tried \ res'[j].tried :
      s \in res[j].timed_out \/ (at' = AtSend(s, FALSE) /\ s \in no_0x20')

\* A task whose state stays, or forgets only servers that timed out.
LEMMA HeldBy ==
  ASSUME NEW j, \/ res'[j] = res[j]
                \/ at.fn = "step" \/ TriedKept(res[j], res'[j])
                \/ res[j].tried \subseteq res'[j].tried
  PROVE  TriedHeld(j)
  BY Zenon DEF TriedHeld, TriedKept

\* Only task i takes a new state u.
LEMMA OnlyOne ==
  ASSUME TasksOrderly, NEW i \in TaskIds, NEW u, res' = [res EXCEPT ![i] = u], live \subseteq TaskIds
  PROVE  res'[i] = u /\ \A j \in live : j # i => res'[j] = res[j]
  <1>1. DOMAIN res = TaskIds
    BY DEF TasksOrderly
  <1> QED BY <1>1

\* The steps that neither ask nor spawn.
LEMMA StepsHold ==
  ASSUME TasksInv, TasksOrderly, NEW i \in TaskIds, Goes(i)
  PROVE  \A j \in live \cap live' : TriedHeld(j)
  <1>1. live \subseteq TaskIds
    BY Zenon DEF TasksInv, TasksTypeOK
  <1>2. CASE res' = res
    BY <1>2, HeldBy, Zenon
  <1>3. ASSUME NEW u, NEW b, Continue(i, u, b), Turn(res[i], at, u, b)
        PROVE  \A j \in live \cap live' : TriedHeld(j)
    <2>1. res' = [res EXCEPT ![i] = u]
      BY <1>3, Zenon DEF Continue
    <2>2. res'[i] = u /\ \A j \in live : j # i => res'[j] = res[j]
      BY <1>1, <2>1, OnlyOne, Zenon
    <2>3. TriedHeld(i)
      BY <1>3, <2>2, HeldBy, Zenon DEF Turn
    <2> QED BY <2>2, <2>3, HeldBy, Zenon
  <1> QED BY <1>2, <1>3, Zenon DEF Goes

\* send_query(): the server asked counts as tried.
LEMMA SendHolds ==
  ASSUME TasksInv, Walk, NEW i \in TaskIds, SendQuery(i)
  PROVE  \A j \in live \cap live' : TriedHeld(j)
  <1>1. i \in live /\ live \subseteq TaskIds /\ TasksOrderly
    BY Zenon DEF SendQuery, TasksInv, TasksTypeOK, Walk
  <1>2. PICK t, x, u : /\ t = res[i] /\ x = IF at.tcp THEN t.tried ELSE t.tried \cup {at.server}
                       /\ u = [t EXCEPT !.tried = x]
    BY Zenon
  <1>3. res' = res \/ res' = [res EXCEPT ![i] = u]
    BY <1>2, Zenon DEF SendQuery
  <1>4. CASE res' = [res EXCEPT ![i] = u]
    <2>1. res'[i] = u /\ \A j \in live : j # i => res'[j] = res[j]
      BY <1>1, <1>4, OnlyOne, Zenon
    <2>2. "tried" \in DOMAIN t
      BY <1>1, <1>2, TaskDomain, Zenon DEF TasksOrderly, Orderly
    <2>3. u.tried = x
      BY <1>2, <2>2
    <2>4. t.tried \subseteq x
      BY <1>2, Zenon
    <2>5. TriedHeld(i)
      BY <1>2, <2>1, <2>3, <2>4, HeldBy, Zenon
    <2> QED BY <2>1, <2>5, HeldBy, Zenon
  <1> QED BY <1>3, <1>4, HeldBy, Zenon

\* on_response(): only the server that changed the letter case is forgotten, and it is
\* asked again at once, without 0x20.
LEMMA ResponseHolds ==
  ASSUME TasksInv, Walk, NEW i \in TaskIds, NEW m, i \in live, OnResponse(i, m)
  PROVE  \A j \in live \cap live' : TriedHeld(j)
  <1>1. live \subseteq TaskIds /\ TasksOrderly
    BY Zenon DEF TasksInv, TasksTypeOK, Walk
  <1>2. PICK t : t = res[i] /\ t \in TaskState
    BY <1>1, Zenon DEF TasksOrderly, Orderly
  <1>3. "tried" \in DOMAIN t /\ "timed_out" \in DOMAIN t
    BY <1>2, TaskDomain, Zenon
  <1>4. CASE OnCaseMismatch(i, m)
    <2>1. PICK x, u : x = t.tried \ {m.server} /\ u = [t EXCEPT !.tried = x]
      BY Zenon
    <2>2. /\ res' = [res EXCEPT ![i] = u] /\ at' = AtSend(m.server, FALSE)
          /\ no_0x20' = no_0x20 \cup {m.server}
      BY <1>2, <1>4, <2>1, Zenon DEF OnCaseMismatch
    <2>3. res'[i] = u /\ \A j \in live : j # i => res'[j] = res[j]
      BY <1>1, <2>2, OnlyOne, Zenon
    <2>4. u.tried = x
      BY <1>3, <2>1
    <2>5. \A s \in t.tried \ u.tried : s = m.server
      BY <2>1, <2>4, Zenon
    <2>6. TriedHeld(i)
      BY <1>2, <2>2, <2>3, <2>5, Zenon DEF TriedHeld
    <2> QED BY <2>3, <2>6, HeldBy, Zenon
  <1>5. CASE OnTimeout(i, m)
    <2>1. PICK x, u : x = t.timed_out \cup {m.server} /\ u = [t EXCEPT !.timed_out = x]
      BY Zenon
    <2>2. res' = [res EXCEPT ![i] = u]
      BY <1>2, <1>5, <2>1, Zenon DEF OnTimeout
    <2>3. res'[i] = u /\ \A j \in live : j # i => res'[j] = res[j]
      BY <1>1, <2>2, OnlyOne, Zenon
    <2>4. u.tried = t.tried
      BY <1>3, <2>1
    <2> QED BY <1>2, <2>3, <2>4, HeldBy, Zenon
  <1>6. CASE OnSpoofSuspected(i, m) \/ OnNetworkError(i, m) \/ \E reply \in Messages : OnReply(i, m, reply)
    BY <1>6, HeldBy, Zenon DEF OnSpoofSuspected, OnNetworkError, OnReply
  <1> QED BY <1>4, <1>5, <1>6, Zenon DEF OnResponse

\* A sub-query is spawned, or its name dropped.
LEMMA LookUpHolds ==
  ASSUME TasksInv, Walk, NEW i \in TaskIds, LookUpNameServer(i)
  PROVE  \A j \in live \cap live' : TriedHeld(j)
  <1>1. i \in live /\ live \subseteq TaskIds /\ TasksOrderly /\ Orderly(res[i])
    BY Zenon DEF LookUpNameServer, AtNextServer, TasksInv, TasksTypeOK, Walk, TasksOrderly
  <1>2. PICK n, t : /\ t = Taken(res[i], n)
                    /\ \/ Continue(i, t, At("next_server"))
                       \/ /\ SpawnChild(i, AddressQuestion(n))
                          /\ res' = [res EXCEPT ![i] = [t EXCEPT !.glueless_lookups = @ + 1],
                                     ![NewId] = NewTask(AddressQuestion(n), Append(t.ancestry, Working(i)))]
    BY ZenonT(30) DEF LookUpNameServer
  <1>3. Turn(res[i], at, t, At("next_server"))
    BY <1>1, <1>2, TakenTurn, Zenon
  <1>4. CASE Continue(i, t, At("next_server"))
    BY <1>1, <1>3, <1>4, StepsHold, Zenon DEF Goes
  <1>5. PICK q, w : q = AddressQuestion(n) /\ w = Append(t.ancestry, Working(i))
    BY Zenon
  <1>6. CASE /\ SpawnChild(i, q)
             /\ res' = [res EXCEPT ![i] = [t EXCEPT !.glueless_lookups = @ + 1],
                                   ![NewId] = NewTask(q, w)]
    <2>1. PICK k, v, new : /\ k = NewId /\ v = [t EXCEPT !.glueless_lookups = @ + 1]
                           /\ new = NewTask(q, w)
      BY Zenon
    <2>2. k \in TaskIds /\ k \notin live
      BY <1>6, <2>1, NewIdFree, Zenon DEF SpawnChild, spawn
    <2>3. res' = [res EXCEPT ![i] = v, ![k] = new] /\ k # i
      BY <1>1, <1>6, <2>1, <2>2, Zenon
    <2>4. res'[i] = v /\ \A j \in live : j # i => res'[j] = res[j]
      <3>1. DOMAIN res = TaskIds
        BY <1>1 DEF TasksOrderly
      <3> QED BY <1>1, <2>2, <2>3, <3>1
    <2>5. t \in TaskState /\ at.fn = "next_server"
      BY <1>3, Zenon DEF Turn, Orderly, LookUpNameServer, AtNextServer
    <2>6. "tried" \in DOMAIN t /\ "zone" \in DOMAIN t
      BY <2>5, TaskDomain, Zenon
    <2>7. v.tried = t.tried /\ v.zone = t.zone
      BY <2>1, <2>6
    <2>8. TriedKept(res[i], v)
      <3>1. TriedKept(res[i], t)
        BY <1>3, <2>5 DEF Turn
      <3> QED BY <2>7, <3>1, Zenon DEF TriedKept
    <2>9. TriedHeld(i)
      BY <2>4, <2>8, HeldBy, Zenon
    <2> QED BY <2>4, <2>9, HeldBy, Zenon
  <1> QED BY <1>2, <1>4, <1>5, <1>6, Zenon

\* on_child_done() adds servers.
LEMMA ChildHolds ==
  ASSUME TasksInv, Walk, NEW i \in TaskIds, OnChildDone(i)
  PROVE  \A j \in live \cap live' : TriedHeld(j)
  <1>1. live \subseteq TaskIds /\ TasksOrderly
    BY Zenon DEF TasksInv, TasksTypeOK, Walk
  <1>2. call.fn = "done" /\ call.id = i /\ parent[i] # None
    BY Zenon DEF OnChildDone, on_child_done, IsClient
  <1>3. PICK p \in live : p = parent[i]
    BY <1>2, Zenon DEF TasksInv, ThreadConsistent
  <1>4. PICK t, u : t = res[p] /\ u = [t EXCEPT !.servers = @ \cup ipv4_addresses(result.records)]
    BY Zenon
  <1>5. res' = res \/ res' = [res EXCEPT ![p] = u]
    BY <1>3, <1>4, Zenon DEF OnChildDone
  <1>6. CASE res' = [res EXCEPT ![p] = u]
    <2>1. res'[p] = u /\ \A j \in live : j # p => res'[j] = res[j]
      BY <1>1, <1>3, <1>6, OnlyOne, Zenon
    <2>2. "tried" \in DOMAIN t
      BY <1>1, <1>4, TaskDomain, Zenon DEF TasksOrderly, Orderly
    <2>3. u.tried = t.tried
      BY <1>4, <2>2
    <2>4. TriedHeld(p)
      BY <1>4, <2>1, <2>3, HeldBy, Zenon
    <2> QED BY <2>1, <2>4, HeldBy, Zenon
  <1> QED BY <1>5, <1>6, HeldBy, Zenon

\* The steps that only start or end tasks.
LEMMA OthersHold ==
  ASSUME TasksInv, Walk,
         \/ \E c \in Clients, q \in Questions : Resolve(c, q)
         \/ \E i \in TaskIds : Start(i) \/ Deadline(i)
         \/ \E i \in TaskIds : Finish(i) \/ Cancel(i) \/ \E c \in Clients : CallBack(i, c)
         \/ \E k \in Keys : Expire(k)
         \/ DestroyResolver \/ CreateResolver
  PROVE  \A j \in live \cap live' : TriedHeld(j)
  <1>1. live \subseteq TaskIds /\ TasksOrderly
    BY Zenon DEF TasksInv, TasksTypeOK, Walk
  <1>2. ASSUME NEW c \in Clients, NEW q \in Questions, Resolve(c, q)
        PROVE  \A j \in live \cap live' : TriedHeld(j)
    <2>1. PICK k, new : k = NewId /\ new = NewTask(q, <<>>)
      BY Zenon
    <2>2. \/ res' = res
          \/ res' = [res EXCEPT ![k] = new] /\ k \in TaskIds /\ k \notin live
      BY <1>2, <2>1, NewIdFree, Zenon DEF Resolve, resolve_client, Join, StartNew, spawn
    <2> QED BY <1>1, <2>2, OnlyOne, HeldBy, Zenon
  <1>3. ASSUME NEW i \in TaskIds, Finish(i) \/ Cancel(i)
        PROVE  \A j \in live \cap live' : TriedHeld(j)
    <2>1. finish(i) \/ cancel(i)
      BY <1>3, Zenon DEF Finish, Cancel
    <2>2. \A j \in live' : j # i
      BY <2>1, EndingKeeps, Zenon
    <2>3. PICK u : u = None /\ res' = [res EXCEPT ![i] = u]
      BY <1>3, Zenon DEF Finish, Cancel
    <2> QED BY <1>1, <2>2, <2>3, OnlyOne, HeldBy, Zenon
  <1>4. CASE DestroyResolver
    BY <1>4, Zenon DEF DestroyResolver, Destroy
  <1>5. CASE \/ \E i \in TaskIds : Start(i) \/ Deadline(i) \/ \E c \in Clients : CallBack(i, c)
             \/ \E k \in Keys : Expire(k)
             \/ CreateResolver
    <2>1. res' = res
      BY <1>5, Zenon DEF Start, Deadline, CallBack, Expire, CreateResolver, resVars
    <2> QED BY <2>1, HeldBy, Zenon
  <1> QED BY <1>2, <1>3, <1>4, <1>5, Zenon

\* A server that answered, however uselessly, is not asked again in the same zone:
\* `tried` forgets only servers that timed out (next_server()'s further rounds), and
\* the one on_response() asks again at once because it changed the letter case.
THEOREM TimedOutRetried == Spec => OnlyTimedOutRetried
  <1>1. TasksInv /\ ResolutionSound /\ ResolutionSound' /\ TasksInZone /\ BelievedInZone /\ Walk
          /\ [Next]_vars
        => [\A j \in live \cap live' : TriedHeld(j)]_vars
    <2> SUFFICES ASSUME TasksInv, ResolutionSound, ResolutionSound', TasksInZone, BelievedInZone,
                        Walk, Next
                 PROVE  \A j \in live \cap live' : TriedHeld(j)
      BY Zenon
    <2>1. ASSUME NEW i \in TaskIds, UpstreamAnswers(i)
          PROVE  \A j \in live \cap live' : TriedHeld(j)
      BY <2>1, ResponseHolds, Zenon DEF UpstreamAnswers
    <2>2. ASSUME NEW i \in TaskIds, StepsOn(i)
          PROVE  \A j \in live \cap live' : TriedHeld(j)
      BY <2>2, StepsGo, StepsHold, Zenon DEF Walk
    <2> QED BY <2>1, <2>2, InsideSteps, SendHolds, LookUpHolds, ChildHolds, OthersHold, Zenon DEF Next
  <1>2. [\A j \in live \cap live' : TriedHeld(j)]_vars
        => [\A i \in live \cap live' :
              res'[i].zone = res[i].zone /\ at.fn # "step" =>
                \A s \in res[i].tried \ res'[i].tried :
                  s \in res[i].timed_out \/ (at' = AtSend(s, FALSE) /\ s \in no_0x20')]_vars
    BY Zenon DEF TriedHeld
  <1> QED BY <1>1, <1>2, InZoneInit, InZoneNext, WalkInit, WalkNext, ResolverCorrect, PTL
          DEF Spec, OnlyTimedOutRetried
====

--------------------------- MODULE ResolverProofs ---------------------------
(***************************************************************************)
(* Iterative resolution implements the task lifecycle, whatever names,     *)
(* zones and servers there are and whatever the servers answer: every step *)
(* of Resolver is a step of ResolverTasks or changes nothing there.  What  *)
(* is proved of ResolverTasks, its invariant and the promise of            *)
(* ResolverService, then holds of the whole resolver.                      *)
(*                                                                         *)
(* The argument needs ResolutionSound: whatever a task is about to ask is  *)
(* a question or a query, because what it was told by messages, by the     *)
(* cache and by its sub-queries points at names and addresses.             *)
(***************************************************************************)
EXTENDS Resolver, ResolverTasksProofs

USE DEF Running, Idle
USE SMTT(60), SMTT(90)   \* a second try, should the machine be busy

----------------------------------------------------------------------------
(* Records and messages *)

\* What is asked for has a name and a type, and each such pair is a key of the cache.
LEMMA QuestionParts == \A q \in Questions : q.qname \in Names /\ q.qtype \in Types
  BY ResolverConstants

\* A query goes to a server, by UDP or by TCP.
LEMMA QueryParts == \A m \in Queries : m.server \in Addresses /\ m.tcp \in BOOLEAN
  BY ResolverConstants

\* Every name and type make a key of the cache.
LEMMA KeyParts == \A n \in Names, ty \in Types \cup {"A", "NS", "CNAME"} : <<n, ty>> \in Keys
  BY ResolverConstants DEF Keys

\* A name whose address may be asked for is a name.
LEMMA AskedIsName ==
  ASSUME NEW n, AddressQuestion(n) \in Questions PROVE n \in Names
  BY ResolverConstants DEF AddressQuestion

\* Whatever a server sends points at names and addresses.
LEMMA MessageSound == \A m \in Messages : SoundMessage(m)
  <1> SUFFICES ASSUME NEW m \in Messages,
                      NEW rr \in m.answers \cup m.authority \cup m.additional
               PROVE  SoundRR(rr)
    BY DEF SoundMessage
  <1>1. rr \in RR
    BY ResolverConstants
  <1>2. rr.type = "NS" => AddressQuestion(rr.data) \in Questions
    BY ResolverConstants
  <1> QED BY <1>1, <1>2 DEF SoundRR

\* filter_to_bailiwick() only leaves records out.
LEMMA FilterSound ==
  ASSUME NEW m \in Messages, NEW z PROVE SoundMessage(filter_to_bailiwick(m, z))
  <1>1. {"answers", "authority", "additional"} \subseteq DOMAIN m
    BY ResolverConstants
  <1>2. SoundMessage(m)
    BY MessageSound
  <1> QED BY <1>1, <1>2 DEF filter_to_bailiwick, SoundMessage

\* The addresses among sound records are addresses.
LEMMA AddressesSound ==
  ASSUME NEW rrs, \A rr \in rrs : SoundRR(rr) PROVE ipv4_addresses(rrs) \subseteq Addresses
  BY DEF ipv4_addresses, SoundRR, RR

----------------------------------------------------------------------------
(* The state of a task *)

\* spawn() makes a task at the start of its question, which no CNAME has led on.
LEMMA NewTaskSound ==
  ASSUME NEW q \in Questions, NEW a PROVE SoundTask(q, NewTask(q, a))
  <1>1. SoundChain(<<>>, 0, q.qname, q.qname)
    BY ResolverConstants DEF SoundChain, Links
  <1> QED BY <1>1, QuestionParts DEF SoundTask, NewTask

\* One more CNAME, starting where the chain ends, leads on; and where the counter
\* cannot wrap, it is counted and within the limit.
LEMMA ChainGrows ==
  ASSUME NEW chain, NEW hops, NEW n, NEW m, SoundChain(chain, hops, n, m),
         NEW rr \in RR, rr.name = m, (hops + 1) % HopWrap <= MaxCnameChain
  PROVE  SoundChain(Append(chain, rr), (hops + 1) % HopWrap, n, rr.data)
  <1>1. chain \in Seq(RR) /\ Links(chain, n, m)
    BY DEF SoundChain
  <1>2. Append(chain, rr) \in Seq(RR) /\ Len(Append(chain, rr)) = Len(chain) + 1
    BY <1>1
  <1>3. Links(Append(chain, rr), n, rr.data)
    <2> DEFINE c == Append(chain, rr)
    <2>1. /\ DOMAIN c = 1 .. Len(chain) + 1 /\ Len(chain) \in Nat /\ DOMAIN chain = 1 .. Len(chain)
          /\ c[Len(chain) + 1] = rr /\ \A k \in 1 .. Len(chain) : c[k] = chain[k]
          /\ c # <<>> /\ (chain = <<>> <=> Len(chain) = 0)
      <3>1. Len(chain) \in Nat /\ DOMAIN chain = 1 .. Len(chain)
        BY <1>1
      <3>2. DOMAIN c = 1 .. Len(chain) + 1
        BY <1>2
      <3>3. c[Len(chain) + 1] = rr /\ c # <<>> /\ \A k \in 1 .. Len(chain) : c[k] = chain[k]
        BY <1>1
      <3>4. chain = <<>> <=> Len(chain) = 0
        BY <1>1
      <3> QED BY <3>1, <3>2, <3>3, <3>4, Zenon
    <2>2. Len(c) = Len(chain) + 1
      BY <1>2
    <2>3. \A k \in 1 .. Len(chain) : chain[k].name = IF k = 1 THEN n ELSE chain[k - 1].data
      BY <1>1, <2>1, Zenon DEF Links
    <2>4. m = IF chain = <<>> THEN n ELSE chain[Len(chain)].data
      BY <1>1, Zenon DEF Links
    <2> HIDE DEF c
    <2>5. \A k \in 1 .. Len(chain) + 1 : c[k].name = IF k = 1 THEN n ELSE c[k - 1].data
      <3> TAKE k \in 1 .. Len(chain) + 1
      <3>1. CASE k = Len(chain) + 1
        BY <2>1, <2>4, <3>1
      <3>2. CASE k # Len(chain) + 1
        BY <2>1, <2>3, <3>2
      <3> QED BY <3>1, <3>2
    <2>6. rr.data = IF c = <<>> THEN n ELSE c[Len(c)].data
      BY <2>1, <2>2
    <2>7. Links(c, n, rr.data)
      BY <2>1, <2>5, <2>6 DEF Links
    <2> QED BY <2>7, Zenon DEF c
  <1>4. ASSUME MaxCnameChain + 1 < HopWrap
        PROVE  (hops + 1) % HopWrap = Len(chain) + 1
    <2>1. hops = Len(chain) /\ hops <= MaxCnameChain
      BY <1>4 DEF SoundChain
    <2>2. MaxCnameChain \in Nat /\ HopWrap \in Nat /\ hops \in Nat
      BY <1>1, <2>1, ResolverConstants
    <2> QED BY <1>4, <2>1, <2>2
  <1> QED BY <1>2, <1>3, <1>4 DEF SoundChain

\* follow_cname(): the target of an alias is a name.
LEMMA FollowedSound ==
  ASSUME NEW q, NEW t, SoundTask(q, t), CanFollow(t),
         NEW rr, SoundRR(rr), rr.type = "CNAME", rr.name = t.qname
  PROVE  SoundTask(q, Followed(t, rr))
  <1>1. SoundChain(Append(t.chain, rr), (t.hops + 1) % HopWrap, q.qname, rr.data)
    BY ChainGrows, Zenon DEF SoundTask, SoundRR, CanFollow
  <1>2. rr.data \in Names
    BY DEF SoundRR, RR
  <1>3. PICK chain, hops, n : /\ chain = Append(t.chain, rr)
                             /\ hops = (t.hops + 1) % HopWrap
                             /\ n = rr.data
    BY Zenon
  <1>4. Followed(t, rr) = [t EXCEPT !.hops = hops, !.chain = chain, !.qname = n]
    BY <1>3 DEF Followed
  <1>5. n \in Names /\ SoundChain(chain, hops, q.qname, n)
    BY <1>1, <1>2, <1>3
  <1> QED BY <1>4, <1>5 DEF SoundTask

\* reset_zone() forgets servers only: the chain and the name stay.
LEMMA ResetSound ==
  ASSUME NEW q, NEW t, SoundTask(q, t), NEW z
  PROVE  /\ SoundTask(q, reset_zone(t, z))
         /\ {"servers", "unresolved"} \subseteq DOMAIN reset_zone(t, z)
         /\ reset_zone(t, z).qname = t.qname
  BY DEF SoundTask, reset_zone

\* enter_zone(): servers come from glue, the cache or the root hints, and what is
\* left to look up are names of name servers.
LEMMA EnterSound ==
  ASSUME NEW q, NEW t, SoundTask(q, t), NEW z, NEW names, NEW glue, NEW c,
         \A n \in names : AddressQuestion(n) \in Questions,
         \A rr \in glue : SoundRR(rr),
         \A k \in Keys : SoundEntry(k, c[k])
  PROVE  SoundTask(q, enter_zone(t, z, names, glue, c))
  <1> DEFINE cached(n) == LET e == c[<<n, "A">>] IN
                          IF e = None THEN {} ELSE IF e.negative THEN {} ELSE ipv4_addresses(e.records)
             fresh(n)  == ipv4_addresses(collect(glue, n, "A"))
             known(n)  == IF fresh(n) # {} THEN fresh(n) ELSE cached(n)
             r == reset_zone(t, z)
             S == (UNION {known(n) : n \in names}) \cup (IF z = Root THEN RootServers ELSE {})
             U == {n \in names : known(n) = {}}
  <1>1. ASSUME NEW n \in names PROVE known(n) \subseteq Addresses
    <2>1. <<n, "A">> \in Keys
      BY AskedIsName, ResolverConstants DEF Keys
    <2>2. cached(n) \subseteq Addresses
      BY <2>1, AddressesSound DEF SoundEntry
    <2>3. fresh(n) \subseteq Addresses
      BY AddressesSound DEF collect
    <2> QED BY <2>2, <2>3
  <1>2. S \subseteq Addresses
    <2>1. RootServers \subseteq Addresses
      BY ResolverConstants
    <2> HIDE DEF known
    <2> QED BY <1>1, <2>1, ZenonT(30)
  <1>3. enter_zone(t, z, names, glue, c) = [r EXCEPT !.servers = S, !.unresolved = U]
    BY DEF enter_zone
  <1>4. \A n \in U : AddressQuestion(n) \in Questions
    OBVIOUS
  <1>5. SoundTask(q, r)
    BY ResetSound
  <1> HIDE DEF r, S, U
  <1> QED BY <1>2, <1>3, <1>4, <1>5 DEF SoundTask

\* The name servers the cache knows of a zone have names that can be asked for.
LEMMA CachedNsSound ==
  ASSUME CacheSound, NEW z \in Names, NEW n \in CachedNs(z)
  PROVE  AddressQuestion(n) \in Questions
  <1>1. <<z, "NS">> \in Keys
    BY ResolverConstants DEF Keys
  <1> QED BY <1>1 DEF CacheSound, SoundEntry, SoundRR, CachedNs

\* start_at_closest_zone(): a stub zone, a zone the cache knows, or the root.
LEMMA StartSound ==
  ASSUME CacheSound, NEW q, NEW t, SoundTask(q, t) PROVE SoundTask(q, start_at_closest_zone(t))
  <1> DEFINE cuts == {z \in Above[t.qname] : z \in DOMAIN Stubs \/ CachedNs(z) # {}}
             z == CHOOSE y \in cuts : cuts \subseteq Above[y]
  <1>1. t.qname \in Names /\ Above[t.qname] \subseteq Names
    BY ResolverConstants DEF SoundTask
  <1>2. ASSUME NEW y \in Names
        PROVE  SoundTask(q, enter_zone(t, y, CachedNs(y), {}, cache))
    BY CachedNsSound, EnterSound DEF CacheSound
  <1>3. SoundTask(q, enter_zone(t, Root, RootNs, {}, cache))
    BY EnterSound, ResolverConstants DEF CacheSound
  <1>4. ASSUME cuts # {} PROVE z \in Names
    <2>1. cuts \in SUBSET Above[t.qname]
      OBVIOUS
    <2> HIDE DEF cuts
    <2>2. \E y \in cuts : cuts \subseteq Above[y]
      <3>1. \A n \in Names : \A zs \in SUBSET Above[n] : zs # {} => \E y \in zs : zs \subseteq Above[y]
        BY ResolverConstants, Zenon
      <3>2. \A zs \in SUBSET Above[t.qname] : zs # {} => \E y \in zs : zs \subseteq Above[y]
        BY <1>1, <3>1, Zenon
      <3> QED BY <1>4, <2>1, <3>2, Zenon
    <2>3. z \in cuts
      BY <2>2
    <2> QED BY <1>1, <2>1, <2>3
  <1>5. ASSUME z \in DOMAIN Stubs PROVE SoundTask(q, [reset_zone(t, z) EXCEPT !.servers = Stubs[z]])
    <2>1. Stubs[z] \subseteq Addresses
      <3>1. \A y \in DOMAIN Stubs : Stubs[y] \subseteq Addresses
        BY ResolverConstants, Zenon
      <3> HIDE DEF z
      <3> QED BY <1>5, <3>1, Zenon
    <2> HIDE DEF z
    <2>2. SoundTask(q, reset_zone(t, z))
      BY ResetSound
    <2> QED BY <2>1, <2>2 DEF SoundTask
  <1>6. start_at_closest_zone(t) =
          IF cuts = {} THEN enter_zone(t, Root, RootNs, {}, cache)
          ELSE IF z \in DOMAIN Stubs THEN [reset_zone(t, z) EXCEPT !.servers = Stubs[z]]
          ELSE enter_zone(t, z, CachedNs(z), {}, cache)
    BY DEF start_at_closest_zone
  <1> HIDE DEF cuts, z
  <1> QED BY <1>2, <1>3, <1>4, <1>5, <1>6

----------------------------------------------------------------------------
(* The cache *)

\* Sound entries are inserted for these keys.
SoundSlots(new) == \A k \in DOMAIN new : SoundEntry(k, new[k])

\* insert() of sound entries.
LEMMA InsertSound ==
  ASSUME CacheSound, NEW new, SoundSlots(new), cache' = Insert(new) PROVE CacheSound'
  BY DEF CacheSound, SoundSlots, Insert

\* One sound entry.
LEMMA SlotSound ==
  ASSUME NEW k, NEW e, SoundEntry(k, e) PROVE SoundSlots(Slot(k, e))
  BY DEF SoundSlots, Slot

\* Two inserts of sound entries are one.
LEMMA JoinSound ==
  ASSUME NEW f, NEW g, SoundSlots(f), SoundSlots(g) PROVE SoundSlots(Join2(f, g))
  BY DEF SoundSlots, Join2

\* cache_glue(): addresses under the names of name servers.
LEMMA GlueSound ==
  ASSUME NEW add, \A rr \in add : SoundRR(rr), NEW ns PROVE SoundSlots(cache_glue(add, ns))
  BY DEF SoundSlots, cache_glue, SoundEntry, Positive, collect

\* Records collected for one type are a sound entry of that type.
LEMMA PositiveSound ==
  ASSUME NEW n, NEW ty, NEW trust, NEW rrs,
         \A rr \in rrs : rr.name = n /\ rr.type = ty /\ SoundRR(rr)
  PROVE  SoundEntry(<<n, ty>>, Positive(trust, rrs))
  BY DEF SoundEntry, Positive

\* A negative entry has no records.
LEMMA NegativeSound ==
  ASSUME NEW k, NEW proof PROVE SoundEntry(k, Negative(proof))
  BY DEF SoundEntry, Negative

----------------------------------------------------------------------------
(* Steps of the resolution are steps of the tasks *)

\* What the upstream client reports on is a query.
LEMMA PendingParts == TasksInv => \A e \in pending : e[2] \in Queries
  BY DEF TasksInv, TasksTypeOK

\* What SendQuery asks is a query.
LEMMA SendsQuery ==
  ASSUME TasksInv, ResolutionSound, NEW i \in TaskIds, SendQuery(i)
  PROVE  GoFinish(i) \/ \E m \in Queries : send_query(i, m)
  <1>1. i \in live /\ at.fn = "send_query"
    BY DEF SendQuery
  <1>2. at.server \in Addresses /\ at.tcp \in BOOLEAN /\ res[i].qname \in Names
    BY <1>1 DEF ResolutionSound, TasksSound, SoundTask, SoundStep
  <1>3. question[i].qtype \in Types
    BY <1>1, QuestionParts, Zenon DEF TasksInv, InFlightExact
  <1>4. MixCase(at.server, at.tcp) \in BOOLEAN
    BY DEF MixCase
  <1>5. PICK m : m = [server |-> at.server, tcp |-> at.tcp,
                      x20 |-> MixCase(at.server, at.tcp),
                      qname |-> res[i].qname, qtype |-> question[i].qtype]
    BY Zenon
  <1>6. m \in Queries
    BY <1>2, <1>3, <1>4, <1>5, ResolverConstants
  <1>7. CASE queries[budget[i]] >= MaxUpstreamQueries
    BY <1>7 DEF SendQuery, End
  <1>8. CASE ~(queries[budget[i]] >= MaxUpstreamQueries)
    <2>1. send_query(i, m)
      BY <1>5, <1>8 DEF SendQuery, send_query
    <2> QED BY <1>6, <2>1
  <1> QED BY <1>7, <1>8

\* Every step of the resolver is a step of its tasks, or leaves them alone.
LEMMA TasksStep ==
  TasksInv /\ ResolutionSound /\ [Next]_vars => [TasksNext]_taskVars
  <1> SUFFICES ASSUME TasksInv, ResolutionSound, [Next]_vars PROVE TasksNext \/ UNCHANGED taskVars
    OBVIOUS
  <1>1. ASSUME NEW c \in Clients, NEW q \in Questions, Resolve(c, q) PROVE TasksNext
    BY <1>1 DEF Resolve, TasksNext
  <1>2. ASSUME NEW i \in TaskIds, Start(i) \/ Deadline(i) PROVE TasksNext
    BY <1>2 DEF Start, Deadline, TasksNext
  <1>3. ASSUME NEW i \in TaskIds, UpstreamAnswers(i) PROVE TasksNext
    <2>1. PICK e \in pending : OnResponse(i, e[2])
      BY <1>3 DEF UpstreamAnswers
    <2>2. e[2] \in Queries
      BY <2>1, PendingParts, Zenon
    <2>3. on_response(i, e[2])
      BY <2>1, Zenon DEF OnResponse, OnSpoofSuspected, OnCaseMismatch, OnTimeout, OnNetworkError, OnReply
    <2> QED BY <2>2, <2>3 DEF TasksNext
  <1>4. ASSUME NEW i \in TaskIds,
               \/ StepAnswers(i) \/ StepFollows(i) \/ StepStarts(i) \/ PickServer(i)
               \/ RetryTimedOut(i) \/ GiveUp(i)
               \/ HandleResponse(i) \/ HandleAnswer(i) \/ HandleCname(i) \/ HandleChainEnd(i)
               \/ HandleNxDomain(i) \/ HandleReferral(i) \/ HandleNoData(i) \/ HandleLame(i)
        PROVE  GoFinish(i) \/ UNCHANGED taskVars
    <2>1. CASE StepAnswers(i) \/ StepFollows(i) \/ StepStarts(i)
      BY <2>1, Zenon DEF StepAnswers, StepFollows, StepStarts, Continue, End
    <2>2. CASE PickServer(i) \/ RetryTimedOut(i) \/ GiveUp(i)
      BY <2>2, Zenon DEF PickServer, RetryTimedOut, GiveUp, Continue, End
    <2>3. CASE HandleResponse(i) \/ HandleAnswer(i) \/ HandleCname(i) \/ HandleChainEnd(i)
      BY <2>3, Zenon DEF HandleResponse, HandleAnswer, HandleCname, HandleChainEnd, Continue, End
    <2>4. CASE HandleNxDomain(i) \/ HandleNoData(i) \/ HandleLame(i)
      BY <2>4, Zenon DEF HandleNxDomain, HandleNoData, HandleLame, Deny, Continue, End
    <2>5. CASE HandleReferral(i)
      BY <2>5, Zenon DEF HandleReferral, Continue, End
    <2> QED BY <1>4, <2>1, <2>2, <2>3, <2>4, <2>5
  <1>5. ASSUME NEW i \in TaskIds, LookUpNameServer(i) PROVE TasksNext \/ UNCHANGED taskVars
    <2>1. PICK n \in res[i].unresolved :
            SpawnChild(i, AddressQuestion(n)) \/ UNCHANGED taskVars
      BY <1>5, Zenon DEF LookUpNameServer, Continue
    <2>2. i \in live
      BY <1>5 DEF LookUpNameServer, AtNextServer
    <2>3. AddressQuestion(n) \in Questions
      BY <2>1, <2>2, Zenon DEF ResolutionSound, TasksSound, SoundTask
    <2> QED BY <2>1, <2>3, Zenon DEF TasksNext
  <1>6. ASSUME NEW i \in TaskIds,
               Finish(i) \/ Cancel(i) \/ (\E c \in Clients : CallBack(i, c)) \/ OnChildDone(i)
        PROVE  TasksNext
    BY <1>6 DEF Finish, Cancel, CallBack, OnChildDone, TasksNext
  <1>7. CASE Inside
    <2>1. PICK i \in TaskIds :
            \/ StepAnswers(i) \/ StepFollows(i) \/ StepStarts(i)
            \/ PickServer(i) \/ LookUpNameServer(i) \/ RetryTimedOut(i) \/ GiveUp(i)
            \/ SendQuery(i)
            \/ HandleResponse(i) \/ HandleAnswer(i) \/ HandleCname(i) \/ HandleChainEnd(i)
            \/ HandleNxDomain(i) \/ HandleReferral(i) \/ HandleNoData(i) \/ HandleLame(i)
            \/ Finish(i) \/ Cancel(i) \/ (\E c \in Clients : CallBack(i, c)) \/ OnChildDone(i)
      BY <1>7 DEF Inside
    <2> QED BY <2>1, <1>4, <1>5, <1>6, SendsQuery, ZenonT(30) DEF TasksNext
  <1>8. CASE (\E k \in Keys : Expire(k)) \/ UNCHANGED vars
    BY <1>8, Zenon DEF Expire, vars
  <1>9. CASE DestroyResolver \/ CreateResolver
    BY <1>9 DEF DestroyResolver, CreateResolver, TasksNext
  <1> QED BY <1>1, <1>2, <1>3, <1>7, <1>8, <1>9 DEF Next

----------------------------------------------------------------------------
(* Steps of the resolution keep it sound *)

\* A step that does not write to the cache.
LEMMA CacheSame == ASSUME CacheSound, cache' = cache PROVE CacheSound'
  BY DEF CacheSound

\* A step that leaves the tasks alone.
LEMMA TasksSame ==
  ASSUME TasksSound, res' = res, live' = live, question' = question PROVE TasksSound'
  BY DEF TasksSound

\* A step that leaves the outcome alone.
LEMMA ResultSame == ASSUME ResultSound, result' = result PROVE ResultSound'
  BY DEF ResultSound

\* A step that replaces one task by a sound one.
LEMMA TaskReplaced ==
  ASSUME TasksSound, NEW i \in TaskIds, NEW t, SoundTask(question[i], t),
         res' = [res EXCEPT ![i] = t], live' = live, question' = question
  PROVE  TasksSound'
  BY DEF TasksSound

\* A step that leaves the tasks that stay as they are.
LEMMA TasksKept ==
  ASSUME TasksSound, DOMAIN res' = TaskIds,
         \A j \in live' : j \in live /\ res'[j] = res[j] /\ question'[j] = question[j]
  PROVE  TasksSound'
  BY Zenon DEF TasksSound

\* Where a step may lead next.
LEMMA PlacesSound == SoundStep(Nowhere) /\ SoundStep(At("step")) /\ SoundStep(At("next_server"))
  BY DEF SoundStep, Nowhere, At

\* send_query() to a server.
LEMMA AtSendSound ==
  ASSUME NEW s \in Addresses, NEW tcp \in BOOLEAN PROVE SoundStep(AtSend(s, tcp))
  BY DEF SoundStep, AtSend

\* handle_response() of what a server sent.
LEMMA AtHandleSound ==
  ASSUME NEW s \in Addresses, NEW tcp \in BOOLEAN, NEW m \in Messages
  PROVE  SoundStep(AtHandle(s, tcp, m))
  BY DEF SoundStep, AtHandle

\* handle_answers() of what is left of it.
LEMMA AtAnswersSound ==
  ASSUME NEW m, SoundMessage(m), NEW f PROVE SoundStep(AtAnswers(m, f))
  BY DEF SoundStep, AtAnswers

\* A step that goes on with a sound task at a sound place.
LEMMA ContinueSound ==
  ASSUME ResolutionSound, NEW i \in TaskIds, NEW t, SoundTask(question[i], t),
         res' = [res EXCEPT ![i] = t], live' = live, question' = question,
         SoundStep(at'), result' = result, CacheSound'
  PROVE  ResolutionSound'
  BY TaskReplaced, ResultSame, Zenon DEF ResolutionSound

\* A step that ends its task with sound records.
LEMMA EndSound ==
  ASSUME ResolutionSound, NEW o, \A rr \in o.records : SoundRR(rr),
         result' = o, at' = Nowhere, live' = live, question' = question, res' = res, CacheSound'
  PROVE  ResolutionSound'
  <1>1. SoundStep(at')
    BY PlacesSound, Zenon
  <1>2. ResultSound'
    BY DEF ResultSound
  <1> QED BY <1>1, <1>2, TasksSame, Zenon DEF ResolutionSound

\* An error has no records.
LEMMA FailureSound == ASSUME NEW kind PROVE \A rr \in Failure(kind).records : SoundRR(rr)
  BY DEF Failure

\* What the cache answers, and the aliases it has, are sound.
LEMMA CacheAnswersSound ==
  ASSUME TasksInv, ResolutionSound, NEW i \in live
  PROVE  /\ \A o \in CacheAnswers(i) : \A rr \in o.records : SoundRR(rr)
         /\ \A rr \in CachedCname(i) : SoundRR(rr) /\ rr.type = "CNAME" /\ rr.name = res[i].qname
  <1>1. res[i].qname \in Names /\ question[i].qtype \in Types
    BY QuestionParts, Zenon DEF TasksInv, InFlightExact, ResolutionSound, TasksSound, SoundTask
  <1>2. <<res[i].qname, question[i].qtype>> \in Keys /\ <<res[i].qname, "CNAME">> \in Keys
    BY <1>1, KeyParts, Zenon
  <1>3. \A k \in Keys : SoundEntry(k, cache[k])
    BY Zenon DEF ResolutionSound, CacheSound
  <1>4. \A rr \in CachedCname(i) : SoundRR(rr) /\ rr.type = "CNAME" /\ rr.name = res[i].qname
    BY <1>2, <1>3 DEF CachedCname, SoundEntry
  <1>5. ASSUME NEW o \in CacheAnswers(i), NEW rr \in o.records PROVE SoundRR(rr)
    <2>1. PICK e : e = cache[<<res[i].qname, question[i].qtype>>]
      BY Zenon
    <2>2. o.records = {} \/ (e # None /\ ~e.negative /\ o.records = e.records)
      BY <1>5, <2>1 DEF CacheAnswers, Failure, outcome
    <2>3. e # None /\ ~e.negative => \A r \in e.records : SoundRR(r)
      BY <1>2, <1>3, <2>1, Zenon DEF SoundEntry
    <2> QED BY <1>5, <2>2, <2>3, Zenon
  <1> QED BY <1>4, <1>5

\* step()
LEMMA StepSound ==
  ASSUME TasksInv, ResolutionSound, NEW i \in TaskIds,
         StepAnswers(i) \/ StepFollows(i) \/ StepStarts(i)
  PROVE  ResolutionSound'
  <1>1. i \in live /\ SoundTask(question[i], res[i]) /\ CacheSound
    <2>1. i \in live
      BY Zenon DEF StepAnswers, StepFollows, StepStarts
    <2> QED BY <2>1, Zenon DEF ResolutionSound, TasksSound
  <1>2. CacheSound'
    BY <1>1, CacheSame, Zenon DEF StepAnswers, StepFollows, StepStarts
  <1>3. CASE StepAnswers(i)
    <2>1. PICK o \in CacheAnswers(i) : End(i, o)
      BY <1>3, Zenon DEF StepAnswers
    <2>2. result' = o /\ at' = Nowhere /\ live' = live /\ question' = question /\ res' = res
      BY <1>3, <2>1, Zenon DEF StepAnswers, End, GoFinish
    <2>3. \A rr \in o.records : SoundRR(rr)
      BY <1>1, CacheAnswersSound, Zenon
    <2> QED BY <1>2, <2>2, <2>3, EndSound, Zenon
  <1>4. CASE StepFollows(i)
    <2>1. PICK rr \in CachedCname(i) :
            IF CanFollow(res[i])
              THEN Continue(i, Followed(res[i], rr), At("step"))
              ELSE End(i, Failure("MaxCnameChainExceeded")) /\ UNCHANGED res
      BY <1>4, Zenon DEF StepFollows
    <2>2. CASE CanFollow(res[i])
      <3>1. SoundTask(question[i], Followed(res[i], rr))
        BY <1>1, <2>2, CacheAnswersSound, FollowedSound, Zenon
      <3>2. /\ res' = [res EXCEPT ![i] = Followed(res[i], rr)]
            /\ at' = At("step") /\ live' = live /\ question' = question /\ result' = result
        BY <2>1, <2>2, Zenon DEF Continue, taskVars
      <3>3. SoundStep(at')
        BY <3>2, PlacesSound, Zenon
      <3> QED BY <1>2, <3>1, <3>2, <3>3, ContinueSound, Zenon
    <2>3. CASE ~CanFollow(res[i])
      <3>1. /\ result' = Failure("MaxCnameChainExceeded")
            /\ at' = Nowhere /\ live' = live /\ question' = question /\ res' = res
        BY <2>1, <2>3, Zenon DEF End, GoFinish
      <3> QED BY <1>2, <3>1, EndSound, FailureSound, Zenon
    <2> QED BY <2>2, <2>3
  <1>5. CASE StepStarts(i)
    <2>1. SoundTask(question[i], start_at_closest_zone(res[i]))
      BY <1>1, StartSound
    <2>2. /\ res' = [res EXCEPT ![i] = start_at_closest_zone(res[i])]
          /\ at' = At("next_server") /\ live' = live /\ question' = question /\ result' = result
      BY <1>5, Zenon DEF StepStarts, Continue, taskVars
    <2>3. SoundStep(at')
      BY <2>2, PlacesSound, Zenon
    <2> QED BY <1>2, <2>1, <2>2, <2>3, ContinueSound, Zenon
  <1> QED BY <1>3, <1>4, <1>5

\* NewId is a task id no task has.
LEMMA NewIdFree == HasRoom => NewId \in TaskIds /\ NewId \notin live
  BY DEF HasRoom, NewId, FreeIds

\* A task is added.
LEMMA GrownSound ==
  ASSUME live \subseteq TaskIds, DOMAIN question = TaskIds,
         NEW old, DOMAIN old = TaskIds, \A j \in live : SoundTask(question[j], old[j]),
         NEW i \in TaskIds, i \notin live, NEW q, NEW t, SoundTask(q, t), live' = live \cup {i},
         question' = [question EXCEPT ![i] = q], res' = [old EXCEPT ![i] = t]
  PROVE  TasksSound'
  <1>1. \A j \in live : question'[j] = question[j] /\ res'[j] = old[j]
    OBVIOUS
  <1>2. question'[i] = q /\ res'[i] = t /\ DOMAIN res' = TaskIds
    OBVIOUS
  <1> QED BY <1>1, <1>2, Zenon DEF TasksSound

\* next_server()
LEMMA NextServerSound ==
  ASSUME TasksInv, ResolutionSound, NEW i \in TaskIds,
         PickServer(i) \/ LookUpNameServer(i) \/ RetryTimedOut(i) \/ GiveUp(i)
  PROVE  ResolutionSound'
  <1>1. i \in live /\ SoundTask(question[i], res[i]) /\ CacheSound /\ DOMAIN res = TaskIds
    <2>1. AtNextServer(i)
      BY Zenon DEF PickServer, LookUpNameServer, RetryTimedOut, GiveUp
    <2> QED BY <2>1, Zenon DEF AtNextServer, ResolutionSound, TasksSound
  <1>2. CacheSound'
    BY <1>1, CacheSame, ZenonT(30) DEF PickServer, LookUpNameServer, RetryTimedOut, GiveUp
  <1>3. CASE PickServer(i)
    <2>1. PICK s \in Untried(i) : Continue(i, res[i], AtSend(s, FALSE))
      BY <1>3, Zenon DEF PickServer
    <2>2. s \in Addresses
      <3>1. s \in res[i].servers
        BY <2>1, Zenon DEF Untried
      <3> QED BY <1>1, <3>1 DEF SoundTask
    <2>3. /\ res' = [res EXCEPT ![i] = res[i]]
          /\ at' = AtSend(s, FALSE) /\ live' = live /\ question' = question /\ result' = result
      BY <2>1, Zenon DEF Continue, taskVars
    <2>4. SoundStep(at')
      BY <2>2, <2>3, AtSendSound, ZenonT(30)
    <2> QED BY <1>1, <1>2, <2>3, <2>4, ContinueSound, Zenon
  <1>4. CASE LookUpNameServer(i)
    <2>1. PICK n \in res[i].unresolved :
            \/ Continue(i, Taken(res[i], n), At("next_server"))
            \/ /\ SpawnChild(i, AddressQuestion(n))
               /\ res' = [res EXCEPT
                            ![i] = [Taken(res[i], n) EXCEPT !.glueless_lookups = @ + 1],
                            ![NewId] = NewTask(AddressQuestion(n),
                                               Append(Taken(res[i], n).ancestry, Working(i)))]
               /\ at' = Nowhere
               /\ UNCHANGED result
      BY <1>4, ZenonT(30) DEF LookUpNameServer
    <2>2. SoundTask(question[i], Taken(res[i], n))
      BY <1>1 DEF Taken, SoundTask
    <2>3. CASE Continue(i, Taken(res[i], n), At("next_server"))
      <3>1. /\ res' = [res EXCEPT ![i] = Taken(res[i], n)]
            /\ at' = At("next_server") /\ live' = live /\ question' = question /\ result' = result
        BY <2>3, Zenon DEF Continue, taskVars
      <3>2. SoundStep(at')
        BY <3>1, PlacesSound, Zenon
      <3> QED BY <1>2, <2>2, <3>1, <3>2, ContinueSound, Zenon
    <2>4. CASE SpawnChild(i, AddressQuestion(n)) /\ ~Continue(i, Taken(res[i], n), At("next_server"))
      <3> DEFINE t == [Taken(res[i], n) EXCEPT !.glueless_lookups = @ + 1]
                 new == NewTask(AddressQuestion(n), Append(Taken(res[i], n).ancestry, Working(i)))
      <3>1. /\ NewId \in TaskIds /\ NewId \notin live /\ live' = live \cup {NewId}
            /\ question' = [question EXCEPT ![NewId] = AddressQuestion(n)]
        BY <2>4, NewIdFree, Zenon DEF SpawnChild, spawn
      <3>2. res' = [res EXCEPT ![i] = t, ![NewId] = new] /\ at' = Nowhere /\ result' = result
        BY <2>1, <2>4, Zenon
      <3>3. SoundTask(question[i], t)
        BY <2>2 DEF SoundTask
      <3>4. SoundTask(AddressQuestion(n), new)
        <4>1. AddressQuestion(n) \in Questions
          BY <1>1, Zenon DEF SoundTask
        <4> QED BY <4>1, NewTaskSound, Zenon
      <3> HIDE DEF t, new
      <3>5. TasksSound'
        <4>1. live \subseteq TaskIds /\ DOMAIN question = TaskIds /\ TasksSound
          BY Zenon DEF TasksInv, TasksTypeOK, ResolutionSound
        <4>2. PICK mid : mid = [res EXCEPT ![i] = t]
          BY Zenon
        <4>3. DOMAIN mid = TaskIds /\ \A j \in live : SoundTask(question[j], mid[j])
          <5>1. DOMAIN mid = TaskIds /\ \A j \in TaskIds : mid[j] = IF j = i THEN t ELSE res[j]
            BY <4>1, <4>2 DEF TasksSound
          <5> QED BY <3>3, <4>1, <5>1, Zenon DEF TasksSound
        <4>4. res' = [mid EXCEPT ![NewId] = new]
          BY <3>2, <4>2, Zenon
        <4> QED BY <3>1, <3>4, <4>1, <4>3, <4>4, GrownSound, Zenon
      <3> QED BY <1>2, <3>2, <3>5, PlacesSound, ResultSame, Zenon DEF ResolutionSound
    <2> QED BY <2>1, <2>3, <2>4
  <1>5. CASE RetryTimedOut(i)
    <2>1. SoundTask(question[i], AnotherRound(res[i]))
      BY <1>1 DEF AnotherRound, SoundTask
    <2>2. /\ res' = [res EXCEPT ![i] = AnotherRound(res[i])]
          /\ at' = At("next_server") /\ live' = live /\ question' = question /\ result' = result
      BY <1>5, Zenon DEF RetryTimedOut, Continue, taskVars
    <2>3. SoundStep(at')
      BY <2>2, PlacesSound, Zenon
    <2> QED BY <1>2, <2>1, <2>2, <2>3, ContinueSound, Zenon
  <1>6. CASE GiveUp(i)
    <2>1. /\ result' = Failure("AllServersFailed")
          /\ at' = Nowhere /\ live' = live /\ question' = question /\ res' = res
      BY <1>6, Zenon DEF GiveUp, End, GoFinish
    <2> QED BY <1>2, <2>1, EndSound, FailureSound, Zenon
  <1> QED BY <1>3, <1>4, <1>5, <1>6

\* What a task has tried is no matter here.
LEMMA TriedSound ==
  ASSUME NEW q, NEW t, SoundTask(q, t), NEW x
  PROVE  SoundTask(q, [t EXCEPT !.tried = x]) /\ SoundTask(q, [t EXCEPT !.timed_out = x])
  BY DEF SoundTask

\* send_query()
LEMMA SendSound ==
  ASSUME TasksInv, ResolutionSound, NEW i \in TaskIds, SendQuery(i) PROVE ResolutionSound'
  <1>1. CacheSound'
    BY CacheSame, Zenon DEF SendQuery, ResolutionSound
  <1>2. CASE queries[budget[i]] >= MaxUpstreamQueries
    <2>1. /\ result' = Failure("MaxQueriesExceeded")
          /\ at' = Nowhere /\ live' = live /\ question' = question /\ res' = res
      BY <1>2, Zenon DEF SendQuery, End, GoFinish
    <2> QED BY <1>1, <2>1, EndSound, FailureSound, Zenon
  <1>3. CASE ~(queries[budget[i]] >= MaxUpstreamQueries)
    <2>1. /\ live' = live /\ question' = question /\ at' = Nowhere /\ result' = result
          /\ res' = [res EXCEPT ![i].tried = IF at.tcp THEN @ ELSE @ \cup {at.server}]
      BY <1>3, Zenon DEF SendQuery, send_query
    <2>2. i \in live
      BY Zenon DEF SendQuery
    <2>3. SoundTask(question[i], res[i])
      BY <2>2, Zenon DEF ResolutionSound, TasksSound
    <2>4. PICK x : res' = [res EXCEPT ![i] = [res[i] EXCEPT !.tried = x]]
      BY <2>1, Zenon
    <2>5. SoundTask(question[i], [res[i] EXCEPT !.tried = x])
      BY <2>3, TriedSound, Zenon
    <2>6. SoundStep(at')
      BY <2>1, PlacesSound, Zenon
    <2> QED BY <1>1, <2>1, <2>4, <2>5, <2>6, ContinueSound, Zenon
  <1> QED BY <1>2, <1>3

\* on_response()
LEMMA ResponseSound ==
  ASSUME TasksInv, ResolutionSound, NEW i \in TaskIds, i \in live,
         NEW m \in Queries, OnResponse(i, m)
  PROVE  ResolutionSound'
  <1>1. m.server \in Addresses /\ m.tcp \in BOOLEAN
    BY QueryParts, Zenon
  <1>2. CacheSound' /\ result' = result /\ live' = live /\ question' = question
    <2>1. cache' = cache /\ result' = result /\ on_response(i, m)
      BY Zenon DEF OnResponse, OnSpoofSuspected, OnCaseMismatch, OnTimeout, OnNetworkError, OnReply
    <2>2. live' = live /\ question' = question
      BY <2>1, Zenon DEF on_response
    <2> QED BY <2>1, <2>2, CacheSame, Zenon DEF ResolutionSound
  <1>3. PICK t : (SoundTask(question[i], t) /\ res' = [res EXCEPT ![i] = t]) \/ res' = res
    <2>1. SoundTask(question[i], res[i])
      BY Zenon DEF ResolutionSound, TasksSound
    <2>2. \/ res' = res
          \/ res' = [res EXCEPT ![i].tried = @ \ {m.server}]
          \/ res' = [res EXCEPT ![i].timed_out = @ \cup {m.server}]
      BY Zenon DEF OnResponse, OnSpoofSuspected, OnCaseMismatch, OnTimeout, OnNetworkError, OnReply
    <2> QED BY <2>1, <2>2, TriedSound, Zenon
  <1>4. SoundStep(at')
    <2>1. \/ at' = At("next_server")
          \/ at' = AtSend(m.server, TRUE) \/ at' = AtSend(m.server, FALSE)
          \/ \E reply \in Messages : at' = AtHandle(m.server, m.tcp, reply)
      BY Zenon DEF OnResponse, OnSpoofSuspected, OnCaseMismatch, OnTimeout, OnNetworkError, OnReply
    <2> QED BY <1>1, <2>1, PlacesSound, AtSendSound, AtHandleSound, Zenon
  <1>5. CASE res' = res
    BY <1>2, <1>4, <1>5, TasksSame, ResultSame, Zenon DEF ResolutionSound
  <1> QED BY <1>2, <1>3, <1>4, <1>5, ContinueSound, Zenon

\* What the task and the message in hand are when handle_response() looks at its answers.
LEMMA AnswersFacts ==
  ASSUME TasksInv, ResolutionSound, NEW i \in TaskIds, AtAnswersOf(i)
  PROVE  /\ i \in live /\ SoundTask(question[i], res[i]) /\ CacheSound
         /\ \A rr \in at.msg.answers \cup at.msg.authority \cup at.msg.additional : SoundRR(rr)
         /\ \A rr \in RRset(i) :
              SoundRR(rr) /\ rr.type = question[i].qtype /\ rr.name = res[i].qname
         /\ \A rr \in Cnames(i) : SoundRR(rr) /\ rr.type = "CNAME" /\ rr.name = res[i].qname
  <1>1. i \in live /\ at.fn = "answers"
    BY DEF AtAnswersOf
  <1>2. SoundTask(question[i], res[i]) /\ CacheSound
    BY <1>1 DEF ResolutionSound, TasksSound
  <1>3. \A rr \in at.msg.answers \cup at.msg.authority \cup at.msg.additional : SoundRR(rr)
    BY <1>1 DEF ResolutionSound, SoundStep, SoundMessage
  <1>4. \A rr \in RRset(i) : SoundRR(rr) /\ rr.type = question[i].qtype /\ rr.name = res[i].qname
    BY <1>3, Zenon DEF RRset, collect
  <1>5. \A rr \in Cnames(i) : SoundRR(rr) /\ rr.type = "CNAME" /\ rr.name = res[i].qname
    BY <1>3, Zenon DEF Cnames, collect
  <1> QED BY <1>1, <1>2, <1>3, <1>4, <1>5, Zenon

\* handle_response(): what is believed of a message, if anything.
LEMMA HandleResponseSound ==
  ASSUME TasksInv, ResolutionSound, NEW i \in TaskIds, HandleResponse(i) PROVE ResolutionSound'
  <1>1. i \in live /\ at.fn = "handle_response"
    BY Zenon DEF HandleResponse
  <1>2. SoundTask(question[i], res[i]) /\ at.server \in Addresses /\ at.msg \in Messages
    BY <1>1 DEF ResolutionSound, TasksSound, SoundStep
  <1>3. /\ res' = [res EXCEPT ![i] = res[i]] /\ live' = live /\ question' = question /\ result' = result /\ cache' = cache
        /\ at' = (IF at.msg.tc THEN (IF at.tcp THEN At("next_server") ELSE AtSend(at.server, TRUE))
                  ELSE IF at.msg.rcode \notin {"NoError", "NXDomain"} THEN At("next_server")
                  ELSE AtAnswers(filter_to_bailiwick(at.msg, res[i].zone), FALSE))
    BY Zenon DEF HandleResponse, Continue, taskVars
  <1>4. SoundMessage(filter_to_bailiwick(at.msg, res[i].zone))
    BY <1>2, FilterSound
  <1>5. SoundStep(At("next_server")) /\ SoundStep(AtSend(at.server, TRUE))
    BY <1>2, PlacesSound, AtSendSound, ZenonT(30)
  <1>6. SoundStep(AtAnswers(filter_to_bailiwick(at.msg, res[i].zone), FALSE))
    BY <1>4, AtAnswersSound, Zenon
  <1>7. SoundStep(at')
    BY <1>3, <1>5, <1>6, Zenon
  <1>8. CacheSound'
    BY <1>3, CacheSame DEF ResolutionSound
  <1> QED BY <1>2, <1>3, <1>7, <1>8, ContinueSound, Zenon

\* The answer is in hand.
LEMMA HandleAnswerSound ==
  ASSUME TasksInv, ResolutionSound, NEW i \in TaskIds, HandleAnswer(i) PROVE ResolutionSound'
  <1>1. AtAnswersOf(i)
    BY Zenon DEF HandleAnswer
  <1> DEFINE rrs == RRset(i)
             glue == IF question[i].qtype = "NS" THEN cache_glue(at.msg.additional, rrs) ELSE NoSlots
             slot == Slot(<<res[i].qname, question[i].qtype>>, Positive(Rank(at.msg), rrs))
  <1>2. \A rr \in rrs : SoundRR(rr) /\ rr.type = question[i].qtype /\ rr.name = res[i].qname
    BY <1>1, AnswersFacts, Zenon
  <1>3. \A rr \in at.msg.additional : SoundRR(rr)
    BY <1>1, AnswersFacts, Zenon
  <1>4. CacheSound
    BY DEF ResolutionSound
  <1>5. /\ cache' = Insert(Join2(slot, glue))
        /\ result' = outcome(i, "NoError", rrs) /\ at' = Nowhere /\ res' = res /\ live' = live /\ question' = question
    BY Zenon DEF HandleAnswer, End, GoFinish
  <1>6. SoundSlots(glue)
    <2>1. SoundSlots(NoSlots)
      BY DEF SoundSlots, NoSlots
    <2> HIDE DEF rrs
    <2> QED BY <1>3, <2>1, GlueSound, Zenon
  <1>7. SoundSlots(slot)
    <2> HIDE DEF rrs
    <2> QED BY <1>2, PositiveSound, SlotSound, Zenon
  <1> HIDE DEF glue, slot
  <1>8. CacheSound'
    BY <1>4, <1>5, <1>6, <1>7, JoinSound, InsertSound, Zenon
  <1>9. outcome(i, "NoError", rrs).records = rrs
    BY DEF outcome
  <1> HIDE DEF rrs
  <1> QED BY <1>2, <1>5, <1>8, <1>9, EndSound, Zenon

\* An alias is followed within the message.
LEMMA HandleCnameSound ==
  ASSUME TasksInv, ResolutionSound, NEW i \in TaskIds, HandleCname(i) PROVE ResolutionSound'
  <1>1. AtAnswersOf(i)
    BY Zenon DEF HandleCname
  <1>2. PICK rr \in Cnames(i) :
          /\ cache' = Insert(Slot(<<res[i].qname, "CNAME">>, Positive(Rank(at.msg), {rr})))
          /\ IF CanFollow(res[i])
               THEN Continue(i, Followed(res[i], rr), AtAnswers(at.msg, TRUE))
               ELSE End(i, Failure("MaxCnameChainExceeded")) /\ UNCHANGED res
    BY Zenon DEF HandleCname
  <1>3. /\ SoundRR(rr) /\ rr.type = "CNAME" /\ rr.name = res[i].qname
        /\ SoundTask(question[i], res[i]) /\ CacheSound
    BY <1>1, <1>2, AnswersFacts, Zenon
  <1>4. CacheSound'
    <2>1. \A x \in {rr} : x.name = res[i].qname /\ x.type = "CNAME" /\ SoundRR(x)
      BY <1>3, Zenon
    <2> QED BY <1>2, <1>3, <2>1, PositiveSound, SlotSound, InsertSound, Zenon
  <1>5. CASE CanFollow(res[i])
    <2>1. SoundTask(question[i], Followed(res[i], rr))
      BY <1>3, <1>5, FollowedSound, Zenon
    <2>2. /\ res' = [res EXCEPT ![i] = Followed(res[i], rr)]
          /\ at' = AtAnswers(at.msg, TRUE) /\ live' = live /\ question' = question /\ result' = result
      BY <1>2, <1>5, Zenon DEF Continue, taskVars
    <2>3. SoundMessage(at.msg)
      BY <1>1, AnswersFacts, Zenon DEF SoundMessage
    <2>4. SoundStep(at')
      BY <2>2, <2>3, AtAnswersSound, Zenon
    <2> QED BY <1>4, <2>1, <2>2, <2>4, ContinueSound, Zenon
  <1>6. CASE ~CanFollow(res[i])
    <2>1. /\ result' = Failure("MaxCnameChainExceeded")
          /\ at' = Nowhere /\ live' = live /\ question' = question /\ res' = res
      BY <1>2, <1>6, Zenon DEF End, GoFinish
    <2> QED BY <1>4, <2>1, EndSound, FailureSound, Zenon
  <1> QED BY <1>5, <1>6

\* The rest of the chain is resolved afresh, or the server is of no use.
LEMMA HandleOnwardSound ==
  ASSUME TasksInv, ResolutionSound, NEW i \in TaskIds, HandleChainEnd(i) \/ HandleLame(i)
  PROVE  ResolutionSound'
  <1>1. AtAnswersOf(i)
    BY Zenon DEF HandleChainEnd, HandleLame, NothingAnswered
  <1>2. SoundTask(question[i], res[i]) /\ CacheSound
    BY <1>1, AnswersFacts, Zenon
  <1>3. /\ res' = [res EXCEPT ![i] = res[i]] /\ live' = live /\ question' = question /\ result' = result /\ cache' = cache
        /\ at' = At("step") \/ at' = At("next_server")
    BY Zenon DEF HandleChainEnd, HandleLame, Continue, taskVars
  <1>4. SoundStep(at')
    BY <1>3, PlacesSound, Zenon
  <1>5. CacheSound'
    BY <1>2, <1>3, CacheSame, Zenon
  <1> QED BY <1>2, <1>3, <1>4, <1>5, ContinueSound, Zenon

\* NXDOMAIN and NODATA: what is cached is the denial.
LEMMA DenySound ==
  ASSUME TasksInv, ResolutionSound, NEW i \in TaskIds, HandleNxDomain(i) \/ HandleNoData(i)
  PROVE  ResolutionSound'
  <1>1. PICK ty, kind : Deny(i, kind, ty)
    <2>1. Deny(i, "NXDomain", "NX") \/ Deny(i, "NoError", question[i].qtype)
      BY Zenon DEF HandleNxDomain, HandleNoData
    <2>2. CASE Deny(i, "NXDomain", "NX")
      BY <2>2, Zenon
    <2>3. CASE Deny(i, "NoError", question[i].qtype)
      <3>1. PICK y : y = question[i].qtype
        BY Zenon
      <3> QED BY <2>3, <3>1, Zenon DEF Deny
    <2> QED BY <2>1, <2>2, <2>3
  <1>2. PICK proof :
          /\ cache' = IF proof = {} THEN cache
                      ELSE Insert(Slot(<<res[i].qname, ty>>, Negative(proof)))
          /\ End(i, outcome(i, kind, {}))
          /\ UNCHANGED <<res, no_0x20>>
    BY <1>1, Zenon DEF Deny
  <1>3. CacheSound
    BY DEF ResolutionSound
  <1>4. CacheSound'
    BY <1>2, <1>3, CacheSame, NegativeSound, SlotSound, InsertSound, Zenon
  <1>5. result' = outcome(i, kind, {}) /\ at' = Nowhere /\ live' = live /\ question' = question /\ res' = res
    BY <1>2, Zenon DEF End, GoFinish
  <1>6. \A rr \in outcome(i, kind, {}).records : SoundRR(rr)
    BY DEF outcome
  <1> QED BY <1>4, <1>5, <1>6, EndSound, Zenon

\* A referral: the zone below, its name servers and their glue.
LEMMA ReferralSound ==
  ASSUME TasksInv, ResolutionSound, NEW i \in TaskIds, HandleReferral(i) PROVE ResolutionSound'
  <1>1. AtAnswersOf(i)
    BY Zenon DEF HandleReferral, NothingAnswered
  <1>2. /\ i \in live /\ SoundTask(question[i], res[i]) /\ CacheSound
        /\ \A rr \in at.msg.answers \cup at.msg.authority \cup at.msg.additional : SoundRR(rr)
    BY <1>1, AnswersFacts, Zenon
  <1> DEFINE ns(owner) == referral_ns(at.msg.authority, owner)
             t == [res[i] EXCEPT !.referrals = @ + 1]
             add == at.msg.additional
             slots(owner) == Join2(Slot(<<owner, "NS">>, Positive(Authority, ns(owner))),
                                   cache_glue(add, ns(owner)))
             zone(owner) == enter_zone(t, owner, {rr.data : rr \in ns(owner)}, add, cache')
  <1>3. PICK owner :
          \/ Continue(i, res[i], At("next_server")) /\ UNCHANGED cache
          \/ End(i, Failure("MaxDepthExceeded")) /\ UNCHANGED <<res, cache>>
          \/ cache' = Insert(slots(owner)) /\ Continue(i, zone(owner), At("next_server"))
    BY Zenon DEF HandleReferral
  <1>4. CASE Continue(i, res[i], At("next_server")) /\ UNCHANGED cache
    <2>1. /\ res' = [res EXCEPT ![i] = res[i]]
          /\ at' = At("next_server") /\ live' = live /\ question' = question /\ result' = result
      BY <1>4, Zenon DEF Continue, taskVars
    <2>2. SoundStep(at')
      BY <2>1, PlacesSound, Zenon
    <2>3. CacheSound'
      BY <1>2, <1>4, CacheSame, Zenon
    <2> QED BY <1>2, <2>1, <2>2, <2>3, ContinueSound, Zenon
  <1>5. CASE End(i, Failure("MaxDepthExceeded")) /\ UNCHANGED <<res, cache>>
    <2>1. CacheSound'
      BY <1>2, <1>5, CacheSame, Zenon
    <2>2. /\ result' = Failure("MaxDepthExceeded")
          /\ at' = Nowhere /\ live' = live /\ question' = question /\ res' = res
      BY <1>5, Zenon DEF End, GoFinish
    <2> QED BY <2>1, <2>2, EndSound, FailureSound, Zenon
  <1>6. CASE cache' = Insert(slots(owner)) /\ Continue(i, zone(owner), At("next_server"))
    <2>1. \A rr \in add : SoundRR(rr)
      BY <1>2
    <2>2. \A rr \in ns(owner) : rr.name = owner /\ rr.type = "NS" /\ SoundRR(rr)
      BY <1>2 DEF referral_ns, collect
    <2> HIDE DEF ns, add
    <2>3. SoundSlots(slots(owner))
      BY <2>1, <2>2, PositiveSound, SlotSound, GlueSound, JoinSound, Zenon
    <2>4. CacheSound'
      <3> HIDE DEF slots
      <3> QED BY <1>2, <1>6, <2>3, InsertSound, Zenon
    <2>5. \A k \in Keys : SoundEntry(k, cache'[k])
      BY <2>4 DEF CacheSound
    <2>6. \A n \in {rr.data : rr \in ns(owner)} : AddressQuestion(n) \in Questions
      BY <2>2 DEF SoundRR
    <2>7. SoundTask(question[i], t)
      BY <1>2 DEF SoundTask
    <2> HIDE DEF t
    <2>8. SoundTask(question[i], zone(owner))
      BY <2>1, <2>5, <2>6, <2>7, EnterSound, Zenon
    <2>9. /\ res' = [res EXCEPT ![i] = zone(owner)]
          /\ at' = At("next_server") /\ live' = live /\ question' = question /\ result' = result
      BY <1>6, Zenon DEF Continue, taskVars
    <2>10. SoundStep(at')
      BY <2>9, PlacesSound, Zenon
    <2> HIDE DEF zone
    <2> QED BY <2>4, <2>8, <2>9, <2>10, ContinueSound, Zenon
  <1> QED BY <1>3, <1>4, <1>5, <1>6

\* resolve(): a new task knows nothing yet.
LEMMA ResolveSound ==
  ASSUME TasksInv, ResolutionSound, NEW c \in Clients, NEW q \in Questions, Resolve(c, q)
  PROVE  ResolutionSound'
  <1>1. /\ TasksSound /\ CacheSound /\ ResultSound /\ SoundStep(at)
        /\ live \subseteq TaskIds /\ DOMAIN question = TaskIds
    BY Zenon DEF ResolutionSound, TasksInv, TasksTypeOK
  <1>2. at' = at /\ result' = result /\ cache' = cache /\ (Join(c, q) \/ StartNew(c, q))
    BY Zenon DEF Resolve, resolve_client
  <1>3. TasksSound'
    <2>1. CASE Join(c, q)
      <3>1. live' = live /\ question' = question /\ res' = res
        BY <2>1, Zenon DEF Resolve, Join
      <3> QED BY <1>1, <3>1, TasksSame, Zenon
    <2>2. CASE StartNew(c, q)
      <3>1. /\ HasRoom /\ live' = live \cup {NewId}
            /\ question' = [question EXCEPT ![NewId] = q]
            /\ res' = [res EXCEPT ![NewId] = NewTask(q, <<>>)]
        BY <2>2, Zenon DEF Resolve, StartNew, spawn
      <3>2. SoundTask(q, NewTask(q, <<>>)) /\ NewId \in TaskIds /\ NewId \notin live
        BY <3>1, NewTaskSound, NewIdFree, Zenon
      <3>3. DOMAIN res = TaskIds /\ \A j \in live : SoundTask(question[j], res[j])
        BY <1>1, Zenon DEF TasksSound
      <3> QED BY <1>1, <3>1, <3>2, <3>3, GrownSound, Zenon
    <2> QED BY <1>2, <2>1, <2>2, Zenon
  <1> QED BY <1>1, <1>2, <1>3, ResultSame, CacheSame, Zenon DEF ResolutionSound

\* The timers.
LEMMA TimerSound ==
  ASSUME ResolutionSound, NEW i \in TaskIds, Start(i) \/ Deadline(i) PROVE ResolutionSound'
  <1>1. res' = res /\ cache' = cache /\ live' = live /\ question' = question
    BY Zenon DEF Start, Deadline, StartTimerFires, DeadlineFires
  <1>2. CASE Start(i)
    <2>1. at' = At("step") /\ result' = result
      BY <1>2, Zenon DEF Start
    <2> QED BY <1>1, <2>1, PlacesSound, TasksSame, ResultSame, CacheSame, Zenon DEF ResolutionSound
  <1>3. CASE Deadline(i)
    <2>1. at' = at /\ result' = Failure("Timeout")
      BY <1>3, Zenon DEF Deadline
    <2>2. ResultSound'
      BY <2>1, FailureSound, Zenon DEF ResultSound
    <2> QED BY <1>1, <2>1, <2>2, TasksSame, CacheSame, Zenon DEF ResolutionSound
  <1> QED BY <1>2, <1>3

\* on_child_done() adds the addresses a sub-query found.
LEMMA MoreServersSound ==
  ASSUME NEW q, NEW t, SoundTask(q, t), NEW as, as \subseteq Addresses
  PROVE  SoundTask(q, [t EXCEPT !.servers = @ \cup as])
  <1>1. t.servers \cup as \subseteq Addresses
    <2>1. t.servers \subseteq Addresses
      BY DEF SoundTask
    <2> QED BY <2>1, Zenon
  <1>2. PICK s : s = t.servers \cup as
    BY Zenon
  <1>3. s \subseteq Addresses
    BY <1>1, <1>2, Zenon
  <1>4. SoundTask(q, [t EXCEPT !.servers = s])
    BY <1>3 DEF SoundTask
  <1> QED BY <1>2, <1>4, Zenon

\* Who ends is gone, and the other tasks keep their questions.
LEMMA EndingKeeps ==
  ASSUME TasksInv, NEW i \in TaskIds,
         finish(i) \/ cancel(i) \/ on_child_done(i) \/ \E c \in Clients : CallClient(i, c)
  PROVE  \A j \in live' : j \in live /\ j # i /\ question'[j] = question[j]
  <1>1. live \subseteq TaskIds /\ question \in [TaskIds -> Questions \cup {None}] /\ ThreadConsistent
    BY Zenon DEF TasksInv, TasksTypeOK
  <1>2. question' = question \/ question' = [question EXCEPT ![i] = None]
    <2>1. finish(i) => question' = question
      BY Zenon DEF finish
    <2>2. cancel(i) => question' = question \/ question' = [question EXCEPT ![i] = None]
      BY Zenon DEF cancel, Forget
    <2>3. on_child_done(i) => question' = [question EXCEPT ![i] = None]
      BY Zenon DEF on_child_done, Forget
    <2>4. ASSUME NEW c \in Clients, CallClient(i, c)
          PROVE  question' = question \/ question' = [question EXCEPT ![i] = None]
      BY <2>4, Zenon DEF CallClient, Forget
    <2> QED BY <2>1, <2>2, <2>3, <2>4, Zenon
  <1>3. live' = live \ {i} \/ (live' = live /\ i \notin live)
    <2>1. finish(i) => live' = live \ {i}
      BY Zenon DEF finish, release
    <2>2. cancel(i) /\ i \in live => live' = live \ {i}
      BY Zenon DEF cancel, release
    <2>3. cancel(i) /\ i \notin live => live' = live
      BY Zenon DEF cancel
    <2>4. on_child_done(i) => live' = live /\ i \notin live
      BY <1>1, Zenon DEF on_child_done, ThreadConsistent
    <2>5. ASSUME NEW c \in Clients, CallClient(i, c) PROVE live' = live /\ i \notin live
      <3>1. live' = live /\ call.fn \in {"done", "clients"} /\ call.id = i
        BY <2>5, Zenon DEF CallClient
      <3> QED BY <1>1, <3>1, Zenon DEF ThreadConsistent
    <2> QED BY <2>1, <2>2, <2>3, <2>4, <2>5, Zenon
  <1>4. \A j \in TaskIds : j # i => question'[j] = question[j]
    BY <1>1, <1>2
  <1>5. \A j \in live' : j \in live /\ j # i
    BY <1>3
  <1> QED BY <1>1, <1>4, <1>5, Zenon

\* finish() and cancel(): the task goes.
LEMMA FinishSound ==
  ASSUME TasksInv, ResolutionSound, NEW i \in TaskIds, Finish(i) \/ Cancel(i)
  PROVE  ResolutionSound'
  <1>1. /\ res' = [res EXCEPT ![i] = None] /\ (finish(i) \/ cancel(i))
        /\ at' = at /\ result' = result /\ cache' = cache
    BY Zenon DEF Finish, Cancel
  <1>2. TasksSound /\ DOMAIN res = TaskIds /\ live \subseteq TaskIds
    BY Zenon DEF ResolutionSound, TasksSound, TasksInv, TasksTypeOK
  <1>3. DOMAIN res' = TaskIds /\ \A j \in live : j # i => res'[j] = res[j]
    BY <1>1, <1>2
  <1>4. TasksSound'
    BY <1>1, <1>2, <1>3, EndingKeeps, TasksKept, Zenon
  <1> QED BY <1>1, <1>4, ResultSame, CacheSame, Zenon DEF ResolutionSound

\* The clients are called back.
LEMMA CallBackSound ==
  ASSUME TasksInv, ResolutionSound, NEW i \in TaskIds, NEW c \in Clients, CallBack(i, c)
  PROVE  ResolutionSound'
  <1>1. /\ res' = res /\ at' = at /\ cache' = cache /\ CallClient(i, c)
        /\ result' = NoResult \/ result' = result
    BY Zenon DEF CallBack
  <1>2. ResultSound'
    <2>1. CASE result' = NoResult
      BY <2>1 DEF NoResult, ResultSound
    <2>2. CASE result' = result
      BY <2>2, ResultSame, Zenon DEF ResolutionSound
    <2> QED BY <1>1, <2>1, <2>2, Zenon
  <1>3. TasksSound /\ DOMAIN res = TaskIds
    BY Zenon DEF ResolutionSound, TasksSound
  <1>4. TasksSound'
    BY <1>1, <1>3, EndingKeeps, TasksKept, Zenon
  <1> QED BY <1>1, <1>2, <1>4, CacheSame, Zenon DEF ResolutionSound

\* The addresses a sub-query found become servers of its parent.
LEMMA ChildDoneSound ==
  ASSUME TasksInv, ResolutionSound, NEW i \in TaskIds, OnChildDone(i) PROVE ResolutionSound'
  <1>1. at' = At("next_server") /\ result' = NoResult /\ cache' = cache /\ on_child_done(i)
    BY Zenon DEF OnChildDone
  <1>2. TasksSound /\ CacheSound /\ DOMAIN res = TaskIds /\ live \subseteq TaskIds
    BY Zenon DEF ResolutionSound, TasksSound, TasksInv, TasksTypeOK
  <1>3. ipv4_addresses(result.records) \subseteq Addresses
    BY AddressesSound, Zenon DEF ResolutionSound, ResultSound
  <1>4. PICK p, as : /\ as \subseteq Addresses
                     /\ res' = res \/ res' = [res EXCEPT ![p].servers = @ \cup as]
    BY <1>3, Zenon DEF OnChildDone
  <1>5. \A j \in live' : j \in live /\ question'[j] = question[j]
    BY <1>1, EndingKeeps, Zenon
  <1>6. ASSUME res' = [res EXCEPT ![p].servers = @ \cup as] PROVE TasksSound'
    <2>1. PICK t : t = [res[p] EXCEPT !.servers = @ \cup as] /\ res' = [res EXCEPT ![p] = t]
      BY <1>6, Zenon
    <2>2. p \in live => SoundTask(question[p], t)
      BY <1>2, <1>4, <2>1, MoreServersSound, Zenon DEF TasksSound
    <2>3. DOMAIN res' = TaskIds /\ \A j \in TaskIds : res'[j] = IF j = p THEN t ELSE res[j]
      BY <1>2, <2>1
    <2> QED BY <1>2, <1>5, <2>2, <2>3, Zenon DEF TasksSound
  <1>7. TasksSound'
    BY <1>2, <1>4, <1>5, <1>6, TasksKept, Zenon
  <1>8. SoundStep(at') /\ ResultSound'
    BY <1>1, PlacesSound DEF NoResult, ResultSound
  <1> QED BY <1>1, <1>2, <1>7, <1>8, CacheSame, Zenon DEF ResolutionSound

\* Whatever the step, what the tasks know stays sound.
LEMMA SoundNext == TasksInv /\ ResolutionSound /\ [Next]_vars => ResolutionSound'
  <1> SUFFICES ASSUME TasksInv, ResolutionSound, [Next]_vars PROVE ResolutionSound'
    OBVIOUS
  <1>1. ASSUME NEW i \in TaskIds, UpstreamAnswers(i) PROVE ResolutionSound'
    <2>1. PICK e \in pending : OnResponse(i, e[2])
      BY <1>1 DEF UpstreamAnswers
    <2>2. e[2] \in Queries /\ i \in live
      BY <1>1, <2>1, PendingParts, Zenon DEF UpstreamAnswers
    <2> QED BY <2>1, <2>2, ResponseSound
  <1>2. CASE Inside
    <2>1. PICK i \in TaskIds :
            \/ StepAnswers(i) \/ StepFollows(i) \/ StepStarts(i)
            \/ PickServer(i) \/ LookUpNameServer(i) \/ RetryTimedOut(i) \/ GiveUp(i)
            \/ SendQuery(i)
            \/ HandleResponse(i) \/ HandleAnswer(i) \/ HandleCname(i) \/ HandleChainEnd(i)
            \/ HandleNxDomain(i) \/ HandleReferral(i) \/ HandleNoData(i) \/ HandleLame(i)
            \/ Finish(i) \/ Cancel(i) \/ (\E c \in Clients : CallBack(i, c)) \/ OnChildDone(i)
      BY <1>2 DEF Inside
    <2> QED BY <2>1, StepSound, NextServerSound, SendSound, HandleResponseSound, HandleAnswerSound,
               HandleCnameSound, HandleOnwardSound, DenySound, ReferralSound, FinishSound,
               CallBackSound, ChildDoneSound, ZenonT(30)
  <1>3. ASSUME NEW k \in Keys, Expire(k) PROVE ResolutionSound'
    <2>1. cache' = [cache EXCEPT ![k] = None] /\ live' = live /\ question' = question
          /\ res' = res /\ at' = at /\ result' = result
      BY <1>3, Zenon DEF Expire, taskVars
    <2>2. CacheSound'
      <3>1. CacheSound
        BY Zenon DEF ResolutionSound
      <3>2. \A x : SoundEntry(x, None)
        BY Zenon DEF SoundEntry
      <3> QED BY <2>1, <3>1, <3>2 DEF CacheSound
    <2> QED BY <2>1, <2>2, TasksSame, ResultSame, Zenon DEF ResolutionSound
  <1>4. CASE DestroyResolver
    <2>1. /\ live' = {} /\ res' = [i \in TaskIds |-> None]
          /\ at' = at /\ result' = result /\ cache' = cache
      BY <1>4, Zenon DEF DestroyResolver, Destroy
    <2>2. TasksSound'
      BY <2>1 DEF TasksSound
    <2> QED BY <2>1, <2>2, ResultSame, CacheSame, Zenon DEF ResolutionSound
  <1>5. CASE CreateResolver \/ UNCHANGED vars
    <2>1. live' = live /\ question' = question /\ res' = res /\ at' = at /\ result' = result /\ cache' = cache
      BY <1>5, Zenon DEF CreateResolver, Create, vars, resVars, taskVars
    <2> QED BY <2>1, TasksSame, ResultSame, CacheSame, Zenon DEF ResolutionSound
  <1> QED BY <1>1, <1>2, <1>3, <1>4, <1>5, ResolveSound, TimerSound DEF Next

\* At first there is no task, and the cache is empty.
LEMMA SoundInit == Init => ResolutionSound
  <1> SUFFICES ASSUME Init PROVE ResolutionSound
    OBVIOUS
  <1>1. live = {} /\ res = [i \in TaskIds |-> None] /\ at = Nowhere /\ result = NoResult
        /\ cache = [k \in Keys |-> None]
    BY Zenon DEF Init, TasksInit
  <1>2. TasksSound
    BY <1>1, Zenon DEF TasksSound
  <1>3. CacheSound
    BY <1>1, Zenon DEF CacheSound, SoundEntry
  <1>4. SoundStep(at) /\ ResultSound
    BY <1>1, PlacesSound DEF NoResult, ResultSound
  <1> QED BY <1>2, <1>3, <1>4, Zenon DEF ResolutionSound

\* Whatever a task of the resolver asks, of a server or of a sub-query, is a name or
\* an address it was told by the question, a message, the cache or the configuration;
\* and the lifecycle of the tasks is correct under everything resolution does.
THEOREM ResolverCorrect == Spec => [](TasksInv /\ ResolutionSound)
  <1>1. Init => TasksInv /\ ResolutionSound
    BY InitInv, SoundInit DEF Init
  <1>2. TasksInv /\ ResolutionSound /\ [Next]_vars => (TasksInv /\ ResolutionSound)'
    BY TasksStep, NextInv, SoundNext
  <1> QED BY <1>1, <1>2, PTL DEF Spec

\* Resolution implements the task lifecycle: step(), next_server(), send_query() and
\* handle_response() do nothing to the tasks that ResolverTasks does not allow.
THEOREM ImplementsTasks == Spec => TasksSpec
  <1>1. Init => TasksInit
    BY DEF Init
  <1> QED BY <1>1, TasksStep, ResolverCorrect, PTL DEF Spec, TasksSpec

\* The whole resolver keeps its promise to the callers of resolve(), whatever the
\* servers answer.
THEOREM ResolverKeepsPromise == Spec => ServiceSpec
  BY ImplementsTasks, ImplementsService, PTL
=============================================================================

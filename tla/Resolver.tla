------------------------------ MODULE Resolver ------------------------------
(***************************************************************************)
(* Iterative resolution (core/resolver/recursive_resolver.cpp, "Resolution *)
(* steps"): what a task does each time ResolverTasks runs it.  The tasks,  *)
(* their timers and callbacks are those of ResolverTasks, which every      *)
(* action here extends with the resolution's own state.                    *)
(*                                                                         *)
(* Abstractions.  A name is an element of Names; Above[n] is the set of    *)
(* names n is_subdomain_of, itself and the root included.  A section of a  *)
(* message is a set of records: where the code takes the first of several, *)
(* the model takes any.  selection.pick() is any untried server.  Time is  *)
(* left to the timers' order; TTLs and memory to the cache's Expire step,  *)
(* which forgets an entry between two callbacks.                           *)
(***************************************************************************)
EXTENDS ResolverTasks, Sequences, FiniteSets

CONSTANTS
  Names, Root, Above,
  Addresses,           \* IPv4 addresses of servers
  Types,               \* record types; "NX" is kNxdomainType, the slot for NXDOMAIN
  Messages,            \* responses a server may give
  RootNs, RootServers, \* RootHints
  Stubs,               \* stub zone -> its servers
  MaxReferralDepth, MaxCnameChain, MaxGluelessNs, Use0x20, SpoofTcpThreshold,  \* config
  kMaxSubqueryDepth, kMaxRetryRounds,
  HopWrap              \* cname_hops counts modulo this (2^8 in the code)

\* A record: an address, or something that points at a name.
RR == [name : Names, type : {"A"}, data : Addresses]
        \cup [name : Names, type : Types \ {"A"}, data : Names]

\* TrustRank: 2 Glue, 3 Authority, 4 Answer.
Glue == 2
Authority == 3
Answer == 4

Entry == [trust : {Glue, Authority, Answer}, negative : BOOLEAN, records : SUBSET RR]

Keys == Names \X Types

\* What is asked to find the address of a name server.
AddressQuestion(n) == [qname |-> n, qtype |-> "A", qclass |-> "IN"]

ASSUME ResolverConstants ==
  /\ Root \in Names
  /\ Above \in [Names -> SUBSET Names]
  /\ \A n \in Names : n \in Above[n] /\ Root \in Above[n]
  /\ \A n \in Names : \A m \in Above[n] : Above[m] \subseteq Above[n]
  /\ \A n \in Names : \A zs \in SUBSET Above[n] : zs # {} => \E z \in zs : zs \subseteq Above[z]
  /\ {"A", "NS", "CNAME", "SOA", "NX"} \subseteq Types
  /\ Questions \subseteq [qname : Names, qtype : Types, qclass : {"IN", "CH"}]
  /\ Queries = [server : Addresses, tcp : BOOLEAN, x20 : BOOLEAN, qname : Names, qtype : Types]
  /\ Messages \subseteq [tc : BOOLEAN, aa : BOOLEAN, rcode : {"NoError", "NXDomain", "ServFail"},
                         answers : SUBSET RR, authority : SUBSET RR, additional : SUBSET RR]
  /\ RootNs \subseteq Names /\ RootServers \subseteq Addresses
  /\ \A n \in RootNs : AddressQuestion(n) \in Questions
  /\ \A m \in Messages : \A rr \in m.answers \cup m.authority \cup m.additional :
       rr.type = "NS" => AddressQuestion(rr.data) \in Questions
  /\ DOMAIN Stubs \subseteq Names /\ \A z \in DOMAIN Stubs : Stubs[z] \subseteq Addresses
  /\ {MaxReferralDepth, MaxCnameChain, MaxGluelessNs, SpoofTcpThreshold,
      kMaxSubqueryDepth, kMaxRetryRounds, HopWrap} \subseteq Nat
  /\ MaxCnameChain < HopWrap
  /\ Use0x20 \in BOOLEAN

\* A name has so many labels.
ASSUME LabelsCounted == \A n \in Names : Cardinality(Above[n]) \in Nat

VARIABLES
  res,       \* [TaskIds -> the resolution state of a Task, or None]
  at,        \* which resolution step the thread is in, and its arguments
  result,    \* the Outcome finish() carries to the callbacks
  cache,     \* [Keys -> Entry or None]: live entries
  no_0x20    \* servers that don't echo letter case

resVars == <<res, at, result, cache, no_0x20>>
vars == <<taskVars, resVars>>

----------------------------------------------------------------------------
(* Helpers on records *)

IsSubdomainOf(n, z) == z \in Above[n]

LabelCount(n) == Cardinality(Above[n])

collect(section, n, ty) == {rr \in section : rr.name = n /\ rr.type = ty}

ipv4_addresses(rrs) == {rr.data : rr \in {r \in rrs : r.type = "A"}}

find_soa(authority, n) == {rr \in authority : rr.type = "SOA" /\ IsSubdomainOf(n, rr.name)}

\* The NS records of a referral: those sharing the owner of one of them.
referral_ns(authority, owner) == collect(authority, owner, "NS")

BelieveAll(m, zone) == m   \* wrong: records of any zone are believed

filter_to_bailiwick(m, zone) ==
  LET inside(section) == {rr \in section : IsSubdomainOf(rr.name, zone)} IN
  [m EXCEPT !.answers = inside(@), !.authority = inside(@), !.additional = inside(@)]

----------------------------------------------------------------------------
(* The cache, as the resolver uses it *)

\* Cache::insert() for several keys: a live entry is never replaced by a less trusted one.
Insert(new) ==
  [k \in Keys |-> IF k \in DOMAIN new /\ ~(cache[k] # None /\ cache[k].trust > new[k].trust)
                    THEN new[k] ELSE cache[k]]

Positive(trust, rrs) == [trust |-> trust, negative |-> FALSE, records |-> rrs]
Negative(proof) == [trust |-> Authority, negative |-> TRUE, records |-> proof]

Slot(k, e) == [x \in {k} |-> e]
NoSlots == [x \in {} |-> None]

Join2(f, g) == [x \in DOMAIN f \cup DOMAIN g |-> IF x \in DOMAIN f THEN f[x] ELSE g[x]]

\* cache_glue(): the addresses a response gives for these name servers.
cache_glue(additional, ns) ==
  LET named == {rr.data : rr \in ns} IN
  [k \in {<<n, "A">> : n \in {m \in named : collect(additional, m, "A") # {}}} |->
     Positive(Glue, collect(additional, k[1], "A"))]

\* Between two callbacks an entry expires or is evicted.
Expire(k) ==
  /\ call = Idle /\ cache[k] # None
  /\ cache' = [cache EXCEPT ![k] = None]
  /\ UNCHANGED <<taskVars, res, at, result, no_0x20>>
----------------------------------------------------------------------------
(* Tasks *)

\* A new Task: nothing known of any zone yet.
NewTask(q, ancestry) ==
  [qname |-> q.qname, hops |-> 0, chain |-> <<>>, ancestry |-> ancestry,
   zone |-> None, servers |-> {}, unresolved |-> {}, tried |-> {}, timed_out |-> {},
   retry_rounds |-> 0, glueless_lookups |-> 0, referrals |-> 0]

\* The question a task is working on, as its sub-queries' ancestry records it.
Working(i) == [qname |-> res[i].qname, qtype |-> question[i].qtype, qclass |-> "IN"]

\* Where the thread is within a resolution step.
Nowhere == [fn |-> "none"]
At(fn) == [fn |-> fn]
AtSend(s, tcp) == [fn |-> "send_query", server |-> s, tcp |-> tcp]
AtHandle(s, tcp, m) == [fn |-> "handle_response", server |-> s, tcp |-> tcp, msg |-> m]
AtAnswers(m, followed) == [fn |-> "answers", msg |-> m, followed |-> followed]

\* outcome(): the CNAMEs followed, then the records.
NoResult == [kind |-> "none", chain |-> <<>>, records |-> {}]
outcome(i, kind, rrs) == [kind |-> kind, chain |-> res[i].chain, records |-> rrs]
Failure(kind) == [kind |-> kind, chain |-> <<>>, records |-> {}]
Succeeded(o) == o.kind \in {"NoError", "NXDomain"}

\* A step ends its task with outcome o.
End(i, o) ==
  /\ GoFinish(i)
  /\ result' = o
  /\ at' = Nowhere

\* A step goes on within the same callback.
Continue(i, t, next) ==
  /\ res' = [res EXCEPT ![i] = t]
  /\ at' = next
  /\ UNCHANGED <<taskVars, result>>

----------------------------------------------------------------------------
(* step(): from the cache if possible, else from the closest zone cut *)

OneTooMany(t) == (t.hops + 1) % HopWrap <= MaxCnameChain + 1   \* wrong: off by one

\* follow_cname(): the counter is a uint8_t.
CanFollow(t) == (t.hops + 1) % HopWrap <= MaxCnameChain

UnrecordedHop(t, cname) ==   \* wrong: the CNAME is left out of the answer
  [t EXCEPT !.hops = (@ + 1) % HopWrap, !.qname = cname.data]

Followed(t, cname) ==
  [t EXCEPT !.hops = (@ + 1) % HopWrap, !.chain = Append(@, cname), !.qname = cname.data]

\* What the cache answers by itself, if it does.
CacheAnswers(i) ==
  LET n == res[i].qname
      hit == cache[<<n, question[i].qtype>>]
  IN  IF question[i].qclass # "IN" THEN {Failure("ServFail")}
      ELSE IF cache[<<n, "NX">>] # None THEN {outcome(i, "NXDomain", {})}
      ELSE IF hit = None THEN {}
      ELSE IF hit.negative THEN {outcome(i, "NoError", {})}
      ELSE IF hit.trust = Answer THEN {outcome(i, "NoError", hit.records)}
      ELSE {}

\* The CNAMEs the cache would have the task follow.
CachedCname(i) ==
  LET e == cache[<<res[i].qname, "CNAME">>] IN
  IF question[i].qtype = "CNAME" \/ e = None THEN {}
  ELSE IF e.negative \/ e.trust # Answer THEN {}
  ELSE e.records

StepAnswers(i) ==
  /\ Running(i) /\ at.fn = "step"
  /\ \E o \in CacheAnswers(i) : End(i, o)
  /\ UNCHANGED <<res, cache, no_0x20>>

StepFollows(i) ==
  /\ Running(i) /\ at.fn = "step" /\ CacheAnswers(i) = {}
  /\ \E rr \in CachedCname(i) :
       IF CanFollow(res[i])
         THEN Continue(i, Followed(res[i], rr), At("step"))
         ELSE End(i, Failure("MaxCnameChainExceeded")) /\ UNCHANGED res
  /\ UNCHANGED <<cache, no_0x20>>

KeepTimedOut(t, z) ==   \* wrong: timeouts of the zone before count in this one
  [t EXCEPT !.zone = z, !.servers = {}, !.unresolved = {}, !.tried = {},
            !.retry_rounds = 0, !.glueless_lookups = 0]

reset_zone(t, z) ==
  [t EXCEPT !.zone = z, !.servers = {}, !.unresolved = {}, !.tried = {}, !.timed_out = {},
            !.retry_rounds = 0, !.glueless_lookups = 0]

\* enter_zone(): addresses from glue, else from cache c; without either the
\* name server's own address has yet to be looked up.
enter_zone(t, z, names, glue, c) ==
  LET cached(n) == LET e == c[<<n, "A">>] IN
                   IF e = None THEN {} ELSE IF e.negative THEN {} ELSE ipv4_addresses(e.records)
      fresh(n)  == ipv4_addresses(collect(glue, n, "A"))
      known(n)  == IF fresh(n) # {} THEN fresh(n) ELSE cached(n)
  IN  [reset_zone(t, z) EXCEPT
         !.servers = (UNION {known(n) : n \in names}) \cup (IF z = Root THEN RootServers ELSE {}),
         !.unresolved = {n \in names : known(n) = {}}]

CachedNs(z) ==
  LET e == cache[<<z, "NS">>] IN
  IF e = None THEN {} ELSE IF e.negative THEN {} ELSE {rr.data : rr \in e.records}

start_at_closest_zone(t) ==
  LET cuts == {z \in Above[t.qname] : z \in DOMAIN Stubs \/ CachedNs(z) # {}}
      z == CHOOSE y \in cuts : cuts \subseteq Above[y]
  IN  IF cuts = {} THEN enter_zone(t, Root, RootNs, {}, cache)
      ELSE IF z \in DOMAIN Stubs THEN [reset_zone(t, z) EXCEPT !.servers = Stubs[z]]
      ELSE enter_zone(t, z, CachedNs(z), {}, cache)

StepStarts(i) ==
  /\ Running(i) /\ at.fn = "step" /\ CacheAnswers(i) = {} /\ CachedCname(i) = {}
  /\ Continue(i, start_at_closest_zone(res[i]), At("next_server"))
  /\ UNCHANGED <<cache, no_0x20>>
----------------------------------------------------------------------------
(* next_server(): an untried server, else a glueless name server, else       *)
(* another round for those that timed out, else give up                      *)

Untried(i) == res[i].servers \ res[i].tried

AtNextServer(i) == Running(i) /\ at.fn = "next_server"

PickServer(i) ==
  /\ AtNextServer(i)
  /\ \E s \in Untried(i) : Continue(i, res[i], AtSend(s, FALSE))
  /\ UNCHANGED <<cache, no_0x20>>

CycleAboveOnly(i, q) ==   \* wrong: the task's own question is not looked at
  \E k \in DOMAIN res[i].ancestry : res[i].ancestry[k] = q

would_cycle(i, q) ==
  q = Working(i) \/ \E k \in DOMAIN res[i].ancestry : res[i].ancestry[k] = q

MayLookUp(i) == res[i].unresolved # {} /\ res[i].glueless_lookups < MaxGluelessNs

NotTaken(t, ns) == t   \* wrong: the name is still there the next time round

\* unresolved_ns.pop_front()
Taken(t, ns) == [t EXCEPT !.unresolved = @ \ {ns}]

LookUpNameServer(i) ==
  /\ AtNextServer(i) /\ Untried(i) = {} /\ MayLookUp(i)
  /\ \E n \in res[i].unresolved :
       LET q == AddressQuestion(n)
           t == Taken(res[i], n)
       IN  IF would_cycle(i, q) \/ Len(t.ancestry) >= kMaxSubqueryDepth
             THEN Continue(i, t, At("next_server"))
             ELSE /\ SpawnChild(i, q)
                  /\ res' = [res EXCEPT ![i] = [t EXCEPT !.glueless_lookups = @ + 1],
                                        ![NewId] = NewTask(q, Append(t.ancestry, Working(i)))]
                  /\ at' = Nowhere
                  /\ UNCHANGED result
  /\ UNCHANGED <<cache, no_0x20>>

MayRetry(i) == res[i].timed_out # {} /\ res[i].retry_rounds < kMaxRetryRounds

RetryAll(t) ==   \* wrong: servers that answered uselessly are asked again too
  [t EXCEPT !.retry_rounds = @ + 1, !.tried = {}, !.timed_out = {}]

AnotherRound(t) ==
  [t EXCEPT !.retry_rounds = @ + 1, !.tried = @ \ t.timed_out, !.timed_out = {}]

RetryTimedOut(i) ==
  /\ AtNextServer(i) /\ Untried(i) = {} /\ ~MayLookUp(i) /\ MayRetry(i)
  /\ Continue(i, AnotherRound(res[i]), At("next_server"))
  /\ UNCHANGED <<cache, no_0x20>>

GiveUp(i) ==
  /\ AtNextServer(i) /\ Untried(i) = {} /\ ~MayLookUp(i) /\ ~MayRetry(i)
  /\ End(i, Failure("AllServersFailed"))
  /\ UNCHANGED <<res, cache, no_0x20>>

----------------------------------------------------------------------------
(* send_query() and on_response() *)

\* 0x20 is for UDP, and servers not known to normalise case.
MixCase(s, tcp) == Use0x20 /\ ~tcp /\ s \notin no_0x20

\* A TCP retry is the same try.
SendQuery(i) ==
  /\ Running(i) /\ at.fn = "send_query"
  /\ IF queries[budget[i]] >= MaxUpstreamQueries
       THEN End(i, Failure("MaxQueriesExceeded")) /\ UNCHANGED res
       ELSE /\ send_query(i, [server |-> at.server, tcp |-> at.tcp,
                              x20 |-> MixCase(at.server, at.tcp),
                              qname |-> res[i].qname, qtype |-> question[i].qtype])
            /\ res' = [res EXCEPT ![i].tried = IF at.tcp THEN @ ELSE @ \cup {at.server}]
            /\ at' = Nowhere
            /\ UNCHANGED result
  /\ UNCHANGED <<cache, no_0x20>>

\* Forged replies race this server's answer: ask it again over TCP.
OnSpoofSuspected(i, m) ==
  /\ SpoofTcpThreshold # 0 /\ ~m.tcp
  /\ on_response(i, m)
  /\ at' = AtSend(m.server, TRUE)
  /\ UNCHANGED <<res, result, cache, no_0x20>>

\* It answered, but not in the case we asked: ask again without 0x20.
OnCaseMismatch(i, m) ==
  /\ m.x20
  /\ on_response(i, m)
  /\ no_0x20' = no_0x20 \cup {m.server}
  /\ res' = [res EXCEPT ![i].tried = @ \ {m.server}]
  /\ at' = AtSend(m.server, FALSE)
  /\ UNCHANGED <<result, cache>>

OnTimeout(i, m) ==
  /\ on_response(i, m)
  /\ res' = [res EXCEPT ![i].timed_out = @ \cup {m.server}]
  /\ at' = At("next_server")
  /\ UNCHANGED <<result, cache, no_0x20>>

OnNetworkError(i, m) ==
  /\ on_response(i, m)
  /\ at' = At("next_server")
  /\ UNCHANGED <<res, result, cache, no_0x20>>

OnReply(i, m, reply) ==
  /\ on_response(i, m)
  /\ at' = AtHandle(m.server, m.tcp, reply)
  /\ UNCHANGED <<res, result, cache, no_0x20>>

\* The upstream client reports what became of query m of task i.
OnResponse(i, m) ==
  \/ OnSpoofSuspected(i, m)
  \/ OnCaseMismatch(i, m)
  \/ OnTimeout(i, m)
  \/ OnNetworkError(i, m)
  \/ \E reply \in Messages : OnReply(i, m, reply)

----------------------------------------------------------------------------
(* handle_response() *)

\* Truncated: over TCP, or give up on this server.  An error rcode: likewise.
\* Otherwise only records inside the zone asked about are believed.
HandleResponse(i) ==
  /\ Running(i) /\ at.fn = "handle_response"
  /\ Continue(i, res[i],
       IF at.msg.tc THEN (IF at.tcp THEN At("next_server") ELSE AtSend(at.server, TRUE))
       ELSE IF at.msg.rcode \notin {"NoError", "NXDomain"} THEN At("next_server")
       ELSE AtAnswers(filter_to_bailiwick(at.msg, res[i].zone), FALSE))
  /\ UNCHANGED <<cache, no_0x20>>

AtAnswersOf(i) == Running(i) /\ at.fn = "answers"

Rank(m) == IF m.aa THEN Answer ELSE Authority

\* The records at.msg has for the name the task is at, and its CNAME.
RRset(i) == collect(at.msg.answers, res[i].qname, question[i].qtype)
Cnames(i) == IF question[i].qtype = "CNAME" THEN {}
             ELSE collect(at.msg.answers, res[i].qname, "CNAME")

HandleAnswer(i) ==
  /\ AtAnswersOf(i) /\ RRset(i) # {}
  /\ cache' = Insert(Join2(Slot(<<res[i].qname, question[i].qtype>>, Positive(Rank(at.msg), RRset(i))),
                           IF question[i].qtype = "NS" THEN cache_glue(at.msg.additional, RRset(i))
                                                       ELSE NoSlots))
  /\ End(i, outcome(i, "NoError", RRset(i)))
  /\ UNCHANGED <<res, no_0x20>>

HandleCname(i) ==
  /\ AtAnswersOf(i) /\ RRset(i) = {}
  /\ \E rr \in Cnames(i) :
       /\ cache' = Insert(Slot(<<res[i].qname, "CNAME">>, Positive(Rank(at.msg), {rr})))
       /\ IF CanFollow(res[i])
            THEN Continue(i, Followed(res[i], rr), AtAnswers(at.msg, TRUE))
            ELSE End(i, Failure("MaxCnameChainExceeded")) /\ UNCHANGED res
  /\ UNCHANGED no_0x20

AskSameZone(i) ==   \* wrong: the target is asked of the servers at hand
  /\ AtAnswersOf(i) /\ RRset(i) = {} /\ Cnames(i) = {} /\ at.followed
  /\ Continue(i, res[i], At("next_server"))
  /\ UNCHANGED <<cache, no_0x20>>

\* The rest of the chain isn't in this response: resolve the target afresh.
HandleChainEnd(i) ==
  /\ AtAnswersOf(i) /\ RRset(i) = {} /\ Cnames(i) = {} /\ at.followed
  /\ Continue(i, res[i], At("step"))
  /\ UNCHANGED <<cache, no_0x20>>

NothingAnswered(i) ==
  AtAnswersOf(i) /\ RRset(i) = {} /\ Cnames(i) = {} /\ ~at.followed

Soa(i) == find_soa(at.msg.authority, res[i].qname)

\* Negative answers are cached when an SOA proves them.
Deny(i, kind, ty) ==
  \E proof \in IF Soa(i) = {} THEN {{}} ELSE {{rr} : rr \in Soa(i)} :
    /\ cache' = IF proof = {} THEN cache ELSE Insert(Slot(<<res[i].qname, ty>>, Negative(proof)))
    /\ End(i, outcome(i, kind, {}))
    /\ UNCHANGED <<res, no_0x20>>

HandleNxDomain(i) ==
  /\ NothingAnswered(i) /\ at.msg.rcode = "NXDomain"
  /\ Deny(i, "NXDomain", "NX")

\* The owners of the NS records of a referral, which is never authoritative.
Delegated(i) ==
  IF at.msg.aa THEN {} ELSE {rr.name : rr \in {r \in at.msg.authority : r.type = "NS"}}

Downward(i, owner) ==
  LabelCount(owner) > LabelCount(res[i].zone) /\ IsSubdomainOf(res[i].qname, owner)

HandleReferral(i) ==
  /\ NothingAnswered(i) /\ at.msg.rcode = "NoError"
  /\ \E owner \in Delegated(i) :
       LET ns == referral_ns(at.msg.authority, owner)
           t == [res[i] EXCEPT !.referrals = @ + 1]
       IN  IF ~Downward(i, owner)
             THEN Continue(i, res[i], At("next_server")) /\ UNCHANGED cache
           ELSE IF t.referrals > MaxReferralDepth
             THEN End(i, Failure("MaxDepthExceeded")) /\ UNCHANGED <<res, cache>>
             ELSE /\ cache' = Insert(Join2(Slot(<<owner, "NS">>, Positive(Authority, ns)),
                                           cache_glue(at.msg.additional, ns)))
                  /\ Continue(i, enter_zone(t, owner, {rr.data : rr \in ns}, at.msg.additional, cache'),
                              At("next_server"))
  /\ UNCHANGED no_0x20

HandleNoData(i) ==
  /\ NothingAnswered(i) /\ at.msg.rcode = "NoError" /\ Delegated(i) = {}
  /\ at.msg.aa \/ Soa(i) # {}
  /\ Deny(i, "NoError", question[i].qtype)

HandleLame(i) ==
  /\ NothingAnswered(i) /\ at.msg.rcode = "NoError" /\ Delegated(i) = {}
  /\ ~at.msg.aa /\ Soa(i) = {}
  /\ Continue(i, res[i], At("next_server"))
  /\ UNCHANGED <<cache, no_0x20>>
----------------------------------------------------------------------------
(* The lifecycle steps of ResolverTasks, with the resolution state *)

Init ==
  /\ TasksInit
  /\ res = [i \in TaskIds |-> None]
  /\ at = Nowhere
  /\ result = NoResult
  /\ cache = [k \in Keys |-> None]
  /\ no_0x20 = {}

\* resolve(), and prime_root() with the root's NS question.
Resolve(c, q) ==
  /\ resolve_client(c, q)
  /\ res' = IF in_flight[q] \in live THEN res ELSE [res EXCEPT ![NewId] = NewTask(q, <<>>)]
  /\ UNCHANGED <<at, result, cache, no_0x20>>

Start(i) ==
  /\ StartTimerFires(i)
  /\ at' = At("step")
  /\ UNCHANGED <<res, result, cache, no_0x20>>

Deadline(i) ==
  /\ DeadlineFires(i)
  /\ result' = Failure("Timeout")
  /\ UNCHANGED <<res, at, cache, no_0x20>>

Finish(i) ==
  /\ finish(i)
  /\ res' = [res EXCEPT ![i] = None]
  /\ UNCHANGED <<at, result, cache, no_0x20>>

Cancel(i) ==
  /\ cancel(i)
  /\ res' = [res EXCEPT ![i] = None]
  /\ UNCHANGED <<at, result, cache, no_0x20>>

CallBack(i, c) ==
  /\ CallClient(i, c)
  /\ result' = IF call' = Idle THEN NoResult ELSE result
  /\ UNCHANGED <<res, at, cache, no_0x20>>

\* on_child_done(): the addresses found, if any, are servers to try.
OnChildDone(i) ==
  /\ on_child_done(i)
  /\ res' = IF Succeeded(result)
              THEN [res EXCEPT ![parent[i]].servers = @ \cup ipv4_addresses(result.records)]
              ELSE res
  /\ at' = At("next_server")
  /\ result' = NoResult
  /\ UNCHANGED <<cache, no_0x20>>

DestroyResolver ==
  /\ Destroy
  /\ res' = [i \in TaskIds |-> None]
  /\ no_0x20' = {}
  /\ UNCHANGED <<at, result, cache>>

CreateResolver == Create /\ UNCHANGED resVars

\* What the thread does before it is back in the event loop.
Inside ==
  \E i \in TaskIds :
    \/ StepAnswers(i) \/ StepFollows(i) \/ StepStarts(i)
    \/ PickServer(i) \/ LookUpNameServer(i) \/ RetryTimedOut(i) \/ GiveUp(i)
    \/ SendQuery(i)
    \/ HandleResponse(i) \/ HandleAnswer(i) \/ HandleCname(i) \/ HandleChainEnd(i)
    \/ HandleNxDomain(i) \/ HandleReferral(i) \/ HandleNoData(i) \/ HandleLame(i)
    \/ Finish(i) \/ Cancel(i) \/ (\E c \in Clients : CallBack(i, c)) \/ OnChildDone(i)

UpstreamAnswers(i) == i \in live /\ \E e \in pending : e[1] = i /\ OnResponse(i, e[2])

Next ==
  \/ \E c \in Clients, q \in Questions : Resolve(c, q)
  \/ \E i \in TaskIds : Start(i) \/ Deadline(i) \/ UpstreamAnswers(i)
  \/ Inside
  \/ \E k \in Keys : Expire(k)
  \/ DestroyResolver
  \/ CreateResolver

Spec == Init /\ [][Next]_vars

\* The upstream client always reports, if only a timeout, and a timer that is due
\* gets its turn however busy the loop is: strong fairness, since the thread is
\* idle again and again but never for ever.  Nothing is assumed of the clients.
ThreadFairness == WF_vars(Inside)

\* No deadline is assumed to fire: resolution has to end by its own limits.
SelfLimitedSpec ==
  /\ Spec /\ ThreadFairness
  /\ \A i \in TaskIds : SF_vars(Start(i)) /\ SF_vars(UpstreamAnswers(i))

----------------------------------------------------------------------------
\* What a sub-query's ancestry records: names are looked up in class IN only.
Asked == [qname : Names, qtype : Types, qclass : {"IN"}]

TaskState ==
  [qname : Names, hops : 0..MaxCnameChain, chain : Seq(RR), ancestry : Seq(Asked),
   zone : Names \cup {None}, servers : SUBSET Addresses, unresolved : SUBSET Names,
   tried : SUBSET Addresses, timed_out : SUBSET Addresses, retry_rounds : 0..kMaxRetryRounds,
   glueless_lookups : 0..MaxGluelessNs, referrals : 0..MaxReferralDepth]

ASSUME TaskIsSomething == None \notin TaskState

Steps ==
  [fn : {"none", "step", "next_server"}]
    \cup [fn : {"send_query"}, server : Addresses, tcp : BOOLEAN]
    \cup [fn : {"handle_response"}, server : Addresses, tcp : BOOLEAN, msg : Messages]
    \cup {AtAnswers(filter_to_bailiwick(m, z), f) : m \in Messages, z \in Names, f \in BOOLEAN}

\* Every variable keeps its type, the counters their limits; the thread is in a
\* resolution step exactly when ResolverTasks says it runs a task.
TypeOK ==
  /\ TasksTypeOK
  /\ res \in [TaskIds -> TaskState \cup {None}]
  /\ \A i \in TaskIds : res[i] # None <=> i \in live
  /\ at \in Steps
  /\ at.fn # "none" <=> call.fn = "run"
  /\ cache \in [Keys -> Entry \cup {None}]
  /\ no_0x20 \subseteq Addresses

\* A reply is judged against the task's current name and zone (on_response(),
\* handle_response()), so the query in flight must be about exactly those: its
\* server serves the current zone and counts as tried, and the name is the
\* task's.  No reply to an earlier zone, name or round can come in.  And a name in a
\* stub zone, come to by question or by CNAME, is asked for only in that zone or in a
\* delegation below it (start_at_closest_zone()).
QueryIsCurrent ==
  \A e \in pending :
    LET t == res[e[1]]
        m == e[2]
    IN  /\ m.qname = t.qname /\ m.qtype = question[e[1]].qtype
        /\ m.server \in t.servers /\ m.server \in t.tried /\ m.server \notin t.timed_out
        /\ m.x20 => ~m.tcp
        /\ \A z \in DOMAIN Stubs : IsSubdomainOf(m.qname, z) => IsSubdomainOf(t.zone, z)

\* "Only records inside the zone we asked about are believed" is worth something
\* only while that zone contains the name: it does whenever a task asks or waits.
NameInZone ==
  \A i \in live :
    \/ WaitsForServer(i)
    \/ WaitsForChild(i)
    \/ InHand("run", i) /\ at.fn \in {"next_server", "send_query", "handle_response"}
    => IsSubdomainOf(res[i].qname, res[i].zone)

\* Cycle detection looks at questions copied when a sub-query was spawned.  The
\* copy never goes stale (each enclosing task stays on the question recorded for
\* it), no sub-query repeats an enclosing question, and nesting stays within
\* kMaxSubqueryDepth; and the state it is all written in keeps its type.
AncestryCurrent ==
  /\ TypeOK
  /\ \A j \in live :
       /\ parent[j] \in live =>
            res[j].ancestry = Append(res[parent[j]].ancestry, Working(parent[j]))
       /\ \A k \in DOMAIN res[j].ancestry : res[j].ancestry[k] # question[j]
       /\ Len(res[j].ancestry) <= kMaxSubqueryDepth

\* max_cname_chain bounds the CNAMEs a resolution follows, through the cache and
\* through responses alike.
ChainBounded == \A i \in live : Len(res[i].chain) <= MaxCnameChain

\* The CNAMEs in chain lead from name n to name m.
Links(chain, n, m) ==
  /\ \A k \in DOMAIN chain : chain[k].name = IF k = 1 THEN n ELSE chain[k - 1].data
  /\ m = IF chain = <<>> THEN n ELSE chain[Len(chain)].data

\* What finish() hands to the callbacks answers the question that was asked: its
\* CNAMEs lead from the question's name to the owner of the records, which have
\* the type asked for, whether they came from the cache or from servers.
AnswersTheQuestion ==
  LET i == IF call.fn = "cancel" THEN call.top ELSE call.id IN
  call.fn \in {"finish", "cancel", "done", "clients"} /\ Succeeded(result) =>
    \E m \in Names :
      /\ Links(result.chain, question[i].qname, m)
      /\ \A rr \in result.records : rr.name = m /\ rr.type = question[i].qtype

\* A response changes the cache only for names inside the zone its server was
\* asked about (bailiwick), however its records, CNAMEs and glue are arranged.
BailiwickRespected ==
  [][\A k \in Keys :
       cache'[k] # cache[k] /\ cache'[k] # None =>
         IsSubdomainOf(k[1], res[call.id].zone)]_vars

\* Servers that refused or answered uselessly are not asked again in the same
\* visit to a zone: a server leaves `tried` only if it timed out, or answered in
\* the wrong case and is asked at once without 0x20.
OnlyTimedOutRetried ==
  [][\A i \in live \cap live' :
       res'[i].zone = res[i].zone /\ at.fn # "step" =>
         \A s \in res[i].tried \ res'[i].tried :
           s \in res[i].timed_out \/ (at' = AtSend(s, FALSE) /\ s \in no_0x20')]_vars

\* Every caller of resolve() is called back in the end.
EveryoneAnswered == \A c \in Clients : waiting[c] # None ~> waiting[c] = None

----------------------------------------------------------------------------
(* Why Spec implements TasksSpec: what is asked is always a question or a query. *)

SoundRR(rr) == rr \in RR /\ (rr.type = "NS" => AddressQuestion(rr.data) \in Questions)

SoundMessage(m) == \A rr \in m.answers \cup m.authority \cup m.additional : SoundRR(rr)

\* hops counts the CNAMEs followed, as long as it cannot wrap.
SoundChain(chain, hops, n, m) ==
  /\ chain \in Seq(RR)
  /\ Links(chain, n, m)
  /\ MaxCnameChain + 1 < HopWrap => hops = Len(chain) /\ hops <= MaxCnameChain

SoundTask(q, t) ==
  /\ {"qname", "zone", "hops", "chain", "servers", "unresolved"} \subseteq DOMAIN t
  /\ t.qname \in Names /\ t.servers \subseteq Addresses
  /\ \A n \in t.unresolved : AddressQuestion(n) \in Questions
  /\ SoundChain(t.chain, t.hops, q.qname, t.qname)

SoundStep(a) ==
  /\ a.fn \in {"send_query", "handle_response"} => a.server \in Addresses /\ a.tcp \in BOOLEAN
  /\ a.fn = "handle_response" => a.msg \in Messages
  /\ a.fn = "answers" => SoundMessage(a.msg)

SoundEntry(k, e) ==
  e # None /\ ~e.negative => \A rr \in e.records : rr.name = k[1] /\ rr.type = k[2] /\ SoundRR(rr)

TasksSound == DOMAIN res = TaskIds /\ \A i \in live : SoundTask(question[i], res[i])

CacheSound == DOMAIN cache = Keys /\ \A k \in Keys : SoundEntry(k, cache[k])

ResultSound == \A rr \in result.records : SoundRR(rr)

ResolutionSound == TasksSound /\ SoundStep(at) /\ ResultSound /\ CacheSound
=============================================================================

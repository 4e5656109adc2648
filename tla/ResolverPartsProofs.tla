------------------------ MODULE ResolverPartsProofs ------------------------
(***************************************************************************)
(* The two parts the resolver works with.  The upstream client leaks       *)
(* nothing and keeps its contract with the resolver, for any number of     *)
(* queries, any buffer and any threshold.  The cache is in order and keeps *)
(* its promises, whatever its shards, budget, keys and threads are.        *)
(*                                                                         *)
(* The few facts about finite sets the second part rests on, FiniteFacts,  *)
(* are proved at the end of the module, from the library's theorems.       *)
(***************************************************************************)
EXTENDS Upstream, Cache, TLAPS, WellFoundedInduction

USE SMTT(60), SMTT(90)   \* a second try, should the machine be busy

\* A set of natural numbers has a least one.
LEMMA NatMin ==
  ASSUME NEW S, S \subseteq Nat, S # {}
  PROVE  \E m \in S : \A k \in S : m <= k
<1> DEFINE Less == {ss \in Nat \X Nat : ss[1] < ss[2]}
<1>1. IsWellFoundedOn(Less, Nat)
  BY NatLessThanWellFounded, Zenon DEF OpToRel
<1>2. PICK m \in S : \A k \in S : <<k, m>> \notin Less
  BY <1>1, WFMin, Zenon
<1>3. ASSUME NEW k \in S, k < m PROVE FALSE
  <2>1. <<k, m>> \in Nat \X Nat
    OBVIOUS
  <2>2. <<k, m>>[1] < <<k, m>>[2]
    BY <1>3
  <2> QED  BY <1>2, <2>1, <2>2, Zenon
<1> QED  BY <1>3

----------------------------------------------------------------------------
(* The upstream client: what a step does to a query *)

\* The least of a set of natural numbers is one of them.
LEMMA LeastIsIn ==
  ASSUME NEW S, S \subseteq Nat, S # {}
  PROVE  Min(S) \in S
  BY NatMin, ZenonT(30) DEF Min

\* A loop that reads what has arrived stops after one arrival or reads them all.
LEMMA ReadsPrefix ==
  ASSUME NEW S, NEW s \in Seq(S), s # <<>>, NEW ends, ends \subseteq DOMAIN s
  PROVE  \E k \in 1..Len(s) :
           /\ Read(s, ends) = SubSeq(s, 1, k) /\ Last(Read(s, ends)) = s[k]
           /\ Len(Read(s, ends)) = k
           /\ IF ends = {} THEN Read(s, ends) = s ELSE k \in ends
<1>1. DOMAIN s = 1..Len(s) /\ Len(s) \in Nat /\ Len(s) # 0 /\ SubSeq(s, 1, Len(s)) = s
  OBVIOUS
<1>2. PICK k \in 1..Len(s) :
        Read(s, ends) = SubSeq(s, 1, k) /\ IF ends = {} THEN k = Len(s) ELSE k \in ends
  <2>1. CASE ends = {}
    <3>1. Len(s) \in 1..Len(s)
      BY <1>1
    <3>2. Read(s, ends) = SubSeq(s, 1, Len(s))
      BY <2>1, <1>1, ZenonT(30) DEF Read
    <3> QED  BY <2>1, <3>1, <3>2, ZenonT(30)
  <2>2. CASE ends # {}
    <3>1. Min(ends) \in ends
      BY <1>1, <2>2, LeastIsIn
    <3> QED  BY <2>2, <1>1, <3>1, ZenonT(30) DEF Read
  <2> QED  BY <2>1, <2>2
<1>3. /\ SubSeq(s, 1, k) \in Seq(S) /\ Len(SubSeq(s, 1, k)) = k
      /\ \A i \in 1..k : SubSeq(s, 1, k)[i] = s[i]
  BY <1>1
<1>4. Last(SubSeq(s, 1, k)) = s[k]
  BY <1>3 DEF Last
<1>5. ends = {} => Read(s, ends) = s
  BY ZenonT(30) DEF Read
<1> QED  BY <1>2, <1>3, <1>4, <1>5, ZenonT(30)

----------------------------------------------------------------------------
\* What on_readable() makes of the datagrams it reads: a result the resolver is
\* prepared for, or a query that goes on, still short of the threshold.
LEMMA UdpReads ==
  ASSUME NEW p \in [tcp : BOOLEAN, match_case : BOOLEAN, wrong_case_seen : BOOLEAN,
                    suspicious : Nat, written : BOOLEAN],
         NEW s \in Seq({"yes", "case", "no", "error"}), s # <<>>,
         NEW read, read = Read(s, {k \in DOMAIN s : UdpEnds(p, SubSeq(s, 1, k))})
  PROVE  /\ UdpEnds(p, read) =>
              \/ UdpResult(p, Last(read)) \in {"Message", "NetworkError"}
              \/ UdpResult(p, Last(read)) = "SpoofSuspected" /\ spoof_threshold_ # 0
         /\ ~UdpEnds(p, read) =>
              /\ "case" \in Range(read) => p.match_case
              /\ Len(read) \in Nat
              /\ spoof_threshold_ # 0 => p.suspicious + Len(read) < spoof_threshold_
<1> DEFINE ends == {k \in DOMAIN s : UdpEnds(p, SubSeq(s, 1, k))}
<1>0. /\ ends \subseteq DOMAIN s /\ read = Read(s, ends)
      /\ \A k \in DOMAIN s : k \in ends <=> UdpEnds(p, SubSeq(s, 1, k))
  BY ZenonT(30)
<1> HIDE DEF ends
<1>1. PICK k \in 1..Len(s) :
        /\ read = SubSeq(s, 1, k) /\ Last(read) = s[k] /\ Len(read) = k
        /\ IF ends = {} THEN read = s ELSE k \in ends
  <2>1. \E k \in 1..Len(s) :
          /\ Read(s, ends) = SubSeq(s, 1, k) /\ Last(Read(s, ends)) = s[k]
          /\ Len(Read(s, ends)) = k
          /\ IF ends = {} THEN Read(s, ends) = s ELSE k \in ends
    BY <1>0, ReadsPrefix, ZenonT(30)
  <2> QED  BY <1>0, <2>1, ZenonT(30)
<1>2. /\ Len(s) \in Nat /\ DOMAIN s = 1..Len(s) /\ k \in Nat
      /\ \A l \in 1..Len(s) : s[l] \in {"yes", "case", "no", "error"}
  OBVIOUS
<1>3. ASSUME UdpEnds(p, read)
      PROVE  \/ UdpResult(p, Last(read)) \in {"Message", "NetworkError"}
             \/ UdpResult(p, Last(read)) = "SpoofSuspected" /\ spoof_threshold_ # 0
  <2> DEFINE a == Last(read)
  <2>1. a \in {"yes", "case", "no", "error"}
    BY <1>1, <1>2
  <2> HIDE DEF a
  <2>2. ~IsMismatch(p, a) \/ spoof_threshold_ # 0
    BY <1>3, ZenonT(30) DEF UdpEnds, Suspect, a
  <2>3. CASE a \in {"yes", "case"}
    BY <2>2, <2>3 DEF UdpResult, IsMismatch, Match, a
  <2>4. CASE a \in {"no", "error"}
    BY <2>2, <2>4 DEF UdpResult, IsMismatch, Match, a
  <2> QED  BY <2>1, <2>3, <2>4
<1>4. ASSUME ~UdpEnds(p, read)
      PROVE  /\ "case" \in Range(read) => p.match_case
             /\ spoof_threshold_ # 0 => p.suspicious + Len(read) < spoof_threshold_
  <2>1. ends = {} /\ read = s
    <3>1. k \in DOMAIN s
      BY <1>2
    <3>2. ~UdpEnds(p, SubSeq(s, 1, k))
      BY <1>1, <1>4, ZenonT(30)
    <3>3. k \notin ends
      BY <1>0, <3>1, <3>2, ZenonT(30)
    <3> QED  BY <1>1, <3>3, ZenonT(30)
  <2>2. ~Suspect(p, read)
    BY <1>4, ZenonT(30) DEF UdpEnds
  <2>3. spoof_threshold_ # 0 => p.suspicious + Len(read) < spoof_threshold_
    BY <2>2, <1>1, <1>2, UpstreamConstants DEF Suspect
  <2>4. ASSUME NEW l \in 1..Len(s), s[l] = "case" PROVE p.match_case
    <3>1. ~UdpEnds(p, SubSeq(s, 1, l))
      BY <2>1, <1>0, <1>2, ZenonT(30)
    <3>2. Last(SubSeq(s, 1, l)) = s[l]
      BY <1>2 DEF Last
    <3>3. IsMismatch(p, s[l])
      BY <3>1, <3>2, ZenonT(30) DEF UdpEnds
    <3> QED  BY <3>3, <2>4 DEF IsMismatch, Match
  <2>5. "case" \in Range(read) => p.match_case
    BY <2>1, <2>4, <1>2, ZenonT(30) DEF Range
  <2> QED  BY <2>3, <2>5, ZenonT(30)
<1> QED  BY <1>1, <1>2, <1>3, <1>4, ZenonT(30)

----------------------------------------------------------------------------
Queries ==
  [tcp : BOOLEAN, match_case : BOOLEAN, wrong_case_seen : BOOLEAN, suspicious : Nat,
   written : BOOLEAN]

\* A query ends with a result the contract allows.
EndsWith(i, r) ==
  /\ i \in DOMAIN pending_ /\ finish(i, r) /\ r \in Contract!Reportable(i)
  /\ r = "Timeout" => ~pending_[i].wrong_case_seen

\* g is f but for the value of i.
IsFor(f, g, i, v) ==
  DOMAIN g = DOMAIN f /\ g[i] = v /\ \A j \in DOMAIN f \ {i} : g[j] = f[j]

\* A query goes on, as p and with s unread.
GoesOn(i, p, s) ==
  /\ i \in DOMAIN pending_
  /\ p \in Queries /\ p.tcp = pending_[i].tcp /\ p.match_case = pending_[i].match_case
  /\ p.wrong_case_seen => p.match_case
  /\ spoof_threshold_ # 0 => p.suspicious < spoof_threshold_
  /\ s \in Seq(Arrivals(p.tcp))
  /\ IsFor(pending_, pending_', i, p) /\ IsFor(inbox, inbox', i, s)
  /\ outcome' = <<>> /\ UNCHANGED <<alive, next_id_, sockets, fds, timers>>

EndsOrGoesOn(i) ==
  \/ \E r \in Results : EndsWith(i, r)
  \/ \E p \in Queries, s \in Seq(Arrivals(TRUE)) : GoesOn(i, p, s)

\* An assignment to one entry of a table, and none.
LEMMA ExceptIsFor ==
  ASSUME NEW f, NEW i \in DOMAIN f, NEW v
  PROVE  IsFor(f, [f EXCEPT ![i] = v], i, v) /\ IsFor(f, f, i, f[i])
  BY DEF IsFor

\* What the invariant says of one query.
LEMMA QueryTyped ==
  ASSUME UpstreamInv, NEW i \in DOMAIN pending_
  PROVE  /\ pending_[i] \in Queries
         /\ pending_[i].wrong_case_seen => pending_[i].match_case
         /\ spoof_threshold_ # 0 => pending_[i].suspicious < spoof_threshold_
         /\ inbox[i] \in Seq(Arrivals(pending_[i].tcp))
         /\ i \in Ids /\ i \in DOMAIN inbox /\ i \in DOMAIN timers /\ i # next_id_
         /\ timers[i] \in {"timeout", "soon"}
<1>1. /\ pending_[i] \in Queries
      /\ spoof_threshold_ # 0 => pending_[i].suspicious < spoof_threshold_
      /\ i \in 1..next_id_ - 1 /\ next_id_ \in 1..MaxQueries + 1 /\ i \in DOMAIN timers
  BY ZenonT(30) DEF UpstreamInv, NothingLeaks, Queries
<1>2. i \in Ids /\ i # next_id_
  BY <1>1, UpstreamConstants DEF Ids
<1>3. timers[i] \in {"timeout", "soon"}
  <2>1. Range(timers) \subseteq {"timeout", "soon"}
    BY ZenonT(30) DEF UpstreamInv, NothingLeaks
  <2> QED  BY <1>1, <2>1, ZenonT(30) DEF Range
<1> QED  BY <1>1, <1>2, <1>3, ZenonT(30) DEF UpstreamInv, InboxExact, WrongCaseExact

\* The timer ends a query, as a time-out or the failure of send().
LEMMA TimerEnds ==
  ASSUME UpstreamInv, NEW i \in Ids, TimerFires(i)
  PROVE  \E r \in Results : EndsWith(i, r)
<1>1. i \in DOMAIN pending_
  BY ZenonT(30) DEF UpstreamInv, NothingLeaks, TimerFires
<1> DEFINE r == IF timers[i] = "soon" THEN "NetworkError" ELSE TimeoutResult(i)
<1>2. finish(i, r)
  BY ZenonT(30) DEF TimerFires
<1>3. r \in {"NetworkError", "Timeout"} \/ (r = "CaseMismatch" /\ pending_[i].match_case)
  BY <1>1, QueryTyped, ZenonT(30) DEF TimeoutResult
<1>4. r = "Timeout" => ~pending_[i].wrong_case_seen
  BY <1>1, ZenonT(30) DEF TimeoutResult
<1> HIDE DEF r
<1>5. r \in Results /\ r \in Contract!Reportable(i)
  BY <1>1, <1>3, ZenonT(30) DEF Results, Contract!Reportable
<1> QED  BY <1>1, <1>2, <1>4, <1>5, ZenonT(30) DEF EndsWith

\* Noting datagrams keeps a query below the threshold.
LEMMA NotedExact ==
  ASSUME NEW p \in Queries, NEW read, Len(read) \in Nat,
         "case" \in Range(read) => p.match_case, p.wrong_case_seen => p.match_case,
         spoof_threshold_ # 0 => p.suspicious + Len(read) < spoof_threshold_
  PROVE  /\ Noted(p, read) \in Queries
         /\ Noted(p, read).tcp = p.tcp /\ Noted(p, read).match_case = p.match_case
         /\ Noted(p, read).wrong_case_seen => Noted(p, read).match_case
         /\ spoof_threshold_ # 0 => Noted(p, read).suspicious < spoof_threshold_
<1> DEFINE n == IF spoof_threshold_ = 0 THEN p.suspicious ELSE p.suspicious + Len(read)
           seen == p.wrong_case_seen \/ "case" \in Range(read)
<1>1. n \in Nat /\ (spoof_threshold_ # 0 => n < spoof_threshold_)
  BY DEF Queries
<1>2. seen \in BOOLEAN /\ (seen => p.match_case)
  BY ZenonT(30)
<1>3. Noted(p, read) = [p EXCEPT !.suspicious = n, !.wrong_case_seen = seen]
  BY ZenonT(30) DEF Noted
<1> HIDE DEF n, seen
<1> DEFINE q == [p EXCEPT !.suspicious = n, !.wrong_case_seen = seen]
<1>4. /\ q.tcp = p.tcp /\ q.match_case = p.match_case
      /\ q.suspicious = n /\ q.wrong_case_seen = seen
  BY ZenonT(30) DEF Queries
<1>5. q \in Queries
  BY <1>1, <1>2, ZenonT(30) DEF Queries
<1> QED  BY <1>1, <1>2, <1>3, <1>4, <1>5, ZenonT(30)

\* on_readable() ends a query, or takes note of the datagrams that were not for it.
LEMMA UdpStep ==
  ASSUME UpstreamInv, NEW i \in Ids, on_readable(i)
  PROVE  EndsOrGoesOn(i)
<1> DEFINE p == pending_[i]
           s == inbox[i]
           read == Read(s, {k \in DOMAIN s : UdpEnds(p, SubSeq(s, 1, k))})
<1>1. i \in DOMAIN pending_ /\ ~p.tcp /\ s # <<>>
  BY ZenonT(30) DEF on_readable
<1>2. p \in Queries /\ s \in Seq({"yes", "case", "no", "error"})
  BY <1>1, QueryTyped DEF Arrivals
<1>3. /\ UdpEnds(p, read) =>
           \/ UdpResult(p, Last(read)) \in {"Message", "NetworkError"}
           \/ UdpResult(p, Last(read)) = "SpoofSuspected" /\ spoof_threshold_ # 0
      /\ ~UdpEnds(p, read) =>
           /\ "case" \in Range(read) => p.match_case
           /\ Len(read) \in Nat
           /\ spoof_threshold_ # 0 => p.suspicious + Len(read) < spoof_threshold_
  BY <1>1, <1>2, UdpReads, ZenonT(30) DEF Queries
<1>4. CASE UdpEnds(p, read)
  <2> DEFINE r == UdpResult(p, Last(read))
  <2>1. finish(i, r)
    BY <1>4, ZenonT(30) DEF on_readable
  <2>2. r \in {"Message", "NetworkError"} \/ (r = "SpoofSuspected" /\ spoof_threshold_ # 0)
    BY <1>3, <1>4, ZenonT(30)
  <2> HIDE DEF r
  <2>3. r \in Results /\ r \in Contract!Reportable(i) /\ r # "Timeout"
    BY <1>1, <2>2, ZenonT(30) DEF Results, Contract!Reportable
  <2> QED  BY <1>1, <2>1, <2>3, ZenonT(30) DEF EndsWith, EndsOrGoesOn
<1>5. CASE ~UdpEnds(p, read)
  <2> DEFINE q == Noted(p, read)
  <2>1. /\ pending_' = [pending_ EXCEPT ![i] = q]
        /\ inbox' = [inbox EXCEPT ![i] = <<>>] /\ outcome' = <<>>
        /\ UNCHANGED <<alive, next_id_, sockets, fds, timers>>
    BY <1>5, ZenonT(30) DEF on_readable
  <2>2. /\ spoof_threshold_ # 0 => p.suspicious < spoof_threshold_
        /\ p.wrong_case_seen => p.match_case
    BY <1>1, QueryTyped, ZenonT(30)
  <2>3. /\ q \in Queries /\ q.tcp = p.tcp /\ q.match_case = p.match_case
        /\ q.wrong_case_seen => q.match_case
        /\ spoof_threshold_ # 0 => q.suspicious < spoof_threshold_
    BY <1>2, <1>3, <1>5, <2>2, NotedExact, ZenonT(30)
  <2> HIDE DEF q
  <2>4. <<>> \in Seq(Arrivals(q.tcp)) /\ <<>> \in Seq(Arrivals(TRUE))
    OBVIOUS
  <2>5. IsFor(pending_, pending_', i, q) /\ IsFor(inbox, inbox', i, <<>>)
    BY <1>1, <2>1, QueryTyped, ExceptIsFor, ZenonT(30)
  <2>6. GoesOn(i, q, <<>>)
    BY <1>1, <2>1, <2>3, <2>4, <2>5, ZenonT(30) DEF GoesOn
  <2> QED  BY <2>3, <2>4, <2>6, ZenonT(30) DEF EndsOrGoesOn
<1> QED  BY <1>4, <1>5, ZenonT(30)

\* on_tcp_event() ends a query, writes it, or reads part of its answer.
LEMMA TcpStep ==
  ASSUME UpstreamInv, NEW i \in Ids, on_tcp_event(i)
  PROVE  EndsOrGoesOn(i)
<1> DEFINE p == pending_[i]
<1>1. i \in DOMAIN pending_ /\ p.tcp
  BY ZenonT(30) DEF on_tcp_event, TcpWritable, TcpReadable
<1>2. /\ p \in Queries /\ (p.wrong_case_seen => p.match_case)
      /\ spoof_threshold_ # 0 => p.suspicious < spoof_threshold_
      /\ inbox[i] \in Seq(Arrivals(p.tcp)) /\ i \in DOMAIN inbox
  BY <1>1, QueryTyped, ZenonT(30)
<1>3. Arrivals(p.tcp) = Arrivals(TRUE)
  BY <1>1, ZenonT(30) DEF Arrivals
<1>4. ASSUME NEW r, finish(i, r),
             r \in {"Message", "NetworkError"} \/ (r = "CaseMismatch" /\ p.match_case)
      PROVE  EndsOrGoesOn(i)
  <2>1. r \in Results /\ r \in Contract!Reportable(i) /\ r # "Timeout"
    BY <1>1, <1>4, ZenonT(30) DEF Results, Contract!Reportable
  <2> QED  BY <1>1, <1>4, <2>1, ZenonT(30) DEF EndsWith, EndsOrGoesOn
<1>5. CASE TcpWritable(i)
  <2>1. CASE finish(i, "NetworkError")
    BY <1>4, <2>1, ZenonT(30)
  <2>2. CASE ~finish(i, "NetworkError")
    <3> DEFINE q == [p EXCEPT !.written = TRUE]
    <3>1. /\ pending_' = [pending_ EXCEPT ![i].written = TRUE] /\ outcome' = <<>>
          /\ UNCHANGED <<alive, next_id_, sockets, fds, timers, inbox>>
      BY <1>5, <2>2, ZenonT(30) DEF TcpWritable
    <3>2. IsFor(pending_, pending_', i, q) /\ IsFor(inbox, inbox', i, inbox[i])
      BY <1>1, <1>2, <3>1, ExceptIsFor, ZenonT(30)
    <3>3. /\ q \in Queries /\ q.tcp = p.tcp /\ q.match_case = p.match_case
          /\ q.wrong_case_seen = p.wrong_case_seen /\ q.suspicious = p.suspicious
      BY <1>2, ZenonT(30) DEF Queries
    <3> HIDE DEF q
    <3>4. /\ q.wrong_case_seen => q.match_case
          /\ spoof_threshold_ # 0 => q.suspicious < spoof_threshold_
          /\ inbox[i] \in Seq(Arrivals(q.tcp))
      BY <1>2, <3>3, ZenonT(30)
    <3>5. GoesOn(i, q, inbox[i])
      BY <1>1, <3>1, <3>2, <3>3, <3>4, ZenonT(30) DEF GoesOn
    <3> QED  BY <1>2, <1>3, <3>3, <3>5, ZenonT(30) DEF EndsOrGoesOn
  <2> QED  BY <2>1, <2>2, ZenonT(30)
<1>6. CASE TcpReadable(i)
  <2> DEFINE read == Read(inbox[i], {k \in DOMAIN inbox[i] : inbox[i][k] # "part"})
  <2>1. CASE Last(read) # "part"
    <3>1. finish(i, TcpResult(p, Last(read)))
      BY <1>6, <2>1, ZenonT(30) DEF TcpReadable
    <3>2. \/ TcpResult(p, Last(read)) \in {"Message", "NetworkError"}
          \/ TcpResult(p, Last(read)) = "CaseMismatch" /\ p.match_case
      BY DEF TcpResult, Match
    <3> QED  BY <1>4, <3>1, <3>2, ZenonT(30)
  <2>2. CASE Last(read) = "part"
    <3>1. /\ inbox' = [inbox EXCEPT ![i] = <<>>] /\ outcome' = <<>> /\ pending_' = pending_
          /\ UNCHANGED <<alive, next_id_, sockets, fds, timers>>
      BY <1>6, <2>2, ZenonT(30) DEF TcpReadable
    <3>2. IsFor(pending_, pending_', i, p) /\ IsFor(inbox, inbox', i, <<>>)
      BY <1>1, <1>2, <3>1, ExceptIsFor, ZenonT(30)
    <3>3. <<>> \in Seq(Arrivals(p.tcp)) /\ <<>> \in Seq(Arrivals(TRUE))
      OBVIOUS
    <3>4. GoesOn(i, p, <<>>)
      BY <1>1, <1>2, <3>1, <3>2, <3>3, ZenonT(30) DEF GoesOn
    <3> QED  BY <1>2, <3>3, <3>4, ZenonT(30) DEF EndsOrGoesOn
  <2> QED  BY <2>1, <2>2, ZenonT(30)
<1> QED  BY <1>5, <1>6, ZenonT(30) DEF on_tcp_event

\* A sequence keeps its type as it grows.
LEMMA AppendIsSeq ==
  ASSUME NEW A, NEW B, A \subseteq B, NEW s \in Seq(A), NEW a \in A
  PROVE  Append(s, a) \in Seq(A) /\ Append(s, a) \in Seq(B)
  OBVIOUS

\* More arrives.
LEMMA ArrivesStep ==
  ASSUME UpstreamInv, NEW i \in Ids, NEW a \in Arrivals(TRUE), Arrives(i, a)
  PROVE  EndsOrGoesOn(i)
<1> DEFINE p == pending_[i]
           s == Append(inbox[i], a)
<1>1. /\ i \in DOMAIN pending_ /\ a \in Arrivals(p.tcp) /\ inbox' = [inbox EXCEPT ![i] = s]
      /\ outcome' = <<>> /\ pending_' = pending_
      /\ UNCHANGED <<alive, next_id_, sockets, fds, timers>>
  BY ZenonT(30) DEF Arrives
<1>2. /\ p \in Queries /\ (p.wrong_case_seen => p.match_case)
      /\ spoof_threshold_ # 0 => p.suspicious < spoof_threshold_
      /\ inbox[i] \in Seq(Arrivals(p.tcp)) /\ i \in DOMAIN inbox
  BY <1>1, QueryTyped, ZenonT(30)
<1>3. Arrivals(p.tcp) \subseteq Arrivals(TRUE)
  BY DEF Arrivals
<1>4. s \in Seq(Arrivals(p.tcp)) /\ s \in Seq(Arrivals(TRUE))
  BY <1>1, <1>2, <1>3, AppendIsSeq, ZenonT(30)
<1> HIDE DEF s
<1>5. IsFor(pending_, pending_', i, p) /\ IsFor(inbox, inbox', i, s)
  BY <1>1, <1>2, ExceptIsFor, ZenonT(30)
<1>6. GoesOn(i, p, s)
  BY <1>1, <1>2, <1>4, <1>5, ZenonT(30) DEF GoesOn
<1> QED  BY <1>2, <1>4, <1>6, ZenonT(30) DEF EndsOrGoesOn

\* The kinds of step there are.
LEMMA UpstreamSteps ==
  ASSUME UpstreamInv, [UpstreamNext]_upstreamVars
  PROVE  \/ \E tcp, match_case \in BOOLEAN : send(tcp, match_case)
         \/ \E i \in Ids : cancel(i)
         \/ \E i \in Ids, r \in Results : EndsWith(i, r)
         \/ \E i \in Ids, p \in Queries, s \in Seq(Arrivals(TRUE)) : GoesOn(i, p, s)
         \/ Destroy
         \/ UNCHANGED upstreamVars
<1>1. ASSUME NEW i \in Ids,
             \/ TimerFires(i) \/ on_readable(i) \/ on_tcp_event(i)
             \/ \E a \in Arrivals(TRUE) : Arrives(i, a)
      PROVE  EndsOrGoesOn(i)
  BY <1>1, TimerEnds, UdpStep, TcpStep, ArrivesStep, ZenonT(30) DEF EndsOrGoesOn
<1>2. \/ \E tcp, match_case \in BOOLEAN : send(tcp, match_case)
      \/ \E i \in Ids : cancel(i) \/ EndsOrGoesOn(i)
      \/ Destroy \/ UNCHANGED upstreamVars
  BY <1>1, ZenonT(30) DEF UpstreamNext
<1> QED  BY <1>2, ZenonT(30) DEF EndsOrGoesOn

----------------------------------------------------------------------------
(* Nothing leaks *)


\* At first there is no query, timer or socket.
LEMMA UpstreamInitInv == UpstreamInit => UpstreamInv
<1> SUFFICES ASSUME UpstreamInit PROVE UpstreamInv
  OBVIOUS
<1>1. DOMAIN pending_ = {} /\ DOMAIN inbox = {} /\ DOMAIN timers = {} /\ Range(timers) = {}
  BY DEF UpstreamInit, NoIds, Range
<1>2. next_id_ \in 1..MaxQueries + 1 /\ outcome = <<>> /\ fds = {} /\ sockets = {}
  BY UpstreamConstants DEF UpstreamInit
<1> QED
  BY <1>1, <1>2 DEF UpstreamInv, NothingLeaks, InboxExact, WrongCaseExact, OutcomeOver

\* What NothingLeaks says of the queries, one by one.
QueryExact(p) ==
  /\ p \in Queries
  /\ spoof_threshold_ # 0 => p.suspicious < spoof_threshold_
  /\ p.wrong_case_seen => p.match_case

\* The invariant, by queries.
LEMMA InvByQuery ==
  UpstreamInv <=>
    /\ next_id_ \in 1..MaxQueries + 1 /\ DOMAIN pending_ \subseteq 1..next_id_ - 1
    /\ \A i \in DOMAIN pending_ :
         QueryExact(pending_[i]) /\ inbox[i] \in Seq(Arrivals(pending_[i].tcp))
    /\ DOMAIN timers = DOMAIN pending_ /\ DOMAIN inbox = DOMAIN pending_
    /\ Range(timers) \subseteq {"timeout", "soon"}
    /\ fds \subseteq sockets /\ sockets \subseteq DOMAIN pending_
    /\ outcome \in {<<>>} \cup (Ids \X Results) /\ OutcomeOver
  BY ZenonT(30) DEF UpstreamInv, NothingLeaks, InboxExact, WrongCaseExact, QueryExact, Queries

\* An entry added to a table, or replaced.
LEMMA WithExact ==
  ASSUME NEW f, NEW i, NEW v
  PROVE  /\ DOMAIN With(f, i, v) = DOMAIN f \cup {i} /\ With(f, i, v)[i] = v
         /\ \A j \in DOMAIN f \ {i} : With(f, i, v)[j] = f[j]
         /\ Range(With(f, i, v)) \subseteq Range(f) \cup {v}
<1>1. /\ DOMAIN With(f, i, v) = DOMAIN f \cup {i} /\ With(f, i, v)[i] = v
      /\ \A j \in DOMAIN f \ {i} : With(f, i, v)[j] = f[j]
  BY ZenonT(30) DEF With
<1>2. Range(With(f, i, v)) \subseteq Range(f) \cup {v}
  BY <1>1, ZenonT(30) DEF Range
<1> QED  BY <1>1, <1>2, ZenonT(30)

\* An entry taken out of a table.
LEMMA WithoutExact ==
  ASSUME NEW f, NEW i
  PROVE  /\ DOMAIN Without(f, i) = DOMAIN f \ {i}
         /\ \A j \in DOMAIN f \ {i} : Without(f, i)[j] = f[j]
         /\ Range(Without(f, i)) \subseteq Range(f)
  BY DEF Without, Range

\* send() adds a query, under an id never used, with its timer.
LEMMA SendKeeps ==
  ASSUME UpstreamInv, NEW tcp \in BOOLEAN, NEW match_case \in BOOLEAN, send(tcp, match_case)
  PROVE  UpstreamInv'
<1> DEFINE n == next_id_
           p == Pending(tcp, match_case)
<1>1. /\ n \in Ids /\ next_id_' = n + 1 /\ outcome' = <<>>
      /\ pending_' = With(pending_, n, p) /\ inbox' = With(inbox, n, <<>>)
  BY ZenonT(30) DEF send
<1>2. \E kind \in {"timeout", "soon"} : timers' = With(timers, n, kind)
  BY ZenonT(30) DEF send, Arm
<1>3. /\ fds' \subseteq sockets' /\ sockets' \subseteq sockets \cup {n}
  BY DEF send, UpstreamInv, NothingLeaks
<1>4. next_id_' \in 1..MaxQueries + 1 /\ DOMAIN pending_' \subseteq 1..next_id_' - 1
  BY <1>1, UpstreamConstants DEF Ids, With, UpstreamInv, NothingLeaks
<1>5. QueryExact(p) /\ p.tcp = tcp
  BY UpstreamConstants DEF QueryExact, Queries, Pending
<1> HIDE DEF p
<1>6. /\ DOMAIN pending_' = DOMAIN pending_ \cup {n} /\ DOMAIN inbox' = DOMAIN inbox \cup {n}
      /\ pending_'[n] = p /\ inbox'[n] = <<>>
      /\ \A j \in DOMAIN pending_ \ {n} : pending_'[j] = pending_[j]
      /\ \A j \in DOMAIN inbox \ {n} : inbox'[j] = inbox[j]
  <2>1. /\ DOMAIN pending_' = DOMAIN pending_ \cup {n} /\ pending_'[n] = p
        /\ \A j \in DOMAIN pending_ \ {n} : pending_'[j] = pending_[j]
    BY <1>1 DEF With
  <2>2. /\ DOMAIN inbox' = DOMAIN inbox \cup {n} /\ inbox'[n] = <<>>
        /\ \A j \in DOMAIN inbox \ {n} : inbox'[j] = inbox[j]
    BY <1>1 DEF With
  <2> QED  BY <2>1, <2>2, ZenonT(30)
<1>7. DOMAIN timers' = DOMAIN timers \cup {n} /\ Range(timers') \subseteq {"timeout", "soon"}
  <2>1. PICK kind \in {"timeout", "soon"} : timers' = With(timers, n, kind)
    BY <1>2
  <2>2. DOMAIN timers' = DOMAIN timers \cup {n} /\ Range(timers') \subseteq Range(timers) \cup {kind}
    BY <2>1, WithExact, ZenonT(30)
  <2>3. Range(timers) \subseteq {"timeout", "soon"}
    BY ZenonT(30) DEF UpstreamInv, NothingLeaks
  <2> QED  BY <2>2, <2>3, ZenonT(30)
<1>8. ASSUME NEW i \in DOMAIN pending_'
      PROVE  QueryExact(pending_'[i]) /\ inbox'[i] \in Seq(Arrivals(pending_'[i].tcp))
  <2>1. CASE i = n
    BY <2>1, <1>5, <1>6
  <2>2. CASE i # n
    BY <2>2, <1>6, InvByQuery, ZenonT(30)
  <2> QED  BY <2>1, <2>2
<1>9. /\ DOMAIN timers' = DOMAIN pending_' /\ DOMAIN inbox' = DOMAIN pending_'
      /\ sockets' \subseteq DOMAIN pending_'
  BY <1>3, <1>6, <1>7, InvByQuery
<1>10. outcome' \in {<<>>} \cup (Ids \X Results) /\ OutcomeOver'
  BY <1>1 DEF OutcomeOver
<1> QED
  BY <1>3, <1>4, <1>7, <1>8, <1>9, <1>10, ZenonT(30)
  DEF UpstreamInv, NothingLeaks, InboxExact, WrongCaseExact, QueryExact, Queries

\* However a query ends, its socket, its registration and its timer go with it.
LEMMA EndKeeps ==
  ASSUME UpstreamInv, NEW i \in Ids, UNCHANGED next_id_, release(i),
         pending_' = Without(pending_, i),
         outcome' = <<>> \/ \E r \in Results : outcome' = <<i, r>>
  PROVE  UpstreamInv'
<1>1. /\ sockets' = sockets \ {i} /\ fds' = fds \ {i}
      /\ inbox' = Without(inbox, i) /\ timers' = Without(timers, i)
  BY ZenonT(30) DEF release
<1>2. /\ DOMAIN pending_' = DOMAIN pending_ \ {i} /\ DOMAIN inbox' = DOMAIN inbox \ {i}
      /\ DOMAIN timers' = DOMAIN timers \ {i} /\ Range(timers') \subseteq Range(timers)
      /\ \A j \in DOMAIN pending_ \ {i} : pending_'[j] = pending_[j]
      /\ \A j \in DOMAIN inbox \ {i} : inbox'[j] = inbox[j]
  BY <1>1, WithoutExact, ZenonT(30)
<1>3. ASSUME NEW j \in DOMAIN pending_'
      PROVE  QueryExact(pending_'[j]) /\ inbox'[j] \in Seq(Arrivals(pending_'[j].tcp))
  BY <1>2, InvByQuery, ZenonT(30)
<1>4. /\ DOMAIN pending_' \subseteq 1..next_id_' - 1 /\ next_id_' \in 1..MaxQueries + 1
      /\ DOMAIN timers' = DOMAIN pending_' /\ DOMAIN inbox' = DOMAIN pending_'
      /\ Range(timers') \subseteq {"timeout", "soon"}
      /\ fds' \subseteq sockets' /\ sockets' \subseteq DOMAIN pending_'
  BY <1>1, <1>2, InvByQuery
<1>5. outcome' \in {<<>>} \cup (Ids \X Results)
  OBVIOUS
<1>6. OutcomeOver'
  BY <1>2 DEF OutcomeOver
<1> QED
  BY <1>3, <1>4, <1>5, <1>6, ZenonT(30)
  DEF UpstreamInv, NothingLeaks, InboxExact, WrongCaseExact, QueryExact, Queries

\* A query that goes on changes nothing else.
LEMMA GoesOnKeeps ==
  ASSUME UpstreamInv, NEW i \in Ids, NEW p \in Queries, NEW s, GoesOn(i, p, s)
  PROVE  UpstreamInv'
<1>1. /\ QueryExact(p) /\ s \in Seq(Arrivals(p.tcp)) /\ i \in DOMAIN pending_
      /\ IsFor(pending_, pending_', i, p) /\ IsFor(inbox, inbox', i, s)
      /\ outcome' = <<>> /\ UNCHANGED <<next_id_, sockets, fds, timers>>
  BY ZenonT(30) DEF GoesOn, QueryExact
<1>2. DOMAIN pending_' = DOMAIN pending_ /\ DOMAIN inbox' = DOMAIN inbox
  BY <1>1, ZenonT(30) DEF IsFor
<1>3. ASSUME NEW j \in DOMAIN pending_'
      PROVE  QueryExact(pending_'[j]) /\ inbox'[j] \in Seq(Arrivals(pending_'[j].tcp))
  <2>1. CASE j = i
    BY <2>1, <1>1, ZenonT(30) DEF IsFor
  <2>2. CASE j # i
    BY <2>2, <1>1, <1>2, InvByQuery, ZenonT(30) DEF IsFor
  <2> QED  BY <2>1, <2>2
<1>4. outcome' \in {<<>>} \cup (Ids \X Results) /\ OutcomeOver'
  BY <1>1 DEF OutcomeOver
<1> QED
  BY <1>1, <1>2, <1>3, <1>4, ZenonT(30)
  DEF UpstreamInv, NothingLeaks, InboxExact, WrongCaseExact, QueryExact, Queries

\* ~UpstreamClient() leaves nothing behind.
LEMMA DestroyKeeps == ASSUME UpstreamInv, Destroy PROVE UpstreamInv'
<1>1. /\ sockets' = sockets \ DOMAIN pending_ /\ fds' = fds \ DOMAIN pending_
      /\ timers' = [i \in DOMAIN timers \ DOMAIN pending_ |-> timers[i]]
      /\ pending_' = NoIds /\ inbox' = NoIds /\ outcome' = <<>> /\ next_id_' = next_id_
  BY ZenonT(30) DEF Destroy
<1>2. DOMAIN timers = DOMAIN pending_ /\ sockets \subseteq DOMAIN pending_ /\ fds \subseteq sockets
  BY ZenonT(30) DEF UpstreamInv, NothingLeaks
<1>3. /\ DOMAIN pending_' = {} /\ DOMAIN inbox' = {} /\ DOMAIN timers' = {}
      /\ Range(timers') = {} /\ sockets' = {} /\ fds' = {}
  BY <1>1, <1>2 DEF NoIds, Range
<1>4. next_id_' \in 1..MaxQueries + 1
  BY <1>1, ZenonT(30) DEF UpstreamInv, NothingLeaks
<1> QED
  BY <1>1, <1>3, <1>4, ZenonT(30)
  DEF UpstreamInv, NothingLeaks, InboxExact, WrongCaseExact, OutcomeOver

\* Every step of the client, its owner and the network keeps the invariant.
LEMMA UpstreamNextInv == UpstreamInv /\ [UpstreamNext]_upstreamVars => UpstreamInv'
<1> SUFFICES ASSUME UpstreamInv, [UpstreamNext]_upstreamVars PROVE UpstreamInv'
  OBVIOUS
<1>1. ASSUME NEW i \in Ids, cancel(i) PROVE UpstreamInv'
  BY <1>1, EndKeeps, ZenonT(30) DEF cancel
<1>2. ASSUME NEW i \in Ids, NEW r \in Results, EndsWith(i, r) PROVE UpstreamInv'
  BY <1>2, EndKeeps, ZenonT(30) DEF EndsWith, finish
<1>3. CASE UNCHANGED upstreamVars
  BY <1>3, ZenonT(30)
  DEF upstreamVars, UpstreamInv, NothingLeaks, InboxExact, WrongCaseExact, OutcomeOver
<1> QED
  BY <1>1, <1>2, <1>3, SendKeeps, GoesOnKeeps, DestroyKeeps, UpstreamSteps, ZenonT(30)

\* Nothing of a query is left in the event loop once it is over, however it ended, and
\* until then it has its timer: whatever the network delivers and the owner does.
THEOREM UpstreamLeaksNothing == UpstreamSpec => []NothingLeaks
<1>1. UpstreamInv => NothingLeaks
  BY DEF UpstreamInv
<1> QED  BY <1>1, UpstreamInitInv, UpstreamNextInv, PTL DEF UpstreamSpec

----------------------------------------------------------------------------
(* The contract *)

\* What the contract knows of the queries.
Open == [i \in DOMAIN pending_ |->
           [tcp |-> pending_[i].tcp, match_case |-> pending_[i].match_case]]

\* The client starts where its contract starts.
LEMMA ContractInit == UpstreamInit => Contract!Init
  BY DEF UpstreamInit, Contract!Init, NoIds

\* A step that changes neither is one the contract allows: the last query called back
\* is not open, and may be cancelled again.
LEMMA QuietAllowed ==
  ASSUME UpstreamInv, Open' = Open, outcome' = <<>>
  PROVE  Contract!Next \/ UNCHANGED <<Open, outcome>>
<1>1. CASE outcome = <<>>
  BY <1>1
<1>2. CASE outcome # <<>>
  <2>1. PICK i \in Ids : i \notin DOMAIN pending_
    BY <1>2 DEF UpstreamInv, NothingLeaks, OutcomeOver
  <2>2. Contract!Cancel(i)
    BY <2>1 DEF Contract!Cancel, Contract!Without, Open
  <2> QED  BY <2>1, <2>2, ZenonT(30) DEF Contract!Next
<1> QED  BY <1>1, <1>2

\* A step of the client is one the contract allows.
LEMMA ContractStep ==
  ASSUME UpstreamInv, [UpstreamNext]_upstreamVars
  PROVE  Contract!Next \/ UNCHANGED <<Open, outcome>>
<1>1. ASSUME NEW tcp \in BOOLEAN, NEW match_case \in BOOLEAN, send(tcp, match_case)
      PROVE  Contract!Next
  <2>1. /\ next_id_ \in Ids /\ outcome' = <<>>
        /\ pending_' = With(pending_, next_id_, Pending(tcp, match_case))
    BY <1>1, ZenonT(30) DEF send
  <2>2. next_id_ \notin DOMAIN pending_
    BY QueryTyped, ZenonT(30)
  <2>3. Contract!Send(next_id_, tcp, match_case)
    BY <2>1, <2>2 DEF Contract!Send, With, Pending
  <2> QED  BY <2>1, <2>3, ZenonT(30) DEF Contract!Next
<1>2. ASSUME NEW i \in Ids, cancel(i) PROVE Contract!Next
  <2>1. pending_' = Without(pending_, i) /\ outcome' = <<>>
    BY <1>2, ZenonT(30) DEF cancel
  <2>2. Contract!Cancel(i)
    BY <2>1 DEF Contract!Cancel, Contract!Without, Without
  <2> QED  BY <2>2, ZenonT(30) DEF Contract!Next
<1>3. ASSUME NEW i \in Ids, NEW r \in Results, EndsWith(i, r) PROVE Contract!Next
  <2>1. /\ i \in DOMAIN pending_ /\ r \in Contract!Reportable(i)
        /\ pending_' = Without(pending_, i) /\ outcome' = <<i, r>>
    BY <1>3, ZenonT(30) DEF EndsWith, finish
  <2>2. Open' = [j \in DOMAIN Open \ {i} |-> Open[j]]
    BY <2>1 DEF Open, Without
  <2>3. Contract!Report(i)
    BY <2>1, <2>2 DEF Contract!Report, Contract!Without, Open
  <2> QED  BY <2>3, ZenonT(30) DEF Contract!Next
<1>4. ASSUME NEW i \in Ids, NEW p \in Queries, NEW s, GoesOn(i, p, s)
      PROVE  Contract!Next \/ UNCHANGED <<Open, outcome>>
  <2>1. /\ i \in DOMAIN pending_ /\ IsFor(pending_, pending_', i, p) /\ outcome' = <<>>
        /\ p.tcp = pending_[i].tcp /\ p.match_case = pending_[i].match_case
    BY <1>4, ZenonT(30) DEF GoesOn
  <2>2. Open' = Open
    BY <2>1 DEF IsFor, Open
  <2> QED  BY <2>1, <2>2, QuietAllowed, ZenonT(30)
<1>5. CASE Destroy
  <2>1. pending_' = NoIds /\ outcome' = <<>>
    BY <1>5, ZenonT(30) DEF Destroy
  <2>2. Contract!Drop
    BY <2>1 DEF Contract!Drop, NoIds
  <2> QED  BY <2>2, ZenonT(30) DEF Contract!Next
<1>6. CASE UNCHANGED upstreamVars
  BY <1>6 DEF upstreamVars, Open
<1> QED  BY <1>1, <1>2, <1>3, <1>4, <1>5, <1>6, UpstreamSteps, ZenonT(30)

\* A time-out is reported of no query that saw a reply in the wrong case.
LEMMA CaseStep == ASSUME UpstreamInv, [UpstreamNext]_upstreamVars PROVE CaseExact \/ UNCHANGED upstreamVars
<1> SUFFICES ASSUME NEW i \in DOMAIN pending_, pending_[i].wrong_case_seen,
                    outcome' = <<i, "Timeout">>, ~UNCHANGED upstreamVars
             PROVE  FALSE
  BY ZenonT(30) DEF CaseExact
<1>1. ASSUME NEW j \in Ids, NEW r \in Results, EndsWith(j, r) PROVE FALSE
  <2>1. outcome' = <<j, r>> /\ (r = "Timeout" => ~pending_[j].wrong_case_seen)
    BY <1>1, ZenonT(30) DEF EndsWith, finish
  <2> QED  BY <2>1
<1>2. outcome' # <<>>
  OBVIOUS
<1> QED  BY <1>1, <1>2, UpstreamSteps, ZenonT(30) DEF send, cancel, GoesOn, Destroy

\* The client keeps its contract with the resolver: one callback per query at most, none
\* from inside send() or after cancel(), no result the resolver is not prepared for, and
\* a server that answers in the wrong case only is not taken for a dead one.
THEOREM UpstreamKeepsContract == UpstreamSpec => KeepsContract
<1>1. UpstreamInv /\ [UpstreamNext]_upstreamVars => [Contract!Next]_<<Open, outcome>>
  BY ContractStep
<1>2. UpstreamInv /\ [UpstreamNext]_upstreamVars => [CaseExact]_upstreamVars
  BY CaseStep
<1> QED
  BY <1>1, <1>2, ContractInit, UpstreamInitInv, UpstreamNextInv, PTL
  DEF UpstreamSpec, KeepsContract, CaseReported, Contract!Spec, Open

----------------------------------------------------------------------------
(* The cache: counting *)

\* The bytes of nodes, one by one.
Bytes(N) == UNION {{n} \X (1..n.bytes) : n \in N}

\* What is to be known of finite sets.
FiniteFacts ==
  /\ \A S : IsFiniteSet(S) => Cardinality(S) \in Nat
  /\ IsFiniteSet({}) /\ Cardinality({}) = 0
  /\ \A x : IsFiniteSet({x})
  /\ \A S, T : IsFiniteSet(S) /\ T \subseteq S => IsFiniteSet(T)
  /\ \A S, T : IsFiniteSet(S) /\ IsFiniteSet(T) =>
       /\ IsFiniteSet(S \cup T)
       /\ Cardinality(S \cup T) = Cardinality(S) + Cardinality(T) - Cardinality(S \cap T)
  /\ \A n \in Nat : IsFiniteSet(1..n) /\ Cardinality(1..n) = n
  /\ \A x : \A n \in Nat : Cardinality({x} \X (1..n)) = n
  /\ \A S, T, f :
       IsFiniteSet(T) /\ (\A p \in S : f[p] \in T) /\ (\A p, q \in S : f[p] = f[q] => p = q) =>
         IsFiniteSet(S) /\ Cardinality(S) <= Cardinality(T)
  /\ \A N : IsFiniteSet(N) /\ (\A n \in N : n.bytes \in Nat) => IsFiniteSet(Bytes(N))
  /\ \A n \in Nat : \A S \in SUBSET (0..n) : S # {} => \E x \in S : \A y \in S : x >= y

\* A set that can be put into another.
LEMMA FinInjection ==
  ASSUME FiniteFacts, NEW S, NEW T, NEW f, IsFiniteSet(T),
         \A p \in S : f[p] \in T, \A p, q \in S : f[p] = f[q] => p = q
  PROVE  IsFiniteSet(S) /\ Cardinality(S) <= Cardinality(T)
  BY Zenon DEF FiniteFacts

\* The greater and the lesser of two numbers.
LEMMA MaxMinTwo ==
  ASSUME NEW a \in Int, NEW b \in Int
  PROVE  /\ Max({a, b}) = IF a >= b THEN a ELSE b
         /\ Min({a, b}) = IF a <= b THEN a ELSE b
  <1>1. /\ \E x \in {a, b} : \A y \in {a, b} : x >= y
        /\ \E x \in {a, b} : \A y \in {a, b} : x =< y
    OBVIOUS
  <1> QED BY <1>1 DEF Max, Min

\* Rounding down.
LEMMA DivIs ==
  ASSUME NEW a \in Nat, NEW b \in Nat \ {0}
  PROVE  a \div b \in Nat /\ b * (a \div b) <= a
  OBVIOUS

\* A smaller factor makes a smaller product.
LEMMA Factor ==
  ASSUME NEW a \in Nat, NEW b \in Nat, NEW c \in Nat, a <= b
  PROVE  a * c \in Nat /\ b * c \in Nat /\ a * c <= b * c
  OBVIOUS

----------------------------------------------------------------------------
(* Lists of nodes *)

NodesOf(q) == {q[i] : i \in DOMAIN q}
KeysOf(q) == {q[i].key : i \in DOMAIN q}

Distinct(q) == \A i, j \in DOMAIN q : q[i].key = q[j].key => i = j

\* The list's order, but for its first nodes, is the one the keys were used in.
OrderedFrom(m, q, nw) ==
  \A i, j \in DOMAIN q : i > m /\ j > m => (i < j <=> <<q[i].key, q[j].key>> \in nw)

\* A list, as a function.
LEMMA ListIs ==
  ASSUME NEW S, NEW q \in Seq(S)
  PROVE  /\ Len(q) \in Nat /\ DOMAIN q = 1..Len(q) /\ q \in [1..Len(q) -> S]
         /\ NodesOf(q) \subseteq S
  <1>1. Len(q) \in Nat /\ DOMAIN q = 1..Len(q) /\ q \in [1..Len(q) -> S]
    OBVIOUS
  <1> QED BY <1>1 DEF NodesOf

\* A list without its node at p.
LEMMA UnlinkedIs ==
  ASSUME NEW S, NEW q \in Seq(S), NEW p \in DOMAIN q, NEW r, r = Unlinked(q, p)
  PROVE  /\ r \in Seq(S) /\ DOMAIN r = 1..(Len(q) - 1)
         /\ \A i \in 1..(Len(q) - 1) : r[i] = IF i < p THEN q[i] ELSE q[i + 1]
  <1>1. Len(q) \in Nat /\ p \in 1..Len(q)
    OBVIOUS
  <1>2. PICK a, b : a = SubSeq(q, 1, p - 1) /\ b = SubSeq(q, p + 1, Len(q))
    BY Zenon
  <1>3. /\ a \in Seq(S) /\ Len(a) = p - 1 /\ \A i \in 1..(p - 1) : a[i] = q[i]
        /\ b \in Seq(S) /\ Len(b) = Len(q) - p /\ \A i \in 1..(Len(q) - p) : b[i] = q[p + i]
    <2>1. a \in Seq(S) /\ Len(a) = p - 1 /\ \A i \in 1..(p - 1) : a[i] = q[i]
      BY <1>1, <1>2
    <2>2. b \in Seq(S) /\ Len(b) = Len(q) - p /\ \A i \in 1..(Len(q) - p) : b[i] = q[p + i]
      BY <1>1, <1>2
    <2> QED BY <2>1, <2>2, Zenon
  <1>4. r = a \o b
    BY <1>2, Zenon DEF Unlinked
  <1>5. r \in Seq(S) /\ Len(r) = Len(q) - 1 /\ DOMAIN r = 1..(Len(q) - 1)
    BY <1>1, <1>3, <1>4
  <1>6. ASSUME NEW i \in 1..(Len(q) - 1) PROVE r[i] = IF i < p THEN q[i] ELSE q[i + 1]
    <2>1. CASE i < p
      BY <1>1, <1>3, <1>4, <2>1
    <2>2. CASE ~(i < p)
      <3>1. r[i] = b[i - (p - 1)]
        BY <1>1, <1>3, <1>4, <2>2
      <3>2. i - (p - 1) \in 1..(Len(q) - p) /\ p + (i - (p - 1)) = i + 1
        BY <1>1, <2>2
      <3> QED BY <1>3, <2>2, <3>1, <3>2
    <2> QED BY <2>1, <2>2, Zenon
  <1> QED BY <1>5, <1>6, Zenon

\* It has the other nodes, in the order they were in.
LEMMA RemoveNode ==
  ASSUME NEW S, NEW q \in Seq(S), Distinct(q), NEW p \in DOMAIN q, NEW r, r = Unlinked(q, p)
  PROVE  /\ r \in Seq(S) /\ Distinct(r)
         /\ NodesOf(r) = NodesOf(q) \ {q[p]} /\ KeysOf(r) = KeysOf(q) \ {q[p].key}
         /\ \A nw : OrderedFrom(0, q, nw) => OrderedFrom(0, r, nw)
  <1>1. /\ Len(q) \in Nat /\ DOMAIN q = 1..Len(q) /\ p \in 1..Len(q)
        /\ r \in Seq(S) /\ DOMAIN r = 1..(Len(q) - 1)
        /\ \A i \in 1..(Len(q) - 1) : r[i] = IF i < p THEN q[i] ELSE q[i + 1]
    <2>1. Len(q) \in Nat /\ DOMAIN q = 1..Len(q) /\ p \in 1..Len(q)
      OBVIOUS
    <2> QED BY <2>1, UnlinkedIs
  <1> DEFINE at == [i \in 1..(Len(q) - 1) |-> IF i < p THEN i ELSE i + 1]
  <1>2. /\ \A i \in DOMAIN r : at[i] \in DOMAIN q \ {p} /\ r[i] = q[at[i]]
        /\ \A i, j \in DOMAIN r : i < j <=> at[i] < at[j]
        /\ \A i, j \in DOMAIN r : at[i] = at[j] => i = j
    BY <1>1
  <1>3. \A j \in DOMAIN q \ {p} : \E i \in DOMAIN r : at[i] = j
    <2> SUFFICES ASSUME NEW j \in DOMAIN q \ {p} PROVE \E i \in DOMAIN r : at[i] = j
      OBVIOUS
    <2>1. CASE j < p
      <3>1. j \in DOMAIN r /\ at[j] = j
        BY <1>1, <2>1
      <3> QED BY <3>1
    <2>2. CASE ~(j < p)
      <3>1. j - 1 \in DOMAIN r /\ at[j - 1] = j
        BY <1>1, <2>2
      <3> QED BY <3>1
    <2> QED BY <2>1, <2>2, Zenon
  <1> HIDE DEF at
  <1>4. Distinct(r)
    <2> SUFFICES ASSUME NEW i \in DOMAIN r, NEW j \in DOMAIN r, r[i].key = r[j].key PROVE i = j
      BY Zenon DEF Distinct
    <2>1. at[i] \in DOMAIN q /\ at[j] \in DOMAIN q /\ q[at[i]].key = q[at[j]].key
      BY <1>2
    <2>2. at[i] = at[j]
      BY <2>1, Zenon DEF Distinct
    <2> QED BY <1>2, <2>2, Zenon
  <1>5. NodesOf(r) = NodesOf(q) \ {q[p]}
    <2>1. \A i \in DOMAIN q \ {p} : q[i] # q[p]
      BY Zenon DEF Distinct
    <2> QED BY <1>2, <1>3, <2>1 DEF NodesOf
  <1>6. KeysOf(r) = KeysOf(q) \ {q[p].key}
    <2>1. \A i \in DOMAIN q \ {p} : q[i].key # q[p].key
      BY Zenon DEF Distinct
    <2> QED BY <1>2, <1>3, <2>1 DEF KeysOf
  <1>7. ASSUME NEW nw, OrderedFrom(0, q, nw) PROVE OrderedFrom(0, r, nw)
    <2> SUFFICES ASSUME NEW i \in DOMAIN r, NEW j \in DOMAIN r
                 PROVE  i < j <=> <<r[i].key, r[j].key>> \in nw
      BY Zenon DEF OrderedFrom
    <2>1. at[i] > 0 /\ at[j] > 0 /\ at[i] \in DOMAIN q /\ at[j] \in DOMAIN q
      BY <1>1, <1>2
    <2>2. at[i] < at[j] <=> <<q[at[i]].key, q[at[j]].key>> \in nw
      BY <1>7, <2>1, Zenon DEF OrderedFrom
    <2> QED BY <1>2, <2>2
  <1> QED BY <1>1, <1>4, <1>5, <1>6, <1>7, Zenon

\* f is r with n in front.
Fronted(S, r, n, f) ==
  /\ f \in Seq(S) /\ Distinct(f) /\ Len(f) = Len(r) + 1 /\ f[1] = n
  /\ NodesOf(f) = NodesOf(r) \cup {n} /\ KeysOf(f) = KeysOf(r) \cup {n.key}
  /\ \A nw : OrderedFrom(0, r, nw) => OrderedFrom(1, f, nw)

\* A node is put in front.
LEMMA PrependNode ==
  ASSUME NEW S, NEW r \in Seq(S), Distinct(r), NEW n \in S, n.key \notin KeysOf(r), NEW f, f = <<n>> \o r
  PROVE  Fronted(S, r, n, f)
  <1>1. /\ Len(r) \in Nat /\ DOMAIN r = 1..Len(r)
        /\ f \in Seq(S) /\ Len(f) = Len(r) + 1 /\ DOMAIN f = 1..(Len(r) + 1) /\ f[1] = n
        /\ \A i \in 2..(Len(r) + 1) : f[i] = r[i - 1]
    OBVIOUS
  <1>2. \A i \in DOMAIN f \ {1} : i - 1 \in DOMAIN r /\ f[i] = r[i - 1] /\ f[i].key # n.key
    BY <1>1 DEF KeysOf
  <1>3. \A i \in DOMAIN r : i + 1 \in DOMAIN f /\ f[i + 1] = r[i]
    BY <1>1
  <1>4. Distinct(f)
    <2> SUFFICES ASSUME NEW i \in DOMAIN f, NEW j \in DOMAIN f, f[i].key = f[j].key PROVE i = j
      BY Zenon DEF Distinct
    <2>1. CASE i = 1 \/ j = 1
      BY <1>1, <1>2, <2>1, Zenon
    <2>2. CASE i # 1 /\ j # 1
      <3>1. i - 1 = j - 1
        BY <1>2, <2>2 DEF Distinct
      <3> QED BY <1>1, <3>1
    <2> QED BY <2>1, <2>2, Zenon
  <1>5. NodesOf(f) = NodesOf(r) \cup {n}
    <2>1. \A i \in DOMAIN f : f[i] \in NodesOf(r) \cup {n}
      BY <1>1, <1>2, Zenon DEF NodesOf
    <2>2. \A i \in DOMAIN r : r[i] \in NodesOf(f)
      BY <1>3, Zenon DEF NodesOf
    <2>3. n \in NodesOf(f)
      BY <1>1 DEF NodesOf
    <2> QED BY <2>1, <2>2, <2>3, Zenon DEF NodesOf
  <1>6. KeysOf(f) = KeysOf(r) \cup {n.key}
    <2>1. \A i \in DOMAIN f : f[i].key \in KeysOf(r) \cup {n.key}
      BY <1>1, <1>2, Zenon DEF KeysOf
    <2>2. \A i \in DOMAIN r : r[i].key \in KeysOf(f)
      BY <1>3, Zenon DEF KeysOf
    <2>3. 1 \in DOMAIN f /\ f[1].key = n.key
      BY <1>1
    <2>4. KeysOf(f) \subseteq KeysOf(r) \cup {n.key}
      BY <2>1 DEF KeysOf
    <2>5. KeysOf(r) \subseteq KeysOf(f)
      <3>1. PICK K : K = KeysOf(f)
        BY Zenon
      <3>2. \A i \in DOMAIN r : r[i].key \in K
        BY <2>2, <3>1, Zenon
      <3>3. KeysOf(r) \subseteq K
        BY <3>2 DEF KeysOf
      <3> QED BY <3>1, <3>3, Zenon
    <2>6. n.key \in KeysOf(f)
      BY <2>3, Zenon DEF KeysOf
    <2> QED BY <2>4, <2>5, <2>6, Zenon
  <1>7. ASSUME NEW nw, OrderedFrom(0, r, nw) PROVE OrderedFrom(1, f, nw)
    <2> SUFFICES ASSUME NEW i \in DOMAIN f, NEW j \in DOMAIN f, i > 1, j > 1
                 PROVE  i < j <=> <<f[i].key, f[j].key>> \in nw
      BY DEF OrderedFrom
    <2>1. /\ i - 1 \in DOMAIN r /\ j - 1 \in DOMAIN r /\ i - 1 > 0 /\ j - 1 > 0
          /\ f[i] = r[i - 1] /\ f[j] = r[j - 1] /\ (i < j <=> i - 1 < j - 1)
      BY <1>1
    <2> QED BY <1>7, <2>1 DEF OrderedFrom
  <1> QED BY <1>1, <1>4, <1>5, <1>6, <1>7, Zenon DEF Fronted

\* The nodes of a list behind the first m.
Behind(f, m) == {f[j] : j \in (m + 1)..Len(f)}

\* The first m nodes of a list.
LEMMA PrefixIs ==
  ASSUME NEW S, NEW f \in Seq(S), NEW m \in 1..Len(f), NEW g, g = SubSeq(f, 1, m)
  PROVE  g \in Seq(S) /\ Len(g) = m /\ DOMAIN g = 1..m /\ \A i \in 1..m : g[i] = f[i]
  OBVIOUS

\* g is the first m nodes of f.
Prefixed(S, f, m, g) ==
  /\ g \in Seq(S) /\ Len(g) = m /\ Distinct(g)
  /\ NodesOf(f) = NodesOf(g) \cup Behind(f, m) /\ NodesOf(g) \cap Behind(f, m) = {}
  /\ KeysOf(g) = {f[i].key : i \in 1..m}
  /\ \A nw : OrderedFrom(1, f, nw) => OrderedFrom(1, g, nw)

\* The first m nodes of a list, and those behind.
LEMMA PrefixNodes ==
  ASSUME NEW S, NEW f \in Seq(S), Distinct(f), NEW m \in 1..Len(f), NEW g, g = SubSeq(f, 1, m)
  PROVE  Prefixed(S, f, m, g)
  <1>1. /\ Len(f) \in Nat /\ DOMAIN f = 1..Len(f) /\ m \in Nat /\ m <= Len(f) /\ 1..m \subseteq DOMAIN f
    OBVIOUS
  <1>2. g \in Seq(S) /\ Len(g) = m /\ DOMAIN g = 1..m /\ \A i \in 1..m : g[i] = f[i]
    BY PrefixIs
  <1>3. Distinct(g)
    <2> SUFFICES ASSUME NEW i \in 1..m, NEW j \in 1..m, g[i].key = g[j].key PROVE i = j
      BY <1>2, Zenon DEF Distinct
    <2>1. i \in DOMAIN f /\ j \in DOMAIN f /\ f[i].key = f[j].key
      BY <1>1, <1>2
    <2> QED BY <2>1, Zenon DEF Distinct
  <1>4. NodesOf(f) = NodesOf(g) \cup Behind(f, m)
    <2>1. DOMAIN f = (1..m) \cup ((m + 1)..Len(f))
      BY <1>1
    <2>2. NodesOf(g) = {f[i] : i \in 1..m}
      BY <1>2, Zenon DEF NodesOf
    <2> QED BY <2>1, <2>2, Zenon DEF NodesOf, Behind
  <1>5. NodesOf(g) \cap Behind(f, m) = {}
    <2> SUFFICES ASSUME NEW n \in NodesOf(g), n \in Behind(f, m) PROVE FALSE
      BY Zenon
    <2>2. PICK i \in 1..m : n = g[i]
      BY <1>2, Zenon DEF NodesOf
    <2>3. PICK j \in (m + 1)..Len(f) : n = f[j]
      BY Zenon DEF Behind
    <2>1. i \in DOMAIN f /\ j \in DOMAIN f /\ i # j
      BY <1>1
    <2> QED BY <1>2, <2>1, <2>2, <2>3, Zenon DEF Distinct
  <1>6. KeysOf(g) = {f[i].key : i \in 1..m}
    BY <1>2, Zenon DEF KeysOf
  <1>7. ASSUME NEW nw, OrderedFrom(1, f, nw) PROVE OrderedFrom(1, g, nw)
    <2> SUFFICES ASSUME NEW i \in 1..m, NEW j \in 1..m, i > 1, j > 1
                 PROVE  i < j <=> <<g[i].key, g[j].key>> \in nw
      BY <1>2, Zenon DEF OrderedFrom
    <2>1. i \in DOMAIN f /\ j \in DOMAIN f
      BY <1>1, Zenon
    <2>2. i < j <=> <<f[i].key, f[j].key>> \in nw
      BY <1>7, <2>1, Zenon DEF OrderedFrom
    <2> QED BY <1>2, <2>2
  <1> QED BY <1>2, <1>3, <1>4, <1>5, <1>6, <1>7, Zenon DEF Prefixed

\* The pairs newer has once key k of the keys ks was used.
UsedLast(nw, k, ks) == (nw \cap ((ks \ {k}) \X (ks \ {k}))) \cup ({k} \X (ks \ {k}))

\* The key in front was used last.
LEMMA FrontUsed ==
  ASSUME NEW S, NEW g \in Seq(S), Distinct(g), NEW nw, OrderedFrom(1, g, nw), Len(g) > 0
  PROVE  OrderedFrom(0, g, UsedLast(nw, g[1].key, KeysOf(g)))
  <1> DEFINE rest == KeysOf(g) \ {g[1].key}
  <1>1. Len(g) \in Nat /\ DOMAIN g = 1..Len(g) /\ 1 \in DOMAIN g
    OBVIOUS
  <1>2. \A i \in DOMAIN g : g[i].key \in rest <=> i # 1
    BY <1>1 DEF Distinct, KeysOf
  <1> HIDE DEF rest
  <1> SUFFICES ASSUME NEW i \in DOMAIN g, NEW j \in DOMAIN g
               PROVE  i < j <=> <<g[i].key, g[j].key>> \in (nw \cap (rest \X rest)) \cup ({g[1].key} \X rest)
    BY Zenon DEF OrderedFrom, UsedLast, rest
  <1>3. g[1].key \notin rest
    BY <1>1, <1>2
  <1>4. CASE j = 1
    <2>1. g[j].key \notin rest
      BY <1>3, <1>4
    <2> QED BY <1>1, <1>4, <2>1
  <1>5. CASE j # 1 /\ i = 1
    <2>1. g[j].key \in rest
      BY <1>2, <1>5
    <2> QED BY <1>1, <1>5, <2>1
  <1>6. CASE j # 1 /\ i # 1
    <2>1. g[j].key \in rest /\ g[i].key \in rest /\ g[i].key # g[1].key
      BY <1>2, <1>3, <1>6
    <2>2. i > 1 /\ j > 1
      BY <1>1, <1>6
    <2>3. i < j <=> <<g[i].key, g[j].key>> \in nw
      BY <2>2, Zenon DEF OrderedFrom
    <2> QED BY <2>1, <2>3
  <1> QED BY <1>4, <1>5, <1>6, Zenon

\* A list has as many keys as nodes, and finitely many.
LEMMA ListCounts ==
  ASSUME FiniteFacts, NEW S, NEW q \in Seq(S), Distinct(q)
  PROVE  /\ IsFiniteSet(NodesOf(q))
         /\ Cardinality(KeysOf(q)) = Len(q)
  <1>1. Len(q) \in Nat /\ DOMAIN q = 1..Len(q)
    OBVIOUS
  <1>2. IsFiniteSet(1..Len(q)) /\ Cardinality(1..Len(q)) = Len(q)
    BY <1>1, Zenon DEF FiniteFacts
  <1> DEFINE at == [n \in NodesOf(q) |-> CHOOSE i \in DOMAIN q : q[i] = n]
             pos == [k \in KeysOf(q) |-> CHOOSE i \in DOMAIN q : q[i].key = k]
             keys == [i \in DOMAIN q |-> q[i].key]
  <1>3. \A n \in NodesOf(q) : at[n] \in DOMAIN q /\ q[at[n]] = n
    BY Zenon DEF NodesOf
  <1>4. \A k \in KeysOf(q) : pos[k] \in DOMAIN q /\ q[pos[k]].key = k
    BY Zenon DEF KeysOf
  <1>5. /\ \A i \in DOMAIN q : keys[i] \in KeysOf(q)
        /\ \A i, j \in DOMAIN q : keys[i] = keys[j] => i = j
    BY Zenon DEF KeysOf, Distinct
  <1> HIDE DEF at, pos, keys
  <1>6. IsFiniteSet(NodesOf(q))
    <2>1. \A n \in NodesOf(q) : at[n] \in 1..Len(q)
      BY <1>1, <1>3, Zenon
    <2>2. \A n, o \in NodesOf(q) : at[n] = at[o] => n = o
      BY <1>3, Zenon
    <2> QED BY <1>2, <2>1, <2>2, FinInjection, Zenon
  <1>7. IsFiniteSet(KeysOf(q)) /\ Cardinality(KeysOf(q)) <= Len(q)
    <2>1. \A k \in KeysOf(q) : pos[k] \in 1..Len(q)
      BY <1>1, <1>4, Zenon
    <2>2. \A k, o \in KeysOf(q) : pos[k] = pos[o] => k = o
      BY <1>4, Zenon
    <2>3. IsFiniteSet(KeysOf(q)) /\ Cardinality(KeysOf(q)) <= Cardinality(1..Len(q))
      BY <1>2, <2>1, <2>2, FinInjection, Zenon
    <2> QED BY <1>2, <2>3, Zenon
  <1>8. Len(q) <= Cardinality(KeysOf(q))
    <2>1. Cardinality(DOMAIN q) <= Cardinality(KeysOf(q))
      BY <1>5, <1>7, FinInjection, Zenon
    <2> QED BY <1>1, <1>2, <2>1, Zenon
  <1>9. Cardinality(KeysOf(q)) \in Nat
    BY <1>7, Zenon DEF FiniteFacts
  <1>10. Cardinality(KeysOf(q)) = Len(q)
    BY <1>1, <1>7, <1>8, <1>9
  <1> QED BY <1>6, <1>10, Zenon

----------------------------------------------------------------------------
(* The bytes of nodes *)

\* Nodes take a number of bytes.
LEMMA BytesIs ==
  ASSUME FiniteFacts, NEW N \in SUBSET Node, IsFiniteSet(N)
  PROVE  /\ IsFiniteSet(Bytes(N)) /\ BytesOf(N) = Cardinality(Bytes(N)) /\ BytesOf(N) \in Nat
         /\ \A n \in N : n.bytes \in Nat
  <1>1. ASSUME NEW n \in N PROVE n.bytes \in Nat
    <2>1. n.bytes \in Sizes
      BY DEF Node
    <2>2. Sizes \subseteq Nat
      BY CacheConstants
    <2> QED BY <2>1, <2>2, Zenon
  <1>2. IsFiniteSet(Bytes(N))
    BY <1>1, Zenon DEF FiniteFacts
  <1>3. BytesOf(N) = Cardinality(Bytes(N))
    BY Zenon DEF BytesOf, Bytes
  <1>4. Cardinality(Bytes(N)) \in Nat
    BY <1>2, Zenon DEF FiniteFacts
  <1> QED BY <1>1, <1>2, <1>3, <1>4, Zenon

\* The bytes of two sets of nodes.
LEMMA BytesSplit ==
  ASSUME FiniteFacts, NEW N \in SUBSET Node, NEW M \in SUBSET Node, IsFiniteSet(N), IsFiniteSet(M), N \cap M = {}
  PROVE  BytesOf(N \cup M) = BytesOf(N) + BytesOf(M) /\ BytesOf(N) \in Nat /\ BytesOf(M) \in Nat
  <1>1. Bytes(N \cup M) = Bytes(N) \cup Bytes(M)
    BY Zenon DEF Bytes
  <1>2. Bytes(N) \cap Bytes(M) = {}
    <2> SUFFICES ASSUME NEW p, p \in Bytes(N), p \in Bytes(M) PROVE FALSE
      BY Zenon
    <2>1. PICK n \in N : p \in {n} \X (1..n.bytes)
      BY Zenon DEF Bytes
    <2>2. PICK m \in M : p \in {m} \X (1..m.bytes)
      BY Zenon DEF Bytes
    <2>3. n = m
      BY <2>1, <2>2
    <2> QED BY <2>3, Zenon
  <1>3. /\ IsFiniteSet(Bytes(N)) /\ BytesOf(N) = Cardinality(Bytes(N)) /\ BytesOf(N) \in Nat
        /\ IsFiniteSet(Bytes(M)) /\ BytesOf(M) = Cardinality(Bytes(M)) /\ BytesOf(M) \in Nat
    BY BytesIs, Zenon
  <1>4. BytesOf(N \cup M) = Cardinality(Bytes(N \cup M))
    BY Zenon DEF BytesOf, Bytes
  <1>5. Cardinality(Bytes(N) \cup Bytes(M)) = BytesOf(N) + BytesOf(M) - Cardinality(Bytes(N) \cap Bytes(M))
    <2>1. \A S, T : IsFiniteSet(S) /\ IsFiniteSet(T) =>
            Cardinality(S \cup T) = Cardinality(S) + Cardinality(T) - Cardinality(S \cap T)
      BY Zenon DEF FiniteFacts
    <2> QED BY <1>3, <2>1, Zenon
  <1>6. Cardinality({}) = 0
    BY Zenon DEF FiniteFacts
  <1>7. BytesOf(N \cup M) = BytesOf(N) + BytesOf(M) - 0
    BY <1>1, <1>2, <1>4, <1>5, <1>6, Zenon
  <1> QED BY <1>3, <1>7

\* A node's bytes.
LEMMA BytesOne ==
  ASSUME FiniteFacts, NEW n \in Node
  PROVE  BytesOf({n}) = n.bytes /\ n.bytes \in Nat /\ IsFiniteSet({n})
  <1>1. IsFiniteSet({n}) /\ {n} \in SUBSET Node
    BY Zenon DEF FiniteFacts
  <1>2. n.bytes \in Nat
    BY <1>1, BytesIs, Zenon
  <1>3. UNION {{m} \X (1..m.bytes) : m \in {n}} = {n} \X (1..n.bytes)
    BY Zenon
  <1>4. Cardinality({n} \X (1..n.bytes)) = n.bytes
    BY <1>2, Zenon DEF FiniteFacts
  <1> QED BY <1>1, <1>2, <1>3, <1>4, Zenon DEF BytesOf

\* A node more, or one less.
LEMMA BytesWith ==
  ASSUME FiniteFacts, NEW N \in SUBSET Node, IsFiniteSet(N), NEW n \in Node, n \notin N
  PROVE  BytesOf(N \cup {n}) = BytesOf(N) + n.bytes /\ BytesOf(N) \in Nat /\ n.bytes \in Nat
  <1>1. IsFiniteSet({n}) /\ {n} \in SUBSET Node /\ N \cap {n} = {}
    BY BytesOne, Zenon
  <1>2. BytesOf(N \cup {n}) = BytesOf(N) + BytesOf({n}) /\ BytesOf(N) \in Nat
    BY <1>1, BytesSplit
  <1> QED BY <1>2, BytesOne

\* What is left once the nodes behind the first m are gone are the bytes of those.
LEMMA LeftIs ==
  ASSUME FiniteFacts, NEW f \in Seq(Node), Distinct(f), NEW m \in 1..Len(f)
  PROVE  /\ Left(f, BytesOf(NodesOf(f)), m) = BytesOf(NodesOf(SubSeq(f, 1, m)))
         /\ BytesOf(NodesOf(SubSeq(f, 1, m))) \in Nat
  <1>1. PICK g : g = SubSeq(f, 1, m)
    BY Zenon
  <1>2. /\ g \in Seq(Node) /\ Distinct(g)
        /\ NodesOf(f) = NodesOf(g) \cup Behind(f, m) /\ NodesOf(g) \cap Behind(f, m) = {}
    BY <1>1, PrefixNodes, Zenon DEF Prefixed
  <1>3. NodesOf(f) \in SUBSET Node /\ IsFiniteSet(NodesOf(f))
    BY ListIs, ListCounts
  <1>4. /\ NodesOf(g) \in SUBSET Node /\ IsFiniteSet(NodesOf(g))
        /\ Behind(f, m) \in SUBSET Node /\ IsFiniteSet(Behind(f, m))
    <2>1. NodesOf(g) \subseteq NodesOf(f) /\ Behind(f, m) \subseteq NodesOf(f)
      BY <1>2, Zenon
    <2> QED BY <1>3, <2>1, Zenon DEF FiniteFacts
  <1>5. /\ BytesOf(NodesOf(f)) = BytesOf(NodesOf(g)) + BytesOf(Behind(f, m))
        /\ BytesOf(NodesOf(g)) \in Nat /\ BytesOf(Behind(f, m)) \in Nat
    <2>1. PICK N, M : N = NodesOf(g) /\ M = Behind(f, m)
      BY Zenon
    <2>2. BytesOf(N \cup M) = BytesOf(N) + BytesOf(M) /\ BytesOf(N) \in Nat /\ BytesOf(M) \in Nat
      BY <1>2, <1>4, <2>1, BytesSplit
    <2> QED BY <1>2, <2>1, <2>2, Zenon
  <1>6. Left(f, BytesOf(NodesOf(f)), m) = BytesOf(NodesOf(f)) - BytesOf(Behind(f, m))
    BY Zenon DEF Left, Behind
  <1> QED BY <1>1, <1>5, <1>6

\* One node more of a list.
LEMMA PrefixMore ==
  ASSUME FiniteFacts, NEW f \in Seq(Node), Distinct(f), NEW m \in 1..Len(f), m < Len(f)
  PROVE  BytesOf(NodesOf(SubSeq(f, 1, m + 1))) = BytesOf(NodesOf(SubSeq(f, 1, m))) + f[m + 1].bytes
  <1>1. PICK g, h : g = SubSeq(f, 1, m) /\ h = SubSeq(f, 1, m + 1)
    BY Zenon
  <1>2. Len(f) \in Nat /\ m \in Nat /\ m + 1 \in 1..Len(f) /\ DOMAIN f = 1..Len(f) /\ 1..(m + 1) = (1..m) \cup {m + 1}
    OBVIOUS
  <1>3. /\ g \in Seq(Node) /\ Distinct(g) /\ DOMAIN g = 1..m /\ \A i \in 1..m : g[i] = f[i]
        /\ DOMAIN h = 1..(m + 1) /\ \A i \in 1..(m + 1) : h[i] = f[i]
    <2>1. g \in Seq(Node) /\ Distinct(g)
      BY <1>1, PrefixNodes, Zenon DEF Prefixed
    <2> QED BY <1>1, <1>2, <2>1, PrefixIs
  <1>4. NodesOf(g) = {f[i] : i \in 1..m} /\ NodesOf(h) = {f[i] : i \in 1..(m + 1)}
    BY <1>3, Zenon DEF NodesOf
  <1>5. NodesOf(h) = NodesOf(g) \cup {f[m + 1]}
    BY <1>2, <1>4, Zenon
  <1>6. f[m + 1] \notin NodesOf(g)
    <2> SUFFICES ASSUME NEW i \in 1..m, f[m + 1] = f[i] PROVE FALSE
      BY <1>4, Zenon
    <2>1. i \in DOMAIN f /\ m + 1 \in DOMAIN f /\ i # m + 1
      BY <1>2
    <2> QED BY <2>1, Zenon DEF Distinct
  <1>7. NodesOf(g) \in SUBSET Node /\ IsFiniteSet(NodesOf(g)) /\ f[m + 1] \in Node
    BY <1>2, <1>3, ListIs, ListCounts
  <1>8. BytesOf(NodesOf(g) \cup {f[m + 1]}) = BytesOf(NodesOf(g)) + f[m + 1].bytes
    <2>1. PICK N, n : N = NodesOf(g) /\ n = f[m + 1]
      BY Zenon
    <2>2. BytesOf(N \cup {n}) = BytesOf(N) + n.bytes
      BY <1>6, <1>7, <2>1, BytesWith
    <2> QED BY <2>1, <2>2, Zenon
  <1> QED BY <1>1, <1>5, <1>8, Zenon

\* The greatest of some numbers that are not all.
LEMMA MaxIs ==
  ASSUME FiniteFacts, NEW n \in Nat, NEW S \in SUBSET (0..n), S # {}
  PROVE  Max(S) \in S /\ \A y \in S : Max(S) >= y
  <1>1. \E x \in S : \A y \in S : x >= y
    BY Zenon DEF FiniteFacts
  <1> QED BY <1>1, Zenon DEF Max

\* As many nodes stay as the budget has room for, and the first.
LEMMA EvictIs ==
  ASSUME FiniteFacts, NEW f \in Seq(Node), Distinct(f), Len(f) > 0, f[1].bytes <= shard_budget_,
         NEW kept, kept = Evict(f, BytesOf(NodesOf(f)))
  PROVE  /\ kept \in 1..Len(f)
         /\ BytesOf(NodesOf(SubSeq(f, 1, kept))) <= shard_budget_
         /\ kept < Len(f) => BytesOf(NodesOf(SubSeq(f, 1, kept))) + f[kept + 1].bytes > shard_budget_
  <1>1. Len(f) \in Nat /\ 1 \in 1..Len(f) /\ DOMAIN f = 1..Len(f) /\ f[1] \in Node
    OBVIOUS
  <1> DEFINE room == {m \in 1..Len(f) : Left(f, BytesOf(NodesOf(f)), m) <= shard_budget_}
  <1>2. 1 \in room
    <2>1. PICK g : g = SubSeq(f, 1, 1)
      BY Zenon
    <2>2. NodesOf(g) = {f[1]}
      <3>1. DOMAIN g = 1..1 /\ \A i \in 1..1 : g[i] = f[i]
        BY <1>1, <2>1, PrefixIs
      <3> QED BY <3>1 DEF NodesOf
    <2>3. Left(f, BytesOf(NodesOf(f)), 1) = f[1].bytes
      BY <1>1, <2>1, <2>2, LeftIs, BytesOne, Zenon
    <2> QED BY <1>1, <2>3
  <1>3. {1} \cup room \in SUBSET (0..Len(f)) /\ {1} \cup room # {}
    BY <1>1
  <1>4. kept = Max({1} \cup room)
    BY Zenon DEF Evict
  <1>5. kept \in room /\ \A m \in room : kept >= m
    <2> HIDE DEF room
    <2>1. kept \in {1} \cup room /\ \A y \in {1} \cup room : kept >= y
      BY <1>1, <1>3, <1>4, MaxIs, Zenon
    <2> QED BY <1>2, <2>1, Zenon
  <1>6. kept \in 1..Len(f) /\ BytesOf(NodesOf(SubSeq(f, 1, kept))) <= shard_budget_
    BY <1>5, LeftIs
  <1>7. ASSUME kept < Len(f) PROVE BytesOf(NodesOf(SubSeq(f, 1, kept))) + f[kept + 1].bytes > shard_budget_
    <2>1. kept + 1 \in 1..Len(f) /\ ~(kept >= kept + 1)
      BY <1>1, <1>6, <1>7
    <2>2. ~(Left(f, BytesOf(NodesOf(f)), kept + 1) <= shard_budget_)
      BY <1>5, <2>1, Zenon
    <2>3. /\ Left(f, BytesOf(NodesOf(f)), kept + 1) = BytesOf(NodesOf(SubSeq(f, 1, kept + 1)))
          /\ BytesOf(NodesOf(SubSeq(f, 1, kept + 1))) \in Nat
      BY <2>1, LeftIs
    <2>4. BytesOf(NodesOf(SubSeq(f, 1, kept + 1))) = BytesOf(NodesOf(SubSeq(f, 1, kept))) + f[kept + 1].bytes
      BY <1>6, <1>7, PrefixMore
    <2>5. shard_budget_ \in Nat
      BY CacheConstants
    <2> QED BY <2>2, <2>3, <2>4, <2>5
  <1> QED BY <1>6, <1>7, Zenon

----------------------------------------------------------------------------
(* A shard of the cache *)

\* The nodes that may be in shard s.
Fits(s) == {n \in Node : n.expires_at <= MaxTime + max_ttl * TicksPerSecond /\ ShardOf[n.key] = s}

\* The list q, index ix and byte count b of shard s, with keys used in the order nw.
ShardOk(s, q, ix, b, nw) ==
  /\ q \in Seq(Fits(s)) /\ Distinct(q) /\ OrderedFrom(0, q, nw)
  /\ ix = KeysOf(q) /\ b = BytesOf(NodesOf(q)) /\ b <= shard_budget_

ShardNow(s) == ShardOk(s, lru[s], index[s], bytes[s], newer[s])

\* A list of nodes of one shard is a list of nodes, with bytes to count.
LEMMA FitsIs ==
  ASSUME FiniteFacts, NEW s, NEW q \in Seq(Fits(s)), Distinct(q)
  PROVE  /\ q \in Seq(Node) /\ NodesOf(q) \in SUBSET Node /\ IsFiniteSet(NodesOf(q))
         /\ BytesOf(NodesOf(q)) \in Nat
  <1>1. Fits(s) \subseteq Node
    BY Zenon DEF Fits
  <1>2. q \in Seq(Node)
    <2>1. PICK S : S = Fits(s) /\ S \subseteq Node
      BY <1>1, Zenon
    <2> QED BY <2>1
  <1>3. NodesOf(q) \in SUBSET Node /\ IsFiniteSet(NodesOf(q))
    BY <1>2, ListIs, ListCounts, Zenon
  <1>5. BytesOf(NodesOf(q)) \in Nat
    BY <1>3, BytesIs, Zenon
  <1> QED BY <1>2, <1>3, <1>5, Zenon

\* An empty shard.
LEMMA ShardEmpty ==
  ASSUME FiniteFacts, NEW s, NEW nw
  PROVE  ShardOk(s, <<>>, {}, 0, nw)
  <1>1. /\ <<>> \in Seq(Fits(s)) /\ DOMAIN <<>> = {}
    OBVIOUS
  <1>2. NodesOf(<<>>) = {} /\ KeysOf(<<>>) = {}
    BY <1>1, Zenon DEF NodesOf, KeysOf
  <1>3. Distinct(<<>>) /\ OrderedFrom(0, <<>>, nw)
    BY <1>1, Zenon DEF Distinct, OrderedFrom
  <1>4. BytesOf({}) = 0
    <2>1. UNION {{n} \X (1..n.bytes) : n \in {}} = {}
      BY Zenon
    <2> QED BY <2>1, Zenon DEF BytesOf, FiniteFacts
  <1>5. 0 <= shard_budget_
    BY CacheConstants
  <1> QED BY <1>1, <1>2, <1>3, <1>4, <1>5, Zenon DEF ShardOk

\* The index finds the one node of a key.
LEMMA FoundIs ==
  ASSUME NEW s, ShardNow(s), NEW k, Holds(s, k)
  PROVE  /\ Place(s, k) \in DOMAIN lru[s] /\ NodeOf(s, k) = lru[s][Place(s, k)]
         /\ NodeOf(s, k).key = k /\ NodeOf(s, k) \in NodesOf(lru[s]) /\ NodeOf(s, k) \in Fits(s)
         /\ \A n \in NodesOf(lru[s]) : n.key = k => n = NodeOf(s, k)
  <1>1. PICK q : q = lru[s] /\ q \in Seq(Fits(s)) /\ Distinct(q) /\ k \in KeysOf(q)
    BY Zenon DEF ShardNow, ShardOk, Holds
  <1>2. PICK p : p = Place(s, k)
    BY Zenon
  <1>3. p \in DOMAIN q /\ q[p].key = k
    <2>1. \E i \in DOMAIN q : q[i].key = k
      BY <1>1, Zenon DEF KeysOf
    <2> QED BY <1>1, <1>2, <2>1, Zenon DEF Place
  <1>4. q[p] \in NodesOf(q) /\ \A n \in NodesOf(q) : n.key = k => n = q[p]
    BY <1>1, <1>3, Zenon DEF NodesOf, Distinct
  <1>5. q[p] \in Fits(s)
    BY <1>1, <1>4, ListIs, Zenon
  <1> QED BY <1>1, <1>2, <1>3, <1>4, <1>5, Zenon DEF NodeOf

\* r is the list of shard s without key k.
LeftOut(s, k, r) ==
  /\ r \in Seq(Fits(s)) /\ Distinct(r) /\ OrderedFrom(0, r, newer[s])
  /\ KeysOf(r) = index[s] \ {k}
  /\ NodesOf(r) = {n \in NodesOf(lru[s]) : n.key # k}
  /\ BytesOf(NodesOf(r)) = BytesWithout(s, k)
  /\ BytesWithout(s, k) <= shard_budget_

\* The list without a key's node.
LEMMA OthersIs ==
  ASSUME FiniteFacts, NEW s, ShardNow(s), NEW k, NEW r, r = Others(s, k)
  PROVE  LeftOut(s, k, r)
  <1>1. PICK q, nw : /\ q = lru[s] /\ nw = newer[s] /\ q \in Seq(Fits(s)) /\ Distinct(q) /\ OrderedFrom(0, q, nw)
                     /\ index[s] = KeysOf(q) /\ bytes[s] = BytesOf(NodesOf(q)) /\ bytes[s] <= shard_budget_
    BY Zenon DEF ShardNow, ShardOk
  <1>2. CASE Holds(s, k)
    <2>1. PICK p, n : p = Place(s, k) /\ n = NodeOf(s, k)
      BY Zenon
    <2>2. /\ p \in DOMAIN q /\ n = q[p] /\ n.key = k /\ n \in NodesOf(q) /\ n \in Fits(s)
          /\ \A o \in NodesOf(q) : o.key = k => o = n
      <3>1. /\ Place(s, k) \in DOMAIN lru[s] /\ NodeOf(s, k) = lru[s][Place(s, k)]
            /\ NodeOf(s, k).key = k /\ NodeOf(s, k) \in NodesOf(lru[s]) /\ NodeOf(s, k) \in Fits(s)
            /\ \A o \in NodesOf(lru[s]) : o.key = k => o = NodeOf(s, k)
        BY <1>2, FoundIs, Zenon
      <3> QED BY <1>1, <2>1, <3>1
    <2>3. r = Unlinked(q, p)
      BY <1>1, <1>2, <2>1, Zenon DEF Others
    <2>4. /\ r \in Seq(Fits(s)) /\ Distinct(r) /\ OrderedFrom(0, r, nw)
          /\ NodesOf(r) = NodesOf(q) \ {n} /\ KeysOf(r) = KeysOf(q) \ {k}
      <3>1. /\ r \in Seq(Fits(s)) /\ Distinct(r)
            /\ NodesOf(r) = NodesOf(q) \ {q[p]} /\ KeysOf(r) = KeysOf(q) \ {q[p].key}
            /\ \A w : OrderedFrom(0, q, w) => OrderedFrom(0, r, w)
        <4>1. q \in Seq(Fits(s)) /\ Distinct(q) /\ p \in DOMAIN q
          BY <1>1, <2>2, Zenon
        <4> QED BY <2>3, <4>1, RemoveNode, Zenon
      <3> QED BY <1>1, <2>2, <3>1
    <2>5. NodesOf(r) = {o \in NodesOf(q) : o.key # k}
      BY <2>2, <2>4, Zenon
    <2>6. /\ NodesOf(r) \in SUBSET Node /\ IsFiniteSet(NodesOf(r)) /\ n \in Node /\ n \notin NodesOf(r)
          /\ NodesOf(r) \cup {n} = NodesOf(q)
      <3>1. NodesOf(r) \in SUBSET Node /\ IsFiniteSet(NodesOf(r))
        BY <2>4, FitsIs, Zenon
      <3> QED BY <2>2, <2>4, <3>1, Zenon DEF Fits
    <2>7. BytesOf(NodesOf(r) \cup {n}) = BytesOf(NodesOf(r)) + n.bytes /\ BytesOf(NodesOf(r)) \in Nat /\ n.bytes \in Nat
      <3>1. PICK N : N = NodesOf(r)
        BY Zenon
      <3> QED BY <2>6, <3>1, BytesWith
    <2>8. BytesWithout(s, k) = bytes[s] - n.bytes
      BY <1>2, <2>1, Zenon DEF BytesWithout
    <2>9. shard_budget_ \in Nat
      BY CacheConstants
    <2>10. bytes[s] = BytesOf(NodesOf(r)) + n.bytes
      BY <1>1, <2>6, <2>7, Zenon
    <2>11. BytesOf(NodesOf(r)) = BytesWithout(s, k) /\ BytesWithout(s, k) <= shard_budget_
      BY <1>1, <2>7, <2>8, <2>9, <2>10
    <2> QED BY <1>1, <2>4, <2>5, <2>11, Zenon DEF LeftOut
  <1>3. CASE ~Holds(s, k)
    <2>1. r = q /\ BytesWithout(s, k) = bytes[s] /\ k \notin KeysOf(q)
      BY <1>1, <1>3, Zenon DEF Others, BytesWithout, Holds
    <2>2. KeysOf(q) = KeysOf(q) \ {k}
      BY <2>1, Zenon
    <2>3. \A n \in NodesOf(q) : n.key # k
      BY <2>1, Zenon DEF NodesOf, KeysOf
    <2>4. NodesOf(q) = {n \in NodesOf(q) : n.key # k}
      BY <2>3, Zenon
    <2> QED BY <1>1, <2>1, <2>2, <2>4, Zenon DEF LeftOut
  <1> QED BY <1>2, <1>3, Zenon

\* erase()
LEMMA ErasedOk ==
  ASSUME FiniteFacts, NEW s, ShardNow(s), NEW k
  PROVE  ShardOk(s, Others(s, k), index[s] \ {k}, BytesWithout(s, k), newer[s])
  <1>1. LeftOut(s, k, Others(s, k))
    BY OthersIs, Zenon
  <1> QED BY <1>1, Zenon DEF ShardOk, LeftOut

\* lookup() moves what it found to the front.
LEMMA FrontOk ==
  ASSUME FiniteFacts, NEW s, ShardNow(s), NEW k, Holds(s, k), NEW g, g = MoveToFront(s, k)
  PROVE  /\ ShardOk(s, g, index[s], bytes[s], UsedLast(newer[s], k, index[s]))
         /\ NodesOf(g) = NodesOf(lru[s])
  <1>1. PICK q, nw, n, r : q = lru[s] /\ nw = newer[s] /\ n = NodeOf(s, k) /\ r = Others(s, k)
    BY Zenon
  <1>2. /\ index[s] = KeysOf(q) /\ bytes[s] = BytesOf(NodesOf(q)) /\ bytes[s] <= shard_budget_
    BY <1>1, Zenon DEF ShardNow, ShardOk
  <1>3. /\ n.key = k /\ n \in NodesOf(q) /\ n \in Fits(s) /\ \A o \in NodesOf(q) : o.key = k => o = n
    BY <1>1, FoundIs, Zenon
  <1>4. /\ r \in Seq(Fits(s)) /\ Distinct(r) /\ OrderedFrom(0, r, nw)
        /\ KeysOf(r) = index[s] \ {k} /\ NodesOf(r) = {o \in NodesOf(q) : o.key # k}
    <2>1. LeftOut(s, k, r)
      BY <1>1, OthersIs, Zenon
    <2> QED BY <1>1, <2>1, Zenon DEF LeftOut
  <1>5. g = <<n>> \o r /\ n.key \notin KeysOf(r)
    BY <1>1, <1>3, <1>4, Zenon DEF MoveToFront
  <1>6. /\ g \in Seq(Fits(s)) /\ Distinct(g) /\ Len(g) = Len(r) + 1 /\ g[1] = n
        /\ NodesOf(g) = NodesOf(r) \cup {n} /\ KeysOf(g) = KeysOf(r) \cup {n.key} /\ OrderedFrom(1, g, nw)
    <2>1. r \in Seq(Fits(s)) /\ Distinct(r) /\ n \in Fits(s)
      BY <1>3, <1>4, Zenon
    <2>2. Fronted(Fits(s), r, n, g)
      BY <1>5, <2>1, PrependNode, Zenon
    <2> QED BY <1>4, <2>2, Zenon DEF Fronted
  <1>7. NodesOf(g) = NodesOf(q)
    <2>1. \A o : o \in NodesOf(g) <=> o \in NodesOf(q)
      BY <1>3, <1>4, <1>6
    <2> QED BY <2>1, Zenon
  <1>8. KeysOf(g) = index[s]
    <2>1. k \in index[s]
      BY Zenon DEF Holds
    <2>2. (index[s] \ {k}) \cup {k} = index[s]
      BY <2>1
    <2> QED BY <1>3, <1>4, <1>6, <2>2, Zenon
  <1>9. OrderedFrom(0, g, UsedLast(nw, k, index[s]))
    <2>1. Len(g) > 0
      BY <1>4, <1>6, ListIs
    <2>2. OrderedFrom(0, g, UsedLast(nw, g[1].key, KeysOf(g)))
      BY <1>6, <2>1, FrontUsed, Zenon
    <2> QED BY <1>3, <1>6, <1>8, <2>2, Zenon
  <1> QED BY <1>1, <1>2, <1>6, <1>7, <1>8, <1>9, Zenon DEF ShardOk

\* insert() writes node n: the list before eviction, and what eviction leaves of it.
Writing(s, n, f, size, kept) ==
  /\ n \in Fits(s) /\ n.bytes <= shard_budget_
  /\ f = <<n>> \o Others(s, n.key) /\ size = BytesWithout(s, n.key) + n.bytes /\ kept = Evict(f, size)

\* The list before eviction, its bytes, and how many of its nodes stay.
LEMMA WritingIs ==
  ASSUME FiniteFacts, NEW s, ShardNow(s), NEW n, NEW f, NEW size, NEW kept, Writing(s, n, f, size, kept)
  PROVE  /\ f \in Seq(Fits(s)) /\ Distinct(f) /\ f[1] = n /\ OrderedFrom(1, f, newer[s])
         /\ KeysOf(f) = (index[s] \ {n.key}) \cup {n.key}
         /\ NodesOf(f) = {o \in NodesOf(lru[s]) : o.key # n.key} \cup {n}
         /\ kept \in 1..Len(f)
         /\ Left(f, size, kept) = BytesOf(NodesOf(SubSeq(f, 1, kept)))
         /\ Left(f, size, kept) <= shard_budget_
         /\ kept < Len(f) => Left(f, size, kept) + f[kept + 1].bytes > shard_budget_
  <1>1. /\ n \in Fits(s) /\ n.bytes <= shard_budget_
        /\ size = BytesWithout(s, n.key) + n.bytes /\ kept = Evict(f, size)
    BY Zenon DEF Writing
  <1>2. PICK k, r : k = n.key /\ r = Others(s, k) /\ f = <<n>> \o r
    BY Zenon DEF Writing
  <1>3. /\ r \in Seq(Fits(s)) /\ Distinct(r) /\ OrderedFrom(0, r, newer[s])
        /\ KeysOf(r) = index[s] \ {n.key}
        /\ NodesOf(r) = {o \in NodesOf(lru[s]) : o.key # n.key}
        /\ BytesOf(NodesOf(r)) = BytesWithout(s, n.key)
    <2>1. r = Others(s, k)
      BY <1>2, Zenon
    <2>2. LeftOut(s, k, r)
      BY <2>1, OthersIs, Zenon
    <2> QED BY <1>2, <2>2, Zenon DEF LeftOut
  <1>4. r \in Seq(Fits(s)) /\ Distinct(r) /\ n.key \notin KeysOf(r) /\ n \in Fits(s) /\ f = <<n>> \o r
    BY <1>1, <1>2, <1>3, Zenon
  <1>5. /\ f \in Seq(Fits(s)) /\ Distinct(f) /\ Len(f) = Len(r) + 1 /\ f[1] = n
        /\ NodesOf(f) = NodesOf(r) \cup {n} /\ KeysOf(f) = KeysOf(r) \cup {n.key}
        /\ OrderedFrom(1, f, newer[s])
    <2>1. Fronted(Fits(s), r, n, f)
      BY <1>4, PrependNode, Zenon
    <2> QED BY <1>3, <2>1, Zenon DEF Fronted
  <1>6. size = BytesOf(NodesOf(f))
    <2>1. NodesOf(r) \in SUBSET Node /\ IsFiniteSet(NodesOf(r)) /\ n \in Node /\ n \notin NodesOf(r)
      BY <1>1, <1>3, FitsIs, Zenon DEF Fits
    <2>2. PICK N : N = NodesOf(r)
      BY Zenon
    <2>3. BytesOf(N \cup {n}) = BytesOf(N) + n.bytes
      BY <2>1, <2>2, BytesWith
    <2> QED BY <1>1, <1>3, <1>5, <2>2, <2>3
  <1>7. f \in Seq(Node) /\ Len(f) > 0
    <2>1. f \in Seq(Node) /\ Len(r) \in Nat
      BY <1>3, <1>5, FitsIs, ListIs, Zenon
    <2> QED BY <1>5, <2>1
  <1>8. kept = Evict(f, BytesOf(NodesOf(f))) /\ f[1].bytes <= shard_budget_
    BY <1>1, <1>5, <1>6, Zenon
  <1>9. /\ kept \in 1..Len(f)
        /\ BytesOf(NodesOf(SubSeq(f, 1, kept))) <= shard_budget_
        /\ kept < Len(f) => BytesOf(NodesOf(SubSeq(f, 1, kept))) + f[kept + 1].bytes > shard_budget_
    <2>1. f \in Seq(Node) /\ Distinct(f) /\ Len(f) > 0
      BY <1>5, <1>7, Zenon
    <2> QED BY <1>8, <2>1, EvictIs, Zenon
  <1>10. Left(f, size, kept) = BytesOf(NodesOf(SubSeq(f, 1, kept)))
    BY <1>5, <1>6, <1>7, <1>9, LeftIs, Zenon
  <1>12. Left(f, size, kept) <= shard_budget_
    BY <1>9, <1>10, Zenon
  <1>13. kept < Len(f) => Left(f, size, kept) + f[kept + 1].bytes > shard_budget_
    BY <1>9, <1>10, Zenon
  <1> QED BY <1>3, <1>5, <1>9, <1>10, <1>12, <1>13, Zenon

\* The shard is in order after it.
LEMMA WrittenOk ==
  ASSUME FiniteFacts, NEW s, ShardNow(s), NEW n, NEW f, NEW size, NEW kept, Writing(s, n, f, size, kept),
         NEW ix, ix = {f[m].key : m \in 1..kept}
  PROVE  ShardOk(s, SubSeq(f, 1, kept), ix, Left(f, size, kept), UsedLast(newer[s], n.key, ix))
  <1>1. /\ f \in Seq(Fits(s)) /\ Distinct(f) /\ f[1] = n /\ OrderedFrom(1, f, newer[s])
        /\ kept \in 1..Len(f)
        /\ Left(f, size, kept) = BytesOf(NodesOf(SubSeq(f, 1, kept)))
        /\ Left(f, size, kept) <= shard_budget_
    BY WritingIs
  <1>2. PICK g : g = SubSeq(f, 1, kept)
    BY Zenon
  <1>3. /\ g \in Seq(Fits(s)) /\ Len(g) = kept /\ Distinct(g) /\ KeysOf(g) = ix
        /\ \A w : OrderedFrom(1, f, w) => OrderedFrom(1, g, w)
    <2>1. f \in Seq(Fits(s)) /\ Distinct(f) /\ kept \in 1..Len(f)
      BY <1>1, Zenon
    <2>2. Prefixed(Fits(s), f, kept, g)
      BY <1>2, <2>1, PrefixNodes, Zenon
    <2> QED BY <2>2, Zenon DEF Prefixed
  <1>4. OrderedFrom(1, g, newer[s])
    BY <1>1, <1>3, Zenon
  <1>5. Len(g) > 0 /\ g[1] = n
    BY <1>1, <1>2, PrefixIs
  <1>6. OrderedFrom(0, g, UsedLast(newer[s], g[1].key, KeysOf(g)))
    BY <1>3, <1>4, <1>5, FrontUsed, Zenon
  <1>7. OrderedFrom(0, g, UsedLast(newer[s], n.key, ix))
    BY <1>3, <1>5, <1>6, Zenon
  <1> QED BY <1>1, <1>2, <1>3, <1>7, Zenon DEF ShardOk

\* It keeps the node written, other nodes as they were, and drops the least recently
\* used, no more than it must.
WrittenWell(s, n, g, ix) ==
  /\ n \in NodesOf(g)
  /\ \A o \in NodesOf(g) : o = n \/ (o \in NodesOf(lru[s]) /\ o.key # n.key)
  /\ \A k \in ix \ {n.key} : k \in index[s] /\ \A d \in index[s] \ ix : <<k, d>> \in newer[s]
  /\ \A d \in index[s] \ ix : (\A e \in (index[s] \ ix) \ {d} : <<d, e>> \in newer[s]) =>
       BytesOf(NodesOf(g)) + NodeOf(s, d).bytes > shard_budget_

\* So insert() does.
LEMMA WrittenEvicts ==
  ASSUME FiniteFacts, NEW s, ShardNow(s), NEW n, NEW f, NEW size, NEW kept, Writing(s, n, f, size, kept),
         NEW ix, ix = {f[m].key : m \in 1..kept}, NEW g, g = SubSeq(f, 1, kept)
  PROVE  WrittenWell(s, n, g, ix)
  <1>1. /\ f \in Seq(Fits(s)) /\ Distinct(f) /\ f[1] = n /\ OrderedFrom(1, f, newer[s])
        /\ KeysOf(f) = (index[s] \ {n.key}) \cup {n.key}
        /\ NodesOf(f) = {o \in NodesOf(lru[s]) : o.key # n.key} \cup {n}
        /\ kept \in 1..Len(f)
        /\ Left(f, size, kept) = BytesOf(NodesOf(g))
        /\ kept < Len(f) => Left(f, size, kept) + f[kept + 1].bytes > shard_budget_
    BY WritingIs
  <1>2. Len(f) \in Nat /\ DOMAIN f = 1..Len(f) /\ kept \in Nat /\ 1 \in 1..kept /\ 1..kept \subseteq DOMAIN f
    BY <1>1, ListIs
  <1>3. g \in Seq(Fits(s)) /\ DOMAIN g = 1..kept /\ \A i \in 1..kept : g[i] = f[i]
    BY <1>1, PrefixIs
  <1>4. n \in NodesOf(g)
    BY <1>1, <1>2, <1>3, Zenon DEF NodesOf
  <1>5. \A o \in NodesOf(g) : o = n \/ (o \in NodesOf(lru[s]) /\ o.key # n.key)
    <2> SUFFICES ASSUME NEW o \in NodesOf(g) PROVE o = n \/ (o \in NodesOf(lru[s]) /\ o.key # n.key)
      OBVIOUS
    <2>1. PICK i \in 1..kept : o = f[i]
      BY <1>3, Zenon DEF NodesOf
    <2>2. o \in NodesOf(f)
      BY <1>2, <2>1, Zenon DEF NodesOf
    <2>3. o \in {x \in NodesOf(lru[s]) : x.key # n.key} \cup {n}
      BY <1>1, <2>2, Zenon
    <2> QED BY <2>3, Zenon
  <1>6. \A k \in index[s] : k \notin ix => \E j \in DOMAIN f : j > kept /\ f[j].key = k
    <2> SUFFICES ASSUME NEW k \in index[s], k \notin ix PROVE \E j \in DOMAIN f : j > kept /\ f[j].key = k
      BY Zenon
    <2>1. k \in KeysOf(f)
      BY <1>1, Zenon
    <2>2. PICK j \in DOMAIN f : f[j].key = k
      BY <2>1, Zenon DEF KeysOf
    <2>3. j \notin 1..kept
      BY <2>2, Zenon
    <2>4. j > kept
      BY <1>2, <2>3
    <2> QED BY <2>2, <2>4, Zenon
  <1>7. ASSUME NEW j \in DOMAIN f, j # 1 PROVE f[j].key # n.key /\ f[j].key \in index[s] /\ f[j] \in NodesOf(lru[s])
    <2>1. f[j].key # n.key
      BY <1>1, <1>2, <1>7, Zenon DEF Distinct
    <2>2. f[j].key \in KeysOf(f) /\ f[j] \in NodesOf(f)
      BY Zenon DEF KeysOf, NodesOf
    <2> QED BY <1>1, <2>1, <2>2, Zenon
  <1>8. ASSUME NEW k \in ix \ {n.key}, NEW d \in index[s] \ ix PROVE <<k, d>> \in newer[s]
    <2>1. PICK i \in 1..kept : k = f[i].key
      BY Zenon
    <2>2. PICK j \in DOMAIN f : j > kept /\ f[j].key = d
      BY <1>6, Zenon
    <2>3. i \in DOMAIN f /\ i > 1 /\ j > 1 /\ i < j
      <3>1. i # 1
        BY <1>1, <2>1, Zenon
      <3> QED BY <1>2, <2>2, <3>1
    <2>4. <<f[i].key, f[j].key>> \in newer[s]
      BY <1>1, <2>3, Zenon DEF OrderedFrom
    <2> QED BY <2>1, <2>2, <2>4
  <1>9. ASSUME NEW k \in ix \ {n.key} PROVE k \in index[s]
    <2>1. PICK i \in 1..kept : k = f[i].key
      BY Zenon
    <2>2. i \in DOMAIN f /\ i # 1
      BY <1>1, <1>2, <2>1, Zenon
    <2> QED BY <1>7, <2>1, <2>2, Zenon
  <1>10. ASSUME NEW d \in index[s] \ ix, \A e \in (index[s] \ ix) \ {d} : <<d, e>> \in newer[s]
         PROVE  BytesOf(NodesOf(g)) + NodeOf(s, d).bytes > shard_budget_
    <2>1. PICK j \in DOMAIN f : j > kept /\ f[j].key = d
      BY <1>6, Zenon
    <2>2. PICK i : i = kept + 1
      BY Zenon
    <2>3. kept < Len(f) /\ i \in DOMAIN f /\ i > 1 /\ i # 1 /\ j > 1 /\ ~(j < i) /\ i \notin 1..kept
      BY <1>2, <2>1, <2>2
    <2>4. f[i].key \notin ix
      <3> SUFFICES ASSUME NEW m \in 1..kept, f[i].key = f[m].key PROVE FALSE
        BY Zenon
      <3>1. m \in DOMAIN f
        BY <1>2, Zenon
      <3> QED BY <1>1, <2>3, <3>1, Zenon DEF Distinct
    <2>5. f[i].key = d
      <3> SUFFICES ASSUME f[i].key # d PROVE FALSE
        BY Zenon
      <3>1. <<d, f[i].key>> \in newer[s]
        BY <1>7, <1>10, <2>3, <2>4, Zenon
      <3>2. j < i
        BY <1>1, <2>1, <2>3, <3>1 DEF OrderedFrom
      <3> QED BY <2>3, <3>2, Zenon
    <2>6. f[i] = NodeOf(s, d)
      <3>1. Holds(s, d)
        BY Zenon DEF Holds
      <3>2. \A o \in NodesOf(lru[s]) : o.key = d => o = NodeOf(s, d)
        BY <3>1, FoundIs, Zenon
      <3> QED BY <1>7, <2>3, <2>5, <3>2, Zenon
    <2> QED BY <1>1, <2>2, <2>3, <2>6, Zenon
  <1> QED BY <1>4, <1>5, <1>8, <1>9, <1>10, Zenon DEF WrittenWell
----------------------------------------------------------------------------
(* The cache's steps *)

\* Every shard is in order.
ShardsOk ==
  /\ lru = [s \in Shards |-> lru[s]] /\ index = [s \in Shards |-> index[s]]
  /\ bytes = [s \in Shards |-> bytes[s]] /\ newer = [s \in Shards |-> newer[s]]
  /\ \A s \in Shards : ShardNow(s)

\* What a thread is about to do was begun in the past, with a node the shard may have.
OpOk(o, at) ==
  o # None =>
    /\ o.fn = "lookup" => o.key \in Keys /\ o.now \in 0..at
    /\ o.fn = "insert" => o.node \in Fits(ShardOf[o.node.key]) /\ o.now \in 0..at

OpsOk == op = [t \in Threads |-> op[t]] /\ \A t \in Threads : OpOk(op[t], now)

ServedOk(v) ==
  v # None => v.at < v.node.expires_at /\ v.at + v.ttl * TicksPerSecond <= v.node.expires_at

AllServedOk == served = [t \in Threads |-> served[t]] /\ \A t \in Threads : ServedOk(served[t])

CacheInv == now \in 0..MaxTime /\ ShardsOk /\ OpsOk /\ AllServedOk

\* What TrustKept and EvictsLeastRecent say of a step.
TrustStep ==
  \A s \in Shards : \A old \in Entries(s) : \A new \in Entries(s)' :
    old.key = new.key /\ old.expires_at > now => new.trust >= old.trust

LeastRecentStep ==
  \A s \in Shards : \A t \in Threads : Writes(t, s) =>
    LET dropped == index[s] \ index'[s] IN
    /\ op[t].node \in Entries(s)'
    /\ \A k \in index'[s] \ {op[t].node.key} :
         k \in index[s] /\ \A d \in dropped : <<k, d>> \in newer[s]
    /\ \A d \in dropped : (\A e \in dropped \ {d} : <<d, e>> \in newer[s]) =>
         BytesOf(Entries(s)') + NodeOf(s, d).bytes > shard_budget_

\* A step gives shard s a list, an index, a byte count and an order of use.
ShardBecomes(s, q, ix, b, nw) ==
  /\ lru' = [lru EXCEPT ![s] = q] /\ index' = [index EXCEPT ![s] = ix]
  /\ bytes' = [bytes EXCEPT ![s] = b] /\ newer' = [newer EXCEPT ![s] = nw]

\* One shard is changed.
LEMMA ShardChanged ==
  ASSUME ShardsOk, NEW s \in Shards, NEW q, NEW ix, NEW b, NEW nw, ShardOk(s, q, ix, b, nw),
         ShardBecomes(s, q, ix, b, nw)
  PROVE  ShardsOk'
  <1>1. /\ lru' = [r \in Shards |-> lru'[r]] /\ lru'[s] = q
        /\ \A r \in Shards \ {s} : lru'[r] = lru[r]
    BY DEF ShardsOk, ShardBecomes
  <1>2. /\ index' = [r \in Shards |-> index'[r]] /\ index'[s] = ix
        /\ \A r \in Shards \ {s} : index'[r] = index[r]
    BY DEF ShardsOk, ShardBecomes
  <1>3. /\ bytes' = [r \in Shards |-> bytes'[r]] /\ bytes'[s] = b
        /\ \A r \in Shards \ {s} : bytes'[r] = bytes[r]
    BY DEF ShardsOk, ShardBecomes
  <1>4. /\ newer' = [r \in Shards |-> newer'[r]] /\ newer'[s] = nw
        /\ \A r \in Shards \ {s} : newer'[r] = newer[r]
    BY DEF ShardsOk, ShardBecomes
  <1>5. ASSUME NEW r \in Shards PROVE ShardNow(r)'
    <2>1. CASE r = s
      <3>1. ShardOk(r, lru'[r], index'[r], bytes'[r], newer'[r])
        BY <1>1, <1>2, <1>3, <1>4, <2>1, Zenon
      <3> QED BY <3>1, Zenon DEF ShardNow, ShardOk
    <2>2. CASE r # s
      <3>1. ShardOk(r, lru[r], index[r], bytes[r], newer[r])
        BY Zenon DEF ShardsOk, ShardNow
      <3>2. ShardOk(r, lru'[r], index'[r], bytes'[r], newer'[r])
        BY <1>1, <1>2, <1>3, <1>4, <2>2, <3>1, Zenon
      <3> QED BY <3>2, Zenon DEF ShardNow, ShardOk
    <2> QED BY <2>1, <2>2, Zenon
  <1> QED BY <1>1, <1>2, <1>3, <1>4, <1>5, Zenon DEF ShardsOk

\* Keys are trusted no less while no node comes.
LEMMA TrustedSame ==
  ASSUME ShardsOk, NEW s \in Shards, NEW old \in Entries(s), NEW new \in Entries(s), old.key = new.key
  PROVE  new.trust >= old.trust
  <1>1. PICK q : q = lru[s] /\ q \in Seq(Fits(s)) /\ Distinct(q)
    BY Zenon DEF ShardsOk, ShardNow, ShardOk
  <1>2. old = new
    BY <1>1, Zenon DEF Entries, Distinct
  <1>3. new \in Node
    <2>1. new \in NodesOf(q)
      BY <1>1, Zenon DEF Entries, NodesOf
    <2>2. new \in Fits(s)
      BY <1>1, <2>1, ListIs, Zenon
    <2> QED BY <2>2, Zenon DEF Fits
  <1>4. new.trust \in Trusts
    BY <1>3 DEF Node
  <1>5. new.trust \in Nat
    BY <1>4, CacheConstants, Zenon
  <1> QED BY <1>2, <1>5

\* The shard's new list has no node that is new.
LEMMA TrustFewer ==
  ASSUME ShardsOk, NEW s \in Shards, NEW q, lru' = [lru EXCEPT ![s] = q], NodesOf(q) \subseteq NodesOf(lru[s])
  PROVE  TrustStep
  <1>1. lru'[s] = q /\ \A r \in Shards \ {s} : lru'[r] = lru[r]
    BY DEF ShardsOk
  <1>2. ASSUME NEW r \in Shards PROVE Entries(r)' \subseteq Entries(r)
    <2>1. NodesOf(lru'[r]) \subseteq NodesOf(lru[r])
      BY <1>1, Zenon
    <2> QED BY <2>1, Zenon DEF Entries, NodesOf
  <1> QED BY <1>2, TrustedSame, Zenon DEF TrustStep

\* No shard is changed.
LEMMA ShardsQuiet ==
  ASSUME ShardsOk, UNCHANGED <<lru, index, bytes, newer>>
  PROVE  ShardsOk' /\ TrustStep
  <1>1. ShardsOk'
    BY Zenon DEF ShardsOk, ShardNow, ShardOk
  <1>2. \A s \in Shards : Entries(s)' = Entries(s)
    BY Zenon DEF Entries
  <1> QED BY <1>1, <1>2, TrustedSame, Zenon DEF TrustStep

\* erase()
LEMMA ShardErased ==
  ASSUME FiniteFacts, ShardsOk, NEW s \in Shards, NEW k, Holds(s, k), erase(s, k), UNCHANGED newer
  PROVE  ShardsOk' /\ TrustStep
  <1>1. ShardNow(s) /\ newer' = [newer EXCEPT ![s] = newer[s]]
    BY Zenon DEF ShardsOk
  <1>2. ShardOk(s, Others(s, k), index[s] \ {k}, BytesWithout(s, k), newer[s])
    BY <1>1, ErasedOk, Zenon
  <1>3. /\ lru' = [lru EXCEPT ![s] = Others(s, k)] /\ index' = [index EXCEPT ![s] = index[s] \ {k}]
        /\ bytes' = [bytes EXCEPT ![s] = BytesWithout(s, k)]
    BY Zenon DEF erase, BytesWithout
  <1>4. ShardsOk'
    <2>1. ShardBecomes(s, Others(s, k), index[s] \ {k}, BytesWithout(s, k), newer[s])
      BY <1>1, <1>3, Zenon DEF ShardBecomes
    <2> QED BY <1>2, <2>1, ShardChanged, Zenon
  <1>5. PICK q : q = Others(s, k)
    BY Zenon
  <1>6. LeftOut(s, k, q)
    BY <1>1, <1>5, OthersIs, Zenon
  <1>7. NodesOf(q) \subseteq NodesOf(lru[s]) /\ lru' = [lru EXCEPT ![s] = q]
    BY <1>3, <1>5, <1>6, Zenon DEF LeftOut
  <1> QED BY <1>4, <1>7, TrustFewer, Zenon

\* A shard flushed.
LEMMA ShardCleared ==
  ASSUME FiniteFacts, ShardsOk, NEW s \in Shards, UNCHANGED newer, lru' = [lru EXCEPT ![s] = <<>>],
         index' = [index EXCEPT ![s] = {}], bytes' = [bytes EXCEPT ![s] = 0]
  PROVE  ShardsOk' /\ TrustStep
  <1>1. newer' = [newer EXCEPT ![s] = newer[s]]
    BY Zenon DEF ShardsOk
  <1>2. ShardOk(s, <<>>, {}, 0, newer[s])
    BY ShardEmpty, Zenon
  <1>3. NodesOf(<<>>) = {}
    BY DEF NodesOf
  <1>4. PICK q : q = <<>>
    BY Zenon
  <1>5. lru' = [lru EXCEPT ![s] = q] /\ NodesOf(q) \subseteq NodesOf(lru[s])
    BY <1>3, <1>4, Zenon
  <1>6. ShardBecomes(s, <<>>, {}, 0, newer[s])
    BY <1>1, Zenon DEF ShardBecomes
  <1>7. ShardsOk'
    BY <1>2, <1>6, ShardChanged, Zenon
  <1> QED BY <1>5, <1>7, TrustFewer, Zenon

\* lookup() found it.
LEMMA ShardUsed ==
  ASSUME FiniteFacts, ShardsOk, NEW s \in Shards, NEW k, Holds(s, k), UNCHANGED <<index, bytes>>,
         lru' = [lru EXCEPT ![s] = MoveToFront(s, k)], Used(s, k)
  PROVE  ShardsOk' /\ TrustStep
  <1>1. /\ ShardNow(s) /\ index' = [index EXCEPT ![s] = index[s]] /\ bytes' = [bytes EXCEPT ![s] = bytes[s]]
    BY Zenon DEF ShardsOk
  <1>2. newer' = [newer EXCEPT ![s] = UsedLast(newer[s], k, index[s])]
    BY Zenon DEF Used, UsedLast
  <1>3. PICK q : q = MoveToFront(s, k)
    BY Zenon
  <1>4. /\ ShardOk(s, q, index[s], bytes[s], UsedLast(newer[s], k, index[s]))
        /\ NodesOf(q) = NodesOf(lru[s])
    BY <1>1, <1>3, FrontOk, Zenon
  <1>5. lru' = [lru EXCEPT ![s] = q] /\ NodesOf(q) \subseteq NodesOf(lru[s])
    BY <1>3, <1>4, Zenon
  <1>6. ShardsOk'
    <2>1. PICK ix, b, nw : ix = index[s] /\ b = bytes[s] /\ nw = UsedLast(newer[s], k, index[s])
      BY Zenon
    <2>2. ShardOk(s, q, ix, b, nw) /\ ShardBecomes(s, q, ix, b, nw)
      BY <1>1, <1>2, <1>4, <1>5, <2>1, Zenon DEF ShardBecomes
    <2> QED BY <2>2, ShardChanged, Zenon
  <1> QED BY <1>5, <1>6, TrustFewer, Zenon

\* What holds once insert() wrote n into shard s.
WrittenAll(s, n) ==
  /\ ShardsOk' /\ \A r \in Shards \ {s} : lru'[r] = lru[r]
  /\ n \in Entries(s)'
  /\ \A o \in Entries(s)' : o = n \/ (o \in Entries(s) /\ o.key # n.key)
  /\ \A k \in index'[s] \ {n.key} :
       k \in index[s] /\ \A d \in index[s] \ index'[s] : <<k, d>> \in newer[s]
  /\ \A d \in index[s] \ index'[s] :
       (\A e \in (index[s] \ index'[s]) \ {d} : <<d, e>> \in newer[s]) =>
         BytesOf(Entries(s)') + NodeOf(s, d).bytes > shard_budget_

\* insert() writes n into shard s.
LEMMA ShardWritten ==
  ASSUME FiniteFacts, ShardsOk, NEW s \in Shards, NEW n \in Fits(s), n.bytes <= shard_budget_,
         Write(s, n), Used(s, n.key)
  PROVE  WrittenAll(s, n)
  <1>1. PICK f, size, kept, g, ix, b :
          /\ f = <<n>> \o Others(s, n.key) /\ size = BytesWithout(s, n.key) + n.bytes /\ kept = Evict(f, size)
          /\ g = SubSeq(f, 1, kept) /\ ix = {f[m].key : m \in 1..kept} /\ b = Left(f, size, kept)
    BY Zenon
  <1>2. Writing(s, n, f, size, kept)
    BY <1>1, Zenon DEF Writing
  <1>3. ShardNow(s)
    BY Zenon DEF ShardsOk
  <1>4. lru' = [lru EXCEPT ![s] = g] /\ index' = [index EXCEPT ![s] = ix] /\ bytes' = [bytes EXCEPT ![s] = b]
    BY <1>1, Zenon DEF Write
  <1>5. /\ lru'[s] = g /\ index'[s] = ix /\ \A r \in Shards \ {s} : lru'[r] = lru[r]
    BY <1>4 DEF ShardsOk
  <1>6. newer' = [newer EXCEPT ![s] = UsedLast(newer[s], n.key, ix)]
    BY <1>5, Zenon DEF Used, UsedLast
  <1>7. ShardsOk'
    <2>1. PICK nw : nw = UsedLast(newer[s], n.key, ix)
      BY Zenon
    <2>2. ShardOk(s, SubSeq(f, 1, kept), ix, Left(f, size, kept), UsedLast(newer[s], n.key, ix))
      <3>1. ix = {f[m].key : m \in 1..kept}
        BY <1>1, Zenon
      <3> QED BY <1>2, <1>3, <3>1, WrittenOk, Zenon
    <2>3. ShardOk(s, g, ix, b, nw) /\ ShardBecomes(s, g, ix, b, nw)
      <3>1. ShardOk(s, g, ix, b, nw)
        <4>1. g = SubSeq(f, 1, kept) /\ b = Left(f, size, kept)
          BY <1>1, Zenon
        <4> QED BY <2>1, <2>2, <4>1, Zenon
      <3> QED BY <1>4, <1>6, <2>1, <3>1, Zenon DEF ShardBecomes
    <2> QED BY <2>3, ShardChanged, Zenon
  <1>8. Entries(s)' = NodesOf(g) /\ Entries(s) = NodesOf(lru[s])
    BY <1>5, Zenon DEF Entries, NodesOf
  <1>9. WrittenWell(s, n, g, ix)
    <2>1. ix = {f[m].key : m \in 1..kept} /\ g = SubSeq(f, 1, kept)
      BY <1>1, Zenon
    <2> QED BY <1>2, <1>3, <2>1, WrittenEvicts, Zenon
  <1>10. /\ n \in Entries(s)'
         /\ \A o \in Entries(s)' : o = n \/ (o \in Entries(s) /\ o.key # n.key)
    BY <1>8, <1>9, Zenon DEF WrittenWell
  <1>11. \A k \in index'[s] \ {n.key} :
           k \in index[s] /\ \A d \in index[s] \ index'[s] : <<k, d>> \in newer[s]
    BY <1>5, <1>9, Zenon DEF WrittenWell
  <1>12. \A d \in index[s] \ index'[s] :
           (\A e \in (index[s] \ index'[s]) \ {d} : <<d, e>> \in newer[s]) =>
             BytesOf(Entries(s)') + NodeOf(s, d).bytes > shard_budget_
    BY <1>5, <1>8, <1>9, Zenon DEF WrittenWell
  <1> QED BY <1>5, <1>7, <1>10, <1>11, <1>12, Zenon DEF WrittenAll

\* A step in which no thread finishes an insert, or that leaves the lists alone.
LEMMA NothingWritten ==
  ASSUME lru' = lru \/ \A t \in Threads : op[t] # None /\ op[t].fn = "insert" => op'[t] = op[t]
  PROVE  LeastRecentStep
  <1>1. \A s \in Shards, t \in Threads : ~Writes(t, s)
    BY Zenon DEF Writes
  <1> QED BY <1>1, Zenon DEF LeastRecentStep

\* A thread's operation is changed.
LEMMA OpChanged ==
  ASSUME OpsOk, NEW t \in Threads, NEW o, op' = [op EXCEPT ![t] = o], UNCHANGED now, OpOk(o, now)
  PROVE  /\ OpsOk' /\ op'[t] = o /\ \A u \in Threads \ {t} : op'[u] = op[u]
  <1>1. /\ op' = [u \in Threads |-> op'[u]] /\ op'[t] = o /\ \A u \in Threads \ {t} : op'[u] = op[u]
    BY DEF OpsOk
  <1>2. \A u \in Threads : OpOk(op'[u], now')
    BY <1>1, Zenon DEF OpsOk
  <1> QED BY <1>1, <1>2, Zenon DEF OpsOk, OpOk

\* What it was served is changed.
LEMMA ServedChanged ==
  ASSUME AllServedOk, NEW t \in Threads, NEW v, served' = [served EXCEPT ![t] = v], ServedOk(v)
  PROVE  AllServedOk'
  <1>1. /\ served' = [u \in Threads |-> served'[u]] /\ served'[t] = v
        /\ \A u \in Threads \ {t} : served'[u] = served[u]
    BY DEF AllServedOk
  <1>2. \A u \in Threads : ServedOk(served'[u])
    BY <1>1, Zenon DEF AllServedOk
  <1> QED BY <1>1, <1>2, Zenon DEF AllServedOk, ServedOk

\* Or isn't.
LEMMA NothingServed ==
  ASSUME AllServedOk, UNCHANGED served
  PROVE  AllServedOk'
  BY Zenon DEF AllServedOk, ServedOk

\* An operation done.
LEMMA DoneOk ==
  ASSUME OpsOk, NEW t \in Threads, Done(t)
  PROVE  /\ OpsOk' /\ op'[t] = None /\ \A u \in Threads \ {t} : op'[u] = op[u]
  <1>1. op' = [op EXCEPT ![t] = None] /\ UNCHANGED now /\ OpOk(None, now)
    BY Zenon DEF Done, OpOk
  <1> QED BY <1>1, OpChanged, Zenon

\* What a step of the cache does: CacheInv holds after it, and what is said of it.
StepOk == CacheInv' /\ TrustStep /\ LeastRecentStep

\* Time passes.
LEMMA TickStep ==
  ASSUME CacheInv, Tick
  PROVE  StepOk
  <1>1. now \in 0..MaxTime /\ MaxTime \in Nat /\ now' = now + 1 /\ now < MaxTime
    BY CacheConstants DEF CacheInv, Tick
  <1>2. now' \in 0..MaxTime /\ 0..now \subseteq 0..now'
    BY <1>1
  <1>3. UNCHANGED <<lru, index, bytes, op, served, newer>>
    BY Zenon DEF Tick
  <1>4. ShardsOk' /\ TrustStep
    BY <1>3, ShardsQuiet, Zenon DEF CacheInv
  <1>5. OpsOk'
    <2>1. \A t \in Threads : OpOk(op[t], now')
      BY <1>2, Zenon DEF CacheInv, OpsOk, OpOk
    <2> QED BY <1>3, <2>1, Zenon DEF CacheInv, OpsOk, OpOk
  <1> QED BY <1>2, <1>3, <1>4, <1>5, NothingServed, NothingWritten, Zenon DEF CacheInv, StepOk

\* An operation is begun.
LEMMA BeginStep ==
  ASSUME CacheInv, NEW t \in Threads, NEW o, Begin(t, o), OpOk(o, now)
  PROVE  StepOk
  <1>1. /\ UNCHANGED <<now, lru, index, bytes, newer>>
        /\ op' = [op EXCEPT ![t] = o] /\ served' = [served EXCEPT ![t] = None]
    BY Zenon DEF Begin
  <1>2. ShardsOk' /\ TrustStep
    BY <1>1, ShardsQuiet, Zenon DEF CacheInv
  <1>3. OpsOk'
    BY <1>1, OpChanged, Zenon DEF CacheInv
  <1>4. AllServedOk'
    BY <1>1, ServedChanged, Zenon DEF CacheInv, ServedOk
  <1>5. now' \in 0..MaxTime
    BY <1>1, Zenon DEF CacheInv
  <1>6. LeastRecentStep
    BY <1>1, NothingWritten, Zenon
  <1> QED BY <1>2, <1>3, <1>4, <1>5, <1>6, Zenon DEF CacheInv, StepOk

\* The TTL kept is no more than max_ttl.
LEMMA EffectiveIs ==
  ASSUME NEW ttl \in Ttls
  PROVE  Effective(ttl) \in Nat /\ Effective(ttl) <= max_ttl
  <1>1. ttl \in Nat /\ min_ttl \in Nat /\ max_ttl \in Nat
    BY CacheConstants
  <1>2. PICK m : m = Max({ttl, min_ttl})
    BY Zenon
  <1>3. m \in Nat
    <2>1. ttl \in Int /\ min_ttl \in Int
      BY <1>1
    <2>2. m = IF ttl >= min_ttl THEN ttl ELSE min_ttl
      BY <1>2, <2>1, MaxMinTwo, Zenon
    <2> QED BY <1>1, <2>2
  <1>4. Effective(ttl) = IF m <= max_ttl THEN m ELSE max_ttl
    <2>1. m \in Int /\ max_ttl \in Int
      BY <1>1, <1>3
    <2> QED BY <1>2, <2>1, MaxMinTwo, Zenon DEF Effective
  <1> QED BY <1>1, <1>3, <1>4

\* lookup() begins.
LEMMA StartLookupStep ==
  ASSUME CacheInv, NEW t \in Threads, NEW k \in Keys, StartLookup(t, k)
  PROVE  StepOk
  <1>1. PICK o : o = [fn |-> "lookup", key |-> k, now |-> now]
    BY Zenon
  <1>2. o.fn = "lookup" /\ o.key = k /\ o.now = now /\ now \in 0..now
    BY <1>1, CacheConstants DEF CacheInv
  <1>3. OpOk(o, now)
    BY <1>2 DEF OpOk
  <1>4. Begin(t, o)
    BY <1>1, Zenon DEF StartLookup
  <1> QED BY <1>3, <1>4, BeginStep, Zenon

\* insert() begins.
LEMMA StartInsertStep ==
  ASSUME CacheInv, NEW t \in Threads, NEW k \in Keys, NEW trust \in Trusts, NEW ttl \in Ttls, NEW size \in Sizes,
         StartInsert(t, k, trust, ttl, size)
  PROVE  StepOk
  <1>1. PICK e : e = now + Effective(ttl) * TicksPerSecond
    BY Zenon
  <1>2. e \in Nat /\ e <= MaxTime + max_ttl * TicksPerSecond
    <2>1. PICK a : a = Effective(ttl) /\ a \in Nat /\ a <= max_ttl
      BY EffectiveIs, Zenon
    <2>2. now \in Nat /\ now <= MaxTime /\ MaxTime \in Nat /\ max_ttl \in Nat /\ TicksPerSecond \in Nat
      BY CacheConstants DEF CacheInv
    <2>3. PICK p, m : p = a * TicksPerSecond /\ m = max_ttl * TicksPerSecond /\ p \in Nat /\ m \in Nat /\ p <= m
      BY <2>1, <2>2, Factor, Zenon
    <2>4. e = now + p
      BY <1>1, <2>1, <2>3, Zenon
    <2>5. now + p \in Nat /\ now + p <= MaxTime + m
      BY <2>2, <2>3
    <2> QED BY <2>3, <2>4, <2>5, Zenon
  <1>3. PICK n : n = [key |-> k, trust |-> trust, bytes |-> size, expires_at |-> e]
    BY Zenon
  <1>4. n \in Node /\ n.key = k /\ n.expires_at = e
    BY <1>2, <1>3 DEF Node
  <1>5. n \in Fits(ShardOf[n.key])
    BY <1>2, <1>4, Zenon DEF Fits
  <1>6. PICK o : o = [fn |-> "insert", now |-> now, node |-> n]
    BY Zenon
  <1>7. o.fn = "insert" /\ o.node = n /\ o.now = now /\ now \in 0..now
    BY <1>6, CacheConstants DEF CacheInv
  <1>8. OpOk(o, now)
    <2>1. o.fn # "lookup"
      BY <1>7
    <2> QED BY <1>5, <1>7, <2>1, Zenon DEF OpOk
  <1>9. Begin(t, o)
    BY <1>1, <1>3, <1>6, Zenon DEF StartInsert
  <1> QED BY <1>8, <1>9, BeginStep, Zenon

\* flush() begins.
LEMMA StartFlushStep ==
  ASSUME CacheInv, NEW t \in Threads, StartFlush(t)
  PROVE  StepOk
  <1>1. PICK o : o = [fn |-> "flush", left |-> Shards]
    BY Zenon
  <1>2. o.fn = "flush" /\ o.left = Shards
    BY <1>1
  <1>3. OpOk(o, now)
    <2>1. o.fn # "lookup" /\ o.fn # "insert"
      BY <1>2
    <2> QED BY <1>1, <1>2, <2>1, Zenon DEF OpOk
  <1>4. Begin(t, o)
    BY <1>1, Zenon DEF StartFlush
  <1> QED BY <1>3, <1>4, BeginStep, Zenon

\* A TTL served doesn't outlast its entry.
LEMMA ServedNode ==
  ASSUME NEW e \in Nat, NEW at \in Nat, e > at
  PROVE  at + ((e - at) \div TicksPerSecond) * TicksPerSecond <= e
  <1>1. TicksPerSecond \in Nat \ {0} /\ e - at \in Nat
    BY CacheConstants
  <1>2. PICK d, p : d = (e - at) \div TicksPerSecond /\ p = TicksPerSecond * d
    BY Zenon
  <1>3. d \in Nat /\ p <= e - at
    BY <1>1, <1>2, DivIs, Zenon
  <1>4. p \in Nat /\ d * TicksPerSecond = p
    BY <1>1, <1>2, <1>3
  <1>5. at + p <= e
    BY <1>1, <1>3, <1>4
  <1> QED BY <1>2, <1>4, <1>5, Zenon

\* lookup(), its shard locked.
LEMMA LookupStep ==
  ASSUME FiniteFacts, CacheInv, NEW t \in Threads, lookup(t)
  PROVE  StepOk
  <1>1. PICK o, k, s : o = op[t] /\ k = o.key /\ s = ShardOf[k]
    BY Zenon
  <1>2. o # None /\ o.fn = "lookup" /\ UNCHANGED <<index, bytes>> /\ Done(t)
    BY <1>1, Zenon DEF lookup
  <1>3. k \in Keys /\ o.now \in 0..now
    BY <1>1, <1>2, Zenon DEF CacheInv, OpsOk, OpOk
  <1>4. s \in Shards
    BY <1>1, <1>3, CacheConstants
  <1>5. OpsOk' /\ op'[t] = None /\ \A u \in Threads \ {t} : op'[u] = op[u]
    BY <1>2, DoneOk, Zenon DEF CacheInv
  <1>6. now' \in 0..MaxTime
    BY <1>2, Zenon DEF Done, CacheInv
  <1>7. LeastRecentStep
    <2>1. o.fn # "insert"
      BY <1>2
    <2>2. \A u \in Threads : op[u] # None /\ op[u].fn = "insert" => op'[u] = op[u]
      BY <1>1, <1>5, <2>1, Zenon
    <2> QED BY <2>2, NothingWritten, Zenon
  <1>8. ShardsOk' /\ TrustStep /\ AllServedOk'
    <2>1. CASE Holds(s, k) /\ Unexpired(NodeOf(s, k), o.now)
      <3>1. PICK n, at : n = NodeOf(s, k) /\ at = o.now
        BY Zenon
      <3>2. /\ served' = [served EXCEPT ![t] =
                 [node |-> n, at |-> at, ttl |-> (n.expires_at - at) \div TicksPerSecond]]
            /\ lru' = [lru EXCEPT ![s] = MoveToFront(s, k)] /\ Used(s, k)
        BY <1>1, <2>1, <3>1, Zenon DEF lookup
      <3>3. ShardsOk' /\ TrustStep
        <4>1. Holds(s, k)
          BY <2>1, Zenon
        <4> QED BY <1>2, <1>4, <3>2, <4>1, ShardUsed, Zenon DEF CacheInv
      <3>4. n.expires_at \in Nat /\ at \in Nat /\ n.expires_at > at
        <4>1. ShardNow(s)
          BY <1>4, Zenon DEF CacheInv, ShardsOk
        <4>2. NodeOf(s, k) \in Fits(s)
          BY <2>1, <4>1, FoundIs, Zenon
        <4>3. n \in Node /\ n.expires_at > at
          BY <2>1, <3>1, <4>2, Zenon DEF Fits, Unexpired
        <4> QED BY <1>3, <3>1, <4>3 DEF Node
      <3>5. PICK v : v = [node |-> n, at |-> at, ttl |-> (n.expires_at - at) \div TicksPerSecond]
        BY Zenon
      <3>6. v.node = n /\ v.at = at /\ v.ttl = (n.expires_at - at) \div TicksPerSecond
        BY <3>5
      <3>7. at < n.expires_at
        BY <3>4
      <3>8. at + ((n.expires_at - at) \div TicksPerSecond) * TicksPerSecond <= n.expires_at
        BY <3>4, ServedNode, Zenon
      <3>9. ServedOk(v)
        BY <3>6, <3>7, <3>8, Zenon DEF ServedOk
      <3>10. AllServedOk'
        BY <3>2, <3>5, <3>9, ServedChanged, Zenon DEF CacheInv
      <3> QED BY <3>3, <3>10, Zenon
    <2>2. CASE ~(Holds(s, k) /\ Unexpired(NodeOf(s, k), o.now))
      <3>1. UNCHANGED <<served, lru, newer>>
        BY <1>1, <2>2, Zenon DEF lookup
      <3> QED BY <1>2, <3>1, ShardsQuiet, NothingServed, Zenon DEF CacheInv
    <2> QED BY <2>1, <2>2, Zenon
  <1> QED BY <1>5, <1>6, <1>7, <1>8, Zenon DEF CacheInv, StepOk

\* evict()
LEMMA EvictStep ==
  ASSUME FiniteFacts, CacheInv, NEW t \in Threads, NEW k \in Keys, evict(t, k)
  PROVE  StepOk
  <1>1. PICK s : s = ShardOf[k]
    BY Zenon
  <1>2. UNCHANGED <<now, op, served, newer>>
    BY Zenon DEF evict
  <1>3. s \in Shards
    BY <1>1, CacheConstants
  <1>4. ShardsOk' /\ TrustStep
    <2>1. CASE Holds(s, k)
      <3>1. erase(s, k)
        BY <1>1, <2>1, Zenon DEF evict
      <3> QED BY <1>2, <1>3, <2>1, <3>1, ShardErased, Zenon DEF CacheInv
    <2>2. CASE ~Holds(s, k)
      <3>1. UNCHANGED <<lru, index, bytes>>
        BY <1>1, <2>2, Zenon DEF evict
      <3> QED BY <1>2, <3>1, ShardsQuiet, Zenon DEF CacheInv
    <2> QED BY <2>1, <2>2, Zenon
  <1>5. LeastRecentStep
    BY <1>2, NothingWritten, Zenon
  <1>6. now' \in 0..MaxTime /\ OpsOk'
    BY <1>2, Zenon DEF CacheInv, OpsOk, OpOk
  <1>7. AllServedOk'
    BY <1>2, NothingServed, Zenon DEF CacheInv
  <1> QED BY <1>4, <1>5, <1>6, <1>7, Zenon DEF CacheInv, StepOk

\* flush(), one of its shards locked.
LEMMA FlushStep ==
  ASSUME FiniteFacts, CacheInv, NEW t \in Threads, NEW s \in Shards, flush(t, s)
  PROVE  StepOk
  <1>1. op[t] # None /\ op[t].fn = "flush"
    BY Zenon DEF flush
  <1>2. PICK p : p = IF op[t].left = {s} THEN None ELSE [fn |-> "flush", left |-> op[t].left \ {s}]
    BY Zenon
  <1>3. /\ UNCHANGED <<now, served, newer>> /\ lru' = [lru EXCEPT ![s] = <<>>]
        /\ index' = [index EXCEPT ![s] = {}] /\ bytes' = [bytes EXCEPT ![s] = 0]
    BY Zenon DEF flush
  <1>4. op' = [op EXCEPT ![t] = p]
    BY <1>2, Zenon DEF flush
  <1>5. OpOk(p, now)
    <2>1. p = None \/ p.fn = "flush"
      BY <1>2
    <2>2. p = None \/ (p.fn # "lookup" /\ p.fn # "insert")
      BY <2>1
    <2> QED BY <2>2, Zenon DEF OpOk
  <1>6. OpsOk' /\ op'[t] = p /\ \A u \in Threads \ {t} : op'[u] = op[u]
    BY <1>3, <1>4, <1>5, OpChanged, Zenon DEF CacheInv
  <1>7. ShardsOk' /\ TrustStep
    BY <1>3, ShardCleared, Zenon DEF CacheInv
  <1>8. LeastRecentStep
    <2>1. op[t].fn # "insert"
      BY <1>1
    <2>2. \A u \in Threads : op[u] # None /\ op[u].fn = "insert" => op'[u] = op[u]
      BY <1>6, <2>1, Zenon
    <2> QED BY <2>2, NothingWritten, Zenon
  <1>9. now' \in 0..MaxTime /\ AllServedOk'
    BY <1>3, NothingServed, Zenon DEF CacheInv
  <1> QED BY <1>6, <1>7, <1>8, <1>9, Zenon DEF CacheInv, StepOk

\* insert(), its shard locked: it writes the node, ...
LEMMA WriteStep ==
  ASSUME FiniteFacts, CacheInv, NEW t \in Threads, NEW s \in Shards, NEW n \in Fits(s),
         n = op[t].node, op[t].now \in 0..now, op'[t] = None, \A u \in Threads \ {t} : op'[u] = op[u],
         Holds(s, n.key) => ~MoreTrusted(NodeOf(s, n.key), n, op[t].now),
         n.bytes <= shard_budget_, Write(s, n), Used(s, n.key)
  PROVE  ShardsOk' /\ TrustStep /\ LeastRecentStep
  <1>1. ShardsOk /\ ShardNow(s)
    BY Zenon DEF CacheInv, ShardsOk
  <1>2. WrittenAll(s, n)
    BY <1>1, ShardWritten, Zenon
  <1>3. TrustStep
    <2> SUFFICES ASSUME NEW r \in Shards, NEW old \in Entries(r), NEW new \in Entries(r)',
                        old.key = new.key, old.expires_at > now
                 PROVE  new.trust >= old.trust
      BY Zenon DEF TrustStep
    <2>1. CASE new \in Entries(r)
      BY <1>1, <2>1, TrustedSame, Zenon
    <2>2. CASE new \notin Entries(r)
      <3>1. r = s
        <4> SUFFICES ASSUME r # s PROVE FALSE
          BY Zenon
        <4>1. lru'[r] = lru[r]
          BY <1>2, Zenon DEF WrittenAll
        <4> QED BY <2>2, <4>1, Zenon DEF Entries
      <3>2. new = n
        BY <1>2, <2>2, <3>1, Zenon DEF WrittenAll
      <3>3. PICK q : q = lru[s] /\ q \in Seq(Fits(s)) /\ index[s] = KeysOf(q)
        BY <1>1, Zenon DEF ShardNow, ShardOk
      <3>4. old \in NodesOf(q)
        BY <3>1, <3>3, Zenon DEF Entries, NodesOf
      <3>5. Holds(s, n.key)
        <4>1. old.key \in KeysOf(q)
          BY <3>4, Zenon DEF NodesOf, KeysOf
        <4> QED BY <3>2, <3>3, <4>1, Zenon DEF Holds
      <3>6. old = NodeOf(s, n.key)
        <4>1. \A x \in NodesOf(lru[s]) : x.key = n.key => x = NodeOf(s, n.key)
          BY <1>1, <3>5, FoundIs, Zenon
        <4> QED BY <3>2, <3>3, <3>4, <4>1, Zenon
      <3>7. ~(old.expires_at > op[t].now /\ old.trust > n.trust)
        BY <3>5, <3>6, Zenon DEF MoreTrusted
      <3>8. old \in Node /\ n \in Node
        <4>1. old \in Fits(s)
          BY <3>3, <3>4, ListIs, Zenon
        <4> QED BY <4>1, Zenon DEF Fits
      <3>9. old.expires_at \in Nat /\ old.trust \in Trusts /\ n.trust \in Trusts
        BY <3>8 DEF Node
      <3>10. old.trust \in Nat /\ n.trust \in Nat
        BY <3>9, CacheConstants, Zenon
      <3>11. old.expires_at > op[t].now
        <4>1. now \in 0..MaxTime
          BY Zenon DEF CacheInv
        <4> QED BY <3>9, <4>1
      <3> QED BY <3>2, <3>7, <3>10, <3>11
    <2> QED BY <2>1, <2>2, Zenon
  <1>4. LeastRecentStep
    <2> SUFFICES ASSUME NEW r \in Shards, NEW u \in Threads, Writes(u, r)
                 PROVE  /\ op[u].node \in Entries(r)'
                        /\ \A k \in index'[r] \ {op[u].node.key} :
                             k \in index[r] /\ \A d \in index[r] \ index'[r] : <<k, d>> \in newer[r]
                        /\ \A d \in index[r] \ index'[r] :
                             (\A e \in (index[r] \ index'[r]) \ {d} : <<d, e>> \in newer[r]) =>
                               BytesOf(Entries(r)') + NodeOf(r, d).bytes > shard_budget_
      BY Zenon DEF LeastRecentStep
    <2>1. u = t
      BY Zenon DEF Writes
    <2>2. r = s
      BY <1>2, Zenon DEF Writes, WrittenAll
    <2> QED BY <1>2, <2>1, <2>2, Zenon DEF WrittenAll
  <1> QED BY <1>2, <1>3, <1>4, Zenon DEF WrittenAll

\* ... or it leaves it, or erases what is too old for it.
LEMMA InsertStep ==
  ASSUME FiniteFacts, CacheInv, NEW t \in Threads, insert(t)
  PROVE  StepOk
  <1>1. PICK o, n, s : o = op[t] /\ n = o.node /\ s = ShardOf[n.key]
    BY Zenon
  <1>2. o # None /\ o.fn = "insert" /\ UNCHANGED served /\ Done(t)
    BY <1>1, Zenon DEF insert
  <1>3. n \in Fits(s) /\ o.now \in 0..now
    BY <1>1, <1>2, Zenon DEF CacheInv, OpsOk, OpOk
  <1>4. s \in Shards
    <2>1. n.key \in Keys
      BY <1>3 DEF Fits, Node
    <2> QED BY <1>1, <2>1, CacheConstants
  <1>5. OpsOk' /\ op'[t] = None /\ \A u \in Threads \ {t} : op'[u] = op[u]
    BY <1>2, DoneOk, Zenon DEF CacheInv
  <1>6. now' \in 0..MaxTime /\ AllServedOk'
    BY <1>2, NothingServed, Zenon DEF Done, CacheInv
  <1>7. ASSUME UNCHANGED <<lru, index, bytes, newer>> PROVE ShardsOk' /\ TrustStep /\ LeastRecentStep
    BY <1>7, ShardsQuiet, NothingWritten, Zenon DEF CacheInv
  <1>8. CASE Holds(s, n.key) /\ MoreTrusted(NodeOf(s, n.key), n, o.now)
    <2>1. UNCHANGED <<lru, index, bytes, newer>>
      BY <1>1, <1>8, Zenon DEF insert
    <2> QED BY <1>5, <1>6, <1>7, <2>1, Zenon DEF CacheInv, StepOk
  <1>9. CASE ~(Holds(s, n.key) /\ MoreTrusted(NodeOf(s, n.key), n, o.now)) /\ n.bytes <= shard_budget_
    <2>1. Write(s, n) /\ Used(s, n.key)
      BY <1>1, <1>9, Zenon DEF insert
    <2>2. /\ n = op[t].node /\ op[t].now \in 0..now /\ n.bytes <= shard_budget_
          /\ Holds(s, n.key) => ~MoreTrusted(NodeOf(s, n.key), n, op[t].now)
      BY <1>1, <1>3, <1>9, Zenon
    <2>3. ShardsOk' /\ TrustStep /\ LeastRecentStep
      BY <1>3, <1>4, <1>5, <2>1, <2>2, WriteStep, Zenon
    <2> QED BY <1>5, <1>6, <2>3, Zenon DEF CacheInv, StepOk
  <1>10. CASE ~(Holds(s, n.key) /\ MoreTrusted(NodeOf(s, n.key), n, o.now)) /\ ~(n.bytes <= shard_budget_)
    <2>1. CASE Holds(s, n.key)
      <3>1. erase(s, n.key) /\ UNCHANGED newer
        BY <1>1, <1>10, <2>1, Zenon DEF insert
      <3>2. ShardsOk' /\ TrustStep
        BY <1>4, <2>1, <3>1, ShardErased, Zenon DEF CacheInv
      <3>3. LeastRecentStep
        <4>1. \A r \in Shards, u \in Threads : ~Writes(u, r)
          BY <1>1, <1>5, <1>10, Zenon DEF Writes
        <4> QED BY <4>1, Zenon DEF LeastRecentStep
      <3> QED BY <1>5, <1>6, <3>2, <3>3, Zenon DEF CacheInv, StepOk
    <2>2. CASE ~Holds(s, n.key)
      <3>1. UNCHANGED <<lru, index, bytes, newer>>
        BY <1>1, <1>10, <2>2, Zenon DEF insert
      <3> QED BY <1>5, <1>6, <1>7, <3>1, Zenon DEF CacheInv, StepOk
    <2> QED BY <2>1, <2>2, Zenon
  <1> QED BY <1>8, <1>9, <1>10, Zenon

\* At the start.
LEMMA CacheInitial ==
  ASSUME FiniteFacts, Init
  PROVE  CacheInv
  <1>1. now \in 0..MaxTime
    BY CacheConstants DEF Init
  <1>2. ASSUME NEW s \in Shards PROVE ShardNow(s)
    <2>1. lru[s] = <<>> /\ index[s] = {} /\ bytes[s] = 0
      BY DEF Init
    <2> QED BY <2>1, ShardEmpty, Zenon DEF ShardNow
  <1>3. ShardsOk
    BY <1>2, Zenon DEF ShardsOk, Init
  <1>4. OpsOk
    BY Zenon DEF OpsOk, OpOk, Init
  <1>5. AllServedOk
    BY Zenon DEF AllServedOk, ServedOk, Init
  <1> QED BY <1>1, <1>3, <1>4, <1>5, Zenon DEF CacheInv

\* Every step.
LEMMA CacheStep ==
  ASSUME FiniteFacts, CacheInv, Next
  PROVE  StepOk
  BY TickStep, StartLookupStep, EvictStep, StartInsertStep, LookupStep, InsertStep, StartFlushStep, FlushStep, Zenon
     DEF Next

\* The invariant says what is to be shown.
LEMMA CacheInvImplies ==
  ASSUME FiniteFacts, CacheInv
  PROVE  ShardConsistent /\ ServedFresh
  <1>1. ServedFresh
    BY Zenon DEF CacheInv, AllServedOk, ServedOk, ServedFresh
  <1>2. ASSUME NEW s \in Shards
        PROVE  /\ \A n \in Entries(s) : n \in Node /\ n.expires_at <= MaxTime + max_ttl * TicksPerSecond
               /\ index[s] = {n.key : n \in Entries(s)}
               /\ \A k \in index[s] : ShardOf[k] = s
               /\ Cardinality(index[s]) = Len(lru[s])
               /\ bytes[s] = BytesOf(Entries(s))
               /\ bytes[s] <= shard_budget_
    <2>1. PICK q : /\ q = lru[s] /\ q \in Seq(Fits(s)) /\ Distinct(q) /\ index[s] = KeysOf(q)
                   /\ bytes[s] = BytesOf(NodesOf(q)) /\ bytes[s] <= shard_budget_
      BY Zenon DEF CacheInv, ShardsOk, ShardNow, ShardOk
    <2>2. Entries(s) = NodesOf(q)
      BY <2>1, Zenon DEF Entries, NodesOf
    <2>3. NodesOf(q) \subseteq Fits(s)
      BY <2>1, ListIs, Zenon
    <2>4. \A n \in NodesOf(q) : n \in Node /\ n.expires_at <= MaxTime + max_ttl * TicksPerSecond /\ ShardOf[n.key] = s
      BY <2>3, Zenon DEF Fits
    <2>5. KeysOf(q) = {n.key : n \in NodesOf(q)}
      BY Zenon DEF KeysOf, NodesOf
    <2>6. Cardinality(KeysOf(q)) = Len(q)
      BY <2>1, ListCounts, Zenon
    <2>7. \A k \in KeysOf(q) : ShardOf[k] = s
      BY <2>4, <2>5, Zenon
    <2> QED BY <2>1, <2>2, <2>4, <2>5, <2>6, <2>7, Zenon
  <1> QED BY <1>1, <1>2, Zenon DEF ShardConsistent

\* The invariant is one, and what is said of every step follows.
LEMMA CacheKept ==
  ASSUME FiniteFacts
  PROVE  /\ Init => CacheInv
         /\ CacheInv /\ [Next]_vars => CacheInv'
         /\ CacheInv => ShardConsistent /\ ServedFresh
         /\ CacheInv /\ [Next]_vars => [TrustStep]_vars /\ [LeastRecentStep]_vars
  <1>1. ASSUME CacheInv, UNCHANGED vars PROVE CacheInv'
    <2>1. UNCHANGED <<now, lru, index, bytes, op, served, newer>>
      BY <1>1, Zenon DEF vars
    <2>2. ShardsOk' /\ AllServedOk'
      BY <1>1, <2>1, ShardsQuiet, NothingServed, Zenon DEF CacheInv
    <2> QED BY <1>1, <2>1, <2>2, Zenon DEF CacheInv, OpsOk, OpOk
  <1> QED BY <1>1, CacheInitial, CacheStep, CacheInvImplies, Zenon DEF StepOk

----------------------------------------------------------------------------
(* The facts about finite sets *)

INSTANCE FiniteSetTheorems

\* The facts the lemmas above assume.
LEMMA FiniteFactsHold == FiniteFacts
  <1>1. \A S : IsFiniteSet(S) => Cardinality(S) \in Nat
    BY FS_CardinalityType, Zenon
  <1>2. IsFiniteSet({}) /\ Cardinality({}) = 0
    BY FS_EmptySet, Zenon
  <1>3. \A x : IsFiniteSet({x}) /\ Cardinality({x}) = 1
    BY FS_Singleton, Zenon
  <1>4. \A S, T : IsFiniteSet(S) /\ T \subseteq S => IsFiniteSet(T)
    BY FS_Subset, Zenon
  <1>5. \A S, T : IsFiniteSet(S) /\ IsFiniteSet(T) =>
          /\ IsFiniteSet(S \cup T)
          /\ Cardinality(S \cup T) = Cardinality(S) + Cardinality(T) - Cardinality(S \cap T)
    BY FS_Union, Zenon
  <1>6. ASSUME NEW n \in Nat PROVE IsFiniteSet(1..n) /\ Cardinality(1..n) = n
    <2>1. IsFiniteSet(1..n) /\ Cardinality(1..n) = IF 1 > n THEN 0 ELSE n - 1 + 1
      BY FS_Interval
    <2> QED BY <2>1
  <1>7. ASSUME NEW x, NEW n \in Nat PROVE IsFiniteSet({x} \X (1..n)) /\ Cardinality({x} \X (1..n)) = n
    <2>1. IsFiniteSet({x}) /\ Cardinality({x}) = 1 /\ IsFiniteSet(1..n) /\ Cardinality(1..n) = n
      BY <1>3, <1>6, Zenon
    <2>2. /\ IsFiniteSet({x} \X (1..n))
          /\ Cardinality({x} \X (1..n)) = Cardinality({x}) * Cardinality(1..n)
      BY <2>1, FS_Product, Zenon
    <2> QED BY <2>1, <2>2
  <1>8. ASSUME NEW S, NEW T, NEW f, IsFiniteSet(T),
               \A p \in S : f[p] \in T, \A p, q \in S : f[p] = f[q] => p = q
        PROVE  IsFiniteSet(S) /\ Cardinality(S) <= Cardinality(T)
    <2>1. [p \in S |-> f[p]] \in Injection(S, T)
      BY <1>8 DEF Injection, IsInjective
    <2> QED BY <1>8, <2>1, FS_Injection, Zenon
  <1>9. ASSUME NEW N, IsFiniteSet(N), \A n \in N : n.bytes \in Nat PROVE IsFiniteSet(Bytes(N))
    <2> DEFINE S == {{n} \X (1..n.bytes) : n \in N}
               f == [n \in N |-> {n} \X (1..n.bytes)]
    <2>1. f \in Surjection(N, S)
      BY Zenon DEF Surjection
    <2>2. IsFiniteSet(S)
      BY <1>9, <2>1, FS_Surjection, Zenon
    <2>3. ASSUME NEW T \in S PROVE IsFiniteSet(T)
      <3>1. PICK n \in N : T = {n} \X (1..n.bytes)
        BY Zenon
      <3>2. n.bytes \in Nat
        BY <1>9, Zenon
      <3> QED BY <1>7, <3>1, <3>2, Zenon
    <2> HIDE DEF S
    <2>4. IsFiniteSet(UNION S)
      BY <2>2, <2>3, FS_UNION, Zenon
    <2> QED BY <2>4, Zenon DEF S, Bytes
  <1>10. ASSUME NEW n \in Nat, NEW S \in SUBSET (0..n), S # {} PROVE \E x \in S : \A y \in S : x >= y
    <2> DEFINE T == {n - m : m \in S}
    <2>0. \A m \in S : m \in Int /\ n - m \in Nat
      BY <1>10
    <2>1. T \subseteq Nat /\ T # {}
      BY <1>10, <2>0, Zenon
    <2>2. PICK z \in T : \A y \in T : z <= y
      BY <2>1, NatMin, Zenon
    <2>3. PICK x \in S : z = n - x
      BY Zenon
    <2>4. ASSUME NEW y \in S PROVE x >= y
      <3>1. n - y \in T
        BY Zenon
      <3> HIDE DEF T
      <3>2. z <= n - y
        BY <2>2, <3>1, Zenon
      <3> QED BY <2>0, <2>3, <3>2
    <2> QED BY <2>4, Zenon
  <1> QED BY <1>1, <1>2, <1>3, <1>4, <1>5, <1>6, <1>7, <1>8, <1>9, <1>10, Zenon DEF FiniteFacts

----------------------------------------------------------------------------
(* What is proved of the cache *)

\* Whatever threads, shards, keys, sizes and budget there are, and however lookup(),
\* insert(), evict() and flush() interleave: a shard's list, index and byte count
\* agree, and the shard keeps to its share of max_memory_bytes.
THEOREM CacheShardConsistent == Spec => []ShardConsistent
  <1>1. /\ Init => CacheInv
        /\ CacheInv /\ [Next]_vars => CacheInv'
        /\ CacheInv => ShardConsistent
    BY FiniteFactsHold, CacheKept, Zenon
  <1> QED BY <1>1, PTL DEF Spec

\* lookup() serves no expired entry and no TTL longer than what is left of it.
THEOREM CacheServedFresh == Spec => []ServedFresh
  <1>1. /\ Init => CacheInv
        /\ CacheInv /\ [Next]_vars => CacheInv'
        /\ CacheInv => ServedFresh
    BY FiniteFactsHold, CacheKept, Zenon
  <1> QED BY <1>1, PTL DEF Spec

\* insert() never replaces live data by less trusted data, though it judges by a clock
\* it read before it had the lock.
THEOREM CacheTrustKept == Spec => TrustKept
  <1>1. /\ Init => CacheInv
        /\ CacheInv /\ [Next]_vars => CacheInv'
        /\ CacheInv /\ [Next]_vars => [TrustStep]_vars
    BY FiniteFactsHold, CacheKept, Zenon
  <1> QED BY <1>1, PTL DEF Spec, TrustKept, TrustStep

\* insert() evicts the least recently used entries, and no more than it must.
THEOREM CacheEvictsLeastRecent == Spec => EvictsLeastRecent
  <1>1. /\ Init => CacheInv
        /\ CacheInv /\ [Next]_vars => CacheInv'
        /\ CacheInv /\ [Next]_vars => [LeastRecentStep]_vars
    BY FiniteFactsHold, CacheKept, Zenon
  <1> QED BY <1>1, PTL DEF Spec, EvictsLeastRecent, LeastRecentStep
=============================================================================

----------------------------- MODULE MCResolver -----------------------------
(* A small name space: the root; the zone corp with the name www in it; and dns1, *)
(* the name of corp's name server, which lies outside corp.                       *)
EXTENDS Resolver, TLC

CONSTANTS www, corp, dns1, root, s1, s2

MCNames == {root, corp, www, dns1}
MCAbove == root :> {root} @@ corp :> {root, corp} @@ www :> {root, corp, www} @@ dns1 :> {root, dns1}
MCTypes == {"A", "NS", "CNAME", "SOA", "NX"}
MCAddresses == {s1, s2}
MCQueries == [server : MCAddresses, tcp : BOOLEAN, x20 : BOOLEAN, qname : MCNames, qtype : MCTypes]
MCNoStubs == [x \in {} |-> {}]
MCStubs == dns1 :> {s2}
MCRootNs == {dns1}
MCRootServers == {s1}

Ask(name, type) == [qname |-> name, qtype |-> type, qclass |-> "IN"]
Rec(name, type, data) == [name |-> name, type |-> type, data |-> data]
Msg(aa, rcode, ans, auth, add) ==
  [tc |-> FALSE, aa |-> aa, rcode |-> rcode, answers |-> ans, authority |-> auth, additional |-> add]

AnswerW == Msg(TRUE, "NoError", {Rec(www, "A", s1)}, {}, {})
AnswerN == Msg(TRUE, "NoError", {Rec(dns1, "A", s2)}, {}, {})
AliasWtoN == Msg(TRUE, "NoError", {Rec(www, "CNAME", dns1)}, {}, {})
AliasAndTarget == Msg(TRUE, "NoError", {Rec(www, "CNAME", dns1), Rec(dns1, "A", s2)}, {}, {})
AliasNtoW == Msg(TRUE, "NoError", {Rec(dns1, "CNAME", www)}, {}, {})
AliasBoth == Msg(TRUE, "NoError", {Rec(www, "CNAME", dns1), Rec(dns1, "CNAME", www)}, {}, {})
Glueless == Msg(FALSE, "NoError", {}, {Rec(corp, "NS", dns1)}, {})
GluedReferral == Msg(FALSE, "NoError", {}, {Rec(corp, "NS", dns1)}, {Rec(dns1, "A", s2)})
UpReferral == Msg(FALSE, "NoError", {}, {Rec(root, "NS", dns1)}, {Rec(dns1, "A", s2)})
Denied == Msg(TRUE, "NXDomain", {}, {Rec(root, "SOA", root)}, {})
NoData == Msg(TRUE, "NoError", {}, {Rec(corp, "SOA", corp)}, {})
BareNoData == Msg(TRUE, "NoError", {}, {}, {})
Lame == Msg(FALSE, "NoError", {}, {}, {})
Broken == Msg(FALSE, "ServFail", {}, {}, {})
Truncated == [Lame EXCEPT !.tc = TRUE]
Priming == Msg(TRUE, "NoError", {Rec(root, "NS", dns1)}, {}, {Rec(dns1, "A", s2)})

----------------------------------------------------------------------------
(* One client walks the tree: referrals, glueless servers, aliases, denials *)
WalkQuestions == {Ask(www, "A"), Ask(dns1, "A"), Ask(root, "NS"), [Ask(www, "A") EXCEPT !.qclass = "CH"]}
WalkTasks == 1..3
WalkMessages == {AnswerW, AnswerN, AliasAndTarget, AliasNtoW, Glueless, GluedReferral, UpReferral,
                 Denied, NoData, BareNoData, Lame, Priming}

(* Two servers, and a stub zone an alias and a name server's name lead into: 0x20, *)
(* forged replies, truncation, retries                                             *)
WireQuestions == {Ask(www, "A"), Ask(dns1, "A")}
WireTasks == 1..2
WireMessages == {AliasWtoN, AliasNtoW, AnswerN, Glueless, Broken, Truncated}

(* Aliases of aliases *)
AliasMessages == {AliasWtoN, AliasNtoW, AliasBoth, AnswerN}
=============================================================================

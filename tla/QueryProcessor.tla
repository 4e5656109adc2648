--------------------------- MODULE QueryProcessor ---------------------------
(***************************************************************************)
(* The way of a query through core/server/query_processor.cpp: access      *)
(* control, rate limit, sanity checks and lists, then resolution, and when *)
(* that ends, the CNAME chain and rebinding checks on its answer.  The     *)
(* lists may be replaced by a reload (module Blocklists) between the two   *)
(* halves.                                                                 *)
(*                                                                         *)
(* An answer is its CNAME records, as the alias of each name that has one, *)
(* and which kinds of address it holds.  Queries in flight share nothing   *)
(* here but the lists, so one is followed at a time.                       *)
(***************************************************************************)
EXTENDS Blocklists, SequencesExt

CONSTANTS
  Names, NoName,
  Lists,              \* what lookup() says of each name, with which versions of the files
  Answers,            \* what resolution may bring
  ExemptNames,        \* names the rebinding filter leaves alone
  check_cname_chain,  \* ListsConfig::check_cname_chain
  DenyActions         \* {"Refuse"}, {"Drop"}, or both for ACL and rate limit each

ASSUME ProcessorConstants ==
  /\ NoName \notin Names /\ ExemptNames \subseteq Names
  /\ Lists \in [[Files -> 1..MaxVersion] -> [Names -> {"block", "allow", "no"}]]
  /\ Answers \subseteq
       [alias : [Names -> Names \cup {NoName}], addresses : SUBSET {"public", "private"}]
  /\ check_cname_chain \in BOOLEAN /\ DenyActions \subseteq {"Refuse", "Drop"}

NoRecords == [alias |-> [n \in Names |-> NoName], addresses |-> {}]

VARIABLES
  query,      \* the query: where it is, and what the resolver's callback keeps
  reply       \* what went out in the last step: rcode or action, and records

vars == <<listsVars, query, reply>>

Idle == [at |-> "idle", name |-> NoName, check_chain |-> FALSE, udp |-> FALSE, asked |-> "no"]
Nothing == [kind |-> "nothing", records |-> NoRecords]

Init == ListsInit /\ query = Idle /\ reply = Nothing

\* Blocklists::lookup(), and trie().lookup()
lookup(name) == Lists[trie_][name]

truncated(r) == [r EXCEPT !.records = NoRecords]

\* What goes out: over UDP the response rate limiter may drop or truncate it.
Respond(r, udp) ==
  \/ reply' = r
  \/ udp /\ reply' = Nothing
  \/ udp /\ reply' = truncated(r)

Denied(udp) ==
  \E action \in DenyActions :
    IF action = "Refuse" THEN Respond([kind |-> "REFUSED", records |-> NoRecords], udp)
                         ELSE reply' = Nothing

\* The answer to a query with a reject_reason().
Rejected == [kind |-> "rejected", records |-> NoRecords]

BlockedAnswer == [kind |-> "blocked", records |-> NoRecords]

CheckChain(match) == check_cname_chain /\ match = "no"

Blocks(match) == match = "block"

\* handle(), up to resolve(): the client may be outside the ACL or over its rate,
\* and the query one that can't be resolved.
handle(name, udp) ==
  /\ query = Idle
  /\ \/ Denied(udp) /\ UNCHANGED query
     \/ Respond(Rejected, udp) /\ UNCHANGED query
     \/ Blocks(lookup(name)) /\ Respond(BlockedAnswer, udp) /\ UNCHANGED query
     \/ /\ ~Blocks(lookup(name))
        /\ query' = [at |-> "resolving", name |-> name, udp |-> udp,
                     check_chain |-> CheckChain(lookup(name)), asked |-> lookup(name)]
        /\ reply' = Nothing
  /\ UNCHANGED listsVars

----------------------------------------------------------------------------
(* The answer *)

\* cname_chain(): the targets in order, up to the end or a loop.
RECURSIVE ChainFrom(_, _, _, _)
ChainFrom(qname, current, chain, alias) ==
  LET target == alias[current] IN
  IF target \in {NoName, qname} \cup Range(chain) THEN chain
  ELSE ChainFrom(qname, target, Append(chain, target), alias)

FirstHopOnly(qname, alias) == IF alias[qname] = NoName THEN <<>> ELSE <<alias[qname]>>   \* wrong

cname_chain(qname, alias) == ChainFrom(qname, qname, <<>>, alias)

find_cloaked(qname, alias) ==
  \E i \in DOMAIN cname_chain(qname, alias) : lookup(cname_chain(qname, alias)[i]) = "block"

strip(qname, addresses) ==
  IF qname \in ExemptNames THEN addresses ELSE addresses \ {"private"}

\* The callback: SERVFAIL for a failed resolution; a cloaked name is blocked; an
\* answer that loses its last address is NXDOMAIN.
OnResolved(failed, answer) ==
  LET kept == strip(query.name, answer.addresses)
  IN
  /\ query.at = "resolving" /\ query' = Idle
  /\ Respond(
       IF failed THEN [kind |-> "SERVFAIL", records |-> NoRecords]
       ELSE IF query.check_chain /\ find_cloaked(query.name, answer.alias) THEN BlockedAnswer
       ELSE IF kept # answer.addresses /\ kept = {} THEN [kind |-> "NXDOMAIN", records |-> NoRecords]
       ELSE [kind |-> "answer", records |-> [answer EXCEPT !.addresses = kept]],
       query.udp)
  /\ UNCHANGED listsVars

\* The lists' threads and timers go on meanwhile.
ListsStep == ListsNext /\ reply' = Nothing /\ UNCHANGED query

Next ==
  \/ ListsStep
  \/ \E name \in Names, udp \in BOOLEAN : handle(name, udp)
  \/ \E answer \in Answers : OnResolved(FALSE, answer)
  \/ OnResolved(TRUE, NoRecords)

Spec == Init /\ [][Next]_vars

\* The worker thread runs, and timers and the eventfd get their turn, whatever
\* queries come.
Fairness ==
  /\ WF_vars(Worker /\ ListsStep) /\ WF_vars(check_files /\ ListsStep)
  /\ WF_vars(OnSighup /\ ListsStep) /\ WF_vars(collect_reload /\ ListsStep)

----------------------------------------------------------------------------
Answered == query.at = "resolving" /\ query' = Idle

\* The names an answer leads to from qname: closed under following aliases, and
\* the least such set.
Leads(qname, alias) ==
  LET Closed(S) == \A n \in S \cup {qname} : alias[n] \in S \cup {NoName, qname}
  IN  {n \in Names \ {qname} : \A S \in SUBSET Names : Closed(S) => n \in S}

\* No answer goes out that leads through a name the lists block at that moment,
\* unless the name asked for was allowed: not even one resolved under older lists,
\* at any depth of the chain, or beside a loop.  "an allowed one is never blocked",
\* whatever it aliases and whatever list is loaded meanwhile.  And a private address
\* reaches a client only for an exempt name.
AnswersVetted ==
  [][Answered =>
       /\ reply'.kind = "answer" /\ check_cname_chain /\ query.asked # "allow" =>
            \A n \in Leads(query.name, reply'.records.alias) : lookup(n) # "block"
       /\ query.asked = "allow" => reply'.kind # "blocked"
       /\ query.name \notin ExemptNames => "private" \notin reply'.records.addresses]_vars
============================================================================

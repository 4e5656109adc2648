---------------------------- MODULE MCStructures ----------------------------
(***************************************************************************)
(* The sequential parts, each on its own: a behaviour is one of the        *)
(* trie, the choice of servers, the rate limits, building a message,       *)
(* reading any message, and the access control list.  The properties of    *)
(* the rate limits are those of module QueryLimits.                        *)
(***************************************************************************)
EXTENDS QueryLimits, Sequences, TLC

CONSTANTS
  list1, list2, Servers,
  MaxRules,
  Rtts, Ceilings, TicksPerMs, kUnmeasured, kTimeoutPenalty, kMaxSrtt, kMaxFailures, kMinTimeout,
  kForgetAfter, kPruneEvery,
  kMaxPointerOffset, kMaxPointerJumps, kMaxNameWireLength, MaxQuestions, MaxRecords, Sizes,
  MaxCells,   \* bound: cells of a message that is read
  ByteBits, V4Bytes, MaxSubnets

VARIABLES
  subject,
  phase, rules_, nodes_, queue, rule_count_, added,
  servers_, updates_,
  options, out, suffixes_, section, counts, truncated, lost, previous, kept,
  allow, configured

\* Three siblings at the top, so that the binary search has to choose, a label used
\* at two depths, and names below listed ones.
Keys == {<<1>>, <<2>>, <<3>>, <<2, 1>>}
Names == {<<>>} \cup Keys \cup {<<1, 1>>, <<2, 2>>, <<2, 1, 3>>, <<3, 2, 1>>}
Sources == {list1, list2}

\* "A" and "a" are one label in two spellings.
Canonical == [text \in {"a", "b", "c", "A"} |-> IF text = "A" THEN "a" ELSE text]
Layout == "A" :> <<"data">> @@ "NS" :> <<"name">> @@ "MX" :> <<"data", "name">>
          @@ "SOA" :> <<"name", "name", "data">>
QNames == {<<"b", "A">>, <<"a">>}
RR(owner, type, rdata) == [name |-> owner, type |-> type, rdata |-> rdata]
RRsets ==
  {<<RR(<<"a">>, "A", <<1>>)>>,
   <<RR(<<"b", "a">>, "A", <<1>>), RR(<<"b", "A">>, "A", <<2>>)>>,
   <<RR(<<"A">>, "NS", <<<<"c", "b", "a">>>>)>>,
   <<RR(<<"c", "b", "a">>, "MX", <<1, <<"c">>>>)>>,
   <<RR(<<"c">>, "SOA", <<<<"b", "c">>, <<"c", "b", "a">>, 1>>)>>,
   <<RR(<<>>, "NS", <<<<"c">>>>)>>}

Trie == INSTANCE BlocklistTrie
Selection == INSTANCE ServerSelection
Wire == INSTANCE WireWriter
ACL == INSTANCE Acl

ASSUME Selection!SelectionConstants

Init ==
  /\ subject \in {"trie", "selection", "limits", "writer", "reader", "acl"}
  /\ Trie!Init /\ Selection!Init /\ LimitsInit /\ ACL!Init
  /\ Wire!Init
  /\ subject # "writer" => options = CHOOSE o \in Wire!Options : TRUE

\* Any message at all, one cell after the other, behind the one that out starts with.
Cells ==
  {Wire!Label("a"), Wire!Root, Wire!Data(0)} \cup {Wire!Pointer(to) : to \in 0..(MaxCells - 1)}

Receive ==
  /\ Len(out) <= MaxCells /\ \E cell \in Cells : out' = Append(out, cell)
  /\ UNCHANGED <<options, suffixes_, section, counts, truncated, lost, previous, kept>>

trie == <<phase, rules_, nodes_, queue, rule_count_, added>>
selection == <<servers_, updates_>>
wire == <<options, out, suffixes_, section, counts, truncated, lost, previous, kept>>
acl == <<allow, configured>>

Next ==
  /\ \/ subject = "trie" /\ Trie!Next /\ UNCHANGED <<selection, limitsVars, wire, acl>>
     \/ subject = "selection" /\ Selection!Next /\ UNCHANGED <<trie, limitsVars, wire, acl>>
     \/ subject = "limits" /\ LimitsNext /\ UNCHANGED <<trie, selection, wire, acl>>
     \/ subject = "writer" /\ Wire!Next /\ UNCHANGED <<trie, selection, limitsVars, acl>>
     \/ subject = "reader" /\ Receive /\ UNCHANGED <<trie, selection, limitsVars, acl>>
     \/ subject = "acl" /\ ACL!Next /\ UNCHANGED <<trie, selection, limitsVars, wire>>
  /\ UNCHANGED subject

vars == <<subject, trie, selection, limitsVars, wire, acl>>

Spec == Init /\ [][Next]_vars

StructuresSymmetry == Permutations(Clients)

----------------------------------------------------------------------------
\* blocklist_trie.cpp: a lookup in the frozen trie says what the lists say.
LookupCorrect == subject = "trie" => Trie!LookupCorrect

\* server_selection.cpp: which server is asked and for how long, however long it failed
\* before; and what a record changes of what is remembered.
SelectionSound ==
  /\ [](subject = "selection" => Selection!Recovers /\ Selection!ChoiceSound)
  /\ [][\A s \in Servers : Selection!Record(s) => Selection!MemoryExact(s)]_selection

\* builder.cpp and parser.cpp: what is built is read back.
RoundTrip == subject = "writer" => Wire!RoundTrip

\* builder.cpp: a message keeps to its size, and TC says when an RRset is missing.
TruncationHonest == subject = "writer" => Wire!TruncationHonest

\* parser.cpp: read_name() of any message at any place.
ReadsSound ==
  subject = "reader" =>
    \A pos \in 0..(Len(out) - 2) : Wire!ReadExactly(Tail(out), pos)

\* acl.cpp: a client is allowed exactly if a subnet has it.
AclExact == subject = "acl" => ACL!AclExact
=============================================================================

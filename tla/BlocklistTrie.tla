---------------------------- MODULE BlocklistTrie ----------------------------
(***************************************************************************)
(* The block and allow lists' trie (core/policy/blocklist_trie.cpp): rules *)
(* are collected by Builder::add, sorted, and frozen breadth-first into an *)
(* array in which every node's children are contiguous and sorted, which   *)
(* lookup() then binary-searches one label at a time.                      *)
(*                                                                         *)
(* A label is a number: only its place in the order (length, bytes)        *)
(* matters.  A key is a name's labels from the root down, what add() makes *)
(* by reversing them.  Array indices start at 1.                           *)
(***************************************************************************)
EXTENDS Integers, SequencesExt, FiniteSetsExt

CONSTANTS
  Keys,        \* the domains that may be listed
  Names,       \* the names looked up
  Sources,     \* list files
  MaxRules     \* bound on the rules of one build

VARIABLES
  phase,       \* "adding", "building" (inside build()) or "built"
  rules_,      \* the builder's rules: key, flags, source
  nodes_,      \* the trie: label, flags, the sources, first_child, child_count
  queue,       \* build()'s work: node, begin, end (exclusive) and offset
  rule_count_,
  added        \* history: the rules in the order they were added

vars == <<phase, rules_, nodes_, queue, rule_count_, added>>

Blocks == {"BlockExact", "BlockSubtree"}
Allows == {"AllowExact", "AllowSubtree"}
NoSource == "none"

Node(label) == [label |-> label, flags |-> {}, block_source |-> NoSource,
                allow_source |-> NoSource, first_child |-> 1, child_count |-> 0]

Init ==
  /\ phase = "adding" /\ rule_count_ = 0
  /\ rules_ = <<>> /\ nodes_ = <<>> /\ queue = <<>> /\ added = <<>>

add(key, flag, source) ==
  /\ phase = "adding" /\ Len(rules_) < MaxRules
  /\ rules_' = Append(rules_, [key |-> key, flags |-> {flag}, source |-> source])
  /\ added' = rules_'
  /\ UNCHANGED <<phase, nodes_, queue, rule_count_>>

----------------------------------------------------------------------------
(* build() *)

\* Byte order of the length-prefixed keys: a name comes before the names below it.
Less(a, b) ==
  \E n \in 0..Len(a) :
    /\ n < Len(b) /\ SubSeq(a, 1, n) = SubSeq(b, 1, n)
    /\ n = Len(a) \/ a[n + 1] < b[n + 1]

LatestFirst(i, j) ==   \* wrong: not stable
  \/ Less(rules_[i].key, rules_[j].key)
  \/ rules_[i].key = rules_[j].key /\ i > j

SortsBefore(i, j) ==
  \/ Less(rules_[i].key, rules_[j].key)
  \/ rules_[i].key = rules_[j].key /\ i < j

build ==
  /\ phase = "adding" /\ phase' = "building"
  /\ LET order == SetToSortSeq(DOMAIN rules_, SortsBefore) IN
       rules_' = [k \in DOMAIN rules_ |-> rules_[order[k]]]
  /\ nodes_' = <<Node(0)>>
  /\ queue' = <<[node |-> 1, begin |-> 1, end |-> Len(rules_) + 1, offset |-> 0]>>
  /\ UNCHANGED <<rule_count_, added>>

\* Where the rules for this very name end.
OwnEnd(w) ==
  Min({i \in w.begin..w.end : i = w.end \/ Len(rules_[i].key) # w.offset})

\* The first rule of each action gives the node its source.
Mark(node, rule) ==
  [node EXCEPT
     !.block_source = IF rule.flags \cap Blocks # {} /\ node.flags \cap Blocks = {}
                      THEN rule.source ELSE @,
     !.allow_source = IF rule.flags \cap Allows # {} /\ node.flags \cap Allows = {}
                      THEN rule.source ELSE @,
     !.flags = @ \cup rule.flags]

Label(w, i) == rules_[i].key[w.offset + 1]

\* Where each child's run of rules starts, in order.
Starts(w) ==
  SetToSortSeq({i \in OwnEnd(w)..(w.end - 1) :
                  i = OwnEnd(w) \/ Label(w, i) # Label(w, i - 1)}, <)

RunEnd(w, k) == IF k < Len(Starts(w)) THEN Starts(w)[k + 1] ELSE w.end

RuleCount == Cardinality({k \in DOMAIN nodes_ : nodes_[k].flags # {}})

\* One turn of the breadth-first loop.
BuildNode ==
  /\ phase = "building" /\ queue # <<>>
  /\ LET w == Head(queue)
         starts == Starts(w)
         first == Len(nodes_) + 1
         marked == FoldLeft(Mark, nodes_[w.node], SubSeq(rules_, w.begin, OwnEnd(w) - 1)) IN
       /\ nodes_' = [nodes_ EXCEPT ![w.node] =
                       [marked EXCEPT !.first_child = first, !.child_count = Len(starts)]]
                    \o [k \in DOMAIN starts |-> Node(Label(w, starts[k]))]
       /\ queue' = Tail(queue)
                   \o [k \in DOMAIN starts |->
                         [node |-> first + k - 1, begin |-> starts[k], end |-> RunEnd(w, k),
                          offset |-> w.offset + 1]]
  /\ UNCHANGED <<phase, rules_, rule_count_, added>>

Freeze ==
  /\ phase = "building" /\ queue = <<>> /\ phase' = "built"
  /\ rule_count_' = RuleCount
  /\ rules_' = <<>>
  /\ UNCHANGED <<nodes_, queue, added>>

Next ==
  \/ \E key \in Keys, flag \in Blocks \cup Allows, source \in Sources : add(key, flag, source)
  \/ build \/ BuildNode \/ Freeze

Spec == Init /\ [][Next]_vars

----------------------------------------------------------------------------
(* lookup() *)

\* std::lower_bound over count nodes from first.
RECURSIVE lower_bound(_, _, _)
lower_bound(first, count, label) ==
  LET half == count \div 2 IN
  CASE count = 0 -> first
    [] count > 0 /\ nodes_[first + half].label < label ->
         lower_bound(first + half + 1, count - half - 1, label)
    [] OTHER -> lower_bound(first, half, label)

\* The child of a node with a label, as a set of at most one index.
child(parent, label) ==
  LET last == parent.first_child + parent.child_count
      it == lower_bound(parent.first_child, parent.child_count, label) IN
  IF it # last /\ nodes_[it].label = label THEN {it} ELSE {}

\* The nodes lookup() visits for name, the root at depth 0 first.
RECURSIVE Path(_, _, _)
Path(name, node, depth) ==
  LET next == IF depth = Len(name) THEN {} ELSE child(nodes_[node], name[depth + 1]) IN
  <<nodes_[node]>> \o
  (IF next = {} THEN <<>> ELSE Path(name, CHOOSE k \in next : TRUE, depth + 1))

Hit(name, depth, flags, exact, subtree) ==
  subtree \in flags \/ (depth = Len(name) /\ exact \in flags)

NoMatch == [action |-> "none", rule |-> <<>>, source |-> NoSource]

lookup(name) ==
  LET path == Path(name, 1, 0)
      Depths(exact, subtree) ==
        {d \in 0..(Len(path) - 1) : Hit(name, d, path[d + 1].flags, exact, subtree)}
      blocked == Depths("BlockExact", "BlockSubtree")
      allowed == Depths("AllowExact", "AllowSubtree") IN
  CASE allowed # {} -> [action |-> "Allow", rule |-> SubSeq(name, 1, Max(allowed)),
                        source |-> path[Max(allowed) + 1].allow_source]
    [] allowed = {} /\ blocked # {} ->
         [action |-> "Block", rule |-> SubSeq(name, 1, Max(blocked)),
          source |-> path[Max(blocked) + 1].block_source]
    [] OTHER -> NoMatch

----------------------------------------------------------------------------
(* What the lists say, with no trie. *)

Covers(rule, name) ==
  /\ IsPrefix(rule.key, name)
  /\ rule.flags \subseteq {"BlockSubtree", "AllowSubtree"} \/ rule.key = name

\* The deepest of the covering rules with these flags, and the list that was first
\* to have a rule of that action for that domain.
Deepest(action, flags, name) ==
  LET of == {i \in DOMAIN added : added[i].flags \subseteq flags}
      depth == Max({Len(added[i].key) : i \in {j \in of : Covers(added[j], name)}})
      rule == SubSeq(name, 1, depth) IN
  [action |-> action, rule |-> rule,
   source |-> added[Min({i \in of : added[i].key = rule})].source]

Listed(flags, name) ==
  \E i \in DOMAIN added : added[i].flags \subseteq flags /\ Covers(added[i], name)

Expected(name) ==
  CASE Listed(Allows, name) -> Deepest("Allow", Allows, name)
    [] ~Listed(Allows, name) /\ Listed(Blocks, name) -> Deepest("Block", Blocks, name)
    [] OTHER -> NoMatch

\* The frozen trie says of every name what the lists say: an allow rule beats a block
\* rule at any depth, the deepest rule is reported, with the first list that has it;
\* and size() is the number of distinct domains with a rule.
LookupCorrect ==
  phase = "built" =>
    /\ \A name \in Names : lookup(name) = Expected(name)
    /\ rule_count_ = Cardinality({added[i].key : i \in DOMAIN added})
==============================================================================

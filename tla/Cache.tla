-------------------------------- MODULE Cache --------------------------------
(***************************************************************************)
(* The sharded LRU cache (core/cache/cache.cpp), used by several threads.  *)
(* Each operation reads the clock first and takes its shard's mutex then,  *)
(* so what it does under the lock may rest on a time already past; the two *)
(* are separate steps here, and time and other threads move in between.    *)
(*                                                                         *)
(* An entry is its trust, expiry and size: what it holds is never looked   *)
(* at.  Sizes are the size classes of entry_bytes().                       *)
(***************************************************************************)
EXTENDS Integers, Sequences, FiniteSetsExt

CONSTANTS
  Threads, Keys, Shards,
  ShardOf,       \* shard_for(): Keys -> Shards
  Trusts,        \* TrustRank values in use
  Ttls,          \* TTLs records come with
  Sizes,         \* entry_bytes() values
  min_ttl, max_ttl,
  shard_budget_, \* max_memory_bytes / num_shards
  TicksPerSecond,\* the clock is finer than a TTL's seconds
  MaxTime,       \* bound: the clock stops here
  None

ASSUME CacheConstants ==
  /\ ShardOf \in [Keys -> Shards]
  /\ Trusts \subseteq Nat /\ Ttls \subseteq Nat /\ Sizes \subseteq Nat \ {0}
  /\ {min_ttl, max_ttl, shard_budget_, MaxTime} \subseteq Nat
  /\ TicksPerSecond \in Nat \ {0}

VARIABLES
  now,     \* the clock
  lru,     \* [Shards -> sequence of nodes], most recently used first
  index,   \* [Shards -> set of keys]
  bytes,   \* [Shards -> Nat]
  op,      \* [Threads -> the operation a thread has begun, or None]
  served,  \* [Threads -> the last lookup's result: entry and the time it was read, or None]
  newer    \* history: [Shards -> pairs of keys, the first used after the second]

vars == <<now, lru, index, bytes, op, served, newer>>

Node == [key : Keys, trust : Trusts, expires_at : Nat, bytes : Sizes]

Init ==
  /\ now = 0
  /\ lru = [s \in Shards |-> <<>>]
  /\ index = [s \in Shards |-> {}]
  /\ bytes = [s \in Shards |-> 0]
  /\ op = [t \in Threads |-> None]
  /\ served = [t \in Threads |-> None]
  /\ newer = [s \in Shards |-> {}]

Tick == now < MaxTime /\ now' = now + 1 /\ UNCHANGED <<lru, index, bytes, op, served, newer>>

----------------------------------------------------------------------------
(* A shard *)

Holds(s, k) == k \in index[s]

\* What the index has for a key, an iterator, is its node's place in the list.
Place(s, k) == CHOOSE n \in DOMAIN lru[s] : lru[s][n].key = k
NodeOf(s, k) == lru[s][Place(s, k)]

Unlinked(seq, m) == SubSeq(seq, 1, m - 1) \o SubSeq(seq, m + 1, Len(seq))

Others(s, k) == IF Holds(s, k) THEN Unlinked(lru[s], Place(s, k)) ELSE lru[s]

\* The nodes' bytes, counted one by one: a byte is its node and a number.
BytesOf(nodes) == Cardinality(UNION {{n} \X (1..n.bytes) : n \in nodes})

\* Shard::erase()
erase(s, k) ==
  /\ lru' = [lru EXCEPT ![s] = Others(s, k)]
  /\ index' = [index EXCEPT ![s] = @ \ {k}]
  /\ bytes' = [bytes EXCEPT ![s] = @ - NodeOf(s, k).bytes]

Begin(t, o) ==
  /\ op[t] = None
  /\ op' = [op EXCEPT ![t] = o]
  /\ served' = [served EXCEPT ![t] = None]
  /\ UNCHANGED <<now, lru, index, bytes, newer>>

\* Key k of shard s is used now.
Used(s, k) ==
  LET rest == index'[s] \ {k} IN
  newer' = [newer EXCEPT ![s] = (@ \cap (rest \X rest)) \cup ({k} \X rest)]

Done(t) == op' = [op EXCEPT ![t] = None] /\ UNCHANGED now

----------------------------------------------------------------------------
(* lookup() *)

StartLookup(t, k) == Begin(t, [fn |-> "lookup", key |-> k, now |-> now])

ServeExpired(n, at) == n.expires_at >= at   \* wrong: off by one

Unexpired(n, at) == n.expires_at > at

KeepOrder(s, k) == lru[s]   \* wrong: a hit doesn't count as use

\* lru.splice(lru.begin(), lru, node)
MoveToFront(s, k) == <<NodeOf(s, k)>> \o Others(s, k)

lookup(t) ==
  /\ op[t] # None /\ op[t].fn = "lookup"
  /\ UNCHANGED <<index, bytes>>
  /\ LET k == op[t].key
         s == ShardOf[k]
     IN  IF Holds(s, k) /\ Unexpired(NodeOf(s, k), op[t].now)
           THEN /\ served' = [served EXCEPT ![t] =
                     [node |-> NodeOf(s, k), at |-> op[t].now,
                      ttl |-> (NodeOf(s, k).expires_at - op[t].now) \div TicksPerSecond]]
                /\ lru' = [lru EXCEPT ![s] = MoveToFront(s, k)]
                /\ Used(s, k)
           ELSE UNCHANGED <<served, lru, newer>>
  /\ Done(t)

----------------------------------------------------------------------------
(* insert() *)

Effective(ttl) == Min({Max({ttl, min_ttl}), max_ttl})

StartInsert(t, k, trust, ttl, size) ==
  /\ Effective(ttl) # 0
  /\ Begin(t, [fn |-> "insert", now |-> now,
               node |-> [key |-> k, trust |-> trust, bytes |-> size,
                         expires_at |-> now + Effective(ttl) * TicksPerSecond]])

TrustAny(old, new, at) == FALSE   \* wrong: the newest data wins

\* RFC 2181 5.4.1: live data is never replaced by less trusted data.
MoreTrusted(old, new, at) == old.expires_at > at /\ old.trust > new.trust

ForgetOldSize(s, k) == bytes[s]   \* wrong: the replaced entry still counts

\* The shard's bytes without the entry for k.
BytesWithout(s, k) == IF Holds(s, k) THEN bytes[s] - NodeOf(s, k).bytes ELSE bytes[s]

\* What is left of total once the nodes behind the first m are evicted.
Left(seq, total, m) == total - BytesOf({seq[j] : j \in (m + 1)..Len(seq)})

\* How many nodes stay: evict from the tail while over budget, never the node just
\* written.
Evict(seq, total) ==
  Max({1} \cup {m \in 1..Len(seq) : Left(seq, total, m) <= shard_budget_})

Write(s, n) ==
  LET seq == <<n>> \o Others(s, n.key)
      total == BytesWithout(s, n.key) + n.bytes
      kept == Evict(seq, total)
  IN  /\ lru' = [lru EXCEPT ![s] = SubSeq(seq, 1, kept)]
      /\ index' = [index EXCEPT ![s] = {seq[m].key : m \in 1..kept}]
      /\ bytes' = [bytes EXCEPT ![s] = Left(seq, total, kept)]

insert(t) ==
  /\ op[t] # None /\ op[t].fn = "insert"
  /\ LET n == op[t].node
         s == ShardOf[n.key]
     IN  IF Holds(s, n.key) /\ MoreTrusted(NodeOf(s, n.key), n, op[t].now)
           THEN UNCHANGED <<lru, index, bytes, newer>>
         ELSE IF n.bytes <= shard_budget_ THEN Write(s, n) /\ Used(s, n.key)
         ELSE IF Holds(s, n.key) THEN erase(s, n.key) /\ UNCHANGED newer
         ELSE UNCHANGED <<lru, index, bytes, newer>>
  /\ Done(t)
  /\ UNCHANGED served

----------------------------------------------------------------------------
(* evict(), flush() *)

evict(t, k) ==
  /\ op[t] = None
  /\ IF Holds(ShardOf[k], k) THEN erase(ShardOf[k], k) ELSE UNCHANGED <<lru, index, bytes>>
  /\ UNCHANGED <<now, op, served, newer>>

\* One shard at a time, each under its own lock.
StartFlush(t) == Begin(t, [fn |-> "flush", left |-> Shards])

flush(t, s) ==
  /\ op[t] # None /\ op[t].fn = "flush" /\ s \in op[t].left
  /\ lru' = [lru EXCEPT ![s] = <<>>]
  /\ index' = [index EXCEPT ![s] = {}]
  /\ bytes' = [bytes EXCEPT ![s] = 0]
  /\ op' = [op EXCEPT ![t] = IF @.left = {s} THEN None ELSE [fn |-> "flush", left |-> @.left \ {s}]]
  /\ UNCHANGED <<now, served, newer>>

Next ==
  \/ Tick
  \/ \E t \in Threads :
       \/ \E k \in Keys : StartLookup(t, k) \/ evict(t, k)
       \/ \E k \in Keys, trust \in Trusts, ttl \in Ttls, size \in Sizes :
            StartInsert(t, k, trust, ttl, size)
       \/ lookup(t)
       \/ insert(t)
       \/ StartFlush(t)
       \/ \E s \in Shards : flush(t, s)

Spec == Init /\ [][Next]_vars
----------------------------------------------------------------------------
Entries(s) == {lru[s][n] : n \in DOMAIN lru[s]}

\* Entries keep their type, max_ttl included, and the shard's three structures
\* agree whatever was inserted, replaced, evicted or flushed: the index has
\* exactly the keys of the list, in their own shard, each once, the byte count is
\* the sum of the nodes', and no more than the shard's share of max_memory_bytes.
ShardConsistent ==
  \A s \in Shards :
    /\ \A n \in Entries(s) :
         n \in Node /\ n.expires_at <= MaxTime + max_ttl * TicksPerSecond
    /\ index[s] = {n.key : n \in Entries(s)}
    /\ \A k \in index[s] : ShardOf[k] = s
    /\ Cardinality(index[s]) = Len(lru[s])
    /\ bytes[s] = BytesOf(Entries(s))
    /\ bytes[s] <= shard_budget_

\* "live data is never replaced by less trusted data": even by a thread whose
\* clock reading is stale, and by one that lost the race for the lock.
TrustKept ==
  [][\A s \in Shards : \A old \in Entries(s) : \A new \in Entries(s)' :
       old.key = new.key /\ old.expires_at > now => new.trust >= old.trust]_vars

\* Thread t writes an entry into shard s.
Writes(t, s) ==
  /\ op[t] # None /\ op'[t] = None /\ op[t].fn = "insert" /\ lru'[s] # lru[s]
  /\ op[t].node.bytes <= shard_budget_

\* "Evict least recently used entries": an insert drops no entry that was hit or
\* written after one it keeps, and no more entries than the budget asks for: with
\* the last used of those it drops, the shard would have been over budget.
EvictsLeastRecent ==
  [][\A s \in Shards : \A t \in Threads : Writes(t, s) =>
       LET dropped == index[s] \ index'[s] IN
       /\ op[t].node \in Entries(s)'
       /\ \A k \in index'[s] \ {op[t].node.key} :
            k \in index[s] /\ \A d \in dropped : <<k, d>> \in newer[s]
       /\ \A d \in dropped : (\A e \in dropped \ {d} : <<d, e>> \in newer[s]) =>
            BytesOf(Entries(s)') + NodeOf(s, d).bytes > shard_budget_]_vars

\* A lookup serves only an entry unexpired when the lookup began, though it may be
\* another by the time the lock is had, with a TTL that does not outlast it.
ServedFresh ==
  \A t \in Threads : served[t] # None =>
    /\ served[t].at < served[t].node.expires_at
    /\ served[t].at + served[t].ttl * TicksPerSecond <= served[t].node.expires_at
=============================================================================

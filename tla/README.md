# DNSentinel in TLA+

DNSentinel is a recursive DNS resolver with block lists, in C++
(`src/core`). This directory holds TLA+ models of it, translated from the
source, TLC configurations that check them on small instances, and proofs that
TLAPS checks for every instance. `PROJECT.json` maps each definition to the
lines it models, each property to a mutation of the code that breaks it, and
lists the hazards the properties are aimed at.

    tlc -workers 2 -config MCResolver_walk.cfg MCResolver   # one run
    tlapm ServerProofs.tla                                  # the proofs of one module

## 1. The system

The server is one thread running an `epoll` event loop; everything but the block
list worker runs in its callbacks. (The cache locks, because it is written to be
shared by several threads.)

    UDP / TCP listener --> query processor --> recursive resolver --> upstream client --> servers
                           |  access list      |  cache
                           |  rate limiter     |  server selection
                           |  block lists      |  0x20, bailiwick
                           |  rebinding filter
                           +- response rate limiter (on the way out, UDP)

| component | state | operations | what is hard |
|---|---|---|---|
| recursive resolver, tasks | tasks, `in_flight`, budgets, timers | resolve, join, sub-query, deadline, finish, cancel, destroy | the deadline strikes in the middle of nested sub-queries; callbacks ask again or destroy the resolver while others are still due |
| recursive resolver, resolution | a task's name, zone, servers tried and timed out, chain, ancestry | step, next server, send, handle a response, cache | stale per-zone state after a CNAME or referral; sub-queries that wait for one another; ending without the deadline |
| upstream client | pending queries with socket and timer | send, cancel, readable, TCP event, timeout | half-failed sends, many datagrams in one wake-up, timeout against a late answer |
| cache | per shard: list, index, byte count | lookup, insert, evict, flush | the clock is read before the lock; replace, reject and evict in one call |
| server selection | smoothed round trip, failures, age | record, pick, timeout, prune | forgetting, capping, pruning inside an update |
| event loop | registrations, timers, the stop flag | add, remove, timers, run, stop | descriptor numbers reused within a batch; timers added and cancelled in a round; `stop()` racing `epoll_wait` |
| TCP listener | connections, per-client counts, buffers | accept, read, process, answer, write, idle timer | back-pressure with queries already buffered, half-close, the limits |
| query processor | none of its own; a closure per query | handle, the resolver's callback | lists reloaded between the two |
| block lists, reloading | stamps, worker, new trie, current trie | poll, SIGHUP, read, collect | files that change while they are read |
| block lists, trie | a frozen array | add, build, lookup | the sort order lookup relies on |
| rate limiter, response rate limiter | bounded tables, overflow entry | allow, check, sweep | forgetting somebody who should be remembered, tables at their limit |
| UDP listener | socket, responders held by others | create, destroy, batch read, respond | responders outlive it, and its descriptor number is used again |
| process | objects, signal handlers, the stop flag | start, run, signals, shutdown | a signal between any two statements; one query's way through everything |
| wire format | while building: bytes, compression targets | name, record, section, rollback; read | targets inside what was rolled back; pointers to anywhere |
| access list | subnets | parse, match | prefixes that end within a byte, mapped addresses |
| rebinding filter, 0x20, bailiwick | none | pure functions | |
| root hints, configuration | none after start | pure functions, sequential I/O | |

The properties that make the server correct: every client is answered exactly
once and within its limits; what it is told answers its question and comes from
servers entitled to say it; nothing (timer, socket, table entry, connection)
leaks; limits hold under floods without punishing anybody else; a change to the
lists is applied, whole, and vetting uses the current lists.

## 2. Modules

| module | models | remarks |
|---|---|---|
| `ResolverService` | what `resolve()` promises its callers | abstract specification |
| `ResolverTasks` | `recursive_resolver.cpp`, task lifecycle | implements `ResolverService`; what a task decides is left open |
| `ResolverTasksProofs` | | the inductive invariant of `ResolverTasks`, what follows, and that it implements `ResolverService` |
| `Resolver` | `recursive_resolver.cpp`, resolution steps; `bailiwick.cpp` | extends `ResolverTasks`: every action is one of its actions and more |
| `ResolverProofs`, `ResolverAnswersProofs`, `ResolverQueriesProofs` | | `Resolver` implements `ResolverTasks`, and keeps its state sound; its answers, chains, zones and bailiwick; its queries, ancestries and retries |
| `UpstreamContract` | what `UpstreamClient` promises the resolver | abstract specification |
| `Upstream` | `upstream.cpp` | implements `UpstreamContract` |
| `Cache` | `cache.cpp` | several threads |
| `ResolverPartsProofs` | | `Upstream` and `Cache`, the parts the resolver works with: nothing leaks, and `Upstream` implements `UpstreamContract`; shards are consistent and within budget, entries served fresh, trust kept, the least recent evicted |
| `ServerSelection` | `server_selection.cpp` | |
| `EventLoop` | `event_loop.cpp` | the loop's thread, its callbacks, and a thread calling `stop()` |
| `TcpListener` | `tcp_listener.cpp` | |
| `LoopProofs` | | `EventLoop` and `TcpListener`, which lives by it: events reach their own registration, rounds fire what is due and sleep no longer than that; limits are exact, no connection is stranded, half-closed ones are answered |
| `UdpListener` | `udp_listener.cpp`, `max_udp_response_size` | with whoever else opens and closes descriptors |
| `Server` | `main.cpp`, `QueryProcessor::handle()` | extends `UdpListener`; uses the resolver through `ResolverService` |
| `ServerProofs` | | replies are exact, of the UDP listener and of the process; the process keeps to both modules it is made of; answers as asked; objects outlive their use; of `Blocklists`, that no change of a list is missed |
| `WireReader`, `WireWriter` | `parser.cpp`, `builder.cpp` | messages are cells: labels, pointers, fields; the writer's output is read back |
| `Acl` | `acl.cpp` | against a definition over bits |
| `Blocklists` | `blocklists.cpp`, reload wiring of `main.cpp` | worker, timers, SIGHUP, and whoever edits the files |
| `BlocklistTrie` | `blocklist_trie.cpp` | a pure algorithm against a reference definition |
| `QueryProcessor` | `query_processor.cpp`, `cname_check.cpp`, `rebinding.cpp` | extends `Blocklists`: queries while lists are reloaded |
| `RateLimiter`, `Rrl` | `rate_limiter.cpp`, `rrl.cpp` | |
| `QueryLimits` | how `query_processor.cpp` uses both limits | composes two instances |
| `LimitsProofs` | | forgetting is invisible, and floods are bounded, for both limits |

`MC*` modules give constants small values. `MCStructures` puts the sequential
modules side by side, `MCConnections` `TcpListener` and `Upstream`, `MCLoop` `EventLoop` and
`UdpListener`: a behaviour is about one of them, and the others stay as they begin. Operators marked `\* wrong` are the
mutations `PROJECT.json` names: a plausible slip in the definition below them,
used by nothing else.

How state and actions correspond to code:

* **One thread.** Callbacks of the event loop are atomic where nothing can come
  in between. Where a handler calls code that may re-enter, it is several steps
  and a program counter says where the thread is: `call` in `ResolverTasks`,
  `at` in `Resolver`, `todo` in `TcpListener`, `pc` in `EventLoop`. No timer,
  socket or client gets a turn until the thread is back in the loop, with one
  exception the code has too: while `finish()` calls clients back one by one, a
  client's callback may call `resolve()` or destroy the resolver.
* **Tasks.** A task is an id; its fields are functions over ids. `pending` and
  `start_timer`/`deadline` are what the upstream client and the event loop hold
  for it, so that something left behind there can be seen. Ids are reused once
  nothing refers to them, where the code counts up: `TaskIds` bounds the tasks
  alive at a time.
* **Messages** are records with sets of records. Where the code takes the first
  match of several the model takes any. Names are model values with the set of
  names above each.
* **Servers** may answer anything in `Messages`, in any order, or nothing.
* **Time** is a bounded counter where durations matter (`Cache`, `EventLoop`,
  the limiters), an age in `ServerSelection`, and otherwise only the order in
  which timers fire: any timer may fire at any time.
* **Composition.** `Server` conjoins actions: reading a datagram and asking the
  resolver are one step, being called back and sending another. The resolver is
  no more than its interface, whose promise `ResolverTasks` is proved to keep; what
  the access list, limits and lists decide is a free choice (other modules say
  what they decide).
* **Messages on the wire** are sequences of cells. A label, a pointer, the fixed
  fields and a piece of data take a cell each, and limits count cells; what
  matters is kept: offsets, the order of writing and reading, the 14 bits of a
  pointer (3 in the instance), names inside RDATA.
* **Files** are their versions, and a stamp tells versions apart. The worker stamps
  and reads files one by one, and between any two of its steps whoever edits them
  may write, remove or put back any of them, or make it impossible to open, which
  `stat()` does not show.

## 3. Runs

State counts are distinct states. All but the last three pass.

| run | instance | properties | states |
|---|---|---|---|
| `tasks` | 3 clients, 2 questions, 4 tasks, budget 2 | `TasksInv`, refinement `ServiceSpec` | 243,716 |
| `walk` | 1 client, 3 tasks, 4 names, 12 messages | `NameInZone`, `AncestryCurrent`, `ChainBounded`, `AnswersTheQuestion`, `BailiwickRespected` | 333,936 |
| `wire` | 2 servers, 2 questions, a stub zone, 0x20, spoofing threshold 1 | `QueryIsCurrent`, `OnlyTimedOutRetried`, `EveryoneAnswered` (liveness) | 106,237 |
| `cache` | 2 threads, 3 keys in a shard that holds 2 | `ShardConsistent`, `EvictsLeastRecent`, `ServedFresh`, `TrustKept` | 122,183 |
| `connections` | a busy and an idle connection of one client, 4 queries, any of which may be dropped; or 2 upstream queries over UDP and TCP, threshold 2 | `LimitsExact`, `NoneStranded`, `HalfCloseAnswered`, `EveryConnectionEnds` (liveness); `NothingLeaks`, refinement `KeepsContract`, `EveryQueryEnds` (liveness) | 117,047 |
| `loop` | 2 descriptors, 2 timers, delays 0 and 1.5 ms, a timeout of at most 1 ms; or 2 queries and a response, 2 sockets, 2 descriptor numbers | `NoStaleEvent`, `RoundsAreExact`, `StopHonoured`, `TimersFire` (liveness); `RepliesExact` | 252,516 |
| `policy` | a block and an allow list, 2 versions each, the former sometimes gone or closed to us, 3 names | `NoChangeMissed`, `Converges` (liveness), `AnswersVetted` | 189,320 |
| `structures` | lists of up to 3 rules; 2 servers; 2 clients and tables of 1; messages of 2 questions and about 3 records, limits 8, 12, 100; any message of 5 cells; addresses of 2 and 3 bytes of 2 bits | `LookupCorrect`, `SelectionSound`, `ForgettingInvisible`, `FloodBounded`, `RoundTrip`, `TruncationHonest`, `ReadsSound`, `AclExact` | 758,186 |
| `server` | 2 clients asking the same, batches of 2 | `LifetimesNested`, `AnsweredAsAsked`, `NothingStarves` (liveness) | 39,566 |
| `hopwrap` | as `walk`, with the largest chain limit | `ChainBounded`, violated | |
| `tcpdrop` | as `connections`, with 2 queries | `IdleConnectionsClosed`, violated | |
| `sameround` | as `loop` | `NextIteration`, violated | |

What they show:

* **tasks** - the bookkeeping survives every interleaving of joins, nested
  sub-queries, deadlines, answers, re-entrant callbacks and destruction.
* **walk** - wherever referrals, glueless name servers and aliases lead, the name
  being looked up is in the zone being asked, sub-queries never wait for their own
  ancestors, the chain is bounded, the outcome answers the question asked, and no
  response puts a name outside its server's zone into the cache.
* **wire** - per-zone bookkeeping is never carried over to another zone or name;
  only servers that timed out are asked again; stub zones are honoured after an
  alias too; and resolution ends by its own limits.
* **cache** - a lookup may use a time that is already past, but never serves an
  entry that had expired by the time it read; less trusted data never replaces
  fresher, more trusted data; the entry evicted is the least recently used one, as
  a history variable kept apart from the list says.
* **connections** - a connection that owes answers or has queries buffered is always
  waiting for something that will wake it, and it ends, unless a query of it was
  dropped (see 5). And however an upstream query ends, its socket and timer go with it; a timeout
  after a wrong-case reply is reported as such; and the client keeps the contract
  module `Resolver` is built on (its `OnResponse` accepts the results of
  `UpstreamContract!Reportable`).
* **loop** - an event is delivered to the registration it was collected for or to
  none; a round fires timers in order, none of them early, and leaves none that was
  there when the iteration began and is due; `epoll_wait` neither spins before a
  deadline nor sleeps a millisecond past one; a `stop()` is not lost. And a UDP
  responder called late sends nothing through another listener's socket, nor
  through what the process opened under the same number.
* **policy** - with a reload in the middle of a query, the answer is checked
  against the lists of the moment it goes out, unless its name was allowed when
  asked. A change made while a file is being read is noticed later; nothing of an
  attempt that failed is used; and once files stay put, the trie in use is theirs,
  unless the code has stopped trying (see 6), and then a SIGHUP makes it so.
* **structures** - each part against a definition that is not an algorithm. The
  frozen trie finds what a one-line definition over the rules does. Forgetting is
  invisible: each entry of the limiters is compared with an ideal one that is
  never forgotten, and who has to share an entry has nothing to answer for. After
  any number of failures a server's estimate is where quick answers, one by one,
  bring it down to what they took, integer division included; a pick that explores
  may be any server, another never one that was given up while there are others. What
  is built is read back to the last cell wherever it was cut off, which needs
  every compression target to be, at all times, the suffix it stands for; TC is
  set exactly if something other than an additional record is missing. Of any
  message at all, `read_name()` accepts exactly the names whose pointers lead back
  to before everything read, and never follows a pointer twice. A client is
  allowed exactly if its bits agree with a subnet's.
* **server** - a callback or signal handler meets no object that is gone. Clients
  who share a resolution each get one response, with their own id and spelling.
  With datagrams arriving for ever, the limit on a batch lets resolutions and
  `stop()` through.

### Bounds, and why they are enough

`TaskIds`: three tasks are a client, a sub-query and a sub-query of that, the
deepest nesting `kMaxSubqueryDepth = 2` allows; a fourth lets another client work
next to them. Budgets, retry rounds and chain limits are 1 to 4, so that each is
both reached and not reached. `HopWrap = 4` stands for 256, the range of
`uint8_t`. Two connections at `max_per_client = 1` meet that limit (not `max_connections`, for
which `TcpLimitsExact` is proved); four
pipelined queries at `kMaxPipelined = 2` pause and resume reading. Three keys in a
shard for two force evictions, and size 3 is larger than the shard. `MaxTime` and
`Second` let a window, a refill and a sweep each happen before and after one
another, and a sweep be due that is not the first. Two clients have four
fingerprints, more than tables of one hold; any number of them is the proofs'. Two ticks to a
millisecond or second show rounding, and a delay of three is longer than the longest
timeout (`INT_MAX = 1`). A round trip of 7 is longer than `kMaxSrtt = 6`. Lists go
through every change by themselves; next to queries a file changes at most once, or is
removed. In `loop` a second socket follows the first while its responders are held, and two
descriptor numbers let one be taken by others and come back. In `server` a batch
of two is smaller than the three datagrams there are, so that it can be full; one
socket is enough, since `main()` makes one. Pointers of 3 bits (`kMaxPointerOffset
= 7`) let names be written where none can be a target, message limits of 8 and 12
cut at every section, and five cells hold a name, a pointer into its middle and
one to that. Bytes of 2 bits have prefixes inside and between them. The clock bounds end
the model's time, not the system: where a run checks liveness, nothing that must
happen depends on time beyond the bound.

Symmetry is used over clients (`tasks`, `structures`) and keys and threads
(`cache`), which the modules treat alike, and in no run that checks liveness.

Deadlock is checked except in `connections` and `structures`, whose instances
end by design when their bounded traffic has been handled or the structure is
built, and in `server`, where the process exits.

### Fairness

* `Resolver!SelfLimitedSpec`: the thread goes on (weak), and each start timer and
  each outstanding upstream query gets its turn (strong: the thread is idle again
  and again, not for ever). `EveryQueryEnds` justifies the latter. No deadline is
  assumed to fire, so `EveryoneAnswered` rests on the limits alone.
* `UpstreamFairness`: the timer of a query fires in the end, which is `TimersFire`.
* `TcpFairness`: the idle timer and the retry of `accept` fire, and the
  handler calls the responders it holds, which is `EveryoneAnswered`; it holds none
  of a query it dropped. Nothing is
  assumed of clients: they may stop reading and writing at any point.
* `LoopFairness`: the loop's thread runs, callbacks return, time passes, a
  thread in `stop()` finishes it, and the kernel reports a written eventfd.
* `Server!FairSpec`: the process is scheduled (weak); other descriptors and timers
  become ready again and again; and of the turns of those, one brings the outcome
  for a question that is being resolved (strong, and given such turns only), which
  is `EveryoneAnswered` of `Resolver` with `EveryQueryEnds`. That they get
  turns is what `NothingStarves` is about, and not assumed. Nothing is assumed of
  clients or signals.
* `QueryProcessor!Fairness`: the worker thread runs, and poll timer, SIGHUP
  and result get their turn.

## 4. Proofs

Each theorem holds for every value of the constants, from the named assumptions of
the module it is about (`TaskConstants`, `UpstreamConstants`, `CacheConstants`, `LoopConstants`,
`ListsConstants`, `TcpConstants`, `UdpConstants`, `ServerConstants`: numbers are natural
numbers, and `None` and the like are none of the others; `TaskIsSomething` says the
latter of a task's state; `LimitsAssumption` has a token, a refill, a burst, a window and a
second be something, while a table may have no place at all). `TcpConstants` has `kMaxPipelined > 1` and `kMaxUnsent > 0`
(32 and 256 KiB in the code): with one query at a time `respond()` could find a half-closed
connection finished before its last query is taken up. `ResolverConstants` says how names lie above one
another (reflexive, transitive, all below the root, of any names above another one
the lowest), that what servers send and what hints name is made of names, types and
addresses, and that the name of any name server can be asked for; `LabelsCounted`, that a name
has a number of labels.

| theorem | statement |
|---|---|
| `TasksCorrect` | `TasksSpec => []TasksInv` |
| `CallbacksSafe` | `TasksSpec => []CallbackOwnedOnce`: no callback is lost or held twice |
| `NoTaskLost` | every task not being worked on waits for exactly one thing, which belongs to it |
| `BudgetKept` | `TasksSpec => []BudgetShared`: one budget for a client's query and its sub-queries |
| `DeduplicationExact` | `TasksSpec => []InFlightExact`: `in_flight` is exactly the live client tasks |
| `ImplementsService` | `TasksSpec => ServiceSpec` |
| `ResolverCorrect` | `Resolver!Spec => [](TasksInv /\ ResolutionSound)` |
| `ImplementsTasks`, `ResolverKeepsPromise` | `Resolver!Spec => TasksSpec`, hence `ServiceSpec` |
| `CallersGetAnswers` | `Resolver!Spec => []AnswersTheQuestion` |
| `ChainsKeptShort` | `Resolver!Spec => []ChainBounded`, if `MaxCnameChain + 1 < HopWrap` |
| `NamesStayInZone` | `Resolver!Spec => []NameInZone` |
| `BailiwickKept` | `Resolver!Spec => BailiwickRespected` |
| `QueriesCurrent` | `Resolver!Spec => []QueryIsCurrent` |
| `AncestryKept` | `Resolver!Spec => []AncestryCurrent`, with the type of every variable |
| `TimedOutRetried` | `Resolver!Spec => OnlyTimedOutRetried` |
| `UpstreamLeaksNothing` | `UpstreamSpec => []NothingLeaks` |
| `UpstreamKeepsContract` | `UpstreamSpec => KeepsContract` |
| `CacheShardConsistent`, `CacheServedFresh` | `Cache!Spec => []ShardConsistent`, `[]ServedFresh` |
| `CacheTrustKept`, `CacheEvictsLeastRecent` | `Cache!Spec => TrustKept`, `EvictsLeastRecent` |
| `EventsReachTheirOwn` | `EventLoop!Spec => NoStaleEvent` |
| `RoundsFireWhatIsDue` | `EventLoop!Spec => RoundsAreExact` |
| `ListsUpToDate` | `ListsSpec => []NoChangeMissed` |
| `TcpLimitsExact`, `TcpNoneStranded` | `TcpSpec => []LimitsExact`, `[]NoneStranded` |
| `TcpHalfCloseAnswered` | `TcpSpec => HalfCloseAnswered` |
| `RepliesAreExact` | `UdpSpec => []RepliesExact` |
| `ServesUdp`, `ServerRepliesExact` | `Server!Spec => UdpSpec`, hence `[]RepliesExact` of the whole process |
| `UsesResolver` | `Server!Spec => Resolver!Spec`: the process keeps to the resolver's interface |
| `AnswersAsAsked` | `Server!Spec => AnsweredAsAsked` |
| `ObjectsOutliveUse` | `Server!Spec => []LifetimesNested` |
| `LimitsForgettingInvisible` | `LimitsSpec => []ForgettingInvisible` |
| `LimitsFloodBounded` | `LimitsSpec => []FloodBounded` |

### The resolver's tasks

The inductive invariant is `TasksInv`. None of its parts is inductive alone:

* `CallbackOwnedOnce` needs `InFlightExact` when a client joins (the task found
  must be alive and have that question), and `ThreadConsistent` when a task is
  cancelled (only sub-queries are, and they own no callbacks).
* `EveryTaskWaits` needs `NothingDangles` when the upstream client calls back (the
  task it calls knows of the query), and `DeadHoldNothing` when an id is
  used again.
* `FamiliesLinked` needs `ThreadConsistent`: between `finish()` of a client task
  and the last `cancel()` there is one task whose parent is gone, and it is the
  one in hand.
* `BudgetShared` needs `FamiliesLinked`: a parent and its child share a budget, so
  the family does.

There is a lemma per action, with a step per conjunct. The refinement maps `due`
to the callers of the task `finish()` is busy with. Its core is
`CallersComplete`: at `finish()` everybody waiting for the question is a caller of
that one task, by `CallbackOwnedOnce` and `InFlightExact`.

### Resolution

Every step of `Resolver` is a step of `ResolverTasks` for the task it works on, or
leaves the tasks alone (`ImplementsTasks`); for this the place the thread is at must
fit the call it is in, which is part of `ResolutionSound`. So `TasksInv`, and all that
follows from it, holds of the whole resolver, and so does the promise of
`ResolverService`, whatever servers send.

`ResolutionSound` is the inductive invariant about data: a live task's chain leads,
link by link, from the name asked for to the name it works on, and the hop counter is
its length as long as it cannot wrap; the servers it knows are addresses and the name
servers it has still to look up can be asked for; an entry of the cache has records of
its own name and type; so have the message being handled and the outcome being handed
over. With it, `AnswersTheQuestion` is inductive: records that answer a task's name,
behind a chain that leads to that name, answer its question, and they stay those of
the same question while `finish()` hands them to the clients that joined and to a task
that waits.

`ChainBounded` follows from the counter. Its theorem assumes what section 5 shows to
be needed: that the limit is not the largest the counter can hold.

`NameInZone` is proved with `BelievedInZone`: the message `handle_answers()` works on
was filtered to the zone of the task that runs, and until the first CNAME is followed
the task's name is still in that zone, and the zone in every stub zone the name is in.
`BailiwickRespected` is then a fact about each action that writes to the cache.

`QueryIsCurrent`, `AncestryCurrent` and `OnlyTimedOutRetried` rest on one more inductive
invariant, `Walk` of `ResolverQueriesProofs`:

* `TasksOrderly`: a live task's state has its type, the counters their limits, and a
  server was tried before it timed out; a task that is gone has no state.
* `PlaceKept`: the server in hand is one of the task's, has not timed out, and counts as
  tried if it was asked before. A retry over TCP is not recorded as another try, so
  without this its query might be to a server `next_server()` would pick again.
* `PendingCurrent`: a query in flight is about its task's name, and its server is one of
  the task's. Nothing touches a task's state while it waits for a server: only
  the running task changes its own, and `on_child_done()` that of a parent, which waits
  for a sub-query and so, by `TasksInv`, for no server.
* `TasksNested`: a task's ancestry is its parent's with what the parent works on. A
  parent keeps its name while it waits, since a running task has no sub-query.

A running task ends or goes on (`Goes`), and each way of going on is a `Turn`:
it keeps the ancestry, leaves a server in hand as `PlaceKept` says, and forgets servers
tried only with the zone or with their timeouts. `OnlyTimedOutRetried` is then a fact
about each action. The type of the cache (`CacheTyped`) needs `ResolutionSound`: what is
inserted are records.

### Upstream client

`UpstreamInv` adds to `NothingLeaks` what the contract needs. `InboxExact`: what a
socket received is of the kinds its transport can bring. `WrongCaseExact`: a
query remembers a wrong-case reply only if it matches case, so `CaseMismatch` is
never reported of others. `OutcomeOver`: who was called back is not
pending any more. The refinement maps the contract's open queries to
the domain of `pending_`; a step that ends a query is the contract's `Report`,
`Cancel` or `Drop`. The reads of one wake-up are a prefix of the inbox up to the first
that ends the query; that there is a least one is taken from well-foundedness of
the natural numbers.

### Cache

`CacheInv` has three parts. Of every shard (`ShardOk`): no key is twice in the list, the index is
the keys of the list, the list is in the order of the history variable `newer`, and the byte count
is the sum of the nodes' and within the budget. Of every call under way (`OpOk`): the time it
read is past, and the node it brings is one of that shard, with an expiry in range. Of what was
served (`ServedOk`): the entry had not expired at the time read, and the TTL given ends with it. `TrustKept` and
`EvictsLeastRecent` are then facts about the step that inserts. What it drops is the tail of the
list behind the first places that fit, so everything kept was used after everything dropped, and
with the newest of those dropped the shard would be over budget. `TrustKept` needs that time read
is never ahead of the clock: an entry that lives still was alive for the thread that judged it.

The byte count is the number of pairs of a node and one of its bytes, so that what is known of
cardinalities gives the sum with a node more or less. The facts about finite sets used
are listed once (`FiniteFacts`, also in `LoopProofs` and `LimitsProofs`), are hypotheses of the lemmas, and are
proved of the library at the end.

### Event loop

`LoopInv`: a token is never used again, so that token and registration say the
same, in the table and in the batch (`TokensExact`, all that `NoStaleEvent` needs);
timers are told apart by ids below the next (`TimersTyped`); in a round, a
timer added since is not due before the round's time (`RoundExact`, without which a
round could end at one added since while an older one is due behind it); the ids there
were when the iteration began are below those of the round (`IterationTyped`); and
the time-out `epoll_wait` is given is no earlier than the first deadline, unless it is the
longest an `int` holds, and less than a millisecond later than any deadline
(`TimeoutExact`). Timers are not added while the thread waits, so it stays so.

### Block lists

History variables record which files changed since they were stamped, for the stamps kept
(`altered`) and for the attempt under way (`altering`). A version may come back, so
comparing a file with its stamp does not tell; `ListsInv` therefore speaks of the files that did not
change. The worker stamps a file before it reads it, so one that did not change since it was
stamped was read as it is now; that holds of the worker's copy, of the outcome it leaves and,
once that is collected, of the lists in use. What the worker has read was there to be read, so
a list in use is never one half of an attempt.

### TCP listener

`TcpInv` lists what may be left of a handler, innermost part first (`Handlers`): each ends in
`update()`, and a synchronous answer nests once in front of the rest of
`process_messages()`. Every connection is `Settled` but the one the handler is at work
on, which is `Underway`: what is left in its buffer is about to be processed or behind
`kMaxPipelined` unanswered queries, and keeps a half-closed connection open. `update()`
is the last step of every handler and turns the latter into the former.

### UDP listener and server

`UdpInv` adds to `RepliesExact` that only the listener's own Socket has a descriptor
and nobody else that number (`SocketExact`: destroying the Socket and closing go
together), and that a responder refers to the Socket its query was read from
(`RespondersExact`). A responder's lock succeeds only if its Socket still has its
descriptor; that Socket is then the listener's.

Every step of `Server` is a step of `UdpListener` or leaves its variables alone,
so the listener's theorem carries over. `ServerInv` adds that the queries
owed an answer are exactly those with a responder held, one each. With it
every step is one the resolver's interface allows too (a query is asked of it only
while it is not waiting already), and a response goes to a query read just now or owed.

`MainInv` says where `main()` is: at one of the steps of its program, with the objects
made up to there and the signal handlers set up to there, or on its way out, with the
oldest few objects left, since they are destroyed newest first, and no handler that
uses one. Callbacks are due only while the loop runs.

### Rate limits

`FloodBounded` is a matter of keeping accounts. A free place of the table is worth a full bucket,
since that is what a client new to it gets; the table is worth what its buckets hold and that. This,
the shared bucket, and a token for each query granted, are together never more than
`max_clients + 1` full buckets and what as many are refilled by (`Affordable` of `LimiterInv`):
a query moves worth from a bucket to what was granted, time adds at most a refill, and a
sweep takes away only buckets worth a full one. What a table is worth is never negative, so
`FloodBounded` follows. `RrlInv` does the same for responses: an entry accounts for a cap for each
window before its own and for what it let through in that one, a free place for a cap for each
window so far, and the responses that went out whole are no more than that.

`ForgettingInvisible` compares each table with ideal ones that keep every entry for ever
(`SameLevels`, `Remembered`): a bucket kept and its ideal are filled alike at every later time, and
one that was forgotten is full by now; a response's entry forgotten has an ideal one whose window
is over. That the shared entry is used only in a table full of others that had something to answer
for a second ago needs `LimiterSwept` and `RrlSwept`: no entry in a table was as good as new at the last
sweep. A sweep makes that so, an entry used since is shorter of tokens, or its window later, than it
was, and a new client meets a full table only if it has swept it or somebody did within the second.

### What is checked by TLC only

All liveness, since fairness and ENABLED are out of the prover's reach. What the
recursive operators of `QueryProcessor`, `BlocklistTrie` and `WireReader`
compute, since that needs induction over data, and the prover takes no module
that declares one: `LookupCorrect`, `RoundTrip`, `TruncationHonest`, `ReadsSound` and
`AnswersVetted` are of that kind. `AclExact` needs bit operations.
`SelectionSound` of `ServerSelection` could be proved and is not yet.

Every safety property that a run checks of `ResolverTasks`, `Resolver`, `Upstream`,
`Cache`, `EventLoop`, `TcpListener`, `Blocklists`, `UdpListener`, `Server` and the two limiters is
proved. The inductive
invariants (`ListsInv`, `LoopInv`, `MainInv`, `ServerInv`, `TasksInv`, `TcpInv`, `UdpInv`,
`UpstreamInv`, and what `Walk` says of tasks and queries) also hold in the instances of
their runs.

## 5. Where the code does not do what is said of it

* `hopwrap`: `cname_hops` is a `uint8_t` (`recursive_resolver.cpp:156`) and is
  compared with `max_cname_chain`, for which `config.cpp:344` accepts 255. At 255
  the counter wraps to 0 and the comparison never stops the chain; the README
  promises "Hard caps on referral depth, CNAME chain length, and total upstream
  queries per client query" (`src/README.md:478`). A chain that takes queries to
  follow still ends by the deadline or the query budget. One that closes within a
  response (`recursive_resolver.cpp:651`) or, until its entries expire, within the
  cache (`:350`) does not: the loop that follows it does not return to the event
  loop, where the deadline would strike. With any smaller limit `ChainBounded` holds (`walk`, `ChainsKeptShort`).
* `tcpdrop`: "close a connection that sends no complete query for this long"
  (`tcp_listener.h:24`). The idle timer is set again while answers are owed
  (`tcp_listener.cpp:292`), and with `DenyAction::Drop` (`query_processor.cpp:97-109`)
  an answer is owed for ever: the connection stays until its client closes it.
  `EveryConnectionEnds` of `connections` has just this exception.
* `sameround`: "A timer added by a callback fires no earlier than the next
  iteration, so zero-delay timers can't starve I/O" (`event_loop.h:59-60`). A
  round's limit on ids is taken when it begins (`event_loop.cpp:156`), after the I/O
  callbacks of its iteration; a timer one of those added may fire in it. One added by
  a timer's callback does wait (`RoundsAreExact`), so I/O is not starved.

## 6. Where comments and code differ

Noted while modelling; the models follow the code.

* `recursive_resolver.h:125-126`: "this keeps at most one upstream query
  outstanding per question". Only client questions are deduplicated; a sub-query
  (`recursive_resolver.cpp:470`) may ask what a client's task is asking too.
* `blocklists.cpp:58`: "even on failure: don't retry until the files change again".
  "Change" is what `stat()` shows. A file that could not be opened and then can, or
  that was read while it was another and then put back, has the stamp kept for it,
  and so waits for another change or a SIGHUP (`GaveUp` in `Converges`). The design
  says so of failures (`implementation_plan_dnsentinal.md:688`).
* `server_selection.h`, `kMaxSrtt`: failures raise an estimate up to this bound,
  measurements do not know it. After a round trip longer than the bound a timeout
  lowers the estimate to it.
* A client, or a response, that the full table of a limiter has no place for is
  decided on by the shared entry, and may be refused what an entry of its own would
  have let through. `ForgettingInvisible` says when that can happen.
* `main.cpp:4`: "SIGHUP reloads the block lists." A SIGHUP during a reload
  (`main.cpp:275`) starts no other one; a change made after its file was
  read is then found by the next poll, or, with polling off
  (`blocklists.h:42-43`: "0 = reload only on SIGHUP"), by the next SIGHUP. Run
  `policy` has polling on.

## 7. Not modelled

* 0x20 encoding: a pure function with a random source. Whether it is used, and what
  a mismatch leads to, is in `Resolver` and `Upstream`.
* Root hints and configuration: files read once, without state. The ranges the
  configuration accepts bound the constants (see 5).
* Of the wire format: header bits other than TC, OPT's contents, and names as text.
* Of `main()`: `prime_root`, which is one more client of the resolver; the TCP
  listener, which has its own module and in `Server` is an object with a lifetime
  only; logging and statistics; stopping the list worker at exit.
* `modify_fd`, failures of `epoll_ctl` after registration, partial TCP frames, the TCP
  listener's destructor.
* The analyzer, dashboard and machine learning of the design documents: no code.

## 8. Plan

Done, most important first: tasks and resolution and their proofs, upstream client, cache, TCP
listener and event loop with their proofs, lists (with a proof) and query processor, UDP listener
and server with their proofs, limiters with theirs, server selection, trie, wire format, access
list.

Next, in the model:
1. `Resolver` against `UpstreamContract` itself instead of its result set.
2. Partial frames and the destructor in `TcpListener`; worker shutdown in
   `Blocklists`.
3. TCP clients in `Server`.

Next, in proofs:
1. `ServerSelection`: `MemoryExact` and `Recovers`.
2. `Resolver` with `UpstreamContract` in place of its result set, once the model has it.

----------------------------- MODULE Blocklists -----------------------------
(***************************************************************************)
(* Reloading the block and allow lists (core/policy/blocklists.cpp, and    *)
(* the timers and the SIGHUP eventfd that core/main.cpp wires to it).      *)
(*                                                                         *)
(* A file is its version, 0 when there is none.  A FileStamp (exists,      *)
(* device, inode, size, mtime) tells versions apart, so it is the version  *)
(* too; a file that is moved away and back has its old stamp again.  What  *)
(* stat() says does not depend on whether the file can be opened: that may *)
(* fail for want of permission or of descriptors.  A trie is the versions  *)
(* it was built from.  The worker thread takes stamps and reads files one  *)
(* at a time while others change them.                                     *)
(***************************************************************************)
EXTENDS Naturals

CONSTANTS
  NumFiles,     \* list files, in the order they are read
  Fragile,      \* files that may also be missing, or impossible to open
  Polling,      \* reload_check_seconds > 0
  MaxVersion    \* bound: versions of one file

ASSUME ListsConstants ==
  /\ NumFiles \in Nat \ {0} /\ MaxVersion \in Nat \ {0}
  /\ Fragile \subseteq 1..NumFiles /\ Polling \in BOOLEAN

Files == 1..NumFiles
Versions == 0..MaxVersion
Unread == [f \in Files |-> 0]

VARIABLES
  files,           \* [Files -> version now]
  locked,          \* files that can't be opened now
  sighup,          \* the reload eventfd was written
  trie_,           \* versions of the lists in use
  stamps_,         \* stamps of the last attempt
  reloading_,
  worker,          \* the worker thread: at which file, its stamps, what it read
  finished_,       \* attempts whose outcome waits to be collected
  collecting,      \* the collect_reload timer is armed
  loaded,          \* history: the last attempt succeeded
  altered,         \* history: files changed since they were stamped for stamps_ ...
  altering         \* ... and for the attempt that is under way

outside == <<files, locked>>
lists == <<trie_, stamps_, reloading_, loaded, altered>>
listsVars == <<outside, sighup, lists, worker, finished_, collecting, altering>>

NoWorker == [at |-> "none", i |-> 1, stamps |-> Unread, read |-> Unread]

Attempt(ok, w) == [ok |-> ok, stamps |-> w.stamps, read |-> w.read]

ListsAfter(a) == IF a.ok THEN a.read ELSE trie_

\* use(): the stamps even of a failed attempt, the lists of a good one.
use(a) ==
  /\ stamps_' = a.stamps
  /\ trie_' = ListsAfter(a)
  /\ loaded' = a.ok /\ altered' = altering /\ altering' = {}

\* main() loads the lists before it runs the loop, and gives up if it can't: the
\* daemon starts with every file read.  (What files that change during that load lead
\* to, a SIGHUP's reload leads to as well.)
ListsInit ==
  /\ files = [f \in Files |-> 1] /\ locked = {}
  /\ sighup = FALSE
  /\ trie_ = files /\ stamps_ = files
  /\ reloading_ = FALSE
  /\ worker = NoWorker /\ finished_ = {}
  /\ collecting = FALSE
  /\ loaded = TRUE /\ altered = {} /\ altering = {}

----------------------------------------------------------------------------
(* The world *)

\* A file is written, replaced, removed, created, or put back as it was.
Change(f, version) ==
  /\ version # files[f] /\ (version = 0 => f \in Fragile)
  /\ files' = [files EXCEPT ![f] = version]
  /\ altered' = altered \cup {f}
  /\ altering' = IF reloading_ THEN altering \cup {f} ELSE {}
  /\ UNCHANGED <<locked, sighup, trie_, stamps_, reloading_, worker, finished_, collecting, loaded>>

\* chmod, or the process is short of descriptors, or no more so: no stamp tells.
Access(f) ==
  /\ f \in Fragile
  /\ locked' = IF f \in locked THEN locked \ {f} ELSE locked \cup {f}
  /\ UNCHANGED <<files, sighup, lists, worker, finished_, collecting, altering>>

Sighup ==
  /\ ~sighup /\ sighup' = TRUE
  /\ UNCHANGED <<outside, lists, worker, finished_, collecting, altering>>

----------------------------------------------------------------------------
(* The worker thread: read_lists() *)

ReadFirst == <<"read", "stamp">>   \* wrong: the stamps are taken after reading

Phases == <<"stamp", "read">>

\* Where the worker is after file i of phase at.
After(at, i) ==
  IF i < NumFiles THEN [at |-> at, i |-> i + 1]
  ELSE [at |-> IF at = Phases[1] THEN Phases[2] ELSE "done", i |-> 1]

Moved(w) ==
  [w EXCEPT !.at = After(w.at, w.i).at, !.i = After(w.at, w.i).i]

stamp_files ==
  /\ worker.at = "stamp"
  /\ worker' = Moved([worker EXCEPT !.stamps[worker.i] = files[worker.i]])
  /\ altering' = altering \ {worker.i}
  /\ UNCHANGED <<outside, sighup, lists, finished_, collecting>>

CanOpen(f) == files[f] # 0 /\ f \notin locked

\* The opening of load_file(): a file that can't be opened ends the attempt.  (What
\* becomes of its lines is module BlocklistTrie's.)
load_file ==
  /\ worker.at = "read"
  /\ IF CanOpen(worker.i)
       THEN /\ worker' = Moved([worker EXCEPT !.read[worker.i] = files[worker.i]])
            /\ UNCHANGED finished_
       ELSE finished_' = {Attempt(FALSE, worker)} /\ worker' = NoWorker
  /\ UNCHANGED <<outside, sighup, lists, collecting, altering>>

WorkerEnds ==
  /\ worker.at = "done"
  /\ finished_' = {Attempt(TRUE, worker)} /\ worker' = NoWorker
  /\ UNCHANGED <<outside, sighup, lists, collecting, altering>>

----------------------------------------------------------------------------
(* The event-loop thread *)

MayReload == ~reloading_

\* reload(), with start_reload(): one at a time, and others are turned away.
reload ==
  IF MayReload
    THEN /\ reloading_' = TRUE
         /\ worker' = [NoWorker EXCEPT !.at = Phases[1]]
         /\ collecting' = TRUE
         /\ UNCHANGED <<trie_, stamps_, loaded, altered>>
    ELSE UNCHANGED <<lists, worker, collecting>>

files_changed == files # stamps_

\* The check_files timer, which is always armed again.
check_files ==
  /\ Polling /\ files_changed
  /\ reload
  /\ UNCHANGED <<outside, sighup, finished_, altering>>

OnSighup ==
  /\ sighup /\ sighup' = FALSE
  /\ reload
  /\ UNCHANGED <<outside, finished_, altering>>

CollectOnce == FALSE   \* wrong: the timer is not armed again

CollectAgain == TRUE

\* The collect_reload timer, with finish_reload().
collect_reload ==
  /\ collecting
  /\ IF finished_ = {}
       THEN collecting' = CollectAgain /\ UNCHANGED <<lists, finished_, altering>>
       ELSE /\ \E a \in finished_ : use(a)
            /\ finished_' = {} /\ reloading_' = FALSE /\ collecting' = FALSE
  /\ UNCHANGED <<outside, sighup, worker>>

----------------------------------------------------------------------------
Worker == stamp_files \/ load_file \/ WorkerEnds

ListsNext ==
  \/ \E f \in Files : Access(f) \/ \E version \in Versions : Change(f, version)
  \/ Sighup
  \/ Worker
  \/ check_files \/ OnSighup \/ collect_reload

ListsSpec == ListsInit /\ [][ListsNext]_listsVars

----------------------------------------------------------------------------
\* There is a worker or an outcome only while reloading_, never both, and the
\* timer that collects the outcome is armed.  "On success the new lists are in use
\* from now on; on failure the old ones still are": every list in use was read, and
\* never half of an attempt.  And no change is missed, although the worker reads
\* files while they are being changed: one that did not change since it was stamped
\* is what its stamp says, so files_changed() starts no needless reload for it, and,
\* unless the last attempt failed, is in use as it is now.  One that did change is
\* found by its stamp, if it was not put back as it was.
NoChangeMissed ==
  /\ {files, trie_, stamps_, worker.stamps, worker.read} \subseteq [Files -> Versions]
  /\ reloading_ = (worker.at # "none" \/ finished_ # {})
  /\ worker.at = "none" \/ finished_ = {}
  /\ reloading_ => collecting
  /\ \A f \in Files : trie_[f] # 0
  /\ \A f \in Files \ altered : stamps_[f] = files[f] /\ (loaded => trie_[f] = files[f])

\* "don't retry until the files change again": no stamp differs, although a file
\* could not be read, or was read in a state it was then brought back from.
GaveUp == ~files_changed /\ (~loaded \/ altered # {})

\* With the periodic check, once the files stay as they are and can be opened, the
\* lists in use come to be their content, unless the code has given up; and they do
\* in any case if SIGHUPs keep coming.
Converges ==
  \A version \in [Files -> 1..MaxVersion] :
    <>[](files = version /\ locked = {}) =>
      /\ <>[](trie_ = version \/ GaveUp)
      /\ []<>sighup => <>[](trie_ = version)

----------------------------------------------------------------------------
(* Why NoChangeMissed holds *)

AlreadyStamped(f) == worker.at \in {"read", "done"} \/ (worker.at = "stamp" /\ f < worker.i)

AlreadyRead(f) == worker.at = "done" \/ (worker.at = "read" /\ f < worker.i)

\* The inductive invariant.  A file is stamped before it is read, so one that did not
\* change since it was stamped was read as it is now.
ListsInv ==
  /\ NoChangeMissed
  /\ worker \in [at : {"none", "stamp", "read", "done"}, i : Files,
                 stamps : [Files -> Versions], read : [Files -> Versions]]
  /\ finished_ \subseteq [ok : BOOLEAN, stamps : [Files -> Versions], read : [Files -> Versions]]
  /\ \A f \in Files \ altering :
       /\ AlreadyStamped(f) => worker.stamps[f] = files[f]
       /\ AlreadyRead(f) => worker.read[f] = files[f]
  /\ \A f \in Files : AlreadyRead(f) => worker.read[f] # 0
  /\ \A a \in finished_ :
       /\ \A f \in Files \ altering : a.stamps[f] = files[f] /\ (a.ok => a.read[f] = files[f])
       /\ a.ok => \A f \in Files : a.read[f] # 0
============================================================================

----------------------------- MODULE ObjectCache -----------------------------
(* The projection's caches of baseline blobs (crates/worktree/src/lib.rs): the *)
(* size cache behind getattr, the files of cache_dir behind open, the lock per *)
(* object id that both fault under, and the two read-ahead pools that warm a   *)
(* directory's siblings. One directory; its names stand for their object ids.  *)
(* A fetch may fail, and the process may be killed and mount again.            *)
EXTENDS Integers, FiniteSets, FiniteSetsExt

CONSTANTS
  Blobs,      \* the directory's files, each with its own object id
  Binary,     \* those content_priority skips
  Size,       \* size of each blob
  Readers,    \* threads of the FUSE object-IO pool
  Sizers,     \* threads of prefetch_pool
  Warmers,    \* threads of hydrate_pool
  Nobody,     \* holder of a free lock
  Dir,        \* the job that fans out over the directory; the blob of no task
  PREFETCH_DIR_THRESHOLD, PREFETCH_BYTE_BUDGET, HYDRATE_BYTE_BUDGET,
  DIR_CAP,            \* PREFETCH_DIR_CAP and HYDRATE_DIR_CAP
  HYDRATE_LARGE_BLOB,
  Writable,   \* bound: files that are opened for writing
  MaxFails,   \* bound: fetches and renames that fail
  MaxCrashes  \* bound: kills

Threads == Readers \union Sizers \union Warmers

ASSUME CacheAssumption ==
  /\ Binary \subseteq Blobs /\ Writable \subseteq Blobs /\ Dir \notin Blobs /\ Nobody \notin Threads
  /\ Size \in [Blobs -> Nat \ {0}]
  /\ IsFiniteSet(Blobs) /\ IsFiniteSet(Threads)
  /\ Readers \intersect Sizers = {} /\ Readers \intersect Warmers = {}
  /\ Sizers \intersect Warmers = {}

ASSUME BudgetAssumption ==
  /\ PREFETCH_BYTE_BUDGET \in Nat \ {0} /\ HYDRATE_BYTE_BUDGET \in Nat \ {0}
  /\ Blobs # {}

VARIABLES
  local,      \* blobs in the promisor store
  sizes,      \* blobs in size_cache
  final,      \* the file cache_dir/<oid> of each blob: "none", "torn" or "whole"
  lock,       \* inflight: who holds each object's lock
  task,       \* what each thread is doing, where it is, and on which blob
  sizeJobs,   \* jobs queued in prefetch_pool
  warmJobs,   \* jobs queued in hydrate_pool
  armed,      \* read-ahead kinds this directory has been armed for
  stats,      \* dir_stat_counts, up to the threshold
  size_faults, prefetch_bytes, hydrate_bytes,
  shadowed,   \* names the overlay decides
  fails, crashes

pools    == <<sizeJobs, warmJobs, armed, stats>>
counters == <<size_faults, prefetch_bytes, hydrate_bytes>>
faults   == <<fails, crashes>>
vars == <<local, sizes, final, lock, task, pools, counters, shadowed, faults>>

Idle == [op |-> "idle", pc |-> "idle", blob |-> Dir]
Cached(b) == final[b] # "none"

\* What survives the process, and what it starts with.
InitProcess ==
  /\ sizes = {} /\ lock = [b \in Blobs |-> Nobody] /\ task = [t \in Threads |-> Idle]
  /\ sizeJobs = {} /\ warmJobs = {} /\ armed = {} /\ stats = 0
  /\ size_faults = 0 /\ prefetch_bytes = 0 /\ hydrate_bytes = 0

Init ==
  /\ InitProcess
  /\ local = {} /\ final = [b \in Blobs |-> "none"] /\ shadowed = {}
  /\ fails = 0 /\ crashes = 0

At(t, pc) == task[t].pc = pc
Go(t, pc) == task' = [task EXCEPT ![t].pc = pc]
End(t)    == task' = [task EXCEPT ![t] = Idle]
Begin(t, op, pc, b) == task' = [task EXCEPT ![t] = [op |-> op, pc |-> pc, blob |-> b]]
Unlock(b) == lock' = [lock EXCEPT ![b] = Nobody]

-----------------------------------------------------------------------------
(* cached_size. *)

\* A getattr or lookup reaches a baseline blob: the size cache first.
Stat(r, b) ==
  /\ At(r, "idle") /\ b \notin shadowed
  /\ Begin(r, "stat", IF b \in sizes THEN "statted" ELSE "sizeWait", b)
  /\ UNCHANGED <<local, sizes, final, lock, pools, counters, shadowed, faults>>

SizeKnown(t) == IF task[t].op = "stat" THEN "statted" ELSE "charge"

\* Under the object's lock, the cache again: another caller may have faulted it.
LockSizeBlind(t) ==                               \* mutant of LockSize: no second look
  LET b == task[t].blob IN
  /\ At(t, "sizeWait") /\ lock[b] = Nobody
  /\ lock' = [lock EXCEPT ![b] = t] /\ Go(t, "sizeFetch")
  /\ UNCHANGED <<local, sizes, final, pools, counters, shadowed, faults>>

LockSize(t) ==
  LET b == task[t].blob IN
  /\ At(t, "sizeWait") /\ lock[b] = Nobody
  /\ \/ b \in sizes /\ Go(t, SizeKnown(t)) /\ UNCHANGED lock
     \/ b \notin sizes /\ Go(t, "sizeFetch") /\ lock' = [lock EXCEPT ![b] = t]
  /\ UNCHANGED <<local, sizes, final, pools, counters, shadowed, faults>>

\* object_size: `cat-file -s` faults the blob into the promisor store.
FetchSize(t) ==
  LET b == task[t].blob IN
  /\ At(t, "sizeFetch")
  /\ local' = local \union {b} /\ sizes' = sizes \union {b}
  /\ size_faults' = size_faults + 1
  /\ Unlock(b) /\ Go(t, SizeKnown(t))
  /\ UNCHANGED <<final, pools, prefetch_bytes, hydrate_bytes, shadowed, faults>>

-----------------------------------------------------------------------------
(* materialize_path_inner. *)

\* An open for reading, or for writing without O_TRUNC (the copy-up's seed).
Open(r, op, b) ==
  /\ At(r, "idle") /\ b \notin shadowed /\ (op = "write" => b \in Writable)
  /\ Begin(r, op, IF Cached(b) THEN "opened" ELSE "openWait", b)
  /\ UNCHANGED <<local, sizes, final, lock, pools, counters, shadowed, faults>>

Opened(t) == IF task[t].op = "warm" THEN "charge" ELSE "opened"

LockInPlace(t) ==                                 \* mutant of LockOpen: no temporary file
  LET b == task[t].blob IN
  /\ At(t, "openWait") /\ lock[b] = Nobody
  /\ \/ Cached(b) /\ Go(t, Opened(t)) /\ UNCHANGED <<lock, final>>
     \/ /\ ~Cached(b) /\ Go(t, "fetch") /\ lock' = [lock EXCEPT ![b] = t]
        /\ final' = [final EXCEPT ![b] = "torn"]
  /\ UNCHANGED <<local, sizes, pools, counters, shadowed, faults>>

\* Under the lock, the published file again; then the temporary file.
LockOpen(t) ==
  LET b == task[t].blob IN
  /\ At(t, "openWait") /\ lock[b] = Nobody
  /\ \/ Cached(b) /\ Go(t, Opened(t)) /\ UNCHANGED lock
     \/ ~Cached(b) /\ Go(t, "fetch") /\ lock' = [lock EXCEPT ![b] = t]
  /\ UNCHANGED <<local, sizes, final, pools, counters, shadowed, faults>>

\* blob_to_file: git has written all of the temporary file.
Fetch(t) ==
  /\ At(t, "fetch")
  /\ local' = local \union {task[t].blob} /\ Go(t, "publish")
  /\ UNCHANGED <<sizes, final, lock, pools, counters, shadowed, faults>>

Publish(t) ==
  LET b == task[t].blob IN
  /\ At(t, "publish")
  /\ final' = [final EXCEPT ![b] = "whole"]
  /\ Unlock(b) /\ Go(t, Opened(t))
  /\ UNCHANGED <<local, sizes, pools, counters, shadowed, faults>>

\* Offline, or the promisor refuses, or the rename fails: the error goes up, the
\* lock is released, a half-written temporary file may stay.
FailLocked(t) ==                                  \* mutant of Fail: the lock is kept
  /\ fails < MaxFails
  /\ \/ task[t].pc \in {"sizeFetch", "fetch"} /\ task[t].blob \notin local
     \/ At(t, "publish")
  /\ fails' = fails + 1 /\ End(t)
  /\ UNCHANGED <<local, sizes, final, lock, pools, counters, shadowed, crashes>>

Fail(t) ==
  /\ fails < MaxFails
  /\ \/ task[t].pc \in {"sizeFetch", "fetch"} /\ task[t].blob \notin local
     \/ At(t, "publish")
  /\ fails' = fails + 1 /\ Unlock(task[t].blob) /\ End(t)
  /\ UNCHANGED <<local, sizes, final, pools, counters, shadowed, crashes>>

-----------------------------------------------------------------------------
(* Arming the read-ahead. *)

\* prefetch_siblings, after the reply: enough stats in the directory, budget
\* left, not armed yet.
PrefetchSiblings(r) ==
  /\ At(r, "statted")
  /\ stats' = IF stats < PREFETCH_DIR_THRESHOLD THEN stats + 1 ELSE stats
  /\ IF /\ stats' = PREFETCH_DIR_THRESHOLD
        /\ prefetch_bytes < PREFETCH_BYTE_BUDGET /\ "sizes" \notin armed
       THEN armed' = armed \union {"sizes"} /\ sizeJobs' = sizeJobs \union {Dir}
       ELSE UNCHANGED <<armed, sizeJobs>>
  /\ End(r)
  /\ UNCHANGED <<local, sizes, final, lock, warmJobs, counters, shadowed, faults>>

\* The end of an open for reading: readahead_on_open, the handle, the reply.
ReadaheadOnOpen(r) ==
  /\ At(r, "opened") /\ task[r].op = "read"
  /\ IF hydrate_bytes < HYDRATE_BYTE_BUDGET /\ "content" \notin armed
       THEN armed' = armed \union {"content"} /\ warmJobs' = warmJobs \union {Dir}
       ELSE UNCHANGED <<armed, warmJobs>>
  /\ End(r)
  /\ UNCHANGED <<local, sizes, final, lock, sizeJobs, stats, counters, shadowed, faults>>

\* The end of an open for writing: the copy-up shadows the name.
CopyUp(r) ==
  /\ At(r, "opened") /\ task[r].op = "write"
  /\ shadowed' = shadowed \union {task[r].blob}
  /\ End(r)
  /\ UNCHANGED <<local, sizes, final, lock, pools, counters, faults>>

-----------------------------------------------------------------------------
(* The jobs of the pools. *)

\* warm_dir_siblings and warm_dir_content_siblings walk the tree and spawn a job
\* per eligible sibling, up to the cap; they stop early when the budget is spent
\* on the way.
FanOut(eligible, spent, jobs) ==
  \E S \in SUBSET eligible :
    /\ Cardinality(S) <= DIR_CAP
    /\ spent => S = {}
    /\ jobs' = (jobs \ {Dir}) \union S

WarmDirSiblings(s) ==
  /\ At(s, "idle") /\ Dir \in sizeJobs
  /\ FanOut(Blobs \ (shadowed \union sizes), prefetch_bytes >= PREFETCH_BYTE_BUDGET, sizeJobs)
  /\ UNCHANGED <<local, sizes, final, lock, task, warmJobs, armed, stats, counters, shadowed, faults>>

KnownLarge == {b \in sizes : Size[b] > HYDRATE_LARGE_BLOB}

WarmDirContentSiblings(w) ==
  /\ At(w, "idle") /\ Dir \in warmJobs
  /\ FanOut({b \in Blobs : ~Cached(b)} \ (Binary \union shadowed \union KnownLarge),
            hydrate_bytes >= HYDRATE_BYTE_BUDGET, warmJobs)
  /\ UNCHANGED <<local, sizes, final, lock, task, sizeJobs, armed, stats, counters, shadowed, faults>>

\* A size job: the budget again, then cached_size.
SizeJobBlind(s) ==                                \* mutant of SizeJob: no budget check
  \E b \in sizeJobs \ {Dir} :
    /\ At(s, "idle") /\ sizeJobs' = sizeJobs \ {b}
    /\ Begin(s, "size", IF b \in sizes THEN "charge" ELSE "sizeWait", b)
    /\ UNCHANGED <<local, sizes, final, lock, warmJobs, armed, stats, counters, shadowed, faults>>

SizeJob(s) ==
  \E b \in sizeJobs \ {Dir} :
    /\ At(s, "idle") /\ sizeJobs' = sizeJobs \ {b}
    /\ IF prefetch_bytes >= PREFETCH_BYTE_BUDGET
         THEN UNCHANGED task
         ELSE Begin(s, "size", IF b \in sizes THEN "charge" ELSE "sizeWait", b)
    /\ UNCHANGED <<local, sizes, final, lock, warmJobs, armed, stats, counters, shadowed, faults>>

\* A content job: the budget and the overlay again, then the file.
WarmJob(w) ==
  \E b \in warmJobs \ {Dir} :
    /\ At(w, "idle") /\ warmJobs' = warmJobs \ {b}
    /\ IF hydrate_bytes >= HYDRATE_BYTE_BUDGET \/ b \in shadowed
         THEN UNCHANGED task
         ELSE Begin(w, "warm", IF Cached(b) THEN "charge" ELSE "openWait", b)
    /\ UNCHANGED <<local, sizes, final, lock, sizeJobs, armed, stats, counters, shadowed, faults>>

\* The job charges its budget, fetched or found.
Charge(t) ==
  /\ At(t, "charge")
  /\ IF task[t].op = "size"
       THEN /\ prefetch_bytes' = prefetch_bytes + Size[task[t].blob]
            /\ UNCHANGED hydrate_bytes
       ELSE /\ hydrate_bytes' = hydrate_bytes + Size[task[t].blob]
            /\ UNCHANGED prefetch_bytes
  /\ End(t)
  /\ UNCHANGED <<local, sizes, final, lock, pools, size_faults, shadowed, faults>>

-----------------------------------------------------------------------------
\* SIGKILL and a new mount over the same cache_dir: temporary files stay behind,
\* under names the next process truncates when it reuses them.
Crash ==
  /\ crashes < MaxCrashes /\ crashes' = crashes + 1
  /\ sizes' = {} /\ lock' = [b \in Blobs |-> Nobody] /\ task' = [t \in Threads |-> Idle]
  /\ sizeJobs' = {} /\ warmJobs' = {} /\ armed' = {} /\ stats' = 0
  /\ size_faults' = 0 /\ prefetch_bytes' = 0 /\ hydrate_bytes' = 0
  /\ UNCHANGED <<local, final, shadowed, fails>>

Continue(t) ==
  \/ LockSize(t) \/ FetchSize(t) \/ LockOpen(t) \/ Fetch(t) \/ Publish(t)
  \/ PrefetchSiblings(t) \/ ReadaheadOnOpen(t) \/ CopyUp(t) \/ Charge(t)

Next ==
  \/ \E r \in Readers, b \in Blobs :
       Stat(r, b) \/ \E op \in {"read", "write"} : Open(r, op, b)
  \/ \E t \in Threads : Continue(t) \/ Fail(t)
  \/ \E s \in Sizers  : WarmDirSiblings(s) \/ SizeJob(s)
  \/ \E w \in Warmers : WarmDirContentSiblings(w) \/ WarmJob(w)
  \/ Crash

Spec == Init /\ [][Next]_vars

\* A thread that can go on does. The lock of an object is not fair, but a thread
\* loses it only to one that succeeds, after which nobody needs it, or that fails.
FairSpec == Spec /\ \A t \in Threads : WF_vars(Continue(t))
-----------------------------------------------------------------------------
(* Properties *)

Places == {"idle", "sizeWait", "sizeFetch", "statted", "openWait", "fetch", "publish",
           "opened", "charge"}

\* Types of the caches, the locks, the tasks and the queues.
TypeOK ==
  /\ local \subseteq Blobs /\ sizes \subseteq local /\ shadowed \subseteq Blobs
  /\ final \in [Blobs -> {"none", "torn", "whole"}]
  /\ lock \in [Blobs -> Threads \union {Nobody}]
  /\ task \in [Threads -> [op : {"idle", "stat", "read", "write", "size", "warm"},
                           pc : Places, blob : Blobs \union {Dir}]]
  /\ sizeJobs \subseteq Blobs \union {Dir} /\ warmJobs \subseteq Blobs \union {Dir}
  /\ armed \subseteq {"sizes", "content"} /\ stats \in 0 .. PREFETCH_DIR_THRESHOLD
  /\ size_faults \in Nat /\ prefetch_bytes \in Nat /\ hydrate_bytes \in Nat
  /\ fails \in 0 .. MaxFails /\ crashes \in 0 .. MaxCrashes

Fetching(t) == task[t].pc \in {"sizeFetch", "fetch", "publish"}

\* Whoever faults a blob, for its size or for its content, for a caller or ahead
\* of one, is alone at it.
SingleFlight ==
  \A s, t \in Threads : Fetching(s) /\ Fetching(t) /\ task[s].blob = task[t].blob => s = t

\* "A real getattr and a speculative sibling prefetch of the same oid fault the
\* blob exactly once": the counter the measurements read counts blobs.
FaultedOnce == size_faults = Cardinality(sizes)

\* "A partial file is never used": an open that succeeds, and the seed of a
\* copy-up, find all of the blob, whatever was fetching, failing or killed.
ServedWhole == \A t \in Threads : task[t].op \in {"read", "write"} /\ At(t, "opened")
                                   => final[task[t].blob] = "whole"

MaxSize == Max({Size[b] : b \in Blobs})

\* The read-ahead budgets are checked before a fetch and charged after it: they
\* are overshot by at most what the pool's threads have in flight.
BudgetsHold ==
  /\ prefetch_bytes < PREFETCH_BYTE_BUDGET + Cardinality(Sizers) * MaxSize
  /\ hydrate_bytes < HYDRATE_BYTE_BUDGET + Cardinality(Warmers) * MaxSize

\* Every stat and every open is answered, by data or by an error, however many
\* callers and read-ahead jobs want the same object.
CallersAnswered == \A r \in Readers : ~At(r, "idle") ~> At(r, "idle")
=============================================================================

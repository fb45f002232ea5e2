# TLA+ models of git-lazy-mount

git-lazy-mount serves a Git working tree through FUSE without checking it out: files are
fetched when they are read, edits go to a local overlay, and a change journal tells stock `git`
which paths to look at. This directory models the parts whose correctness depends on the order
of things: threads of the object-IO pool, `git` processes reading what the daemon writes,
crashes, failing disk calls and restarts.

## The system

| part | source | state | operations | used by |
|---|---|---|---|---|
| FUSE front end | `fuse/src/mount.rs` | handle table, directory snapshots | one per FUSE callback, most of them handed to the pool | kernel |
| projection | `worktree/src/lib.rs` | baseline tree pinned at start, overlay, inode table, journal, caches | lookup, getattr, readdir, open, create, truncate, unlink, mkdir, rmdir, rename, symlink, chmod | front end |
| overlay | `worktree/src/overlay.rs` | `meta/<id>.json`, `content/<id>`, index in memory | create_file, put_*, tombstone, clear, rename, set_executable, open | projection |
| change journal | `worktree/src/journal.rs` | `changes.log`, `base`, window in memory | open, record, prune, query | projection (writes), hook (reads) |
| FSMonitor hook | `cli/src/bin/fsmonitor_hook.rs` | none; the token lives in git's index | open, query, full invalidation | git |
| inode table | `fs-common/src/inode.rs` | path_to_ino, entries, next number | lookup, path_of, forget, rename, unlink | projection |
| worker pool | `fs-common/src/pool.rs` | job queue, threads | spawn, drop | front end, read-ahead |
| blob cache, read-ahead | `worktree/src/lib.rs` 518-781, 1006-1060 | published blobs, sizes, per-object locks, armed directories, budgets | cached_size, materialize, prefetch_siblings, readahead_on_open | projection |
| git object store | `git-store/src/store.rs`, `batch.rs`, `proc.rs` | one shared cat-file session, tree cache | read_tree, object_size, blob_to_file | projection |
| admin repository, CLI | `git-repo/src/lib.rs`, `cli/src/main.rs` | the git directory, hooks, the serve child | mount, serve, unmount, commit hooks | user |
| sgrep | `sgrep/src` | result cache | query providers, replace hits of edited paths | user |

How they meet: the kernel sends callbacks; the front end runs them on a fixed pool, so two
callbacks may overlap wherever the kernel does not hold a directory or inode lock across both.
A mutation is first recorded in the journal (fsync), then applied to the overlay (content file,
staged sidecar, rename, index), then to the inode table, then answered. `git` starts a hook
process for each query; it opens the journal files with no lock against the daemon. Nothing is
checkpointed at exit: a restart replays `meta/` and `changes.log`.

What is hard, and what correctness means there:

* journal: two files replaced one after the other, read by other processes; answers must be
  *inclusive* (every acknowledged change git has not heard of, or `/`).
* overlay: every operation is several disk calls; an interrupted or failed one must not harm
  other paths, and an answered one must survive a restart.
* inode table: a callback resolves a path first and numbers it later; numbers must not be
  reused, freed while the kernel holds them, or passed from one file to another.
* projection: mutations overlaid on an immutable tree, including directories moved and created
  again; it must behave as a POSIX tree.
* caches, pool, session: single flight, budgets, shutdown, and re-synchronising after an error.

## Modules

| module | models | abstraction |
|---|---|---|
| `ChangeJournal` | daemon, hook and git around the journal's files | a record is the ordinal of its append; a file is the sequence of records it holds |
| `EditJournal` | mutations that record first and apply later, writes through open handles, the journal's window | the journal as `ChangeJournal` promises it: numbered records, the latest of them kept |
| `GitStatus` | git status, add and commit over `EditJournal`, the FSMonitor hook, the commit acceleration hooks | a command runs alone; its steps interleave with mutations; contents are model values |
| `InodeTable` | the table under lookup, getattr, create, unlink, rename, forget | one directory of names; the kernel's references counted per number |
| `OverlayStore` | write callbacks as lists of disk calls | one directory of names; a file's bytes are a blob's name or the number of a write |
| `WorkingTree` | the namespace: overlay entries over the baseline's nested trees, directory renames included | a callback is one step; a blob is named by its baseline path; no modes |
| `PosixTree` | what a user is promised: a tree of names and the POSIX callbacks on it | abstract |
| `ObjectCache` | size cache, published blobs, single flight, read-ahead jobs and budgets | one directory; a file is none, torn or whole |
| `TreeReader` | the tree cache, the shared `cat-file` session, the one-shot fallback | the two pipes as sequences of requests, headers and bodies |
| `WorkerPool` | the queue, the threads, panics, `Drop` on any thread | a job is a name; the owner is the set of threads that hold it |
| `FrontEnd` | the dispatch loop, its two pools, the tree session and the single-flight locks their threads share, directory walks and snapshots, callbacks that fork git | one directory; a callback needs trees, perhaps one object, and changes one entry, a rename two |
| `MountLifecycle` | mount commands, seeding, the serve process, unmount, restart, commits, resets | a file is absent, old or new; attribute files name the paths they convert |
| `ChangeJournalProofs`, `InodeTableProofs`, `OverlayStoreProofs`, `ObjectCacheProofs`, `MountLifecycleProofs`, `GitStatusProofs` | theorems about the module of that name | |
| `WorkingTreeProofs` | theorems about `WorkingTree` and `TreeReader`, which reads its baseline | |
| `FrontEndProofs` | theorems about `FrontEnd` and `WorkerPool`, on which it runs its callbacks | |
| `MC...` | what TLC instantiates: symmetry, small baselines and functions | |

`WorkingTree` uses `PosixTree` as the target of a refinement; `GitStatus` extends
`EditJournal`. The others stand side by side, each with what it needs of its neighbours stated
as one step: `ObjectCache` sees the store as a fetch that succeeds or fails, `EditJournal` sees the
journal as its window, `FrontEnd` sees the projection as one directory of overlay entries over a
baseline, and the tree session and a blob's fetch as a mutex around a git that ends or hangs.

### ChangeJournal

`record` is `RecordPath`, `RecordNul`, `RecordSync`; `prune`, which runs inside it, is
`PruneStage`, `PruneBase`, `PruneSwap`. Each ends at a call after which another process can see
something new. `log` and `tail` are `changes.log` cut at its last NUL: `tail` is what a crash
between the two writes leaves. `handle` says whether `State.log` still is the file of that
name. The hook reads the log (`HookReadLog`), then the base and answers (`HookReadBase`), or
falls back to `/`; `GitAdopt` lets git store the new token or keep the old one.
`Faults` selects what may go wrong: `crash`, `power`, `write` (an append fails half-way),
`prune` (a step of prune fails), `reopen` (the reopen after the rename fails), `fallback`.

A token carries two ghosts: `pos`, the append up to which git has been told, and `clean`,
whether no prune was publishing while the hook read. The journal keeps its promise for clean
tokens only: see *Disagreements*.

### InodeTable

A callback is `Resolve` (front end and `path_of`), then its effect on the namespace, then its
effect on the table and its reply, as separate steps of a pool worker. The kernel holds its
directory lock around create, unlink and rename, not around getattr; that lock and the
kernel's `forget` are external definitions.

### OverlayStore

A callback is a list of disk calls (`content`, `stage`, `publish`, `insert`, `drop`,
`unpersist`, `rekey`, and `look`, `resolve`, `openContent` for the opens), built by an operator
that mirrors the overlay function (`CreateFile`, `Tombstone`, `Clear`, `Rekey`, ...). A worker
makes one call per step. `Restart` may happen between any two, and rebuilds `index` from
`meta/`, staged files included. With `Errors` any call may fail: those whose result the code looks
at end the callback with an error (`Fail`, `ModifyFails`); those it ignores let it go on, with the
content file still there (`DropContent`) or the sidecar (`UnpersistFails`, in `clear` and `rename`).
`view` is a ghost: what answered callbacks made of each path. `mark` says how far a path's history
is clean: `clear`; `raced` when an open overlapped another callback on it; `cut` when a restart or an
error interrupted a callback on it, or one could not remove a sidecar; `healed` when a later callback
was answered on such a path. `Settled` paths are quiet and clear, so the properties about them
speak of every name a fault did not hit; `AnsweredSurvives` speaks of the others, and fails.

### WorkingTree and PosixTree

`overlay` is `Index.entries` over a fixed baseline; `Resolve`, `Readdir`, `DirIsEmpty` and
`RenameDir` are the four places where the code layers one over the other, each translated on
its own. `Tree(p)` is what a user finds at `p`: the kernel resolves every directory on the way,
so a path below something that is not a directory holds nothing. `PosixTree` says what the
callbacks must do to such a tree, with no overlay, tombstones or base-refs; `ImplementsPosix`
is its specification with `tree` read off `Tree`. `recorded` is what `record_change` appended
for the last callback.

The code does not implement that tree after every history: `rename_dir` leaves the baseline
files of the old directory under a tombstone that a new directory of that name takes away, a
directory renamed onto a non-empty one is merged with it, and `rmdir` of a directory that replaced
a baseline file brings the file back. `Leftovers = FALSE` keeps directories from being put where
something older remains below (`Bare`, `BareFor`), and the refinement holds for every history
without such a step; `Leftovers = TRUE` is the code as it is; *Disagreements* lists what
it then shows.

### EditJournal and GitStatus

A mutation is `Begin` (the record), for a rename `RecordTo` (the second record), then `Apply`
(the effect and the reply) or `Fail`. `Write` changes a file that is open and records nothing.
`Placed` and `Invalidated` are the hook's two answers to the token in `index`. A status asks
(`StatusBegin`), compares each path it may not trust (`StatusCheck`) and reports
(`StatusEnd`), writing the index back or not. The hooks the mount command installs run one shell
command per step, and `GitExit` may end them between any two: post-index-change takes its guard
(`PostIndexChange`), marks every tracked path (`MarkSkipped`) and leaves its sentinel
(`LeaveSentinel`); commit-msg starts at the sentinel (`Commit`), then `Unskip`, `Revalidate`,
`RemoveSentinel`. A trap removes the guard, unless the hook is killed. git itself is external: its part is
what the hooks and their comments rely on. Four things are history only: `git.due`, the paths a
status ought to show, skip-worktree ones included; `lost`, the paths for which git was told too
early or wrongly; `git.excused`, those of `lost` the running status holds valid; `cutShort`, whether
a hook died between its marks and its sentinel.

### ObjectCache

`Stat` and `LockSize`, `FetchSize` are `cached_size`; `Open`, `LockOpen`, `Fetch`, `Publish` are
`materialize_path_inner`; both take the same lock per object. `PrefetchSiblings` and
`ReadaheadOnOpen` arm the directory, `WarmDirSiblings` and `WarmDirContentSiblings` fan out,
`SizeJob`, `WarmJob` and `Charge` are the jobs. `Fail` is any failing fetch or rename, `Crash` a
SIGKILL: the object store and `cache_dir` survive, the rest starts again.

### TreeReader

`Lock`, `Spawn`, `Send`, `ReadHeader`, `ReadBody` are one use of the session under its mutex,
`CacheTree` and `OneShot` what follows; what either reads may fail to parse (`Parse`). git's side answers (`GitAnswers`), ends when it lacks
a promised object, or is killed anywhere in an answer (`GitKilled`).

### WorkerPool

`Lock`, `Recv`, `Upgrade`, `Finish` are a turn of a worker's loop; `LetGo` drops a reference of
the owner, and the last one begins `Drop` on the thread that held it. `Join` and `Return` end it.

### FrontEnd

A request is sent, dispatched to a pool or answered by the loop, and taken by a pool thread. The
thread first needs trees: they are cached, or it takes the mutex of the tree session and holds it
across git's answer (`LockSession`, `SessionEnds`), and may have to ask a git of its own
(`OneShotEnds`). A listing then walks as `Projection::readdir` does: baseline names one by one,
each looked up in the overlay (`LookAt`), then the overlay's entries (`OverlayChildren`), with
callbacks of the other pool in between. A callback may need an object: one thread fetches it
(`LockObject`, `FetchEnds`), the others wait for its lock and look again. Then it answers (`Reply`),
puts or removes an entry (`Put`, `Remove`), or renames in two halves (`RenameTo`, `RenameFrom`), the
second of which may read trees again. Every git starts `flushing` where one of the descriptors it
inherited and closes before exec lies on the mount (`DispatchFlush`), and may `Hang` once it runs.
`steady` and `raced` are history: the names there ever since a walker's opendir, and those that
got an overlay entry while it walked.

### MountLifecycle

`cmd[m].pc` walks through `cmd_mount`: preflight, clone, index, hook configuration, the seed in
its five parts, hooks, spawn, wait, health check, warm status. A serve process opens
(`OpenServe`, which pins the baseline to HEAD), mounts, serves and ends. `Restart` is the daemon
started again over the same workspace; no subcommand does this, but `AdminRepo::open`, the
replay in `Overlay::open` and the documentation provide for it. The user
edits, deletes, adds and commits; `GitUnstage` (`rm --cached`, `restore --staged`) and `GitReset`
(`--soft`, `--mixed`) move HEAD or index and leave the files of the mount alone. `exposed` is
history: the files without an overlay entry that a restart may show differently, because they
were deleted without a tombstone although HEAD or index has them (`Unlink`), or because git took
for them something else than the mount shows (`Unmatched`).

## Runs

All runs search exhaustively. `status_held_open` states a sentence of the repository and TLC
finds the behaviour that contradicts it; all others pass.

| run | asks | bounds |
|---|---|---|
| `journal_crash` | SIGKILL anywhere and two readers racing with prunes: are answers inclusive, does a restart agree, are recent tokens placed, do labels only age | 6 appends, window 3 pruned to 1 and pruned for its bytes at 2 (so that prunes drop one record or two, and a token can be placed, age out and be refused), any number of crashes |
| `journal_errors` | failing writes, prunes and reopens, power loss: do acknowledged records stay in the window | 6 appends, window 4 pruned to 2, no prune for its bytes |
| `git_status` | does a status show every edit of a path it may look at, is a valid bit the truth, do skip bits wait for a sentinel | two paths, two contents, one mutation in flight beside writes, a window that is pruned, all three commands, each hook cut between any two of its steps |
| `inode_races` | callbacks overtaking each other | two pool threads, interchangeable names |
| `overlay_faults` | all callbacks; two restarts and any failing call, ignored ones included, opens overlapping everything | two names, one in the baseline; three callbacks: one interrupted, one beside it, one after |
| `worktree_posix` | does the overlay over the baseline implement a POSIX tree, do listings and lookups agree, is every change recorded | nested directories `d/e` with a baseline file, and room at `n` to move them to and fro; any number of callbacks |
| `object_cache` | one fetch per object, whole files, bounded overshoot, every caller answered | three blobs, one thread of each pool, a failing fetch, a kill, budgets of one blob |
| `tree_reader` | does the session stay in step, is every answer the one asked for, does every reader get one | two threads, two trees and a blob, one of them remote, five reads, two kills |
| `worker_pool` | does every queued job run, does `Drop` return on any thread and leave nobody behind | four jobs, three threads |
| `front_end` | does a listing miss nothing, whatever changes beside it, and repeat only what it may; what may an answer wait for | one lister of a directory of two names, one in the baseline, with pages of one; two callers on two threads, one listing thread, one object; any git may hang |
| `mount_lifecycle` | one serve process at a time, no converted path seeded, the same tree after a restart, does every command return | two commands, three serve processes, three files, three attribute files, one slow read, two edits or moves of index or HEAD alone, any adds and commits |
| `status_held_open` | an editor that keeps its file open | the smallest that shows it |

Why the bounds are enough: every hazard found needs one prune (or two) and a reader across it,
one callback beside another, or one fault and one callback after it; the passing runs allow one
more of each than the shortest counterexample of the mutants and of the disagreements below. In
`worker_pool` a worker can hold the lock, another a job and the third be inside `Drop`; in
`front_end` a callback can hold the session, or fetch the object, while the other waits for it and the
listing walks; both threads can hang while the lister waits. A caller behind a full pool is left to
`worker_pool`, which has more jobs than threads.

Deadlock checking is off where the system may come to rest: the overlay and inode runs stop when
the bounded callbacks are used up, and in `mount_lifecycle` every command may be over, the last
daemon gone and nobody type anything more. In `tree_reader` and `worker_pool` rest is a step of
its own (`Quiet`, `Ended`; in `front_end` `Settled`), so that a deadlock anywhere else is found.

### Fairness

* `WorkerPool`: a thread that can take its next step does, and the mutex around the receiver
  is granted in the end to each worker that waits for it while it is free. Nothing obliges anybody
  to spawn or to unmount. A job is assumed to end; no timeout of this code bounds the git process
  it waits for.
* `ObjectCache`: weak fairness of each thread's own steps. The per-object locks are `std` mutexes
  and not fair; weak fairness is enough, since a thread only loses the lock to one that
  succeeds, after which nobody needs it, or to one that fails, and failures are bounded.
* `TreeReader`: threads and git's answers are weakly fair. Reads are bounded, so a thread that is
  overtaken at the mutex gets it in the end.
* `FrontEnd`: the dispatch loop and each pool thread are weakly fair, the order of the kernel's queue and
  of the threads at a mutex is not: callers send finitely many requests, so whoever is overtaken at
  the session's mutex or an object's lock gets it in the end, or somebody hangs with it. A git child ends or hangs,
  either is a step: the liveness properties say who is answered when some hang for ever.
* `MountLifecycle`: each mount command is one thread whose waits are bounded in the code (20 s,
  10 s, 60 s); the git processes it waits for without a bound (clone, read-tree, check-attr) are
  assumed to end. The serve process and the user are not fair.

The other modules state safety only.

### What the passing runs show

* `HonestTokensInclusive`: a token made while no prune was publishing is answered inclusively
  for ever, even by a hook whose own two reads straddle a prune, and across crashes. What is
  excepted is a record glued to its neighbour by a missing NUL. `RecentTokensPlace`: only the
  sliding window refuses an honest token, never a race. `LabelsNeverMoveBack`, `RestartAgrees`:
  base, log and memory stay in step. `AckedStayInWindow`: what the daemon acknowledged leaves the
  window only by ageing, whichever call fails or loses power, unless the log is pruned for its
  bytes and cannot be opened again (Disagreements).
* `NoEditHidden`, `ValidIsClean`: across prunes, hook failures, interrupted commands and the commit
  hooks, status misses an edit only if the path is skip-worktree, if git was told between its
  record and its effect, or if commit-msg vouched for the path. The first exception is wide: after
  a `git add` it holds of every tracked path until the commit. `SkippedUntilCommit`: it ends
  there, unless a hook was killed between its marks and its sentinel.
* `TableAgrees` (so `expect("entry exists")` cannot fire), `KernelRefsCovered`,
  `IdentityFollowsFile`, `NumbersNeverReused`.
* `SettledReadsBack`, `SettledIsDurable`: a clean path shows, and will show after a restart,
  what its callbacks made of it, whatever happens to its neighbours, a sidecar that could not be
  removed included; `HandlesReachTheirFile`,
  `ContentHasOneOwner`: handles and deletions act on the right content file;
  `InterruptedIsOldOrNew`: a cut create, symlink, chmod, truncate or copy-up is atomic.
* `ImplementsPosix`, `ListingAgrees`, `ChangesAreRecorded`: files and directories moved any
  number of times, over each other and back, keep their content and leave nothing behind that
  shows, and git is told of each change. The baseline of the run has no symlink; renaming one
  takes the same branches as renaming a file.
* `FaultedOnce`, `ServedWhole`, `BudgetsHold`, `CallersAnswered`: callers and read-ahead share
  objects without a second fetch, a torn file, an unbounded overshoot or a lost caller.
* `SessionInStep`, `AnswersAsked`, `ReadersAnswered`: the stream without request numbers never
  gives one reader another's tree, wherever the process dies.
* `JobsRun`, `DropReturns`, `DropLeavesNoWorker`: the last reference may go inside a job.
* `EntriesOnce`: pages of a snapshot repeat and miss nothing, and a walk that is overtaken lists a
  name twice at most, and only if it got an overlay entry meanwhile. `ListingsAnswered`: a listing
  waits for no fetch of a blob, only for a git that reads trees. `CallbacksAnswered`: a callback
  waits for its own git, or for that of whoever holds the session or its object; never for a
  flush, and no two for one another.
* `OneServer` rests on git's refusal to clone over a git directory in use; `ConvertedNotSeeded`
  on each attribute file being read twice; `RestartShowsSameTree` on tombstones over the
  baseline, and on git taking what the mount shows; `MountReturns` on the bounded waits.

### Disagreements between the code and its documentation

`status_held_open` is a run: a `write()` records nothing, so the status after it may not show the
path (`mount.rs:354`, against `docs/fsmonitor.md:177-179`).

The same modules show more with other constants or without a property's exception; each row is
the only property of a configuration like the runs'.

| configuration | property violated | what the code does |
|---|---|---|
| ChangeJournal, `Faults = {}` | `EveryTokenInclusive` | old log with new base makes an over-counted token that later skips a change (`journal.rs:216-218` calls the pair harmless) |
| `Faults = {"crash"}` | `CommittedRecordsReported` | a crash between a path and its NUL swallows the next committed record (`journal.rs:298`) |
| `Faults = {"prune"}` | `HonestTokensInclusive` | prune fails after publishing base; memory keeps the old one (`journal.rs:306-310`) |
| `Faults = {"reopen"}` | `HonestTokensInclusive` | the daemon appends to a replaced inode (`journal.rs:388`) |
| `Faults = {"crash", "reopen"}`, window 4 and 2, `LOG_BYTE_CAP = 2` | `AckedStayInWindow` | after a prune for bytes whose reopen fails, the new `changes.log` is short (`log_bytes` asks the path), so nothing prunes again; records are acknowledged into the replaced inode, and a SIGKILL loses them (`journal.rs:388`, where 308-310 say a failure "can never drop a committed record") |
| `Faults = {"power"}` | `HonestTokensInclusive` | a token counted a record the power loss took back |
| `Faults = {"write"}` | `HonestTokensInclusive` | bytes on disk the window does not count (`journal.rs:300`) |
| GitStatus | `NoEditHidden` without `excused` | a status between a record and its effect takes the record away (`lib.rs:338`, against `docs/fsmonitor.md:160-169`); commit-msg marks changed paths valid (`main.rs:336`) |
| GitStatus | `StatusSeesUncommitted` | after `git add`, post-index-change marks every tracked path skip-worktree (`main.rs:318`): until the commit, a status shows no edit, where `docs/compatibility.md:20` calls status correct and `docs/fsmonitor.md:77-78` lets only the hook's answer decide what is looked at |
| GitStatus | `SkipEndsWithCommit` | a hook killed between its marks (`main.rs:318`) and its sentinel (`:319`) leaves bits that commit-msg does not clear (`main.rs:330`, against 346-347) |
| InodeTable with getattr | `ForgottenIsFreed` | getattr takes a reference nobody returns (`lib.rs:896`, against `docs/fuse-semantics.md:34`) |
| InodeTable without getattr | `ForgottenIsFreed` | rename evicts an entry nobody will free (`inode.rs:140`) |
| OverlayStore, unlink cut by a restart | `NeverDangling` | content goes before its sidecar (`docs/durability-security.md:98-100` says the opposite order) |
| OverlayStore, rename and unlink cut by restarts | `NeverDangling` | both names replay and share one content file (`overlay.rs:319`) |
| create cut by a restart, unlink after | `AnsweredSurvives` | the staged `.tmp` sidecar is replayed at every start (`overlay.rs:115`) |
| a sidecar that cannot be removed | `AnsweredSurvives` | clear and rename ignore the failure and answer (`overlay.rs:304`, `:320`); the next start replays the old entry, after a rename on the content file of the new one (against `overlay.rs:8-9`) |
| `ReusePids = TRUE` | `SettledReadsBack` | content ids of an earlier process are handed out again (`overlay.rs:355`) |
| OverlayStore, two opens | `CopiedUpOnce` | both copy the file up; one handle writes into an orphan (`lib.rs:1133`, against `lib.rs:1127-1128`) |
| open and unlink | `UnlinkedStaysGone` | a copy-up lands over the tombstone (`lib.rs:1151`) |
| `Losses = {"data"}` | `NeverDangling` | content is not fsynced before its sidecar (`overlay.rs:198`) |
| `Losses = {"removal"}` | `SettledReadsBack` | a removed sidecar comes back (`overlay.rs:320`) |
| WorkingTree, `Leftovers = TRUE` | `NewDirIsEmpty` | after `mv d n; mkdir -p d/e` the moved `d/e/f` shows again below `d` (`lib.rs:1363-1364`, `docs/worktree-model.md:230-233`) |
| WorkingTree, `Leftovers = TRUE` | `ImplementsPosix` | `rm x; mkdir x; rmdir x` restores a baseline file (`lib.rs:1245`); directories merge (`lib.rs:1366`) |
| MountLifecycle, `MaxTimeouts = 2` | `ConvertedNotSeeded` | the second pass ignores a read that fails (`git-repo/src/lib.rs:395`); check-attr then takes the attribute file as empty and succeeds, where the comment at 385-390 says it "would fail and skip the seed" |
| MountLifecycle | `RestartShowsSameTree` without `exposed` | create, `git add`, commit, delete: unlink consults the old baseline and leaves no tombstone (`lib.rs:1205-1209`), a restart pins HEAD and the file is back (`lib.rs:277`, against `overlay.rs:8-9`) |
| MountLifecycle | `OnlyDeletionsExposed` | `git rm --cached p; git commit`, or `git reset`, moves HEAD and leaves the mount alone; a restart pins that HEAD, and an unedited `p` is gone or changed (`lib.rs:278`, where `docs/git-state-model.md:97-98` says "worktree bytes change only when Git writes, unlinks, or renames a path through FUSE") |
| FrontEnd | `EntriesOnce` without `raced` | a file copied up between the two loops of `readdir` is listed by both (`lib.rs:925-946`, where 933 says "the overlay loop below decides this name") |
| FrontEnd | `ListingsAnswered` without `TreeGitHung` | a listing waits behind the session's mutex for a callback's hung git (`store.rs:371`, against `mount.rs:104-107`, `docs/architecture.md:130`, `docs/deadlock-startup-recovery.md:126`) |
| FrontEnd | `CallbacksAnswered` with each callback's own git only | two callbacks joined on one object wait for one git, as documented; two on the tree session do too (`store.rs:371`) |

Read off the code without a model:

* `docs/fsmonitor.md:175-177` says the journal has no compaction; `journal.rs` prunes it. sgrep's
  `glm_changed` (`sgrep/src/overlay.rs:64-86`) reads `changes.log` only, so edited paths whose
  records were pruned keep their remote hits.
* `docs/fsmonitor.md:228-231` says the whole seed is skipped when a conversion is declared;
  `seed_fsmonitor_valid` leaves out only the converted paths.
* A second `git lazy-mount` over a workspace whose daemon is gone fails in `git clone`; the
  program has no command that serves an existing workspace again.
* A hook of the commit acceleration that is killed leaves its guard file, and later ones do nothing.

## Proofs

For every window size, byte cap, bound and set of faults the assumptions of `ChangeJournal`
allow (only `KEEP_MIN < KEEP_MAX` matters), `ChangeJournalProofs` proves type correctness
(`JournalTypeCorrect`). The rest stands on three invariants.

* For failures limited to crashes (with power lost, an append or a prune failing, the properties
  are false: Disagreements), `RestartAgreesAlways` and `LabelsOnlyAge`. `JournalInv` says, while no
  record is glued: the log on disk is the window in memory (with the record in flight, or the
  pruned suffix), and base plus position minus ordinal is one offset for every record of the log.
* Under the same limit, `HonestInclusive` and `RecentTokensArePlaced`, glued records or not.
  Inclusiveness speaks of the moment of an answer only, while the token it uses was made any
  number of prunes earlier and what the hook holds was read two steps before. `HonestInv`
  therefore keeps every honest token `Labelled`, against the disk as against the window in
  memory: it has aged out, or each later append that no glue swallowed lies there under a label
  above its own. `ReadInv` says the same of the log a hook in flight has read and of the token it
  is about to make (`Candidate`); base may have grown under it, which only ages tokens. `RecentInv`
  adds that a label is never behind its record's ordinal (`Ahead`), and that a pruned window has
  kept `KEEP_MIN` records (`PrunedToMin`), so that a refused token is older than those.
* `AckedStay` admits every fault. Its hypothesis, `ReopenAfterCountPrune`, excludes one
  combination, a failing reopen in a journal that is pruned for its bytes, where the property is
  false (Disagreements): after a prune for the number of records the window is still too long, so
  the next `record` prunes again, and reopens, before it acknowledges. `AckedInv` says of the disk, of what a power loss would leave of it, and of
  the window: each covers what was acknowledged (`Covers`: the record is there, or `KEEP_MIN`
  appends aged it; a record has no more successors in the file than it had appends after it). A
  handle on a replaced file implies a window that the next `record` must prune (`OrphanInv`).

For any names, workers and callbacks, `InodeTableProofs` proves `InodeTypeCorrect`,
`TableAgreesAlways`, `KernelRefsCoveredAlways` and `NumbersNeverReusedAlways`. The invariant
adds to the two tables being inverse that every number below the next is used once, and that
the kernel's references, those of replies on their way included, never exceed the count.
`IdentityFollowsFileAlways` needs more: at a name no callback is changing, the file there and the
number in the table go together (`AtRest`), and each callback in flight carries what is still true
of its names (`Going`); the kernel's directory locks, one namespace callback at a time, are what
keeps that inductive.

For any paths, workers and callbacks, `OverlayStoreProofs` proves every property of the run
`overlay_faults`. `SettledIsDurableAlways` and type correctness (`OverlayTypes`) hold whatever
restarts, fails or is lost with the power, reused process ids included. The invariant of the first (`DurableInv`) says that a callback's calls touch only the
names it was sent (`AllOnNames`), that two callbacks of one name have marked all their names
`raced` (`Apart`), and that a callback that met no other and no fault is at one of the places its list has,
with sidecar, staged file and index as that place leaves them (`InStep`): between `publish` and
`insert` they differ, so the property itself is not inductive. `OneOwnerAlways` assumes that no removal
is lost with the power and that a new process has an id of its own; without either, a second
owner can appear (Disagreements). Its invariant adds that each content id a sidecar, a staged
file, the index or a pending call names was handed out before (`Numbered`), and that two paths
that name one id are both beyond `clear`, directly or through a callback that holds them, or are
the two names of one rename in flight (`Owned`).

`SettledAlwaysReadsBack`, `HandlesAlwaysReach` and `InterruptedAlwaysOldOrNew` assume that a
process that dies loses nothing it wrote (`Losses = {}`, a SIGKILL) and again ids of its own for a
new process. Where a power cut takes data or removals back the first and the last are false; the
second TLC finds true there too, but its proof goes through the bytes of settled paths. They
share one invariant (`FaithInv`). What a settled path shows and the bytes its handles write are
what `view` says (`SettledFaithful`), but between the calls of a callback they are not, so every
callback that met no other is followed through its list (`AllFollow`): a callback of one name has
still to ready its content, is about to install the entry whose bytes are those the answer
promises, or has installed it (`Changing`); unlink and rename have forms of their own (`Removing`,
`Renaming`). What other paths do must not reach these bytes: content that a handle holds, or that
an open is about to return a handle of, is claimed by another name only if that name's
history is not clear or a callback holds both (`HeldApart`); with `Owned` this shows that `drop`, a
truncation and a write touch no other settled path. The unlink and rename that
`InterruptedIsOldOrNew` leaves out are followed too, but promise nothing half-way (Disagreements).
That a blob is neither of the two constants for "no file" is `BlobAssumption`.

For any paths, callbacks, mutations and prunes, `GitStatusProofs` proves `ValidIsClean`,
`NoEditHidden` and `SkippedUntilCommit`. The invariant is `Told`, of the index on disk and of the
one the running command holds: every edit still to come was recorded after the index's token or is
counted in `lost`, and so is every difference under a valid bit. Without the part about edits to
come the bits alone are not inductive: a token taken between a record and its effect is harmless
until the effect arrives. `Owed` says of a running status that each path it will have to show is
under an honest bit, skipped, still to be compared, or found dirty; `Skips` ties every skip bit to the
sentinel of its commit, to the hook about to leave it, or to one cut short.

For any set of paths, any baseline the assumptions of `WorkingTree` allow and any history of
callbacks, `WorkingTreeProofs` proves that the overlay implements `PosixTree`
(`OverlayIsATree`: `Spec => ImplementsPosix`, where `Leftovers = FALSE`; where it is TRUE
the implementation is false, see Disagreements), that every callback records each path it changes
(`NothingUnrecorded`) and that a listing and the lookups agree (`ListingsAlwaysAgree`), these two
with `Leftovers` as well. The invariant is small (`Kept`: the overlay has the type of its entries
and none for the gitfile; `DirsApart`: no directory over a baseline file); the work is
in what a state shows. `Walked(p)` says that all directories above `p` are there, and `EntryShows`
what is then found at `p`: its entry, or what the baseline has where there is none. From these
there is one lemma for each callback, that it does to `Tree` what the callback of that name in
`PosixTree` says, and leaves `Tree` alone elsewhere. `RenameDir` is the long one: every path below
the two directories is followed through the entries the code moves, the base-refs it writes for
baseline children and the tombstones it leaves, at whatever depth. No induction is needed, as
`Walked` quantifies over all prefixes of a path at once.

For any readers, objects, reads and kills, the same module proves `AnswersAsked` and
`SessionInStep`. The invariant says what is in the two pipes at each place of the thread that
holds the mutex (`Pipes`): its one request, the answer to it, or as much of that answer as a killed
process got out; and nothing when nobody holds it. No request carries a number, so this is all
that ties an answer to its question.

For any callers, threads, entries and page sizes, `FrontEndProofs` proves `EntriesOnce`. The
invariant (`ListingInv`) follows a listing from the opendir to the last page. `OneWalk`: an opendir
waits in the queue or is run by one thread, and its handle is there only afterwards. While it
walks (`Walked`), what it passed by without listing it is in the overlay, and what it listed gets
there only under its eyes, as `raced`; so the overlay's entries complete the listing and repeat
none but those (`Listed`, `Twice`: the first loop's part names nothing twice, nor does the second's).
Of an open handle, what was given is the front of that listing (`Paged`). That a finite set has a
listing at all is a lemma (`ListingLemma`): an entry's place is the number of entries up to it.

For any threads and jobs, the same module proves of `WorkerPool` its type, `DropLeavesNoWorker`
and `WorkersStay`, from `Ownership` and `Joined`: a worker is an owner exactly while its job runs,
and `Drop` waits for each thread but its own.

For any mount commands, serve processes, files and commits, `MountLifecycleProofs` proves
`LifecycleTypeCorrect`, `OneServer`, `RestartShowsSameTree` and, with at most one slow read,
`ConvertedNotSeeded` (two make it false: Disagreements). `Claims`: one command at a time is
past the clone, and nothing is served while one is; `Points`: the mount point belongs to the
process that serves; `Baselines`: where the overlay says nothing, baseline, HEAD and index agree,
but for the files in `exposed`. `Scanned`: what a command has read of the attribute files is in
the store, or its reads have used up the slow one, so that what `check-attr` finds missing was
seen to declare nothing. A single attribute file is read once only and needs no such bound.

For any blobs, threads, budgets, failures and kills, `ObjectCacheProofs` proves `ServedWhole` and
that no two threads fault one object at once (`AloneAtIt`), from `Holds`: a thread between lock and
publication holds its object's lock. `FaultedOnceAlways` follows because the object's lock spans
the count and the entry of the size. `BudgetsHoldAlways` counts (`Spending`): what is charged plus one largest
blob for every thread of the pool that has passed the check stays below the budget plus one for
every thread there is; that finitely many blobs have a largest is proved by a smallest
counterexample, as no induction theorem can be used.

Assumed are only the named assumptions on constants, which TLC evaluates in each run of the module.

Every safety property of the passing runs is stated by a theorem. Liveness and `ENABLED` are only model-checked (`CallersAnswered`, `ReadersAnswered`,
`JobsRun`, `DropReturns`, `ListingsAnswered`, `CallbacksAnswered`, `MountReturns`): the prover has
no rules for fairness.

## Not modelled

* `rename_dir` that fails half-way (`lib.rs:1365`): each child is moved on its own, so a failure
  leaves part of the tree at either name; there is nothing the code promises of that state.
* Read handles on a baseline blob, which go on serving it after another open copied the file up
  (`mount.rs:253`): the code neither tracks nor refreshes them, so a model would restate it.
* How a commit hook tells `git add` from another command (the command line of its parent process).
* How the commands of `git-repo` and `store.rs` that run one git process and keep no state parse
  its output; `doctor`, which only reads.
* sgrep: the overlay is a filter over the results of one search; providers are HTTP, child
  processes and text. Its one delicate input, `changes.log` without the pruned records, is in the
  list of hazards.
* Byte formats and their parsers (`tree_parse`, `interop`, paths, object ids): pure functions with
  property tests where they are. Error and id types, the test kit and the benchmarks.

What could follow: the lock around a directory that `FrontEnd` leaves to the kernel composed with
`WorkingTree`, so that two renames overlap on nested trees, and a `ChangeJournal` shown to
implement the window `EditJournal` takes for granted.

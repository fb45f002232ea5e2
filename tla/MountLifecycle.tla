--------------------------- MODULE MountLifecycle ---------------------------
(***************************************************************************)
(* `git lazy-mount`, its serve process and the workspace they share.       *)
(*                                                                         *)
(* Several mount commands may be run on one mountpoint, one after the      *)
(* other or at once.  A command clones into the workspace, builds the      *)
(* index, seeds the FSMonitor valid bits, spawns the serve process and     *)
(* waits for it.  The serve process pins the baseline to HEAD when it      *)
(* starts; while it serves, the user edits, deletes, adds and commits.  It *)
(* may be killed, unmounted, and started again over the same workspace.    *)
(***************************************************************************)
EXTENDS Naturals, FiniteSets, Sequences

CONSTANTS
  Mounts,       \* the mount commands
  Paths,        \* the tracked and untracked files
  Tracked,      \* those in the cloned commit
  Attrs,        \* the tracked .gitattributes, in the order of the index
  Declares,     \* [attribute file -> the files it declares a conversion for]
  MaxTimeouts,  \* bound: reads of a .gitattributes that take over 20 s
  MaxEdits,     \* bound: edits, deletions and commands that move only index or HEAD
  MaxServes     \* bound: serve processes

AttrFiles == {Attrs[k] : k \in DOMAIN Attrs}

ASSUME LifecycleAssumption ==
  /\ Tracked \subseteq Paths
  /\ Attrs \in Seq(AttrFiles)
  /\ Declares \in [AttrFiles -> SUBSET Paths]
  /\ {MaxTimeouts, MaxEdits, MaxServes} \subseteq Nat

None  == "none"            \* no such file
Clear == "clear"           \* no overlay entry
Contents == {"old", "new"}

VARIABLES
  cmd,      \* [Mounts -> what the command does next, and how far it has read]
  gitdir,   \* "none", "partial" (git clone is at it) or "cloned"
  local,    \* .gitattributes whose blob is in the object store
  valid,    \* tracked paths with the fsmonitor-valid bit
  git,      \* HEAD and index: [head, index], each [Paths -> content]
  serves,   \* serve processes so far: "opening", "opened", "serving", "gone"
  point,    \* the kernel's mount: "empty", "mounted", or "dead" (ENOTCONN)
  base,     \* the baseline the serve process pinned
  overlay,  \* [Paths -> entry], kept on disk
  exposed,  \* (history) paths without an overlay entry for which git took something
            \* else than the mount shows: see Unlink and Unmatched
  spent     \* counters of the bounds: [timeouts, edits]

workspace == <<gitdir, local, valid>>
tree == <<git, base, overlay, exposed>>
vars == <<cmd, workspace, serves, point, tree, spent>>

Steps == {"preflight", "clone", "cloning", "index", "configure", "journal",
          "prefetch", "declares", "rest", "check-attr", "seed", "hooks",
          "spawn", "wait", "health", "warm"}
Ended == {"done", "failed"}

Absent == [p \in Paths |-> None]
Cloned == [p \in Paths |-> IF p \in Tracked THEN "old" ELSE None]

TypeOK ==
  /\ cmd \in [Mounts -> [pc : {"idle"} \cup Steps \cup Ended, read : 0 .. Len(Attrs)]]
  /\ gitdir \in {"none", "partial", "cloned"}
  /\ local \subseteq AttrFiles
  /\ valid \subseteq Tracked
  /\ git \in [head : [Paths -> Contents \cup {None}],
              index : [Paths -> Contents \cup {None}]]
  /\ serves \in Seq({"opening", "opened", "serving", "gone"})
  /\ point \in {"empty", "mounted", "dead"}
  /\ base \in [Paths -> Contents \cup {None}]
  /\ overlay \in [Paths -> Contents \cup {None, Clear}]
  /\ exposed \subseteq Paths
  /\ spent \in [timeouts : 0 .. MaxTimeouts, edits : 0 .. MaxEdits]

Init ==
  /\ cmd = [m \in Mounts |-> [pc |-> "idle", read |-> 0]]
  /\ gitdir = "none" /\ local = {} /\ valid = {}
  /\ git = [head |-> Absent, index |-> Absent]
  /\ serves = <<>> /\ point = "empty"
  /\ base = Absent /\ overlay = [p \in Paths |-> Clear]
  /\ exposed = {}
  /\ spent = [timeouts |-> 0, edits |-> 0]

----------------------------------------------------------------------------
(* The mount command up to the clone. *)

Goto(m, pc) == cmd' = [cmd EXCEPT ![m].pc = pc]
At(m, pc) == cmd[m].pc = pc

\* The user types the command.
Invoke(m) ==
  /\ At(m, "idle") /\ Goto(m, "preflight")
  /\ UNCHANGED <<workspace, serves, point, tree, spent>>

\* The mountpoint must be readable and empty.
Preflight(m) ==
  /\ At(m, "preflight")
  /\ Goto(m, IF point = "empty" THEN "clone" ELSE "failed")
  /\ UNCHANGED <<workspace, serves, point, tree, spent>>

\* A command that does not look whether the workspace is in use.
ClaimBlind(m) ==
  /\ At(m, "clone") /\ Goto(m, "cloning") /\ gitdir' = "partial"
  /\ UNCHANGED <<local, valid, serves, point, tree, spent>>

\* git clone refuses a --separate-git-dir that is there and not empty.
Claim(m) ==
  /\ At(m, "clone")
  /\ IF gitdir = "none"
       THEN Goto(m, "cloning") /\ gitdir' = "partial"
       ELSE Goto(m, "failed") /\ UNCHANGED gitdir
  /\ UNCHANGED <<local, valid, serves, point, tree, spent>>

\* The clone ends: done and configured, done with a setting that fails, or
\* failed and tidied up by git.
CloneEnd(m) ==
  /\ At(m, "cloning")
  /\ \/ /\ \E next \in {"index", "failed"} : Goto(m, next)
        /\ gitdir' = "cloned" /\ git' = [git EXCEPT !.head = Cloned]
     \/ Goto(m, "failed") /\ gitdir' = "none" /\ UNCHANGED git
  /\ UNCHANGED <<local, valid, serves, point, base, overlay, exposed, spent>>

\* git read-tree HEAD, which may fail to fetch a tree.
BuildIndex(m) ==
  /\ At(m, "index")
  /\ \/ Goto(m, "configure") /\ git' = [git EXCEPT !.index = git.head]
     \/ Goto(m, "failed") /\ UNCHANGED git
  /\ UNCHANGED <<workspace, serves, point, base, overlay, exposed, spent>>

\* Without the hook binary next to the program there is nothing to seed.
ConfigureFsmonitor(m) ==
  /\ At(m, "configure")
  /\ \E found \in BOOLEAN : Goto(m, IF found THEN "journal" ELSE "spawn")
  /\ UNCHANGED <<workspace, serves, point, tree, spent>>

----------------------------------------------------------------------------
(* Seeding: whatever fails, the mount goes on without the seed. *)

\* The journal is created first; the list of tracked paths may fail too.
OpenJournal(m) ==
  /\ At(m, "journal")
  /\ \E ok \in BOOLEAN :
       Goto(m, IF ~ok \/ Tracked = {} THEN "hooks"
               ELSE IF Len(Attrs) < 2 THEN "declares" ELSE "prefetch")
  /\ UNCHANGED <<workspace, serves, point, tree, spent>>

\* The reads that time out among the attribute files `wanted`.
Slow(wanted) ==
  {late \in SUBSET (wanted \ local) : spent.timeouts + Cardinality(late) <= MaxTimeouts}

Fetched(wanted, late) ==
  /\ local' = local \cup (wanted \ late)
  /\ spent' = [spent EXCEPT !.timeouts = @ + Cardinality(late)]

\* All of them at once, errors ignored.
PrefetchAttrBlobs(m) ==
  /\ At(m, "prefetch") /\ Goto(m, "declares")
  /\ \E late \in Slow(AttrFiles) : Fetched(AttrFiles, late)
  /\ UNCHANGED <<gitdir, valid, serves, point, tree>>

Next1(m) == Attrs[cmd[m].read + 1]

\* One after the other until one declares a conversion; a read that fails
\* gives the seed up.
DeclaresConversion(m) ==
  /\ At(m, "declares")
  /\ IF cmd[m].read = Len(Attrs)
       THEN Goto(m, "seed") /\ UNCHANGED <<local, spent>>
       ELSE \E late \in Slow({Next1(m)}) :
              /\ Fetched({Next1(m)}, late)
              /\ cmd' = IF late # {} THEN [cmd EXCEPT ![m].pc = "hooks"]
                        ELSE IF Declares[Next1(m)] # {} THEN [cmd EXCEPT ![m].pc = "rest"]
                        ELSE [cmd EXCEPT ![m].read = @ + 1]
  /\ UNCHANGED <<gitdir, valid, serves, point, tree>>

\* A seed that leaves the other attribute files to check-attr.
SkipRest(m) ==
  /\ At(m, "rest") /\ Goto(m, "check-attr")
  /\ UNCHANGED <<workspace, serves, point, tree, spent>>

\* The others, so that check-attr finds them; errors ignored.
ReadRest(m) ==
  /\ At(m, "rest") /\ Goto(m, "check-attr")
  /\ \E late \in Slow(AttrFiles) : Fetched(AttrFiles, late)
  /\ UNCHANGED <<gitdir, valid, serves, point, tree>>

\* git check-attr --cached without lazy fetch: an attribute file whose blob
\* is missing is taken as empty.
ConversionPaths == UNION {Declares[a] : a \in local}

CheckAttr(m) ==
  /\ At(m, "check-attr")
  /\ \E ok \in BOOLEAN : Goto(m, IF ok THEN "seed" ELSE "hooks")
  /\ UNCHANGED <<workspace, serves, point, tree, spent>>

\* update-index --fsmonitor-valid for all but the converted paths.
SeedFsmonitorValid(m) ==
  /\ At(m, "seed") /\ Goto(m, "hooks")
  /\ \E ok \in BOOLEAN : valid' = IF ok THEN Tracked \ ConversionPaths ELSE valid
  /\ UNCHANGED <<gitdir, local, serves, point, tree, spent>>

\* A hook of somebody else is left alone, and the mount goes on.
InstallHooks(m) ==
  /\ At(m, "hooks") /\ Goto(m, "spawn")
  /\ UNCHANGED <<workspace, serves, point, tree, spent>>

----------------------------------------------------------------------------
(* Serving. *)

Serving == {i \in DOMAIN serves : serves[i] # "gone"}

Spawn(m) ==
  /\ At(m, "spawn")
  /\ Len(serves) < MaxServes
  /\ Goto(m, "wait") /\ serves' = Append(serves, "opening")
  /\ UNCHANGED <<workspace, point, tree, spent>>

\* Repository, journal and projection are opened; the projection's baseline
\* is whatever HEAD is now.
OpenServe(i) ==
  /\ serves[i] = "opening"
  /\ \/ serves' = [serves EXCEPT ![i] = "opened"] /\ base' = git.head
     \/ serves' = [serves EXCEPT ![i] = "gone"] /\ UNCHANGED base
  /\ UNCHANGED <<cmd, workspace, point, git, overlay, exposed, spent>>

\* The FUSE mount, on the mountpoint or on top of what is mounted there.
MountFuse(i) ==
  /\ serves[i] = "opened"
  /\ \/ serves' = [serves EXCEPT ![i] = "serving"] /\ point' = "mounted"
     \/ serves' = [serves EXCEPT ![i] = "gone"] /\ UNCHANGED point
  /\ UNCHANGED <<cmd, workspace, tree, spent>>

\* A command that waits for .git as long as it takes.
WaitForever(m) ==
  /\ At(m, "wait") /\ point = "mounted" /\ Goto(m, "health")
  /\ UNCHANGED <<workspace, serves, point, tree, spent>>

\* Ready when .git shows; after ten seconds the command gives up, and the
\* serve process does not.
WaitReady(m) ==
  /\ At(m, "wait")
  /\ \/ point = "mounted" /\ Goto(m, "health")
     \/ Goto(m, "failed")
  /\ UNCHANGED <<workspace, serves, point, tree, spent>>

\* Stock git must find the repository; it does if it is still served.
HealthCheck(m) ==
  /\ At(m, "health")
  /\ \/ point = "mounted" /\ \E warm \in BOOLEAN : Goto(m, IF warm THEN "warm" ELSE "done")
     \/ point # "mounted" /\ Goto(m, "failed")
  /\ UNCHANGED <<workspace, serves, point, tree, spent>>

\* --warm-status: a status that ends, or is left alone after a minute.
EstablishUntrackedCache(m) ==
  /\ At(m, "warm") /\ Goto(m, "done")
  /\ UNCHANGED <<workspace, serves, point, tree, spent>>

\* `git lazy-mount unmount`: the serve process leaves its loop and exits.
Unmount(i) ==
  /\ serves[i] = "serving"
  /\ serves' = [serves EXCEPT ![i] = "gone"] /\ point' = "empty"
  /\ UNCHANGED <<cmd, workspace, tree, spent>>

\* SIGKILL leaves a mount nobody answers.
Kill(i) ==
  /\ serves[i] = "serving"
  /\ serves' = [serves EXCEPT ![i] = "gone"] /\ point' = "dead"
  /\ UNCHANGED <<cmd, workspace, tree, spent>>

\* Releasing the dead mount.
UnmountDead ==
  /\ point = "dead" /\ point' = "empty"
  /\ UNCHANGED <<cmd, workspace, serves, tree, spent>>

\* The daemon is started again over the same workspace, once the old one and
\* every mount command are gone.
Restart ==
  /\ gitdir = "cloned" /\ Serving = {} /\ point = "empty"
  /\ serves # <<>> /\ Len(serves) < MaxServes
  /\ \A m \in Mounts : cmd[m].pc \in {"idle"} \cup Ended
  /\ serves' = Append(serves, "opening")
  /\ UNCHANGED <<cmd, workspace, point, tree, spent>>

----------------------------------------------------------------------------
(* The user at work.  Overlay over baseline is what the mount shows. *)

Over(b) == [p \in Paths |-> IF overlay[p] = Clear THEN b[p] ELSE overlay[p]]
View == Over(base)

Edited == spent' = [spent EXCEPT !.edits = @ + 1]

Edit(p) ==
  /\ point = "mounted" /\ spent.edits < MaxEdits
  /\ overlay' = [overlay EXCEPT ![p] = "new"] /\ exposed' = exposed \ {p}
  /\ Edited /\ UNCHANGED <<cmd, workspace, serves, point, git, base>>

\* A tombstone over a file of the last commit only.
TombstoneByHead(p) == IF git.head[p] # None THEN None ELSE Clear

\* A tombstone over a file of the baseline, nothing over any other.
Tombstone(p) == IF base[p] # None THEN None ELSE Clear

Unlink(p) ==
  /\ point = "mounted" /\ spent.edits < MaxEdits /\ View[p] # None
  /\ overlay' = [overlay EXCEPT ![p] = Tombstone(p)]
  /\ exposed' = IF base[p] = None /\ {git.head[p], git.index[p]} # {None}
                  THEN exposed \cup {p} ELSE exposed \ {p}
  /\ Edited /\ UNCHANGED <<cmd, workspace, serves, point, git, base>>

\* git add or git rm of one path: the index takes what the mount shows.
GitAdd(p) ==
  /\ point = "mounted" /\ git.index[p] # View[p]
  /\ git' = [git EXCEPT !.index[p] = View[p]]
  /\ UNCHANGED <<cmd, workspace, serves, point, base, overlay, exposed, spent>>

GitCommit ==
  /\ point = "mounted" /\ git.head # git.index
  /\ git' = [git EXCEPT !.head = git.index]
  /\ UNCHANGED <<cmd, workspace, serves, point, base, overlay, exposed, spent>>

\* Where the overlay has no entry and HEAD or index g is not what the mount shows.
Unmatched(g) == {p \in Paths : overlay[p] = Clear /\ {g.head[p], g.index[p]} # {View[p]}}

\* Commands that leave the mount's files alone: only git's own state moves.
TakesOnly(g) ==
  /\ point = "mounted" /\ g # git /\ spent.edits < MaxEdits
  /\ git' = g /\ exposed' = exposed \cup Unmatched(g)
  /\ Edited /\ UNCHANGED <<cmd, workspace, serves, point, base, overlay>>

\* git rm --cached, git restore --staged.
GitUnstage(p) == \E c \in {None, git.head[p]} : TakesOnly([git EXCEPT !.index[p] = c])

\* git reset --soft or --mixed, to the cloned commit or to HEAD.
GitReset ==
  \E to \in {Cloned, git.head} : \E index \in {git.index, to} :
    TakesOnly([head |-> to, index |-> index])

----------------------------------------------------------------------------

CmdStep(m) ==
  \/ Preflight(m) \/ Claim(m) \/ CloneEnd(m) \/ BuildIndex(m)
  \/ ConfigureFsmonitor(m) \/ OpenJournal(m) \/ PrefetchAttrBlobs(m)
  \/ DeclaresConversion(m) \/ ReadRest(m) \/ CheckAttr(m)
  \/ SeedFsmonitorValid(m) \/ InstallHooks(m) \/ Spawn(m) \/ WaitReady(m)
  \/ HealthCheck(m) \/ EstablishUntrackedCache(m)

ServeStep == \E i \in DOMAIN serves :
  OpenServe(i) \/ MountFuse(i) \/ Unmount(i) \/ Kill(i)

UserStep ==
  \/ GitCommit \/ GitReset
  \/ \E p \in Paths : Edit(p) \/ Unlink(p) \/ GitAdd(p) \/ GitUnstage(p)

Next ==
  \/ \E m \in Mounts : Invoke(m) \/ CmdStep(m)
  \/ ServeStep \/ UnmountDead \/ Restart \/ UserStep

Spec == Init /\ [][Next]_vars

\* A mount command is one thread whose waits are bounded: the reads of the
\* attributes by 20 s, readiness by 10 s, the warm status by a minute; the
\* git processes it waits for without a bound are assumed to end.
FairSpec == Spec /\ \A m \in Mounts : WF_vars(CmdStep(m))

----------------------------------------------------------------------------
(* Properties *)

\* However many mount commands are run on one mountpoint, at once or after
\* one that failed or timed out while its serve process was still coming up,
\* at most one serve process works on the workspace's overlay and journal
\* (main.rs cmd_mount, mount_and_validate; git clone's refusal of a git
\* directory that is in use).
OneServer == \A i, j \in Serving : i = j

\* A path with a checkout conversion is never seeded as unchanged, whichever
\* reads of attribute files time out on the way, as long as no file's reads
\* all do (MaxTimeouts) (git-repo lib.rs seed_fsmonitor_valid,
\* conversion_paths).
ConvertedNotSeeded == valid \cap UNION {Declares[a] : a \in AttrFiles} = {}

\* Whenever the daemon were started again it would show the same tree, though
\* commits and resets have moved HEAD and the new baseline is pinned there, with
\* two exceptions, of paths for which the overlay has no entry: a file added to
\* git after the daemon started and then deleted, whose deletion left nothing in
\* the overlay, and a file whose entry in index or HEAD a git command moved away
\* from what the mount shows, and which was not edited since (rm --cached, restore
\* --staged, reset --soft and --mixed) (worktree lib.rs Projection::open, unlink).
RestartShowsSameTree ==
  Serving # {} /\ (\A i \in Serving : serves[i] = "serving") =>
    \A p \in Paths \ exposed : Over(git.head)[p] = Over(base)[p]

\* Without the second exception: "worktree bytes change only when Git writes,
\* unlinks, or renames a path through FUSE" (docs/git-state-model.md:97-98).
OnlyDeletionsExposed ==
  Serving # {} /\ (\A i \in Serving : serves[i] = "serving") =>
    \A p \in Paths : Over(base)[p] # None => Over(git.head)[p] = Over(base)[p]

\* Every mount command returns, whatever times out and wherever the serve
\* process dies (main.rs mount_and_validate; git-repo lib.rs output_bounded).
MountReturns == \A m \in Mounts : cmd[m].pc \in Steps ~> cmd[m].pc \in Ended

=============================================================================

------------------------------ MODULE GitStatus ------------------------------
(* git over a mount: the index with its FSMonitor-valid and skip-worktree     *)
(* bits, the core.fsmonitor hook that every command asks for the changes      *)
(* since the index's token, and the hooks `git lazy-mount` installs to make   *)
(* add and commit cheap (crates/cli/src/main.rs). A command runs alone (the   *)
(* index lock), its steps interleave with the callbacks of EditJournal. git's *)
(* part is external: what the hooks and their comments rely on.               *)
EXTENDS EditJournal

CONSTANTS
  Commands,     \* the git commands the user runs: "status", "add", "commit"
  CommitHooks   \* are the commit acceleration hooks installed

ASSUME CommandAssumption == Commands \subseteq {"status", "add", "commit"} /\ CommitHooks \in BOOLEAN

VARIABLES
  index,      \* .git/index: entry, valid and skip bits, FSMonitor token
  active,     \* does glm-skipworktree-active exist
  guard,      \* does glm-skipworktree-hook.guard exist
  git,        \* the git command in progress, or the hook it runs
  lost,       \* ghost: paths a hook answered for while their edit was to come,
              \* and changed paths that commit-msg marked valid
  cutShort    \* ghost: a hook died between its marks and the sentinel, and none
              \* has left a sentinel since

hookVars == <<active, guard, cutShort>>
gitVars  == <<index, hookVars, git, lost>>
vars    == <<editVars, gitVars>>

NoToken == -1   \* the sentinel of full_invalidation: no journal ever places it

NoIndex == [entry |-> [p \in Paths |-> Absent], valid |-> {}, skip |-> {}, token |-> NoToken]
NoGit   == [pc |-> "idle", idx |-> NoIndex, todo |-> {}, shown |-> {}, due |-> {}, excused |-> {}]

Tracked(i) == {p \in Paths : i.entry[p] # Absent}
Differs(i) == {p \in Paths : content[p] # i.entry[p]}

\* The mount command built the index from HEAD, created the journal and seeded
\* the valid bits of all but the converted paths (seed_fsmonitor_valid).
InitGit ==
  /\ \E seeded \in SUBSET Paths :
       index = [entry |-> content, valid |-> seeded, skip |-> {}, token |-> 0]
  /\ active = FALSE /\ guard = FALSE /\ git = NoGit
  /\ lost = {} /\ cutShort = FALSE

-----------------------------------------------------------------------------
(* The hook and git's refresh. *)

\* The hook's answer to the index's token: the paths recorded since, or "/" when
\* the window no longer reaches back to it. Either clears valid bits.
PlacedLate(i) ==                                  \* mutant of Placed
  [i EXCEPT !.token = seq, !.valid = @ \ RecordedSince(i.token + 1)]

Placed(i) ==
  [i EXCEPT !.token = seq,
            !.valid = IF i.token < pruned THEN {} ELSE @ \ RecordedSince(i.token)]

\* fsmonitor_hook's full_invalidation: any error, at any time.
Invalidated(i) == [i EXCEPT !.token = NoToken, !.valid = {}]

Answers(i) == {Placed(i), Invalidated(i)}

\* Edits whose record the answer covers and whose effect is still to come.
ToCome == open \union {call[w].path : w \in Workers}
               \union {call[w].to : w \in {v \in Workers : call[v].left = {}}}

Overtaken(i) == IF i.token = NoToken THEN {} ELSE ToCome \cap Paths

-----------------------------------------------------------------------------
(* git status: ask the hook, compare each path it may not trust, write back.  *)

StatusBegin ==
  /\ "status" \in Commands /\ git.pc = "idle"
  /\ \E i \in Answers(index) :
       /\ git' = [pc |-> "status", idx |-> i, todo |-> Paths \ (i.valid \union i.skip), shown |-> {},
                  due |-> Differs(i), excused |-> i.valid \cap lost]
       /\ lost' = lost \union Overtaken(i)
  /\ UNCHANGED <<editVars, index, hookVars>>

StatusCheck(p) ==
  /\ git.pc = "status" /\ p \in git.todo
  /\ git' = IF p \in Differs(git.idx)
              THEN [git EXCEPT !.todo = @ \ {p}, !.shown = @ \union {p}]
              ELSE [git EXCEPT !.todo = @ \ {p}, !.idx.valid = @ \union {p}]
  /\ UNCHANGED <<editVars, index, hookVars, lost>>

\* The report; the refreshed index is written back when the lock is free.
StatusEnd ==
  /\ git.pc = "status" /\ git.todo = {}
  /\ git' = NoGit
  /\ index' \in {index, git.idx}
  /\ UNCHANGED <<editVars, hookVars, lost>>

\* The command or hook exits early or is interrupted: what it has not written is
\* gone. A hook's trap removes the guard, unless the hook is killed.
GuardedPcs == {"guarded", "marked", "msg", "unskipped", "revalidated"}

GitExit ==
  /\ git.pc # "idle" /\ git' = NoGit
  /\ guard' \in IF git.pc \in GuardedPcs THEN BOOLEAN ELSE {guard}
  /\ cutShort' = (cutShort \/ git.pc = "marked")
  /\ UNCHANGED <<editVars, index, active, lost>>

-----------------------------------------------------------------------------
(* git add, and the post-index-change hook it triggers. *)

\* git leaves entries alone that are marked skip-worktree.
Add(p) ==
  /\ "add" \in Commands /\ git.pc = "idle"
  /\ \E i \in Answers(index) :
       /\ p \notin i.skip
       /\ index' = [i EXCEPT !.entry[p] = content[p], !.valid = @ \ {p}]
       /\ lost' = lost \union Overtaken(i)
  /\ git' = IF CommitHooks THEN [NoGit EXCEPT !.pc = "added"] ELSE git
  /\ UNCHANGED <<editVars, hookVars>>

\* POST_INDEX_CHANGE_HOOK does nothing while a guard is there; its own
\* update-index would run it again.
PostIndexChange ==
  /\ git.pc = "added"
  /\ git' = IF guard THEN NoGit ELSE [git EXCEPT !.pc = "guarded"]
  /\ guard' = TRUE
  /\ UNCHANGED <<editVars, index, active, cutShort, lost>>

\* update-index --skip-worktree over every tracked path clears the valid bits too.
MarkSkipped ==
  /\ git.pc = "guarded" /\ git' = [git EXCEPT !.pc = "marked"]
  /\ \E i \in Answers(index) :
       /\ index' = [i EXCEPT !.skip = @ \union Tracked(i), !.valid = @ \ Tracked(i)]
       /\ lost' = lost \union Overtaken(i)
  /\ UNCHANGED <<editVars, hookVars>>

\* The sentinel for commit-msg, and the trap.
LeaveSentinel ==
  /\ git.pc = "marked" /\ git' = NoGit
  /\ active' = TRUE /\ guard' = FALSE /\ cutShort' = FALSE
  /\ UNCHANGED <<editVars, index, lost>>

-----------------------------------------------------------------------------
(* git commit and its commit-msg hook; with --no-verify the post-commit copy. *)

\* Without the sentinel the hook does nothing.
Commit ==
  /\ "commit" \in Commands /\ git.pc = "idle" /\ active
  /\ git' = [NoGit EXCEPT !.pc = "msg"] /\ guard' = TRUE
  /\ UNCHANGED <<editVars, index, active, cutShort, lost>>

\* update-index --no-skip-worktree
UnskipNothing ==                                  \* mutant of Unskip
  /\ git.pc = "msg" /\ git' = [git EXCEPT !.pc = "unskipped"]
  /\ UNCHANGED <<editVars, index, hookVars, lost>>

Unskip ==
  /\ git.pc = "msg"
  /\ \E i \in Answers(index) :
       /\ index' = [i EXCEPT !.skip = @ \ Tracked(i), !.valid = @ \ Tracked(i)]
       /\ lost' = lost \union Overtaken(i)
  /\ git' = [git EXCEPT !.pc = "unskipped"]
  /\ UNCHANGED <<editVars, hookVars>>

\* update-index --fsmonitor-valid over every tracked path, changed or not.
Revalidate ==
  /\ git.pc = "unskipped"
  /\ \E i \in Answers(index) :
       /\ index' = [i EXCEPT !.valid = @ \union Tracked(i)]
       /\ lost' = lost \union Overtaken(i) \union (Tracked(i) \cap Differs(i))
  /\ git' = [git EXCEPT !.pc = "revalidated"]
  /\ UNCHANGED <<editVars, hookVars>>

RemoveSentinel ==
  /\ git.pc = "revalidated" /\ git' = NoGit
  /\ active' = FALSE /\ guard' = FALSE
  /\ UNCHANGED <<editVars, index, cutShort, lost>>

GitStep ==
  \/ StatusBegin \/ StatusEnd \/ GitExit
  \/ PostIndexChange \/ MarkSkipped \/ LeaveSentinel
  \/ Commit \/ Unskip \/ Revalidate \/ RemoveSentinel
  \/ \E p \in Paths : StatusCheck(p) \/ Add(p)

-----------------------------------------------------------------------------
\* The mount's side. The ghost follows: a path whose content moves is no longer
\* due, one that is recorded again is no longer lost to git.
EditStep ==
  /\ Edit
  /\ git' = [git EXCEPT !.due = {p \in @ : content'[p] = content[p]}]
  /\ lost' = {p \in lost : last'[p] = last[p]}
  /\ UNCHANGED <<index, hookVars>>

Init == InitEdits /\ InitGit
Next == EditStep \/ GitStep
Spec == Init /\ [][Next]_vars
-----------------------------------------------------------------------------
(* Properties *)

Indexes == [entry : [Paths -> Contents \union {Absent}], valid : SUBSET Paths,
            skip : SUBSET Paths, token : Nat \union {NoToken}]

\* Types of the mount, the index and the command in progress.
TypeOK ==
  /\ EditType
  /\ index \in Indexes /\ {active, guard, cutShort} \subseteq BOOLEAN
  /\ git \in [pc : {"idle", "status", "added"} \union GuardedPcs, idx : Indexes,
              todo : SUBSET Paths, shown : SUBSET Paths, due : SUBSET Paths,
              excused : SUBSET Paths]
  /\ lost \subseteq Paths

\* A status has compared every path it had to and is about to print.
Reporting == git.pc = "status" /\ git.todo = {}

\* A status shows every path that differed from the index when it began and kept
\* its content, with two exceptions: the path is marked skip-worktree, as every
\* tracked one is between an add and the next commit (SkippedUntilCommit); or git
\* holds it valid because the hook's answer fell between an edit's record and its
\* effect, or because commit-msg said so. No other order of edits, prunes, hook
\* failures and commands loses an edit.
NoEditHidden == Reporting => git.due \ (git.excused \union git.idx.skip) \subseteq git.shown

\* Without the first exception: "`status` ... correct" (docs/compatibility.md:20).
StatusSeesUncommitted == Reporting => git.due \ git.excused \subseteq git.shown

\* Why: a valid bit that the hook's next answer will leave alone is the truth.
ValidIsClean ==
  \A p \in Placed(index).valid : p \in Differs(index) => p \in lost

\* The skip-worktree bits wait for the commit they were set for: where a path is
\* hidden from status the sentinel is there that makes the next commit-msg take
\* its bit away, or the hook is about to leave it. Wherever else a command or a hook
\* dies, only a hook that dies between the two leaves bits that no commit clears,
\* until an add's hook gets through; where it was killed its guard keeps later
\* hooks from that.
SkippedUntilCommit == index.skip # {} => active \/ git.pc = "marked" \/ cutShort

\* Without that exception: "the commit-msg hook clears the bits after Git has built
\* the commit tree" (main.rs:346-347).
SkipEndsWithCommit == index.skip # {} => active \/ git.pc = "marked"

\* docs/fsmonitor.md: "a `git status` issued after an editor's `write()` returned
\* already sees that path". The code's word on it: an open records, a write does
\* not, so an open older than the index's token hides the writes made through it.
StatusSeesWrites == Reporting => git.due \subseteq git.shown
=============================================================================

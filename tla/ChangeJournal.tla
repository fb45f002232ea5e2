---------------------------- MODULE ChangeJournal ----------------------------
(* The durable change journal of crates/worktree/src/journal.rs and its two   *)
(* readers and writers:                                                       *)
(*   - the serve daemon, which appends one record per mutation and prunes the *)
(*     log to a sliding window (record, prune);                               *)
(*   - the core.fsmonitor hook, a process started by every git query, which   *)
(*     opens the same files without a shared lock (open, query) and answers   *)
(*     what changed since the token git kept from an earlier answer.          *)
(* A record is the ordinal of its append (1, 2, ...): distinct paths, the     *)
(* hardest case for an answer that must include every changed path.           *)
EXTENDS Integers, Sequences, FiniteSets

CONSTANTS
  KEEP_MAX,      \* records the window may hold before a prune
  KEEP_MIN,      \* records a prune keeps
  LOG_BYTE_CAP,  \* bytes changes.log may hold before a prune; a record is one byte
  Faults,        \* the kinds of failure the environment may produce
  MaxRecords     \* bound: appends the daemon attempts

FaultKinds == {"crash", "power", "write", "prune", "reopen", "fallback"}

ASSUME WindowAssumption == KEEP_MAX \in Nat /\ KEEP_MIN \in Nat /\ LOG_BYTE_CAP \in Nat
ASSUME Hysteresis       == KEEP_MIN < KEEP_MAX
ASSUME BoundAssumption  == MaxRecords \in Nat /\ Faults \subseteq FaultKinds

VARIABLES
  up,       \* the daemon is running
  paths,    \* State.paths: the window in memory
  memBase,  \* State.base: how many records were pruned away
  handle,   \* State.log: "live", or "orphan" on an inode a rename replaced
  pc,       \* where the daemon is inside record() and prune()
  log,      \* changes.log: its NUL-terminated records
  tail,     \* changes.log: the bytes after the last NUL, none or one record
  base,     \* the base sidecar (0 when absent)
  tmp,      \* changes.log.tmp
  synced,   \* the records of changes.log a power loss cannot take away
  hook,     \* the hook process in flight
  token,    \* the token git's index holds
  written,  \* ghost: ordinal of the last append attempted
  acked,    \* ghost: appends whose record() returned Ok
  glued     \* ghost: appends merged into one record by a missing NUL

journalVars == <<up, paths, memBase, handle, pc>>
diskVars    == <<log, tail, base, tmp, synced>>
ghostVars   == <<written, acked, glued>>
vars        == <<journalVars, diskVars, hook, token, ghostVars>>

Garbled == 0   \* a record that is no path ever written: torn or glued bytes

\* What splitting changes.log at the NULs yields; an unterminated tail counts.
OnDisk == log \o tail

\* Has the daemon's record in flight reached the window yet?
Pushed == IF pc \in {"path", "nul"} THEN written - 1 ELSE written

DropOneTooMany == Len(paths) - KEEP_MIN + 1       \* mutant of DropN
DropN == Len(paths) - KEEP_MIN

NewBaseReversed == memBase - DropN                \* mutant of NewBase
NewBaseTooSmall == memBase + DropN - 1            \* mutant of NewBase
NewBase == memBase + DropN

\* Token { seq }: "empty" is git's first query, "foreign" any token of another
\* workspace, epoch or generation, the sentinel of full_invalidation included.
\* pos and clean are ghosts: everything up to append pos was told to git, and
\* the token was made while no prune was publishing.
EmptyToken == [kind |-> "empty", seq |-> 0, pos |-> 0, clean |-> TRUE]
IdleHook   == [pc |-> "idle", log |-> <<>>, base0 |-> 0, upto |-> 0, due |-> {},
               clean |-> TRUE, full |-> FALSE, paths |-> {}, next |-> EmptyToken]

Init ==
  /\ up = TRUE /\ paths = <<>> /\ memBase = 0 /\ handle = "live" /\ pc = "idle"
  /\ log = <<>> /\ tail = <<>> /\ base = 0 /\ tmp = <<>> /\ synced = <<>>
  /\ hook = IdleHook /\ token = EmptyToken
  /\ written = 0 /\ acked = {} /\ glued = {}

-----------------------------------------------------------------------------
(* ChangeJournal::open by the daemon: replay the log, then read base. *)

OpenForgetsBase ==                                \* mutant of Open
  /\ ~up
  /\ up' = TRUE /\ paths' = OnDisk /\ memBase' = 0 /\ handle' = "live"
  /\ UNCHANGED <<pc, diskVars, hook, token, ghostVars>>

Open ==
  /\ ~up
  /\ up' = TRUE /\ paths' = OnDisk /\ memBase' = base /\ handle' = "live"
  /\ UNCHANGED <<pc, diskVars, hook, token, ghostVars>>

-----------------------------------------------------------------------------
(* ChangeJournal::record, under the state mutex: path, NUL, fsync, push, and  *)
(* a prune when either cap is passed.                                         *)

\* write_all(path), in full or, when whole is FALSE, the part that got written.
AppendPath(whole) ==
  /\ up /\ pc = "idle" /\ written < MaxRecords
  /\ written' = written + 1
  /\ tail' = IF handle = "orphan" THEN tail
             ELSE IF whole /\ tail = <<>> THEN <<written + 1>> ELSE <<Garbled>>
  /\ glued' = IF handle = "live" /\ tail # <<>> THEN glued \union {written, written + 1}
                                                ELSE glued
  /\ UNCHANGED <<up, paths, memBase, handle, log, base, tmp, synced, hook, token, acked>>

RecordPath == AppendPath(TRUE) /\ pc' = "path"

\* write_all(&[0])
RecordNul ==
  /\ pc = "path"
  /\ IF handle = "live" THEN log' = OnDisk /\ tail' = <<>> ELSE UNCHANGED <<log, tail>>
  /\ pc' = "nul"
  /\ UNCHANGED <<up, paths, memBase, handle, base, tmp, synced, hook, token, ghostVars>>

OverCap == Len(paths) + 1 > KEEP_MAX \/ Len(OnDisk) > LOG_BYTE_CAP

NeverSynced == synced                             \* mutant of Synced
Synced == IF handle = "live" THEN log ELSE synced

\* fsync, push onto the window, and prune() unless it has nothing to drop.
RecordSync ==
  /\ pc = "nul"
  /\ paths' = Append(paths, written)
  /\ synced' = Synced
  /\ IF OverCap /\ Len(paths) + 1 > KEEP_MIN
       THEN pc' = "prune" /\ UNCHANGED acked
       ELSE pc' = "idle" /\ acked' = acked \union {written}
  /\ UNCHANGED <<up, memBase, handle, log, tail, base, tmp, hook, token, written, glued>>

-----------------------------------------------------------------------------
(* ChangeJournal::prune: stage the suffix, publish base, swap the log. *)

PruneStage ==
  /\ pc = "prune" /\ pc' = "staged"
  /\ tmp' = SubSeq(paths, DropN + 1, Len(paths))
  /\ UNCHANGED <<up, paths, memBase, handle, log, tail, base, synced, hook, token, ghostVars>>

PruneUnpublished ==                               \* mutant of PruneBase
  pc = "staged" /\ pc' = "based" /\ UNCHANGED <<up, paths, memBase, handle, diskVars, hook, token, ghostVars>>

PruneBase ==
  /\ pc = "staged" /\ pc' = "based"
  /\ base' = NewBase
  /\ UNCHANGED <<up, paths, memBase, handle, log, tail, tmp, synced, hook, token, ghostVars>>

RenameLog == log' = tmp /\ tail' = <<>> /\ synced' = tmp /\ UNCHANGED <<base, tmp>>

\* rename, directory fsync, reopen the handle, drain the window.
PruneSwap ==
  /\ pc = "based" /\ pc' = "idle"
  /\ RenameLog
  /\ handle' = "live"
  /\ paths' = SubSeq(paths, DropN + 1, Len(paths)) /\ memBase' = NewBase
  /\ acked' = acked \union {written}
  /\ UNCHANGED <<up, hook, token, written, glued>>

-----------------------------------------------------------------------------
(* ChangeJournal::query as the hook runs it: a fresh open reads the log, then *)
(* base, each in a step of its own; the answer follows.                       *)

\* The hook's first read. due: acknowledged appends git has not been told of.
HookReadLog ==
  /\ hook.pc = "idle"
  /\ hook' = [IdleHook EXCEPT !.pc = "log", !.log = OnDisk, !.base0 = base, !.upto = written,
                              !.due = {n \in acked : n > token.pos}, !.clean = pc # "based"]
  /\ UNCHANGED <<journalVars, diskVars, token, ghostVars>>

\* The answer to prev over a window of records that starts after seq floor.
Placeable(prev, records, floor) ==
  \/ prev.kind = "empty" /\ floor + Len(records) = 0
  \/ prev.kind = "ours" /\ prev.seq <= floor + Len(records) /\ prev.seq >= floor

Since(prev, records, floor) ==
  IF prev.kind = "empty" THEN {}
                         ELSE {records[i] : i \in (prev.seq - floor + 1)..Len(records)}

Answer(records, floor) ==
  LET placed == Placeable(token, records, floor)
      clean  == hook.clean /\ pc # "based" /\ base = hook.base0
  IN hook' = [hook EXCEPT !.pc = "answered", !.full = ~placed, !.clean = clean,
                !.paths = IF placed THEN Since(token, records, floor) ELSE {},
                !.next = [kind |-> "ours", seq |-> floor + Len(records),
                          pos |-> hook.upto, clean |-> clean]]

\* The hook's second read and its answer.
HookReadBase ==
  /\ hook.pc = "log"
  /\ Answer(hook.log, base)
  /\ UNCHANGED <<journalVars, diskVars, token, ghostVars>>

\* full_invalidation: another protocol version, no journal, any error.
HookFallback ==
  /\ "fallback" \in Faults /\ hook.pc \in {"idle", "log"}
  /\ hook' = [IdleHook EXCEPT !.pc = "answered", !.full = TRUE,
                              !.next = [EmptyToken EXCEPT !.kind = "foreign"]]
  /\ UNCHANGED <<journalVars, diskVars, token, ghostVars>>

\* git rewrites its index with the new token, or gives up and keeps the old one.
GitAdopt ==
  /\ hook.pc = "answered"
  /\ token' \in {token, hook.next}
  /\ hook' = IdleHook
  /\ UNCHANGED <<journalVars, diskVars, ghostVars>>

-----------------------------------------------------------------------------
(* Failures. Every I/O error makes record() return before the next step: the  *)
(* mutation it was for is refused, the bytes already written stay.            *)

WriteFails ==
  /\ "write" \in Faults
  /\ \/ AppendPath(FALSE) /\ pc' = "idle"
     \/ /\ pc \in {"path", "nul"} /\ pc' = "idle"
        /\ UNCHANGED <<up, paths, memBase, handle, diskVars, hook, token, ghostVars>>

PruneFails ==
  /\ "prune" \in Faults
  /\ pc \in {"prune", "staged", "based"} /\ pc' = "idle"
  /\ UNCHANGED <<up, paths, memBase, handle, diskVars, hook, token, ghostVars>>

ReopenFails ==
  /\ "reopen" \in Faults
  /\ pc = "based" /\ pc' = "idle"
  /\ RenameLog
  /\ handle' = "orphan"
  /\ UNCHANGED <<up, paths, memBase, hook, token, ghostVars>>

\* What the daemon held in memory is gone.
Stop == up' = FALSE /\ pc' = "idle" /\ paths' = <<>> /\ memBase' = 0 /\ handle' = "live"

Crash ==
  /\ "crash" \in Faults /\ up
  /\ Stop
  /\ UNCHANGED <<diskVars, hook, token, ghostVars>>

\* The machine stops: bytes not yet fsynced may be gone, and the hook with them.
PowerLoss ==
  /\ "power" \in Faults /\ up
  /\ Stop /\ hook' = IdleHook
  /\ \/ UNCHANGED <<log, tail>>
     \/ log' = synced /\ tail' = <<>>
  /\ UNCHANGED <<base, tmp, synced, token, ghostVars>>

-----------------------------------------------------------------------------
Daemon == Open \/ RecordPath \/ RecordNul \/ RecordSync \/ PruneStage \/ PruneBase \/ PruneSwap
Hook   == HookReadLog \/ HookReadBase \/ HookFallback \/ GitAdopt
Fail   == WriteFails \/ PruneFails \/ ReopenFails \/ Crash \/ PowerLoss

Next == Daemon \/ Hook \/ Fail

Spec == Init /\ [][Next]_vars
-----------------------------------------------------------------------------
(* Properties *)

Records == Seq(0..MaxRecords)
Tokens  == [kind : {"empty", "ours", "foreign"}, seq : Nat, pos : 0..MaxRecords, clean : BOOLEAN]
HookType ==
  [pc : {"idle", "log", "answered"}, log : Records, base0 : Nat, upto : 0..MaxRecords,
   due : SUBSET (1..MaxRecords), clean : BOOLEAN, full : BOOLEAN,
   paths : SUBSET (0..MaxRecords), next : Tokens]

\* Types of the daemon's State, its files, the hook process and git's token.
TypeOK ==
  /\ up \in BOOLEAN /\ paths \in Records /\ memBase \in Nat /\ handle \in {"live", "orphan"}
  /\ pc \in {"idle", "path", "nul", "prune", "staged", "based"}
  /\ log \in Records /\ tail \in Records /\ base \in Nat /\ tmp \in Records /\ synced \in Records
  /\ hook \in HookType
  /\ token \in Tokens
  /\ written \in 0..MaxRecords /\ acked \subseteq 1..MaxRecords /\ glued \subseteq 0..MaxRecords

\* The answer names every acknowledged change git has not heard of, except.
Inclusive(except) ==
  hook.pc = "answered" /\ ~hook.full => hook.due \ except \subseteq hook.paths

\* A token the hook made while no prune was publishing is answered inclusively
\* for ever: across crashes of the daemon, and even by a hook whose own two
\* reads straddle a prune. Only records glued by a missing NUL are excepted.
HonestTokensInclusive == token.clean => Inclusive(glued)

\* What "response must be inclusive" says of every token (journal.rs:3-7, 205-220).
EveryTokenInclusive == glued = {} => Inclusive({})

\* The same of committed records, those glued by a missing NUL included.
CommittedRecordsReported == token.clean => Inclusive({})

\* A restart at any moment between operations reads back the window and base
\* the daemon holds (record and prune keep memory and disk in step).
RestartAgrees == up /\ pc = "idle" /\ glued = {} => OnDisk = paths /\ base = memBase

\* An acknowledged record leaves the window only by ageing behind KEEP_MIN
\* newer appends: never by an I/O error, a crash or a power loss ("a rewrite
\* failure can never drop a committed record", journal.rs record). It fails when
\* the reopen fails after a prune for bytes; otherwise it is proved.
AckedStayInWindow ==
  up => \A n \in acked \ glued : (\E i \in 1..Len(paths) : paths[i] = n) \/ written - n >= KEEP_MIN

\* seq minus ordinal of the newest record the daemon (or its restart) knows.
Offset == IF up THEN memBase + Len(paths) - Pushed ELSE base + Len(OnDisk) - written

\* "a larger base ages records forward, never backward" (journal.rs prune).
LabelsNeverMoveBack == [][glued' = {} => Offset' >= Offset]_vars

\* While no crash has moved the labels ahead of the records, an honest token is
\* refused only once KEEP_MIN newer records exist: the sliding window, and not a
\* race with a prune, decides (prune, query).
RecentTokensPlace ==
  ( /\ hook.pc = "answered" /\ hook.full /\ hook.next.kind = "ours"
    /\ token.kind = "ours" /\ token.clean
    /\ Offset = 0 /\ glued = {} )
  => written - token.pos > KEEP_MIN
=============================================================================

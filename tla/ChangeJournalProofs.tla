------------------------- MODULE ChangeJournalProofs -------------------------
(* Theorems about ChangeJournal, for every KEEP_MAX, KEEP_MIN, LOG_BYTE_CAP   *)
(* and MaxRecords. Types are proved under every kind of failure, and that     *)
(* acknowledged records stay under every kind but one. The answers the hook   *)
(* gives, the labels and the restarts are proved right when the daemon may    *)
(* crash at any step but no I/O call fails (OnlyCrashes).                     *)
EXTENDS ChangeJournal, TLAPS

OnlyCrashes == Faults \subseteq {"crash", "fallback"}

-----------------------------------------------------------------------------
(* Types *)

\* What prune keeps, a sequence without its first k records.
LEMMA SuffixType ==
  ASSUME NEW S, NEW s \in Seq(S), NEW k \in Nat, k <= Len(s)
  PROVE  /\ SubSeq(s, k + 1, Len(s)) \in Seq(S)
         /\ Len(SubSeq(s, k + 1, Len(s))) = Len(s) - k
         /\ \A i \in 1..(Len(s) - k) : SubSeq(s, k + 1, Len(s))[i] = s[k + i]
  OBVIOUS

\* What holds inside record(): a record is in flight, the daemon is running,
\* and a prune has something to drop.
InRecord ==
  /\ pc # "idle" => up /\ written >= 1
  /\ pc \in {"prune", "staged", "based"} => Len(paths) > KEEP_MIN

\* A fresh journal has its types and no record in flight.
LEMMA InitType == Init => TypeOK /\ InRecord
  BY WindowAssumption, BoundAssumption
  DEF Init, TypeOK, InRecord, HookType, Records, Tokens, IdleHook, EmptyToken

\* Every step of daemon, hook and git, and every fault, preserves the types.
LEMMA StepType == TypeOK /\ InRecord /\ [Next]_vars => TypeOK' /\ InRecord'
<1> SUFFICES ASSUME TypeOK, InRecord, [Next]_vars
             PROVE  TypeOK' /\ InRecord'
  OBVIOUS
<1> USE WindowAssumption, Hysteresis, BoundAssumption
<1>d. OnDisk \in Records
  BY DEF TypeOK, Records, OnDisk
<1>e. <<>> \in Records
  BY DEF Records
<1>a. ASSUME NEW whole \in BOOLEAN, AppendPath(whole), pc' \in {"path", "idle"}
      PROVE  TypeOK' /\ InRecord'
  <2>1. tail' \in Records
    <3>1. written + 1 \in 0..MaxRecords /\ Garbled \in 0..MaxRecords
      BY <1>a DEF AppendPath, TypeOK, Garbled
    <3>2. <<written + 1>> \in Records /\ <<Garbled>> \in Records
      BY <3>1 DEF Records
    <3> QED
      BY <1>a, <3>2 DEF AppendPath, TypeOK
  <2>2. written' \in 0..MaxRecords /\ glued' \subseteq 0..MaxRecords
    BY <1>a DEF AppendPath, TypeOK
  <2> QED
    BY <1>a, <2>1, <2>2 DEF AppendPath, TypeOK, InRecord
<1>s. ASSUME pc \in {"prune", "staged", "based"}
      PROVE  /\ DropN \in Nat /\ DropN <= Len(paths)
             /\ SubSeq(paths, DropN + 1, Len(paths)) \in Records
  <2>1. DropN \in Nat /\ DropN <= Len(paths)
    BY <1>s DEF DropN, InRecord, TypeOK, Records
  <2> QED
    BY <2>1, SuffixType DEF TypeOK, Records
<1>1. CASE Open
  BY <1>1, <1>d DEF Open, TypeOK, InRecord, diskVars, ghostVars
<1>2. CASE RecordPath
  BY <1>2, <1>a DEF RecordPath
<1>3. CASE RecordNul
  BY <1>3, <1>d, <1>e DEF RecordNul, TypeOK, InRecord, ghostVars
<1>4. CASE RecordSync
  <2>1. written \in 1..MaxRecords
    BY <1>4 DEF RecordSync, TypeOK, InRecord
  <2>2. paths' \in Records /\ Len(paths') = Len(paths) + 1
    BY <1>4 DEF RecordSync, TypeOK, Records
  <2>3. synced' \in Records
    BY <1>4 DEF RecordSync, Synced, TypeOK
  <2> QED
    BY <1>4, <2>1, <2>2, <2>3 DEF RecordSync, TypeOK, InRecord, OverCap
<1>5. CASE PruneStage
  BY <1>5, <1>s DEF PruneStage, TypeOK, InRecord, ghostVars
<1>6. CASE PruneBase
  BY <1>6, <1>s DEF PruneBase, NewBase, TypeOK, InRecord, ghostVars
<1>7. CASE PruneSwap
  BY <1>7, <1>s, <1>e DEF PruneSwap, RenameLog, NewBase, TypeOK, InRecord
<1>h. ASSUME hook' \in HookType, token' \in Tokens, UNCHANGED <<journalVars, diskVars, ghostVars>>
      PROVE  TypeOK' /\ InRecord'
  BY <1>h DEF TypeOK, InRecord, HookType, journalVars, diskVars, ghostVars
<1>i. IdleHook \in HookType /\ EmptyToken \in Tokens
  BY DEF IdleHook, EmptyToken, HookType, Tokens, Records
<1>8. CASE HookReadLog
  <2>1. {n \in acked : n > token.pos} \in SUBSET (1..MaxRecords)
    BY DEF TypeOK
  <2>2. hook' \in HookType
    BY <1>8, <1>d, <1>i, <2>1 DEF HookReadLog, TypeOK, HookType
  <2> QED
    BY <1>8, <1>h, <2>2 DEF HookReadLog, TypeOK
<1>9. CASE HookReadBase
  <2>1. hook \in HookType
    BY DEF TypeOK, HookType
  <2>2. ASSUME Placeable(token, hook.log, base)
        PROVE  Since(token, hook.log, base) \in SUBSET (0..MaxRecords)
    <3>1. hook.log \in Seq(0..MaxRecords)
      BY <2>1 DEF HookType, Records
    <3>2. CASE token.kind = "empty"
      BY <3>2 DEF Since
    <3>3. CASE token.kind = "ours" /\ token.seq >= base
      <4>1. \A i \in (token.seq - base + 1)..Len(hook.log) : hook.log[i] \in 0..MaxRecords
        BY <3>1, <3>3 DEF TypeOK, Tokens
      <4> QED
        BY <4>1, <3>3 DEF Since
    <3> QED
      BY <2>2, <3>2, <3>3 DEF Placeable
  <2>3. [kind |-> "ours", seq |-> base + Len(hook.log), pos |-> hook.upto,
         clean |-> hook.clean /\ pc # "based" /\ base = hook.base0] \in Tokens
    BY <2>1 DEF HookType, Records, TypeOK, Tokens
  <2>4. hook' \in HookType
    BY <1>9, <2>1, <2>2, <2>3 DEF HookReadBase, Answer, HookType
  <2> QED
    BY <1>9, <1>h, <2>4 DEF HookReadBase, TypeOK
<1>10. CASE HookFallback
  <2>1. hook' \in HookType
    BY <1>10, <1>i DEF HookFallback, HookType, Tokens
  <2> QED
    BY <1>10, <1>h, <2>1 DEF HookFallback, TypeOK
<1>11. CASE GitAdopt
  <2>1. token' \in Tokens /\ hook' \in HookType
    BY <1>11, <1>i DEF GitAdopt, TypeOK, HookType
  <2> QED
    BY <1>11, <1>h, <2>1 DEF GitAdopt
<1>12. CASE WriteFails
  BY <1>12, <1>a DEF WriteFails, TypeOK, InRecord, diskVars, ghostVars
<1>13. CASE PruneFails
  BY <1>13 DEF PruneFails, TypeOK, InRecord, diskVars, ghostVars
<1>14. CASE ReopenFails
  BY <1>14, <1>e DEF ReopenFails, RenameLog, TypeOK, InRecord, ghostVars
<1>15. CASE Crash
  BY <1>15, <1>e DEF Crash, Stop, TypeOK, InRecord, diskVars, ghostVars
<1>16. CASE PowerLoss
  BY <1>16, <1>e, <1>i DEF PowerLoss, Stop, TypeOK, InRecord, HookType, ghostVars
<1>17. CASE UNCHANGED vars
  BY <1>17 DEF vars, journalVars, diskVars, ghostVars, TypeOK, InRecord
<1> QED
  BY <1>1, <1>2, <1>3, <1>4, <1>5, <1>6, <1>7, <1>8, <1>9, <1>10, <1>11, <1>12, <1>13, <1>14,
     <1>15, <1>16, <1>17 DEF Next, Daemon, Hook, Fail

\* The daemon's State, its files, the hook's answers and git's token keep their
\* types under every kind of failure: base never goes below zero, a pruned
\* suffix is a sequence of records, a seq is a natural number.
THEOREM JournalTypeCorrect == Spec => []TypeOK
<1>1. Init => TypeOK /\ InRecord
  BY InitType
<1>2. TypeOK /\ InRecord /\ [Next]_vars => (TypeOK /\ InRecord)'
  BY StepType
<1> QED
  BY <1>1, <1>2, PTL DEF Spec

-----------------------------------------------------------------------------
(* The inductive invariant. Until a NUL goes missing, the window and the log  *)
(* are the newest appends in order, the log is the window plus the record in  *)
(* flight, and base is ahead of memory only between publishing and the swap.  *)

\* s holds the appends that end at ordinal last, in order.
Ordinals(s, last) ==
  Len(s) <= last /\ \A i \in 1..Len(s) : s[i] = last - Len(s) + i

DaemonInv ==
  /\ handle = "live"
  /\ Ordinals(paths, Pushed)
  /\ Len(OnDisk) = Len(paths) + written - Pushed
  /\ base = IF pc = "based" THEN NewBase ELSE memBase
  /\ pc \in {"staged", "based"} => tmp = SubSeq(paths, DropN + 1, Len(paths))

DiskInv ==
  /\ Ordinals(OnDisk, written)
  /\ pc = "path" => Len(tail) = 1
  /\ pc \notin {"idle", "path"} => tail = <<>>
  /\ Offset >= 0
  /\ acked \subseteq 1..written

JournalInv ==
  glued = {} => (up => DaemonInv) /\ DiskInv

-----------------------------------------------------------------------------
(* Sequences of ordinals *)

\* A log with nothing in its tail is the log.
LEMMA ConcatEmpty ==
  ASSUME NEW S, NEW s \in Seq(S)
  PROVE  s \o <<>> = s
  OBVIOUS

\* A window of consecutive records stays consecutive when record() pushes the next.
LEMMA OrdinalsAppend ==
  ASSUME NEW S, NEW s \in Seq(S), NEW n \in Nat, Ordinals(s, n)
  PROVE  Ordinals(Append(s, n + 1), n + 1)
  BY DEF Ordinals

\* So does the log on disk with the next record still in its tail.
LEMMA OrdinalsConcat ==
  ASSUME NEW S, NEW s \in Seq(S), NEW n \in Nat, Ordinals(s, n)
  PROVE  Ordinals(s \o <<n + 1>>, n + 1) /\ Len(s \o <<n + 1>>) = Len(s) + 1
  BY DEF Ordinals

\* So does what prune keeps of them.
LEMMA OrdinalsSuffix ==
  ASSUME NEW S, NEW s \in Seq(S), NEW n \in Nat, Ordinals(s, n), NEW k \in Nat, k <= Len(s)
  PROVE  Ordinals(SubSeq(s, k + 1, Len(s)), n)
<1>1. /\ Len(SubSeq(s, k + 1, Len(s))) = Len(s) - k
      /\ \A i \in 1..(Len(s) - k) : SubSeq(s, k + 1, Len(s))[i] = s[k + i]
  BY SuffixType
<1>2. \A i \in 1..(Len(s) - k) : s[k + i] = n - (Len(s) - k) + i
  <2>1. TAKE i \in 1..(Len(s) - k)
  <2>2. k + i \in 1..Len(s)
    OBVIOUS
  <2> QED
    BY <2>2 DEF Ordinals
<1> DEFINE t == SubSeq(s, k + 1, Len(s))
<1>3. Len(t) <= n
  BY <1>1 DEF Ordinals
<1>4. \A i \in 1..Len(t) : t[i] = n - Len(t) + i
  BY <1>1, <1>2
<1> HIDE DEF t
<1>5. Ordinals(t, n)
  BY <1>3, <1>4 DEF Ordinals
<1> QED
  BY <1>5 DEF t

-----------------------------------------------------------------------------
(* Every step of a daemon that may crash preserves the invariant, and no      *)
(* step moves a label backward.                                               *)

\* A fresh journal satisfies the invariant.
LEMMA InitInv == Init => JournalInv
  BY DEF Init, JournalInv, DaemonInv, DiskInv, Ordinals, Pushed, OnDisk, Offset

\* The offset of the labels is an integer.
LEMMA OffsetType ==
  ASSUME TypeOK, TypeOK'
  PROVE  Offset \in Int /\ Offset' \in Int
<1>1. Pushed \in Int /\ Pushed' \in Int
  BY BoundAssumption DEF TypeOK, Pushed
<1>2. OnDisk \in Seq(0..MaxRecords) /\ OnDisk' \in Seq(0..MaxRecords)
  BY DEF TypeOK, OnDisk, Records
<1>3. Len(OnDisk) \in Int /\ Len(OnDisk)' \in Int
  BY <1>2
<1>4. /\ Len(paths) \in Int /\ Len(paths)' \in Int
      /\ memBase \in Int /\ memBase' \in Int /\ base \in Int /\ base' \in Int
      /\ written \in Int /\ written' \in Int
  BY BoundAssumption DEF TypeOK, Records
<1>5. Offset \in Int
  BY ONLY <1>1, <1>3, <1>4 DEF Offset
<1>6. Offset' \in Int
  BY ONLY <1>1, <1>3, <1>4 DEF Offset
<1> QED
  BY <1>5, <1>6

\* Every step preserves the invariant while no record is glued to another.
LEMMA StepInv ==
  ASSUME OnlyCrashes, TypeOK, TypeOK', InRecord, InRecord', JournalInv, [Next]_vars, glued' = {}
  PROVE  JournalInv' /\ glued = {} /\ Offset' >= Offset
<1> USE WindowAssumption, Hysteresis, BoundAssumption
<1>g. glued = {}
  <2>1. ASSUME NEW whole, AppendPath(whole)
        PROVE  glued = {}
    BY <2>1 DEF AppendPath
  <2> QED
    BY <2>1 DEF Next, Daemon, Hook, Fail, Open, RecordPath, RecordNul, RecordSync, PruneStage,
       PruneBase, PruneSwap, HookReadLog, HookReadBase, HookFallback, GitAdopt, WriteFails,
       PruneFails, ReopenFails, Crash, PowerLoss, vars, ghostVars
<1>inv. (up => DaemonInv) /\ DiskInv
  BY <1>g DEF JournalInv
<1>t. /\ paths \in Seq(0..MaxRecords) /\ OnDisk \in Seq(0..MaxRecords) /\ log \in Seq(0..MaxRecords)
      /\ written \in Nat /\ memBase \in Nat /\ base \in Nat /\ Pushed \in Int
      /\ Len(paths) \in Nat /\ Len(OnDisk) \in Nat /\ Offset \in Int
  BY DEF TypeOK, Records, OnDisk, Pushed, Offset
<1>q. ASSUME Offset' >= Offset, up' => DaemonInv', DiskInv'
      PROVE  JournalInv' /\ glued = {} /\ Offset' >= Offset
  BY <1>q, <1>g, <1>inv DEF JournalInv
<1>1. CASE Open
  <2> USE <1>1 DEF Open
  <2>1. pc = "idle" /\ UNCHANGED <<OnDisk, written, base, hook, token, acked, tail, pc>>
    BY DEF InRecord, OnDisk, diskVars, ghostVars
  <2>2. Offset' = Offset
    BY <2>1, <1>t DEF Offset, Pushed
  <2>3. DaemonInv'
    BY <2>1, <1>inv, <1>t DEF DaemonInv, DiskInv, Pushed
  <2>4. DiskInv'
    BY <2>1, <2>2, <1>inv DEF DiskInv
  <2> QED
    BY <2>1, <2>2, <2>3, <2>4, <1>q, <1>t, <1>inv DEF DiskInv
<1>2. CASE RecordPath
  <2> USE <1>2 DEF RecordPath, AppendPath
  <2>1. tail = <<>> /\ handle = "live" /\ tail' = <<written + 1>> /\ up
    BY <1>inv DEF DaemonInv
  <2>2. OnDisk = log /\ OnDisk' = log \o <<written + 1>>
    BY <2>1, <1>t, ConcatEmpty DEF OnDisk
  <2>3. Ordinals(OnDisk', written') /\ Len(OnDisk') = Len(OnDisk) + 1
    BY <2>2, <1>inv, <1>t, OrdinalsConcat DEF DiskInv
  <2>4. Pushed' = written /\ Pushed = written
    BY <1>t DEF Pushed
  <2>5. Offset' = Offset
    BY <2>1, <2>4 DEF Offset
  <2>6. DaemonInv'
    <3>1. Ordinals(paths', Pushed') /\ base' = memBase' /\ handle' = "live"
      BY <2>1, <2>4, <1>inv DEF DaemonInv
    <3>2. Len(OnDisk) = Len(paths)
      BY <2>1, <2>4, <1>inv, <1>t DEF DaemonInv
    <3>3. Len(OnDisk') = Len(paths') + written' - Pushed'
      BY <2>3, <2>4, <3>2, <1>t
    <3> QED
      BY <3>1, <3>3 DEF DaemonInv
  <2>7. DiskInv'
    BY <2>1, <2>3, <2>5, <1>inv, <1>t DEF DiskInv
  <2> QED
    BY <2>5, <2>6, <2>7, <1>q, <1>t, <1>inv DEF DiskInv, Offset
<1>3. CASE RecordNul
  <2> USE <1>3 DEF RecordNul, ghostVars
  <2>1. up /\ handle = "live" /\ log' = OnDisk /\ tail' = <<>>
    BY <1>inv DEF DaemonInv, InRecord
  <2>2. OnDisk' = OnDisk
    BY <2>1, <1>t, ConcatEmpty DEF OnDisk
  <2>3. Pushed' = Pushed
    BY DEF Pushed
  <2>5. Offset' = Offset
    BY <2>1, <2>3 DEF Offset
  <2>6. DaemonInv'
    BY <2>1, <2>2, <2>3, <1>inv DEF DaemonInv
  <2>7. DiskInv'
    BY <2>1, <2>2, <2>5, <1>inv DEF DiskInv
  <2> QED
    BY <2>5, <2>6, <2>7, <1>q, <1>t, <1>inv DEF DiskInv, Offset
<1>4. CASE RecordSync
  <2> USE <1>4 DEF RecordSync
  <2>1. up /\ OnDisk' = OnDisk /\ written >= 1 /\ pc' \in {"prune", "idle"} /\ tail = <<>>
    BY <1>inv DEF OnDisk, InRecord, DiskInv
  <2>2. Pushed' = written /\ Pushed = written - 1
    BY <2>1 DEF Pushed
  <2>3. Ordinals(paths', Pushed') /\ Len(paths') = Len(paths) + 1
    <3>1. written = (written - 1) + 1 /\ written - 1 \in Nat
      BY <2>1, <1>t
    <3> QED
      BY <3>1, <2>1, <2>2, <1>inv, <1>t, OrdinalsAppend DEF DaemonInv
  <2>5. Offset' = Offset
    BY <2>1, <2>2, <2>3, <1>t DEF Offset
  <2>6. DaemonInv'
    BY <2>1, <2>2, <2>3, <1>inv, <1>t DEF DaemonInv
  <2>7. DiskInv'
    <3>1. acked' \subseteq 1..written'
      <4>1. acked' \subseteq acked \union {written} /\ written' = written
        OBVIOUS
      <4>2. acked \subseteq 1..written
        BY <1>inv DEF DiskInv
      <4> QED
        BY <4>1, <4>2, <2>1, <1>t
    <3> QED
      BY <2>1, <2>5, <3>1, <1>inv, <1>t DEF DiskInv
  <2> QED
    BY <2>5, <2>6, <2>7, <1>q, <1>t, <1>inv DEF DiskInv, Offset
<1>5. CASE PruneStage
  <2> USE <1>5 DEF PruneStage, ghostVars
  <2>1. up /\ OnDisk' = OnDisk /\ Pushed' = Pushed /\ DropN' = DropN
    BY DEF OnDisk, InRecord, Pushed, DropN
  <2>5. Offset' = Offset
    BY <2>1 DEF Offset
  <2>6. DaemonInv'
    BY <2>1, <1>inv DEF DaemonInv
  <2>7. DiskInv'
    BY <2>1, <2>5, <1>inv DEF DiskInv
  <2> QED
    BY <2>5, <2>6, <2>7, <1>q, <1>t, <1>inv DEF DiskInv, Offset
<1>6. CASE PruneBase
  <2> USE <1>6 DEF PruneBase, ghostVars
  <2>1. up /\ OnDisk' = OnDisk /\ Pushed' = Pushed /\ DropN' = DropN /\ NewBase' = NewBase
    BY DEF OnDisk, InRecord, Pushed, DropN, NewBase
  <2>2. base' >= base
    BY <1>inv, <2>1, <1>t DEF DaemonInv, NewBase, DropN, InRecord
  <2>5. Offset' = Offset
    BY <2>1 DEF Offset
  <2>6. DaemonInv'
    BY <2>1, <1>inv DEF DaemonInv
  <2>7. DiskInv'
    BY <2>1, <2>5, <1>inv DEF DiskInv
  <2> QED
    BY <2>2, <2>5, <2>6, <2>7, <1>q, <1>t, <1>inv DEF DiskInv, Offset
<1>7. CASE PruneSwap
  <2> USE <1>7 DEF PruneSwap, RenameLog
  <2>1. /\ up /\ up' /\ Pushed' = written /\ Pushed = written /\ written >= 1
        /\ DropN \in Nat /\ DropN <= Len(paths)
    BY <1>t DEF InRecord, Pushed, DropN
  <2>2. /\ tmp = SubSeq(paths, DropN + 1, Len(paths))
        /\ Ordinals(tmp, written) /\ Len(tmp) = Len(paths) - DropN /\ tmp \in Seq(0..MaxRecords)
    <3>1. tmp = SubSeq(paths, DropN + 1, Len(paths)) /\ Ordinals(paths, written)
      BY <2>1, <1>inv DEF DaemonInv
    <3>2. Ordinals(SubSeq(paths, DropN + 1, Len(paths)), written)
      BY <2>1, <3>1, <1>t, OrdinalsSuffix
    <3> QED
      BY <2>1, <3>1, <3>2, <1>t, SuffixType
  <2>3. OnDisk' = tmp /\ paths' = tmp
    BY <2>2, ConcatEmpty DEF OnDisk
  <2>5. Offset' = Offset
    <3>1. Len(paths') = Len(paths) - DropN /\ memBase' = memBase + DropN
      BY <2>2, <2>3 DEF NewBase
    <3>2. Offset' = memBase' + Len(paths') - written /\ Offset = memBase + Len(paths) - written
      BY <2>1 DEF Offset
    <3> QED
      BY <2>1, <3>1, <3>2, <1>t
  <2>6. DaemonInv'
    BY <2>1, <2>2, <2>3, <1>inv, <1>t DEF DaemonInv
  <2>7. DiskInv'
    BY <2>1, <2>2, <2>3, <2>5, <1>inv, <1>t DEF DiskInv
  <2> QED
    BY <2>5, <2>6, <2>7, <1>q, <1>t
<1>8. CASE Crash
  <2> USE <1>8 DEF Crash, Stop, diskVars, ghostVars
  <2>1. OnDisk' = OnDisk /\ DropN \in Int /\ (pc = "based" => DropN >= 0)
    BY <1>t DEF OnDisk, DropN, InRecord
  <2>5. Offset' >= Offset
    BY <2>1, <1>inv, <1>t DEF Offset, DaemonInv, NewBase
  <2>7. DiskInv'
    BY <2>1, <2>5, <1>inv, <1>t DEF DiskInv, Offset
  <2> QED
    BY <2>5, <2>7, <1>q, <1>t
<1>9. CASE Hook \/ UNCHANGED vars
  <2> USE DEF journalVars, diskVars, ghostVars
  <2>1. UNCHANGED <<journalVars, diskVars, ghostVars>>
    BY <1>9 DEF Hook, HookReadLog, HookReadBase, HookFallback, GitAdopt, vars
  <2>2. OnDisk' = OnDisk /\ Pushed' = Pushed /\ DropN' = DropN
    BY <2>1 DEF OnDisk, Pushed, DropN
  <2>3. Offset' = Offset /\ NewBase' = NewBase
    BY <2>1, <2>2 DEF Offset, NewBase
  <2>4. (up => DaemonInv)' /\ DiskInv'
    BY <2>1, <2>2, <2>3, <1>inv DEF DaemonInv, DiskInv
  <2> QED
    BY <2>3, <2>4, <1>q, <1>t
<1> QED
  BY <1>1, <1>2, <1>3, <1>4, <1>5, <1>6, <1>7, <1>8, <1>9
  DEF Next, Daemon, Fail, OnlyCrashes, WriteFails, PruneFails, ReopenFails, PowerLoss

\* The invariant holds in every state if the only failures are crashes.
LEMMA JournalInvariant == OnlyCrashes => (Spec => [](TypeOK /\ InRecord /\ JournalInv))
<1> SUFFICES ASSUME OnlyCrashes
             PROVE  Spec => [](TypeOK /\ InRecord /\ JournalInv)
  OBVIOUS
<1>1. Init => TypeOK /\ InRecord /\ JournalInv
  BY InitType, InitInv
<1>2. TypeOK /\ InRecord /\ JournalInv /\ [Next]_vars => (TypeOK /\ InRecord /\ JournalInv)'
  <2> SUFFICES ASSUME TypeOK, InRecord, JournalInv, [Next]_vars
               PROVE  TypeOK' /\ InRecord' /\ JournalInv'
    OBVIOUS
  <2>1. TypeOK' /\ InRecord'
    BY StepType
  <2>2. CASE glued' = {}
    BY <2>1, <2>2, StepInv
  <2>3. CASE glued' # {}
    BY <2>1, <2>3 DEF JournalInv
  <2> QED
    BY <2>1, <2>2, <2>3
<1> QED
  BY <1>1, <1>2, PTL DEF Spec

\* A restart between operations reads back exactly the daemon's window and base.
THEOREM RestartAgreesAlways == OnlyCrashes => (Spec => []RestartAgrees)
<1> SUFFICES ASSUME OnlyCrashes
             PROVE  Spec => []RestartAgrees
  OBVIOUS
<1>1. TypeOK /\ JournalInv => RestartAgrees
  <2> SUFFICES ASSUME TypeOK, JournalInv, up, pc = "idle", glued = {}
               PROVE  OnDisk = paths /\ base = memBase
    BY DEF RestartAgrees
  <2>1. DaemonInv /\ DiskInv
    BY DEF JournalInv
  <2>2. /\ OnDisk \in Seq(0..MaxRecords) /\ paths \in Seq(0..MaxRecords) /\ written \in Nat
        /\ Pushed = written
    BY BoundAssumption DEF TypeOK, Records, OnDisk, Pushed
  <2>3. Len(OnDisk) = Len(paths) /\ \A i \in 1..Len(paths) : OnDisk[i] = paths[i]
    BY <2>1, <2>2 DEF DaemonInv, DiskInv, Ordinals
  <2> QED
    BY <2>1, <2>2, <2>3 DEF DaemonInv
<1> QED
  BY <1>1, JournalInvariant, PTL

\* No step, a crash or a restart included, moves a record's label backward.
THEOREM LabelsOnlyAge == OnlyCrashes => (Spec => LabelsNeverMoveBack)
<1> SUFFICES ASSUME OnlyCrashes
             PROVE  Spec => [][glued' = {} => Offset' >= Offset]_vars
  BY DEF LabelsNeverMoveBack
<1>1. TypeOK /\ InRecord /\ JournalInv /\ [Next]_vars => [glued' = {} => Offset' >= Offset]_vars
  <2> SUFFICES ASSUME TypeOK, InRecord, JournalInv, [Next]_vars, glued' = {}
               PROVE  Offset' >= Offset
    OBVIOUS
  <2>1. TypeOK' /\ InRecord'
    BY StepType
  <2> QED
    BY <2>1, StepInv
<1> QED
  BY <1>1, JournalInvariant, PTL DEF Spec

-----------------------------------------------------------------------------
(* Honest tokens. The hook's labels come from the disk, the daemon's from its *)
(* window. Every honest token is good with respect to both: what it has not   *)
(* told git of is labelled above it, or it has aged out. No step but those    *)
(* that append moves a label, glue keeps the number of records, and prune     *)
(* replaces the disk by the window's suffix. So the disk's labels may fall    *)
(* behind the window's (glue) but never a token's.                            *)

\* The window, once the record in flight has reached it.
Window == IF pc \in {"path", "nul"} THEN Append(paths, written) ELSE paths

\* Token t among the records s that start after label floor, the newest append
\* being last: t has aged out, or every append after its own that is not lost in
\* glue is there with a label above it.
Labelled(t, s, floor, last, lost) ==
  t.kind = "ours" /\ t.clean =>
    /\ t.seq <= floor + Len(s)
    /\ \/ t.seq < floor
       \/ \A n \in (t.pos + 1)..last \ lost :
            \E i \in 1..Len(s) : s[i] = n /\ floor + i > t.seq

Good(t) ==
  /\ Labelled(t, OnDisk, base, written, glued)
  /\ up => Labelled(t, Window, memBase, written, glued)

TokenInv(t) ==
  /\ t.pos <= written
  /\ t.kind = "empty" => t.pos = 0
  /\ Good(t)

\* Daemon, memory and disk, glue or not.
InStep ==
  /\ handle = "live"
  /\ tail \in {<<>>, <<written>>, <<Garbled>>}
  /\ pc \notin {"idle", "path"} => tail = <<>>
  /\ up => /\ Len(OnDisk) <= Len(Window)
           /\ base = IF pc = "based" THEN NewBase ELSE memBase
           /\ pc \in {"staged", "based"} => tmp = SubSeq(paths, DropN + 1, Len(paths))
  /\ acked \subseteq 1..written
  /\ written > 0 => base + Len(OnDisk) > 0

\* The token a hook will hand out if base does not move under it.
Candidate ==
  [kind |-> "ours", seq |-> hook.base0 + Len(hook.log), pos |-> hook.upto, clean |-> hook.clean]

\* What the hook read is what was on disk then: base may have grown since.
ReadInv ==
  /\ hook.base0 <= base /\ hook.upto <= written
  /\ hook.upto > 0 => hook.base0 + Len(hook.log) > 0
  /\ hook.due \subseteq (token.pos + 1)..hook.upto
  /\ Good(Candidate)
  /\ Labelled(token, hook.log, hook.base0, hook.upto, glued)

HookInv ==
  /\ hook.pc = "log" => ReadInv
  /\ hook.pc = "answered" => TokenInv(hook.next) /\ HonestTokensInclusive

HonestInv == InStep /\ TokenInv(token) /\ HookInv

\* A token is good when nothing is newer than it and its label is not ahead.
LEMMA LabelledFresh ==
  ASSUME NEW t \in Tokens, NEW s \in Records, NEW floor \in Nat, NEW last \in Nat, NEW lost,
         t.pos = last, t.clean => t.seq <= floor + Len(s)
  PROVE  Labelled(t, s, floor, last, lost)
<1>1. (t.pos + 1)..last = {}
  BY DEF Tokens
<1> QED
  BY <1>1 DEF Labelled

\* An append gets a label above those of all tokens.
LEMMA LabelledAppend ==
  ASSUME NEW t \in Tokens, NEW s \in Records, NEW floor \in Nat, NEW last \in Nat, NEW lost, NEW more,
         lost \subseteq more, last + 1 \in 0..MaxRecords, Labelled(t, s, floor, last, lost)
  PROVE  Labelled(t, Append(s, last + 1), floor, last + 1, more)
<1> DEFINE u == Append(s, last + 1)
<1>1. /\ Len(u) = Len(s) + 1 /\ u[Len(s) + 1] = last + 1 /\ Len(s) \in Nat
      /\ \A i \in 1..Len(s) : u[i] = s[i]
  BY DEF Records
<1> HIDE DEF u
<1>2. SUFFICES ASSUME t.kind = "ours", t.clean
               PROVE  /\ t.seq <= floor + Len(u)
                      /\ \/ t.seq < floor
                         \/ \A n \in (t.pos + 1)..(last + 1) \ more :
                              \E i \in 1..Len(u) : u[i] = n /\ floor + i > t.seq
  BY DEF Labelled, u
<1>3. t.seq <= floor + Len(s) /\ t.seq \in Nat /\ t.pos \in Int
  BY <1>2, BoundAssumption DEF Labelled, Tokens
<1>4. ASSUME t.seq >= floor, NEW n \in (t.pos + 1)..(last + 1) \ more
      PROVE  \E i \in 1..Len(u) : u[i] = n /\ floor + i > t.seq
  <2>1. CASE n = last + 1
    <3>1. Len(s) + 1 \in 1..Len(u) /\ u[Len(s) + 1] = n /\ floor + (Len(s) + 1) > t.seq
      BY <1>1, <1>3, <2>1
    <3> QED
      BY <3>1
  <2>2. CASE n # last + 1
    <3>1. n \in (t.pos + 1)..last \ lost
      BY <1>3, <1>4, <2>2
    <3>2. PICK i \in 1..Len(s) : s[i] = n /\ floor + i > t.seq
      BY <1>2, <1>3, <1>4, <3>1 DEF Labelled
    <3>3. i \in 1..Len(u) /\ u[i] = n
      BY <1>1, <3>2
    <3> QED
      BY <3>2, <3>3
  <2> QED
    BY <2>1, <2>2
<1> QED
  BY <1>1, <1>3, <1>4

\* Glue changes the last record and no label: what it stands for is lost.
LEMMA LabelledGlue ==
  ASSUME NEW t \in Tokens, NEW s \in Records, NEW floor \in Nat, NEW last \in Nat,
         NEW x \in {last, Garbled}, NEW lost, t.pos <= last,
         Labelled(t, s \o <<x>>, floor, last, lost)
  PROVE  Labelled(t, s \o <<Garbled>>, floor, last + 1, lost \union {last, last + 1})
<1> DEFINE u == s \o <<x>>
           v == s \o <<Garbled>>
<1>1. /\ Len(u) = Len(s) + 1 /\ Len(v) = Len(s) + 1 /\ Len(s) \in Nat
      /\ u[Len(s) + 1] = x /\ \A i \in 1..Len(s) : u[i] = v[i]
  BY DEF Records
<1> HIDE DEF u, v
<1>2. SUFFICES ASSUME t.kind = "ours", t.clean
               PROVE  /\ t.seq <= floor + Len(v)
                      /\ \/ t.seq < floor
                         \/ \A n \in (t.pos + 1)..(last + 1) \ (lost \union {last, last + 1}) :
                              \E i \in 1..Len(v) : v[i] = n /\ floor + i > t.seq
  BY DEF Labelled, v
<1>3. t.seq <= floor + Len(u) /\ t.seq \in Nat /\ t.pos \in Nat
  BY <1>2, BoundAssumption DEF Labelled, Tokens, u
<1>4. ASSUME t.seq >= floor, NEW n \in (t.pos + 1)..(last + 1) \ (lost \union {last, last + 1})
      PROVE  \E i \in 1..Len(v) : v[i] = n /\ floor + i > t.seq
  <2>1. n \in (t.pos + 1)..last \ lost /\ n # last /\ n # Garbled
    BY <1>3, <1>4 DEF Garbled
  <2>2. PICK i \in 1..Len(u) : u[i] = n /\ floor + i > t.seq
    BY <1>2, <1>3, <1>4, <2>1 DEF Labelled, u
  <2>3. i # Len(s) + 1
    BY <1>1, <2>1, <2>2
  <2>4. i \in 1..Len(s) /\ i \in 1..Len(v) /\ v[i] = n
    BY <1>1, <2>2, <2>3
  <2> QED
    BY <2>2, <2>4
<1> QED
  BY <1>1, <1>3, <1>4

\* A larger floor ages records forward.
LEMMA LabelledAge ==
  ASSUME NEW t \in Tokens, NEW s \in Records, NEW floor \in Nat, NEW more \in Nat, NEW last \in Nat,
         NEW lost, floor <= more, Labelled(t, s, floor, last, lost)
  PROVE  Labelled(t, s, more, last, lost)
<1>1. Len(s) \in Nat /\ t.seq \in Nat
  BY DEF Records, Tokens
<1>2. SUFFICES ASSUME t.kind = "ours", t.clean
               PROVE  /\ t.seq <= more + Len(s)
                      /\ \/ t.seq < more
                         \/ \A n \in (t.pos + 1)..last \ lost :
                              \E i \in 1..Len(s) : s[i] = n /\ more + i > t.seq
  BY DEF Labelled
<1>3. ASSUME t.seq >= more, NEW n \in (t.pos + 1)..last \ lost
      PROVE  \E i \in 1..Len(s) : s[i] = n /\ more + i > t.seq
  <2>1. PICK i \in 1..Len(s) : s[i] = n /\ floor + i > t.seq
    BY <1>1, <1>2, <1>3 DEF Labelled
  <2>2. more + i > t.seq
    BY <1>1, <2>1
  <2> QED
    BY <2>1, <2>2
<1> QED
  BY <1>1, <1>2, <1>3 DEF Labelled

\* Dropping the oldest k records raises the floor by k and moves no label.
LEMMA LabelledSuffix ==
  ASSUME NEW t \in Tokens, NEW s \in Records, NEW floor \in Nat, NEW last \in Nat, NEW lost,
         NEW k \in Nat, k <= Len(s), Labelled(t, s, floor, last, lost)
  PROVE  Labelled(t, SubSeq(s, k + 1, Len(s)), floor + k, last, lost)
<1> DEFINE u == SubSeq(s, k + 1, Len(s))
<1>1. /\ Len(u) = Len(s) - k /\ Len(s) \in Nat /\ t.seq \in Nat
      /\ \A i \in 1..(Len(s) - k) : u[i] = s[k + i]
  BY SuffixType DEF Records, Tokens
<1> HIDE DEF u
<1>2. SUFFICES ASSUME t.kind = "ours", t.clean
               PROVE  /\ t.seq <= floor + k + Len(u)
                      /\ \/ t.seq < floor + k
                         \/ \A n \in (t.pos + 1)..last \ lost :
                              \E i \in 1..Len(u) : u[i] = n /\ floor + k + i > t.seq
  BY DEF Labelled, u
<1>3. ASSUME t.seq >= floor + k, NEW n \in (t.pos + 1)..last \ lost
      PROVE  \E i \in 1..Len(u) : u[i] = n /\ floor + k + i > t.seq
  <2>1. PICK i \in 1..Len(s) : s[i] = n /\ floor + i > t.seq
    BY <1>1, <1>2, <1>3 DEF Labelled
  <2>2. i - k \in 1..(Len(s) - k) /\ k + (i - k) = i
    BY <1>1, <1>3, <2>1
  <2>3. i - k \in 1..Len(u) /\ u[i - k] = n /\ floor + k + (i - k) > t.seq
    BY <1>1, <2>1, <2>2
  <2> QED
    BY <2>3
<1>4. t.seq <= floor + k + Len(u)
  BY <1>1, <1>2 DEF Labelled
<1> QED
  BY <1>3, <1>4, <1>1

\* The daemon's own steps, and a crash at any of them, keep memory and disk in
\* step and every good token good.
LEMMA DaemonStep ==
  ASSUME OnlyCrashes, TypeOK, TypeOK', InRecord, InStep, Daemon \/ Crash
  PROVE  /\ InStep' /\ base' >= base /\ written' >= written /\ glued \subseteq glued'
         /\ \A t \in Tokens : t.pos <= written /\ Good(t) => Good(t)'
<1> DEFINE Kept == /\ InStep' /\ base' >= base /\ written' >= written /\ glued \subseteq glued'
                   /\ \A t \in Tokens : t.pos <= written /\ Good(t) => Good(t)'
<1>t. /\ OnDisk \in Records /\ OnDisk' \in Records /\ Window \in Records /\ Window' \in Records
      /\ paths \in Records /\ log \in Records /\ tail \in Records
      /\ base \in Nat /\ memBase \in Nat /\ written \in Nat /\ written \in 0..MaxRecords
      /\ written' \in 0..MaxRecords
  <2>1. \A s \in Records, n \in 0..MaxRecords : Append(s, n) \in Records
    BY DEF Records
  <2>2. \A s, u \in Records : s \o u \in Records
    BY DEF Records
  <2> QED
    BY <2>1, <2>2, BoundAssumption DEF TypeOK, OnDisk, Window
<1>l. /\ Len(OnDisk) \in Nat /\ Len(Window) \in Nat /\ Len(paths) \in Nat
      /\ \A s \in Records : s \o <<>> = s
  BY <1>t, ConcatEmpty DEF Records
<1>s. ASSUME UNCHANGED <<OnDisk, base, written, glued>>, up' => UNCHANGED <<up, Window, memBase>>
      PROVE  \A t \in Tokens : Good(t) => Good(t)'
  BY <1>s DEF Good
<1>1. CASE Open
  <2> USE <1>1 DEF Open, diskVars, ghostVars
  <2>1. pc = "idle" /\ OnDisk' = OnDisk /\ Window' = OnDisk
    BY DEF InRecord, OnDisk, Window
  <2>2. InStep'
    BY <2>1, <1>l DEF InStep
  <2>3. \A t \in Tokens : Good(t) => Good(t)'
    BY <2>1 DEF Good
  <2> QED
    BY <2>2, <2>3, <1>t
<1>2. CASE RecordPath
  <2> USE <1>2 DEF RecordPath, AppendPath
  <2>1. handle = "live" /\ up /\ up' /\ pc = "idle" /\ pc' = "path" /\ memBase' = memBase
        /\ written' = written + 1 /\ base' = base
    BY DEF InStep
  <2>2. Window = paths /\ Window' = Append(paths, written + 1)
    BY <2>1 DEF Window
  <2>3. glued \subseteq glued'
    OBVIOUS
  <2>4. ASSUME NEW t \in Tokens, t.pos <= written, Good(t)
        PROVE  Labelled(t, Window', memBase', written', glued')
    BY <2>1, <2>2, <2>3, <2>4, <1>t, LabelledAppend DEF Good
  <2>5. CASE tail = <<>>
    <3>1. tail' = <<written + 1>> /\ OnDisk = log /\ OnDisk' = log \o <<written + 1>>
      BY <2>1, <2>5, <1>t, <1>l DEF OnDisk
    <3>2. OnDisk' = Append(OnDisk, written + 1) /\ Len(OnDisk') = Len(OnDisk) + 1
      BY <3>1, <1>t DEF Records
    <3>3. ASSUME NEW t \in Tokens, t.pos <= written, Good(t)
          PROVE  Labelled(t, OnDisk', base', written', glued')
      BY <2>1, <2>3, <3>2, <3>3, <1>t, LabelledAppend DEF Good
    <3>4. Len(OnDisk') <= Len(Window')
      <4>1. Len(OnDisk) <= Len(paths) /\ Len(Window') = Len(paths) + 1
        BY <2>1, <2>2, <1>t DEF InStep, Records
      <4> QED
        BY <3>2, <4>1, <1>l
    <3>5. InStep'
      BY <2>1, <3>1, <3>2, <3>4, <1>l, <1>t DEF InStep
    <3>6. ASSUME NEW t \in Tokens, t.pos <= written, Good(t)
          PROVE  Good(t)'
      BY <3>6, <2>4, <3>3 DEF Good
    <3> QED
      BY <2>1, <2>3, <3>5, <3>6, <1>t
  <2>6. CASE tail # <<>>
    <3>1. PICK x \in {written, Garbled} : tail = <<x>>
      BY <2>6 DEF InStep
    <3>2. /\ tail' = <<Garbled>> /\ glued' = glued \union {written, written + 1}
          /\ OnDisk = log \o <<x>> /\ OnDisk' = log \o <<Garbled>>
      BY <2>1, <2>6, <3>1 DEF OnDisk
    <3>3. Len(OnDisk') = Len(OnDisk) /\ Len(OnDisk) > 0
      BY <3>2, <1>t DEF Records
    <3>4. ASSUME NEW t \in Tokens, t.pos <= written, Good(t)
          PROVE  Labelled(t, OnDisk', base', written', glued')
      <4>1. Labelled(t, log \o <<x>>, base, written, glued)
        BY <3>2, <3>4 DEF Good
      <4>2. Labelled(t, log \o <<Garbled>>, base, written + 1, glued \union {written, written + 1})
        BY <3>4, <4>1, <1>t, LabelledGlue
      <4> QED
        BY <2>1, <3>2, <4>2
    <3>5. Len(OnDisk') <= Len(Window')
      <4>1. Len(OnDisk) <= Len(paths) /\ Len(Window') = Len(paths) + 1
        BY <2>1, <2>2, <1>t DEF InStep, Records
      <4> QED
        BY <3>3, <4>1, <1>l
    <3>6. InStep'
      BY <2>1, <3>2, <3>3, <3>5, <1>l, <1>t DEF InStep
    <3>7. ASSUME NEW t \in Tokens, t.pos <= written, Good(t)
          PROVE  Good(t)'
      BY <3>7, <2>4, <3>4 DEF Good
    <3> QED
      BY <2>1, <2>3, <3>6, <3>7, <1>t
  <2> QED
    BY <2>5, <2>6
<1>3. CASE RecordNul
  <2> USE <1>3 DEF RecordNul, ghostVars
  <2>1. handle = "live" /\ up /\ log' = OnDisk /\ tail' = <<>> /\ OnDisk' = OnDisk /\ Window' = Window
    BY <1>t, <1>l DEF InStep, InRecord, OnDisk, Window
  <2>2. InStep'
    BY <2>1 DEF InStep
  <2> QED
    BY <2>1, <2>2, <1>s, <1>t
<1>4. CASE RecordSync
  <2> USE <1>4 DEF RecordSync
  <2>1. /\ up /\ written >= 1 /\ OnDisk' = OnDisk /\ Window = Append(paths, written) /\ Window' = Window
        /\ pc' \in {"idle", "prune"}
    BY DEF InRecord, OnDisk, Window
  <2>2. acked' \subseteq 1..written'
    <3>1. acked' \subseteq acked \union {written} /\ written' = written
      OBVIOUS
    <3> QED
      BY <2>1, <3>1, <1>t DEF InStep
  <2>3. InStep'
    BY <2>1, <2>2 DEF InStep
  <2> QED
    BY <2>1, <2>3, <1>s, <1>t
<1>5. CASE PruneStage
  <2> USE <1>5 DEF PruneStage, ghostVars
  <2>1. up /\ OnDisk' = OnDisk /\ Window' = Window /\ DropN' = DropN
    BY DEF InRecord, OnDisk, Window, DropN
  <2>2. InStep'
    BY <2>1 DEF InStep
  <2> QED
    BY <2>1, <2>2, <1>s, <1>t
<1>p. ASSUME pc \in {"staged", "based"}
      PROVE  /\ up /\ DropN \in Nat /\ DropN > 0 /\ DropN <= Len(paths) /\ Window = paths
             /\ NewBase = memBase + DropN
  BY <1>p, <1>l, WindowAssumption DEF InRecord, DropN, NewBase, Window
<1>6. CASE PruneBase
  <2> USE <1>6 DEF PruneBase, ghostVars
  <2>1. /\ up /\ OnDisk' = OnDisk /\ Window' = Window /\ DropN' = DropN /\ NewBase' = NewBase
        /\ base = memBase /\ base' = NewBase
    BY DEF InRecord, OnDisk, Window, DropN, NewBase, InStep
  <2>2. base' \in Nat /\ base' >= base /\ base' > 0
    BY <2>1, <1>p, <1>t
  <2>3. InStep'
    BY <2>1, <2>2, <1>l DEF InStep
  <2>4. ASSUME NEW t \in Tokens, Good(t)
        PROVE  Good(t)'
    BY <2>1, <2>2, <2>4, <1>t, LabelledAge DEF Good
  <2> QED
    BY <2>2, <2>3, <2>4, <1>t
<1>7. CASE PruneSwap
  <2> USE <1>7 DEF PruneSwap, RenameLog
  <2>1. /\ tmp = SubSeq(paths, DropN + 1, Len(paths)) /\ base = memBase + DropN /\ up /\ up'
        /\ base' = base /\ memBase' = base /\ paths' = tmp /\ log' = tmp /\ tail' = <<>>
    BY <1>p DEF InStep
  <2>2. tmp \in Records
    BY DEF TypeOK
  <2>3. OnDisk' = tmp /\ Window' = tmp
    BY <2>1, <2>2, <1>l DEF OnDisk, Window
  <2>4. acked' \subseteq 1..written'
    BY <1>t DEF InRecord, InStep
  <2>5. base > 0
    BY <2>1, <1>p, <1>t
  <2>6. InStep'
    BY <2>1, <2>2, <2>3, <2>4, <2>5, <1>t DEF InStep, Records
  <2>7. ASSUME NEW t \in Tokens, Good(t)
        PROVE  Good(t)'
    <3>1. Labelled(t, tmp, base, written, glued)
      BY <2>1, <2>7, <1>p, <1>t, LabelledSuffix DEF Good
    <3> QED
      BY <2>1, <2>3, <3>1 DEF Good
  <2> QED
    BY <2>1, <2>6, <2>7, <1>t
<1>8. CASE Crash
  <2> USE <1>8 DEF Crash, Stop, diskVars, ghostVars
  <2>1. OnDisk' = OnDisk /\ ~up'
    BY DEF OnDisk
  <2>2. InStep'
    BY <2>1 DEF InStep
  <2>3. \A t \in Tokens : Good(t) => Good(t)'
    BY <2>1 DEF Good
  <2> QED
    BY <2>2, <2>3, <1>t
<1> QED
  BY <1>1, <1>2, <1>3, <1>4, <1>5, <1>6, <1>7, <1>8 DEF Daemon

\* A fresh journal satisfies the invariant.
LEMMA InitHonest == Init => HonestInv
<1> SUFFICES ASSUME Init
             PROVE  HonestInv
  OBVIOUS
<1>1. OnDisk = <<>> /\ Window = <<>> /\ token = EmptyToken /\ hook = IdleHook
  BY DEF Init, OnDisk, Window
<1>2. InStep
  BY <1>1 DEF Init, InStep
<1>3. TokenInv(token)
  BY <1>1 DEF Init, TokenInv, Good, Labelled, EmptyToken
<1>4. HookInv
  BY <1>1 DEF HookInv, IdleHook
<1> QED
  BY <1>2, <1>3, <1>4 DEF HonestInv

\* What the types say of the hook's answer and of git's token.
LEMMA HookTypes ==
  ASSUME TypeOK
  PROVE  /\ token \in Tokens /\ hook.next \in Tokens /\ Candidate \in Tokens
         /\ hook.log \in Records /\ hook.base0 \in Nat /\ hook.upto \in 0..MaxRecords
         /\ hook.clean \in BOOLEAN
<1>1. hook \in HookType /\ token \in Tokens
  BY DEF TypeOK
<1>2. /\ hook.next \in Tokens /\ hook.log \in Records /\ hook.base0 \in Nat
      /\ hook.upto \in 0..MaxRecords /\ hook.clean \in BOOLEAN
  BY <1>1 DEF HookType
<1>3. hook.base0 + Len(hook.log) \in Nat
  BY <1>2 DEF Records
<1> QED
  BY <1>1, <1>2, <1>3 DEF Candidate, Tokens

\* What the hook answers, field by field.
LEMMA AnswerGiven ==
  ASSUME TypeOK, HookReadBase
  PROVE  /\ hook'.pc = "answered" /\ hook'.due = hook.due
         /\ hook'.full = ~Placeable(token, hook.log, base)
         /\ ~hook'.full => hook'.paths = Since(token, hook.log, base)
         /\ hook'.next = [kind |-> "ours", seq |-> base + Len(hook.log), pos |-> hook.upto,
                          clean |-> hook.clean /\ pc # "based" /\ base = hook.base0]
<1> DEFINE placed  == Placeable(token, hook.log, base)
           told    == Since(token, hook.log, base)
           between == hook.clean /\ pc # "based" /\ base = hook.base0
           reached == base + Len(hook.log)
<1>1. hook' = [hook EXCEPT !.pc = "answered", !.full = ~placed, !.clean = between,
                 !.paths = IF placed THEN told ELSE {},
                 !.next = [kind |-> "ours", seq |-> reached, pos |-> hook.upto, clean |-> between]]
  BY DEF HookReadBase, Answer
<1>2. hook \in HookType
  BY DEF TypeOK
<1> HIDE DEF placed, told, between, reached
<1>3. /\ hook'.pc = "answered" /\ hook'.due = hook.due /\ hook'.full = ~placed
      /\ placed => hook'.paths = told
      /\ hook'.next = [kind |-> "ours", seq |-> reached, pos |-> hook.upto, clean |-> between]
  BY ONLY <1>1, <1>2 DEF HookType
<1> QED
  BY ONLY <1>3 DEF placed, told, between, reached

\* Every step of a daemon that may crash, of the hooks and of git.
LEMMA HonestStep ==
  ASSUME OnlyCrashes, TypeOK, TypeOK', InRecord, HonestInv, [Next]_vars
  PROVE  HonestInv'
<1>inv. InStep /\ TokenInv(token) /\ HookInv
  BY DEF HonestInv
<1>k. /\ token \in Tokens /\ hook.next \in Tokens /\ Candidate \in Tokens
      /\ hook.log \in Records /\ hook.base0 \in Nat /\ hook.upto \in 0..MaxRecords
      /\ hook.clean \in BOOLEAN /\ hook.upto \in Nat /\ Len(hook.log) \in Nat
      /\ token.pos \in Nat /\ token.seq \in Nat
  BY HookTypes, BoundAssumption DEF Records, Tokens
<1>t. /\ OnDisk \in Records /\ Window \in Records /\ Len(OnDisk) \in Nat /\ Len(Window) \in Nat
      /\ base \in Nat /\ memBase \in Nat /\ written \in Nat /\ written \in 0..MaxRecords
      /\ written' \in Nat /\ base' \in Nat
  <2>1. \A s \in Records, n \in 0..MaxRecords : Append(s, n) \in Records
    BY DEF Records
  <2>2. \A s, u \in Records : s \o u \in Records /\ Len(s) \in Nat
    BY DEF Records
  <2> QED
    BY <2>1, <2>2, BoundAssumption DEF TypeOK, OnDisk, Window
<1>1. CASE Daemon \/ Crash
  <2>1. UNCHANGED <<hook, token>>
    BY <1>1 DEF Daemon, Open, RecordPath, AppendPath, RecordNul, RecordSync, PruneStage, PruneBase,
                PruneSwap, Crash
  <2>2. InStep' /\ base' >= base /\ written' >= written /\ glued \subseteq glued'
    BY <1>1, <1>inv, DaemonStep
  <2>3. \A t \in Tokens : t.pos <= written /\ Good(t) =>
          /\ Labelled(t, OnDisk', base', written', glued')
          /\ up' => Labelled(t, Window', memBase', written', glued')
    <3>1. \A t \in Tokens : t.pos <= written /\ Good(t) => Good(t)'
      BY <1>1, <1>inv, DaemonStep
    <3> QED
      BY <3>1 DEF Good
  <2>4. ASSUME TokenInv(token) PROVE TokenInv(token)'
    <3>1. token' = token /\ token.pos <= written' /\ (token.kind = "empty" => token.pos = 0)
      BY <2>1, <2>2, <2>4, <1>k, <1>t DEF TokenInv
    <3>2. Good(token)'
      BY <2>1, <2>3, <2>4, <1>k DEF TokenInv, Good
    <3> QED
      BY <3>1, <3>2 DEF TokenInv
  <2>5. ASSUME hook.pc = "answered" PROVE TokenInv(hook.next)' /\ HonestTokensInclusive'
    <3>1. TokenInv(hook.next) /\ HonestTokensInclusive
      BY <2>5, <1>inv DEF HookInv
    <3>2. hook'.next = hook.next /\ hook.next.pos <= written'
          /\ (hook.next.kind = "empty" => hook.next.pos = 0)
      BY <3>1, <2>1, <2>2, <1>k, <1>t, BoundAssumption DEF TokenInv, Tokens
    <3>3. Good(hook.next)'
      BY <3>1, <2>1, <2>3, <1>k DEF TokenInv, Good
    <3> QED
      BY <3>1, <3>2, <3>3, <2>1, <2>2 DEF TokenInv, HonestTokensInclusive, Inclusive
  <2>6. ASSUME hook.pc = "log" PROVE ReadInv'
    <3>1. ReadInv
      BY <2>6, <1>inv DEF HookInv
    <3>2. Candidate' = Candidate /\ Candidate.pos <= written
      BY <3>1, <2>1 DEF Candidate, ReadInv
    <3>3. Good(Candidate)'
      BY <3>1, <3>2, <2>3, <1>k DEF ReadInv, Good
    <3>4. Labelled(token, hook.log, hook.base0, hook.upto, glued')
      BY <3>1, <2>2 DEF ReadInv, Labelled
    <3>5. hook.base0 <= base' /\ hook.upto <= written'
      BY <3>1, <2>2, <1>k, <1>t DEF ReadInv
    <3> QED
      BY <3>1, <3>3, <3>4, <3>5, <2>1 DEF ReadInv
  <2> QED
    BY <2>1, <2>2, <2>4, <2>5, <2>6, <1>inv DEF HonestInv, HookInv
<1>h. ASSUME UNCHANGED <<journalVars, diskVars, ghostVars>>
      PROVE  InStep' /\ UNCHANGED <<OnDisk, Window, base, memBase, up, written, glued>>
  <2> USE <1>h DEF journalVars, diskVars, ghostVars
  <2>1. OnDisk' = OnDisk /\ Window' = Window /\ DropN' = DropN /\ NewBase' = NewBase
    BY DEF OnDisk, Window, DropN, NewBase
  <2> QED
    BY <2>1, <1>inv DEF InStep
<1>g. ASSUME UNCHANGED <<OnDisk, Window, base, memBase, up, written, glued>>
      PROVE  \A t \in Tokens : Good(t) =>
               /\ Labelled(t, OnDisk', base', written', glued')
               /\ up' => Labelled(t, Window', memBase', written', glued')
  BY <1>g DEF Good
<1>2. CASE HookReadLog
  <2> USE <1>2 DEF HookReadLog
  <2>1. /\ hook'.pc = "log" /\ hook'.log = OnDisk /\ hook'.base0 = base /\ hook'.upto = written
        /\ hook'.due = {n \in acked : n > token.pos} /\ hook'.clean = (pc # "based")
    <3> DEFINE due == {n \in acked : n > token.pos}
               between == pc # "based"
    <3>1. hook' = [IdleHook EXCEPT !.pc = "log", !.log = OnDisk, !.base0 = base, !.upto = written,
                                   !.due = due, !.clean = between]
      OBVIOUS
    <3> HIDE DEF due, between
    <3>2. /\ hook'.pc = "log" /\ hook'.log = OnDisk /\ hook'.base0 = base /\ hook'.upto = written
          /\ hook'.due = due /\ hook'.clean = between
      BY ONLY <3>1 DEF IdleHook
    <3> QED
      BY ONLY <3>2 DEF due, between
  <2>2. InStep' /\ UNCHANGED <<OnDisk, Window, base, memBase, up, written, glued>> /\ token' = token
    BY <1>h
  <2>3. TokenInv(token)'
    BY <2>2, <1>inv, <1>k, <1>g DEF TokenInv, Good
  <2>4. Good(Candidate)'
    <3>1. /\ Candidate'.seq = base + Len(OnDisk) /\ Candidate'.pos = written
          /\ Candidate'.clean = (pc # "based") /\ Candidate' \in Tokens
      <4>1. Candidate' \in Tokens
        BY <2>1, <1>t DEF Candidate, Tokens
      <4> QED
        BY <4>1, <2>1 DEF Candidate
    <3>2. Labelled(Candidate', OnDisk, base, written, glued)
      BY <3>1, <1>t, LabelledFresh
    <3>3. ASSUME up PROVE Labelled(Candidate', Window, memBase, written, glued)
      <4>1. pc # "based" => base + Len(OnDisk) <= memBase + Len(Window)
        BY <3>3, <1>inv, <1>t DEF InStep
      <4> QED
        BY <3>1, <4>1, <1>t, LabelledFresh
    <3> QED
      BY <2>2, <3>2, <3>3 DEF Good
  <2>5. Labelled(token, OnDisk, base, written, glued)
    BY <1>inv DEF TokenInv, Good
  <2>6. hook'.due \subseteq (token.pos + 1)..hook'.upto
    BY <2>1, <1>inv, <1>t, <1>k DEF InStep
  <2>7. ReadInv'
    BY <2>1, <2>2, <2>4, <2>5, <2>6, <1>inv, <1>t DEF ReadInv, InStep
  <2> QED
    BY <2>1, <2>2, <2>3, <2>7 DEF HonestInv, HookInv
<1>3. CASE HookReadBase
  <2> USE <1>3 DEF HookReadBase
  <2>1. /\ hook'.pc = "answered" /\ hook'.due = hook.due
        /\ hook'.full = ~Placeable(token, hook.log, base)
        /\ ~hook'.full => hook'.paths = Since(token, hook.log, base)
        /\ hook'.next = [kind |-> "ours", seq |-> base + Len(hook.log), pos |-> hook.upto,
                         clean |-> hook.clean /\ pc # "based" /\ base = hook.base0]
    BY AnswerGiven
  <2>2. ReadInv
    BY <1>inv DEF HookInv
  <2>3. InStep' /\ UNCHANGED <<OnDisk, Window, base, memBase, up, written, glued>> /\ token' = token
    BY <1>h
  <2>4. TokenInv(token)'
    BY <2>3, <1>inv, <1>k, <1>g DEF TokenInv, Good
  <2>5. TokenInv(hook.next)'
    <3>1. /\ hook'.next.kind = "ours" /\ hook'.next.seq = base + Len(hook.log)
          /\ hook'.next.pos = hook.upto
          /\ hook'.next.clean = (hook.clean /\ pc # "based" /\ base = hook.base0)
      BY <2>1
    <3>2. /\ Candidate.kind = "ours" /\ Candidate.seq = hook.base0 + Len(hook.log)
          /\ Candidate.pos = hook.upto /\ Candidate.clean = hook.clean
      BY DEF Candidate
    <3>3. \A s, floor : Labelled(Candidate, s, floor, written, glued) =>
                          Labelled(hook'.next, s, floor, written, glued)
      BY <3>1, <3>2 DEF Labelled
    <3>4. Good(hook.next)'
      BY <2>2, <2>3, <3>3 DEF Good, ReadInv
    <3> QED
      BY <2>2, <2>3, <3>1, <3>4 DEF TokenInv, ReadInv
  <2>6. ASSUME token.clean, ~hook'.full, NEW n \in hook.due \ glued
        PROVE  n \in hook'.paths
    <3>1. /\ hook.due \subseteq (token.pos + 1)..hook.upto /\ hook.base0 <= base
          /\ hook.upto > 0 => hook.base0 + Len(hook.log) > 0
          /\ Labelled(token, hook.log, hook.base0, hook.upto, glued)
      BY <2>2 DEF ReadInv
    <3>2. n \in (token.pos + 1)..hook.upto \ glued /\ hook.upto > 0
      BY <2>6, <3>1, <1>k
    <3>3. CASE token.kind = "empty"
      <4>1. base + Len(hook.log) = 0
        BY <3>3, <2>1, <2>6 DEF Placeable
      <4> QED
        BY <3>1, <3>2, <4>1, <1>k, <1>t
    <3>4. CASE token.kind = "ours" /\ token.seq >= base
      <4>1. PICK i \in 1..Len(hook.log) : hook.log[i] = n /\ hook.base0 + i > token.seq
        BY <3>1, <3>2, <3>4, <2>6, <1>k, <1>t DEF Labelled
      <4>2. i \in (token.seq - base + 1)..Len(hook.log)
        BY <4>1, <3>1, <1>k, <1>t
      <4>3. hook'.paths = {hook.log[j] : j \in (token.seq - base + 1)..Len(hook.log)}
        BY <2>1, <2>6, <3>4 DEF Since
      <4> QED
        BY <4>1, <4>2, <4>3
    <3> QED
      BY <2>1, <2>6, <3>3, <3>4 DEF Placeable
  <2>7. HonestTokensInclusive'
    BY <2>1, <2>3, <2>6 DEF HonestTokensInclusive, Inclusive
  <2> QED
    BY <2>1, <2>3, <2>4, <2>5, <2>7 DEF HonestInv, HookInv
<1>4. CASE HookFallback
  <2> USE <1>4 DEF HookFallback
  <2>1. /\ hook'.pc = "answered" /\ hook'.full = TRUE
        /\ hook'.next = [EmptyToken EXCEPT !.kind = "foreign"]
    BY DEF IdleHook
  <2>2. InStep' /\ UNCHANGED <<OnDisk, Window, base, memBase, up, written, glued>> /\ token' = token
    BY <1>h
  <2>3. TokenInv(token)'
    BY <2>2, <1>inv, <1>k, <1>g DEF TokenInv, Good
  <2>4. TokenInv(hook.next)'
    BY <2>1, <2>2, <1>t DEF TokenInv, Good, Labelled, EmptyToken
  <2> QED
    BY <2>1, <2>2, <2>3, <2>4 DEF HonestInv, HookInv, HonestTokensInclusive, Inclusive
<1>5. CASE GitAdopt
  <2> USE <1>5 DEF GitAdopt
  <2>1. TokenInv(token) /\ TokenInv(hook.next)
    BY <1>inv DEF HookInv
  <2>2. InStep' /\ UNCHANGED <<OnDisk, Window, base, memBase, up, written, glued>>
    BY <1>h
  <2>3. TokenInv(token)'
    BY <2>1, <2>2, <1>k, <1>g DEF TokenInv, Good
  <2> QED
    BY <2>2, <2>3 DEF HonestInv, HookInv, IdleHook
<1>6. CASE UNCHANGED vars
  <2>1. UNCHANGED <<journalVars, diskVars, ghostVars, hook, token>>
    BY <1>6 DEF vars
  <2>2. InStep' /\ UNCHANGED <<OnDisk, Window, base, memBase, up, written, glued>>
    BY <2>1, <1>h
  <2>3. TokenInv(token)' /\ (hook.pc = "answered" => TokenInv(hook.next)')
    BY <2>1, <2>2, <1>inv, <1>k, <1>g DEF TokenInv, Good, HookInv
  <2>4. hook.pc = "log" => Good(Candidate)'
    BY <2>1, <2>2, <1>inv, <1>k, <1>g DEF Good, HookInv, ReadInv, Candidate
  <2> QED
    BY <2>1, <2>2, <2>3, <2>4, <1>inv
       DEF HonestInv, HookInv, ReadInv, HonestTokensInclusive, Inclusive
<1> QED
  BY <1>1, <1>2, <1>3, <1>4, <1>5, <1>6
     DEF Next, Hook, Fail, OnlyCrashes, WriteFails, PruneFails, ReopenFails, PowerLoss

\* The invariant of the tokens holds in every state if the only failures are crashes.
LEMMA HonestInvariant == OnlyCrashes => (Spec => [](TypeOK /\ InRecord /\ HonestInv))
<1> SUFFICES ASSUME OnlyCrashes
             PROVE  Spec => [](TypeOK /\ InRecord /\ HonestInv)
  OBVIOUS
<1>1. Init => TypeOK /\ InRecord /\ HonestInv
  BY InitType, InitHonest
<1>2. TypeOK /\ InRecord /\ HonestInv /\ [Next]_vars => (TypeOK /\ InRecord /\ HonestInv)'
  BY StepType, HonestStep
<1> QED
  BY <1>1, <1>2, PTL DEF Spec

\* Whatever the window sizes, a token the hook made while no prune was publishing
\* is answered inclusively for ever: across crashes of the daemon between any two
\* of its writes, by hooks whose own reads straddle a prune, and after records
\* were glued by a missing NUL, but for those records (journal.rs query).
THEOREM HonestInclusive == OnlyCrashes => (Spec => []HonestTokensInclusive)
<1> SUFFICES ASSUME OnlyCrashes
             PROVE  Spec => []HonestTokensInclusive
  OBVIOUS
<1>1. HonestInv => HonestTokensInclusive
  BY DEF HonestInv, HookInv, HonestTokensInclusive, Inclusive
<1> QED
  BY <1>1, HonestInvariant, PTL

-----------------------------------------------------------------------------
(* Recent tokens. Until a NUL goes missing every label is at least its        *)
(* record's ordinal, so that a token below base is older than what base       *)
(* leaves in the log: KEEP_MIN records, if any was pruned.                    *)

Ahead(t) == t.kind = "ours" => t.seq >= t.pos

\* A window that was pruned has kept KEEP_MIN records.
PrunedToMin ==
  /\ base > 0 => Len(OnDisk) >= KEEP_MIN
  /\ up /\ memBase > 0 => Len(paths) >= KEEP_MIN

\* Why an honest token was refused.
Refused ==
  hook.pc = "answered" /\ hook.full /\ hook.next.kind = "ours" /\ token.kind = "ours" /\ token.clean
    => token.seq < base

RecentInv ==
  glued = {} =>
    /\ PrunedToMin /\ Ahead(token) /\ Refused
    /\ hook.pc = "log" => Ahead(Candidate)
    /\ hook.pc = "answered" => Ahead(hook.next)

LEMMA InitRecent == Init => RecentInv
  BY DEF Init, RecentInv, PrunedToMin, Ahead, Refused, OnDisk, IdleHook, EmptyToken

LEMMA RecentStep ==
  ASSUME OnlyCrashes, TypeOK, TypeOK', InRecord, InRecord', JournalInv, HonestInv, RecentInv, [Next]_vars,
         glued' = {}
  PROVE  RecentInv'
<1>g. glued = {}
  BY StepInv
<1>inv. /\ (up => DaemonInv) /\ DiskInv /\ InStep /\ TokenInv(token) /\ HookInv
        /\ PrunedToMin /\ Ahead(token) /\ Refused
        /\ hook.pc = "log" => Ahead(Candidate)
        /\ hook.pc = "answered" => Ahead(hook.next)
  BY <1>g DEF JournalInv, HonestInv, RecentInv
<1>k. /\ token \in Tokens /\ hook.next \in Tokens /\ hook.log \in Records /\ hook.base0 \in Nat
      /\ hook.upto \in Nat /\ Len(hook.log) \in Nat /\ token.seq \in Nat
  BY HookTypes, BoundAssumption DEF Records, Tokens
<1>t. /\ paths \in Records /\ log \in Records /\ OnDisk \in Records /\ written \in Nat /\ memBase \in Nat
      /\ base \in Nat /\ base' \in Nat /\ Pushed \in Int /\ Len(paths) \in Nat /\ Len(OnDisk) \in Nat
      /\ Offset \in Int /\ KEEP_MIN \in Nat
  BY BoundAssumption, WindowAssumption DEF TypeOK, Records, OnDisk, Pushed, Offset
<1>o. Offset >= 0 /\ base + Len(OnDisk) - written >= Offset
  BY <1>inv, <1>t, Hysteresis DEF DiskInv, Offset, DaemonInv, NewBase, DropN, InRecord
<1>1. CASE Daemon \/ Crash
  <2>1. UNCHANGED <<hook, token>> /\ base' >= base
    <3>1. base' >= base
      BY <1>1, <1>inv, DaemonStep
    <3> QED
      BY <1>1, <3>1 DEF Daemon, Open, RecordPath, AppendPath, RecordNul, RecordSync, PruneStage,
                        PruneBase, PruneSwap, Crash
  <2>2. PrunedToMin'
    <3>1. CASE Open
      BY <3>1, <1>inv DEF Open, PrunedToMin, OnDisk, diskVars
    <3>2. CASE RecordPath
      <4>1. /\ handle = "live" /\ tail = <<>> /\ tail' = <<written + 1>> /\ OnDisk = log
            /\ OnDisk' = log \o <<written + 1>> /\ up /\ UNCHANGED <<up, base, memBase, paths>>
        <5>1. handle = "live" /\ tail = <<>> /\ up
          BY <3>2, <1>g, <1>inv DEF RecordPath, AppendPath, InStep
        <5> QED
          BY <3>2, <5>1, <1>t, ConcatEmpty DEF RecordPath, AppendPath, OnDisk, Records
      <4>2. Len(OnDisk') = Len(OnDisk) + 1
        BY <4>1, <1>t DEF Records
      <4> QED
        BY <4>1, <4>2, <1>inv, <1>t DEF PrunedToMin
    <3>3. CASE RecordNul
      <4>1. handle = "live" /\ OnDisk' = OnDisk
        BY <3>3, <1>inv, <1>t, ConcatEmpty DEF RecordNul, InStep, OnDisk, Records
      <4> QED
        BY <3>3, <4>1, <1>inv DEF RecordNul, PrunedToMin
    <3>4. CASE RecordSync
      <4>1. OnDisk' = OnDisk /\ Len(paths') = Len(paths) + 1
        BY <3>4, <1>t DEF RecordSync, OnDisk, Records
      <4> QED
        BY <3>4, <4>1, <1>inv, <1>t DEF RecordSync, PrunedToMin
    <3>5. CASE PruneStage
      BY <3>5, <1>inv DEF PruneStage, PrunedToMin, OnDisk
    <3>6. CASE PruneBase
      <4>1. up /\ Len(OnDisk) = Len(paths) /\ Len(paths) > KEEP_MIN
        BY <3>6, <1>inv, <1>t DEF PruneBase, InRecord, DaemonInv, Pushed
      <4> QED
        BY <3>6, <4>1, <1>inv, <1>t DEF PruneBase, PrunedToMin, OnDisk
    <3>7. CASE PruneSwap
      <4>1. /\ DropN \in Nat /\ DropN <= Len(paths) /\ tmp = SubSeq(paths, DropN + 1, Len(paths))
            /\ Len(paths) - DropN = KEEP_MIN
        BY <3>7, <1>inv, <1>t DEF PruneSwap, InRecord, InStep, DropN
      <4>2. Len(tmp) = KEEP_MIN /\ tmp \in Records
        BY <4>1, <1>t, SuffixType DEF Records
      <4>3. OnDisk' = tmp /\ paths' = tmp
        BY <3>7, <4>1, <4>2, ConcatEmpty DEF PruneSwap, RenameLog, OnDisk, Records
      <4> QED
        BY <4>2, <4>3, <1>t DEF PrunedToMin
    <3>8. CASE Crash
      BY <3>8, <1>inv DEF Crash, Stop, PrunedToMin, OnDisk, diskVars
    <3> QED
      BY <1>1, <3>1, <3>2, <3>3, <3>4, <3>5, <3>6, <3>7, <3>8 DEF Daemon
  <2>3. Refused'
    BY <2>1, <1>inv, <1>k, <1>t DEF Refused
  <2> QED
    BY <2>1, <2>2, <2>3, <1>inv DEF RecentInv, Ahead, Candidate
<1>2. CASE Hook \/ UNCHANGED vars
  <2>1. UNCHANGED <<journalVars, diskVars, ghostVars>>
    BY <1>2 DEF Hook, HookReadLog, HookReadBase, HookFallback, GitAdopt, vars
  <2>2. PrunedToMin' /\ base' = base
    BY <2>1, <1>inv DEF PrunedToMin, OnDisk, journalVars, diskVars
  <2>3. CASE HookReadLog
    <3>1. hook'.pc = "log" /\ hook'.log = OnDisk /\ hook'.base0 = base /\ hook'.upto = written
          /\ token' = token
      BY <2>3 DEF HookReadLog, IdleHook
    <3>2. Candidate'.seq = base + Len(OnDisk) /\ Candidate'.pos = written
      BY <3>1 DEF Candidate
    <3>3. Ahead(Candidate)'
      BY <3>2, <1>o, <1>t DEF Ahead
    <3> QED
      BY <2>2, <3>1, <3>3, <1>inv DEF RecentInv, Ahead, Refused
  <2>4. CASE HookReadBase
    <3>1. /\ hook'.pc = "answered" /\ hook'.full = ~Placeable(token, hook.log, base)
          /\ hook'.next = [kind |-> "ours", seq |-> base + Len(hook.log), pos |-> hook.upto,
                           clean |-> hook.clean /\ pc # "based" /\ base = hook.base0]
      BY <2>4, AnswerGiven
    <3>2. hook.pc = "log" /\ token' = token
      BY <2>4 DEF HookReadBase
    <3>3. ReadInv /\ Ahead(Candidate)
      BY <3>2, <1>inv DEF HookInv
    <3>4. Ahead(hook.next)'
      <4>1. hook.base0 + Len(hook.log) >= hook.upto /\ hook.base0 <= base
        BY <3>3 DEF Ahead, Candidate, ReadInv
      <4>2. hook'.next.seq = base + Len(hook.log) /\ hook'.next.pos = hook.upto
        BY <3>1
      <4> QED
        BY <4>1, <4>2, <1>k, <1>t DEF Ahead
    <3>5. ASSUME token.kind = "ours", token.clean, ~Placeable(token, hook.log, base)
          PROVE  token.seq < base
      <4>1. token.seq <= hook.base0 + Len(hook.log) /\ hook.base0 <= base
        BY <3>3, <3>5 DEF ReadInv, Labelled
      <4> QED
        BY <4>1, <3>5, <1>k, <1>t DEF Placeable
    <3>6. Refused'
      BY <2>2, <3>1, <3>2, <3>5 DEF Refused
    <3> QED
      BY <2>2, <3>1, <3>2, <3>4, <3>6, <1>inv DEF RecentInv, Ahead
  <2>5. CASE HookFallback
    <3>1. /\ hook'.pc = "answered" /\ hook'.next.kind = "foreign" /\ token' = token
      BY <2>5 DEF HookFallback, IdleHook, EmptyToken
    <3> QED
      BY <2>2, <3>1, <1>inv DEF RecentInv, Ahead, Refused
  <2>6. CASE GitAdopt
    <3>1. hook'.pc = "idle" /\ token' \in {token, hook.next} /\ hook.pc = "answered"
      BY <2>6 DEF GitAdopt, IdleHook
    <3> QED
      BY <2>2, <3>1, <1>inv DEF RecentInv, Ahead, Refused
  <2>7. CASE UNCHANGED vars
    BY <2>2, <2>7, <1>inv DEF vars, RecentInv, Ahead, Refused, Candidate
  <2> QED
    BY <1>2, <2>3, <2>4, <2>5, <2>6, <2>7 DEF Hook
<1> QED
  BY <1>1, <1>2 DEF Next, Fail, OnlyCrashes, WriteFails, PruneFails, ReopenFails, PowerLoss

\* The sliding window decides which tokens are refused: until a NUL goes missing
\* or a crash moves the labels, an honest token is placed unless more than
\* KEEP_MIN records are newer than it (journal.rs prune, query).
THEOREM RecentTokensArePlaced == OnlyCrashes => (Spec => []RecentTokensPlace)
<1> SUFFICES ASSUME OnlyCrashes
             PROVE  Spec => []RecentTokensPlace
  OBVIOUS
<1> DEFINE Inv == TypeOK /\ InRecord /\ JournalInv /\ HonestInv /\ RecentInv
<1>1. Init => Inv
  BY InitType, InitInv, InitHonest, InitRecent
<1>2. Inv /\ [Next]_vars => Inv'
  <2> SUFFICES ASSUME Inv, [Next]_vars
               PROVE  Inv'
    OBVIOUS
  <2>1. TypeOK' /\ InRecord'
    BY StepType
  <2>2. JournalInv'
    BY <2>1, StepInv DEF JournalInv
  <2>3. HonestInv'
    BY <2>1, HonestStep
  <2>4. RecentInv'
    BY <2>1, RecentStep DEF RecentInv
  <2> QED
    BY <2>1, <2>2, <2>3, <2>4
<1>3. Inv => RecentTokensPlace
  <2> SUFFICES ASSUME Inv, hook.pc = "answered", hook.full, hook.next.kind = "ours",
                      token.kind = "ours", token.clean, Offset = 0, glued = {}
               PROVE  written - token.pos > KEEP_MIN
    BY DEF RecentTokensPlace
  <2>1. token.seq < base /\ token.seq >= token.pos /\ PrunedToMin
    BY DEF RecentInv, Refused, Ahead
  <2>2. (up => DaemonInv) /\ DiskInv
    BY DEF JournalInv
  <2>3. /\ token.seq \in Nat /\ token.pos \in Nat /\ base \in Nat /\ memBase \in Nat /\ written \in Nat
        /\ Len(paths) \in Nat /\ Len(OnDisk) \in Nat /\ KEEP_MIN \in Nat
        /\ Pushed \in Int /\ Pushed <= written
    BY BoundAssumption, WindowAssumption DEF TypeOK, Tokens, Records, OnDisk, Pushed
  <2>4. base <= written - KEEP_MIN
    <3>1. CASE ~up
      BY <3>1, <2>1, <2>3 DEF Offset, PrunedToMin
    <3>2. CASE up /\ pc = "based"
      BY <3>2, <2>2, <2>3 DEF Offset, DaemonInv, NewBase, DropN
    <3>3. CASE up /\ pc # "based"
      BY <3>3, <2>1, <2>2, <2>3 DEF Offset, DaemonInv, PrunedToMin
    <3> QED
      BY <3>1, <3>2, <3>3
  <2> QED
    BY <2>1, <2>3, <2>4
<1> HIDE DEF Inv
<1> QED
  BY <1>1, <1>2, <1>3, PTL DEF Spec

-----------------------------------------------------------------------------
(* An acknowledged record stays: in the window, in changes.log and in what a  *)
(* power loss leaves of it. Faults may hit every step of record() and prune() *)
(* with one exception: "reopen" is admitted only while the log is too small   *)
(* to be pruned for its bytes, for then the window is still over KEEP_MAX     *)
(* when the reopen fails, and the next record() prunes again before it is     *)
(* acknowledged.                                                              *)

ReopenAfterCountPrune == "reopen" \in Faults => LOG_BYTE_CAP >= MaxRecords

\* s, whose newest append is at most last, holds every record of done that
\* KEEP_MIN newer appends have not aged, the newer nearer to its end.
Covers(s, done, last) ==
  /\ Len(s) <= last
  /\ \A i \in 1..Len(s) : s[i] = Garbled \/ last - s[i] >= Len(s) - i
  /\ \A n \in done : (\E i \in 1..Len(s) : s[i] = n) \/ last - n >= KEEP_MIN

Settled == acked \ glued

TailInv ==
  /\ tail \in {<<>>, <<written>>, <<Garbled>>}
  /\ pc \notin {"idle", "path"} => tail = <<>>
  /\ pc \in {"path", "nul"} /\ handle = "live" =>
       written \in glued \/ \E i \in 1..Len(OnDisk) : OnDisk[i] = written

\* A handle on a replaced inode acknowledges nothing: the window is so long
\* that the next record() must prune, and prune reopens the log.
OrphanInv ==
  /\ handle = "orphan" =>
       up /\ tail = <<>> /\ Len(paths) >= KEEP_MAX /\ "reopen" \in Faults
  /\ pc \in {"prune", "staged", "based"} /\ "reopen" \in Faults => Len(paths) > KEEP_MAX

StagedInv ==
  /\ pc \in {"prune", "staged", "based"} => paths[Len(paths)] = written
  /\ pc \in {"staged", "based"} => tmp = SubSeq(paths, DropN + 1, Len(paths))

DiskCovers  == Covers(OnDisk, Settled, written)
SyncCovers  == Covers(synced, Settled, written)
PathsCovers == up => Covers(paths, Settled, Pushed)

AckedInv ==
  /\ DiskCovers
  /\ SyncCovers
  /\ PathsCovers
  /\ acked \subseteq 1..written
  /\ TailInv
  /\ OrphanInv
  /\ StagedInv

\* A window that covers records covers fewer of them, and later.
LEMMA CoversMore ==
  ASSUME NEW s \in Seq(0..MaxRecords), NEW done \in SUBSET Nat, NEW last \in Int, Covers(s, done, last),
         NEW less, less \subseteq done, NEW more \in Int, last <= more
  PROVE  Covers(s, less, more)
  BY WindowAssumption, BoundAssumption DEF Covers

\* One more record at the end, whole or torn, covers what was covered.
LEMMA CoversAppend ==
  ASSUME NEW s \in Seq(0..MaxRecords), NEW done \in SUBSET Nat, NEW last \in Int, Covers(s, done, last),
         NEW x \in {last + 1, Garbled}, x \in 0..MaxRecords,
         NEW less, less \subseteq done \union {x}
  PROVE  Covers(s \o <<x>>, less, last + 1)
<1> DEFINE t == s \o <<x>>
           more == last + 1
<1>0. <<x>> \in Seq(0..MaxRecords) /\ Len(<<x>>) = 1 /\ <<x>>[1] = x
  OBVIOUS
<1>1. /\ Len(t) = Len(s) + 1
      /\ \A i \in 1..Len(s) : t[i] = s[i]
      /\ t[Len(s) + 1] = x
  BY <1>0
<1>m. more = last + 1
  OBVIOUS
<1> HIDE DEF t, more
<1>t. more \in Int /\ more = last + 1 /\ Len(s) \in Nat /\ KEEP_MIN \in Nat
      /\ \A i \in 1..Len(s) : s[i] \in Int
  BY <1>m, WindowAssumption, BoundAssumption
<1>2. Len(t) <= more
  BY <1>1, <1>t DEF Covers
<1>3. ASSUME NEW i \in 1..Len(t)
      PROVE  t[i] = Garbled \/ more - t[i] >= Len(t) - i
  <2>1. CASE i \in 1..Len(s)
    BY <2>1, <1>1, <1>t DEF Covers
  <2>2. CASE i = Len(s) + 1
    BY <2>2, <1>1, <1>t DEF Garbled
  <2> QED
    BY <2>1, <2>2, <1>1, <1>t
<1>4. ASSUME NEW n \in less
      PROVE  (\E i \in 1..Len(t) : t[i] = n) \/ more - n >= KEEP_MIN
  <2>1. CASE n = x
    BY <2>1, <1>1, <1>t
  <2>2. CASE n \in done
    <3>1. CASE \E i \in 1..Len(s) : s[i] = n
      <4>1. PICK i \in 1..Len(s) : s[i] = n
        BY <3>1
      <4>2. i \in 1..Len(t) /\ t[i] = n
        BY <4>1, <1>1, <1>t
      <4> QED
        BY <4>2
    <3>2. CASE last - n >= KEEP_MIN
      BY <3>2, <2>2, <1>t
    <3> QED
      BY <2>2, <3>1, <3>2 DEF Covers
  <2> QED
    BY <2>1, <2>2
<1>5. Covers(t, less, more)
  BY <1>2, <1>3, <1>4 DEF Covers
<1> QED
  BY <1>5 DEF t, more

\* A record glued to the unterminated one before it costs no other record.
LEMMA CoversGlue ==
  ASSUME NEW s \in Seq(0..MaxRecords), NEW x \in 0..MaxRecords, NEW done \in SUBSET Nat, NEW last \in Int,
         Covers(s \o <<x>>, done, last),
         NEW less, less \subseteq done \ {x}
  PROVE  Covers(s \o <<Garbled>>, less, last + 1)
<1> DEFINE o == s \o <<x>>
           t == s \o <<Garbled>>
           more == last + 1
<1>0. /\ <<x>> \in Seq(0..MaxRecords) /\ Len(<<x>>) = 1 /\ <<x>>[1] = x
      /\ <<Garbled>> \in Seq(0..MaxRecords) /\ Len(<<Garbled>>) = 1 /\ <<Garbled>>[1] = Garbled
  BY BoundAssumption DEF Garbled
<1>1. /\ Len(o) = Len(s) + 1 /\ Len(t) = Len(s) + 1
      /\ \A i \in 1..Len(s) : o[i] = s[i] /\ t[i] = s[i]
      /\ o[Len(s) + 1] = x /\ t[Len(s) + 1] = Garbled
  BY <1>0
<1>c. Covers(o, done, last)
  OBVIOUS
<1>m. more = last + 1
  OBVIOUS
<1> HIDE DEF t, o, more
<1>t. more \in Int /\ more = last + 1 /\ Len(s) \in Nat /\ KEEP_MIN \in Nat
      /\ \A i \in 1..Len(s) : s[i] \in Int
  BY <1>m, WindowAssumption, BoundAssumption
<1>2. Len(t) <= more
  BY <1>1, <1>t, <1>c DEF Covers
<1>3. ASSUME NEW i \in 1..Len(t)
      PROVE  t[i] = Garbled \/ more - t[i] >= Len(t) - i
  <2>1. CASE i \in 1..Len(s)
    BY <2>1, <1>1, <1>t, <1>c DEF Covers
  <2>2. CASE i = Len(s) + 1
    BY <2>2, <1>1
  <2> QED
    BY <2>1, <2>2, <1>1, <1>t
<1>4. ASSUME NEW n \in less
      PROVE  (\E i \in 1..Len(t) : t[i] = n) \/ more - n >= KEEP_MIN
  <2>0. n \in done /\ n # x /\ n \in Nat
    OBVIOUS
  <2>1. CASE \E i \in 1..Len(o) : o[i] = n
    <3>1. PICK i \in 1..Len(o) : o[i] = n
      BY <2>1
    <3>2. i \in 1..Len(s)
      BY <3>1, <2>0, <1>1, <1>t
    <3>3. i \in 1..Len(t) /\ t[i] = n
      BY <3>1, <3>2, <1>1, <1>t
    <3> QED
      BY <3>3
  <2>2. CASE last - n >= KEEP_MIN
    BY <2>2, <2>0, <1>t
  <2> QED
    BY <2>0, <2>1, <2>2, <1>c DEF Covers
<1>5. Covers(t, less, more)
  BY <1>2, <1>3, <1>4 DEF Covers
<1> QED
  BY <1>5 DEF t, more

\* prune drops only records that KEEP_MIN newer ones have aged.
LEMMA CoversSuffix ==
  ASSUME NEW s \in Seq(0..MaxRecords), NEW last \in Int, NEW done \in SUBSET (1..last), Covers(s, done, last),
         NEW k \in Nat, k = Len(s) - KEEP_MIN
  PROVE  Covers(SubSeq(s, k + 1, Len(s)), done, last)
<1> DEFINE t == SubSeq(s, k + 1, Len(s))
<1>t. Len(s) \in Nat /\ KEEP_MIN \in Nat /\ \A i \in 1..Len(s) : s[i] \in Int
  BY WindowAssumption, BoundAssumption
<1>1. /\ Len(t) = Len(s) - k
      /\ \A i \in 1..(Len(s) - k) : t[i] = s[k + i]
  BY <1>t, SuffixType
<1> HIDE DEF t
<1>2. Len(t) <= last
  BY <1>1, <1>t DEF Covers
<1>3. ASSUME NEW i \in 1..Len(t)
      PROVE  t[i] = Garbled \/ last - t[i] >= Len(t) - i
  <2>1. k + i \in 1..Len(s) /\ t[i] = s[k + i]
    BY <1>1, <1>t
  <2>2. s[k + i] = Garbled \/ last - s[k + i] >= Len(s) - (k + i)
    BY <2>1 DEF Covers
  <2> QED
    BY <2>1, <2>2, <1>1, <1>t
<1>4. ASSUME NEW n \in done
      PROVE  (\E i \in 1..Len(t) : t[i] = n) \/ last - n >= KEEP_MIN
  <2>1. CASE \E i \in 1..Len(s) : s[i] = n
    <3>1. PICK i \in 1..Len(s) : s[i] = n
      BY <2>1
    <3>2. CASE i > k
      <4>1. i - k \in 1..Len(t) /\ t[i - k] = s[k + (i - k)] /\ k + (i - k) = i
        BY <3>1, <3>2, <1>1, <1>t
      <4> QED
        BY <3>1, <4>1
    <3>3. CASE i <= k
      <4>1. last - n >= Len(s) - i
        BY <3>1 DEF Covers, Garbled
      <4> QED
        BY <4>1, <3>3, <3>1, <1>t
    <3> QED
      BY <3>2, <3>3, <3>1
  <2> QED
    BY <2>1 DEF Covers
<1>5. Covers(t, done, last)
  BY ONLY <1>2, <1>3, <1>4 DEF Covers
<1> QED
  BY <1>5 DEF t

\* The record at the end of a window is covered.
LEMMA CoversLast ==
  ASSUME NEW s \in Seq(0..MaxRecords), NEW done, NEW last, Covers(s, done, last), Len(s) >= 1,
         NEW less, less \subseteq done \union {s[Len(s)]}
  PROVE  Covers(s, less, last)
<1>1. Len(s) \in 1..Len(s)
  OBVIOUS
<1>2. ASSUME NEW n \in less
      PROVE  (\E i \in 1..Len(s) : s[i] = n) \/ last - n >= KEEP_MIN
  <2>1. CASE n \in done
    BY <2>1 DEF Covers
  <2>2. CASE n = s[Len(s)]
    BY <2>2, <1>1
  <2> QED
    BY <2>1, <2>2
<1> QED
  BY <1>2 DEF Covers

\* A fresh journal has acknowledged nothing.
LEMMA InitAcked == Init => AckedInv
<1> SUFFICES ASSUME Init
             PROVE  AckedInv
  OBVIOUS
<1>1. OnDisk = <<>> /\ synced = <<>> /\ paths = <<>> /\ Settled = {} /\ Pushed = 0 /\ written = 0
  BY DEF Init, OnDisk, Settled, Pushed
<1>2. Covers(<<>>, {}, 0)
  BY DEF Covers
<1> QED
  BY <1>1, <1>2 DEF Init, AckedInv, DiskCovers, SyncCovers, PathsCovers, TailInv, OrphanInv, StagedInv

\* write_all(path), whole or cut short: at most the record before it is lost,
\* and that one is glued.
LEMMA AppendAcked ==
  ASSUME TypeOK, TypeOK', InRecord, AckedInv, NEW whole \in BOOLEAN, AppendPath(whole),
         (whole /\ pc' = "path") \/ pc' = "idle"
  PROVE  AckedInv'
<1> USE WindowAssumption, BoundAssumption
<1>a. /\ up /\ up' /\ pc = "idle" /\ written' = written + 1 /\ UNCHANGED <<paths, handle, log, synced, acked>>
      /\ glued \subseteq glued' /\ Pushed = written /\ Pushed' \in {written, written + 1}
  BY DEF AppendPath, Pushed, TypeOK
<1>t. /\ paths \in Seq(0..MaxRecords) /\ log \in Seq(0..MaxRecords) /\ synced \in Seq(0..MaxRecords)
      /\ OnDisk \in Seq(0..MaxRecords) /\ written \in 0..MaxRecords /\ written + 1 \in 0..MaxRecords
      /\ Settled \in SUBSET Nat /\ Settled' \subseteq Settled /\ Garbled \in 0..MaxRecords
      /\ written \in Int /\ written + 1 \in Int /\ written <= written + 1
  BY <1>a DEF TypeOK, Records, OnDisk, Settled, Garbled
<1>c. DiskCovers /\ SyncCovers /\ PathsCovers /\ TailInv /\ OrphanInv /\ StagedInv /\ acked \subseteq 1..written
  BY DEF AckedInv
<1>1. DiskCovers'
  <2>1. CASE handle = "orphan"
    <3>1. OnDisk' = OnDisk
      BY <2>1, <1>a DEF AppendPath, OnDisk
    <3>2. Covers(OnDisk, Settled, written)
      BY <1>c DEF DiskCovers
    <3>4. Covers(OnDisk, Settled', written + 1)
      BY ONLY <3>2, <1>t, CoversMore
    <3> QED
      BY <3>1, <3>4, <1>a DEF DiskCovers
  <2>2. CASE handle = "live" /\ tail = <<>>
    <3>1. PICK x \in {written + 1, Garbled} : tail' = <<x>>
      BY <2>2 DEF AppendPath
    <3>2. OnDisk = log /\ OnDisk' = log \o <<x>>
      BY <2>2, <3>1, <1>a, <1>t, ConcatEmpty DEF OnDisk
    <3>3. x \in 0..MaxRecords /\ Settled' \subseteq Settled \union {x} /\ written \in Int
      BY <3>1, <1>t
    <3>4. Covers(log \o <<x>>, Settled', written + 1)
      BY <3>2, <3>3, <1>c, <1>t, CoversAppend DEF DiskCovers
    <3> QED
      BY <3>2, <3>4, <1>a DEF DiskCovers
  <2>3. CASE handle = "live" /\ tail # <<>>
    <3>1. PICK x \in {written, Garbled} : tail = <<x>>
      BY <2>3, <1>c DEF TailInv
    <3>2. OnDisk = log \o <<x>> /\ OnDisk' = log \o <<Garbled>>
      BY <2>3, <3>1, <1>a DEF OnDisk, AppendPath
    <3>3. Settled' \subseteq Settled \ {x} /\ x \in 0..MaxRecords /\ written \in Int
      <4>1. glued' = glued \union {written, written + 1}
        BY <2>3 DEF AppendPath
      <4>2. Garbled \notin acked
        BY <1>c DEF Garbled
      <4> QED
        BY <4>1, <4>2, <3>1, <1>a, <1>t DEF Settled
    <3>4. Covers(log \o <<Garbled>>, Settled', written + 1)
      BY <3>2, <3>3, <1>c, <1>t, CoversGlue DEF DiskCovers
    <3> QED
      BY <3>2, <3>4, <1>a DEF DiskCovers
  <2> QED
    BY <2>1, <2>2, <2>3 DEF TypeOK
<1>2. SyncCovers'
  <2>2. Covers(synced, Settled, written)
    BY <1>c DEF SyncCovers
  <2>1. Covers(synced, Settled', written + 1)
    BY ONLY <2>2, <1>t, CoversMore
  <2> QED
    BY <2>1, <1>a DEF SyncCovers
<1>3. PathsCovers'
  <2>1. Covers(paths, Settled', Pushed')
    <3>1. Covers(paths, Settled, written) /\ Pushed' \in Int /\ written \in Int /\ written <= Pushed'
      BY <1>c, <1>a, <1>t DEF PathsCovers
    <3> QED
      BY <3>1, <1>t, CoversMore
  <2> QED
    BY <2>1, <1>a DEF PathsCovers
<1>4. acked' \subseteq 1..written'
  BY <1>a, <1>c, <1>t
<1>5. TailInv'
  <2>1. tail' \in {<<>>, <<written'>>, <<Garbled>>}
    BY <1>a, <1>c DEF AppendPath, OrphanInv
  <2>2. pc' \in {"path", "nul"} /\ handle' = "live" =>
          written' \in glued' \/ \E i \in 1..Len(OnDisk') : OnDisk'[i] = written'
    <3> SUFFICES ASSUME pc' = "path", handle = "live"
                 PROVE  written' \in glued' \/ \E i \in 1..Len(OnDisk') : OnDisk'[i] = written'
      BY <1>a
    <3>1. CASE tail # <<>>
      BY <3>1, <1>a DEF AppendPath
    <3>2. CASE tail = <<>>
      <4>1. OnDisk' = log \o <<written + 1>>
        BY <3>2, <1>a DEF AppendPath, OnDisk
      <4>2. /\ Len(log \o <<written + 1>>) = Len(log) + 1
            /\ (log \o <<written + 1>>)[Len(log) + 1] = written + 1
        BY <1>t
      <4>3. Len(log) + 1 \in 1..(Len(log) + 1)
        BY <1>t
      <4> QED
        BY <4>1, <4>2, <4>3, <1>a
    <3> QED
      BY <3>1, <3>2
  <2> QED
    BY <2>1, <2>2 DEF TailInv
<1>6. OrphanInv' /\ StagedInv'
  BY <1>a, <1>c DEF AppendPath, OrphanInv, StagedInv
<1> QED
  BY <1>1, <1>2, <1>3, <1>4, <1>5, <1>6 DEF AckedInv

\* What prune keeps of the window holds the record it was called for.
LEMMA PrunedCovers ==
  ASSUME TypeOK, InRecord, AckedInv, pc \in {"staged", "based"},
         NEW done, done \subseteq Settled \union {written}
  PROVE  Covers(tmp, done, written)
<1> USE WindowAssumption, BoundAssumption
<1>1. /\ up /\ Pushed = written /\ paths \in Seq(0..MaxRecords) /\ written \in Int /\ written >= 1
      /\ Len(paths) \in Nat /\ Len(paths) >= 1 /\ DropN \in Nat /\ DropN = Len(paths) - KEEP_MIN
  BY DEF InRecord, Pushed, TypeOK, Records, DropN
<1>2. Covers(paths, Settled, written) /\ paths[Len(paths)] = written
  BY <1>1 DEF AckedInv, PathsCovers, StagedInv
<1>3. Covers(paths, done, written)
  BY <1>1, <1>2, CoversLast
<1>4. done \in SUBSET (1..written)
  BY <1>1 DEF AckedInv, Settled
<1>5. Covers(SubSeq(paths, DropN + 1, Len(paths)), done, written)
  BY <1>1, <1>3, <1>4, CoversSuffix
<1> QED
  BY <1>5 DEF AckedInv, StagedInv

\* Every step of daemon, hook and git, and every fault, keeps what was
\* acknowledged in the window, on disk and in what a power loss leaves.
LEMMA AckedStep ==
  ASSUME ReopenAfterCountPrune, TypeOK, TypeOK', InRecord, InRecord', AckedInv, [Next]_vars
  PROVE  AckedInv'
<1> USE WindowAssumption, Hysteresis, BoundAssumption
<1>t. /\ paths \in Seq(0..MaxRecords) /\ log \in Seq(0..MaxRecords) /\ synced \in Seq(0..MaxRecords)
      /\ OnDisk \in Seq(0..MaxRecords) /\ tmp \in Seq(0..MaxRecords)
      /\ written \in 0..MaxRecords /\ written \in Int /\ Pushed \in Int
      /\ Len(paths) \in Nat /\ Len(OnDisk) \in Nat /\ Settled \in SUBSET Nat
  <2>1. /\ paths \in Seq(0..MaxRecords) /\ log \in Seq(0..MaxRecords) /\ tail \in Seq(0..MaxRecords)
        /\ synced \in Seq(0..MaxRecords) /\ tmp \in Seq(0..MaxRecords)
    BY DEF TypeOK, Records
  <2>2. OnDisk \in Seq(0..MaxRecords)
    BY <2>1 DEF OnDisk
  <2>3. written \in 0..MaxRecords /\ written \in Int /\ Pushed \in Int
    BY DEF TypeOK, Pushed
  <2>4. Settled \in SUBSET Nat
    BY DEF TypeOK, Settled
  <2>5. Len(paths) \in Nat /\ Len(OnDisk) \in Nat
    BY <2>1, <2>2
  <2> QED  BY <2>1, <2>2, <2>3, <2>4, <2>5
<1>c. DiskCovers /\ SyncCovers /\ PathsCovers /\ TailInv /\ OrphanInv /\ StagedInv /\ acked \subseteq 1..written
  BY DEF AckedInv
<1>q. ASSUME DiskCovers', SyncCovers', PathsCovers', acked' \subseteq 1..written', TailInv',
             OrphanInv', StagedInv'
      PROVE  AckedInv'
  BY <1>q DEF AckedInv
<1>1. CASE Open
  <2>1. /\ UNCHANGED <<OnDisk, synced, written, acked, glued, tail, pc>> /\ pc = "idle"
        /\ paths' = OnDisk /\ handle' = "live" /\ handle = "live"
    BY <1>1, <1>c DEF Open, OnDisk, diskVars, ghostVars, InRecord, OrphanInv, TypeOK
  <2>2. Settled' = Settled /\ Pushed' = written
    BY <2>1 DEF Settled, Pushed
  <2>3. DiskCovers' /\ SyncCovers' /\ PathsCovers'
    BY <2>1, <2>2, <1>c DEF DiskCovers, SyncCovers, PathsCovers
  <2>4. TailInv' /\ OrphanInv' /\ StagedInv'
    BY <2>1, <1>c DEF TailInv, OrphanInv, StagedInv
  <2> QED
    BY <2>1, <2>3, <2>4, <1>c, <1>q
<1>2. CASE RecordPath
  BY <1>2, AppendAcked DEF RecordPath
<1>3. CASE RecordNul
  <2>1. /\ UNCHANGED <<up, paths, handle, synced, hook, written, acked, glued>> /\ pc = "path" /\ pc' = "nul"
    BY <1>3 DEF RecordNul, ghostVars
  <2>2. OnDisk' = OnDisk /\ tail' = <<>>
    <3>1. CASE handle = "live"
      BY <3>1, <1>3, <1>t, ConcatEmpty DEF RecordNul, OnDisk
    <3>2. CASE handle = "orphan"
      BY <3>2, <1>3, <1>c DEF RecordNul, OnDisk, OrphanInv
    <3> QED
      BY <3>1, <3>2 DEF TypeOK
  <2>3. Settled' = Settled /\ Pushed' = Pushed
    BY <2>1 DEF Settled, Pushed
  <2>4. DiskCovers' /\ SyncCovers' /\ PathsCovers'
    BY <2>1, <2>2, <2>3, <1>c DEF DiskCovers, SyncCovers, PathsCovers
  <2>5. TailInv' /\ OrphanInv' /\ StagedInv'
    BY <2>1, <2>2, <1>c DEF TailInv, OrphanInv, StagedInv
  <2> QED
    BY <2>1, <2>4, <2>5, <1>c, <1>q
<1>4. CASE RecordSync
  <2>1. /\ UNCHANGED <<up, handle, log, tail, written, glued>> /\ up /\ pc = "nul" /\ pc' \in {"prune", "idle"}
        /\ paths' = Append(paths, written) /\ synced' = Synced /\ written >= 1 /\ tail = <<>>
        /\ Pushed = written - 1 /\ Pushed' = written /\ OnDisk' = OnDisk /\ OnDisk = log
    BY <1>4, <1>c, <1>t, ConcatEmpty DEF RecordSync, InRecord, TailInv, Pushed, OnDisk
  <2>2. paths' = paths \o <<written>> /\ Len(paths') = Len(paths) + 1 /\ paths'[Len(paths')] = written
    <3>1. /\ Append(paths, written) = paths \o <<written>>
          /\ Len(Append(paths, written)) = Len(paths) + 1
          /\ Append(paths, written)[Len(paths) + 1] = written
      <4>1. paths \in Seq(0..MaxRecords) /\ written \in 0..MaxRecords
        BY <1>t
      <4> QED
        BY ONLY <4>1
    <3> QED
      BY <3>1, <2>1
  <2>3. \/ pc' = "prune" /\ acked' = acked /\ OverCap
        \/ pc' = "idle" /\ acked' = acked \union {written} /\ ~(OverCap /\ Len(paths) + 1 > KEEP_MIN)
    BY <1>4 DEF RecordSync
  <2>4. handle = "orphan" => pc' = "prune"
    <3> SUFFICES ASSUME handle = "orphan"
                 PROVE  OverCap /\ Len(paths) + 1 > KEEP_MIN
      BY <2>3
    <3>1. Len(paths) >= KEEP_MAX
      BY <1>c DEF OrphanInv
    <3> QED
      BY <3>1, <1>t DEF OverCap
  <2>5. Settled' \subseteq Settled \union {written} /\ (handle = "orphan" => Settled' = Settled)
    BY <2>1, <2>3, <2>4 DEF Settled
  <2>6. ASSUME handle = "live"
        PROVE  Covers(OnDisk, Settled', written)
    <3>1. Covers(OnDisk, Settled, written)
      BY <1>c DEF DiskCovers
    <3>2. written \in Settled' => \E i \in 1..Len(OnDisk) : OnDisk[i] = written
      BY <2>1, <2>6, <1>c DEF TailInv, Settled
    <3>3. \A n \in Settled' : (\E i \in 1..Len(OnDisk) : OnDisk[i] = n) \/ written - n >= KEEP_MIN
      <4> SUFFICES ASSUME NEW n \in Settled'
                   PROVE  (\E i \in 1..Len(OnDisk) : OnDisk[i] = n) \/ written - n >= KEEP_MIN
        OBVIOUS
      <4>1. CASE n = written
        BY <4>1, <3>2
      <4>2. CASE n \in Settled
        BY <4>2, <3>1 DEF Covers
      <4> QED
        BY <4>1, <4>2, <2>5
    <3> QED
      BY <3>1, <3>3 DEF Covers
  <2>7. DiskCovers'
    <3>1. CASE handle = "live"
      BY <3>1, <2>1, <2>6 DEF DiskCovers
    <3>2. CASE handle = "orphan"
      BY <3>2, <2>1, <2>5, <1>c DEF DiskCovers
    <3> QED
      BY <3>1, <3>2 DEF TypeOK
  <2>8. SyncCovers'
    <3>1. CASE handle = "live"
      BY <3>1, <2>1, <2>6 DEF SyncCovers, Synced
    <3>2. CASE handle = "orphan"
      BY <3>2, <2>1, <2>5, <1>c DEF SyncCovers, Synced
    <3> QED
      BY <3>1, <3>2 DEF TypeOK
  <2>9. PathsCovers'
    <3>1. Covers(paths, Settled, written - 1)
      BY <2>1, <1>c DEF PathsCovers
    <3>2. written - 1 \in Int /\ written = (written - 1) + 1
      BY <1>t
    <3>3. Covers(paths \o <<written>>, Settled', (written - 1) + 1)
      BY <3>1, <3>2, <2>5, <1>t, CoversAppend
    <3>4. Covers(paths \o <<written>>, Settled', written)
      BY <3>2, <3>3
    <3> QED
      BY <3>4, <2>1, <2>2 DEF PathsCovers
  <2>10. acked' \subseteq 1..written'
    <3>1. acked' \subseteq acked \union {written} /\ written \in 1..written
      BY <2>1, <2>3, <1>t
    <3> QED
      BY <3>1, <2>1, <1>c
  <2>11. TailInv' /\ StagedInv'
    BY <2>1, <2>2, <1>c DEF TailInv, StagedInv
  <2>12. OrphanInv'
    <3>1. ASSUME pc' = "prune", "reopen" \in Faults
          PROVE  Len(paths') > KEEP_MAX
      <4>1. Len(OnDisk) <= written
        BY <1>c DEF DiskCovers, Covers
      <4>2. ~(Len(OnDisk) > LOG_BYTE_CAP)
        BY <4>1, <3>1, <1>t DEF ReopenAfterCountPrune
      <4> QED
        BY <4>2, <3>1, <2>2, <2>3 DEF OverCap
    <3>2. handle' = "orphan" => up' /\ tail' = <<>> /\ Len(paths') >= KEEP_MAX /\ "reopen" \in Faults
      BY <2>1, <2>2, <1>c, <1>t DEF OrphanInv
    <3> QED
      BY <2>1, <3>1, <3>2 DEF OrphanInv
  <2> QED
    BY <2>7, <2>8, <2>9, <2>10, <2>11, <2>12, <1>q
<1>5. CASE PruneStage \/ PruneBase \/ PruneFails
  <2>1. /\ UNCHANGED <<up, paths, handle, log, tail, synced, written, acked, glued>>
        /\ pc \in {"prune", "staged", "based"} /\ pc' \in {"idle", "staged", "based"}
    BY <1>5 DEF PruneStage, PruneBase, PruneFails, diskVars, ghostVars
  <2>2. OnDisk' = OnDisk /\ Settled' = Settled /\ Pushed' = Pushed /\ DropN' = DropN
    BY <2>1 DEF OnDisk, Settled, Pushed, DropN
  <2>3. DiskCovers' /\ SyncCovers' /\ PathsCovers'
    BY <2>1, <2>2, <1>c DEF DiskCovers, SyncCovers, PathsCovers
  <2>4. TailInv' /\ OrphanInv'
    BY <2>1, <2>2, <1>c DEF TailInv, OrphanInv
  <2>5. StagedInv'
    BY <1>5, <2>1, <2>2, <1>c DEF PruneStage, PruneBase, PruneFails, diskVars, StagedInv
  <2> QED
    BY <2>1, <2>3, <2>4, <2>5, <1>c, <1>q
<1>6. CASE PruneSwap
  <2>1. /\ up /\ up' /\ pc = "based" /\ pc' = "idle" /\ handle' = "live" /\ tail' = <<>> /\ written' = written
        /\ log' = tmp /\ synced' = tmp /\ acked' = acked \union {written} /\ glued' = glued /\ written >= 1
    BY <1>6 DEF PruneSwap, RenameLog, InRecord
  <2>2. paths' = tmp /\ OnDisk' = tmp /\ Pushed' = written /\ Settled' \subseteq Settled \union {written}
    <3>1. paths' = tmp
      BY <1>6, <2>1, <1>c DEF PruneSwap, StagedInv
    <3>2. OnDisk' = tmp
      BY <2>1, <1>t, ConcatEmpty DEF OnDisk
    <3> QED
      BY <3>1, <3>2, <2>1 DEF Pushed, Settled
  <2>3. Covers(tmp, Settled', written)
    BY <2>1, <2>2, PrunedCovers
  <2>4. DiskCovers' /\ SyncCovers' /\ PathsCovers'
    BY <2>1, <2>2, <2>3 DEF DiskCovers, SyncCovers, PathsCovers
  <2>5. TailInv' /\ OrphanInv' /\ StagedInv' /\ acked' \subseteq 1..written'
    BY <2>1, <1>c, <1>t DEF TailInv, OrphanInv, StagedInv
  <2> QED
    BY <2>4, <2>5, <1>q
<1>7. CASE ReopenFails
  <2>1. /\ up /\ up' /\ pc = "based" /\ pc' = "idle" /\ handle' = "orphan" /\ tail' = <<>>
        /\ log' = tmp /\ synced' = tmp /\ UNCHANGED <<paths, written, acked, glued>> /\ "reopen" \in Faults
    BY <1>7 DEF ReopenFails, RenameLog, InRecord, ghostVars
  <2>2. OnDisk' = tmp /\ Pushed' = Pushed /\ Settled' = Settled
    BY <2>1, <1>t, ConcatEmpty DEF OnDisk, Pushed, Settled
  <2>3. Covers(tmp, Settled', written)
    BY <2>1, <2>2, PrunedCovers
  <2>4. DiskCovers' /\ SyncCovers' /\ PathsCovers'
    BY <2>1, <2>2, <2>3, <1>c DEF DiskCovers, SyncCovers, PathsCovers
  <2>5. TailInv' /\ OrphanInv' /\ StagedInv' /\ acked' \subseteq 1..written'
    BY <2>1, <1>c, <1>t DEF TailInv, OrphanInv, StagedInv
  <2> QED
    BY <2>4, <2>5, <1>q
<1>8. CASE WriteFails
  <2>1. CASE AppendPath(FALSE) /\ pc' = "idle"
    BY <2>1, AppendAcked
  <2>2. CASE pc \in {"path", "nul"} /\ pc' = "idle" /\ UNCHANGED <<up, paths, memBase, handle, diskVars, hook, token, ghostVars>>
    <3>1. /\ UNCHANGED <<up, paths, handle, OnDisk, tail, synced, written, acked, glued>>
          /\ Settled' = Settled /\ Pushed = written - 1 /\ Pushed' = written
      BY <2>2 DEF OnDisk, diskVars, ghostVars, Settled, Pushed
    <3>2. PathsCovers'
      <4>1. ASSUME up
            PROVE  Covers(paths, Settled, written)
        <5>1. Covers(paths, Settled, Pushed) /\ Pushed <= written
          BY <4>1, <3>1, <1>c, <1>t DEF PathsCovers
        <5> QED
          BY <5>1, <1>t, CoversMore
      <4> QED
        BY <4>1, <3>1 DEF PathsCovers
    <3>3. DiskCovers' /\ SyncCovers'
      BY <3>1, <1>c DEF DiskCovers, SyncCovers
    <3>4. TailInv' /\ OrphanInv' /\ StagedInv'
      BY <2>2, <3>1, <1>c DEF TailInv, OrphanInv, StagedInv
    <3> QED
      BY <3>1, <3>2, <3>3, <3>4, <1>c, <1>q
  <2> QED
    BY <1>8, <2>1, <2>2 DEF WriteFails
<1>9. CASE Crash \/ PowerLoss
  <2>1. ~up' /\ pc' = "idle" /\ handle' = "live" /\ UNCHANGED <<synced, written, acked, glued>>
    BY <1>9 DEF Crash, PowerLoss, Stop, diskVars, ghostVars
  <2>2. Settled' = Settled
    BY <2>1 DEF Settled
  <2>3. \/ UNCHANGED <<OnDisk, tail>>
        \/ OnDisk' = synced /\ tail' = <<>>
    <3>1. UNCHANGED <<log, tail>> \/ (log' = synced /\ tail' = <<>>)
      BY <1>9 DEF Crash, PowerLoss, diskVars
    <3> QED
      BY <3>1, <1>t, ConcatEmpty DEF OnDisk
  <2>4. DiskCovers' /\ SyncCovers' /\ PathsCovers'
    BY <2>1, <2>2, <2>3, <1>c DEF DiskCovers, SyncCovers, PathsCovers
  <2>5. TailInv' /\ OrphanInv' /\ StagedInv'
    BY <2>1, <2>3, <1>c DEF TailInv, OrphanInv, StagedInv
  <2> QED
    BY <2>1, <2>4, <2>5, <1>c, <1>q
<1>10. CASE Hook \/ UNCHANGED vars
  <2>1. UNCHANGED <<journalVars, diskVars, ghostVars>>
    BY <1>10 DEF Hook, HookReadLog, HookReadBase, HookFallback, GitAdopt, vars
  <2>2. /\ UNCHANGED <<up, paths, handle, pc, tail, tmp, synced, written, acked, glued>>
        /\ OnDisk' = OnDisk /\ Settled' = Settled /\ Pushed' = Pushed /\ DropN' = DropN
    BY <2>1 DEF journalVars, diskVars, ghostVars, OnDisk, Settled, Pushed, DropN
  <2>3. DiskCovers' /\ SyncCovers' /\ PathsCovers'
    BY <2>2, <1>c DEF DiskCovers, SyncCovers, PathsCovers
  <2>4. TailInv' /\ OrphanInv' /\ StagedInv'
    BY <2>2, <1>c DEF TailInv, OrphanInv, StagedInv
  <2> QED
    BY <2>2, <2>3, <2>4, <1>c, <1>q
<1> QED
  BY <1>1, <1>2, <1>3, <1>4, <1>5, <1>6, <1>7, <1>8, <1>9, <1>10 DEF Next, Daemon, Fail

\* A record whose mutation was acknowledged leaves the window only by ageing
\* behind KEEP_MIN newer appends, whatever fails in record() and prune() and
\* wherever the daemon or the machine stops, a failed reopen after a prune for
\* bytes excepted (journal.rs record, prune).
THEOREM AckedStay == ReopenAfterCountPrune => (Spec => []AckedStayInWindow)
<1> SUFFICES ASSUME ReopenAfterCountPrune
             PROVE  Spec => []AckedStayInWindow
  OBVIOUS
<1> DEFINE Inv == TypeOK /\ InRecord /\ AckedInv
<1>1. Init => Inv
  BY InitType, InitAcked
<1>2. Inv /\ [Next]_vars => Inv'
  <2> SUFFICES ASSUME Inv, [Next]_vars
               PROVE  Inv'
    OBVIOUS
  <2>1. TypeOK' /\ InRecord'
    BY StepType
  <2> QED
    BY <2>1, AckedStep
<1>3. Inv => AckedStayInWindow
  <2> SUFFICES ASSUME Inv, up, NEW n \in acked \ glued
               PROVE  (\E i \in 1..Len(paths) : paths[i] = n) \/ written - n >= KEEP_MIN
    BY DEF AckedStayInWindow
  <2>1. (\E i \in 1..Len(paths) : paths[i] = n) \/ Pushed - n >= KEEP_MIN
    BY DEF AckedInv, PathsCovers, Covers, Settled
  <2>2. Pushed \in Int /\ written \in Int /\ Pushed <= written /\ n \in Int /\ KEEP_MIN \in Int
    BY WindowAssumption, BoundAssumption DEF TypeOK, Pushed
  <2> QED
    BY <2>1, <2>2
<1> HIDE DEF Inv
<1> QED
  BY <1>1, <1>2, <1>3, PTL DEF Spec
=============================================================================

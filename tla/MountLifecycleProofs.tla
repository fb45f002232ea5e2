-------------------------- MODULE MountLifecycleProofs --------------------------
(* Invariance proofs for MountLifecycle: its types, that one serve process works *)
(* on a workspace at a time, that a restart shows the same tree, and that the    *)
(* seed leaves out every file with a checkout conversion.                        *)
EXTENDS MountLifecycle, FiniteSetTheorems, TLAPS

\* The steps of a command that has claimed the workspace and not yet spawned.
Claimed == {"cloning", "index", "configure", "journal", "prefetch", "declares", "rest",
            "check-attr", "seed", "hooks", "spawn"}
Indexed == Claimed \ {"cloning", "index"}

\* One command at a time holds the claim, and nothing has been served while one does.
Claims ==
  /\ \A m, n \in Mounts : cmd[m].pc \in Claimed /\ cmd[n].pc \in Claimed => m = n
  /\ \A m \in Mounts : cmd[m].pc \in Claimed => gitdir # "none" /\ serves = <<>>
  /\ gitdir = "none" => serves = <<>>

\* The mount point belongs to the serve process that serves.
Points ==
  /\ OneServer
  /\ serves = <<>> => point = "empty"
  /\ point = "mounted" => \E i \in DOMAIN serves : serves[i] = "serving"

\* Where the overlay says nothing, no deletion went without a tombstone and no git
\* command moved HEAD or index away, both have what the baseline has.
Untouched(p) == p \notin exposed /\ overlay[p] = Clear
Pinned == \E i \in DOMAIN serves : serves[i] \in {"opened", "serving"}

Baselines ==
  /\ \A m \in Mounts : cmd[m].pc \in Indexed => git.index = git.head
  /\ serves # <<>> => \A p \in Paths : Untouched(p) => git.index[p] = git.head[p]
  /\ Pinned => \A p \in Paths : Untouched(p) => base[p] = git.head[p]

MountInv == TypeOK /\ Claims /\ Points /\ Baselines

-----------------------------------------------------------------------------
LEMMA LifecycleInit == Init => MountInv
BY LifecycleAssumption
   DEF Init, MountInv, TypeOK, Claims, Points, Baselines, OneServer, Serving, Pinned, Claimed,
       Indexed, Absent, Steps, Ended, Contents, Clear, None

\* A step of a command that only moves on, before the claim or past the spawn.
Quietly(m) ==
  /\ cmd' \in [Mounts -> [pc : {"idle"} \cup Steps \cup Ended, read : 0 .. Len(Attrs)]]
  /\ \A n \in Mounts \ {m} : cmd'[n] = cmd[n]
  /\ cmd'[m].pc \in Claimed => cmd[m].pc \in Claimed
  /\ cmd'[m].pc \in Indexed => cmd[m].pc \in Indexed
  /\ local' \subseteq AttrFiles /\ valid' \subseteq Tracked
  /\ spent' \in [timeouts : 0 .. MaxTimeouts, edits : 0 .. MaxEdits]
  /\ UNCHANGED <<gitdir, serves, point, tree>>

LEMMA QuietStep ==
  ASSUME MountInv, NEW m \in Mounts, Quietly(m)
  PROVE  MountInv'
<1> USE DEF MountInv, Quietly, tree
<1>1. TypeOK'
  BY DEF TypeOK
<1>2. Claims'
  BY DEF Claims, TypeOK
<1>3. Points'
  BY DEF Points, OneServer, Serving
<1>4. Baselines'
  BY DEF Baselines, Untouched, Pinned, TypeOK
<1> QED  BY <1>1, <1>2, <1>3, <1>4

Quiet(m) ==
  \/ Invoke(m) \/ Preflight(m) \/ ConfigureFsmonitor(m) \/ OpenJournal(m)
  \/ PrefetchAttrBlobs(m) \/ DeclaresConversion(m) \/ ReadRest(m) \/ CheckAttr(m)
  \/ SeedFsmonitorValid(m) \/ InstallHooks(m) \/ WaitReady(m) \/ HealthCheck(m)
  \/ EstablishUntrackedCache(m)

\* Moving on to another place, and what a read of attribute files leaves.
LEMMA Moved ==
  ASSUME TypeOK, NEW m \in Mounts, NEW pc \in Steps \cup Ended,
         cmd' = [cmd EXCEPT ![m].pc = pc]
  PROVE  /\ cmd' \in [Mounts -> [pc : {"idle"} \cup Steps \cup Ended, read : 0 .. Len(Attrs)]]
         /\ \A n \in Mounts \ {m} : cmd'[n] = cmd[n]
         /\ cmd'[m].pc = pc
BY DEF TypeOK

LEMMA AttrFilesFinite == IsFiniteSet(AttrFiles)
<1>1. Attrs \in Seq(AttrFiles)
  BY LifecycleAssumption
<1>2. IsFiniteSet(1 .. Len(Attrs))
  BY <1>1, FS_Interval
<1>3. Attrs \in Surjection(1 .. Len(Attrs), AttrFiles)
  BY <1>1 DEF AttrFiles, Surjection
<1> QED  BY <1>2, <1>3, FS_Surjection

LEMMA ReadLemma ==
  ASSUME TypeOK, NEW wanted \in SUBSET AttrFiles, NEW late \in Slow(wanted),
         Fetched(wanted, late)
  PROVE  /\ local' \subseteq AttrFiles
         /\ spent' \in [timeouts : 0 .. MaxTimeouts, edits : 0 .. MaxEdits]
<1>1. IsFiniteSet(AttrFiles)
  BY AttrFilesFinite
<1>2. late \subseteq AttrFiles /\ spent.timeouts + Cardinality(late) <= MaxTimeouts
  BY DEF Slow
<1>3. Cardinality(late) \in Nat
  BY <1>1, <1>2, FS_Subset, FS_CardinalityType
<1> QED  BY <1>2, <1>3, LifecycleAssumption DEF Fetched, TypeOK

LEMMA QuietIsQuietly ==
  ASSUME TypeOK, NEW m \in Mounts, Quiet(m)
  PROVE  Quietly(m)
<1> USE DEF At, Goto, workspace, tree
<1>1. ASSUME NEW pc \in Steps \cup Ended, cmd' = [cmd EXCEPT ![m].pc = pc],
             pc \in Claimed => cmd[m].pc \in Claimed,
             pc \in Indexed => cmd[m].pc \in Indexed,
             UNCHANGED <<workspace, serves, point, tree, spent>>
      PROVE  Quietly(m)
  BY <1>1, Moved DEF Quietly, TypeOK
<1>2. CASE Invoke(m)
  BY <1>1, <1>2 DEF Invoke, Claimed, Indexed, Steps, Ended
<1>3. CASE Preflight(m)
  BY <1>1, <1>3 DEF Preflight, Claimed, Indexed, Steps, Ended
<1>4. CASE ConfigureFsmonitor(m)
  BY <1>1, <1>4 DEF ConfigureFsmonitor, Claimed, Indexed, Steps, Ended
<1>5. CASE OpenJournal(m)
  BY <1>1, <1>5 DEF OpenJournal, Claimed, Indexed, Steps, Ended
<1>6. CASE CheckAttr(m)
  BY <1>1, <1>6 DEF CheckAttr, Claimed, Indexed, Steps, Ended
<1>7. CASE InstallHooks(m)
  BY <1>1, <1>7 DEF InstallHooks, Claimed, Indexed, Steps, Ended
<1>8. CASE WaitReady(m)
  BY <1>1, <1>8 DEF WaitReady, Claimed, Indexed, Steps, Ended
<1>9. CASE HealthCheck(m)
  BY <1>1, <1>9 DEF HealthCheck, Claimed, Indexed, Steps, Ended
<1>10. CASE EstablishUntrackedCache(m)
  BY <1>1, <1>10 DEF EstablishUntrackedCache, Claimed, Indexed, Steps, Ended
<1>11. CASE SeedFsmonitorValid(m)
  <2>1. cmd' = [cmd EXCEPT ![m].pc = "hooks"] /\ cmd[m].pc = "seed"
    BY <1>11 DEF SeedFsmonitorValid
  <2>2. valid' \subseteq Tracked
    BY <1>11 DEF SeedFsmonitorValid, TypeOK
  <2> QED  BY <1>11, <2>1, <2>2, Moved
           DEF SeedFsmonitorValid, Quietly, TypeOK, Claimed, Indexed, Steps
<1>12. CASE PrefetchAttrBlobs(m)
  <2>1. cmd' = [cmd EXCEPT ![m].pc = "declares"] /\ cmd[m].pc = "prefetch"
    BY <1>12 DEF PrefetchAttrBlobs
  <2>2. /\ local' \subseteq AttrFiles
        /\ spent' \in [timeouts : 0 .. MaxTimeouts, edits : 0 .. MaxEdits]
    BY <1>12, ReadLemma DEF PrefetchAttrBlobs
  <2> QED  BY <1>12, <2>1, <2>2, Moved
           DEF PrefetchAttrBlobs, Quietly, TypeOK, Claimed, Indexed, Steps
<1>13. CASE ReadRest(m)
  <2>1. cmd' = [cmd EXCEPT ![m].pc = "check-attr"] /\ cmd[m].pc = "rest"
    BY <1>13 DEF ReadRest
  <2>2. /\ local' \subseteq AttrFiles
        /\ spent' \in [timeouts : 0 .. MaxTimeouts, edits : 0 .. MaxEdits]
    BY <1>13, ReadLemma DEF ReadRest
  <2> QED  BY <1>13, <2>1, <2>2, Moved
           DEF ReadRest, Quietly, TypeOK, Claimed, Indexed, Steps
<1>14. CASE DeclaresConversion(m)
  <2>1. CASE cmd[m].read = Len(Attrs)
    <3>1. Goto(m, "seed") /\ UNCHANGED <<workspace, serves, point, tree, spent>>
      BY <1>14, <2>1 DEF DeclaresConversion
    <3> QED  BY <1>1, <1>14, <3>1 DEF DeclaresConversion, Claimed, Indexed, Steps
  <2>2. CASE cmd[m].read # Len(Attrs)
    <3>1. cmd[m].pc = "declares" /\ cmd[m].read \in 0 .. (Len(Attrs) - 1) /\ Len(Attrs) \in Nat
      BY <1>14, <2>2, LifecycleAssumption DEF DeclaresConversion, TypeOK
    <3>2. Next1(m) \in AttrFiles
      BY <3>1, LifecycleAssumption DEF Next1, AttrFiles
    <3>3. PICK late \in Slow({Next1(m)}) :
             /\ Fetched({Next1(m)}, late)
             /\ cmd' = IF late # {} THEN [cmd EXCEPT ![m].pc = "hooks"]
                       ELSE IF Declares[Next1(m)] # {} THEN [cmd EXCEPT ![m].pc = "rest"]
                       ELSE [cmd EXCEPT ![m].read = @ + 1]
      BY <1>14, <2>2 DEF DeclaresConversion
    <3>4. /\ local' \subseteq AttrFiles
          /\ spent' \in [timeouts : 0 .. MaxTimeouts, edits : 0 .. MaxEdits]
      BY <3>2, <3>3, ReadLemma
    <3>5. /\ cmd' \in [Mounts -> [pc : {"idle"} \cup Steps \cup Ended, read : 0 .. Len(Attrs)]]
          /\ \A n \in Mounts \ {m} : cmd'[n] = cmd[n]
      BY <3>1, <3>3 DEF TypeOK, Steps
    <3> QED  BY <1>14, <3>1, <3>4, <3>5
             DEF DeclaresConversion, Quietly, TypeOK, Claimed, Indexed
  <2> QED  BY <2>1, <2>2
<1> QED  BY <1>2, <1>3, <1>4, <1>5, <1>6, <1>7, <1>8, <1>9, <1>10, <1>11, <1>12, <1>13, <1>14
         DEF Quiet

-----------------------------------------------------------------------------
\* The commands' other steps: claim, clone, index, spawn.
LEMMA CommandStep ==
  ASSUME MountInv, NEW m \in Mounts,
         Claim(m) \/ CloneEnd(m) \/ BuildIndex(m) \/ Spawn(m)
  PROVE  MountInv'
<1> USE DEF MountInv, At, Goto, workspace, tree
<1>1. CASE Claim(m)
  <2>1. CASE gitdir = "none"
    <3>1. /\ cmd' = [cmd EXCEPT ![m].pc = "cloning"] /\ gitdir' = "partial" /\ serves = <<>>
          /\ UNCHANGED <<local, valid, serves, point, tree, spent>>
      BY <1>1, <2>1 DEF Claim, Claims
    <3>2. \A n \in Mounts : cmd[n].pc \notin Claimed
      BY <2>1 DEF Claims
    <3>3. TypeOK'
      BY <3>1, Moved DEF TypeOK, Steps
    <3>4. Claims'
      BY <3>1, <3>2, Moved DEF Claims, TypeOK, Claimed, Steps
    <3>5. Points'
      BY <3>1 DEF Points, OneServer, Serving
    <3>6. Baselines'
      BY <3>1, Moved DEF Baselines, Untouched, Pinned, Claimed, Indexed, Steps, TypeOK
    <3> QED  BY <3>3, <3>4, <3>5, <3>6
  <2>2. CASE gitdir # "none"
    <3>1. cmd' = [cmd EXCEPT ![m].pc = "failed"] /\ UNCHANGED <<workspace, serves, point, tree, spent>>
      BY <1>1, <2>2 DEF Claim
    <3>2. Quietly(m)
      <4>1. "failed" \in Steps \cup Ended
        BY DEF Ended
      <4>2. /\ cmd' \in [Mounts -> [pc : {"idle"} \cup Steps \cup Ended, read : 0 .. Len(Attrs)]]
            /\ (\A n \in Mounts \ {m} : cmd'[n] = cmd[n]) /\ cmd'[m].pc = "failed"
        BY <3>1, <4>1, Moved
      <4> QED  BY <3>1, <4>2 DEF Quietly, TypeOK, Claimed, Indexed
    <3> QED  BY <3>2, QuietStep
  <2> QED  BY <2>1, <2>2
<1>2. CASE CloneEnd(m)
  <2>1. cmd[m].pc = "cloning" /\ serves = <<>> /\ (\A n \in Mounts \ {m} : cmd[n].pc \notin Claimed)
    BY <1>2 DEF CloneEnd, Claims, Claimed
  <2>2. PICK pc \in {"index", "failed"} :
          /\ cmd' = [cmd EXCEPT ![m].pc = pc]
          /\ gitdir' \in {"cloned", "none"} /\ (pc = "index" => gitdir' = "cloned")
          /\ git' \in {git, [git EXCEPT !.head = Cloned]}
          /\ UNCHANGED <<local, valid, serves, point, base, overlay, exposed, spent>>
    BY <1>2 DEF CloneEnd
  <2>3. /\ cmd' \in [Mounts -> [pc : {"idle"} \cup Steps \cup Ended, read : 0 .. Len(Attrs)]]
        /\ (\A n \in Mounts \ {m} : cmd'[n] = cmd[n]) /\ cmd'[m].pc = pc
    BY <2>2, Moved DEF Steps, Ended
  <2>4. TypeOK'
    <3>1. Cloned \in [Paths -> Contents \cup {None}]
      BY DEF Cloned, Contents
    <3>2. git' \in [head : [Paths -> Contents \cup {None}], index : [Paths -> Contents \cup {None}]]
      BY <2>2, <3>1 DEF TypeOK
    <3> QED  BY <2>2, <2>3, <3>2 DEF TypeOK
  <2>5. Claims'
    BY <2>1, <2>2, <2>3 DEF Claims, Claimed
  <2>6. Points'
    BY <2>2 DEF Points, OneServer, Serving
  <2>7. Baselines'
    BY <2>1, <2>2, <2>3 DEF Baselines, Untouched, Pinned, Claimed, Indexed
  <2> QED  BY <2>4, <2>5, <2>6, <2>7
<1>3. CASE BuildIndex(m)
  <2>1. cmd[m].pc = "index" /\ serves = <<>> /\ (\A n \in Mounts \ {m} : cmd[n].pc \notin Claimed)
    BY <1>3 DEF BuildIndex, Claims, Claimed
  <2>2. PICK pc \in {"configure", "failed"} :
          /\ cmd' = [cmd EXCEPT ![m].pc = pc]
          /\ git' = IF pc = "configure" THEN [git EXCEPT !.index = git.head] ELSE git
          /\ UNCHANGED <<workspace, serves, point, base, overlay, exposed, spent>>
    BY <1>3 DEF BuildIndex
  <2>3. /\ cmd' \in [Mounts -> [pc : {"idle"} \cup Steps \cup Ended, read : 0 .. Len(Attrs)]]
        /\ (\A n \in Mounts \ {m} : cmd'[n] = cmd[n]) /\ cmd'[m].pc = pc
    BY <2>2, Moved DEF Steps, Ended
  <2>4. TypeOK'
    BY <2>2, <2>3 DEF TypeOK
  <2>5. Claims'
    BY <2>1, <2>2, <2>3 DEF Claims, Claimed
  <2>6. Points'
    BY <2>2 DEF Points, OneServer, Serving
  <2>7. Baselines'
    BY <2>1, <2>2, <2>3 DEF Baselines, Untouched, Pinned, Claimed, Indexed, TypeOK
  <2> QED  BY <2>4, <2>5, <2>6, <2>7
<1>4. CASE Spawn(m)
  <2>1. cmd[m].pc = "spawn" /\ serves = <<>> /\ gitdir # "none"
        /\ (\A n \in Mounts \ {m} : cmd[n].pc \notin Claimed)
    BY <1>4 DEF Spawn, Claims, Claimed
  <2>2. /\ cmd' = [cmd EXCEPT ![m].pc = "wait"] /\ serves' = <<"opening">>
        /\ UNCHANGED <<workspace, point, tree, spent>>
    BY <1>4, <2>1 DEF Spawn
  <2>3. /\ cmd' \in [Mounts -> [pc : {"idle"} \cup Steps \cup Ended, read : 0 .. Len(Attrs)]]
        /\ (\A n \in Mounts \ {m} : cmd'[n] = cmd[n]) /\ cmd'[m].pc = "wait"
    BY <2>2, Moved DEF Steps, Ended
  <2>4. TypeOK'
    BY <2>2, <2>3 DEF TypeOK
  <2>5. Claims'
    BY <2>1, <2>2, <2>3 DEF Claims, Claimed
  <2>6. Points'
    BY <2>1, <2>2 DEF Points, OneServer, Serving
  <2>7. Baselines'
    <3>1. git.index = git.head
      BY <2>1 DEF Baselines, Indexed, Claimed
    <3> QED  BY <2>1, <2>2, <2>3, <3>1 DEF Baselines, Untouched, Pinned, Claimed, Indexed
  <2> QED  BY <2>4, <2>5, <2>6, <2>7
<1> QED  BY <1>1, <1>2, <1>3, <1>4

\* A serve process moves on: one at a time serves, whatever becomes of it.
Serves == Seq({"opening", "opened", "serving", "gone"})

LEMMA ServeMoves ==
  ASSUME MountInv, NEW i \in DOMAIN serves, serves[i] # "gone",
         NEW x \in {"opened", "serving", "gone"}, serves' = [serves EXCEPT ![i] = x]
  PROVE  /\ serves' \in Serves /\ DOMAIN serves' = DOMAIN serves /\ serves # <<>>
         /\ serves'[i] = x /\ (\A j \in DOMAIN serves \ {i} : serves'[j] = serves[j])
         /\ \A j \in DOMAIN serves \ {i} : serves[j] = "gone"
<1>1. serves \in Serves /\ \A j \in DOMAIN serves \ {i} : serves[j] = "gone"
  BY DEF MountInv, TypeOK, Points, OneServer, Serving, Serves
<1> QED  BY <1>1 DEF Serves

LEMMA ServeStepLemma ==
  ASSUME MountInv, NEW i \in DOMAIN serves,
         OpenServe(i) \/ MountFuse(i) \/ Unmount(i) \/ Kill(i)
  PROVE  MountInv'
<1> USE DEF MountInv, workspace, tree, Serves
<1>1. CASE OpenServe(i)
  <2>1. PICK x \in {"opened", "gone"} :
          /\ serves' = [serves EXCEPT ![i] = x]
          /\ base' = IF x = "opened" THEN git.head ELSE base
    BY <1>1 DEF OpenServe
  <2>2. serves[i] = "opening"
        /\ UNCHANGED <<cmd, workspace, point, git, overlay, exposed, spent>>
    BY <1>1 DEF OpenServe
  <2>3. /\ serves' \in Serves /\ DOMAIN serves' = DOMAIN serves /\ serves # <<>>
        /\ serves'[i] = x /\ (\A j \in DOMAIN serves \ {i} : serves'[j] = serves[j])
        /\ \A j \in DOMAIN serves \ {i} : serves[j] = "gone"
    BY <2>1, <2>2, ServeMoves
  <2>4. TypeOK'
    BY <2>1, <2>2, <2>3 DEF TypeOK
  <2>5. Claims'
    BY <2>2, <2>3 DEF Claims
  <2>6. Points'
    BY <2>2, <2>3 DEF Points, OneServer, Serving
  <2>7. Baselines'
    BY <2>1, <2>2, <2>3 DEF Baselines, Untouched, Pinned, Claims
  <2> QED  BY <2>4, <2>5, <2>6, <2>7
<1>2. CASE MountFuse(i)
  <2>1. PICK x \in {"serving", "gone"} :
          /\ serves' = [serves EXCEPT ![i] = x]
          /\ point' = IF x = "serving" THEN "mounted" ELSE point
    BY <1>2 DEF MountFuse
  <2>2. serves[i] = "opened" /\ UNCHANGED <<cmd, workspace, tree, spent>>
    BY <1>2 DEF MountFuse
  <2>3. /\ serves' \in Serves /\ DOMAIN serves' = DOMAIN serves /\ serves # <<>>
        /\ serves'[i] = x /\ (\A j \in DOMAIN serves \ {i} : serves'[j] = serves[j])
        /\ \A j \in DOMAIN serves \ {i} : serves[j] = "gone"
    BY <2>1, <2>2, ServeMoves
  <2>4. TypeOK'
    BY <2>1, <2>2, <2>3 DEF TypeOK
  <2>5. Claims'
    BY <2>2, <2>3 DEF Claims
  <2>6. Points'
    BY <2>1, <2>2, <2>3 DEF Points, OneServer, Serving
  <2>7. Baselines'
    BY <2>1, <2>2, <2>3 DEF Baselines, Untouched, Pinned
  <2> QED  BY <2>4, <2>5, <2>6, <2>7
<1>3. CASE Unmount(i) \/ Kill(i)
  <2>1. /\ serves[i] = "serving" /\ serves' = [serves EXCEPT ![i] = "gone"]
        /\ point' \in {"empty", "dead"} /\ UNCHANGED <<cmd, workspace, tree, spent>>
    BY <1>3 DEF Unmount, Kill
  <2>2. /\ serves' \in Serves /\ DOMAIN serves' = DOMAIN serves /\ serves # <<>>
        /\ serves'[i] = "gone" /\ (\A j \in DOMAIN serves \ {i} : serves'[j] = serves[j])
        /\ \A j \in DOMAIN serves \ {i} : serves[j] = "gone"
    BY <2>1, ServeMoves
  <2>3. TypeOK'
    BY <2>1, <2>2 DEF TypeOK
  <2>4. Claims'
    BY <2>1, <2>2 DEF Claims
  <2>5. Points'
    BY <2>1, <2>2 DEF Points, OneServer, Serving
  <2>6. Baselines'
    BY <2>1, <2>2 DEF Baselines, Untouched, Pinned
  <2> QED  BY <2>3, <2>4, <2>5, <2>6
<1> QED  BY <1>1, <1>2, <1>3

\* Releasing the dead mount, and the daemon started again.
LEMMA AgainStep ==
  ASSUME MountInv, UnmountDead \/ Restart
  PROVE  MountInv'
<1> USE DEF MountInv, workspace, tree
<1>1. CASE UnmountDead
  <2>1. point' = "empty" /\ UNCHANGED <<cmd, workspace, serves, tree, spent>>
    BY <1>1 DEF UnmountDead
  <2>2. TypeOK'
    BY <2>1 DEF TypeOK
  <2>3. Claims' /\ Points' /\ Baselines'
    BY <2>1 DEF Claims, Points, OneServer, Serving, Baselines, Untouched, Pinned
  <2> QED  BY <2>2, <2>3
<1>2. CASE Restart
  <2>1. /\ serves' = Append(serves, "opening") /\ point = "empty" /\ gitdir = "cloned"
        /\ serves # <<>> /\ \A i \in DOMAIN serves : serves[i] = "gone"
        /\ UNCHANGED <<cmd, workspace, point, tree, spent>>
    BY <1>2 DEF Restart, Serving
  <2>2. \A m \in Mounts : cmd[m].pc \notin Claimed
    BY <1>2 DEF Restart, Claimed, Ended
  <2>3. /\ serves' \in Serves /\ serves' # <<>> /\ Len(serves') = Len(serves) + 1
        /\ Len(serves) \in Nat /\ DOMAIN serves = 1 .. Len(serves)
        /\ DOMAIN serves' = 1 .. Len(serves')
        /\ \A i \in DOMAIN serves : serves'[i] = serves[i]
        /\ serves'[Len(serves) + 1] = "opening"
    BY <2>1 DEF TypeOK, Serves
  <2>4. \A i \in DOMAIN serves' : i = Len(serves) + 1 \/ serves'[i] = "gone"
    BY <2>1, <2>3
  <2>5. TypeOK'
    BY <2>1, <2>3 DEF TypeOK, Serves
  <2>6. Claims'
    BY <2>1, <2>2 DEF Claims
  <2>7. Points'
    <3>1. OneServer'
      BY <2>4 DEF OneServer, Serving
    <3> QED  BY <2>1, <2>3, <3>1 DEF Points
  <2>8. Baselines'
    <3>1. ~ Pinned'
      BY <2>3, <2>4 DEF Pinned
    <3> QED  BY <2>1, <2>2, <3>1 DEF Baselines, Untouched, Indexed
  <2> QED  BY <2>5, <2>6, <2>7, <2>8
<1> QED  BY <1>1, <1>2

\* The user's steps need the mount, whose serve process has pinned a baseline.
LEMMA UserStepLemma ==
  ASSUME MountInv, UserStep
  PROVE  MountInv'
<1> USE DEF MountInv, workspace, tree
<1>1. point = "mounted" /\ UNCHANGED <<cmd, workspace, serves, point, base>>
  BY DEF UserStep, Edit, Unlink, GitAdd, GitCommit, GitReset, GitUnstage, TakesOnly
<1>2. Pinned /\ serves # <<>> /\ \A m \in Mounts : cmd[m].pc \notin Claimed
  BY <1>1 DEF Points, Pinned, Claims
<1> DEFINE Kept == \A q \in Paths :
       Untouched(q) => git.index[q] = git.head[q] /\ base[q] = git.head[q]
<1>3. Kept
  BY <1>2 DEF Baselines
<1>4. Claims' /\ Points'
  BY <1>1 DEF Claims, Points, OneServer, Serving
<1>5. TypeOK' /\ Kept'
  <2>1. CASE GitCommit
    BY <1>1, <1>3, <2>1 DEF GitCommit, TypeOK, Untouched
  <2>2. ASSUME NEW p \in Paths, Edit(p)
        PROVE  TypeOK' /\ Kept'
    <3>1. /\ overlay' = [overlay EXCEPT ![p] = "new"] /\ UNCHANGED git
          /\ exposed' = exposed \ {p}
      BY <2>2 DEF Edit
    <3>2. TypeOK'
      <4>1. spent' \in [timeouts : 0 .. MaxTimeouts, edits : 0 .. MaxEdits]
        BY <2>2, LifecycleAssumption DEF Edit, Edited, TypeOK
      <4> QED  BY <1>1, <3>1, <4>1 DEF TypeOK, Contents
    <3> QED  BY <1>1, <1>3, <3>1, <3>2 DEF Untouched, TypeOK, Clear
  <2>3. ASSUME NEW p \in Paths, Unlink(p)
        PROVE  TypeOK' /\ Kept'
    <3>1. /\ overlay' = [overlay EXCEPT ![p] = Tombstone(p)] /\ UNCHANGED git
          /\ exposed' = IF base[p] = None /\ {git.head[p], git.index[p]} # {None}
                          THEN exposed \cup {p} ELSE exposed \ {p}
      BY <2>3 DEF Unlink
    <3>2. TypeOK'
      <4>1. spent' \in [timeouts : 0 .. MaxTimeouts, edits : 0 .. MaxEdits]
        BY <2>3, LifecycleAssumption DEF Unlink, Edited, TypeOK
      <4> QED  BY <1>1, <3>1, <4>1 DEF TypeOK, Tombstone
    <3>3. Untouched(p)' => base[p] = None /\ git.head[p] = None /\ git.index[p] = None
      <4>1. overlay'[p] = Tombstone(p) /\ Tombstone(p) \in {None, Clear} /\ None # Clear
        BY <3>1 DEF TypeOK, Tombstone, Clear, None
      <4>2. Untouched(p)' => Tombstone(p) = Clear /\ p \notin exposed'
        BY <4>1 DEF Untouched
      <4>3. Tombstone(p) = Clear => base[p] = None
        BY <4>1 DEF Tombstone
      <4> QED  BY <3>1, <4>2, <4>3
    <3> QED  BY <1>1, <1>3, <3>1, <3>2, <3>3 DEF Untouched, TypeOK
  <2>4. ASSUME NEW p \in Paths, GitAdd(p)
        PROVE  TypeOK' /\ Kept'
    <3>1. git' = [git EXCEPT !.index[p] = View[p]] /\ UNCHANGED <<overlay, exposed, spent>>
      BY <2>4 DEF GitAdd
    <3>2. View[p] \in Contents \cup {None} /\ (overlay[p] = Clear => View[p] = base[p])
      BY DEF View, Over, TypeOK
    <3> QED  BY <1>1, <1>3, <3>1, <3>2 DEF TypeOK, Untouched
  <2>5. ASSUME NEW g \in [head : [Paths -> Contents \cup {None}],
                          index : [Paths -> Contents \cup {None}]], TakesOnly(g)
        PROVE  TypeOK' /\ Kept'
    <3>1. git' = g /\ overlay' = overlay /\ exposed' = exposed \cup Unmatched(g)
      BY <2>5 DEF TakesOnly
    <3>2. TypeOK'
      <4>1. spent' \in [timeouts : 0 .. MaxTimeouts, edits : 0 .. MaxEdits]
        BY <2>5, LifecycleAssumption DEF TakesOnly, Edited, TypeOK
      <4>2. Unmatched(g) \subseteq Paths
        BY DEF Unmatched
      <4> QED  BY <1>1, <3>1, <4>1, <4>2 DEF TypeOK
    <3>3. ASSUME NEW q \in Paths, Untouched(q)'
          PROVE  git'.index[q] = git'.head[q] /\ base'[q] = git'.head[q]
      <4>1. overlay[q] = Clear /\ q \notin Unmatched(g)
        BY <3>1, <3>3 DEF Untouched
      <4>2. {g.head[q], g.index[q]} = {View[q]} /\ View[q] = base[q]
        BY <4>1 DEF Unmatched, View, Over
      <4> QED  BY <1>1, <3>1, <4>2
    <3> QED  BY <3>2, <3>3
  <2>6. ASSUME GitReset \/ \E p \in Paths : GitUnstage(p)
        PROVE  \E g \in [head : [Paths -> Contents \cup {None}],
                         index : [Paths -> Contents \cup {None}]] : TakesOnly(g)
    <3>1. Cloned \in [Paths -> Contents \cup {None}]
      BY DEF Cloned, Contents
    <3>2. CASE GitReset
      <4>1. PICK to \in {Cloned, git.head} : \E index \in {git.index, to} :
                   TakesOnly([head |-> to, index |-> index])
        BY <3>2 DEF GitReset
      <4>2. PICK index \in {git.index, to} : TakesOnly([head |-> to, index |-> index])
        BY <4>1
      <4>3. [head |-> to, index |-> index] \in [head : [Paths -> Contents \cup {None}],
                                               index : [Paths -> Contents \cup {None}]]
        BY <3>1 DEF TypeOK
      <4> QED  BY <4>2, <4>3
    <3>3. ASSUME NEW p \in Paths, GitUnstage(p)
          PROVE  \E g \in [head : [Paths -> Contents \cup {None}],
                           index : [Paths -> Contents \cup {None}]] : TakesOnly(g)
      <4>1. PICK c \in {None, git.head[p]} : TakesOnly([git EXCEPT !.index[p] = c])
        BY <3>3 DEF GitUnstage
      <4>2. [git EXCEPT !.index[p] = c] \in [head : [Paths -> Contents \cup {None}],
                                            index : [Paths -> Contents \cup {None}]]
        BY DEF TypeOK
      <4> QED  BY <4>1, <4>2
    <3> QED  BY <2>6, <3>2, <3>3
  <2> QED  BY <2>1, <2>2, <2>3, <2>4, <2>5, <2>6 DEF UserStep
<1>6. Baselines'
  BY <1>1, <1>2, <1>5 DEF Baselines, Indexed
<1> QED  BY <1>4, <1>5, <1>6

LEMMA MountStep == MountInv /\ [Next]_vars => MountInv'
<1> SUFFICES ASSUME MountInv, [Next]_vars
             PROVE  MountInv'
  OBVIOUS
<1>1. ASSUME NEW m \in Mounts, Invoke(m) \/ CmdStep(m)
      PROVE  MountInv'
  <2>1. CASE Quiet(m)
    BY <2>1, QuietIsQuietly, QuietStep DEF MountInv
  <2> QED  BY <1>1, <2>1, CommandStep DEF CmdStep, Quiet
<1>2. CASE ServeStep
  BY <1>2, ServeStepLemma DEF ServeStep
<1>3. CASE UNCHANGED vars
  BY <1>3 DEF vars, workspace, tree, MountInv, TypeOK, Claims, Points, OneServer, Serving,
              Baselines, Untouched, Pinned
<1> QED  BY <1>1, <1>2, <1>3, AgainStep, UserStepLemma DEF Next

-----------------------------------------------------------------------------
\* Every variable of the mount commands, the serve processes and the workspace
\* stays within its type (main.rs cmd_mount, cmd_serve).
THEOREM LifecycleTypeCorrect == Spec => []TypeOK
<1>1. MountInv => TypeOK
  BY DEF MountInv
<1> QED  BY <1>1, LifecycleInit, MountStep, PTL DEF Spec

\* However many mount commands are run on one mountpoint, at once or one after the
\* other, and however often the daemon dies and is started again, two serve
\* processes never work on the workspace at once (main.rs mount_and_validate and
\* git clone's refusal of a git directory in use).
THEOREM OneServerAlways == Spec => []OneServer
<1>1. MountInv => OneServer
  BY DEF MountInv, Points
<1> QED  BY <1>1, LifecycleInit, MountStep, PTL DEF Spec

\* A daemon started again, whose baseline is the HEAD of that moment, shows the tree
\* the old one showed, commits, resets and rm --cached included, but for files with
\* no overlay entry that were deleted after git learned of them, or whose entry in
\* index or HEAD was moved away from them (worktree lib.rs Projection::open, unlink).
THEOREM RestartSame == Spec => []RestartShowsSameTree
<1>1. MountInv => RestartShowsSameTree
  <2> SUFFICES ASSUME MountInv, Serving # {}, \A i \in Serving : serves[i] = "serving",
                      NEW p \in Paths \ exposed
               PROVE  Over(git.head)[p] = Over(base)[p]
    BY DEF RestartShowsSameTree
  <2>1. Pinned
    BY DEF Pinned, Serving
  <2>2. overlay[p] = Clear => base[p] = git.head[p]
    BY <2>1 DEF MountInv, Baselines, Untouched
  <2> QED  BY <2>2 DEF Over
<1> QED  BY <1>1, LifecycleInit, MountStep, PTL DEF Spec

-----------------------------------------------------------------------------
(* The seed. A file is read up to three times (prefetch, the scan for the first *)
(* declaration, the rest), so one timeout is never all of a file's reads. With  *)
(* one attribute file there is no prefetch, and the scan is its only read.      *)

OneSlowRead == Len(Attrs) >= 2 => MaxTimeouts <= 1

AllLocal == AttrFiles \subseteq local

\* What a command at c has read is local, or has used up the slow read.
Scanned(c) ==
  /\ c.pc \in {"declares", "rest", "check-attr", "seed"} /\ Len(Attrs) >= 2 =>
       AllLocal \/ spent.timeouts >= 1
  /\ c.pc = "rest" /\ Len(Attrs) < 2 => AllLocal
  /\ c.pc = "check-attr" => AllLocal
  /\ \A k \in 1 .. c.read : Declares[Attrs[k]] = {}
  /\ c.pc = "seed" => AllLocal \/ \A a \in AttrFiles : Declares[a] = {}

SeedInv == ConvertedNotSeeded /\ \A m \in Mounts : Scanned(cmd[m])

\* No step makes the store forget a blob, or a timeout not have been.
Grown ==
  /\ local \subseteq local' /\ spent.timeouts \in Nat
  /\ spent'.timeouts \in Nat /\ spent.timeouts <= spent'.timeouts

\* The files a read leaves out cost a timeout each.
LEMMA LateReads ==
  ASSUME TypeOK, NEW wanted \in SUBSET AttrFiles, NEW late \in Slow(wanted), Fetched(wanted, late)
  PROVE  /\ Grown /\ spent'.timeouts <= MaxTimeouts
         /\ late \subseteq wanted \ local /\ local' = local \cup (wanted \ late)
         /\ late # {} => spent'.timeouts >= spent.timeouts + 1
<1>1. late \subseteq wanted \ local /\ spent.timeouts + Cardinality(late) <= MaxTimeouts
  BY DEF Slow
<1>2. IsFiniteSet(late) /\ Cardinality(late) \in Nat
  BY <1>1, AttrFilesFinite, FS_Subset, FS_CardinalityType
<1>3. late # {} => Cardinality(late) >= 1
  BY <1>2, FS_EmptySet
<1>4. spent.timeouts \in Nat /\ spent'.timeouts = spent.timeouts + Cardinality(late)
  BY LifecycleAssumption DEF TypeOK, Fetched
<1> QED  BY <1>1, <1>2, <1>3, <1>4 DEF Grown, Fetched

\* What one command knows stays true while others go on.
LEMMA ScannedStays ==
  ASSUME Grown, NEW c, Scanned(c)
  PROVE  Scanned(c)'
BY DEF Scanned, AllLocal, Grown

LEMMA SeedInit == Init => SeedInv
<1> SUFFICES ASSUME Init PROVE SeedInv
  OBVIOUS
<1>1. ASSUME NEW m \in Mounts
      PROVE  Scanned(cmd[m])
  BY DEF Init, Scanned
<1> QED  BY <1>1 DEF Init, SeedInv, ConvertedNotSeeded

\* A step of one command leaves what the others know.
LEMMA SeedMove ==
  ASSUME TypeOK, SeedInv, Grown, NEW m \in Mounts, \A n \in Mounts \ {m} : cmd'[n] = cmd[n],
         Scanned(cmd[m])', ConvertedNotSeeded'
  PROVE  SeedInv'
<1>1. ASSUME NEW n \in Mounts
      PROVE  Scanned(cmd[n])'
  <2>1. CASE n # m
    <3>1. cmd'[n] = cmd[n]
      BY <2>1
    <3>2. Scanned(cmd[n])
      BY DEF SeedInv
    <3> QED  BY <3>1, <3>2 DEF Scanned, AllLocal, Grown
  <2> QED  BY <2>1
<1> QED  BY <1>1 DEF SeedInv

\* The steps that read nothing and seed nothing.
LEMMA SeedGo ==
  ASSUME TypeOK, SeedInv, NEW m \in Mounts, NEW pc \in Steps \cup Ended,
         cmd' = [cmd EXCEPT ![m].pc = pc], UNCHANGED <<local, valid, spent>>,
         \/ pc \notin {"declares", "rest", "check-attr", "seed"}
         \/ pc = "declares" /\ Len(Attrs) < 2
         \/ pc = "seed" /\ cmd[m].pc = "check-attr"
         \/ pc = "seed" /\ cmd[m].pc = "declares" /\ cmd[m].read = Len(Attrs)
  PROVE  SeedInv'
<1>1. Grown /\ ConvertedNotSeeded'
  BY DEF Grown, TypeOK, SeedInv, ConvertedNotSeeded
<1>2. /\ \A n \in Mounts \ {m} : cmd'[n] = cmd[n]
      /\ cmd'[m].pc = pc /\ cmd'[m].read = cmd[m].read
  BY DEF TypeOK
<1>3. Scanned(cmd[m]) /\ (AllLocal' <=> AllLocal)
  BY DEF SeedInv, AllLocal
<1>4. ASSUME cmd[m].read = Len(Attrs)
      PROVE  \A a \in AttrFiles : Declares[a] = {}
  BY <1>3, <1>4, LifecycleAssumption DEF Scanned, AttrFiles
<1>5. Scanned(cmd[m])'
  <2>1. \A k \in 1 .. cmd'[m].read : Declares[Attrs[k]] = {}
    BY <1>2, <1>3 DEF Scanned
  <2>2. pc = "seed" => AllLocal \/ \A a \in AttrFiles : Declares[a] = {}
    BY <1>3, <1>4 DEF Scanned
  <2>3. pc = "seed" /\ Len(Attrs) >= 2 => AllLocal \/ spent.timeouts >= 1
    BY <1>3 DEF Scanned
  <2>4. pc = "declares" => Len(Attrs) < 2
    OBVIOUS
  <2>5. ~(Len(Attrs) < 2 /\ Len(Attrs) >= 2)
    BY LifecycleAssumption
  <2> QED  BY <1>2, <1>3, <2>1, <2>2, <2>3, <2>4, <2>5 DEF Scanned
<1> QED  BY <1>1, <1>2, <1>5, SeedMove

\* The reads: each leaves what a later step relies on.
LEMMA SeedReads ==
  ASSUME OneSlowRead, TypeOK, SeedInv, NEW m \in Mounts,
         PrefetchAttrBlobs(m) \/ DeclaresConversion(m) \/ ReadRest(m)
  PROVE  SeedInv'
<1> USE DEF At, Goto
<1>1. Scanned(cmd[m]) /\ valid' = valid /\ Len(Attrs) \in Nat /\ MaxTimeouts \in Nat
  BY LifecycleAssumption DEF SeedInv, PrefetchAttrBlobs, DeclaresConversion, ReadRest
<1>2. ConvertedNotSeeded'
  BY <1>1 DEF SeedInv, ConvertedNotSeeded
<1>3. CASE PrefetchAttrBlobs(m)
  <2>1. PICK late \in Slow(AttrFiles) : Fetched(AttrFiles, late)
    BY <1>3 DEF PrefetchAttrBlobs
  <2>2. Grown /\ local' = local \cup (AttrFiles \ late) /\ (late # {} => spent'.timeouts >= spent.timeouts + 1)
    BY <2>1, LateReads
  <2>3. AllLocal' \/ spent'.timeouts >= 1
    BY <2>2 DEF AllLocal, Grown
  <2>4. /\ cmd'[m].pc = "declares" /\ cmd'[m].read = cmd[m].read
        /\ \A n \in Mounts \ {m} : cmd'[n] = cmd[n]
    BY <1>3 DEF PrefetchAttrBlobs, TypeOK
  <2>5. Scanned(cmd[m])'
    BY <1>1, <2>3, <2>4 DEF Scanned
  <2> QED  BY <1>2, <2>2, <2>4, <2>5, SeedMove
<1>4. CASE ReadRest(m)
  <2>1. PICK late \in Slow(AttrFiles) : Fetched(AttrFiles, late)
    BY <1>4 DEF ReadRest
  <2>2. /\ Grown /\ local' = local \cup (AttrFiles \ late) /\ late \subseteq AttrFiles \ local
        /\ spent'.timeouts <= MaxTimeouts /\ (late # {} => spent'.timeouts >= spent.timeouts + 1)
    BY <2>1, LateReads
  <2>3. cmd[m].pc = "rest"
    BY <1>4 DEF ReadRest
  <2>4. AllLocal \/ (Len(Attrs) >= 2 /\ spent.timeouts >= 1)
    <3>1. Len(Attrs) < 2 \/ Len(Attrs) >= 2
      BY <1>1
    <3> QED  BY <1>1, <2>3, <3>1 DEF Scanned
  <2>5. late = {}
    <3>1. CASE AllLocal
      BY <2>2, <3>1 DEF AllLocal
    <3>2. CASE Len(Attrs) >= 2 /\ spent.timeouts >= 1
      BY <1>1, <2>2, <3>2 DEF OneSlowRead, Grown
    <3> QED  BY <2>4, <3>1, <3>2
  <2>6. AllLocal'
    BY <2>2, <2>5 DEF AllLocal
  <2>7. /\ cmd'[m].pc = "check-attr" /\ cmd'[m].read = cmd[m].read
        /\ \A n \in Mounts \ {m} : cmd'[n] = cmd[n]
    BY <1>4 DEF ReadRest, TypeOK
  <2>8. Scanned(cmd[m])'
    BY <1>1, <2>6, <2>7 DEF Scanned
  <2> QED  BY <1>2, <2>2, <2>7, <2>8, SeedMove
<1>5. CASE DeclaresConversion(m)
  <2>1. CASE cmd[m].read = Len(Attrs)
    <3>1. cmd[m].pc = "declares" /\ cmd' = [cmd EXCEPT ![m].pc = "seed"] /\ UNCHANGED <<local, valid, spent>>
      BY <1>5, <2>1 DEF DeclaresConversion
    <3> QED  BY <2>1, <3>1, SeedGo DEF Steps
  <2>2. CASE cmd[m].read # Len(Attrs)
    <3> DEFINE a == Next1(m)
    <3>1. cmd[m].pc = "declares" /\ cmd[m].read \in 0 .. (Len(Attrs) - 1)
      BY <1>1, <1>5, <2>2 DEF DeclaresConversion, TypeOK
    <3>2. a = Attrs[cmd[m].read + 1] /\ a \in AttrFiles
      BY <3>1, LifecycleAssumption DEF Next1, AttrFiles
    <3>3. PICK late \in Slow({a}) :
             /\ Fetched({a}, late)
             /\ cmd' = IF late # {} THEN [cmd EXCEPT ![m].pc = "hooks"]
                       ELSE IF Declares[a] # {} THEN [cmd EXCEPT ![m].pc = "rest"]
                       ELSE [cmd EXCEPT ![m].read = @ + 1]
      BY <1>5, <2>2 DEF DeclaresConversion
    <3> HIDE DEF a
    <3>4. Grown /\ local' = local \cup ({a} \ late)
      BY <3>2, <3>3, LateReads
    <3>5. \A n \in Mounts \ {m} : cmd'[n] = cmd[n]
      BY <3>3 DEF TypeOK
    <3>6. CASE late # {}
      <4>1. cmd'[m].pc = "hooks" /\ cmd'[m].read = cmd[m].read
        BY <3>3, <3>6 DEF TypeOK
      <4>2. Scanned(cmd[m])'
        BY <1>1, <4>1 DEF Scanned
      <4> QED  BY <1>2, <3>4, <3>5, <4>2, SeedMove
    <3>7. CASE late = {} /\ Declares[a] # {}
      <4>1. cmd'[m].pc = "rest" /\ cmd'[m].read = cmd[m].read
        BY <3>3, <3>7 DEF TypeOK
      <4>2. Len(Attrs) >= 2 => AllLocal' \/ spent'.timeouts >= 1
        BY <1>1, <3>1, <3>4 DEF Scanned, AllLocal, Grown
      <4>3. Len(Attrs) < 2 => AllLocal'
        <5> SUFFICES ASSUME Len(Attrs) < 2
                     PROVE  AllLocal'
          OBVIOUS
        <5>1. Len(Attrs) = 1 /\ cmd[m].read = 0
          <6> DEFINE r == cmd[m].read
                     n == Len(Attrs)
          <6>1. n \in Nat /\ n < 2 /\ r \in 0 .. (n - 1)
            BY <1>1, <3>1
          <6> HIDE DEF r, n
          <6>2. n = 1 /\ r = 0
            BY <6>1
          <6> QED  BY <6>2 DEF r, n
        <5>2. AttrFiles = {a}
          BY <3>2, <5>1, LifecycleAssumption DEF AttrFiles
        <5> QED  BY <3>4, <3>7, <5>2 DEF AllLocal
      <4>4. Scanned(cmd[m])'
        BY <1>1, <4>1, <4>2, <4>3 DEF Scanned
      <4> QED  BY <1>2, <3>4, <3>5, <4>4, SeedMove
    <3>8. CASE late = {} /\ Declares[a] = {}
      <4>1. cmd'[m].pc = "declares" /\ cmd'[m].read = cmd[m].read + 1
        BY <3>1, <3>3, <3>8 DEF TypeOK
      <4>2. Len(Attrs) >= 2 => AllLocal' \/ spent'.timeouts >= 1
        BY <1>1, <3>1, <3>4 DEF Scanned, AllLocal, Grown
      <4>3. \A k \in 1 .. (cmd[m].read + 1) : Declares[Attrs[k]] = {}
        <5>1. \A k \in 1 .. cmd[m].read : Declares[Attrs[k]] = {}
          BY <1>1 DEF Scanned
        <5>2. Declares[Attrs[cmd[m].read + 1]] = {} /\ cmd[m].read \in Nat
          BY <1>1, <3>1, <3>2, <3>8
        <5> QED  BY ONLY <5>1, <5>2
      <4>4. Scanned(cmd[m])'
        BY <4>1, <4>2, <4>3 DEF Scanned
      <4> QED  BY <1>2, <3>4, <3>5, <4>4, SeedMove
    <3> QED  BY <3>6, <3>7, <3>8
  <2> QED  BY <2>1, <2>2
<1> QED  BY <1>3, <1>4, <1>5

\* The seed itself.
LEMMA SeedSeed ==
  ASSUME TypeOK, SeedInv, NEW m \in Mounts, SeedFsmonitorValid(m)
  PROVE  SeedInv'
<1> USE DEF At, Goto
<1>1. /\ Scanned(cmd[m]) /\ cmd[m].pc = "seed" /\ UNCHANGED <<local, spent>>
      /\ valid' = valid \/ valid' = Tracked \ ConversionPaths
  BY DEF SeedInv, SeedFsmonitorValid
<1>2. Grown
  BY <1>1 DEF Grown, TypeOK
<1>3. UNION {Declares[a] : a \in AttrFiles} \subseteq ConversionPaths
  <2>1. CASE AllLocal
    BY <2>1 DEF AllLocal, ConversionPaths
  <2>2. CASE \A a \in AttrFiles : Declares[a] = {}
    BY <2>2
  <2> QED  BY <1>1, <2>1, <2>2 DEF Scanned
<1>4. ConvertedNotSeeded'
  BY <1>1, <1>3 DEF SeedInv, ConvertedNotSeeded
<1>5. /\ cmd'[m].pc = "hooks" /\ cmd'[m].read = cmd[m].read
      /\ \A n \in Mounts \ {m} : cmd'[n] = cmd[n]
  BY DEF SeedFsmonitorValid, TypeOK
<1>6. Scanned(cmd[m])'
  BY <1>1, <1>5 DEF Scanned
<1> QED  BY <1>2, <1>4, <1>5, <1>6, SeedMove

LEMMA SeedStep ==
  ASSUME OneSlowRead, TypeOK, SeedInv, [Next]_vars
  PROVE  SeedInv'
<1> USE DEF At, Goto, workspace, tree
<1>1. ASSUME NEW m \in Mounts, NEW pc \in (Steps \cup Ended) \ {"declares", "rest", "check-attr", "seed"},
             cmd' = [cmd EXCEPT ![m].pc = pc], UNCHANGED <<local, valid, spent>>
      PROVE  SeedInv'
  BY <1>1, SeedGo
<1>2. ASSUME UNCHANGED <<cmd, local, valid>>, spent'.timeouts = spent.timeouts
      PROVE  SeedInv'
  <2>1. \A m \in Mounts : Scanned(cmd[m])'
    BY <1>2 DEF SeedInv, Scanned, AllLocal
  <2> QED  BY <1>2, <2>1 DEF SeedInv, ConvertedNotSeeded
<1>3. ASSUME NEW m \in Mounts, Invoke(m) \/ CmdStep(m)
      PROVE  SeedInv'
  <2>1. CASE PrefetchAttrBlobs(m) \/ DeclaresConversion(m) \/ ReadRest(m)
    BY <2>1, SeedReads
  <2>2. CASE SeedFsmonitorValid(m)
    BY <2>2, SeedSeed
  <2>3. CASE Invoke(m) \/ Preflight(m) \/ Claim(m) \/ CloneEnd(m) \/ BuildIndex(m)
             \/ ConfigureFsmonitor(m) \/ InstallHooks(m) \/ Spawn(m) \/ WaitReady(m)
             \/ HealthCheck(m) \/ EstablishUntrackedCache(m)
    BY <2>3, <1>1 DEF Invoke, Preflight, Claim, CloneEnd, BuildIndex, ConfigureFsmonitor,
                      InstallHooks, Spawn, WaitReady, HealthCheck, EstablishUntrackedCache, Steps, Ended
  <2>4. CASE OpenJournal(m)
    <3>1. PICK pc \in {"hooks", "declares", "prefetch"} :
            /\ cmd' = [cmd EXCEPT ![m].pc = pc] /\ UNCHANGED <<local, valid, spent>>
            /\ pc = "declares" => Len(Attrs) < 2
      BY <2>4 DEF OpenJournal
    <3> QED  BY <3>1, SeedGo DEF Steps
  <2>5. CASE CheckAttr(m)
    <3>1. PICK pc \in {"seed", "hooks"} :
            cmd[m].pc = "check-attr" /\ cmd' = [cmd EXCEPT ![m].pc = pc] /\ UNCHANGED <<local, valid, spent>>
      BY <2>5 DEF CheckAttr
    <3> QED  BY <3>1, SeedGo DEF Steps
  <2> QED  BY <1>3, <2>1, <2>2, <2>3, <2>4, <2>5 DEF CmdStep
<1>4. CASE ServeStep \/ UnmountDead \/ Restart
  BY <1>2, <1>4 DEF ServeStep, OpenServe, MountFuse, Unmount, Kill, UnmountDead, Restart
<1>5. CASE UserStep
  <2>1. UNCHANGED <<cmd, local, valid>> /\ spent'.timeouts = spent.timeouts
    BY <1>5 DEF UserStep, GitCommit, Edit, Unlink, GitAdd, GitReset, GitUnstage, TakesOnly,
                Edited, TypeOK
  <2> QED  BY <1>2, <2>1
<1>6. CASE UNCHANGED vars
  BY <1>2, <1>6 DEF vars
<1> QED  BY <1>3, <1>4, <1>5, <1>6 DEF Next

\* Whatever commands race for the workspace and wherever they fail, a file with a
\* checkout conversion is never seeded as unchanged, if at most one read of an
\* attribute file times out (git-repo lib.rs seed_fsmonitor_valid, conversion_paths).
THEOREM ConvertedNeverSeeded == OneSlowRead => (Spec => []ConvertedNotSeeded)
<1> SUFFICES ASSUME OneSlowRead
             PROVE  Spec => []ConvertedNotSeeded
  OBVIOUS
<1>1. SeedInv => ConvertedNotSeeded
  BY DEF SeedInv
<1>2. MountInv /\ SeedInv /\ [Next]_vars => (MountInv /\ SeedInv)'
  <2>1. MountInv => TypeOK
    BY DEF MountInv
  <2> QED  BY <2>1, MountStep, SeedStep
<1> QED  BY <1>1, <1>2, LifecycleInit, SeedInit, PTL DEF Spec

=============================================================================

------------------------------ MODULE InodeTable ------------------------------
(* The inode table of crates/fs-common/src/inode.rs as the mount uses it:      *)
(*   - callbacks run on pool workers; each first resolves or changes the       *)
(*     namespace (Projection) and only then, in a second step, asks the table  *)
(*     for the number of its path, so two callbacks may pass each other;       *)
(*   - the kernel holds the references that lookup replies gave it and returns *)
(*     them with forget, handled inline by the session thread;                 *)
(*   - the kernel's directory lock keeps create, unlink, rename and a first    *)
(*     lookup apart, not a revalidating lookup, a getattr or an opendir.       *)
(* Files are numbered by their creation: the identity a number must follow.    *)
EXTENDS Integers, FiniteSets

CONSTANTS
  Paths,       \* the names of one directory
  NoPath,      \* Option::None of InodeEntry.path
  Workers,     \* threads of the object-IO pool
  Callbacks,   \* which of the reading callbacks the kernel sends
  MaxIno,      \* bound: inode numbers handed out
  MaxFiles,    \* bound: files created
  MaxLookups   \* bound: lookups counted on one inode when a callback starts

ReadingCallbacks == {"lookup", "getattr", "opendir"}
ROOT_INO == 1
Inos   == 1..MaxIno
NoIno  == 0
NoFile == 0

ASSUME NoPathAssumption   == NoPath \notin Paths
ASSUME CallbackAssumption == Callbacks \subseteq ReadingCallbacks
ASSUME InoBounds          == MaxIno \in Nat /\ MaxFiles \in Nat /\ MaxLookups \in Nat

VARIABLES
  path_to_ino,  \* Inner.path_to_ino, NoIno where absent
  live,         \* the keys of Inner.entries
  path,         \* InodeEntry.path by number
  lookups,      \* InodeEntry.lookups by number
  next_ino,     \* Inner.next_ino
  fileAt,       \* what Projection::resolve finds at a path: a file or NoFile
  made,         \* files created so far
  worker,       \* the callback each pool worker is in the middle of
  refs,         \* references the kernel holds by number
  told          \* ghost: every number a reply gave for a file

tableVars == <<path_to_ino, live, path, lookups, next_ino>>
spaceVars == <<fileAt, made>>
vars      == <<tableVars, spaceVars, worker, refs, told>>

Idle == [op |-> "idle", path |-> NoPath, to |-> NoPath, ino |-> NoIno, file |-> NoFile,
         fresh |-> TRUE, locked |-> FALSE]

RootNotReserved ==                                \* mutant of Init
  /\ path_to_ino = [p \in Paths |-> NoIno]
  /\ live = {} /\ path = [i \in Inos |-> NoPath] /\ lookups = [i \in Inos |-> 0]
  /\ next_ino = ROOT_INO
  /\ fileAt = [p \in Paths |-> NoFile] /\ made = 0
  /\ worker = [w \in Workers |-> Idle]
  /\ refs = [i \in Inos |-> 0] /\ told = {}

\* Projection::open makes the table over whatever the directory holds.
Init ==
  /\ path_to_ino = [p \in Paths |-> NoIno]
  /\ live = {} /\ path = [i \in Inos |-> NoPath] /\ lookups = [i \in Inos |-> 0]
  /\ next_ino = ROOT_INO + 1
  /\ fileAt = [p \in Paths |-> NoFile] /\ made = 0
  /\ worker = [w \in Workers |-> Idle]
  /\ refs = [i \in Inos |-> 0] /\ told = {}

-----------------------------------------------------------------------------
(* InodeTable: each operation is one critical section. *)

FreedNumber(p) ==                                 \* mutant of Number
  IF path_to_ino[p] # NoIno THEN path_to_ino[p]
  ELSE IF \E n \in 2..(next_ino - 1) : n \notin live
         THEN CHOOSE n \in 2..(next_ino - 1) : n \notin live
         ELSE next_ino

\* The number lookup(p) answers with.
Number(p) == IF path_to_ino[p] # NoIno THEN path_to_ino[p] ELSE next_ino

TableLookup(p) ==
  LET i == Number(p)
  IN  IF path_to_ino[p] # NoIno
        THEN /\ lookups' = [lookups EXCEPT ![i] = @ + 1]
             /\ UNCHANGED <<path_to_ino, live, path, next_ino>>
        ELSE /\ next_ino' = next_ino + 1
             /\ live' = live \union {i}
             /\ path' = [path EXCEPT ![i] = p]
             /\ lookups' = [lookups EXCEPT ![i] = 1]
             /\ path_to_ino' = [path_to_ino EXCEPT ![p] = i]

\* lookups.saturating_sub(n); an unlinked entry without references goes.
TableForget(i, n) ==
  IF i \notin live THEN UNCHANGED tableVars ELSE
  LET left == IF lookups[i] >= n THEN lookups[i] - n ELSE 0
  IN  /\ lookups' = [lookups EXCEPT ![i] = left]
      /\ live' = IF left = 0 /\ path[i] = NoPath THEN live \ {i} ELSE live
      /\ UNCHANGED <<path_to_ino, path, next_ino>>

FreesOpen(p) ==                                   \* mutant of TableUnlink
  LET i == path_to_ino[p]
  IN  IF i = NoIno THEN UNCHANGED tableVars ELSE
      /\ path_to_ino' = [path_to_ino EXCEPT ![p] = NoIno]
      /\ path' = [path EXCEPT ![i] = NoPath]
      /\ live' = live \ {i}
      /\ UNCHANGED <<lookups, next_ino>>

TableUnlink(p) ==
  LET i == path_to_ino[p]
  IN  IF i = NoIno THEN UNCHANGED tableVars ELSE
      /\ path_to_ino' = [path_to_ino EXCEPT ![p] = NoIno]
      /\ path' = [path EXCEPT ![i] = NoPath]
      /\ live' = IF lookups[i] = 0 THEN live \ {i} ELSE live
      /\ UNCHANGED <<lookups, next_ino>>

KeepsEvicted(p, q) ==                             \* mutant of TableRename
  LET i == path_to_ino[p]
  IN  IF i = NoIno THEN UNCHANGED tableVars ELSE
      /\ path_to_ino' = [path_to_ino EXCEPT ![p] = NoIno, ![q] = i]
      /\ path' = [path EXCEPT ![i] = q]
      /\ UNCHANGED <<live, lookups, next_ino>>

NumberStays(p, q) ==                              \* mutant of TableRename
  LET i == path_to_ino[p]
  IN  IF i = NoIno THEN UNCHANGED tableVars ELSE
      /\ path_to_ino' = [path_to_ino EXCEPT ![p] = NoIno]
      /\ path' = [path EXCEPT ![i] = NoPath]
      /\ UNCHANGED <<live, lookups, next_ino>>

\* The occupant of the destination loses its name.
TableRename(p, q) ==
  LET i == path_to_ino[p]
      evicted == path_to_ino[q]
  IN  IF i = NoIno THEN UNCHANGED tableVars ELSE
      /\ path_to_ino' = [path_to_ino EXCEPT ![p] = NoIno, ![q] = i]
      /\ path' = IF evicted = NoIno THEN [path EXCEPT ![i] = q]
                                    ELSE [path EXCEPT ![evicted] = NoPath, ![i] = q]
      /\ UNCHANGED <<live, lookups, next_ino>>

-----------------------------------------------------------------------------
(* Reading callbacks: resolve, then number, then reply. *)

\* The kernel has an inode for the name p.
Held(p) == \E i \in live : path[i] = p /\ refs[i] > 0

NamespaceOp(w) == worker[w].op \in {"create", "unlink", "rename"}
Touches(w, p)  == NamespaceOp(w) /\ p \in {worker[w].path, worker[w].to}

\* Room under the bounds for one more number per callback in flight.
Roomy(p) ==
  /\ next_ino + Cardinality({w \in Workers : worker[w].op # "idle"}) <= MaxIno
  /\ \A q \in {p} \union {worker[v].path : v \in {u \in Workers : Touches(u, p)}} :
       path_to_ino[q] # NoIno => lookups[path_to_ino[q]] < MaxLookups

Resolve(w, op, p) ==
  /\ worker[w] = Idle /\ op \in Callbacks /\ fileAt[p] # NoFile /\ Roomy(p)
  /\ op = "getattr" => Held(p)   \* it names an inode the kernel holds
  /\ LET locked == op = "lookup" /\ ~Held(p)
     IN  /\ locked => \A v \in Workers : ~NamespaceOp(v)
         /\ worker' = [worker EXCEPT ![w] =
              [Idle EXCEPT !.op = op, !.path = p, !.ino = path_to_ino[p], !.file = fileAt[p],
                           !.locked = locked, !.fresh = \A v \in Workers : ~Touches(v, p)]]
  /\ UNCHANGED <<tableVars, spaceVars, refs, told>>

\* Number the path and reply; only a lookup or create reply takes a reference.
\* getattr looks the path up for its generation and answers for the inode asked.
Reply(w) ==
  LET c == worker[w]
      i == Number(c.path)
  IN  /\ c.op \in ReadingCallbacks \union {"create"} /\ i \in Inos
      /\ TableLookup(c.path)
      /\ refs' = IF c.op \in {"lookup", "create"} THEN [refs EXCEPT ![i] = @ + 1] ELSE refs
      /\ told' = told \union {[ino |-> IF c.op = "getattr" THEN c.ino ELSE i,
                               file |-> c.file, fresh |-> c.fresh]}
      /\ worker' = [worker EXCEPT ![w] = Idle]
      /\ UNCHANGED spaceVars

-----------------------------------------------------------------------------
(* Callbacks that change the namespace, under the kernel's directory lock. *)

\* Answers already resolved for these names no longer describe them.
Begin(w, c) ==
  /\ worker[w] = Idle
  /\ \A v \in Workers : ~NamespaceOp(v) /\ ~worker[v].locked
  /\ worker' = [v \in Workers |->
       IF v = w THEN c
       ELSE IF worker[v].path \in {c.path, c.to} \ {NoPath} THEN [worker[v] EXCEPT !.fresh = FALSE]
       ELSE worker[v]]
  /\ UNCHANGED <<tableVars, refs, told>>

\* Projection::create, mkdir, symlink.
Create(w, p) ==
  /\ fileAt[p] = NoFile /\ made < MaxFiles /\ Roomy(p)
  /\ made' = made + 1 /\ fileAt' = [fileAt EXCEPT ![p] = made + 1]
  /\ Begin(w, [Idle EXCEPT !.op = "create", !.path = p, !.file = made + 1])

\* Projection::unlink and rmdir.
Unlink(w, p) ==
  /\ fileAt[p] # NoFile
  /\ fileAt' = [fileAt EXCEPT ![p] = NoFile] /\ UNCHANGED made
  /\ Begin(w, [Idle EXCEPT !.op = "unlink", !.path = p])

UnlinkTable(w) ==
  /\ worker[w].op = "unlink"
  /\ TableUnlink(worker[w].path)
  /\ worker' = [worker EXCEPT ![w] = Idle]
  /\ UNCHANGED <<spaceVars, refs, told>>

\* Projection::rename of one entry.
Rename(w, p, q) ==
  /\ p # q /\ fileAt[p] # NoFile
  /\ fileAt' = [fileAt EXCEPT ![p] = NoFile, ![q] = fileAt[p]] /\ UNCHANGED made
  /\ Begin(w, [Idle EXCEPT !.op = "rename", !.path = p, !.to = q])

RenameTable(w) ==
  /\ worker[w].op = "rename"
  /\ TableRename(worker[w].path, worker[w].to)
  /\ worker' = [worker EXCEPT ![w] = Idle]
  /\ UNCHANGED <<spaceVars, refs, told>>

\* The kernel returns n of its references.
Forget(i, n) ==
  /\ n <= refs[i]
  /\ refs' = [refs EXCEPT ![i] = @ - n]
  /\ TableForget(i, n)
  /\ UNCHANGED <<spaceVars, worker, told>>

-----------------------------------------------------------------------------
Next ==
  \/ \E w \in Workers :
       \/ \E p \in Paths : (\E op \in Callbacks : Resolve(w, op, p)) \/ Create(w, p) \/ Unlink(w, p)
       \/ \E p, q \in Paths : Rename(w, p, q)
       \/ Reply(w) \/ UnlinkTable(w) \/ RenameTable(w)
  \/ \E i \in Inos : \E n \in 1..refs[i] : Forget(i, n)

Spec == Init /\ [][Next]_vars
-----------------------------------------------------------------------------
(* Properties *)

WorkerType ==
  [op : ReadingCallbacks \union {"idle", "create", "unlink", "rename"}, path : Paths \union {NoPath},
   to : Paths \union {NoPath}, ino : Inos \union {NoIno}, file : Nat, fresh : BOOLEAN, locked : BOOLEAN]

\* Types of the table, the callbacks in flight and the kernel's references.
TypeOK ==
  /\ path_to_ino \in [Paths -> Inos \union {NoIno}]
  /\ live \subseteq Inos /\ path \in [Inos -> Paths \union {NoPath}]
  /\ lookups \in [Inos -> Nat] /\ next_ino \in Nat \ {0, 1}
  /\ fileAt \in [Paths -> Nat] /\ made \in Nat
  /\ worker \in [Workers -> WorkerType]
  /\ refs \in [Inos -> Nat] /\ told \subseteq [ino : Nat, file : Nat, fresh : BOOLEAN]

\* path_to_ino and entries are inverse to each other: lookup's
\* expect("entry exists") cannot panic, no entry answers to a name it lost.
TableAgrees ==
  /\ \A p \in Paths : path_to_ino[p] # NoIno => path_to_ino[p] \in live /\ path[path_to_ino[p]] = p
  /\ \A i \in live : path[i] # NoPath => path_to_ino[path[i]] = i

\* FS-INO-3, FS-INO-5: a number the kernel refers to is never freed, whatever
\* callbacks pass each other, and forget never takes more than was counted.
KernelRefsCovered == \A i \in Inos : refs[i] > 0 => i \in live /\ refs[i] <= lookups[i]

\* FS-INO-4: a number once freed is never handed out again.
NumbersNeverReused ==
  [][\A i \in Inos : i < next_ino /\ i \notin live => i \notin live']_vars

\* FS-INO-1, FS-INO-2: replies that no rename or unlink of their name overtook
\* give one number per file and one file per number, across renames.
IdentityFollowsFile ==
  \A a, b \in told : a.fresh /\ b.fresh => (a.ino = b.ino <=> a.file = b.file)

\* "forget of all kernel references on an unlinked inode frees it"
\* (docs/fuse-semantics.md:34), once no callback is in flight.
ForgottenIsFreed ==
  (\A w \in Workers : worker[w] = Idle)
    => \A i \in live : path[i] = NoPath => refs[i] > 0
=============================================================================

----------------------------- MODULE OverlayStore -----------------------------
(* The writable overlay of crates/worktree/src/overlay.rs under the write      *)
(* callbacks of crates/worktree/src/lib.rs, at the grain of its disk calls:    *)
(*   - an entry is a sidecar in meta/ (staged as <id>.tmp, then renamed) and,  *)
(*     for a file, a content file c<pid>-<seq>; index is the memory of both;   *)
(*   - a callback is a list of such calls, made by one pool worker; between    *)
(*     two of them other workers run, the process may die, or a call may fail; *)
(*   - the kernel holds a directory and an inode lock around every callback    *)
(*     but open, which may overlap anything.                                   *)
(* view is what a POSIX reader is owed: it moves when a callback is answered.  *)
EXTENDS Integers, Sequences

CONSTANTS
  Paths,        \* the names of one directory
  Baseline,     \* those the baseline commit holds as files
  NoPath,
  Workers,      \* threads of the object-IO pool
  Ops,          \* which callbacks the kernel sends
  CutOps,       \* which of them a restart may interrupt
  Errors,       \* whether a disk call may fail
  Losses,       \* what a restart may lose: {} after SIGKILL, more after power loss
  ReusePids,    \* whether a restarted process may get a former process id
  Modes,        \* the executable bits create and chmod ask for
  MaxStarts,    \* bound: callbacks sent
  MaxSeq,       \* bound: content ids per process
  MaxWrites,    \* bound: writes
  MaxRestarts   \* bound: restarts

NamespaceOps  == {"create", "symlink", "unlink", "rename"}
Truncations   == {"truncate", "openTrunc"}   \* open(O_TRUNC) holds the inode's lock as setattr does
Modifications == Truncations \union {"chmod", "open"}
Callbacks     == NamespaceOps \union Modifications
Opening       == {"create", "open", "openTrunc"}

ASSUME PathAssumption == Baseline \subseteq Paths /\ NoPath \notin Paths
ASSUME OpAssumption   == CutOps \subseteq Ops /\ Ops \subseteq Callbacks
ASSUME LossAssumption == Losses \subseteq {"data", "removal"} /\ Modes \subseteq BOOLEAN /\ Errors \in BOOLEAN /\ ReusePids \in BOOLEAN
ASSUME OverlayBounds  == MaxStarts \in Nat /\ MaxSeq \in Nat /\ MaxWrites \in Nat /\ MaxRestarts \in Nat

VARIABLES
  sidecar,   \* meta/<id>.json by path
  tmp,       \* meta/<id>.tmp by path
  removed,   \* the sidecar a remove_file not yet followed by a directory fsync dropped
  content,   \* content/<id>: what the file holds
  index,     \* Index.entries
  pid, seq,  \* the process id and CONTENT_SEQ
  worker,    \* the callback each worker is in the middle of
  handles,   \* Handle::Write: its content file, and the path of the file it opened
  view,      \* ghost: what answered callbacks and writes made of each path
  mark,      \* ghost: whether a path's history is a clean sequence of callbacks
  starts, writes, restarts

diskVars == <<sidecar, tmp, removed, content>>
memVars  == <<index, pid, seq, worker, handles>>
vars     == <<diskVars, memVars, view, mark, starts, writes, restarts>>

\* Bytes of a file: a blob is named by its baseline path, writes by numbers.
Empty  == 0
Gone   == -1   \* no such path
Broken == -2   \* a content file that does not exist

ASSUME BlobAssumption == Baseline \intersect {Gone, Broken} = {}

\* Process and content ids; ids are c<pid>-<seq>.
Pids == 1..(MaxRestarts + 1)
Ids  == Pids \X (0..(MaxSeq - 1))
NoId == <<0, 0>>

None         == [kind |-> "none", of |-> NoId, x |-> FALSE]
Tomb         == [kind |-> "tombstone", of |-> NoId, x |-> FALSE]
Symlink      == [kind |-> "symlink", of |-> NoId, x |-> FALSE]
File(id, x)  == [kind |-> "file", of |-> id, x |-> x]
BaseRef(b,x) == [kind |-> "baseref", of |-> b, x |-> x]

\* Projection::resolve and a read of the result.
Shown(e, p, bytes) ==
  CASE e.kind = "file"      -> [val |-> bytes[e.of], x |-> e.x]
    [] e.kind = "baseref"   -> [val |-> e.of, x |-> e.x]
    [] e.kind = "symlink"   -> [val |-> Empty, x |-> FALSE]
    [] e.kind = "tombstone" -> [val |-> Gone, x |-> FALSE]
    [] e.kind = "none"      -> [val |-> IF p \in Baseline THEN p ELSE Gone, x |-> FALSE]
Seen(p)   == Shown(index[p], p, content)
Exists(p) == Seen(p).val # Gone

\* resolve finds a regular file whose bytes are still a blob.
Clean(p) == index[p].kind = "baseref" \/ (index[p].kind = "none" /\ p \in Baseline)

SamePid == <<1, seq>>                             \* mutant of NewContentId
\* new_content_id; the counter moves with the callback that takes it.
NewContentId == <<pid, seq>>

Idle == [op |-> "idle", path |-> NoPath, to |-> NoPath, x |-> FALSE, id |-> NoId, todo |-> <<>>]

Init ==
  /\ sidecar = [p \in Paths |-> None] /\ tmp = [p \in Paths |-> None]
  /\ removed = [p \in Paths |-> None] /\ content = [i \in Ids |-> Broken]
  /\ index = [p \in Paths |-> None] /\ pid = 1 /\ seq = 0
  /\ worker = [w \in Workers |-> Idle] /\ handles = {}
  /\ view = [p \in Paths |-> [val |-> IF p \in Baseline THEN p ELSE Gone, x |-> FALSE]]
  /\ mark = [p \in Paths |-> "clear"]
  /\ starts = 0 /\ writes = 0 /\ restarts = 0

-----------------------------------------------------------------------------
(* The overlay's operations as lists of calls. *)

Call(do, p, e) == [do |-> do, path |-> p, entry |-> e, val |-> Empty]

Persist(p, e) == <<Call("stage", p, e), Call("publish", p, e)>>
Put(p, e)     == Persist(p, e) \o <<Call("insert", p, e)>>

PersistFirst(p, id, x, seed) ==                   \* mutant of CreateFile
  Put(p, File(id, x)) \o <<[Call("content", p, File(id, x)) EXCEPT !.val = seed]>>

CreateFile(p, id, x, seed) ==
  <<[Call("content", p, File(id, x)) EXCEPT !.val = seed]>> \o Put(p, File(id, x))

Tombstone(p) == <<Call("drop", p, None)>> \o Put(p, Tomb)

ClearIndexOnly(p) ==                              \* mutant of Clear
  <<Call("drop", p, None), Call("insert", p, None)>>

Clear(p) == <<Call("drop", p, None), Call("unpersist", p, None), Call("insert", p, None)>>

\* Overlay::rename; the last call changes both names under the index lock.
Rekey(s, d, e) == Persist(d, e) \o <<Call("unpersist", s, None), Call("rekey", s, e)>>

UnlinkCalls(p) == IF p \in Baseline THEN Tombstone(p) ELSE Clear(p)

RenameCalls(s, d) ==
  IF index[s].kind # "none"
    THEN Rekey(s, d, index[s]) \o (IF s \in Baseline THEN Tombstone(s) ELSE <<>>)
    ELSE Put(d, BaseRef(s, FALSE)) \o Tombstone(s)

-----------------------------------------------------------------------------
(* Callbacks start. *)

Touch(c) == {c.path, c.to} \ {NoPath}
Locked(c) == c.op \notin {"idle", "open"}
\* The kernel looks its names up first; a missing content file is EIO there.
MayStart(w, c) ==
  /\ c.op \in Ops /\ worker[w] = Idle
  /\ \A p \in Touch(c) : Seen(p).val # Broken
  /\ \A v \in Workers : Locked(worker[v]) /\ Locked(c) =>
       /\ ~(worker[v].op \in NamespaceOps /\ c.op \in NamespaceOps)
       /\ Touch(worker[v]) \intersect Touch(c) = {}

\* Overlapping callbacks of one name: at least one of them is an open.
Overlapped(c) ==
  LET over == {v \in Workers : Touch(worker[v]) \intersect Touch(c) # {}}
  IN  IF over = {} THEN {} ELSE Touch(c) \union UNION {Touch(worker[v]) : v \in over}

Begin(w, c) ==
  /\ MayStart(w, c) /\ starts < MaxStarts /\ starts' = starts + 1
  /\ worker' = [worker EXCEPT ![w] = c]
  /\ mark' = [p \in Paths |-> IF p \in Overlapped(c) THEN "raced" ELSE mark[p]]
  /\ UNCHANGED <<diskVars, index, pid, handles, view, writes, restarts>>

Create(w, p, x) ==
  /\ ~Exists(p) /\ seq < MaxSeq
  /\ Begin(w, [Idle EXCEPT !.op = "create", !.path = p, !.x = x, !.id = NewContentId,
                           !.todo = CreateFile(p, NewContentId, x, Empty)])
  /\ seq' = seq + 1

PutSymlink(w, p) ==
  /\ ~Exists(p)
  /\ Begin(w, [Idle EXCEPT !.op = "symlink", !.path = p, !.todo = Put(p, Symlink)])
  /\ UNCHANGED seq

Unlink(w, p) ==
  /\ Exists(p)
  /\ Begin(w, [Idle EXCEPT !.op = "unlink", !.path = p, !.todo = UnlinkCalls(p)])
  /\ UNCHANGED seq

Rename(w, s, d) ==
  /\ s # d /\ Exists(s)
  /\ Begin(w, [Idle EXCEPT !.op = "rename", !.path = s, !.to = d, !.todo = RenameCalls(s, d)])
  /\ UNCHANGED seq

\* open_write, truncate and set_executable find their path, record it in the
\* journal and only then look at the overlay.
Modify(w, op, p, x) ==
  /\ Exists(p) /\ index[p].kind # "symlink"
  /\ Begin(w, [Idle EXCEPT !.op = op, !.path = p, !.x = x, !.todo = <<Call("look", p, None)>>])
  /\ UNCHANGED seq

-----------------------------------------------------------------------------
(* A worker's next call. *)

Next1(w) == Head(worker[w].todo)
Does(w, do) == worker[w].todo # <<>> /\ Next1(w).do = do
Advance(w) == worker' = [worker EXCEPT ![w].todo = Tail(@)]
ghosts == <<view, mark, starts, writes, restarts>>

\* Where a fault hits a callback, its names are cut: interrupted, failed, or left
\* with a sidecar that should be gone.
Cut(touched) == [p \in Paths |-> IF p \in touched /\ mark[p] # "raced" THEN "cut" ELSE mark[p]]

ChmodCopies(p, x) ==                              \* mutant of ChmodCalls
  CreateFile(p, <<pid, MaxSeq - 1>>, x, Seen(p).val)

\* Overlay::set_executable keeps the content.
ChmodCalls(p, x) == Put(p, File(index[p].of, x))

\* Whether the overlay holds the file decides between its content and copy-up.
Look(w) ==
  LET p == worker[w].path
  IN  /\ Does(w, "look")
      /\ worker' = [worker EXCEPT ![w].todo =
           IF index[p].kind # "file" THEN <<Call("resolve", p, None)>>
           ELSE IF worker[w].op = "chmod" THEN ChmodCalls(p, worker[w].x)
           ELSE <<Call("openContent", p, None)>>]
      /\ UNCHANGED <<diskVars, index, pid, seq, handles, ghosts>>

\* resolve, materialize_path and the list of create_file's calls.
CopyUp(w) ==
  LET c == worker[w]
      p == c.path
  IN  /\ Does(w, "resolve") /\ Clean(p) /\ seq < MaxSeq /\ seq' = seq + 1
      /\ worker' = [worker EXCEPT ![w].id = NewContentId, ![w].todo =
           CreateFile(p, NewContentId, IF c.op = "chmod" THEN c.x ELSE Seen(p).x,
                      IF c.op \in Truncations THEN Empty ELSE Seen(p).val)]
      /\ UNCHANGED <<diskVars, index, pid, handles, ghosts>>

\* The file changed since the kernel sent the callback, or a read or an open
\* fails: an error, nothing done.
ModifyFails(w) ==
  LET e == index[worker[w].path]
  IN  /\ \/ Does(w, "resolve") /\ (Errors \/ ~Clean(worker[w].path))
         \/ Does(w, "openContent") /\ (Errors \/ e.kind # "file")
         \/ Does(w, "openContent") /\ e.kind = "file" /\ content[e.of] = Broken
      /\ worker' = [worker EXCEPT ![w] = Idle]
      /\ UNCHANGED <<diskVars, index, pid, seq, handles, ghosts>>

OpenContent(w) ==
  LET e == index[worker[w].path]
  IN  /\ Does(w, "openContent") /\ e.kind = "file" /\ content[e.of] # Broken
      /\ worker' = [worker EXCEPT ![w].id = e.of, ![w].todo = <<>>]
      /\ content' = IF worker[w].op \in Truncations THEN [content EXCEPT ![e.of] = Empty] ELSE content
      /\ UNCHANGED <<sidecar, tmp, removed, index, pid, seq, handles, ghosts>>

\* File::create and fs::copy truncate a file that already has this name.
Content(w) ==
  /\ Does(w, "content") /\ Advance(w)
  /\ content' = [content EXCEPT ![Next1(w).entry.of] = Next1(w).val]
  /\ UNCHANGED <<sidecar, tmp, removed, index, pid, seq, handles, ghosts>>

Stage(w) ==
  /\ Does(w, "stage") /\ Advance(w)
  /\ tmp' = [tmp EXCEPT ![Next1(w).path] = Next1(w).entry]
  /\ UNCHANGED <<sidecar, removed, content, index, pid, seq, handles, ghosts>>

\* The rename into place and the directory's fsync.
Publish(w) ==
  LET p == Next1(w).path
  IN  /\ Does(w, "publish") /\ Advance(w) /\ tmp[p] # None
      /\ sidecar' = [sidecar EXCEPT ![p] = tmp[p]] /\ tmp' = [tmp EXCEPT ![p] = None]
      /\ removed' = [q \in Paths |-> None]
      /\ UNCHANGED <<content, index, pid, seq, handles, ghosts>>

Insert(w) ==
  /\ Does(w, "insert") /\ Advance(w)
  /\ index' = [index EXCEPT ![Next1(w).path] = Next1(w).entry]
  /\ UNCHANGED <<diskVars, pid, seq, handles, ghosts>>

IndexRekey(w) ==
  /\ Does(w, "rekey") /\ Advance(w)
  /\ index' = [index EXCEPT ![worker[w].to] = Next1(w).entry, ![Next1(w).path] = None]
  /\ UNCHANGED <<diskVars, pid, seq, handles, ghosts>>

\* A failing removal is ignored: the content file stays behind.
DropContent(w) ==
  LET e == index[Next1(w).path]
  IN  /\ Does(w, "drop") /\ Advance(w)
      /\ content' \in {IF e.kind = "file" THEN [content EXCEPT ![e.of] = Broken] ELSE content}
                         \union (IF Errors THEN {content} ELSE {})
      /\ UNCHANGED <<sidecar, tmp, removed, index, pid, seq, handles, ghosts>>

Unpersist(w) ==
  LET p == Next1(w).path
  IN  /\ Does(w, "unpersist") /\ Advance(w)
      /\ removed' = IF "removal" \in Losses /\ sidecar[p] # None THEN [removed EXCEPT ![p] = sidecar[p]] ELSE removed
      /\ sidecar' = [sidecar EXCEPT ![p] = None]
      /\ UNCHANGED <<tmp, content, index, pid, seq, handles, ghosts>>

\* clear and rename ignore a failing remove_file too: the sidecar stays on disk
\* and the callback goes on to its answer.
UnpersistFails(w) ==
  /\ Errors /\ Does(w, "unpersist") /\ Advance(w)
  /\ mark' = Cut(Touch(worker[w]))
  /\ UNCHANGED <<diskVars, index, pid, seq, handles, view, starts, writes, restarts>>

\* What the answer of callback c makes of the names.
After(c) ==
  CASE c.op = "create"   -> [view EXCEPT ![c.path] = [val |-> Empty, x |-> c.x]]
    [] c.op = "symlink"  -> [view EXCEPT ![c.path] = [val |-> Empty, x |-> FALSE]]
    [] c.op = "unlink"   -> [view EXCEPT ![c.path] = [val |-> Gone, x |-> FALSE]]
    [] c.op = "rename"   -> [view EXCEPT ![c.to] = view[c.path], ![c.path] = [val |-> Gone, x |-> FALSE]]
    [] c.op \in Truncations -> [view EXCEPT ![c.path].val = Empty]
    [] c.op = "chmod"    -> [view EXCEPT ![c.path].x = c.x]
    [] c.op = "open"     -> view

\* Where a handle's file is after callback c.
Follow(h, c) ==
  IF c.op \in {"unlink", "rename"} /\ h.at = c.path THEN [h EXCEPT !.at = c.to]
  ELSE IF c.op = "rename" /\ h.at = c.to THEN [h EXCEPT !.at = NoPath]
  ELSE h

\* The callback is answered; create and the opens return a handle.
Reply(w) ==
  LET c == worker[w]
  IN  /\ c.op # "idle" /\ c.todo = <<>>
      /\ worker' = [worker EXCEPT ![w] = Idle]
      /\ view' = After(c)
      /\ handles' = {Follow(h, c) : h \in handles}
                      \union (IF c.op \in Opening THEN {[id |-> c.id, at |-> c.path]} ELSE {})
      /\ mark' = [p \in Paths |->
           IF p \notin Touch(c) THEN mark[p]
           ELSE IF \E q \in Touch(c) : mark[q] = "raced" THEN "raced"
           ELSE IF \E q \in Touch(c) : mark[q] # "clear" THEN "healed"
           ELSE mark[p]]
      /\ UNCHANGED <<diskVars, index, pid, seq, starts, writes, restarts>>

-----------------------------------------------------------------------------
(* Handles, errors, restarts. *)

\* pwrite through a handle; the kernel holds the file's lock.
Write(h) ==
  /\ writes < MaxWrites /\ writes' = writes + 1
  /\ \A w \in Workers : Locked(worker[w]) => h.at \notin Touch(worker[w])
  /\ content' = IF content[h.id] = Broken THEN content ELSE [content EXCEPT ![h.id] = writes + 1]
  /\ view' = IF h.at = NoPath THEN view ELSE [view EXCEPT ![h.at].val = writes + 1]
  /\ UNCHANGED <<sidecar, tmp, removed, memVars, mark, starts, restarts>>

Release(h) ==
  /\ handles' = handles \ {h}
  /\ UNCHANGED <<diskVars, index, pid, seq, worker, ghosts>>

\* A disk call whose result is looked at fails (or finds its staged file renamed
\* by another worker): the callback is answered with an error, nothing is undone.
Fail(w) ==
  /\ \/ Errors /\ worker[w].op \in CutOps
        /\ (Does(w, "content") \/ Does(w, "stage") \/ Does(w, "publish"))
     \/ Does(w, "publish") /\ tmp[Next1(w).path] = None
  /\ worker' = [worker EXCEPT ![w] = Idle]
  /\ mark' = Cut(Touch(worker[w]))
  /\ UNCHANGED <<diskVars, index, pid, seq, handles, view, starts, writes, restarts>>

ForgetsSidecars(staged) ==                        \* mutant of Replay
  [p \in Paths |-> IF p \in staged THEN tmp[p] ELSE None]

\* Overlay::open reads every file of meta/, in directory order.
Replay(staged) == [p \in Paths |-> IF p \in staged THEN tmp[p] ELSE sidecar'[p]]

Restart ==
  /\ restarts < MaxRestarts /\ restarts' = restarts + 1
  /\ \A w \in Workers : worker[w].op \in CutOps \union {"idle"}
  /\ \E lost \in SUBSET (IF "data" \in Losses THEN Ids ELSE {}) :
       content' = [i \in Ids |-> IF i \in lost THEN Broken ELSE content[i]]
  /\ \E back \in SUBSET (IF "removal" \in Losses THEN {p \in Paths : removed[p] # None} ELSE {}) :
       sidecar' = [p \in Paths |-> IF p \in back THEN removed[p] ELSE sidecar[p]]
  /\ \E staged \in SUBSET {p \in Paths : tmp[p] # None} :
       /\ \A p \in Paths : tmp[p] # None /\ sidecar'[p] = None => p \in staged
       /\ index' = Replay(staged)
  /\ pid' \in IF ReusePids THEN 1..(pid + 1) ELSE {pid + 1}
  /\ seq' = 0 /\ handles' = {}
  /\ worker' = [w \in Workers |-> Idle]
  /\ mark' = Cut(UNION {Touch(worker[w]) : w \in Workers})
  /\ removed' = [p \in Paths |-> None]
  /\ UNCHANGED <<tmp, view, starts, writes>>

-----------------------------------------------------------------------------
Start(w) ==
  \E p \in Paths :
    \/ \E x \in Modes : Create(w, p, x) \/ Modify(w, "chmod", p, x)
    \/ \E op \in Modifications \ {"chmod"} : Modify(w, op, p, FALSE)
    \/ PutSymlink(w, p) \/ Unlink(w, p)
    \/ \E d \in Paths : Rename(w, p, d)

Continue(w) ==
  \/ Look(w) \/ CopyUp(w) \/ ModifyFails(w) \/ OpenContent(w) \/ Content(w) \/ Stage(w) \/ Publish(w) \/ Insert(w)
  \/ IndexRekey(w) \/ DropContent(w) \/ Unpersist(w) \/ UnpersistFails(w) \/ Reply(w) \/ Fail(w)

Next ==
  \/ \E w \in Workers : Start(w) \/ Continue(w)
  \/ \E h \in handles : Write(h) \/ Release(h)
  \/ Restart

Spec == Init /\ [][Next]_vars
-----------------------------------------------------------------------------
(* Properties *)

Bytes   == Baseline \union {Empty} \union 1..MaxWrites
Entries == {None, Tomb, Symlink} \union {BaseRef(b, x) : b \in Baseline, x \in BOOLEAN}
             \union {File(i, x) : i \in Ids, x \in BOOLEAN}
Views   == [val : Bytes \union {Gone}, x : BOOLEAN]

\* Types of the store, the callbacks in flight and the ghosts.
TypeOK ==
  /\ {sidecar, tmp, removed, index} \subseteq [Paths -> Entries]
  /\ content \in [Ids -> Bytes \union {Broken}]
  /\ pid \in Pids /\ seq \in 0..MaxSeq
  /\ \A w \in Workers :
       /\ worker[w].op \in Ops \union {"idle"} /\ Touch(worker[w]) \subseteq Paths
       /\ worker[w].id \in Ids \union {NoId}
       /\ \A k \in DOMAIN worker[w].todo : worker[w].todo[k].entry \in Entries
  /\ handles \subseteq [id : Ids, at : Paths \union {NoPath}]
  /\ view \in [Paths -> Views] /\ mark \in [Paths -> {"clear", "cut", "healed", "raced"}]
  /\ starts \in 0..MaxStarts /\ writes \in 0..MaxWrites /\ restarts \in 0..MaxRestarts

Quiet(p)   == \A w \in Workers : p \notin Touch(worker[w])
Settled(p) == Quiet(p) /\ mark[p] = "clear"
AllQuiet   == \A w \in Workers : worker[w] = Idle

\* A path whose callbacks all ran to their answer alone and without a failing
\* disk call, an ignored one included, shows what they made of it, whatever
\* happened to other paths and however often the process died in between.
SettledReadsBack == \A p \in Paths : Settled(p) => Seen(p) = view[p]

\* And so it will after the next restart: the sidecars say what index says. Not
\* so where a removal failed unnoticed: AnsweredSurvives.
SettledIsDurable == \A p \in Paths : Settled(p) => sidecar[p] = index[p] /\ tmp[p] = None

\* A handle opened on such a path writes the content the path names, also
\* after renames (FS-FH-3, FS-INO-2).
HandlesReachTheirFile ==
  \A h \in handles : h.at # NoPath /\ Settled(h.at) =>
    index[h.at].kind = "file" /\ index[h.at].of = h.id

\* No path but its owner names the content of such a path, neither in memory
\* nor in a sidecar: deleting another path cannot take the bytes away. A rename
\* that leaves its source's sidecar behind unsettles both its names.
ContentHasOneOwner ==
  \A p, q \in Paths : p # q /\ Settled(p) /\ index[p].kind = "file" =>
    \A e \in {index[q], sidecar[q], tmp[q]} : e.kind = "file" => e.of # index[p].of

\* A restart in the middle of a create, symlink, chmod, truncate or copy-up shows
\* the path as before the callback or as after it.
InterruptedIsOldOrNew ==
  [][restarts' # restarts =>
       \A w \in Workers : worker[w].op \in {"create", "symlink"} \union Modifications =>
         \A p \in Touch(worker[w]) :
           mark[p] = "clear" => Seen(p)' \in {view[p], After(worker[w])[p]}]_vars

\* "a crash leaves at most an unreferenced orphan, never a dangling reference"
\* (docs/durability-security.md:99-100).
NeverDangling ==
  AllQuiet => \A p \in Paths : index[p].kind = "file" => content[index[p].of] # Broken

\* "dirty state survives unmount/remount and daemon restart" (overlay.rs:8-9),
\* also on a path where an earlier callback was interrupted, and where an answered
\* one could not remove its sidecar.
AnsweredSurvives ==
  \A p \in Paths : Quiet(p) /\ mark[p] \in {"clear", "healed"} => Seen(p) = view[p]

\* "Copies the baseline up once" (lib.rs:1127-1128): every open write handle of
\* a path writes the content the path names.
CopiedUpOnce ==
  AllQuiet => \A h \in handles : h.at # NoPath =>
    index[h.at].kind = "file" /\ index[h.at].of = h.id

\* "`unlink` removes the name" (docs/fuse-semantics.md:32).
UnlinkedStaysGone ==
  \A p \in Paths : Quiet(p) /\ view[p].val = Gone => ~Exists(p)
=============================================================================

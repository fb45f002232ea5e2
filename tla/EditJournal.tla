----------------------------- MODULE EditJournal -----------------------------
(* What git and sgrep observe of the mount: the content of its files and the  *)
(* order in which edits reach it and the change journal. Every mutating       *)
(* callback of crates/worktree/src/lib.rs records its paths first and applies *)
(* its effect afterwards, as separate steps of a pool worker; a write through *)
(* an open handle (fuse/src/mount.rs) records nothing. The journal keeps what *)
(* ChangeJournal promises: numbered records, a window of the latest of them.  *)
(* The files lie in the mount's root, whose records name no parent directory. *)
EXTENDS Integers, FiniteSets

CONSTANTS
  Paths,       \* files at the root of the mount
  NoPath,      \* no path: the second path of all but a rename
  Contents,    \* what a file may hold
  Absent,      \* content of a path that names no file
  Workers,     \* threads of the object-IO pool
  Ops,         \* the kinds of mutation the kernel sends
  KEEP_MAX,    \* records the window may hold before a prune
  KEEP_MIN,    \* records a prune keeps
  MaxRecords   \* bound: records appended

OpKinds == {"modify", "open", "rename"}

ASSUME EditAssumption   == Absent \notin Contents /\ NoPath \notin Paths /\ Ops \subseteq OpKinds
ASSUME WindowAssumption == KEEP_MAX \in Nat /\ KEEP_MIN \in Nat /\ KEEP_MIN <= KEEP_MAX
ASSUME RecordBound      == MaxRecords \in Nat

VARIABLES
  content,  \* what the mount serves at a path
  open,     \* paths whose file is open for writing
  last,     \* the number of a path's latest record, 0 before any
  seq,      \* records appended: the seq of a fresh token
  pruned,   \* records the window no longer holds (State.base)
  call      \* the mutation each worker is inside

editVars == <<content, open, last, seq, pruned, call>>

\* A callback and its arguments; left is the path it has yet to record.
Callback(op, p, q, c) ==
  [op |-> op, path |-> p, to |-> q, value |-> c, left |-> {q} \ {NoPath}]

Idle == Callback("idle", NoPath, NoPath, Absent)

\* The paths recorded after token number t that the window still tells apart.
RecordedSince(t) == {p \in Paths : last[p] > t}

InitEdits ==
  /\ content \in [Paths -> Contents]
  /\ open = {} /\ last = [p \in Paths |-> 0] /\ seq = 0 /\ pruned = 0
  /\ call = [w \in Workers |-> Idle]

-----------------------------------------------------------------------------
\* ChangeJournal::record as one step: append, then prune past KEEP_MAX.
Pruned == IF seq + 1 - pruned > KEEP_MAX THEN seq + 1 - KEEP_MIN ELSE pruned

Record(p) ==
  /\ seq < MaxRecords
  /\ seq' = seq + 1
  /\ last' = [last EXCEPT ![p] = seq + 1]
  /\ pruned' = Pruned

\* A callback arrives and records its first path. "modify" stands for create,
\* truncate, unlink, symlink and open with O_TRUNC; "rename" has a second path.
Begin(w) ==
  /\ call[w].op = "idle"
  /\ \E op \in Ops, p \in Paths :
       /\ \/ /\ op = "modify"
             /\ \E c \in (Contents \union {Absent}) \ {content[p]} :
                  call' = [call EXCEPT ![w] = Callback(op, p, NoPath, c)]
          \/ /\ op = "open" /\ content[p] # Absent
             /\ call' = [call EXCEPT ![w] = Callback(op, p, NoPath, Absent)]
          \/ /\ op = "rename" /\ content[p] # Absent
             /\ \E q \in Paths \ {p} :
                  call' = [call EXCEPT ![w] = Callback(op, p, q, Absent)]
       /\ Record(p)
  /\ UNCHANGED <<content, open>>

\* rename records its destination.
RecordTo(w) ==
  /\ call[w].left # {}
  /\ Record(call[w].to)
  /\ call' = [call EXCEPT ![w].left = {}]
  /\ UNCHANGED <<content, open>>

ApplyEarly(w) ==                                  \* mutant of Apply
  LET c == call[w] IN
  /\ c.op = "rename"
  /\ content[c.path] # Absent /\ c.left # {}
  /\ content' = [content EXCEPT ![c.to] = content[c.path], ![c.path] = Absent]
  /\ open' = open \ {c.path, c.to}
  /\ call' = [call EXCEPT ![w] = Idle]
  /\ UNCHANGED <<last, seq, pruned>>

\* The effect, and the reply; create and open with O_TRUNC return a handle. A
\* path removed or replaced takes its open file along; a renamed one keeps it.
Apply(w) ==
  LET c == call[w] IN
  /\ c.op # "idle" /\ c.left = {}
  /\ \/ /\ c.op = "modify"
        /\ content' = [content EXCEPT ![c.path] = c.value]
        /\ open' \in IF c.value = Absent THEN {open \ {c.path}} ELSE {open, open \union {c.path}}
     \/ /\ c.op = "open" /\ content[c.path] # Absent
        /\ open' = open \union {c.path}
        /\ UNCHANGED content
     \/ /\ c.op = "rename" /\ content[c.path] # Absent
        /\ content' = [content EXCEPT ![c.to] = content[c.path], ![c.path] = Absent]
        /\ open' = (open \ {c.path, c.to}) \union (IF c.path \in open THEN {c.to} ELSE {})
  /\ call' = [call EXCEPT ![w] = Idle]
  /\ UNCHANGED <<last, seq, pruned>>

\* The second record or the mutation fails: an error reply, the records stay.
Fail(w) ==
  /\ call[w].op # "idle"
  /\ call' = [call EXCEPT ![w] = Idle]
  /\ UNCHANGED <<content, open, last, seq, pruned>>

\* write(): straight to the overlay file of the handle.
Write(p) ==
  /\ p \in open
  /\ \E c \in Contents \ {content[p]} : content' = [content EXCEPT ![p] = c]
  /\ UNCHANGED <<open, last, seq, pruned, call>>

Release(p) ==
  /\ p \in open
  /\ open' = open \ {p}
  /\ UNCHANGED <<content, last, seq, pruned, call>>

Edit ==
  \/ \E w \in Workers : Begin(w) \/ RecordTo(w) \/ Apply(w) \/ Fail(w)
  \/ \E p \in Paths : Write(p) \/ Release(p)
-----------------------------------------------------------------------------
\* Types of the mount's content, the journal and the callbacks in flight; a
\* prune leaves the latest KEEP_MIN records.
EditType ==
  /\ content \in [Paths -> Contents \union {Absent}]
  /\ open \subseteq Paths
  /\ last \in [Paths -> Nat] /\ seq \in Nat /\ pruned \in Nat
  /\ pruned # 0 => pruned + KEEP_MIN <= seq
  /\ call \in [Workers -> [op : OpKinds \union {"idle"}, path : Paths \union {NoPath},
                           to : Paths \union {NoPath}, value : Contents \union {Absent},
                           left : SUBSET Paths]]
=============================================================================

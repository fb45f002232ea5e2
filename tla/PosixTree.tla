------------------------------ MODULE PosixTree ------------------------------
(* What the mount promises its users: a tree of names in which a callback has *)
(* the POSIX effect, or is refused for a POSIX reason and changes nothing.    *)
(* WorkingTree implements it; see ImplementsPosix there.                      *)
EXTENDS SequencesExt

CONSTANTS
  Paths,      \* the paths that may hold something, as sequences of names
  Contents,   \* what a write may leave in a file
  GITFILE,    \* the protected .git entry
  Start       \* the tree of the baseline commit

VARIABLES
  tree,       \* what each path holds
  last        \* the last callback and whether it was answered without an error

Absent  == [kind |-> "none", val |-> <<>>]
ADir    == [kind |-> "dir", val |-> <<>>]
AFile(c) == [kind |-> "file", val |-> c]
ALink(c) == [kind |-> "symlink", val |-> c]

Held(p)      == tree[p] # Absent
IsDir(p)     == IF p = <<>> THEN TRUE ELSE tree[p].kind = "dir"
EmptyDir(p)  == \A q \in Paths : IsStrictPrefix(p, q) => ~Held(q)

Answer(op, p) == \E ok \in BOOLEAN : last' = [op |-> op, path |-> p, ok |-> ok]
Done(t) == last'.ok /\ tree' = t
Refused == ~last'.ok /\ UNCHANGED tree

\* create, mkdir and symlink of a name that is free.
Make(op, p, node) ==
  /\ Answer(op, p)
  /\ ~Held(p) /\ IsDir(Front(p))
  /\ Done([tree EXCEPT ![p] = node])

Unlink(p) ==
  /\ Answer("unlink", p)
  /\ Held(p) /\ ~IsDir(p)
  /\ IF p = GITFILE THEN Refused ELSE Done([tree EXCEPT ![p] = Absent])

Rmdir(p) ==
  /\ Answer("rmdir", p)
  /\ tree[p] = ADir
  /\ IF EmptyDir(p) THEN Done([tree EXCEPT ![p] = Absent]) ELSE Refused

\* Everything at or below s moves to d, over a file or an empty directory there.
Moved(s, d) ==
  [q \in Paths |->
    LET from == s \o SubSeq(q, Len(d) + 1, Len(q))
    IN  IF IsPrefix(d, q) THEN IF from \in Paths THEN tree[from] ELSE Absent
        ELSE IF IsPrefix(s, q) THEN Absent
        ELSE tree[q]]

Rename(s, d, noreplace) ==
  /\ Answer("rename", d)
  /\ Held(s) /\ IsDir(Front(d)) /\ ~IsPrefix(s, d) /\ ~IsPrefix(d, s)
  /\ Held(d) => (IsDir(s) <=> IsDir(d))
  /\ IF GITFILE \in {s, d} \/ (noreplace /\ Held(d)) \/ (IsDir(s) /\ ~EmptyDir(d))
       THEN Refused ELSE Done(Moved(s, d))

Write(p, c) ==
  /\ Answer("write", p)
  /\ tree[p].kind \in {"file", "gitfile"}
  /\ IF p = GITFILE THEN Refused ELSE Done([tree EXCEPT ![p].val = c])

Init == tree = Start /\ last = [op |-> "mount", path |-> <<>>, ok |-> TRUE]

Next ==
  \E p \in Paths :
    \/ Make("create", p, AFile(<<>>)) \/ Make("mkdir", p, ADir)
    \/ \E c \in Contents : Make("symlink", p, ALink(c)) \/ Write(p, c)
    \/ Unlink(p) \/ Rmdir(p)
    \/ \E d \in Paths, noreplace \in BOOLEAN : Rename(p, d, noreplace)

Spec == Init /\ [][Next]_<<tree, last>>
=============================================================================

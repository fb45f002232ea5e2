----------------------------- MODULE WorkingTree -----------------------------
(* The namespace of crates/worktree/src/lib.rs: overlay entries, tombstones    *)
(* included, laid over the trees of the baseline commit. A callback is one     *)
(* step here: its disk calls are OverlayStore's subject. File modes are left   *)
(* out.                                                                        *)
(* PosixTree is the tree a user is promised; the kernel's own path walk and    *)
(* checks (no lookup below a file, no rename into oneself) are conditions of   *)
(* the actions.                                                                *)
EXTENDS SequencesExt

CONSTANTS
  Paths,           \* the paths that may hold something, as sequences of names
  Contents,        \* what a write may leave in a file
  GITFILE,         \* the synthetic .git
  BaselineDirs,    \* the directories of the baseline commit,
  BaselineFiles,   \* its regular files
  BaselineLinks,   \* and its symlinks
  Leftovers        \* whether directories are put over what older ones left behind

Names    == UNION {Range(p) : p \in Paths}
Blobs    == BaselineFiles \union BaselineLinks
Baseline == BaselineDirs \union Blobs

\* The paths above p, the root left out.
Above(p) == {SubSeq(p, 1, k) : k \in 1..(Len(p) - 1)}

ASSUME TreeAssumption ==
  /\ Paths \subseteq Seq(Names) \ {<<>>} /\ \A p \in Paths : Above(p) \subseteq Paths
  /\ GITFILE \in Paths /\ Len(GITFILE) = 1
  /\ Baseline \subseteq Paths \ {GITFILE} /\ \A p \in Baseline : Above(p) \subseteq BaselineDirs
  /\ BaselineDirs \intersect Blobs = {}
  /\ Leftovers \in BOOLEAN

VARIABLES
  overlay,    \* Index.entries
  recorded,   \* the paths the last callback recorded in the journal
  last        \* ghost: the last callback and whether it was answered without an error

vars == <<overlay, recorded, last>>

Entry(k, v) == [kind |-> k, val |-> v]
NoEntry    == Entry("none", <<>>)
Tombstone  == Entry("tombstone", <<>>)
DirEntry   == Entry("dir", <<>>)
File(c)    == Entry("file", c)
Symlink(c) == Entry("symlink", c)
BaseRef(b) == Entry("baseref", b)   \* a blob is named by its baseline path

Absent  == Entry("none", <<>>)
Gitfile == Entry("gitfile", <<>>)

-----------------------------------------------------------------------------
(* Reading. *)

\* Projection::baseline_resolve: the baseline trees alone.
BaselineResolve(p) ==
  IF p \in BaselineDirs THEN DirEntry
  ELSE IF p \in BaselineFiles THEN File(p)
  ELSE IF p \in BaselineLinks THEN Symlink(p)
  ELSE Absent

AncestorTombstoned(p) ==
  \E a \in Paths : IsStrictPrefix(a, p) /\ overlay[a] = Tombstone

\* Projection::resolve
Resolve(p) ==
  CASE p = GITFILE                   -> Gitfile
    [] overlay[p] = Tombstone        -> Absent
    [] overlay[p].kind = "baseref"   -> BaselineResolve(overlay[p].val)
    [] overlay[p].kind \in {"file", "symlink", "dir"} -> overlay[p]
    [] OTHER                         -> IF AncestorTombstoned(p) THEN Absent ELSE BaselineResolve(p)

\* The kernel walks to a path through directories the daemon resolved.
Walked(p) == \A a \in Paths : IsStrictPrefix(a, p) => Resolve(a).kind = "dir"
Tree(p)   == IF Walked(p) THEN Resolve(p) ELSE Absent
Held(p)   == Tree(p) # Absent
IsDir(p)  == IF p = <<>> THEN TRUE ELSE Tree(p).kind = "dir"

Children(d) == {p \in Paths : Front(p) = d}
BaselineChildren(d) ==
  IF d = <<>> \/ d \in BaselineDirs THEN {p \in Children(d) : BaselineResolve(p) # Absent} ELSE {}

ListsTombstoned(d) ==                             \* mutant of Readdir
  BaselineChildren(d) \union {p \in Children(d) : overlay[p] \notin {NoEntry, Tombstone}}
    \union ({GITFILE} \intersect Children(d))

\* Projection::readdir
Readdir(d) ==
  {p \in BaselineChildren(d) : overlay[p] = NoEntry}
    \union {p \in Children(d) : overlay[p] \notin {NoEntry, Tombstone}}
    \union ({GITFILE} \intersect Children(d))

\* Projection::dir_is_empty
DirIsEmpty(d) ==
  /\ \A p \in BaselineChildren(d) : overlay[p] = Tombstone
  /\ \A p \in Children(d) : overlay[p] \in {NoEntry, Tombstone}

-----------------------------------------------------------------------------
(* Writing. *)

\* record_change: the path and its parent, unless that is the root.
Record(p) == {p} \union ({Front(p)} \ {<<>>})

Done(op, p)    == last' = [op |-> op, path |-> p, ok |-> TRUE]
Refused(op, p) ==
  /\ last' = [op |-> op, path |-> p, ok |-> FALSE] /\ recorded' = {}
  /\ UNCHANGED overlay

\* Nothing older remains at or below a directory about to be put at p.
Bare(p) ==
  /\ p \notin Blobs
  /\ \A q \in Paths : IsStrictPrefix(p, q) =>
       overlay[q] = Tombstone \/ (overlay[q] = NoEntry /\ BaselineResolve(q) = Absent)

PutEntry(op, p, e) ==
  /\ ~Held(p) /\ IsDir(Front(p))
  /\ recorded' = Record(p)
  /\ overlay' = [overlay EXCEPT ![p] = e]
  /\ Done(op, p)

Create(p) == PutEntry("create", p, File(<<>>))
PutSymlink(p, c) == PutEntry("symlink", p, Symlink(c))
Mkdir(p) == (Leftovers \/ Bare(p)) /\ PutEntry("mkdir", p, DirEntry)

\* Overlay::tombstone when the baseline has the name, else Overlay::clear.
TombstoneOrClear(p, onBaseline) ==
  overlay' = [overlay EXCEPT ![p] = IF onBaseline THEN Tombstone ELSE NoEntry]

\* The kernel sends unlink for what is not a directory; child_path protects .git.
Unlink(p) ==
  /\ Held(p) /\ ~IsDir(p)
  /\ IF p = GITFILE THEN Refused("unlink", p)
     ELSE /\ recorded' = Record(p)
          /\ TombstoneOrClear(p, BaselineResolve(p) # Absent)
          /\ Done("unlink", p)

\* on_baseline is asked of baseline_tree_at: only a directory counts.
Rmdir(p) ==
  /\ Held(p) /\ IsDir(p)
  /\ IF ~DirIsEmpty(p) THEN Refused("rmdir", p)
     ELSE /\ recorded' = Record(p)
          /\ TombstoneOrClear(p, p \in BaselineDirs)
          /\ Done("rmdir", p)

\* Where a path below d came from when s moved to d.
Origin(q, s, d) == s \o SubSeq(q, Len(d) + 1, Len(q))

ForgetsSource(s, d) ==                            \* mutant of RenameFile
  [overlay EXCEPT ![d] = IF overlay[s] # NoEntry THEN overlay[s] ELSE BaseRef(s),
                  ![s] = IF overlay[s] # NoEntry THEN NoEntry ELSE Tombstone]

\* Overlay::rename re-keys an entry, put_base_ref points at a baseline blob.
RenameFile(s, d) ==
  [overlay EXCEPT ![d] = IF overlay[s] # NoEntry THEN overlay[s] ELSE BaseRef(s),
                  ![s] = IF overlay[s] # NoEntry /\ BaselineResolve(s) = Absent THEN NoEntry
                                                                               ELSE Tombstone]

\* What rename_dir puts in place of an effective descendant c of the source.
Moved(c) ==
  IF Tree(c).kind = "dir" THEN DirEntry
  ELSE IF overlay[c].kind \in {"file", "symlink"} THEN overlay[c]
  ELSE BaseRef(Tree(c).val)

\* rename_dir: directories are tombstoned behind it, entries with content are
\* re-keyed, and what is baseline content stays where it is.
RenameDir(s, d) ==
  [q \in Paths |->
    IF IsPrefix(d, q) /\ Origin(q, s, d) \in Paths /\ Held(Origin(q, s, d)) THEN Moved(Origin(q, s, d))
    ELSE IF IsPrefix(s, q) /\ Held(q) /\ IsDir(q) THEN Tombstone
    ELSE IF IsPrefix(s, q) /\ Held(q) /\ overlay[q].kind \in {"file", "symlink"} THEN NoEntry
    ELSE overlay[q]]

RecordsDestination(s, d) == Record(d)             \* mutant of RenameRecords
RenameRecords(s, d) == Record(s) \union Record(d)

\* Nor at or below any of the directories that move from s to d.
BareFor(s, d) ==
  /\ Bare(d)
  /\ \A q \in Paths : (IsPrefix(s, q) /\ IsDir(q)) => Origin(q, d, s) \notin Blobs

\* Some descendant of s would have no place below d in Paths.
Overflows(s, d) ==
  \E q \in Paths : IsPrefix(s, q) /\ Held(q) /\ Origin(q, d, s) \notin Paths

\* The kernel refuses renames into or onto oneself and directories over files.
Rename(s, d, noreplace) ==
  /\ Held(s) /\ IsDir(Front(d)) /\ ~IsPrefix(s, d) /\ ~IsPrefix(d, s)
  /\ Held(d) => (IsDir(s) <=> IsDir(d))
  /\ IF GITFILE \in {s, d} \/ (noreplace /\ Held(d)) THEN Refused("rename", d)
     ELSE /\ ~Overflows(s, d)
          /\ recorded' = RenameRecords(s, d)
          /\ Done("rename", d)
          /\ IF IsDir(s) THEN (Leftovers \/ BareFor(s, d)) /\ overlay' = RenameDir(s, d)
                         ELSE overlay' = RenameFile(s, d)

\* open_write (which records, and refuses what is not a file) and the writes
\* that follow it; truncate leaves the empty content.
Write(p, c) ==
  /\ Tree(p).kind \in {"file", "gitfile"}
  /\ recorded' = {p}
  /\ last' = [op |-> "write", path |-> p, ok |-> p # GITFILE]
  /\ overlay' = IF p = GITFILE THEN overlay ELSE [overlay EXCEPT ![p] = File(c)]

-----------------------------------------------------------------------------
Init ==
  /\ overlay = [p \in Paths |-> NoEntry]
  /\ recorded = {} /\ last = [op |-> "mount", path |-> <<>>, ok |-> TRUE]

Next ==
  \E p \in Paths :
    \/ Create(p) \/ Mkdir(p) \/ Unlink(p) \/ Rmdir(p)
    \/ \E c \in Contents : PutSymlink(p, c) \/ Write(p, c)
    \/ \E d \in Paths, noreplace \in BOOLEAN : Rename(p, d, noreplace)

Spec == Init /\ [][Next]_vars
-----------------------------------------------------------------------------
(* Properties *)

Entries  == {NoEntry, Tombstone, DirEntry, File(<<>>)} \union {File(c) : c \in Contents \union Blobs}
              \union {Symlink(c) : c \in Contents} \union {BaseRef(b) : b \in Blobs}

\* Types; entries hold written contents, base-refs name baseline blobs.
TypeOK ==
  /\ overlay \in [Paths -> Entries] /\ overlay[GITFILE] = NoEntry
  /\ recorded \subseteq Paths
  /\ last \in [op : STRING, path : Paths \union {<<>>}, ok : BOOLEAN]

\* Every callback has its POSIX effect on the tree, or is refused for a POSIX
\* reason: the overlay, its tombstones and base-refs never show through.
Posix == INSTANCE PosixTree WITH tree <- [p \in Paths |-> Tree(p)],
                                 Start <- [p \in Paths |-> IF p = GITFILE THEN Gitfile ELSE BaselineResolve(p)]
ImplementsPosix == Posix!Spec

\* readdir and lookup, which layer overlay and baseline each in its own way,
\* agree on what every directory holds.
ListingAgrees ==
  \A d \in Paths \union {<<>>} : IsDir(d) => Readdir(d) = {p \in Children(d) : Resolve(p) # Absent}

Covered(p) == \E r \in recorded' : IsPrefix(r, p)

\* Whatever changes for git, a node or a directory's listing, the callback
\* recorded the path itself or a directory above it (git drops what it knows
\* of everything below a recorded directory, lib.rs:323-325).
ChangesAreRecorded ==
  [][\A p \in Paths :
       /\ Tree(p)' # Tree(p) => Covered(p)
       /\ (IsDir(p) /\ IsDir(p)' /\ Readdir(p)' # Readdir(p)) => Covered(p)]_vars

\* "the source subtree is then tombstoned so the baseline beneath it is hidden"
\* (lib.rs:1361-1364): a directory just made holds nothing.
NewDirIsEmpty ==
  last.op = "mkdir" => \A p \in Paths : IsStrictPrefix(last.path, p) => ~Held(p)
=============================================================================

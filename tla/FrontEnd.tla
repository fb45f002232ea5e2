------------------------------- MODULE FrontEnd -------------------------------
(* The FUSE front end (crates/fuse/src/mount.rs): one dispatch loop that reads  *)
(* the kernel's requests in turn, a pool for callbacks that may wait for git    *)
(* and the network, a smaller one for directory listings, and the answers the   *)
(* loop gives itself. The threads of both pools read trees through one session  *)
(* under a mutex (git-store/src/store.rs), and callbacks that need the same     *)
(* object wait for one another's fetch (worktree/src/lib.rs). A child git       *)
(* inherits the process's files; if one of them lies on the mount, closing it   *)
(* sends a flush to the same loop (git-store/src/proc.rs). The kernel and git   *)
(* are external.                                                                *)
EXTENDS Naturals, Sequences, FiniteSets, Functions

CONSTANTS
  Walkers,      \* processes that list the directory: opendir, readdir..., releasedir
  Users,        \* processes that send one callback to the object-IO pool
  PoolThreads, MetaThreads,
  Names,        \* entries of the directory, numbers in listing order
  Baseline,     \* those the baseline tree holds
  Objects,      \* blobs callbacks need
  PAGE,         \* entries one readdir reply holds
  Nobody        \* no caller, no thread, nothing wanted

ASSUME FrontAssumption ==
  /\ Names \subseteq Nat /\ IsFiniteSet(Names) /\ Baseline \subseteq Names /\ PAGE \in Nat \ {0}
  /\ Users \intersect Walkers = {} /\ Names \intersect Objects = {}
  /\ Nobody \notin Users \union Walkers \union Names \union Objects

VARIABLES
  entry,    \* the overlay's entry for each name: none, here or a tombstone
  req,      \* each caller's request: its kind, and how far it is
  dir,      \* each walker's directory handle
  poolQ, metaQ,   \* the callers whose requests are queued in the two pools
  thread,      \* what each pool thread does: for whom, how far, its git, what it wants
  session,  \* the thread that holds the mutex around the tree session
  flight,   \* the thread that fetches each object
  cached,   \* objects in the cache
  steady,   \* ghost: the names shown ever since a walker's opendir
  raced     \* ghost: the names that got an overlay entry during a walker's opendir

vars == <<entry, req, dir, poolQ, metaQ, thread, session, flight, cached, steady, raced>>
fetching == <<session, flight, cached>>
ghosts == <<steady, raced>>

Callers == Walkers \union Users
Threads == PoolThreads \union MetaThreads

NoReq == [kind |-> "none", at |-> "user"]
\* ahead: baseline names not looked at yet; listing: what opendir found.
NoDir == [open |-> FALSE, ahead |-> {}, listing |-> <<>>, off |-> 0, given |-> <<>>, end |-> FALSE]
Free  == [of |-> Nobody, at |-> "idle", git |-> "none", wants |-> Nobody]

Init ==
  /\ entry \in [Names -> {"none", "here", "tombstone"}]
  /\ req = [c \in Callers |-> NoReq] /\ dir = [c \in Walkers |-> NoDir]
  /\ poolQ = <<>> /\ metaQ = <<>> /\ thread = [t \in Threads |-> Free]
  /\ session = Nobody /\ flight = [o \in Objects |-> Nobody] /\ cached = {}
  /\ steady = [w \in Walkers |-> {}] /\ raced = [w \in Walkers |-> {}]

\* The entries s in listing order.
Listing(s) == CHOOSE l \in [1..Cardinality(s) -> s] : \A i, j \in DOMAIN l : i < j => l[i] < l[j]

\* The overlay decides where it has an entry, the baseline elsewhere.
Here(e)    == {n \in Names : e[n] = "here"}
Shown(e)   == Here(e) \union {n \in Baseline : e[n] = "none"}

At(c, kind, at) == req[c] = [kind |-> kind, at |-> at]
Answer(c)  == req' = [req EXCEPT ![c] = [NoReq EXCEPT !.at = "answered"]]
Waiting(c) == req[c].at \in {"kernel", "pool"}
-----------------------------------------------------------------------------
(* The callers. *)

Send(c, kind) == req' = [req EXCEPT ![c] = [kind |-> kind, at |-> "kernel"]]

\* lookup, getattr, open, create, unlink, ...
Call(u) ==
  /\ req[u] = NoReq /\ Send(u, "io")
  /\ UNCHANGED <<entry, dir, poolQ, metaQ, thread, fetching, ghosts>>

Opendir(w) ==
  /\ req[w] = NoReq /\ Send(w, "opendir")
  /\ steady' = [steady EXCEPT ![w] = Shown(entry)]
  /\ UNCHANGED <<entry, dir, poolQ, metaQ, thread, fetching, raced>>

Page(w) ==
  /\ dir[w].open /\ ~Waiting(w) /\ Send(w, IF dir[w].end THEN "releasedir" ELSE "readdir")
  /\ UNCHANGED <<entry, dir, poolQ, metaQ, thread, fetching, ghosts>>
-----------------------------------------------------------------------------
(* The dispatch loop: every method returns at once. *)

DispatchIo(c) ==
  /\ At(c, "io", "kernel")
  /\ req' = [req EXCEPT ![c].at = "pool"] /\ poolQ' = Append(poolQ, c)
  /\ UNCHANGED <<entry, dir, metaQ, thread, fetching, ghosts>>

OpendirOnPool(c) ==                               \* mutant of DispatchOpendir: one pool for all
  /\ At(c, "opendir", "kernel")
  /\ req' = [req EXCEPT ![c].at = "pool"] /\ poolQ' = Append(poolQ, c)
  /\ UNCHANGED <<entry, dir, metaQ, thread, fetching, ghosts>>

DispatchOpendir(c) ==
  /\ At(c, "opendir", "kernel")
  /\ req' = [req EXCEPT ![c].at = "pool"] /\ metaQ' = Append(metaQ, c)
  /\ UNCHANGED <<entry, dir, poolQ, thread, fetching, ghosts>>

\* readdir: the next page of the snapshot; the kernel comes back with the offset
\* of the last entry it took, an empty page ends the listing.
Give(w, listing) ==
  LET off  == dir[w].off
      last == IF off + PAGE > Len(listing) THEN Len(listing) ELSE off + PAGE
  IN  dir' = [dir EXCEPT ![w].off = last,
                         ![w].given = @ \o SubSeq(listing, off + 1, last),
                         ![w].end = off >= Len(listing)]

ReaddirAnew(w) ==                                 \* mutant of DispatchReaddir: no snapshot
  /\ At(w, "readdir", "kernel")
  /\ Give(w, Listing(Shown(entry))) /\ Answer(w)
  /\ UNCHANGED <<entry, poolQ, metaQ, thread, fetching, ghosts>>

DispatchReaddir(w) ==
  /\ At(w, "readdir", "kernel")
  /\ Give(w, dir[w].listing) /\ Answer(w)
  /\ UNCHANGED <<entry, poolQ, metaQ, thread, fetching, ghosts>>

DispatchReleasedir(w) ==
  /\ At(w, "releasedir", "kernel")
  /\ dir' = [dir EXCEPT ![w] = NoDir] /\ Answer(w)
  /\ steady' = [steady EXCEPT ![w] = {}] /\ raced' = [raced EXCEPT ![w] = {}]
  /\ UNCHANGED <<entry, poolQ, metaQ, thread, fetching>>

\* flush, sent when a git child closes its copy of a file on the mount.
FlushOnPool(t) ==                                 \* mutant of DispatchFlush
  /\ thread[t].git = "flushing"
  /\ \E s \in PoolThreads : thread[s].at = "idle"
  /\ thread' = [thread EXCEPT ![t].git = "running"]
  /\ UNCHANGED <<entry, req, dir, poolQ, metaQ, fetching, ghosts>>

DispatchFlush(t) ==
  /\ thread[t].git = "flushing"
  /\ thread' = [thread EXCEPT ![t].git = "running"]
  /\ UNCHANGED <<entry, req, dir, poolQ, metaQ, fetching, ghosts>>
-----------------------------------------------------------------------------
(* The pools. Every request resolves a path, or lists a directory: its trees    *)
(* are in the tree cache, or the session is asked.                              *)

Take(t, c) ==
  \E at \in {"mutex", "resolved"} :
    thread' = [thread EXCEPT ![t] = [Free EXCEPT !.of = c, !.at = at]]

\* The walker's thread goes over the whole baseline.
StartWalk(c) ==
  dir' = IF c \in Walkers THEN [dir EXCEPT ![c] = [NoDir EXCEPT !.ahead = Baseline]] ELSE dir

TakeIo(t) ==
  /\ thread[t].at = "idle" /\ poolQ # <<>>
  /\ Take(t, Head(poolQ)) /\ poolQ' = Tail(poolQ) /\ StartWalk(Head(poolQ))
  /\ UNCHANGED <<entry, req, metaQ, fetching, ghosts>>

TakeOpendir(t) ==
  /\ thread[t].at = "idle" /\ metaQ # <<>>
  /\ Take(t, Head(metaQ)) /\ metaQ' = Tail(metaQ) /\ StartWalk(Head(metaQ))
  /\ UNCHANGED <<entry, req, poolQ, fetching, ghosts>>

\* A git is spawned, and first closes what it inherited, or is there already.
Spawned == {"flushing", "running"}

Goes(t, at) == thread' = [thread EXCEPT ![t].at = at, ![t].git = "none"]

\* The answer: an error, or a result that changes nothing.
Done(t) == thread' = [thread EXCEPT ![t] = Free] /\ Answer(thread[t].of)

LockSession(t) ==
  /\ thread[t].at = "mutex" /\ session = Nobody
  /\ session' = t
  /\ \E g \in Spawned : thread' = [thread EXCEPT ![t].at = "session", ![t].git = g]
  /\ UNCHANGED <<entry, req, dir, poolQ, metaQ, flight, cached, ghosts>>

\* The trees were read: a rename's second half goes on where it was.
Resolved(t) == Goes(t, IF thread[t].wants \in Names THEN "rename" ELSE "resolved")

\* The session answers, with a tree, what is no tree, or not at all: then a
\* process of the thread's own is asked, without the mutex.
SessionEnds(t) ==
  /\ thread[t].at = "session" /\ thread[t].git = "running"
  /\ session' = Nobody
  /\ \/ Resolved(t) /\ UNCHANGED req
     \/ /\ \E g \in Spawned : thread' = [thread EXCEPT ![t].at = "oneshot", ![t].git = g]
        /\ UNCHANGED req
     \/ Done(t)
  /\ UNCHANGED <<entry, dir, poolQ, metaQ, flight, cached, ghosts>>

OneShotEnds(t) ==
  /\ thread[t].at = "oneshot" /\ thread[t].git = "running"
  /\ \/ Resolved(t) /\ UNCHANGED req
     \/ Done(t)
  /\ UNCHANGED <<entry, dir, poolQ, metaQ, fetching, ghosts>>

\* Any git may wait for the network, or for whatever else, for ever.
Hang(t) ==
  /\ thread[t].git = "running"
  /\ thread' = [thread EXCEPT ![t].git = "hung"]
  /\ UNCHANGED <<entry, req, dir, poolQ, metaQ, fetching, ghosts>>
-----------------------------------------------------------------------------
(* Projection::readdir: the baseline's names one by one, each asked for in the  *)
(* overlay, then the overlay's entries at once; nothing is locked between.      *)

LookAt(t) ==
  LET w == thread[t].of IN
  /\ thread[t].at = "resolved" /\ w \in Walkers
  /\ \E n \in dir[w].ahead :
       /\ \A m \in dir[w].ahead : n <= m
       /\ dir' = [dir EXCEPT ![w].ahead = @ \ {n},
                             ![w].listing = IF entry[n] = "none" THEN Append(@, n) ELSE @]
  /\ UNCHANGED <<entry, req, poolQ, metaQ, thread, fetching, ghosts>>

\* The overlay's children, and the reply: a fresh handle keeps the listing.
OverlayChildren(t) ==
  LET w == thread[t].of IN
  /\ thread[t].at = "resolved" /\ w \in Walkers /\ dir[w].ahead = {}
  /\ dir' = [dir EXCEPT ![w].open = TRUE, ![w].listing = @ \o Listing(Here(entry))]
  /\ Done(t)
  /\ UNCHANGED <<entry, poolQ, metaQ, fetching, ghosts>>
-----------------------------------------------------------------------------
(* Callbacks. *)

\* A blob or its size: one fetch per object at a time.
WantObject(t) ==
  /\ thread[t].at = "resolved" /\ thread[t].of \in Users
  /\ \E o \in Objects \ cached : thread' = [thread EXCEPT ![t].at = "object", ![t].wants = o]
  /\ UNCHANGED <<entry, req, dir, poolQ, metaQ, fetching, ghosts>>

\* Whoever waited looks again under the lock.
LockObject(t) ==
  LET o == thread[t].wants IN
  /\ thread[t].at = "object" /\ flight[o] = Nobody
  /\ IF o \in cached
       THEN thread' = [thread EXCEPT ![t].at = "change", ![t].wants = Nobody] /\ UNCHANGED flight
       ELSE /\ flight' = [flight EXCEPT ![o] = t]
            /\ \E g \in Spawned : thread' = [thread EXCEPT ![t].at = "fetch", ![t].git = g]
  /\ UNCHANGED <<entry, req, dir, poolQ, metaQ, session, cached, ghosts>>

FetchEnds(t) ==
  LET o == thread[t].wants IN
  /\ thread[t].at = "fetch" /\ thread[t].git = "running"
  /\ flight' = [flight EXCEPT ![o] = Nobody]
  /\ \/ /\ cached' = cached \union {o}
        /\ thread' = [thread EXCEPT ![t].at = "change", ![t].git = "none", ![t].wants = Nobody]
        /\ UNCHANGED req
     \/ Done(t) /\ UNCHANGED cached
  /\ UNCHANGED <<entry, dir, poolQ, metaQ, session, ghosts>>

\* The callback has what it needs, or needed no object.
Ready(t) == thread[t].of \in Users /\ thread[t].at \in {"resolved", "change"}

\* A callback that only reads, or fails.
Reply(t) ==
  /\ Ready(t) /\ Done(t)
  /\ UNCHANGED <<entry, dir, poolQ, metaQ, fetching, ghosts>>

\* How a change of the overlay looks to the walkers: what a rename takes away,
\* and what is shown no more, was not there all the time.
Witness(new, leaving) ==
  /\ steady' = [w \in Walkers |-> (steady[w] \intersect Shown(entry')) \ leaving]
  /\ raced' = [w \in Walkers |-> IF At(w, "opendir", "pool") THEN raced[w] \union new ELSE raced[w]]

\* create, mkdir, symlink, or the copy-up of a baseline file.
Put(t) ==
  /\ Ready(t) /\ Done(t)
  /\ \E n \in Names : entry' = [entry EXCEPT ![n] = "here"] /\ Witness({n}, {})
  /\ UNCHANGED <<dir, poolQ, metaQ, fetching>>

Gone(n) == IF n \in Baseline THEN "tombstone" ELSE "none"

\* unlink, rmdir.
Remove(t) ==
  /\ Ready(t) /\ Done(t)
  /\ \E n \in Names : entry' = [entry EXCEPT ![n] = Gone(n)]
  /\ Witness({}, {})
  /\ UNCHANGED <<dir, poolQ, metaQ, fetching>>

\* rename, first half: the destination, with the source's entry if it has one;
\* the baseline is asked for the source after that.
RenameTo(t) ==
  /\ Ready(t)
  /\ \E a, b \in Names :
       /\ a # b /\ a \in Shown(entry)
       /\ entry' = [entry EXCEPT ![b] = "here", ![a] = "none"]
       /\ Witness({b}, {a})
       /\ \E at \in {"mutex", "rename"} : thread' = [thread EXCEPT ![t].at = at, ![t].wants = a]
  /\ UNCHANGED <<req, dir, poolQ, metaQ, fetching>>

\* Second half: the source goes.
RenameFrom(t) ==
  /\ thread[t].at = "rename" /\ Done(t)
  /\ entry' = [entry EXCEPT ![thread[t].wants] = Gone(thread[t].wants)]
  /\ Witness({}, {})
  /\ UNCHANGED <<dir, poolQ, metaQ, fetching>>
-----------------------------------------------------------------------------
Dispatch ==
  \/ \E c \in Callers : DispatchIo(c)
  \/ \E w \in Walkers : DispatchOpendir(w) \/ DispatchReaddir(w) \/ DispatchReleasedir(w)
  \/ \E t \in Threads : DispatchFlush(t)

Work(t) ==
  \/ LockSession(t) \/ SessionEnds(t) \/ OneShotEnds(t) \/ Hang(t)
  \/ LookAt(t) \/ OverlayChildren(t)
  \/ WantObject(t) \/ LockObject(t) \/ FetchEnds(t)
  \/ Reply(t) \/ Put(t) \/ Remove(t) \/ RenameTo(t) \/ RenameFrom(t)

PoolStep(t) == TakeIo(t) \/ Work(t)
MetaStep(t) == TakeOpendir(t) \/ Work(t)

\* Every request was answered, or waits for a git that hangs.
Settled ==
  /\ \A c \in Callers : req[c].at # "user" /\ (c \in Walkers => ~dir[c].open)
  /\ \A c \in Callers : Waiting(c) => \E t \in Threads : thread[t].git = "hung"
  /\ UNCHANGED vars

Next ==
  \/ Dispatch
  \/ \E u \in Users : Call(u)
  \/ \E w \in Walkers : Opendir(w) \/ Page(w)
  \/ \E t \in PoolThreads : PoolStep(t)
  \/ \E t \in MetaThreads : MetaStep(t)
  \/ Settled

Spec == Init /\ [][Next]_vars

\* The dispatch loop goes on, and so does every thread that can; a child that
\* reached git may hang, which is a step like ending. Neither the kernel's queue
\* nor the mutexes are taken to be fair: the requests are finitely many.
Fairness ==
  /\ WF_vars(Dispatch)
  /\ \A t \in PoolThreads : WF_vars(PoolStep(t))
  /\ \A t \in MetaThreads : WF_vars(MetaStep(t))
FairSpec == Spec /\ Fairness
-----------------------------------------------------------------------------
(* Properties *)

\* A listing read page by page, while callbacks create, copy up, rename and
\* remove entries: no name that was there all the time is missing, and one is
\* there twice only if it got an overlay entry while opendir walked, between the
\* two loops of Projection::readdir; none is there three times.
EntriesOnce ==
  \A w \in Walkers :
    LET given == dir[w].given
        once(I) == \A i, j \in I : given[i] = given[j] => i = j
    IN  /\ once({i \in DOMAIN given : given[i] \notin raced[w]})
        /\ \E k \in 0 .. Len(given) : once(1 .. k) /\ once(k + 1 .. Len(given))
        /\ dir[w].end => steady[w] \subseteq {given[i] : i \in DOMAIN given}

\* "A directory listing stays responsive even when every object-IO thread is
\* busy hydrating a blob" (mount.rs:106), nay hung: whatever the gits that fetch
\* blobs do. It waits for the git that reads trees: the session's, or the one
\* its own thread asked.
TreeGitHung ==
  \E t \in Threads :
    /\ thread[t].git = "hung"
    /\ thread[t].at = "session" \/ (t \in MetaThreads /\ thread[t].at = "oneshot")
ListingsAnswered == \A w \in Walkers : Waiting(w) ~> (~Waiting(w) \/ TreeGitHung)

\* What a thread's wait comes down to: its own git, or the git of whoever holds
\* the mutex it waits for, the session's or its object's.
Awaits(t, s) == \/ s = t
                \/ (thread[t].at = "mutex" /\ session = s)
                \/ (thread[t].at = "object" /\ flight[thread[t].wants] = s)
Stuck(t) == \E s \in Threads : Awaits(t, s) /\ thread[s].git = "hung"

\* A callback gets its answer unless a git it waits for hangs, its own, the tree
\* session's or that of a fetch of the same object, or all the threads of the
\* pool wait so: no child waits for a flush that waits for a thread that waits
\* for a child, and no two threads for one another's mutex.
CallbacksAnswered ==
  \A u \in Users : Waiting(u)
    ~> \/ ~Waiting(u)
       \/ \E t \in PoolThreads : thread[t].of = u /\ Stuck(t)
       \/ \A t \in PoolThreads : Stuck(t)
=============================================================================

------------------------------ MODULE TreeReader ------------------------------
(* GitStore::read_tree (crates/git-store/src/store.rs and batch.rs): a cache of *)
(* parsed trees, one `git cat-file --batch-command` session shared by all       *)
(* threads under a mutex, and the one-shot process it falls back to. The        *)
(* session's replies are a stream without request numbers, the object id in a   *)
(* header is not looked at: whatever is read next is taken for the answer.      *)
(* git's side of the pipes is external: it answers for local objects, ends when *)
(* asked for a promisor object that is missing, and may be killed at any time.  *)
EXTENDS Naturals, Sequences

CONSTANTS
  Readers,    \* threads of the FUSE pools and the read-ahead pools
  Trees,      \* object ids of trees
  Others,     \* object ids of other objects
  Local,      \* the objects the store holds at the start
  None,       \* no thread, no answer yet, not cached
  Error,      \* the answer of a read that fails
  MaxReads,   \* bound: reads the callers start
  MaxKills    \* bound: times the session's process is killed

Oids == Trees \union Others

ASSUME StoreAssumption ==
  /\ Trees \intersect Others = {} /\ Local \subseteq Oids
  /\ None \notin Readers \union Oids \union {Error} /\ Error \notin Oids

VARIABLES
  local,    \* objects in the store
  cache,    \* parsed trees by object id
  holder,   \* who holds the mutex around the session
  session,  \* the session, and the git process at the other end of its pipes
  read,     \* what each thread reads, how far it is, and what it got
  reads, kills

readVars == <<local, cache, holder, session, read, reads, kills>>

\* up: there is a BatchSession (one that met the end of the stream is gone with
\* the error it returned); running: its process has not ended; asked, reply: what
\* is in the two pipes.
NoSession == [up |-> FALSE, running |-> FALSE, asked |-> <<>>, reply |-> <<>>]
Fresh     == [up |-> TRUE, running |-> TRUE, asked |-> <<>>, reply |-> <<>>]

Idle == [pc |-> "idle", oid |-> None, fetch |-> FALSE, got |-> None]

ReadInit ==
  /\ local = Local /\ cache = [t \in Oids |-> None] /\ holder = None
  /\ session = NoSession /\ read = [r \in Readers |-> Idle] /\ reads = 0 /\ kills = 0

At(r, pc)     == read[r].pc = pc
Go(r, pc)     == read' = [read EXCEPT ![r].pc = pc]
Answer(r, x)  == read' = [read EXCEPT ![r].pc = "done", ![r].got = x]
Header(x)     == [kind |-> "header", of |-> x]
Body(x)       == [kind |-> "body", of |-> x]

-----------------------------------------------------------------------------
(* read_tree and read_tree_batched. *)

\* The cache first.
Read(r) ==
  /\ At(r, "idle") /\ reads < MaxReads /\ reads' = reads + 1
  /\ \E x \in Oids, fetch \in BOOLEAN :
       read' = [read EXCEPT ![r] =
                  IF cache[x] # None
                    THEN [pc |-> "done", oid |-> x, fetch |-> fetch, got |-> cache[x]]
                    ELSE [pc |-> "lock", oid |-> x, fetch |-> fetch, got |-> None]]
  /\ UNCHANGED <<local, cache, holder, session, kills>>

\* The mutex, and the session if there is one.
Lock(r) ==
  /\ At(r, "lock") /\ holder = None
  /\ holder' = r
  /\ Go(r, IF session.up THEN "send" ELSE "spawn")
  /\ UNCHANGED <<local, cache, session, reads, kills>>

\* Let go of the session, in sync or not, and read in a process of its own.
Fallback(r) == holder' = None /\ Go(r, "oneshot")

Spawn(r) ==
  /\ At(r, "spawn")
  /\ \/ session' = Fresh /\ Go(r, "send") /\ UNCHANGED holder
     \/ Fallback(r) /\ UNCHANGED session
  /\ UNCHANGED <<local, cache, reads, kills>>

SendTwice(r) ==                                   \* mutant of Send: asked again, one answer read
  /\ At(r, "send")
  /\ \/ session' = [session EXCEPT !.asked = @ \o <<read[r].oid, read[r].oid>>]
        /\ Go(r, "header") /\ UNCHANGED holder
     \/ ~session.running /\ session' = NoSession /\ Fallback(r)
  /\ UNCHANGED <<local, cache, reads, kills>>

\* contents: the request is written, or the pipe is broken.
Send(r) ==
  /\ At(r, "send")
  /\ \/ session' = [session EXCEPT !.asked = Append(@, read[r].oid)]
        /\ Go(r, "header") /\ UNCHANGED holder
     \/ ~session.running /\ session' = NoSession /\ Fallback(r)
  /\ UNCHANGED <<local, cache, reads, kills>>

\* The stream has ended: the error clears the session, the next read respawns.
ReadOn(r) ==                                      \* mutant of Ended: 0 bytes, read again
  /\ session.reply = <<>> /\ ~session.running
  /\ UNCHANGED <<session, holder, read>>

Ended(r) ==
  /\ session.reply = <<>> /\ ~session.running
  /\ session' = NoSession /\ Fallback(r)

ReadHeader(r) ==
  /\ At(r, "header")
  /\ \/ /\ session.reply # <<>>
        /\ session' = [session EXCEPT !.reply = Tail(@)]
        /\ \/ Head(session.reply).kind = "header" /\ Go(r, "body") /\ UNCHANGED holder
           \/ Head(session.reply).kind = "missing" /\ Fallback(r)
     \/ Ended(r)
  /\ UNCHANGED <<local, cache, reads, kills>>

\* parse_tree, which may fail: then the read does, and the session stays.
Parse(r, x) ==
  \/ read' = [read EXCEPT ![r].pc = "parsed", ![r].got = x]
  \/ Answer(r, Error)

\* The body is read whole before its kind is looked at.
SkipBody(r) ==                                    \* mutant of ReadBody: a blob's body is left
  LET x == read[r].oid IN
  /\ At(r, "body")
  /\ \/ x \in Trees /\ session.reply # <<>> /\ holder' = None
        /\ session' = [session EXCEPT !.reply = Tail(@)]
        /\ read' = [read EXCEPT ![r].pc = "parsed", ![r].got = Head(session.reply).of]
     \/ x \in Others /\ Fallback(r) /\ UNCHANGED session
     \/ Ended(r)
  /\ UNCHANGED <<local, cache, reads, kills>>

ReadBody(r) ==
  /\ At(r, "body")
  /\ \/ /\ session.reply # <<>>
        /\ session' = [session EXCEPT !.reply = Tail(@)]
        /\ IF Head(session.reply).of \in Trees
             THEN holder' = None /\ Parse(r, Head(session.reply).of)
             ELSE Fallback(r)
     \/ Ended(r)
  /\ UNCHANGED <<local, cache, reads, kills>>

\* cache_tree, keyed by the object id that was asked for.
CacheTree(r) ==
  /\ At(r, "parsed")
  /\ cache' = [cache EXCEPT ![read[r].oid] = read[r].got] /\ Go(r, "done")
  /\ UNCHANGED <<local, holder, session, reads, kills>>

\* `git cat-file tree`: lazily fetches what is missing if the caller lets it.
OneShot(r) ==
  LET x == read[r].oid IN
  /\ At(r, "oneshot")
  /\ \/ /\ x \in local \/ read[r].fetch
        /\ local' = local \union {x}
        /\ IF x \in Trees THEN Parse(r, x) ELSE Answer(r, Error)
     \/ x \notin local /\ Answer(r, Error) /\ UNCHANGED local
  /\ UNCHANGED <<cache, holder, session, reads, kills>>

Reply(r) ==
  /\ At(r, "done")
  /\ read' = [read EXCEPT ![r] = Idle]
  /\ UNCHANGED <<local, cache, holder, session, reads, kills>>

-----------------------------------------------------------------------------
(* git cat-file --batch-command, without lazy fetch. *)

GitAnswers ==
  LET x == Head(session.asked) IN
  /\ session.running /\ session.asked # <<>>
  /\ IF x \in local
       THEN session' = [session EXCEPT !.asked = Tail(@), !.reply = @ \o <<Header(x), Body(x)>>]
       ELSE \/ session' = [session EXCEPT !.asked = Tail(@), !.running = FALSE]
            \/ session' = [session EXCEPT !.asked = Tail(@),
                                          !.reply = Append(@, [kind |-> "missing", of |-> x])]
  /\ UNCHANGED <<local, cache, holder, read, reads, kills>>

\* The process is killed: what it had not written is cut off, mid-answer too.
GitKilled ==
  /\ session.running /\ kills < MaxKills /\ kills' = kills + 1
  /\ \E n \in 0 .. Len(session.reply) :
       session' = [session EXCEPT !.running = FALSE, !.asked = <<>>,
                                  !.reply = SubSeq(@, 1, n)]
  /\ UNCHANGED <<local, cache, holder, read, reads>>

Continue(r) ==
  \/ Lock(r) \/ Spawn(r) \/ Send(r) \/ ReadHeader(r) \/ ReadBody(r)
  \/ CacheTree(r) \/ OneShot(r) \/ Reply(r)

Quiet == reads = MaxReads /\ (\A r \in Readers : At(r, "idle")) /\ UNCHANGED readVars

ReadNext == (\E r \in Readers : Read(r) \/ Continue(r)) \/ GitAnswers \/ GitKilled \/ Quiet

ReadSpec == ReadInit /\ [][ReadNext]_readVars

\* Threads and git go on when they can; the one-shot process is assumed to end.
\* The mutex is not fair, but the callers' reads are finitely many.
ReadFairSpec == ReadSpec /\ WF_readVars(GitAnswers) /\ \A r \in Readers : WF_readVars(Continue(r))
-----------------------------------------------------------------------------
(* Properties *)

\* Types of the cache, the session and the reads.
ReadTypeOK ==
  /\ local \subseteq Oids /\ cache \in [Oids -> Oids \union {None}]
  /\ holder \in Readers \union {None}
  /\ read \in [Readers -> [pc : {"idle", "lock", "spawn", "send", "header", "body", "parsed",
                                 "oneshot", "done"},
                           oid : Oids \union {None}, fetch : BOOLEAN,
                           got : Oids \union {None, Error}]]

\* A read is answered with the tree it asked for, from the cache, the session or
\* a process of its own, and the cache never learns a tree under another's id.
AnswersAsked ==
  /\ \A r \in Readers : At(r, "done") => read[r].got \in {read[r].oid, Error}
  /\ \A x \in Oids : cache[x] \in {None, x}

\* Why: between two uses the pipes of the session are
\* empty, whatever was asked of it and wherever its process was killed.
SessionInStep ==
  holder = None /\ session.up => session.asked = <<>> /\ session.reply = <<>>

\* Whoever asks gets an answer or an error, even when the session's process dies
\* in the middle of somebody's answer.
ReadersAnswered == \A r \in Readers : ~At(r, "idle") ~> At(r, "idle")
=============================================================================

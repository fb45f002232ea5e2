------------------------------ MODULE WorkerPool ------------------------------
(* crates/fs-common/src/pool.rs: threads that drain one queue of jobs, and the *)
(* end of the pool. The pool belongs to an owner (the Projection, for its      *)
(* read-ahead pools) whose jobs hold weak references: a job takes a strong one *)
(* while it runs, so the last of them may go, and the pool's Drop run, on one  *)
(* of the pool's own threads.                                                  *)
EXTENDS Naturals, Sequences, FiniteSets

CONSTANTS
  Workers,  \* the pool's threads
  Main,     \* the thread that made the owner and lets go of it at unmount
  Jobs,     \* closures that may be spawned, each once
  NoJob,    \* a worker that runs none
  NoThread  \* no thread: the lock of the receiver is free, Drop not begun

ASSUME PoolAssumption ==
  /\ Workers # {} /\ IsFiniteSet(Workers)      \* n.max(1)
  /\ Main \notin Workers /\ NoJob \notin Jobs /\ NoThread \notin Workers \union {Main}

VARIABLES
  fresh,     \* jobs not spawned yet
  queue,     \* the channel
  open,      \* the sender is still there (Pool.tx is Some)
  receiver,  \* who holds the mutex around the receiver
  pc,        \* where each worker is: "idle", "recv", "taken", "work", "drop" or "exit"
  job,       \* the job each worker runs
  owners,    \* threads with a strong reference to the owner
  dropper,   \* the thread inside Drop for Pool
  joining,   \* workers Drop has yet to join
  done       \* jobs that ran to their end, panicked or found the owner gone

poolVars == <<fresh, queue, open, receiver, pc, job, owners, dropper, joining, done>>

AllThreads == Workers \union {Main}

PoolInit ==
  /\ fresh = Jobs /\ queue = <<>> /\ open = TRUE /\ receiver = NoThread
  /\ pc = [w \in Workers |-> "idle"] /\ job = [w \in Workers |-> NoJob]
  /\ owners = {Main} /\ dropper = NoThread /\ joining = {} /\ done = {}

-----------------------------------------------------------------------------
\* spawn: by the unmount thread's callbacks, or by a job that fans out more
\* (warm_dir_siblings). It borrows the owner, so the sender is there.
Spawn(t) ==
  /\ t \in owners
  /\ \E j \in fresh :
       /\ fresh' = fresh \ {j}
       /\ queue' = Append(queue, j)
  /\ UNCHANGED <<open, receiver, pc, job, owners, dropper, joining, done>>

\* rx.lock(): the receiver is shared.
Lock(w) ==
  /\ pc[w] = "idle" /\ receiver = NoThread
  /\ receiver' = w /\ pc' = [pc EXCEPT ![w] = "recv"]
  /\ UNCHANGED <<fresh, queue, open, job, owners, dropper, joining, done>>

\* recv() returns a job, also one queued before the sender went.
ExitEarly(w) ==                                   \* mutant of Recv: exit before drained
  /\ pc[w] = "recv"
  /\ receiver' = NoThread
  /\ \/ /\ open /\ queue # <<>>
        /\ job' = [job EXCEPT ![w] = Head(queue)] /\ queue' = Tail(queue)
        /\ pc' = [pc EXCEPT ![w] = "taken"]
     \/ /\ ~open /\ pc' = [pc EXCEPT ![w] = "exit"]
        /\ UNCHANGED <<job, queue>>
  /\ UNCHANGED <<fresh, open, owners, dropper, joining, done>>

Recv(w) ==
  /\ pc[w] = "recv" /\ receiver' = NoThread
  /\ \/ /\ queue # <<>>
        /\ job' = [job EXCEPT ![w] = Head(queue)] /\ queue' = Tail(queue)
        /\ pc' = [pc EXCEPT ![w] = "taken"]
     \/ /\ queue = <<>> /\ ~open
        /\ pc' = [pc EXCEPT ![w] = "exit"]
        /\ UNCHANGED <<job, queue>>
  /\ UNCHANGED <<fresh, open, owners, dropper, joining, done>>

\* weak.upgrade(): the job runs with a strong reference, or returns at once.
Upgrade(w) ==
  /\ pc[w] = "taken"
  /\ \/ /\ owners # {}
        /\ owners' = owners \union {w} /\ pc' = [pc EXCEPT ![w] = "work"]
        /\ UNCHANGED <<job, done>>
     \/ /\ owners = {}
        /\ done' = done \union {job[w]} /\ job' = [job EXCEPT ![w] = NoJob]
        /\ pc' = [pc EXCEPT ![w] = "idle"]
        /\ UNCHANGED owners
  /\ UNCHANGED <<fresh, queue, open, receiver, dropper, joining>>

\* Drop for Pool, its first half: close the queue, take the handles, leave out
\* the thread it runs on.
JoinAll(t) == Workers                           \* mutant of ToJoin
JoinNone(t) == {}                                \* mutant of ToJoin
ToJoin(t) == Workers \ {t}
BeginDrop(t) == dropper' = t /\ open' = FALSE /\ joining' = ToJoin(t)

\* A thread lets go of the owner; the last one drops it and its pool.
LetGo(t) ==
  /\ owners' = owners \ {t}
  /\ IF owners' = {} THEN BeginDrop(t) ELSE UNCHANGED <<dropper, open, joining>>

\* The job returns or panics: catch_unwind leaves the worker as it was. Its
\* strong reference goes with it.
Finish(w) ==
  /\ pc[w] = "work"
  /\ done' = done \union {job[w]} /\ job' = [job EXCEPT ![w] = NoJob]
  /\ LetGo(w)
  /\ pc' = [pc EXCEPT ![w] = IF owners' = {} THEN "drop" ELSE "idle"]
  /\ UNCHANGED <<fresh, queue, receiver>>

Unmount ==
  /\ Main \in owners
  /\ LetGo(Main)
  /\ UNCHANGED <<fresh, queue, receiver, pc, job, done>>

\* Drop's second half: join returns when the thread has exited.
Join(w) ==
  /\ w \in joining /\ pc[w] = "exit"
  /\ joining' = joining \ {w}
  /\ UNCHANGED <<fresh, queue, open, receiver, pc, job, owners, dropper, done>>

\* Drop returns; on a worker, the job's closure and the loop's turn end.
Dropped == dropper # NoThread /\ joining = {}

Return(w) ==
  /\ pc[w] = "drop" /\ dropper = w /\ Dropped
  /\ pc' = [pc EXCEPT ![w] = "idle"]
  /\ UNCHANGED <<fresh, queue, open, receiver, job, owners, dropper, joining, done>>

Ended == Dropped /\ (\A w \in Workers : pc[w] = "exit") /\ UNCHANGED poolVars

WorkerStep(w) == Lock(w) \/ Recv(w) \/ Upgrade(w) \/ Finish(w) \/ Return(w)

PoolNext ==
  \/ \E t \in AllThreads : Spawn(t)
  \/ \E w \in Workers : WorkerStep(w) \/ Join(w)
  \/ Unmount \/ Ended

PoolSpec == PoolInit /\ [][PoolNext]_poolVars

\* The operating system runs every thread that can run. Nothing obliges anybody
\* to spawn a job, and the mount may stay up for ever. That a job ends is assumed:
\* no timeout of this code bounds the git process it waits for.
PoolFairness ==
  \A w \in Workers : /\ WF_poolVars(Recv(w) \/ Upgrade(w) \/ Finish(w) \/ Return(w))
                     /\ WF_poolVars(Lock(w)) /\ WF_poolVars(Join(w))
PoolFairSpec == PoolSpec /\ PoolFairness
-----------------------------------------------------------------------------
(* Properties *)

Queued == {queue[i] : i \in DOMAIN queue}

\* Types of the pool's state.
TypeOK ==
  /\ fresh \subseteq Jobs /\ queue \in Seq(Jobs) /\ open \in BOOLEAN
  /\ receiver \in Workers \union {NoThread}
  /\ pc \in [Workers -> {"idle", "recv", "taken", "work", "drop", "exit"}]
  /\ job \in [Workers -> Jobs \union {NoJob}]
  /\ owners \subseteq AllThreads /\ dropper \in AllThreads \union {NoThread}
  /\ joining \subseteq Workers /\ done \subseteq Jobs

\* When Drop has returned, no worker uses what the owner held (the journal, the
\* overlay, the cache), so that a remount may open it: every one has left its
\* loop, but for the worker Drop ran on, which is no longer inside a job that
\* found the owner alive.
DropLeavesNoWorker ==
  Dropped => \A w \in Workers : pc[w] = "exit" \/ (w = dropper /\ pc[w] # "work")

\* pool.rs: "a panicking callback must never kill the worker": a worker leaves
\* its loop only when the sender is gone and the queue is empty.
WorkersStay == \A w \in Workers : pc[w] = "exit" => ~open /\ queue = <<>>

\* A queued job gets its turn, whatever other jobs do and whether or not the
\* pool is being dropped meanwhile.
JobsRun == \A j \in Jobs : (j \in Queued) ~> (j \in done)

\* A drop that has begun, on whichever thread, returns, and then every thread of
\* the pool ends.
DropReturns == dropper # NoThread ~> (Dropped /\ \A w \in Workers : pc[w] = "exit")
=============================================================================

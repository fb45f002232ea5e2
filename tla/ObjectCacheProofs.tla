-------------------------- MODULE ObjectCacheProofs --------------------------
(* Invariance proofs for ObjectCache: whoever faults a blob holds its lock and *)
(* is alone, and an open that succeeds is served by a whole file, for any      *)
(* number of blobs, threads, failures and kills.                               *)
EXTENDS ObjectCache, FiniteSetTheorems, WellFoundedInduction, TLAPS

\* Where a task can be, and on what.
Placed ==
  /\ task \in [Threads -> [op : {"idle", "stat", "read", "write", "size", "warm"},
                           pc : Places, blob : Blobs \union {Dir}]]
  /\ \A t \in Threads : task[t].pc # "idle" => task[t].blob \in Blobs
  /\ final \in [Blobs -> {"none", "torn", "whole"}]
  /\ lock \in [Blobs -> Threads \union {Nobody}]

\* The lock of the blob is held throughout a fault.
Holds == \A t \in Threads : Fetching(t) => lock[task[t].blob] = t

\* What is published is whole, and stays; a task that got past the cache has it.
Published ==
  /\ \A b \in Blobs : final[b] # "torn"
  /\ \A t \in Threads : At(t, "opened") => final[task[t].blob] = "whole"

CacheInv == Placed /\ Holds /\ Published

-----------------------------------------------------------------------------
LEMMA CacheInit == Init => CacheInv
BY CacheAssumption
   DEF Init, InitProcess, CacheInv, Placed, Holds, Published, Fetching, Idle, At, Places

\* A task that moves to a place where it faults nothing, or ends, disturbs no
\* other: locks and files stay.
LEMMA Moves ==
  ASSUME CacheInv, NEW t \in Threads, UNCHANGED <<final, lock>>,
         NEW k \in [op : {"idle", "stat", "read", "write", "size", "warm"},
                    pc : Places \ {"sizeFetch", "fetch", "publish"}, blob : Blobs \union {Dir}],
         task' = [task EXCEPT ![t] = k],
         k.pc # "idle" => k.blob \in Blobs,
         k.pc = "opened" => final[k.blob] = "whole"
  PROVE  CacheInv'
<1>1. Placed'
  BY DEF CacheInv, Placed
<1>2. Holds'
  BY DEF CacheInv, Placed, Holds, Fetching
<1>3. Published'
  BY DEF CacheInv, Placed, Published, At
<1> QED  BY <1>1, <1>2, <1>3 DEF CacheInv

\* A task that faults, or fails to, lets go of the lock it holds.
LEMMA Releases ==
  ASSUME CacheInv, NEW t \in Threads, Fetching(t),
         NEW k \in [op : {"idle", "stat", "read", "write", "size", "warm"},
                    pc : Places \ {"sizeFetch", "fetch", "publish"}, blob : Blobs \union {Dir}],
         task' = [task EXCEPT ![t] = k],
         k.pc # "idle" => k.blob = task[t].blob,
         lock' = [lock EXCEPT ![task[t].blob] = Nobody],
         \/ UNCHANGED final /\ k.pc # "opened"
         \/ final' = [final EXCEPT ![task[t].blob] = "whole"]
  PROVE  CacheInv'
<1>1. task[t].blob \in Blobs /\ lock[task[t].blob] = t
  BY DEF CacheInv, Placed, Holds, Fetching
<1>2. Placed'
  BY <1>1 DEF CacheInv, Placed
<1>3. Holds'
  <2> SUFFICES ASSUME NEW s \in Threads, Fetching(s)' PROVE lock'[task'[s].blob] = s
    BY DEF Holds
  <2>1. s # t /\ task'[s] = task[s]
    BY DEF Fetching, CacheInv, Placed
  <2>2. lock[task[s].blob] = s /\ task[s].blob \in Blobs
    BY <2>1 DEF Fetching, CacheInv, Placed, Holds
  <2> QED  BY <1>1, <2>1, <2>2 DEF CacheInv, Placed
<1>4. Published'
  BY <1>1 DEF CacheInv, Placed, Published, At
<1> QED  BY <1>2, <1>3, <1>4 DEF CacheInv

\* A task that takes a free lock, or goes on under its own, is alone with it.
LEMMA Acquires ==
  ASSUME CacheInv, NEW t \in Threads, task[t].blob \in Blobs, UNCHANGED final,
         NEW pc \in {"sizeFetch", "fetch", "publish"},
         task' = [task EXCEPT ![t].pc = pc],
         lock[task[t].blob] \in {Nobody, t},
         lock' = [lock EXCEPT ![task[t].blob] = t]
  PROVE  CacheInv'
<1>1. Placed'
  BY DEF CacheInv, Placed, Places
<1>2. Holds'
  <2> SUFFICES ASSUME NEW s \in Threads, Fetching(s)' PROVE lock'[task'[s].blob] = s
    BY DEF Holds
  <2>1. CASE s = t
    BY <2>1 DEF CacheInv, Placed
  <2>2. CASE s # t
    <3>1. task'[s] = task[s]
      BY <2>2 DEF CacheInv, Placed
    <3>2. lock[task[s].blob] = s /\ task[s].blob \in Blobs
      BY <3>1 DEF Fetching, CacheInv, Placed, Holds
    <3>3. s # Nobody
      BY CacheAssumption
    <3> QED  BY <2>2, <3>1, <3>2, <3>3 DEF CacheInv, Placed
  <2> QED  BY <2>1, <2>2
<1>3. Published'
  BY DEF CacheInv, Placed, Published, At
<1> QED  BY <1>1, <1>2, <1>3 DEF CacheInv

LEMMA ContinueStep ==
  ASSUME CacheInv, NEW t \in Threads, Continue(t) PROVE CacheInv'
<1> DEFINE b == task[t].blob
<1>0. /\ task[t] \in [op : {"idle", "stat", "read", "write", "size", "warm"},
                      pc : Places, blob : Blobs \union {Dir}]
      /\ task[t].pc # "idle" => b \in Blobs
  BY DEF CacheInv, Placed
<1>1. CASE LockSize(t)
  <2>0. b \in Blobs
    BY <1>0, <1>1 DEF LockSize, At
  <2>1. CASE Go(t, SizeKnown(t)) /\ UNCHANGED lock
    <3> DEFINE k == [task[t] EXCEPT !.pc = SizeKnown(t)]
    <3>1. task' = [task EXCEPT ![t] = k]
      BY <2>1, <1>0 DEF Go, CacheInv, Placed
    <3>2. k \in [op : {"idle", "stat", "read", "write", "size", "warm"},
                 pc : Places \ {"sizeFetch", "fetch", "publish"}, blob : Blobs \union {Dir}]
      BY <1>0 DEF SizeKnown, Places
    <3>3. k.pc # "opened" /\ k.blob \in Blobs
      BY <1>0, <2>0 DEF SizeKnown
    <3> QED  BY <1>1, <2>1, <3>1, <3>2, <3>3, Moves DEF LockSize
  <2>2. CASE Go(t, "sizeFetch") /\ lock' = [lock EXCEPT ![b] = t]
    BY <1>1, <2>0, <2>2, Acquires DEF LockSize, Go
  <2> QED  BY <1>1, <2>1, <2>2 DEF LockSize
<1>2. CASE FetchSize(t)
  <2> DEFINE k == [task[t] EXCEPT !.pc = SizeKnown(t)]
  <2>1. task' = [task EXCEPT ![t] = k]
    BY <1>2, <1>0 DEF FetchSize, Go, CacheInv, Placed
  <2>2. /\ k \in [op : {"idle", "stat", "read", "write", "size", "warm"},
                  pc : Places \ {"sizeFetch", "fetch", "publish"}, blob : Blobs \union {Dir}]
        /\ k.pc # "opened" /\ k.blob = b
    BY <1>0 DEF SizeKnown, Places
  <2>3. Fetching(t) /\ UNCHANGED final /\ lock' = [lock EXCEPT ![b] = Nobody]
    BY <1>2 DEF FetchSize, Fetching, At, Unlock
  <2> QED  BY <2>1, <2>2, <2>3, Releases
<1>3. CASE LockOpen(t)
  <2>0. b \in Blobs
    BY <1>0, <1>3 DEF LockOpen, At
  <2>1. CASE Cached(b) /\ Go(t, Opened(t)) /\ UNCHANGED lock
    <3> DEFINE k == [task[t] EXCEPT !.pc = Opened(t)]
    <3>1. task' = [task EXCEPT ![t] = k]
      BY <2>1, <1>0 DEF Go, CacheInv, Placed
    <3>2. k \in [op : {"idle", "stat", "read", "write", "size", "warm"},
                 pc : Places \ {"sizeFetch", "fetch", "publish"}, blob : Blobs \union {Dir}]
      BY <1>0 DEF Opened, Places
    <3>3. k.blob \in Blobs /\ final[k.blob] = "whole"
      BY <1>0, <2>0, <2>1 DEF Cached, CacheInv, Placed, Published
    <3> QED  BY <1>3, <2>1, <3>1, <3>2, <3>3, Moves DEF LockOpen
  <2>2. CASE Go(t, "fetch") /\ lock' = [lock EXCEPT ![b] = t]
    BY <1>3, <2>0, <2>2, Acquires DEF LockOpen, Go
  <2> QED  BY <1>3, <2>1, <2>2 DEF LockOpen
<1>4. CASE Fetch(t)
  <2>1. Fetching(t) /\ b \in Blobs
    BY <1>0, <1>4 DEF Fetch, At, Fetching
  <2>2. lock[b] = t /\ lock' = [lock EXCEPT ![b] = t]
    BY <1>4, <2>1 DEF Fetch, CacheInv, Placed, Holds
  <2> QED  BY <1>4, <2>1, <2>2, Acquires DEF Fetch, Go
<1>5. CASE Publish(t)
  <2> DEFINE k == [task[t] EXCEPT !.pc = Opened(t)]
  <2>1. task' = [task EXCEPT ![t] = k]
    BY <1>5, <1>0 DEF Publish, Go, CacheInv, Placed
  <2>2. /\ k \in [op : {"idle", "stat", "read", "write", "size", "warm"},
                  pc : Places \ {"sizeFetch", "fetch", "publish"}, blob : Blobs \union {Dir}]
        /\ k.blob = b
    BY <1>0 DEF Opened, Places
  <2>3. /\ Fetching(t) /\ lock' = [lock EXCEPT ![b] = Nobody]
        /\ final' = [final EXCEPT ![b] = "whole"]
    BY <1>5 DEF Publish, Fetching, At, Unlock
  <2> QED  BY <2>1, <2>2, <2>3, Releases
<1>6. CASE PrefetchSiblings(t) \/ ReadaheadOnOpen(t) \/ CopyUp(t) \/ Charge(t)
  <2>1. End(t) /\ UNCHANGED <<final, lock>>
    BY <1>6 DEF PrefetchSiblings, ReadaheadOnOpen, CopyUp, Charge
  <2>2. Idle \in [op : {"idle", "stat", "read", "write", "size", "warm"},
                  pc : Places \ {"sizeFetch", "fetch", "publish"}, blob : Blobs \union {Dir}]
        /\ Idle.pc = "idle"
    BY DEF Idle, Places
  <2> QED  BY <2>1, <2>2, Moves DEF End
<1> QED  BY <1>1, <1>2, <1>3, <1>4, <1>5, <1>6 DEF Continue

\* The first step of a task: cached means published, anything else waits.
LEMMA BeginStep ==
  ASSUME CacheInv, NEW t \in Threads, NEW b \in Blobs,
         NEW op \in {"stat", "read", "write", "size", "warm"},
         NEW pc \in {"sizeWait", "statted", "openWait", "opened", "charge"},
         Begin(t, op, pc, b), pc = "opened" => Cached(b),
         UNCHANGED <<final, lock>>
  PROVE  CacheInv'
<1> DEFINE k == [op |-> op, pc |-> pc, blob |-> b]
<1>1. k \in [op : {"idle", "stat", "read", "write", "size", "warm"},
             pc : Places \ {"sizeFetch", "fetch", "publish"}, blob : Blobs \union {Dir}]
  BY DEF Places
<1>2. k.pc = "opened" => final[k.blob] = "whole"
  BY DEF Cached, CacheInv, Placed, Published
<1>3. task' = [task EXCEPT ![t] = k] /\ k.blob \in Blobs
  BY DEF Begin
<1> QED  BY <1>1, <1>2, <1>3, Moves

\* The queues hold jobs of the directory.
Queues == sizeJobs \subseteq Blobs \union {Dir} /\ warmJobs \subseteq Blobs \union {Dir}

LEMMA QueueStep == Queues /\ [Next]_vars => Queues'
<1> SUFFICES ASSUME Queues, [Next]_vars PROVE Queues'
  OBVIOUS
<1> USE DEF Queues
<1>1. ASSUME NEW r \in Readers, NEW b \in Blobs,
             Stat(r, b) \/ \E op \in {"read", "write"} : Open(r, op, b)
      PROVE  Queues'
  BY <1>1 DEF Stat, Open, pools
<1>2. ASSUME NEW t \in Threads, Continue(t) PROVE Queues'
  <2>1. CASE LockSize(t) \/ FetchSize(t) \/ LockOpen(t) \/ Fetch(t) \/ Publish(t)
    BY <2>1 DEF LockSize, FetchSize, LockOpen, Fetch, Publish, pools
  <2>2. CASE PrefetchSiblings(t)
    BY <2>2 DEF PrefetchSiblings
  <2>3. CASE ReadaheadOnOpen(t)
    BY <2>3 DEF ReadaheadOnOpen
  <2>4. CASE CopyUp(t) \/ Charge(t)
    BY <2>4 DEF CopyUp, Charge, pools
  <2> QED  BY <1>2, <2>1, <2>2, <2>3, <2>4 DEF Continue
<1>3. ASSUME NEW t \in Threads, Fail(t) PROVE Queues'
  BY <1>3 DEF Fail, pools
<1>4. ASSUME NEW s \in Sizers, WarmDirSiblings(s) \/ SizeJob(s) PROVE Queues'
  BY <1>4 DEF WarmDirSiblings, SizeJob, FanOut
<1>5. ASSUME NEW w \in Warmers, WarmDirContentSiblings(w) \/ WarmJob(w) PROVE Queues'
  BY <1>5 DEF WarmDirContentSiblings, WarmJob, FanOut
<1>6. CASE Crash
  BY <1>6 DEF Crash
<1>7. CASE UNCHANGED vars
  BY <1>7 DEF vars, pools
<1> QED  BY <1>1, <1>2, <1>3, <1>4, <1>5, <1>6, <1>7 DEF Next

LEMMA CacheStep == CacheInv /\ Queues /\ [Next]_vars => CacheInv'
<1> SUFFICES ASSUME CacheInv, Queues, [Next]_vars PROVE CacheInv'
  OBVIOUS
<1>0. UNCHANGED <<task, final, lock>> => CacheInv'
  BY DEF CacheInv, Placed, Holds, Published, Fetching, At
<1>1. ASSUME NEW r \in Readers, NEW b \in Blobs,
             Stat(r, b) \/ \E op \in {"read", "write"} : Open(r, op, b)
      PROVE  CacheInv'
  <2>1. r \in Threads
    BY DEF Threads
  <2>2. CASE Stat(r, b)
    BY <2>1, <2>2, BeginStep DEF Stat
  <2>3. ASSUME NEW op \in {"read", "write"}, Open(r, op, b) PROVE CacheInv'
    BY <2>1, <2>3, BeginStep DEF Open
  <2> QED  BY <1>1, <2>2, <2>3
<1>2. ASSUME NEW t \in Threads, Fail(t) PROVE CacheInv'
  <2>1. Fetching(t) /\ End(t) /\ UNCHANGED final
        /\ lock' = [lock EXCEPT ![task[t].blob] = Nobody]
    BY <1>2 DEF Fail, Fetching, At, Unlock
  <2>2. Idle \in [op : {"idle", "stat", "read", "write", "size", "warm"},
                  pc : Places \ {"sizeFetch", "fetch", "publish"}, blob : Blobs \union {Dir}]
        /\ Idle.pc = "idle"
    BY DEF Idle, Places
  <2> QED  BY <2>1, <2>2, Releases DEF End
<1>3. ASSUME NEW s \in Sizers, WarmDirSiblings(s) \/ SizeJob(s) PROVE CacheInv'
  <2>1. CASE WarmDirSiblings(s)
    BY <1>0, <2>1 DEF WarmDirSiblings
  <2>2. CASE SizeJob(s)
    <3>1. PICK b \in sizeJobs \ {Dir} :
            /\ UNCHANGED <<final, lock>>
            /\ \/ UNCHANGED task
               \/ Begin(s, "size", IF b \in sizes THEN "charge" ELSE "sizeWait", b)
      BY <2>2 DEF SizeJob
    <3>2. s \in Threads /\ b \in Blobs
      BY DEF Threads, Queues
    <3> QED  BY <1>0, <3>1, <3>2, BeginStep
  <2> QED  BY <1>3, <2>1, <2>2
<1>4. ASSUME NEW w \in Warmers, WarmDirContentSiblings(w) \/ WarmJob(w) PROVE CacheInv'
  <2>1. CASE WarmDirContentSiblings(w)
    BY <1>0, <2>1 DEF WarmDirContentSiblings
  <2>2. CASE WarmJob(w)
    <3>1. PICK b \in warmJobs \ {Dir} :
            /\ UNCHANGED <<final, lock>>
            /\ \/ UNCHANGED task
               \/ Begin(w, "warm", IF Cached(b) THEN "charge" ELSE "openWait", b)
      BY <2>2 DEF WarmJob
    <3>2. w \in Threads /\ b \in Blobs
      BY DEF Threads, Queues
    <3> QED  BY <1>0, <3>1, <3>2, BeginStep
  <2> QED  BY <1>4, <2>1, <2>2
<1>5. CASE Crash
  BY <1>5, CacheAssumption
     DEF Crash, CacheInv, Placed, Holds, Published, Fetching, Idle, At, Places
<1>6. CASE UNCHANGED vars
  BY <1>0, <1>6 DEF vars
<1> QED  BY <1>1, <1>2, <1>3, <1>4, <1>5, <1>6, ContinueStep DEF Next

LEMMA CacheAlways == Spec => [](CacheInv /\ Queues)
<1>1. Init => Queues
  BY DEF Init, InitProcess, Queues
<1> QED  BY <1>1, CacheInit, CacheStep, QueueStep, PTL DEF Spec

-----------------------------------------------------------------------------
(* Counting *)

\* A thread's place goes with what it is doing, and read-ahead with its pool.
DutyOf(t, k) ==
  /\ k.op = "size" => t \in Sizers
  /\ k.op = "warm" => t \in Warmers
  /\ k.pc = "idle" => k.op = "idle"
  /\ k.pc \in {"sizeWait", "sizeFetch"} => k.op \in {"stat", "size"}
  /\ k.pc \in {"openWait", "fetch", "publish"} => k.op \in {"read", "write", "warm"}
  /\ k.pc = "charge" => k.op \in {"size", "warm"}
  /\ k.pc = "statted" => k.op = "stat"
  /\ k.pc = "opened" => k.op \in {"read", "write"}
Duty == \A t \in Threads : DutyOf(t, task[t])

\* Whoever faults a size faults an unknown one.
Counting ==
  /\ IsFiniteSet(sizes) /\ FaultedOnce
  /\ \A t \in Threads : At(t, "sizeFetch") => task[t].blob \notin sizes

Busy(op) == {t \in Threads : task[t].op = op}

\* A pool's bytes, together with what its threads have in flight.
Spending ==
  /\ prefetch_bytes \in Nat /\ hydrate_bytes \in Nat
  /\ prefetch_bytes + Cardinality(Busy("size")) * MaxSize
       < PREFETCH_BYTE_BUDGET + Cardinality(Sizers) * MaxSize
  /\ hydrate_bytes + Cardinality(Busy("warm")) * MaxSize
       < HYDRATE_BYTE_BUDGET + Cardinality(Warmers) * MaxSize

\* A finite set of numbers has a largest: remove one from a smallest set without.
LEMMA MaxIsLargest ==
  ASSUME NEW S \in SUBSET Nat, IsFiniteSet(S), S # {}
  PROVE  Max(S) \in S /\ \A y \in S : y <= Max(S)
<1> DEFINE HasMax(X) == \E x \in X : \A y \in X : y <= x
           T == {X \in FiniteSubsetsOf(S) : X # {} /\ ~HasMax(X)}
<1>1. ASSUME T # {} PROVE FALSE
  <2>1. PICK X \in T : \A Y \in T : <<Y, X>> \notin StrictSubsetOrdering(S)
    BY <1>1, FS_StrictSubsetOrderingWellFounded, WFMin
  <2>2. X \subseteq S /\ IsFiniteSet(X)
    BY DEF FiniteSubsetsOf
  <2>3. PICK x \in X : TRUE
    BY <2>1
  <2>4. X \ {x} \in FiniteSubsetsOf(S) /\ X \ {x} \subseteq X /\ X \ {x} # X
    BY <2>2, <2>3, FS_RemoveElement DEF FiniteSubsetsOf
  <2>5. X \ {x} = {} \/ HasMax(X \ {x})
    BY <2>1, <2>2, <2>4 DEF StrictSubsetOrdering
  <2>6. HasMax(X)
    <3>1. CASE X \ {x} = {}
      <4>1. \A y \in X : y <= x
        BY <2>2, <2>3, <3>1
      <4> QED  BY <2>3, <4>1
    <3>2. CASE HasMax(X \ {x})
      <4>1. PICK m \in X \ {x} : \A y \in X \ {x} : y <= m
        BY <3>2
      <4>2. m \in Nat /\ x \in Nat /\ \A y \in X : y \in Nat
        BY <2>2, <2>3
      <4>3. CASE x <= m
        BY <4>1, <4>3
      <4>4. CASE m <= x
        BY <2>3, <4>1, <4>2, <4>4
      <4> QED  BY <4>2, <4>3, <4>4
    <3> QED  BY <2>5, <3>1, <3>2
  <2> QED  BY <2>1, <2>6
<1>2. S \in FiniteSubsetsOf(S)
  BY DEF FiniteSubsetsOf
<1>3. PICK x \in S : \A y \in S : y <= x
  BY <1>1, <1>2
<1>4. \A a, b \in S : b <= a <=> a >= b
  OBVIOUS
<1> QED  BY <1>3, <1>4 DEF Max

LEMMA MaxSizeType == MaxSize \in Nat /\ \A b \in Blobs : Size[b] <= MaxSize
<1> DEFINE S == {Size[b] : b \in Blobs}
<1>1. S \in SUBSET Nat /\ S # {}
  BY CacheAssumption, BudgetAssumption
<1>2. IsFiniteSet(S)
  <2>1. Size \in Surjection(Blobs, S)
    BY CacheAssumption DEF Surjection
  <2> QED  BY <2>1, CacheAssumption, FS_Surjection
<1> QED  BY <1>1, <1>2, MaxIsLargest DEF MaxSize

LEMMA Times ==
  ASSUME NEW k \in Nat, NEW n \in Nat, NEW m \in Nat
  PROVE  /\ k * m \in Nat /\ (k + 1) * m = k * m + m
         /\ k <= n => k * m <= n * m
OBVIOUS

\* A task begins below the budget; its thread was not busy.
LEMMA Starts ==
  ASSUME NEW G, IsFiniteSet(G), NEW A \in SUBSET G, NEW t \in G \ A,
         NEW bytes \in Nat, NEW budget \in Nat, NEW m \in Nat, bytes < budget
  PROVE  bytes + Cardinality(A \union {t}) * m < budget + Cardinality(G) * m
<1> DEFINE k == Cardinality(A \union {t})
           n == Cardinality(G)
<1>1. k \in Nat /\ n \in Nat /\ k <= n
  BY FS_Subset, FS_CardinalityType
<1> HIDE DEF k, n
<1>2. k * m \in Nat /\ n * m \in Nat /\ k * m <= n * m
  BY <1>1, Times
<1> QED  BY <1>2 DEF k, n

\* A task that ends has charged at most one blob.
LEMMA Ends ==
  ASSUME NEW G, IsFiniteSet(G), NEW A \in SUBSET G, NEW t \in A,
         NEW bytes \in Nat, NEW budget \in Nat, NEW m \in Nat, NEW size \in 0 .. m,
         bytes + Cardinality(A) * m < budget + Cardinality(G) * m
  PROVE  bytes + size + Cardinality(A \ {t}) * m < budget + Cardinality(G) * m
<1> DEFINE k == Cardinality(A \ {t})
           n == Cardinality(G)
<1>1. k \in Nat /\ n \in Nat /\ Cardinality(A) = k + 1
  BY FS_Subset, FS_CardinalityType, FS_RemoveElement
<1>2. bytes + (k + 1) * m < budget + n * m
  BY <1>1
<1> HIDE DEF k, n
<1>3. k * m \in Nat /\ n * m \in Nat /\ (k + 1) * m = k * m + m
  BY <1>1, Times
<1> QED  BY <1>2, <1>3 DEF k, n

LEMMA PoolsFinite == /\ IsFiniteSet(Sizers) /\ IsFiniteSet(Warmers)
                     /\ Cardinality(Sizers) \in Nat /\ Cardinality(Warmers) \in Nat
<1>1. Sizers \in SUBSET Threads /\ Warmers \in SUBSET Threads
  BY DEF Threads
<1> QED  BY <1>1, CacheAssumption, FS_Subset, FS_CardinalityType

LEMMA CountInit == Init => Duty /\ Counting /\ Spending
<1> SUFFICES ASSUME Init PROVE Duty /\ Counting /\ Spending
  OBVIOUS
<1>1. Duty /\ Counting
  BY FS_EmptySet DEF Init, InitProcess, Duty, DutyOf, Counting, FaultedOnce, At, Idle
<1>2. Busy("size") = {} /\ Busy("warm") = {}
  BY DEF Init, InitProcess, Busy, Idle
<1>3. Cardinality(Sizers) * MaxSize \in Nat /\ Cardinality(Warmers) * MaxSize \in Nat
      /\ 0 * MaxSize = 0
  BY PoolsFinite, MaxSizeType, Times
<1>4. Spending
  <2>1. /\ prefetch_bytes = 0 /\ hydrate_bytes = 0
        /\ Cardinality(Busy("size")) = 0 /\ Cardinality(Busy("warm")) = 0
    BY <1>2, FS_EmptySet DEF Init, InitProcess
  <2> HIDE DEF MaxSize
  <2> QED  BY <1>3, <2>1, BudgetAssumption DEF Spending
<1> QED  BY <1>1, <1>4

\* One thread's step: what it is at, or that it is over.
Moving(t, k) == task' = [task EXCEPT ![t] = k]

LEMMA DutyMoves ==
  ASSUME Placed, Duty, NEW t \in Threads, NEW k, Moving(t, k), DutyOf(t, k) PROVE Duty'
BY DEF Placed, Duty, DutyOf, Moving

\* A step of a task under way: it keeps what it is doing, or ends.
LEMMA ContinueMoves ==
  ASSUME Placed, Duty, NEW t \in Threads, Continue(t)
  PROVE  \E k : /\ Moving(t, k) /\ DutyOf(t, k)
                /\ k.op = task[t].op \/ k = Idle
                /\ ~Charge(t) /\ k = Idle => task[t].op \notin {"size", "warm"}
                /\ k.pc = "sizeFetch" => LockSize(t) /\ task[t].blob \notin sizes
                                         /\ k.blob = task[t].blob
<1>0. task[t] \in [op : {"idle", "stat", "read", "write", "size", "warm"},
                   pc : Places, blob : Blobs \union {Dir}]
      /\ DutyOf(t, task[t]) /\ DOMAIN task = Threads
  BY DEF Placed, Duty
<1>1. ASSUME NEW pc, Go(t, pc), DutyOf(t, [task[t] EXCEPT !.pc = pc]), pc # "idle",
             pc = "sizeFetch" => LockSize(t) /\ task[t].blob \notin sizes
      PROVE  \E k : /\ Moving(t, k) /\ DutyOf(t, k)
                    /\ k.op = task[t].op \/ k = Idle
                    /\ ~Charge(t) /\ k = Idle => task[t].op \notin {"size", "warm"}
                    /\ k.pc = "sizeFetch" => LockSize(t) /\ task[t].blob \notin sizes
                                             /\ k.blob = task[t].blob
  <2> DEFINE k == [task[t] EXCEPT !.pc = pc]
  <2>1. Moving(t, k)
    BY <1>1 DEF Go, Moving
  <2>2. k.op = task[t].op /\ k.pc = pc /\ k.blob = task[t].blob /\ k # Idle
    BY <1>0, <1>1 DEF Idle
  <2> HIDE DEF k
  <2> QED  BY <1>1, <2>1, <2>2 DEF k
<1>2. ASSUME End(t), ~Charge(t) => task[t].op \notin {"size", "warm"}
      PROVE  \E k : /\ Moving(t, k) /\ DutyOf(t, k)
                    /\ k.op = task[t].op \/ k = Idle
                    /\ ~Charge(t) /\ k = Idle => task[t].op \notin {"size", "warm"}
                    /\ k.pc = "sizeFetch" => LockSize(t) /\ task[t].blob \notin sizes
                                             /\ k.blob = task[t].blob
  <2>1. DutyOf(t, Idle) /\ Idle.pc # "sizeFetch" /\ Moving(t, Idle)
    BY <1>2 DEF DutyOf, Idle, End, Moving
  <2> QED  BY <1>2, <2>1
<1>3. CASE LockSize(t)
  <2>1. CASE Go(t, SizeKnown(t))
    BY <1>0, <1>1, <1>3, <2>1 DEF LockSize, SizeKnown, DutyOf, At
  <2>2. CASE Go(t, "sizeFetch") /\ task[t].blob \notin sizes
    BY <1>0, <1>1, <1>3, <2>2 DEF LockSize, DutyOf, At
  <2> QED  BY <1>3, <2>1, <2>2 DEF LockSize
<1>4. CASE FetchSize(t)
  BY <1>0, <1>1, <1>4 DEF FetchSize, SizeKnown, DutyOf, At
<1>5. CASE LockOpen(t)
  <2>1. CASE Go(t, Opened(t))
    BY <1>0, <1>1, <1>5, <2>1 DEF LockOpen, Opened, DutyOf, At
  <2>2. CASE Go(t, "fetch")
    BY <1>0, <1>1, <1>5, <2>2 DEF LockOpen, DutyOf, At
  <2> QED  BY <1>5, <2>1, <2>2 DEF LockOpen
<1>6. CASE Fetch(t)
  BY <1>0, <1>1, <1>6 DEF Fetch, DutyOf, At
<1>7. CASE Publish(t)
  BY <1>0, <1>1, <1>7 DEF Publish, Opened, DutyOf, At
<1>8. CASE PrefetchSiblings(t) \/ ReadaheadOnOpen(t) \/ CopyUp(t)
  <2>1. End(t) /\ task[t].op \notin {"size", "warm"}
    BY <1>0, <1>8 DEF PrefetchSiblings, ReadaheadOnOpen, CopyUp, DutyOf, At
  <2> QED  BY <1>2, <2>1
<1>9. CASE Charge(t)
  BY <1>2, <1>9 DEF Charge
<1> QED  BY <1>3, <1>4, <1>5, <1>6, <1>7, <1>8, <1>9 DEF Continue

Tallied == Placed /\ Duty /\ Counting /\ Spending

LEMMA BusyMoves ==
  ASSUME Placed, NEW t \in Threads, NEW k, Moving(t, k), NEW op
  PROVE  Busy(op)' = IF k.op = op THEN Busy(op) \union {t} ELSE Busy(op) \ {t}
BY DEF Placed, Busy, Moving

LEMMA BusyInPools == Duty => Busy("size") \in SUBSET Sizers /\ Busy("warm") \in SUBSET Warmers
BY DEF Duty, DutyOf, Busy

\* A thread that goes on, ends, or begins something other than a read-ahead job
\* leaves the counts alone.
LEMMA SpendMoves ==
  ASSUME Tallied, NEW t \in Threads, NEW k, Moving(t, k),
         k.op \in {"size", "warm"} => k.op = task[t].op,
         UNCHANGED <<prefetch_bytes, hydrate_bytes>>
  PROVE  Spending'
<1>1. MaxSize \in Nat /\ IsFiniteSet(Sizers) /\ IsFiniteSet(Warmers)
      /\ PREFETCH_BYTE_BUDGET \in Nat /\ HYDRATE_BYTE_BUDGET \in Nat
      /\ prefetch_bytes \in Nat /\ hydrate_bytes \in Nat /\ 0 \in 0 .. MaxSize
  BY MaxSizeType, PoolsFinite, BudgetAssumption DEF Tallied, Spending
<1>2. Busy("size")' \in {Busy("size"), Busy("size") \ {t}}
      /\ Busy("warm")' \in {Busy("warm"), Busy("warm") \ {t}}
  <2>1. ASSUME NEW op \in {"size", "warm"}
        PROVE  Busy(op)' \in {Busy(op), Busy(op) \ {t}}
    <3>1. Busy(op)' = IF k.op = op THEN Busy(op) \union {t} ELSE Busy(op) \ {t}
      BY BusyMoves DEF Tallied
    <3>2. k.op = op => t \in Busy(op)
      BY DEF Busy
    <3> QED  BY <3>1, <3>2
  <2> QED  BY <2>1
<1>3. MaxSize' = MaxSize
  BY DEF MaxSize
<1> HIDE DEF MaxSize
<1>4. prefetch_bytes + Cardinality(Busy("size"))' * MaxSize
        < PREFETCH_BYTE_BUDGET + Cardinality(Sizers) * MaxSize
  <2>1. CASE t \in Busy("size") /\ Busy("size")' = Busy("size") \ {t}
    <3>1. prefetch_bytes + 0 + Cardinality(Busy("size") \ {t}) * MaxSize
            < PREFETCH_BYTE_BUDGET + Cardinality(Sizers) * MaxSize
      BY <1>1, <2>1, Ends, BusyInPools DEF Tallied, Spending
    <3> QED  BY <1>1, <2>1, <3>1
  <2>2. CASE Busy("size")' = Busy("size")
    BY <2>2 DEF Tallied, Spending
  <2>3. t \notin Busy("size") => Busy("size") \ {t} = Busy("size")
    OBVIOUS
  <2> QED  BY <1>2, <2>1, <2>2, <2>3
<1>5. hydrate_bytes + Cardinality(Busy("warm"))' * MaxSize
        < HYDRATE_BYTE_BUDGET + Cardinality(Warmers) * MaxSize
  <2>1. CASE t \in Busy("warm") /\ Busy("warm")' = Busy("warm") \ {t}
    <3>1. hydrate_bytes + 0 + Cardinality(Busy("warm") \ {t}) * MaxSize
            < HYDRATE_BYTE_BUDGET + Cardinality(Warmers) * MaxSize
      BY <1>1, <2>1, Ends, BusyInPools DEF Tallied, Spending
    <3> QED  BY <1>1, <2>1, <3>1
  <2>2. CASE Busy("warm")' = Busy("warm")
    BY <2>2 DEF Tallied, Spending
  <2>3. t \notin Busy("warm") => Busy("warm") \ {t} = Busy("warm")
    OBVIOUS
  <2> QED  BY <1>2, <2>1, <2>2, <2>3
<1> QED  BY <1>1, <1>3, <1>4, <1>5 DEF Spending

\* A job begins while its budget is not spent.
LEMMA JobMoves ==
  ASSUME Tallied, NEW t \in Threads, NEW k, Moving(t, k), DutyOf(t, k), task[t].op = "idle",
         UNCHANGED <<prefetch_bytes, hydrate_bytes>>,
         \/ k.op = "size" /\ prefetch_bytes < PREFETCH_BYTE_BUDGET
         \/ k.op = "warm" /\ hydrate_bytes < HYDRATE_BYTE_BUDGET
  PROVE  Spending'
<1>1. MaxSize \in Nat /\ IsFiniteSet(Sizers) /\ IsFiniteSet(Warmers)
      /\ PREFETCH_BYTE_BUDGET \in Nat /\ HYDRATE_BYTE_BUDGET \in Nat
      /\ prefetch_bytes \in Nat /\ hydrate_bytes \in Nat
  BY MaxSizeType, PoolsFinite, BudgetAssumption DEF Tallied, Spending
<1>2. t \notin Busy("size") /\ t \notin Busy("warm")
  BY DEF Busy
<1>3. MaxSize' = MaxSize
  BY DEF MaxSize
<1> HIDE DEF MaxSize
<1>4. CASE k.op = "size" /\ prefetch_bytes < PREFETCH_BYTE_BUDGET
  <2>1. Busy("size")' = Busy("size") \union {t} /\ Busy("warm")' = Busy("warm")
    BY <1>2, <1>4, BusyMoves DEF Tallied
  <2>2. t \in Sizers \ Busy("size")
    BY <1>2, <1>4 DEF DutyOf
  <2>3. prefetch_bytes + Cardinality(Busy("size") \union {t}) * MaxSize
          < PREFETCH_BYTE_BUDGET + Cardinality(Sizers) * MaxSize
    BY <1>1, <1>4, <2>2, Starts, BusyInPools DEF Tallied
  <2> QED  BY <1>1, <1>3, <2>1, <2>3 DEF Tallied, Spending
<1>5. CASE k.op = "warm" /\ hydrate_bytes < HYDRATE_BYTE_BUDGET
  <2>1. Busy("warm")' = Busy("warm") \union {t} /\ Busy("size")' = Busy("size")
    BY <1>2, <1>5, BusyMoves DEF Tallied
  <2>2. t \in Warmers \ Busy("warm")
    BY <1>2, <1>5 DEF DutyOf
  <2>3. hydrate_bytes + Cardinality(Busy("warm") \union {t}) * MaxSize
          < HYDRATE_BYTE_BUDGET + Cardinality(Warmers) * MaxSize
    BY <1>1, <1>5, <2>2, Starts, BusyInPools DEF Tallied
  <2> QED  BY <1>1, <1>3, <2>1, <2>3 DEF Tallied, Spending
<1> QED  BY <1>4, <1>5

\* A job that charges is over.
LEMMA ChargeMoves ==
  ASSUME Tallied, NEW t \in Threads, Charge(t) PROVE Spending'
<1>0. /\ Moving(t, Idle) /\ Idle.op = "idle" /\ task[t].op \in {"size", "warm"}
      /\ task[t].blob \in Blobs
  BY DEF Charge, End, Moving, Idle, At, Tallied, Placed, Duty, DutyOf
<1> DEFINE size == Size[task[t].blob]
<1>1. MaxSize \in Nat /\ IsFiniteSet(Sizers) /\ IsFiniteSet(Warmers)
      /\ PREFETCH_BYTE_BUDGET \in Nat /\ HYDRATE_BYTE_BUDGET \in Nat
      /\ prefetch_bytes \in Nat /\ hydrate_bytes \in Nat /\ size \in 0 .. MaxSize
  BY <1>0, MaxSizeType, PoolsFinite, BudgetAssumption, CacheAssumption DEF Tallied, Spending
<1>2. MaxSize' = MaxSize
  BY DEF MaxSize
<1> HIDE DEF MaxSize, size
<1>3. Busy("size")' = Busy("size") \ {t} /\ Busy("warm")' = Busy("warm") \ {t}
  BY <1>0, BusyMoves DEF Tallied
<1>4. CASE task[t].op = "size"
  <2>1. t \in Busy("size") /\ t \notin Busy("warm")
    BY <1>4 DEF Busy
  <2>2. prefetch_bytes' = prefetch_bytes + size /\ UNCHANGED hydrate_bytes
    BY <1>4 DEF Charge, size
  <2>3. prefetch_bytes + size + Cardinality(Busy("size") \ {t}) * MaxSize
          < PREFETCH_BYTE_BUDGET + Cardinality(Sizers) * MaxSize
    BY <1>1, <2>1, Ends, BusyInPools DEF Tallied, Spending
  <2>4. Busy("warm")' = Busy("warm") /\ prefetch_bytes' \in Nat
    BY <1>1, <1>3, <2>1, <2>2
  <2> QED  BY <1>1, <1>2, <1>3, <2>2, <2>3, <2>4 DEF Tallied, Spending
<1>5. CASE task[t].op = "warm"
  <2>1. t \in Busy("warm") /\ t \notin Busy("size")
    BY <1>5 DEF Busy
  <2>2. hydrate_bytes' = hydrate_bytes + size /\ UNCHANGED prefetch_bytes
    BY <1>5 DEF Charge, size
  <2>3. hydrate_bytes + size + Cardinality(Busy("warm") \ {t}) * MaxSize
          < HYDRATE_BYTE_BUDGET + Cardinality(Warmers) * MaxSize
    BY <1>1, <2>1, Ends, BusyInPools DEF Tallied, Spending
  <2>4. Busy("size")' = Busy("size") /\ hydrate_bytes' \in Nat
    BY <1>1, <1>3, <2>1, <2>2
  <2> QED  BY <1>1, <1>2, <1>3, <2>2, <2>3, <2>4 DEF Tallied, Spending
<1> QED  BY <1>0, <1>4, <1>5

LEMMA CountMoves ==
  ASSUME Tallied, NEW t \in Threads, NEW k, Moving(t, k), UNCHANGED <<sizes, size_faults>>,
         k.pc = "sizeFetch" => k.blob \notin sizes
  PROVE  Counting'
BY DEF Tallied, Placed, Counting, FaultedOnce, Moving, At

\* The lock makes the second look final: nobody else learns the size meanwhile.
LEMMA FetchSizeCounts ==
  ASSUME Tallied, CacheInv, NEW t \in Threads, FetchSize(t) PROVE Counting'
<1> DEFINE b == task[t].blob
<1>1. b \notin sizes /\ sizes' = sizes \union {b} /\ size_faults' = size_faults + 1
  BY DEF FetchSize, Tallied, Counting
<1>2. IsFiniteSet(sizes') /\ FaultedOnce'
  BY <1>1, FS_AddElement DEF Tallied, Counting, FaultedOnce
<1>3. ASSUME NEW s \in Threads, At(s, "sizeFetch")' PROVE task'[s].blob \notin sizes'
  <2>1. s # t /\ task'[s] = task[s]
    BY <1>3 DEF FetchSize, Go, At, SizeKnown, Tallied, Placed
  <2>2. task[s].blob # b
    BY <1>3, <2>1 DEF FetchSize, At, Fetching, CacheInv, Holds
  <2> QED  BY <1>1, <1>3, <2>1, <2>2 DEF At, Tallied, Counting
<1> QED  BY <1>2, <1>3 DEF Counting

LEMMA TallyStep == Tallied /\ CacheInv /\ Queues /\ [Next]_vars => Duty' /\ Counting' /\ Spending'
<1> SUFFICES ASSUME Tallied, CacheInv, Queues, [Next]_vars PROVE Duty' /\ Counting' /\ Spending'
  OBVIOUS
<1> DEFINE Goal == Duty' /\ Counting' /\ Spending'
\* A step of one thread that neither learns a size nor begins or charges a job.
<1>0. ASSUME NEW t \in Threads, NEW k, Moving(t, k), DutyOf(t, k),
             UNCHANGED <<sizes, size_faults, prefetch_bytes, hydrate_bytes>>,
             k.op \in {"size", "warm"} => k.op = task[t].op,
             k.pc = "sizeFetch" => k.blob \notin sizes
      PROVE  Goal
  BY <1>0, DutyMoves, CountMoves, SpendMoves DEF Tallied
<1>1. ASSUME UNCHANGED <<task, sizes, size_faults, prefetch_bytes, hydrate_bytes>> PROVE Goal
  BY <1>1 DEF Tallied, Duty, DutyOf, Counting, FaultedOnce, Spending, Busy, MaxSize, At
<1>2. ASSUME NEW r \in Readers, NEW b \in Blobs, Stat(r, b) PROVE Goal
  <2> DEFINE k == [op |-> "stat", pc |-> IF b \in sizes THEN "statted" ELSE "sizeWait", blob |-> b]
  <2>1. Moving(r, k) /\ k.op = "stat" /\ k.pc \in {"statted", "sizeWait"}
    BY <1>2 DEF Stat, Begin, Moving
  <2>2. DutyOf(r, k) /\ r \in Threads
    BY <2>1 DEF DutyOf, Threads
  <2> HIDE DEF k
  <2> QED  BY <1>0, <1>2, <2>1, <2>2 DEF Stat, counters
<1>3. ASSUME NEW r \in Readers, NEW b \in Blobs, NEW op \in {"read", "write"}, Open(r, op, b)
      PROVE  Goal
  <2> DEFINE k == [op |-> op, pc |-> IF Cached(b) THEN "opened" ELSE "openWait", blob |-> b]
  <2>1. Moving(r, k) /\ k.op \in {"read", "write"} /\ k.pc \in {"opened", "openWait"}
    BY <1>3 DEF Open, Begin, Moving
  <2>2. DutyOf(r, k) /\ r \in Threads
    BY <2>1 DEF DutyOf, Threads
  <2> HIDE DEF k
  <2> QED  BY <1>0, <1>3, <2>1, <2>2 DEF Open, counters
<1>4. ASSUME NEW t \in Threads, Continue(t) PROVE Goal
  <2>1. PICK k : /\ Moving(t, k) /\ DutyOf(t, k)
                 /\ k.op = task[t].op \/ k = Idle
                 /\ k.pc = "sizeFetch" => LockSize(t) /\ task[t].blob \notin sizes
                                          /\ k.blob = task[t].blob
    BY <1>4, ContinueMoves DEF Tallied
  <2>2. k.op \in {"size", "warm"} => k.op = task[t].op
    BY <2>1 DEF Idle
  <2>3. Duty'
    BY <2>1, DutyMoves DEF Tallied
  <2>4. CASE FetchSize(t)
    <3>1. UNCHANGED <<prefetch_bytes, hydrate_bytes>>
      BY <2>4 DEF FetchSize
    <3> QED  BY <2>1, <2>2, <2>3, <2>4, <3>1, FetchSizeCounts, SpendMoves
  <2>5. CASE Charge(t)
    <3>1. UNCHANGED <<sizes, size_faults>>
      BY <2>5 DEF Charge
    <3> QED  BY <2>1, <2>3, <2>5, <3>1, CountMoves, ChargeMoves
  <2>6. CASE ~FetchSize(t) /\ ~Charge(t)
    <3>1. UNCHANGED <<sizes, size_faults, prefetch_bytes, hydrate_bytes>>
      BY <1>4, <2>6 DEF Continue, LockSize, LockOpen, Fetch, Publish, PrefetchSiblings,
                        ReadaheadOnOpen, CopyUp, counters
    <3> QED  BY <1>0, <2>1, <2>2, <3>1
  <2> QED  BY <2>4, <2>5, <2>6
<1>5. ASSUME NEW t \in Threads, Fail(t) PROVE Goal
  <2>1. Moving(t, Idle) /\ DutyOf(t, Idle) /\ Idle.op = "idle" /\ Idle.pc = "idle"
    BY <1>5 DEF Fail, End, Moving, DutyOf, Idle
  <2> HIDE DEF Idle
  <2> QED  BY <1>0, <1>5, <2>1 DEF Fail, counters
<1>6. ASSUME NEW s \in Sizers, WarmDirSiblings(s) PROVE Goal
  BY <1>1, <1>6 DEF WarmDirSiblings, counters
<1>7. ASSUME NEW w \in Warmers, WarmDirContentSiblings(w) PROVE Goal
  BY <1>1, <1>7 DEF WarmDirContentSiblings, counters
<1>8. ASSUME NEW s \in Sizers, SizeJob(s) PROVE Goal
  <2>1. PICK b \in sizeJobs \ {Dir} :
          /\ At(s, "idle") /\ UNCHANGED <<sizes, counters>>
          /\ \/ UNCHANGED task
             \/ /\ ~(prefetch_bytes >= PREFETCH_BYTE_BUDGET)
                /\ Begin(s, "size", IF b \in sizes THEN "charge" ELSE "sizeWait", b)
    BY <1>8 DEF SizeJob
  <2>2. CASE UNCHANGED task
    BY <1>1, <2>1, <2>2 DEF counters
  <2>3. CASE /\ ~(prefetch_bytes >= PREFETCH_BYTE_BUDGET)
             /\ Begin(s, "size", IF b \in sizes THEN "charge" ELSE "sizeWait", b)
    <3> DEFINE k == [op |-> "size", pc |-> IF b \in sizes THEN "charge" ELSE "sizeWait", blob |-> b]
    <3>1. Moving(s, k) /\ k.op = "size" /\ k.pc \in {"charge", "sizeWait"}
      BY <2>3 DEF Begin, Moving
    <3>2. DutyOf(s, k) /\ s \in Threads
      BY <3>1 DEF DutyOf, Threads
    <3>3. task[s].op = "idle" /\ prefetch_bytes < PREFETCH_BYTE_BUDGET
      BY <2>1, <2>3, <3>2, BudgetAssumption DEF Tallied, Duty, DutyOf, At, Spending
    <3> HIDE DEF k
    <3> QED  BY <2>1, <3>1, <3>2, <3>3, DutyMoves, CountMoves, JobMoves DEF Tallied, counters
  <2> QED  BY <2>1, <2>2, <2>3
<1>9. ASSUME NEW w \in Warmers, WarmJob(w) PROVE Goal
  <2>1. PICK b \in warmJobs \ {Dir} :
          /\ At(w, "idle") /\ UNCHANGED <<sizes, counters>>
          /\ \/ UNCHANGED task
             \/ /\ ~(hydrate_bytes >= HYDRATE_BYTE_BUDGET)
                /\ Begin(w, "warm", IF Cached(b) THEN "charge" ELSE "openWait", b)
    BY <1>9 DEF WarmJob
  <2>2. CASE UNCHANGED task
    BY <1>1, <2>1, <2>2 DEF counters
  <2>3. CASE /\ ~(hydrate_bytes >= HYDRATE_BYTE_BUDGET)
             /\ Begin(w, "warm", IF Cached(b) THEN "charge" ELSE "openWait", b)
    <3> DEFINE k == [op |-> "warm", pc |-> IF Cached(b) THEN "charge" ELSE "openWait", blob |-> b]
    <3>1. Moving(w, k) /\ k.op = "warm" /\ k.pc \in {"charge", "openWait"}
      BY <2>3 DEF Begin, Moving
    <3>2. DutyOf(w, k) /\ w \in Threads
      BY <3>1 DEF DutyOf, Threads
    <3>3. task[w].op = "idle" /\ hydrate_bytes < HYDRATE_BYTE_BUDGET
      BY <2>1, <2>3, <3>2, BudgetAssumption DEF Tallied, Duty, DutyOf, At, Spending
    <3> HIDE DEF k
    <3> QED  BY <2>1, <3>1, <3>2, <3>3, DutyMoves, CountMoves, JobMoves DEF Tallied, counters
  <2> QED  BY <2>1, <2>2, <2>3
<1>10. CASE Crash
  <2>1. Duty' /\ Counting'
    BY <1>10, FS_EmptySet DEF Crash, Duty, DutyOf, Counting, FaultedOnce, At, Idle
  <2>2. Busy("size")' = {} /\ Busy("warm")' = {}
    BY <1>10 DEF Crash, Busy, Idle
  <2>3. Cardinality(Sizers) * MaxSize \in Nat /\ Cardinality(Warmers) * MaxSize \in Nat
        /\ 0 * MaxSize = 0 /\ MaxSize' = MaxSize
    BY PoolsFinite, MaxSizeType, Times DEF MaxSize
  <2> HIDE DEF MaxSize
  <2>4. /\ prefetch_bytes' = 0 /\ hydrate_bytes' = 0
        /\ Cardinality(Busy("size"))' = 0 /\ Cardinality(Busy("warm"))' = 0
    BY <1>10, <2>2, FS_EmptySet DEF Crash
  <2>5. Spending'
    BY <2>3, <2>4, BudgetAssumption DEF Spending
  <2> QED  BY <2>1, <2>5
<1>11. CASE UNCHANGED vars
  BY <1>1, <1>11 DEF vars, counters
<1> QED  BY <1>2, <1>3, <1>4, <1>5, <1>6, <1>7, <1>8, <1>9, <1>10, <1>11 DEF Next

LEMMA TallyAlways == Spec => [](CacheInv /\ Queues /\ Duty /\ Counting /\ Spending)
<1>1. CacheInv /\ Duty /\ Counting /\ Spending => Tallied
  BY DEF Tallied, CacheInv
<1>2. Init => Queues
  BY DEF Init, InitProcess, Queues
<1> QED  BY <1>1, <1>2, CacheInit, CountInit, CacheStep, QueueStep, TallyStep, PTL DEF Spec

\* materialize_path_inner publishes by rename and never takes a published file
\* back: an open is served, and a copy-up seeded, by all of the blob.
THEOREM Whole == Spec => []ServedWhole
<1>1. CacheInv => ServedWhole
  BY DEF CacheInv, Published, ServedWhole
<1> QED  BY <1>1, CacheAlways, PTL

\* The lock per object id: two threads never fault the same blob at a time, be
\* it for its size or its content, for a caller or ahead of one.
THEOREM AloneAtIt == Spec => []SingleFlight
<1>1. CacheInv => SingleFlight
  BY DEF CacheInv, Holds, SingleFlight
<1> QED  BY <1>1, CacheAlways, PTL

\* The size cache under the object's lock: however many callers and read-ahead jobs
\* want a size, the counter of faults is the number of blobs whose size is known.
THEOREM FaultedOnceAlways == Spec => []FaultedOnce
<1>1. Counting => FaultedOnce
  BY DEF Counting
<1> QED  BY <1>1, TallyAlways, PTL

\* The budgets, checked before a fetch and charged after it, are overshot by less
\* than one blob per thread of the pool.
THEOREM BudgetsHoldAlways == Spec => []BudgetsHold
<1>1. Spending => BudgetsHold
  <2> SUFFICES ASSUME Spending PROVE BudgetsHold
    OBVIOUS
  <2>1. Busy("size") \in SUBSET Threads /\ Busy("warm") \in SUBSET Threads
    BY DEF Busy
  <2>2. Cardinality(Busy("size")) \in Nat /\ Cardinality(Busy("warm")) \in Nat
    BY <2>1, CacheAssumption, FS_Subset, FS_CardinalityType
  <2>3. /\ Cardinality(Busy("size")) * MaxSize \in Nat /\ Cardinality(Busy("warm")) * MaxSize \in Nat
        /\ Cardinality(Sizers) * MaxSize \in Nat /\ Cardinality(Warmers) * MaxSize \in Nat
    BY <2>2, PoolsFinite, MaxSizeType, Times
  <2> HIDE DEF MaxSize
  <2> QED  BY <2>3, BudgetAssumption DEF Spending, BudgetsHold
<1> QED  BY <1>1, TallyAlways, PTL
=============================================================================

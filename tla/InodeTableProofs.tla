--------------------------- MODULE InodeTableProofs ---------------------------
(* Theorems about InodeTable, for any set of names, any number of workers and  *)
(* any mix of callbacks.                                                       *)
EXTENDS InodeTable, TLAPS

-----------------------------------------------------------------------------
(* The table alone *)

\* Every number in use was handed out by next_ino.
Allocated ==
  /\ \A i \in live : ROOT_INO < i /\ i < next_ino
  /\ \A t \in told : t.ino < next_ino /\ t.ino # NoIno

\* The paths of callbacks in flight are names of the directory, and a getattr
\* names a number the table handed out.
PathsOfOps ==
  \A w \in Workers :
    /\ worker[w].op = "getattr" => worker[w].ino # NoIno /\ worker[w].ino < next_ino
    /\ worker[w].op # "idle" => worker[w].path \in Paths
    /\ worker[w].op = "rename" => worker[w].to \in Paths /\ worker[w].to # worker[w].path

TableInv == TypeOK /\ Allocated /\ PathsOfOps /\ TableAgrees /\ KernelRefsCovered

\* Both branches of lookup(p) at once: p is mapped to its number afterwards.
LEMMA LookupEffect ==
  ASSUME TypeOK, Allocated, TableAgrees, NEW p \in Paths, Number(p) \in Inos, TableLookup(p)
  PROVE  /\ path_to_ino' = [path_to_ino EXCEPT ![p] = Number(p)]
         /\ live' = live \union {Number(p)}
         /\ path' = [path EXCEPT ![Number(p)] = p]
         /\ next_ino' \in Nat /\ next_ino <= next_ino' /\ Number(p) < next_ino'
         /\ ROOT_INO < Number(p)
         /\ lookups' \in [Inos -> Nat]
         /\ \A i \in Inos \ {Number(p)} : lookups'[i] = lookups[i]
         /\ Number(p) \in live => lookups'[Number(p)] = lookups[Number(p)] + 1
         /\ Number(p) \notin live => lookups'[Number(p)] = 1
<1> USE DEF TypeOK, Number, Inos, NoIno, ROOT_INO
<1>1. CASE path_to_ino[p] # NoIno
  <2>1. path_to_ino[p] \in live /\ path[path_to_ino[p]] = p
    BY <1>1 DEF TableAgrees
  <2>2. path' = [path EXCEPT ![Number(p)] = p] /\ path_to_ino' = [path_to_ino EXCEPT ![p] = Number(p)]
    BY <1>1, <2>1 DEF TableLookup
  <2>3. Number(p) < next_ino /\ ROOT_INO < Number(p)
    BY <1>1, <2>1 DEF Allocated
  <2>4. lookups' = [lookups EXCEPT ![Number(p)] = lookups[Number(p)] + 1]
        /\ live' = live /\ next_ino' = next_ino
    BY <1>1 DEF TableLookup
  <2>5. Number(p) \in live
    BY <1>1, <2>1
  <2> QED
    BY <2>2, <2>3, <2>4, <2>5, InoBounds
<1>2. CASE path_to_ino[p] = NoIno
  <2>1. next_ino \notin live
    BY DEF Allocated
  <2>2. /\ next_ino' = next_ino + 1 /\ live' = live \union {Number(p)}
        /\ path' = [path EXCEPT ![Number(p)] = p] /\ lookups' = [lookups EXCEPT ![Number(p)] = 1]
        /\ path_to_ino' = [path_to_ino EXCEPT ![p] = Number(p)] /\ Number(p) = next_ino
    BY <1>2 DEF TableLookup
  <2> QED
    BY <2>1, <2>2, InoBounds
<1> QED
  BY <1>1, <1>2

\* A fresh mount's table is empty and agrees with itself.
LEMMA InitTable == Init => TableInv
  BY InoBounds DEF Init, TableInv, TypeOK, Allocated, PathsOfOps, TableAgrees, KernelRefsCovered, Idle,
                   WorkerType, Inos, NoIno, NoFile, ROOT_INO

\* Every callback, table operation and forget preserves the table's invariant.
LEMMA StepTable == TableInv /\ [Next]_vars => TableInv'
<1> SUFFICES ASSUME TableInv, [Next]_vars PROVE TableInv'
  OBVIOUS
<1> USE DEF TableInv
<1>1. ASSUME NEW w \in Workers, NEW p \in Paths, NEW op \in Callbacks, Resolve(w, op, p)
      PROVE  TableInv'
  <2>1. UNCHANGED <<tableVars, fileAt, made, refs, told>>
    BY <1>1 DEF Resolve, spaceVars
  <2>2. PICK c \in WorkerType : /\ worker' = [worker EXCEPT ![w] = c] /\ c.path = p /\ c.op = op
                                /\ c.ino = path_to_ino[p]
    <3>1. Idle \in WorkerType
      BY DEF Idle, WorkerType, NoFile
    <3> DEFINE lk == op = "lookup" /\ ~Held(p)
               fr == \A v \in Workers : ~Touches(v, p)
               c  == [Idle EXCEPT !.op = op, !.path = p, !.ino = path_to_ino[p], !.file = fileAt[p],
                              !.locked = lk, !.fresh = fr]
    <3>2. worker' = [worker EXCEPT ![w] = c]
      BY <1>1 DEF Resolve
    <3>3. lk \in BOOLEAN /\ fr \in BOOLEAN /\ fileAt[p] \in Nat /\ path_to_ino[p] \in Inos \union {NoIno}
      BY DEF TypeOK
    <3> HIDE DEF lk, fr
    <3>4. c \in WorkerType /\ c.path = p /\ c.op = op /\ c.ino = path_to_ino[p]
      BY <3>3, CallbackAssumption DEF Idle, WorkerType
    <3> QED
      BY <3>2, <3>4
  <2>3. op = "getattr" => path_to_ino[p] # NoIno /\ path_to_ino[p] < next_ino
    <3> SUFFICES ASSUME op = "getattr" PROVE path_to_ino[p] # NoIno /\ path_to_ino[p] < next_ino
      OBVIOUS
    <3>1. PICK i \in live : path[i] = p
      BY <1>1 DEF Resolve, Held
    <3>2. path_to_ino[p] = i
      BY <3>1, NoPathAssumption DEF TableAgrees
    <3> QED
      BY <3>1, <3>2 DEF Allocated, TypeOK, Inos, NoIno
  <2> QED
    BY <2>1, <2>2, <2>3, CallbackAssumption
    DEF TypeOK, Allocated, PathsOfOps, TableAgrees, KernelRefsCovered, tableVars, ReadingCallbacks
<1>2. ASSUME NEW w \in Workers, Reply(w)
      PROVE  TableInv'
  <2> DEFINE p == worker[w].path
             i == Number(p)
  <2>1. p \in Paths /\ i \in Inos /\ TableLookup(p)
    BY <1>2 DEF Reply, PathsOfOps, ReadingCallbacks
  <2>2. /\ path_to_ino' = [path_to_ino EXCEPT ![p] = i]
        /\ live' = live \union {i} /\ path' = [path EXCEPT ![i] = p]
        /\ next_ino' \in Nat /\ next_ino <= next_ino' /\ i < next_ino' /\ ROOT_INO < i
        /\ lookups' \in [Inos -> Nat]
        /\ \A j \in Inos \ {i} : lookups'[j] = lookups[j]
        /\ i \in live => lookups'[i] = lookups[i] + 1
        /\ i \notin live => lookups'[i] = 1
    BY <2>1, LookupEffect
  <2>3. /\ worker' = [worker EXCEPT ![w] = Idle] /\ UNCHANGED <<fileAt, made>>
        /\ told' = told \union {[ino |-> IF worker[w].op = "getattr" THEN worker[w].ino ELSE i,
                                 file |-> worker[w].file, fresh |-> worker[w].fresh]}
        /\ refs' = refs \/ refs' = [refs EXCEPT ![i] = @ + 1]
    BY <1>2 DEF Reply, spaceVars
  <2> HIDE DEF p, i
  <2>4. Idle \in WorkerType /\ Idle.op = "idle"
    BY DEF Idle, WorkerType, NoFile
  <2>5. TypeOK' /\ Allocated' /\ PathsOfOps'
    <3> DEFINE t == [ino |-> IF worker[w].op = "getattr" THEN worker[w].ino ELSE i,
                     file |-> worker[w].file, fresh |-> worker[w].fresh]
    <3>1. worker[w] \in WorkerType
      BY DEF TypeOK
    <3>2. t \in [ino : Nat, file : Nat, fresh : BOOLEAN]
      BY <3>1, <2>1 DEF WorkerType, Inos, NoIno
    <3>3. t.ino < next_ino' /\ t.ino # NoIno
      <4>1. CASE worker[w].op = "getattr"
        <5>1. worker[w].ino # NoIno /\ worker[w].ino < next_ino
          BY <4>1 DEF PathsOfOps
        <5>2. worker[w].ino \in Nat /\ next_ino \in Nat
          BY <3>1 DEF WorkerType, Inos, NoIno, TypeOK
        <5> QED
          BY <4>1, <5>1, <5>2, <2>2
      <4>2. CASE worker[w].op # "getattr"
        BY <4>2, <2>1, <2>2 DEF Inos, NoIno
      <4> QED
        BY <4>1, <4>2
    <3>4. told' = told \union {t}
      BY <2>3
    <3> HIDE DEF t
    <3>5. told' \subseteq [ino : Nat, file : Nat, fresh : BOOLEAN]
      BY <3>2, <3>4 DEF TypeOK
    <3>6. worker' \in [Workers -> WorkerType] /\ fileAt' \in [Paths -> Nat] /\ made' \in Nat
      BY <2>3, <2>4 DEF TypeOK
    <3>7. refs' \in [Inos -> Nat]
      BY <2>3 DEF TypeOK
    <3>8. path_to_ino' \in [Paths -> Inos \union {NoIno}] /\ live' \subseteq Inos
          /\ path' \in [Inos -> Paths \union {NoPath}]
      BY <2>1, <2>2 DEF TypeOK
    <3>9. next_ino \in Nat /\ next_ino # 0 /\ next_ino # 1
      BY DEF TypeOK
    <3>10. next_ino' \in Nat \ {0, 1}
      BY <2>2, <3>9
    <3>11. TypeOK'
      BY <2>2, <3>5, <3>6, <3>7, <3>8, <3>10 DEF TypeOK
    <3>12. ASSUME NEW j \in live'
           PROVE  ROOT_INO < j /\ j < next_ino'
      <4>1. CASE j = i
        BY <4>1, <2>2
      <4>2. CASE j # i
        <5>1. j \in live /\ j \in Nat
          BY <4>2, <2>2, <3>8 DEF Inos
        <5>2. ROOT_INO < j /\ j < next_ino
          BY <5>1 DEF Allocated
        <5> QED
          BY <5>1, <5>2, <2>2, <3>9
      <4> QED
        BY <4>1, <4>2
    <3>13. ASSUME NEW u \in told'
           PROVE  u.ino < next_ino' /\ u.ino # NoIno
      <4>1. CASE u = t
        BY <4>1, <3>3
      <4>2. CASE u # t
        <5>1. u \in told /\ u.ino \in Nat
          BY <4>2, <3>4 DEF TypeOK
        <5>2. u.ino < next_ino /\ u.ino # NoIno
          BY <5>1 DEF Allocated
        <5> QED
          BY <5>1, <5>2, <2>2, <3>9
      <4> QED
        BY <4>1, <4>2
    <3>14. Allocated'
      BY <3>12, <3>13 DEF Allocated
    <3>15. ASSUME NEW v \in Workers
           PROVE  /\ worker'[v].op = "getattr" => worker'[v].ino # NoIno /\ worker'[v].ino < next_ino'
                  /\ worker'[v].op # "idle" => worker'[v].path \in Paths
                  /\ worker'[v].op = "rename" => worker'[v].to \in Paths /\ worker'[v].to # worker'[v].path
      <4>1. CASE v = w
        BY <4>1, <2>3, <2>4 DEF TypeOK
      <4>2. CASE v # w
        <5>1. worker'[v] = worker[v] /\ worker[v] \in WorkerType
          BY <4>2, <2>3 DEF TypeOK
        <5>2. worker[v].ino \in Nat
          BY <5>1 DEF WorkerType, Inos, NoIno
        <5> QED
          BY <5>1, <5>2, <2>2, <3>9 DEF PathsOfOps
      <4> QED
        BY <4>1, <4>2
    <3> QED
      BY <3>11, <3>14, <3>15 DEF PathsOfOps
  <2>6. TableAgrees'
    <3>1. path_to_ino[p] # NoIno => path_to_ino[p] = i
      BY DEF Number, i
    <3>2. path_to_ino[p] = NoIno => i \notin live
      BY DEF Number, i, Allocated, TypeOK
    <3>3. \A q \in Paths : path_to_ino'[q] # NoIno
            => path_to_ino'[q] \in live' /\ path'[path_to_ino'[q]] = q
      BY <2>1, <2>2, <3>1, <3>2 DEF TableAgrees, TypeOK
    <3>4. \A j \in live' : path'[j] # NoPath => path_to_ino'[path'[j]] = j
      <4> SUFFICES ASSUME NEW j \in live', path'[j] # NoPath PROVE path_to_ino'[path'[j]] = j
        OBVIOUS
      <4>1. CASE j = i
        BY <2>1, <2>2, <4>1 DEF TypeOK
      <4>2. CASE j # i
        <5>1. j \in live /\ j \in Inos /\ path'[j] = path[j] /\ path_to_ino[path[j]] = j /\ path[j] \in Paths
          BY <2>2, <4>2 DEF TypeOK, TableAgrees
        <5>2. path[j] # p
          BY <3>1, <4>2, <5>1 DEF NoIno, TypeOK, Inos
        <5> QED
          BY <2>2, <5>1, <5>2 DEF TypeOK
      <4> QED
        BY <4>1, <4>2
    <3> QED
      BY <3>3, <3>4 DEF TableAgrees
  <2>7. KernelRefsCovered'
    BY <2>1, <2>2, <2>3 DEF KernelRefsCovered, TypeOK
  <2> QED
    BY <2>5, <2>6, <2>7
<1>3. ASSUME NEW w \in Workers, NEW c \in WorkerType, Begin(w, c), c.op \in {"create", "unlink", "rename"},
             c.path \in Paths, c.op = "rename" => c.to \in Paths /\ c.to # c.path,
             fileAt' \in [Paths -> Nat], made' \in Nat
      PROVE  TableInv'
  <2>1. UNCHANGED <<path_to_ino, live, path, lookups, next_ino, refs, told>>
    BY <1>3 DEF Begin, tableVars
  <2>2. worker' \in [Workers -> WorkerType]
    <3>1. \A v \in Workers : worker[v] \in WorkerType /\ [worker[v] EXCEPT !.fresh = FALSE] \in WorkerType
      BY DEF TypeOK, WorkerType
    <3> QED
      BY <1>3, <3>1 DEF Begin
  <2>3. \A v \in Workers :
          \/ worker'[v] = c
          \/ /\ worker'[v].op = worker[v].op /\ worker'[v].ino = worker[v].ino
             /\ worker'[v].path = worker[v].path /\ worker'[v].to = worker[v].to
    <3> DEFINE Stale(v) == [worker[v] EXCEPT !.fresh = FALSE]
    <3>1. \A v \in Workers : /\ Stale(v).op = worker[v].op /\ Stale(v).ino = worker[v].ino
                             /\ Stale(v).path = worker[v].path /\ Stale(v).to = worker[v].to
      BY DEF TypeOK, WorkerType
    <3>2. \A v \in Workers : worker'[v] \in {c, Stale(v), worker[v]}
      BY <1>3 DEF Begin
    <3> HIDE DEF Stale
    <3> QED
      BY <3>1, <3>2
  <2>4. TypeOK'
    BY <1>3, <2>1, <2>2 DEF TypeOK
  <2>5. PathsOfOps'
    BY <1>3, <2>1, <2>3 DEF PathsOfOps
  <2> QED
    BY <2>1, <2>4, <2>5 DEF Allocated, TableAgrees, KernelRefsCovered
<1>4. ASSUME NEW w \in Workers, NEW p \in Paths, Create(w, p)
      PROVE  TableInv'
  <2> DEFINE c == [Idle EXCEPT !.op = "create", !.path = p, !.file = made + 1]
  <2>1. made + 1 \in Nat
    BY DEF TypeOK
  <2>2. c \in WorkerType /\ c.op = "create" /\ c.path = p
    BY <2>1 DEF Idle, WorkerType, NoFile
  <2>3. Begin(w, c) /\ made' \in Nat /\ fileAt' \in [Paths -> Nat]
    BY <1>4, <2>1 DEF Create, TypeOK
  <2> QED
    BY <1>3, <2>2, <2>3
<1>5. ASSUME NEW w \in Workers, NEW p \in Paths, Unlink(w, p)
      PROVE  TableInv'
  <2>1. [Idle EXCEPT !.op = "unlink", !.path = p] \in WorkerType
    BY DEF Idle, WorkerType, NoFile
  <2> QED
    BY <1>3, <1>5, <2>1 DEF Unlink, TypeOK, Idle, NoFile
<1>6. ASSUME NEW w \in Workers, NEW p \in Paths, NEW q \in Paths, Rename(w, p, q)
      PROVE  TableInv'
  <2>1. [Idle EXCEPT !.op = "rename", !.path = p, !.to = q] \in WorkerType
    BY DEF Idle, WorkerType, NoFile
  <2> QED
    BY <1>3, <1>6, <2>1 DEF Rename, TypeOK, Idle, NoFile
<1>7. ASSUME NEW w \in Workers, UnlinkTable(w) \/ RenameTable(w)
      PROVE  TableInv'
  <2>1. /\ worker' = [worker EXCEPT ![w] = Idle] /\ UNCHANGED <<fileAt, made, refs, told>>
        /\ UNCHANGED <<lookups, next_ino>>
    BY <1>7 DEF UnlinkTable, RenameTable, TableUnlink, TableRename, spaceVars, tableVars
  <2>2. Idle \in WorkerType /\ Idle.op = "idle"
    BY DEF Idle, WorkerType, NoFile
  <2>3. PathsOfOps'
    BY <2>1, <2>2 DEF PathsOfOps, TypeOK
  <2>4. CASE UnlinkTable(w)
    <3>1. worker[w].path \in Paths /\ TableUnlink(worker[w].path)
      BY <2>4 DEF UnlinkTable, PathsOfOps
    <3> QED
      BY <2>1, <2>2, <2>3, <3>1
      DEF TableUnlink, tableVars, TypeOK, Allocated, TableAgrees, KernelRefsCovered, NoIno
  <2>5. CASE RenameTable(w)
    <3>1. /\ worker[w].path \in Paths /\ worker[w].to \in Paths /\ worker[w].to # worker[w].path
          /\ TableRename(worker[w].path, worker[w].to)
      BY <2>5 DEF RenameTable, PathsOfOps
    <3> DEFINE p == worker[w].path
               q == worker[w].to
               i == path_to_ino[p]
               e == path_to_ino[q]
    <3>2. CASE i = NoIno
      BY <2>1, <2>2, <2>3, <3>1, <3>2
      DEF TableRename, tableVars, TypeOK, Allocated, TableAgrees, KernelRefsCovered
    <3>3. CASE i # NoIno
      <4>1. /\ path_to_ino' = [path_to_ino EXCEPT ![p] = NoIno, ![q] = i]
            /\ path' = IF e = NoIno THEN [path EXCEPT ![i] = q]
                                    ELSE [path EXCEPT ![e] = NoPath, ![i] = q]
            /\ UNCHANGED live
        BY <3>1, <3>3 DEF TableRename
      <4>2. i \in live /\ path[i] = p /\ i \in Inos /\ (e # NoIno => e \in live /\ path[e] = q /\ e # i)
        BY <3>1, <3>3 DEF TableAgrees, TypeOK
      <4> HIDE DEF i, e, p, q
      <4>3. TypeOK'
        BY <2>1, <2>2, <3>1, <4>1, <4>2 DEF TypeOK, p, q
      <4>4. Allocated' /\ KernelRefsCovered'
        BY <2>1, <4>1 DEF Allocated, KernelRefsCovered
      <4>5. \A r \in Paths : path_to_ino'[r] # NoIno
              => path_to_ino'[r] \in live' /\ path'[path_to_ino'[r]] = r
        <5> SUFFICES ASSUME NEW r \in Paths, path_to_ino'[r] # NoIno
                     PROVE  path_to_ino'[r] \in live' /\ path'[path_to_ino'[r]] = r
          OBVIOUS
        <5>1. CASE r = q
          BY <3>1, <4>1, <4>2, <5>1 DEF TypeOK, p, q
        <5>2. CASE r # q
          <6>1. r # p /\ path_to_ino'[r] = path_to_ino[r] /\ path[path_to_ino[r]] = r /\ path_to_ino[r] \in live
            BY <3>1, <4>1, <5>2 DEF TypeOK, TableAgrees, p, q
          <6>2. path_to_ino[r] # i /\ path_to_ino[r] # e
            BY <3>1, <4>2, <5>2, <6>1 DEF e, p, q
          <6> QED
            BY <3>1, <4>1, <6>1, <6>2 DEF TypeOK
        <5> QED
          BY <5>1, <5>2
      <4>6. \A j \in live' : path'[j] # NoPath => path_to_ino'[path'[j]] = j
        <5> SUFFICES ASSUME NEW j \in live', path'[j] # NoPath PROVE path_to_ino'[path'[j]] = j
          OBVIOUS
        <5>1. j \in live /\ j \in Inos
          BY <4>1 DEF TypeOK
        <5>2. CASE j = i
          BY <3>1, <4>1, <4>2, <5>2 DEF TypeOK, p, q
        <5>3. CASE j # i
          <6>1. path'[j] = path[j] /\ (e # NoIno => j # e)
            BY <4>1, <4>2, <5>1, <5>3 DEF TypeOK
          <6>2. path[j] \in Paths /\ path_to_ino[path[j]] = j
            BY <5>1, <6>1 DEF TableAgrees, TypeOK
          <6>3. path[j] # p /\ path[j] # q
            BY <5>1, <5>3, <6>1, <6>2 DEF i, e, NoIno, TypeOK, Allocated, ROOT_INO
          <6> QED
            BY <3>1, <4>1, <6>1, <6>2, <6>3 DEF TypeOK, p, q
        <5> QED
          BY <5>2, <5>3
      <4> QED
        BY <2>3, <4>3, <4>4, <4>5, <4>6 DEF TableAgrees
    <3> QED
      BY <3>2, <3>3
  <2> QED
    BY <1>7, <2>4, <2>5
<1>8. ASSUME NEW i \in Inos, NEW n \in 1..refs[i], Forget(i, n)
      PROVE  TableInv'
  <2>1. i \in live /\ n <= lookups[i] /\ refs[i] <= lookups[i] /\ n \in Nat
    BY <1>8 DEF KernelRefsCovered, TypeOK
  <2>2. /\ lookups' = [lookups EXCEPT ![i] = lookups[i] - n]
        /\ refs' = [refs EXCEPT ![i] = refs[i] - n]
        /\ live' = IF lookups[i] - n = 0 /\ path[i] = NoPath THEN live \ {i} ELSE live
        /\ UNCHANGED <<path_to_ino, path, next_ino, fileAt, made, worker, told>>
    BY <1>8, <2>1 DEF Forget, TableForget, spaceVars
  <2>3. TypeOK' /\ Allocated' /\ PathsOfOps'
    BY <1>8, <2>1, <2>2 DEF TypeOK, Allocated, PathsOfOps
  <2>4. TableAgrees'
    BY <1>8, <2>1, <2>2, NoPathAssumption DEF TableAgrees, TypeOK
  <2>5. KernelRefsCovered'
    BY <1>8, <2>1, <2>2 DEF KernelRefsCovered, TypeOK
  <2> QED
    BY <2>3, <2>4, <2>5
<1>9. CASE UNCHANGED vars
  BY <1>9 DEF vars, tableVars, spaceVars, TypeOK, Allocated, PathsOfOps, TableAgrees, KernelRefsCovered
<1> QED
  BY <1>1, <1>2, <1>4, <1>5, <1>6, <1>7, <1>8, <1>9 DEF Next

-----------------------------------------------------------------------------
(* Numbers and files *)

Touched(p) == \E w \in Workers : Touches(w, p)

\* Among the replies nothing overtook, number i and file f go together.
Together(i, f) == \A t \in told : t.fresh => (t.ino = i <=> t.file = f)
Untold(i)      == \A t \in told : t.fresh => t.ino # i

OneAtATime == \A v, w \in Workers : NamespaceOp(v) /\ NamespaceOp(w) => v = w

FilesApart ==
  /\ \A p, q \in Paths : fileAt[p] = fileAt[q] /\ fileAt[p] # NoFile => p = q
  /\ \A p \in Paths : fileAt[p] <= made
  /\ \A t \in told : t.fresh => t.file <= made

\* A name no callback is changing: its file has its number, and the number left
\* over at an empty name was told for no file.
AtRest ==
  \A p \in Paths : ~Touched(p) =>
    /\ fileAt[p] # NoFile => path_to_ino[p] # NoIno /\ Together(path_to_ino[p], fileAt[p])
    /\ fileAt[p] = NoFile => Untold(path_to_ino[p])

\* Callback c between its effect on the namespace and its effect on the table.
Going(c) ==
  /\ c.op \in ReadingCallbacks /\ c.fresh =>
       /\ ~Touched(c.path) /\ fileAt[c.path] = c.file /\ c.file # NoFile
       /\ c.op = "getattr" => c.ino = path_to_ino[c.path]
  /\ c.op \in {"create", "unlink"} => c.to = NoPath
  /\ c.op = "create" =>
       /\ fileAt[c.path] = c.file /\ c.file # NoFile
       /\ \A t \in told : t.fresh => t.file # c.file
       /\ Untold(path_to_ino[c.path])
  /\ c.op = "rename" =>
       /\ fileAt[c.path] = NoFile /\ fileAt[c.to] # NoFile
       /\ path_to_ino[c.path] # NoIno /\ Together(path_to_ino[c.path], fileAt[c.to])
  /\ c.op = "unlink" => fileAt[c.path] = NoFile
Goings == \A w \in Workers : Going(worker[w])

IdentityInv == OneAtATime /\ FilesApart /\ AtRest /\ Goings /\ IdentityFollowsFile

LEMMA InitIdentity == Init => IdentityInv
BY DEF Init, IdentityInv, OneAtATime, FilesApart, AtRest, Goings, Going, IdentityFollowsFile,
       NamespaceOp, Untold, Together, Idle, NoFile, ReadingCallbacks

\* A callback that changes the namespace overtakes the answers that were resolved
\* for its names, and leaves the other names at rest.
LEMMA BeginIdentity ==
  ASSUME TableInv, IdentityInv, NEW w \in Workers, NEW c \in WorkerType, Begin(w, c),
         c.op \in {"create", "unlink", "rename"},
         \A p \in Paths \ {c.path, c.to} : fileAt'[p] = fileAt[p],
         FilesApart', Going(c)'
  PROVE  IdentityInv'
<1>1. /\ UNCHANGED <<path_to_ino, told>>
      /\ \A v \in Workers : ~NamespaceOp(v)
      /\ \A v \in Workers \ {w} :
           \/ worker'[v] = [worker[v] EXCEPT !.fresh = FALSE]
           \/ worker'[v] = worker[v] /\ worker[v].path \notin {c.path, c.to} \ {NoPath}
      /\ worker'[w] = c
  BY DEF Begin, tableVars
<1>2. \A v \in Workers : worker[v] \in WorkerType /\ (worker[v].op # "idle" => worker[v].path \in Paths)
  BY DEF TableInv, TypeOK, PathsOfOps
<1>3. \A v \in Workers \ {w} : ~NamespaceOp(v)'
  <2>1. TAKE v \in Workers \ {w}
  <2>2. worker'[v].op = worker[v].op
    <3>1. [worker[v] EXCEPT !.fresh = FALSE].op = worker[v].op
      BY <1>2 DEF WorkerType
    <3> QED  BY <1>1, <3>1
  <2> QED  BY <1>1, <2>2 DEF NamespaceOp
<1>4. \A p \in Paths : Touched(p)' <=> p \in {c.path, c.to}
  BY <1>1, <1>3 DEF Touched, Touches, NamespaceOp
<1>5. OneAtATime'
  BY <1>3 DEF OneAtATime
<1>6. AtRest'
  BY <1>1, <1>4 DEF AtRest, Touched, Touches, Together, Untold, IdentityInv
<1>7. ASSUME NEW v \in Workers \ {w} PROVE Going(worker[v])'
  <2>1. CASE worker'[v] = [worker[v] EXCEPT !.fresh = FALSE]
    <3>1. ~worker'[v].fresh /\ worker'[v].op \notin {"create", "unlink", "rename"}
      BY <1>1, <1>2, <2>1 DEF WorkerType, NamespaceOp
    <3> QED  BY <3>1 DEF Going
  <2>2. CASE worker'[v] = worker[v] /\ worker[v].path \notin {c.path, c.to} \ {NoPath}
    <3>1. worker[v].op \notin {"create", "unlink", "rename"}
      BY <1>1 DEF NamespaceOp
    <3>2. Going(worker[v])
      BY DEF IdentityInv, Goings
    <3>3. CASE worker[v].op \in ReadingCallbacks /\ worker[v].fresh
      <4>1. worker[v].path \in Paths \ {c.path, c.to}
        BY <1>2, <2>2, <3>3, NoPathAssumption DEF ReadingCallbacks
      <4>2. ~Touched(worker[v].path)' /\ fileAt'[worker[v].path] = fileAt[worker[v].path]
        BY <1>4, <2>2, <4>1
      <4> QED  BY <1>1, <2>2, <3>1, <3>2, <3>3, <4>2 DEF Going
    <3>4. CASE ~(worker[v].op \in ReadingCallbacks /\ worker[v].fresh)
      BY <2>2, <3>1, <3>4 DEF Going
    <3> QED  BY <3>3, <3>4
  <2> QED  BY <1>1, <2>1, <2>2
<1>8. Goings'
  BY <1>1, <1>7 DEF Goings
<1> QED  BY <1>1, <1>5, <1>6, <1>8 DEF IdentityInv, IdentityFollowsFile

\* An answer that nothing overtook tells the number its file has; one that was
\* overtaken tells nothing, and at most gives an empty name a number.
LEMMA ReplyIdentity ==
  ASSUME TableInv, IdentityInv, NEW w \in Workers, Reply(w) PROVE IdentityInv'
<1> DEFINE c == worker[w]
           p == c.path
           i == Number(p)
           t == [ino |-> IF c.op = "getattr" THEN c.ino ELSE i, file |-> c.file, fresh |-> c.fresh]
<1>1. /\ p \in Paths /\ i \in Inos /\ c \in WorkerType
      /\ c.op \in ReadingCallbacks \union {"create"}
      /\ worker' = [worker EXCEPT ![w] = Idle] /\ told' = told \union {t}
      /\ UNCHANGED <<fileAt, made>>
  BY DEF Reply, TableInv, TypeOK, PathsOfOps, ReadingCallbacks, spaceVars
<1>2. path_to_ino' = [path_to_ino EXCEPT ![p] = i] /\ i # NoIno
  BY <1>1, LookupEffect DEF TableInv, Reply, NoIno, ROOT_INO, Inos
<1>3. /\ path_to_ino[p] # NoIno => i = path_to_ino[p]
      /\ path_to_ino[p] = NoIno => i = next_ino
  BY DEF Number
<1>4. /\ \A u \in told : u.ino # next_ino /\ u.ino # NoIno
      /\ \A q \in Paths : path_to_ino[q] # next_ino
  <2>1. next_ino \in Nat /\ next_ino # NoIno /\ \A u \in told : u.ino \in Nat
    BY DEF TableInv, TypeOK, NoIno
  <2>2. \A q \in Paths : path_to_ino[q] # NoIno => path_to_ino[q] \in live
    BY DEF TableInv, TableAgrees
  <2>3. next_ino \notin live
    BY <2>1 DEF TableInv, Allocated
  <2> QED  BY <2>1, <2>2, <2>3 DEF TableInv, Allocated
<1>5. \A q \in Paths \ {p} : path_to_ino'[q] = path_to_ino[q] /\ path_to_ino[q] # i
  BY <1>1, <1>2, <1>3, <1>4 DEF TableInv, TypeOK, TableAgrees
<1>6. path_to_ino'[p] = i
  BY <1>1, <1>2 DEF TableInv, TypeOK
<1>7. Untold(path_to_ino[p]) => Untold(i)
  BY <1>3, <1>4 DEF Untold
\* What the answer says, if nothing overtook it.
<1>8. ASSUME c.fresh
      PROVE  /\ t.ino = i /\ t.file = c.file /\ c.file = fileAt[p] /\ c.file # NoFile
             /\ Together(i, c.file)
             /\ c.op # "create" => ~Touched(p)
  <2>1. Going(c)
    BY DEF IdentityInv, Goings
  <2>2. CASE c.op \in ReadingCallbacks
    <3>1. ~Touched(p) /\ fileAt[p] = c.file /\ c.file # NoFile
          /\ (c.op = "getattr" => c.ino = path_to_ino[p])
      BY <1>8, <2>1, <2>2 DEF Going
    <3>2. path_to_ino[p] # NoIno /\ Together(path_to_ino[p], fileAt[p])
      BY <1>1, <3>1 DEF IdentityInv, AtRest
    <3> QED  BY <1>3, <3>1, <3>2
  <2>3. CASE c.op = "create"
    <3>1. /\ fileAt[p] = c.file /\ c.file # NoFile /\ Untold(path_to_ino[p])
          /\ \A u \in told : u.fresh => u.file # c.file
      BY <2>1, <2>3 DEF Going
    <3> QED  BY <1>7, <2>3, <3>1 DEF Together, Untold
  <2> QED  BY <1>1, <2>2, <2>3
<1> HIDE DEF i, t
\* A number and a file that belong elsewhere still belong together.
<1>9. ASSUME NEW j, NEW f, Together(j, f), c.fresh => i # j /\ fileAt[p] # f
      PROVE  \A u \in told' : u.fresh => (u.ino = j <=> u.file = f)
  BY <1>1, <1>8, <1>9 DEF Together, t
<1>10. ASSUME NEW j, Untold(j), c.fresh => i # j
       PROVE  \A u \in told' : u.fresh => u.ino # j
  BY <1>1, <1>8, <1>10 DEF Untold, t
<1>11. c.fresh => \A u \in told' : u.fresh => (u.ino = i <=> u.file = c.file)
  BY <1>1, <1>8 DEF Together
<1>12. \A q \in Paths \ {p} : c.fresh /\ fileAt[q] # NoFile => fileAt[q] # fileAt[p]
  BY <1>1 DEF IdentityInv, FilesApart
<1>13. /\ \A v \in Workers \ {w} : worker'[v] = worker[v]
       /\ worker'[w] = Idle
  BY <1>1 DEF TableInv, TypeOK
<1>14. \A q \in Paths : Touched(q)' => Touched(q)
  BY <1>13 DEF Touched, Touches, NamespaceOp, Idle
<1>15. \A q \in Paths : Touched(q) /\ ~Touched(q)' => c.op = "create" /\ q = p
  <2>1. SUFFICES ASSUME NEW q \in Paths, Touches(w, q) PROVE c.op = "create" /\ q = p
    BY <1>13 DEF Touched, Touches, NamespaceOp
  <2>2. c.op = "create"
    BY <1>1, <2>1 DEF Touches, NamespaceOp, ReadingCallbacks
  <2>3. c.to = NoPath
    BY <2>2 DEF IdentityInv, Goings, Going
  <2> QED  BY <2>1, <2>2, <2>3, NoPathAssumption DEF Touches
<1>16. OneAtATime'
  BY <1>13 DEF IdentityInv, OneAtATime, NamespaceOp, Idle
<1>17. FilesApart'
  BY <1>1, <1>8 DEF IdentityInv, FilesApart, t
<1>18. IdentityFollowsFile'
  <2>1. ASSUME c.fresh PROVE IdentityFollowsFile'
    BY <1>1, <1>8, <1>11, <2>1 DEF IdentityInv, IdentityFollowsFile, t
  <2>2. ASSUME ~c.fresh PROVE IdentityFollowsFile'
    BY <1>1, <2>2 DEF IdentityInv, IdentityFollowsFile, t
  <2> QED  BY <2>1, <2>2
<1>19. AtRest'
  <2> SUFFICES ASSUME NEW q \in Paths, ~Touched(q)'
               PROVE  /\ fileAt[q] # NoFile => /\ path_to_ino'[q] # NoIno
                                               /\ Together(path_to_ino[q], fileAt[q])'
                      /\ fileAt[q] = NoFile => Untold(path_to_ino[q])'
    BY <1>1 DEF AtRest
  <2>1. CASE q # p
    <3>1. ~Touched(q)
      BY <1>15, <2>1
    <3>2. path_to_ino'[q] = path_to_ino[q] /\ path_to_ino[q] # i
      BY <1>5, <2>1
    <3>3. CASE fileAt[q] # NoFile
      <4>1. path_to_ino[q] # NoIno /\ Together(path_to_ino[q], fileAt[q])
        BY <3>1, <3>3 DEF IdentityInv, AtRest
      <4>2. c.fresh => fileAt[p] # fileAt[q]
        BY <1>12, <2>1, <3>3
      <4>3. \A u \in told' : u.fresh => (u.ino = path_to_ino[q] <=> u.file = fileAt[q])
        BY <1>9, <3>2, <4>1, <4>2
      <4> QED  BY <1>1, <3>2, <3>3, <4>1, <4>3 DEF Together
    <3>4. CASE fileAt[q] = NoFile
      <4>1. Untold(path_to_ino[q])
        BY <3>1, <3>4 DEF IdentityInv, AtRest
      <4> QED  BY <1>10, <3>2, <3>4, <4>1 DEF Untold
    <3> QED  BY <3>3, <3>4
  <2>2. CASE q = p /\ ~Touched(p)
    <3>1. CASE fileAt[p] # NoFile
      <4>1. i = path_to_ino[p] /\ Together(i, fileAt[p])
        BY <1>3, <2>2, <3>1 DEF IdentityInv, AtRest
      <4>2. \A u \in told' : u.fresh => (u.ino = i <=> u.file = fileAt[p])
        <5>1. CASE c.fresh
          BY <1>8, <1>11, <5>1
        <5>2. CASE ~c.fresh
          BY <1>1, <4>1, <5>2 DEF Together, t
        <5> QED  BY <5>1, <5>2
      <4> QED  BY <1>1, <1>2, <1>6, <2>2, <3>1, <4>2 DEF Together
    <3>2. CASE fileAt[p] = NoFile
      <4>1. ~c.fresh
        BY <1>8, <3>2
      <4>2. Untold(i)
        BY <1>7, <2>2, <3>2 DEF IdentityInv, AtRest
      <4> QED  BY <1>6, <1>10, <2>2, <3>2, <4>1, <4>2 DEF Untold
    <3> QED  BY <3>1, <3>2
  <2>3. CASE q = p /\ Touched(p)
    <3>1. c.op = "create"
      BY <1>15, <2>3
    <3>2. fileAt[p] = c.file /\ c.file # NoFile
          /\ (\A u \in told : u.fresh => u.file # c.file) /\ Untold(i)
      BY <1>7, <3>1 DEF IdentityInv, Goings, Going
    <3>3. \A u \in told' : u.fresh => (u.ino = i <=> u.file = c.file)
      BY <1>1, <1>8, <3>2 DEF Untold, t
    <3> QED  BY <1>1, <1>2, <1>6, <2>3, <3>2, <3>3 DEF Together
  <2> QED  BY <2>1, <2>2, <2>3
<1>20. ASSUME NEW v \in Workers PROVE Going(worker[v])'
  <2>1. CASE v = w
    BY <1>13, <2>1 DEF Going, Idle, ReadingCallbacks
  <2>2. CASE v # w
    <3> DEFINE d == worker[v]
    <3>1. worker'[v] = d /\ Going(d) /\ (d.op # "idle" => d.path \in Paths)
      BY <1>13, <2>2 DEF IdentityInv, Goings, TableInv, PathsOfOps
    <3>2. CASE d.op \in ReadingCallbacks
      <4>1. ASSUME d.fresh
            PROVE  /\ ~Touched(d.path)' /\ fileAt'[d.path] = d.file /\ d.file # NoFile
                   /\ d.op = "getattr" => d.ino = path_to_ino'[d.path]
        <5>1. /\ ~Touched(d.path) /\ fileAt[d.path] = d.file /\ d.file # NoFile
              /\ d.op = "getattr" => d.ino = path_to_ino[d.path]
              /\ d.path \in Paths
          BY <3>1, <3>2, <4>1 DEF Going, ReadingCallbacks
        <5>2. path_to_ino[d.path] # NoIno
          BY <5>1 DEF IdentityInv, AtRest
        <5>3. path_to_ino'[d.path] = path_to_ino[d.path]
          BY <1>3, <1>5, <1>6, <5>1, <5>2
        <5>4. ~Touched(d.path)'
          BY <1>14, <3>1, <5>1 DEF Touched
        <5> QED  BY <1>1, <5>1, <5>3, <5>4
      <4>2. ~Touched(worker[v].path)' <=> ~Touched(d.path)'
        BY <3>1
      <4> QED  BY <3>1, <3>2, <4>1, <4>2 DEF Going, ReadingCallbacks
    <3>3. CASE d.op \in {"create", "rename", "unlink"}
      <4>1. d.path \in Paths /\ (d.op = "rename" => d.to \in Paths)
        BY <3>1, <3>3 DEF TableInv, PathsOfOps
      <4>2. c.fresh => p # d.path /\ (d.op = "rename" => p # d.to)
        <5>1. SUFFICES ASSUME c.fresh PROVE p # d.path /\ (d.op = "rename" => p # d.to)
          OBVIOUS
        <5>2. c.op # "create"
          BY <2>2, <3>3 DEF IdentityInv, OneAtATime, NamespaceOp
        <5>3. ~Touched(p)
          BY <1>8, <5>1, <5>2
        <5> QED  BY <3>3, <5>3 DEF Touched, Touches, NamespaceOp
      <4>3. CASE d.op = "create"
        <5>1. /\ fileAt[d.path] = d.file /\ d.file # NoFile /\ d.to = NoPath
              /\ \A u \in told : u.fresh => u.file # d.file
              /\ Untold(path_to_ino[d.path])
          BY <3>1, <4>3 DEF Going
        <5>2. \A u \in told' : u.fresh => u.file # d.file
          BY <1>1, <1>8, <1>12, <4>1, <4>2, <5>1 DEF t
        <5>3. \A u \in told' : u.fresh => u.ino # path_to_ino'[d.path]
          <6>1. CASE d.path = p
            BY <1>6, <1>7, <1>10, <4>2, <5>1, <6>1
          <6>2. CASE d.path # p
            BY <1>5, <1>10, <4>1, <5>1, <6>2
          <6> QED  BY <6>1, <6>2
        <5> QED  BY <1>1, <3>1, <4>3, <5>1, <5>2, <5>3 DEF Going, Untold, ReadingCallbacks
      <4>4. CASE d.op = "rename"
        <5>1. /\ fileAt[d.path] = NoFile /\ fileAt[d.to] # NoFile
              /\ path_to_ino[d.path] # NoIno /\ Together(path_to_ino[d.path], fileAt[d.to])
          BY <3>1, <4>4 DEF Going
        <5>2. path_to_ino'[d.path] = path_to_ino[d.path]
          BY <1>3, <1>5, <1>6, <4>1, <5>1
        <5>3. c.fresh => i # path_to_ino[d.path] /\ fileAt[p] # fileAt[d.to]
          BY <1>5, <1>12, <4>1, <4>2, <4>4, <5>1
        <5>4. \A u \in told' : u.fresh => (u.ino = path_to_ino[d.path] <=> u.file = fileAt[d.to])
          BY <1>9, <5>1, <5>3
        <5> QED  BY <1>1, <3>1, <4>4, <5>1, <5>2, <5>4 DEF Going, Together, ReadingCallbacks
      <4>5. CASE d.op = "unlink"
        BY <1>1, <3>1, <4>5 DEF Going, ReadingCallbacks
      <4> QED  BY <3>3, <4>3, <4>4, <4>5
    <3>4. CASE d.op = "idle"
      BY <3>1, <3>4 DEF Going, ReadingCallbacks
    <3>5. d \in WorkerType
      BY DEF TableInv, TypeOK
    <3> QED  BY <3>2, <3>3, <3>4, <3>5 DEF WorkerType
  <2> QED  BY <2>1, <2>2
<1> QED  BY <1>16, <1>17, <1>18, <1>19, <1>20 DEF IdentityInv, Goings

\* unlink and rename bring the table up to the namespace: the number leaves with
\* its file or goes where the file went.
LEMMA TableIdentity ==
  ASSUME TableInv, IdentityInv, NEW w \in Workers, UnlinkTable(w) \/ RenameTable(w)
  PROVE  IdentityInv'
<1> DEFINE c == worker[w]
           p == c.path
           q == c.to
<1>1. /\ worker' = [worker EXCEPT ![w] = Idle] /\ UNCHANGED <<fileAt, made, told>>
      /\ c.op \in {"unlink", "rename"} /\ p \in Paths
      /\ c.op = "rename" => q \in Paths /\ q # p
      /\ c.op = "unlink" => q = NoPath
  BY DEF UnlinkTable, RenameTable, spaceVars, TableInv, PathsOfOps, IdentityInv, Goings, Going
<1>2. /\ \A v \in Workers \ {w} : worker'[v] = worker[v] /\ ~NamespaceOp(v)
      /\ worker'[w] = Idle
  BY <1>1 DEF TableInv, TypeOK, IdentityInv, OneAtATime, NamespaceOp
<1>3. \A r \in Paths : ~Touched(r)' /\ (Touched(r) <=> r \in {p, q})
  BY <1>1, <1>2 DEF Touched, Touches, NamespaceOp, Idle
<1>4. Going(c)
  BY DEF IdentityInv, Goings
<1>5. /\ path_to_ino'[p] = NoIno
      /\ \A r \in Paths \ {p, q} : path_to_ino'[r] = path_to_ino[r]
      /\ c.op = "rename" => path_to_ino'[q] = path_to_ino[p]
  <2>1. CASE c.op = "unlink"
    BY <1>1, <2>1 DEF UnlinkTable, RenameTable, TableUnlink, tableVars, TableInv, TypeOK
  <2>2. CASE c.op = "rename"
    <3>1. path_to_ino[p] # NoIno
      BY <1>4, <2>2 DEF Going
    <3>2. path_to_ino' = [path_to_ino EXCEPT ![p] = NoIno, ![q] = path_to_ino[p]]
      BY <2>2, <3>1 DEF UnlinkTable, RenameTable, TableRename
    <3> QED  BY <1>1, <2>2, <3>2 DEF TableInv, TypeOK
  <2> QED  BY <1>1, <2>1, <2>2
<1>6. OneAtATime' /\ FilesApart' /\ IdentityFollowsFile'
  BY <1>1, <1>2 DEF IdentityInv, OneAtATime, FilesApart, IdentityFollowsFile, NamespaceOp, Idle
<1>7. ASSUME NEW r \in Paths
      PROVE  /\ fileAt[r] # NoFile => /\ path_to_ino'[r] # NoIno
                                      /\ Together(path_to_ino'[r], fileAt[r])
             /\ fileAt[r] = NoFile => Untold(path_to_ino'[r])
  <2>1. CASE r = p
    BY <1>1, <1>4, <1>5, <2>1 DEF Going, Untold, TableInv, Allocated
  <2>2. CASE c.op = "rename" /\ r = q
    BY <1>1, <1>4, <1>5, <2>2 DEF Going
  <2>3. CASE r \notin {p, q}
    BY <1>1, <1>3, <1>5, <2>3 DEF IdentityInv, AtRest
  <2> QED  BY <1>1, <2>1, <2>2, <2>3, NoPathAssumption
<1>8. AtRest'
  BY <1>1, <1>7 DEF AtRest, Together, Untold
<1>9. ASSUME NEW v \in Workers PROVE Going(worker[v])'
  <2>1. CASE v = w
    BY <1>2, <2>1 DEF Going, Idle, ReadingCallbacks
  <2>2. CASE v # w
    <3> DEFINE d == worker[v]
    <3>1. worker'[v] = d /\ Going(d) /\ d.op \notin {"create", "unlink", "rename"}
      BY <1>2, <2>2 DEF IdentityInv, Goings, NamespaceOp
    <3>2. CASE d.op \in ReadingCallbacks /\ d.fresh
      <4>1. /\ ~Touched(d.path) /\ fileAt[d.path] = d.file /\ d.file # NoFile
            /\ d.op = "getattr" => d.ino = path_to_ino[d.path]
            /\ d.path \in Paths
        BY <3>1, <3>2 DEF Going, TableInv, PathsOfOps, ReadingCallbacks
      <4>2. path_to_ino'[d.path] = path_to_ino[d.path]
        BY <1>3, <1>5, <4>1
      <4>3. ~Touched(d.path)'
        BY <1>3, <3>1, <4>1 DEF Touched
      <4> QED  BY <1>1, <3>1, <4>1, <4>2, <4>3 DEF Going
    <3>3. CASE ~(d.op \in ReadingCallbacks /\ d.fresh)
      BY <3>1, <3>3 DEF Going
    <3> QED  BY <3>2, <3>3
  <2> QED  BY <2>1, <2>2
<1> QED  BY <1>6, <1>8, <1>9 DEF IdentityInv, Goings

LEMMA StepIdentity == TableInv /\ IdentityInv /\ [Next]_vars => IdentityInv'
<1> SUFFICES ASSUME TableInv, IdentityInv, [Next]_vars PROVE IdentityInv'
  OBVIOUS
<1>1. ASSUME NEW w \in Workers, NEW p \in Paths, NEW op \in Callbacks, Resolve(w, op, p)
      PROVE  IdentityInv'
  <2> DEFINE fr == \A v \in Workers : ~Touches(v, p)
             lk == op = "lookup" /\ ~Held(p)
             c  == [Idle EXCEPT !.op = op, !.path = p, !.ino = path_to_ino[p], !.file = fileAt[p],
                                !.locked = lk, !.fresh = fr]
  <2>1. worker' = [worker EXCEPT ![w] = c] /\ UNCHANGED <<path_to_ino, fileAt, made, told>>
        /\ worker[w] = Idle /\ fileAt[p] # NoFile /\ op \in ReadingCallbacks
    BY <1>1, CallbackAssumption DEF Resolve, tableVars, spaceVars
  <2>2. /\ c.op = op /\ c.path = p /\ c.ino = path_to_ino[p] /\ c.file = fileAt[p] /\ c.fresh = fr
    BY DEF Idle
  <2>3. fr => ~Touched(p)
    BY DEF Touched
  <2> HIDE DEF c, fr, lk
  <2>4. worker'[w] = c /\ \A v \in Workers \ {w} : worker'[v] = worker[v]
    BY <2>1 DEF TableInv, TypeOK
  <2>5. \A v \in Workers : NamespaceOp(v)' <=> NamespaceOp(v)
    BY <2>1, <2>2, <2>4 DEF NamespaceOp, Idle, ReadingCallbacks
  <2>6. \A q \in Paths : Touched(q)' <=> Touched(q)
    <3>1. ~NamespaceOp(w)
      BY <2>1 DEF NamespaceOp, Idle
    <3>2. ASSUME NEW q \in Paths, NEW v \in Workers PROVE Touches(v, q)' <=> Touches(v, q)
      BY <2>4, <2>5, <3>1 DEF Touches
    <3> QED  BY <3>2 DEF Touched
  <2>7. OneAtATime'
    BY <2>5 DEF IdentityInv, OneAtATime
  <2>8. AtRest' /\ FilesApart' /\ IdentityFollowsFile'
    BY <2>1, <2>6 DEF IdentityInv, AtRest, FilesApart, IdentityFollowsFile, Together, Untold
  <2>9. ASSUME NEW v \in Workers PROVE Going(worker[v])'
    <3>1. CASE v = w
      <4>1. fr => ~Touched(worker[v].path)'
        BY <2>2, <2>3, <2>4, <2>6, <3>1
      <4> QED  BY <2>1, <2>2, <2>4, <3>1, <4>1 DEF Going, ReadingCallbacks
    <3>2. CASE v # w
      <4>1. worker'[v] = worker[v] /\ Going(worker[v])
        BY <2>4, <3>2 DEF IdentityInv, Goings
      <4>2. worker[v].op # "idle" => worker[v].path \in Paths
        BY DEF TableInv, PathsOfOps
      <4>3. worker[v].op # "idle" /\ ~Touched(worker[v].path) => ~Touched(worker[v].path)'
        BY <2>6, <4>1, <4>2
      <4> QED  BY <2>1, <4>1, <4>3 DEF Going, Together, Untold, ReadingCallbacks
    <3> QED  BY <3>1, <3>2
  <2> QED  BY <2>7, <2>8, <2>9 DEF IdentityInv, Goings
<1>2. ASSUME NEW w \in Workers, NEW p \in Paths, Create(w, p) PROVE IdentityInv'
  <2>1. made \in Nat /\ made + 1 \in Nat
        /\ (\A q \in Paths : fileAt[q] \in Nat) /\ (\A t \in told : t.file \in Nat)
    BY DEF TableInv, TypeOK
  <2>2. PICK c \in WorkerType : /\ c = [Idle EXCEPT !.op = "create", !.path = p, !.file = made + 1]
                                /\ c.op = "create" /\ c.path = p /\ c.file = made + 1 /\ c.to = NoPath
    <3> DEFINE d == [Idle EXCEPT !.op = "create", !.path = p, !.file = made + 1]
    <3>1. d \in WorkerType /\ d.op = "create" /\ d.path = p /\ d.file = made + 1 /\ d.to = NoPath
      BY <2>1 DEF Idle, WorkerType, NoFile
    <3> QED  BY <3>1
  <2>3. /\ Begin(w, c) /\ fileAt[p] = NoFile /\ made' = made + 1
        /\ fileAt' = [fileAt EXCEPT ![p] = made + 1]
    BY <1>2, <2>2 DEF Create
  <2>4. UNCHANGED <<told, path_to_ino>> /\ \A v \in Workers : ~NamespaceOp(v)
    BY <2>3 DEF Begin, tableVars
  <2>5. FilesApart'
    BY <2>1, <2>3, <2>4 DEF IdentityInv, FilesApart, TableInv, TypeOK
  <2>6. Untold(path_to_ino[p])
    BY <2>3, <2>4 DEF IdentityInv, AtRest, Touched, Touches
  <2>7. \A t \in told : t.fresh => t.file # made + 1
    BY <2>1 DEF IdentityInv, FilesApart
  <2>8. Going(c)'
    <3>1. fileAt'[p] = made + 1 /\ made + 1 # NoFile
      BY <2>1, <2>3 DEF TableInv, TypeOK, NoFile
    <3> QED  BY <2>2, <2>4, <2>6, <2>7, <3>1 DEF Going, Untold, ReadingCallbacks
  <2>9. \A q \in Paths \ {c.path, c.to} : fileAt'[q] = fileAt[q]
    BY <2>2, <2>3 DEF TableInv, TypeOK
  <2> QED  BY <2>2, <2>3, <2>5, <2>8, <2>9, BeginIdentity
<1>3. ASSUME NEW w \in Workers, NEW p \in Paths, Unlink(w, p) PROVE IdentityInv'
  <2> DEFINE c == [Idle EXCEPT !.op = "unlink", !.path = p]
  <2>1. c \in WorkerType /\ c.op = "unlink" /\ c.path = p /\ c.to = NoPath
    BY DEF Idle, WorkerType, NoFile
  <2>2. Begin(w, c) /\ UNCHANGED made /\ fileAt' = [fileAt EXCEPT ![p] = NoFile]
    BY <1>3 DEF Unlink
  <2>3. UNCHANGED told
    BY <2>2 DEF Begin
  <2>4. FilesApart'
    BY <2>2, <2>3 DEF IdentityInv, FilesApart, TableInv, TypeOK, NoFile
  <2> HIDE DEF c
  <2>5. Going(c)' /\ \A q \in Paths \ {c.path, c.to} : fileAt'[q] = fileAt[q]
    BY <2>1, <2>2 DEF Going, ReadingCallbacks, TableInv, TypeOK
  <2> QED  BY <2>1, <2>2, <2>4, <2>5, BeginIdentity
<1>4. ASSUME NEW w \in Workers, NEW p \in Paths, NEW q \in Paths, Rename(w, p, q)
      PROVE  IdentityInv'
  <2> DEFINE c == [Idle EXCEPT !.op = "rename", !.path = p, !.to = q]
  <2>1. c \in WorkerType /\ c.op = "rename" /\ c.path = p /\ c.to = q
    BY DEF Idle, WorkerType, NoFile
  <2>2. /\ Begin(w, c) /\ UNCHANGED made /\ p # q /\ fileAt[p] # NoFile
        /\ fileAt' = [fileAt EXCEPT ![p] = NoFile, ![q] = fileAt[p]]
    BY <1>4 DEF Rename
  <2>3. UNCHANGED <<told, path_to_ino>> /\ \A v \in Workers : ~NamespaceOp(v)
    BY <2>2 DEF Begin, tableVars
  <2>4. FilesApart'
    BY <2>2, <2>3 DEF IdentityInv, FilesApart, TableInv, TypeOK, NoFile
  <2>5. path_to_ino[p] # NoIno /\ Together(path_to_ino[p], fileAt[p])
    BY <2>2, <2>3 DEF IdentityInv, AtRest, Touched, Touches
  <2> HIDE DEF c
  <2>6. Going(c)'
    <3>1. fileAt'[p] = NoFile /\ fileAt'[q] = fileAt[p]
      BY <2>2 DEF TableInv, TypeOK
    <3> QED  BY <2>1, <2>2, <2>3, <2>5, <3>1 DEF Going, Together, ReadingCallbacks
  <2>7. \A r \in Paths \ {c.path, c.to} : fileAt'[r] = fileAt[r]
    BY <2>1, <2>2 DEF TableInv, TypeOK
  <2> QED  BY <2>1, <2>2, <2>4, <2>6, <2>7, BeginIdentity
<1>5. ASSUME NEW w \in Workers, Reply(w) PROVE IdentityInv'
  BY <1>5, ReplyIdentity
<1>6. ASSUME NEW w \in Workers, UnlinkTable(w) \/ RenameTable(w) PROVE IdentityInv'
  BY <1>6, TableIdentity
<1>7. ASSUME UNCHANGED <<path_to_ino, fileAt, made, worker, told>> PROVE IdentityInv'
  BY <1>7 DEF IdentityInv, OneAtATime, FilesApart, AtRest, Goings, Going, IdentityFollowsFile,
              NamespaceOp, Touched, Touches, Together, Untold
<1>8. ASSUME NEW i \in Inos, NEW n \in 1..refs[i], Forget(i, n) PROVE IdentityInv'
  BY <1>7, <1>8 DEF Forget, TableForget, tableVars, spaceVars
<1>9. CASE UNCHANGED vars
  BY <1>7, <1>9 DEF vars, tableVars, spaceVars
<1> QED
  BY <1>1, <1>2, <1>3, <1>4, <1>5, <1>6, <1>8, <1>9 DEF Next

-----------------------------------------------------------------------------
(* The theorems *)

\* The table's invariant holds in every state.
LEMMA TableInvariant == Spec => []TableInv
<1>1. Init => TableInv
  BY InitTable
<1>2. TableInv /\ [Next]_vars => TableInv'
  BY StepTable
<1> QED
  BY <1>1, <1>2, PTL DEF Spec

\* Numbers, entries and references keep their types: no forget ever takes a
\* count below zero.
THEOREM InodeTypeCorrect == Spec => []TypeOK
<1>1. TableInv => TypeOK
  BY DEF TableInv
<1> QED
  BY <1>1, TableInvariant, PTL

\* path_to_ino and entries stay inverse to each other however lookups, forgets,
\* unlinks and renames follow one another: no lookup panics on a missing entry.
THEOREM TableAgreesAlways == Spec => []TableAgrees
<1>1. TableInv => TableAgrees
  BY DEF TableInv
<1> QED
  BY <1>1, TableInvariant, PTL

\* The table never frees a number the kernel may still send, even when the
\* number's name was unlinked or taken by a rename (FS-INO-3, FS-INO-5).
THEOREM KernelRefsCoveredAlways == Spec => []KernelRefsCovered
<1>1. TableInv => KernelRefsCovered
  BY DEF TableInv
<1> QED
  BY <1>1, TableInvariant, PTL

\* One number per file and one file per number, across renames and whatever
\* callbacks pass each other, in the replies nothing overtook (FS-INO-1, FS-INO-2).
THEOREM IdentityFollowsFileAlways == Spec => []IdentityFollowsFile
<1>1. IdentityInv => IdentityFollowsFile
  BY DEF IdentityInv
<1> QED
  BY <1>1, TableInvariant, InitIdentity, StepIdentity, PTL DEF Spec

\* A number that was freed is never allocated again (FS-INO-4).
THEOREM NumbersNeverReusedAlways == Spec => NumbersNeverReused
<1> DEFINE Kept == \A i \in Inos : i < next_ino /\ i \notin live => i \notin live'
<1>1. TableInv /\ [Next]_vars => [Kept]_vars
  <2> SUFFICES ASSUME TableInv, Next PROVE Kept
    OBVIOUS
  <2> USE DEF Next, TableInv
  <2>1. ASSUME NEW p \in Paths, TableLookup(p) PROVE Kept
    BY <2>1, InoBounds DEF TableLookup, Number, TypeOK, Inos
  <2>2. ASSUME live' \subseteq live PROVE Kept
    BY <2>2
  <2>3. ASSUME NEW w \in Workers, Reply(w) PROVE Kept
    BY <2>1, <2>3 DEF Reply, PathsOfOps, ReadingCallbacks
  <2>4. ASSUME NEW w \in Workers, UnlinkTable(w) \/ RenameTable(w) PROVE live' \subseteq live
    BY <2>4 DEF UnlinkTable, RenameTable, TableUnlink, TableRename, tableVars
  <2>5. ASSUME NEW i \in Inos, NEW n \in 1..refs[i], Forget(i, n) PROVE live' \subseteq live
    BY <2>5 DEF Forget, TableForget, tableVars
  <2>6. ASSUME NEW w \in Workers, NEW p \in Paths,
               (\E op \in Callbacks : Resolve(w, op, p)) \/ Create(w, p) \/ Unlink(w, p)
                 \/ \E q \in Paths : Rename(w, p, q)
        PROVE  live' \subseteq live
    BY <2>6 DEF Resolve, Create, Unlink, Rename, Begin, tableVars
  <2> QED
    BY <2>2, <2>3, <2>4, <2>5, <2>6
<1> QED
  BY <1>1, TableInvariant, PTL DEF Spec, NumbersNeverReused

=============================================================================

-------------------------- MODULE OverlayStoreProofs --------------------------
(* What OverlayStore keeps for any paths, workers, callbacks and faults.       *)
EXTENDS OverlayStore, SequenceTheorems, TLAPS

-----------------------------------------------------------------------------
(* Lists of calls, taken apart at the front. *)

Then(a, rest) == <<a>> \o rest
Items(s) == {s[k] : k \in DOMAIN s}
IsList(s) == \E S : s \in Seq(S)

LEMMA ThenParts ==
  ASSUME NEW a, NEW rest, IsList(rest)
  PROVE  /\ IsList(Then(a, rest)) /\ Then(a, rest) # <<>>
         /\ Head(Then(a, rest)) = a /\ Tail(Then(a, rest)) = rest
         /\ Items(Then(a, rest)) = {a} \union Items(rest)
<1>1. PICK S : rest \in Seq(S)
  BY DEF IsList
<1> DEFINE T == S \union {a}
<1>2. rest \in Seq(T) /\ a \in T
  BY <1>1, SeqMonotonic, Zenon
<1> HIDE DEF T
<1>3. Then(a, rest) \in Seq(T) /\ Len(Then(a, rest)) = Len(rest) + 1 /\ Then(a, rest)[1] = a
      /\ \A k \in 1 .. Len(rest) : Then(a, rest)[k + 1] = rest[k]
  BY <1>2 DEF Then
<1>4. Then(a, rest) # <<>> /\ Head(Then(a, rest)) = a
  BY <1>3
<1>5. Tail(Then(a, rest)) = rest
  BY <1>2, <1>3
<1>6. Items(Then(a, rest)) = {a} \union Items(rest)
  <2>1. DOMAIN rest = 1 .. Len(rest) /\ DOMAIN Then(a, rest) = 1 .. (Len(rest) + 1) /\ Len(rest) \in Nat
    BY <1>2, <1>3
  <2>2. ASSUME NEW k \in DOMAIN Then(a, rest) PROVE Then(a, rest)[k] \in {a} \union Items(rest)
    <3>1. CASE k = 1  BY <1>3, <3>1
    <3>2. CASE k # 1
      <4>1. k - 1 \in 1 .. Len(rest) /\ (k - 1) + 1 = k
        BY <2>1, <3>2
      <4> QED  BY <4>1, <1>3, <2>1 DEF Items
    <3> QED  BY <3>1, <3>2
  <2>3. a \in Items(Then(a, rest))
    <3>1. 1 \in DOMAIN Then(a, rest)  BY <2>1
    <3> QED  BY <3>1, <1>3 DEF Items
  <2>4. ASSUME NEW k \in DOMAIN rest PROVE rest[k] \in Items(Then(a, rest))
    <3>1. k + 1 \in DOMAIN Then(a, rest)  BY <2>1
    <3> QED  BY <3>1, <1>3, <2>1 DEF Items
  <2> QED  BY <2>2, <2>3, <2>4 DEF Items
<1> QED  BY <1>3, <1>4, <1>5, <1>6 DEF IsList

LEMMA Front ==
  ASSUME NEW s, IsList(s), s # <<>>
  PROVE  /\ IsList(Tail(s)) /\ s = Then(Head(s), Tail(s))
         /\ Head(s) \in Items(s) /\ Items(Tail(s)) \subseteq Items(s)
<1>1. PICK S : s \in Seq(S)
  BY DEF IsList
<1>2. Tail(s) \in Seq(S) /\ Head(s) \in S /\ s = <<Head(s)>> \o Tail(s)
  <2>1. Tail(s) \in Seq(S) /\ Head(s) \in S /\ Len(s) \in Nat /\ Len(s) >= 1
        /\ Len(Tail(s)) = Len(s) - 1 /\ \A i \in 1 .. Len(Tail(s)) : Tail(s)[i] = s[i + 1]
        /\ Head(s) = s[1]
    BY <1>1
  <2> DEFINE u == <<Head(s)>> \o Tail(s)
  <2>2. u \in Seq(S) /\ Len(u) = Len(s) /\ \A i \in 1 .. Len(s) : u[i] = s[i]
    BY <2>1
  <2> HIDE DEF u
  <2>3. u = s
    BY <1>1, <2>2, SeqEqual
  <2> QED  BY <2>1, <2>3 DEF u
<1>3. IsList(Tail(s)) /\ s = Then(Head(s), Tail(s))
  BY <1>2 DEF IsList, Then
<1>4. Items(s) = {Head(s)} \union Items(Tail(s))
  BY <1>3, ThenParts
<1> QED  BY <1>3, <1>4

LEMMA EmptyList == IsList(<<>>) /\ Items(<<>>) = {}
<1>1. <<>> \in Seq({}) /\ DOMAIN <<>> = {}
  OBVIOUS
<1> QED  BY <1>1 DEF IsList, Items

LEMMA Joined ==
  ASSUME NEW s, NEW t, IsList(s), IsList(t)
  PROVE  \E S : s \in Seq(S) /\ t \in Seq(S)
<1>1. PICK S : s \in Seq(S)  BY DEF IsList
<1>2. PICK T : t \in Seq(T)  BY DEF IsList
<1>3. s \in Seq(S \union T) /\ t \in Seq(S \union T)
  BY <1>1, <1>2, SeqMonotonic, Zenon
<1> QED  BY <1>3

LEMMA ThenJoin ==
  ASSUME NEW a, NEW s, NEW t, IsList(s), IsList(t)
  PROVE  Then(a, s) \o t = Then(a, s \o t)
<1>1. PICK S : s \in Seq(S) /\ t \in Seq(S)
  BY Joined
<1> DEFINE T == S \union {a}
<1>2. s \in Seq(T) /\ t \in Seq(T) /\ <<a>> \in Seq(T)
  <2>1. s \in Seq(T) /\ t \in Seq(T) /\ a \in T
    BY <1>1, SeqMonotonic, Zenon
  <2> QED  BY <2>1
<1> HIDE DEF T
<1> QED  BY <1>2, ConcatAssociative DEF Then

LEMMA OneCall ==
  ASSUME NEW a
  PROVE  <<a>> = Then(a, <<>>)
<1>1. <<a>> \in Seq({a})
  OBVIOUS
<1> QED  BY <1>1, ConcatEmptySeq DEF Then

LEMMA TwoCalls ==
  ASSUME NEW a, NEW b
  PROVE  <<a, b>> = Then(a, Then(b, <<>>))
<1> DEFINE u == <<a>> \o <<b>>
           v == <<a, b>>
<1>1. u \in Seq({a, b}) /\ Len(u) = 2 /\ u[1] = a /\ u[2] = b
  OBVIOUS
<1>2. v \in Seq({a, b}) /\ Len(v) = 2 /\ v[1] = a /\ v[2] = b
  OBVIOUS
<1>3. \A i \in 1 .. 2 : u[i] = v[i]
  BY <1>1, <1>2
<1>4. u = Then(a, Then(b, <<>>))
  BY OneCall DEF Then
<1> HIDE DEF u, v
<1>5. u = v
  BY <1>1, <1>2, <1>3, SeqEqual
<1> QED  BY <1>4, <1>5 DEF v

LEMMA ThreeCalls ==
  ASSUME NEW a, NEW b, NEW c
  PROVE  <<a, b, c>> = Then(a, Then(b, Then(c, <<>>)))
<1> DEFINE u == <<a>> \o <<b, c>>
           v == <<a, b, c>>
<1>1. u \in Seq({a, b, c}) /\ Len(u) = 3 /\ u[1] = a /\ u[2] = b /\ u[3] = c
  OBVIOUS
<1>2. v \in Seq({a, b, c}) /\ Len(v) = 3 /\ v[1] = a /\ v[2] = b /\ v[3] = c
  OBVIOUS
<1>3. \A i \in 1 .. 3 : u[i] = v[i]
  BY <1>1, <1>2
<1>4. u = Then(a, Then(b, Then(c, <<>>)))
  <2>1. <<b, c>> = Then(b, Then(c, <<>>))
    BY TwoCalls
  <2> QED  BY <2>1 DEF Then
<1> HIDE DEF u, v
<1>5. u = v
  BY <1>1, <1>2, <1>3, SeqEqual
<1> QED  BY <1>4, <1>5 DEF v

LEMMA EmptyJoin ==
  ASSUME NEW t, IsList(t)
  PROVE  <<>> \o t = t
<1>1. PICK S : t \in Seq(S)
  BY DEF IsList
<1> QED  BY <1>1, ConcatEmptySeq

LEMMA OneJoin ==
  ASSUME NEW a, NEW t, IsList(t)
  PROVE  <<a>> \o t = Then(a, t)
BY DEF Then

LEMMA LastJoin ==
  ASSUME NEW a, NEW t, IsList(t)
  PROVE  Then(a, <<>>) \o t = Then(a, t)
<1>1. Then(a, <<>>) = <<a>>
  BY OneCall
<1>2. <<a>> \o t = Then(a, t)
  BY OneJoin
<1> QED  BY <1>1, <1>2, Zenon

LEMMA TwoJoin ==
  ASSUME NEW a, NEW b, NEW t, IsList(t)
  PROVE  <<a, b>> \o t = Then(a, Then(b, t))
<1>1. IsList(<<>>) /\ IsList(Then(b, <<>>))
  BY EmptyList, ThenParts
<1>2. Then(a, Then(b, <<>>)) \o t = Then(a, Then(b, <<>>) \o t)
  BY <1>1, ThenJoin
<1>3. Then(b, <<>>) \o t = Then(b, t)
  BY <1>1, LastJoin
<1> QED  BY <1>2, <1>3, TwoCalls

-----------------------------------------------------------------------------
(* The overlay's operations in that form. *)

StagedPut(p, e, rest) == Then(Call("publish", p, e), Then(Call("insert", p, e), rest))
PutThen(p, e, rest)   == Then(Call("stage", p, e), StagedPut(p, e, rest))
Entombed(p)           == Then(Call("drop", p, None), PutThen(p, Tomb, <<>>))
Rekeyed(s, e, rest)   == Then(Call("unpersist", s, None), Then(Call("rekey", s, e), rest))
Moved(s, d, e, rest)  == Then(Call("publish", d, e), Rekeyed(s, e, rest))
Moves(s, d, e, rest)  == Then(Call("stage", d, e), Moved(s, d, e, rest))

LEMMA PutList ==
  ASSUME NEW p, NEW e, NEW t, IsList(t)
  PROVE  /\ Put(p, e) \o t = PutThen(p, e, t)
         /\ Put(p, e) = PutThen(p, e, <<>>)
         /\ IsList(PutThen(p, e, t))
<1> DEFINE a == Call("stage", p, e)
           b == Call("publish", p, e)
           c == Call("insert", p, e)
<1> HIDE DEF a, b, c
<1>1. /\ IsList(<<>>) /\ IsList(Then(c, <<>>)) /\ IsList(Then(b, Then(c, <<>>)))
      /\ IsList(Then(c, t)) /\ IsList(Then(b, Then(c, t))) /\ IsList(Then(a, Then(b, Then(c, t))))
  BY EmptyList, ThenParts
<1>2. <<a, b>> \o <<c>> = Then(a, Then(b, Then(c, <<>>)))
  <2>1. <<c>> = Then(c, <<>>)
    BY OneCall
  <2>2. <<a, b>> \o Then(c, <<>>) = Then(a, Then(b, Then(c, <<>>)))
    BY <1>1, TwoJoin
  <2> QED  BY <2>1, <2>2, Zenon
<1>3. Then(a, Then(b, Then(c, <<>>))) \o t = Then(a, Then(b, Then(c, t)))
  <2>1. Then(a, Then(b, Then(c, <<>>))) \o t = Then(a, Then(b, Then(c, <<>>)) \o t)
    BY <1>1, ThenJoin
  <2>2. Then(b, Then(c, <<>>)) \o t = Then(b, Then(c, <<>>) \o t)
    BY <1>1, ThenJoin
  <2>3. Then(c, <<>>) \o t = Then(c, t)
    BY <1>1, LastJoin
  <2> QED  BY <2>1, <2>2, <2>3
<1> QED  BY <1>1, <1>2, <1>3 DEF Put, Persist, PutThen, StagedPut, a, b, c

LEMMA CreateList ==
  ASSUME NEW p, NEW id, NEW x, NEW seed
  PROVE  \E a : /\ a.do = "content" /\ a.path = p /\ a.entry = File(id, x) /\ a.val = seed
                /\ CreateFile(p, id, x, seed) = Then(a, PutThen(p, File(id, x), <<>>))
<1> DEFINE a == [Call("content", p, File(id, x)) EXCEPT !.val = seed]
<1>1. a.do = "content" /\ a.path = p /\ a.entry = File(id, x) /\ a.val = seed
  BY DEF Call
<1>2. CreateFile(p, id, x, seed) = Then(a, PutThen(p, File(id, x), <<>>))
  BY EmptyList, PutList, OneJoin DEF CreateFile
<1> QED  BY <1>1, <1>2

LEMMA RemovalLists ==
  ASSUME NEW p
  PROVE  /\ Tombstone(p) = Entombed(p)
         /\ Clear(p) = Then(Call("drop", p, None),
                            Then(Call("unpersist", p, None), Then(Call("insert", p, None), <<>>)))
<1>1. Tombstone(p) = Entombed(p)
  BY EmptyList, PutList, OneJoin DEF Tombstone, Entombed
<1>2. Clear(p) = Then(Call("drop", p, None),
                      Then(Call("unpersist", p, None), Then(Call("insert", p, None), <<>>)))
  BY ThreeCalls DEF Clear
<1> QED  BY <1>1, <1>2

LEMMA FourJoin ==
  ASSUME NEW x, NEW y, NEW z, NEW b, NEW t, IsList(t)
  PROVE  Then(x, Then(y, Then(z, Then(b, <<>>)))) \o t = Then(x, Then(y, Then(z, Then(b, t))))
<1>1. IsList(Then(b, <<>>)) /\ IsList(Then(z, Then(b, <<>>))) /\ IsList(Then(y, Then(z, Then(b, <<>>))))
  BY EmptyList, ThenParts
<1>2. Then(b, <<>>) \o t = Then(b, t)
  BY LastJoin
<1>3. Then(z, Then(b, <<>>)) \o t = Then(z, Then(b, <<>>) \o t)
  BY <1>1, ThenJoin
<1>4. Then(y, Then(z, Then(b, <<>>))) \o t = Then(y, Then(z, Then(b, <<>>)) \o t)
  BY <1>1, ThenJoin
<1>5. Then(x, Then(y, Then(z, Then(b, <<>>)))) \o t = Then(x, Then(y, Then(z, Then(b, <<>>))) \o t)
  BY <1>1, ThenJoin
<1> QED  BY <1>2, <1>3, <1>4, <1>5

LEMMA TwoNames ==
  ASSUME NEW s \in Paths, NEW d \in Paths
  PROVE  /\ index[s].kind # "none" =>
              RenameCalls(s, d) = Moves(s, d, index[s], IF s \in Baseline THEN Entombed(s) ELSE <<>>)
         /\ index[s].kind = "none" => RenameCalls(s, d) = PutThen(d, BaseRef(s, FALSE), Entombed(s))
<1>1. IsList(<<>>) /\ IsList(Entombed(s)) /\ Tombstone(s) = Entombed(s)
  BY EmptyList, PutList, ThenParts, RemovalLists DEF Entombed
<1>2. CASE index[s].kind # "none"
  <2> DEFINE rest == IF s \in Baseline THEN Tombstone(s) ELSE <<>>
             b == Call("rekey", s, index[s])
  <2> HIDE DEF b
  <2>1. IsList(rest) /\ rest = IF s \in Baseline THEN Entombed(s) ELSE <<>>
    BY <1>1
  <2> HIDE DEF rest
  <2>a. IsList(rest)
    BY <2>1
  <2>2. Rekey(s, d, index[s]) = Moves(s, d, index[s], <<>>)
    <3>1. Rekeyed(s, index[s], <<>>) = <<Call("unpersist", s, None), Call("rekey", s, index[s])>>
      BY TwoCalls DEF Rekeyed
    <3>2. IsList(Rekeyed(s, index[s], <<>>))
      BY <1>1, ThenParts DEF Rekeyed
    <3>3. Persist(d, index[s]) \o Rekeyed(s, index[s], <<>>) = Moves(s, d, index[s], <<>>)
      BY <3>2, TwoJoin DEF Persist, Moves, Moved
    <3> QED  BY <3>1, <3>3, Zenon DEF Rekey
  <2>3. Moves(s, d, index[s], <<>>) \o rest = Moves(s, d, index[s], rest)
    BY <2>a, FourJoin DEF Moves, Moved, Rekeyed
  <2>4. RenameCalls(s, d) = Rekey(s, d, index[s]) \o rest
    BY <1>2 DEF RenameCalls, rest
  <2> QED  BY <1>2, <2>1, <2>2, <2>3, <2>4
<1>3. CASE index[s].kind = "none"
  BY <1>1, <1>3, PutList DEF RenameCalls
<1> QED  BY <1>2, <1>3

LEMMA AllLists ==
  ASSUME NEW rest, IsList(rest), NEW p, NEW q, NEW e
  PROVE  /\ IsList(<<>>) /\ IsList(Entombed(p)) /\ IsList(PutThen(p, e, rest)) /\ IsList(StagedPut(p, e, rest))
         /\ IsList(Then(Call("insert", p, e), rest)) /\ IsList(Then(Call("rekey", p, e), rest))
         /\ IsList(Rekeyed(p, e, rest)) /\ IsList(Moved(p, q, e, rest)) /\ IsList(Moves(p, q, e, rest))
<1>1. IsList(<<>>) /\ \A t, f : IsList(t) => IsList(PutThen(p, f, t))
  BY EmptyList, PutList
<1>2. IsList(Entombed(p))
  BY <1>1, ThenParts DEF Entombed
<1>3. IsList(StagedPut(p, e, rest)) /\ IsList(Then(Call("insert", p, e), rest))
  BY ThenParts DEF StagedPut
<1>4. IsList(Then(Call("rekey", p, e), rest))
  BY ThenParts
<1>5. IsList(Rekeyed(p, e, rest))
  BY <1>4, ThenParts DEF Rekeyed
<1>6. IsList(Moved(p, q, e, rest))
  BY <1>5, ThenParts DEF Moved
<1>7. IsList(Moves(p, q, e, rest))
  BY <1>6, ThenParts DEF Moves
<1> QED  BY <1>1, <1>2, <1>3, <1>4, <1>5, <1>6, <1>7

-----------------------------------------------------------------------------
(* The inductive invariant. Callbacks touch only their names, and two of one   *)
(* name have marked all of their names raced.                                  *)

Fields == {"op", "path", "to", "x", "id", "todo"}
Framed ==
  /\ DOMAIN sidecar = Paths /\ DOMAIN tmp = Paths /\ DOMAIN index = Paths /\ DOMAIN mark = Paths
  /\ DOMAIN worker = Workers /\ \A w \in Workers : DOMAIN worker[w] = Fields

Finding == {"look", "resolve", "openContent"}
OnItsNames(c) ==
  /\ c.op = "idle" => c = Idle
  /\ c.op # "idle" => c.path \in Paths
  /\ c.op = "rename" => c.to \in Paths \ {c.path}
  /\ c.op # "rename" => c.to = NoPath
  /\ IsList(c.todo)
  /\ \A a \in Items(c.todo) :
       /\ a.path \in Touch(c)
       /\ a.do = "rekey" => c.op = "rename" /\ a.path = c.path
       /\ a.do \in Finding => c.op # "rename"
AllOnNames == \A w \in Workers : OnItsNames(worker[w])

Apart ==
  \A v, w \in Workers : v # w =>
    \/ Touch(worker[v]) \intersect Touch(worker[w]) = {}
    \/ \A p \in Touch(worker[v]) \union Touch(worker[w]) : mark[p] = "raced"

\* Where a callback that met no other is in its list, and what its names hold.
AtRest(p) == sidecar[p] = index[p] /\ tmp[p] = None

Putting(t, p, e, rest) ==
  \/ AtRest(p) /\ t = PutThen(p, e, rest)
  \/ tmp[p] = e /\ t = StagedPut(p, e, rest)
  \/ sidecar[p] = e /\ tmp[p] = None /\ t = Then(Call("insert", p, e), rest)

Clearing(p) == Then(Call("unpersist", p, None), Then(Call("insert", p, None), <<>>))

OneNamed(t, p) ==
  \/ AtRest(p) /\ t = <<>>
  \/ AtRest(p) /\ \E do \in Finding : t = Then(Call(do, p, None), <<>>)
  \/ AtRest(p) /\ \E a, e : a.do \in {"content", "drop"} /\ t = Then(a, PutThen(p, e, <<>>))
  \/ \E e : Putting(t, p, e, <<>>)
  \/ AtRest(p) /\ t \in {Then(Call("drop", p, None), Clearing(p)), Clearing(p)}

TwoNamed(t, s, d) ==
  \/ \E e, rest : rest \in {<<>>, Entombed(s)} /\
       \/ AtRest(s) /\ AtRest(d) /\ t = Moves(s, d, e, rest)
       \/ AtRest(s) /\ tmp[d] = e /\ t = Moved(s, d, e, rest)
       \/ AtRest(s) /\ sidecar[d] = e /\ tmp[d] = None /\ t = Rekeyed(s, e, rest)
       \/ /\ sidecar[s] = None /\ tmp[s] = None /\ sidecar[d] = e /\ tmp[d] = None
          /\ t = Then(Call("rekey", s, e), rest)
  \/ AtRest(s) /\ \E e : Putting(t, d, e, Entombed(s))
  \/ AtRest(s) /\ AtRest(d) /\ t = Entombed(s)
  \/ AtRest(d) /\ Putting(t, s, Tomb, <<>>)
  \/ AtRest(s) /\ AtRest(d) /\ t = <<>> /\ index[s] \in {None, Tomb}

InStep(c) ==
  c.op # "idle" /\ (\A p \in Touch(c) : mark[p] = "clear") =>
    IF c.op = "rename" THEN TwoNamed(c.todo, c.path, c.to) ELSE OneNamed(c.todo, c.path)

DurableInv ==
  /\ Framed /\ AllOnNames /\ Apart
  /\ \A w \in Workers : InStep(worker[w])
  /\ SettledIsDurable

-----------------------------------------------------------------------------
(* A call of a worker. *)

Works(w) ==
  \/ Look(w) \/ CopyUp(w) \/ OpenContent(w) \/ Content(w) \/ Stage(w) \/ Publish(w)
  \/ Insert(w) \/ IndexRekey(w) \/ DropContent(w) \/ Unpersist(w)

storeVars == <<sidecar, tmp, index>>

\* What the call at the front does to the store and to the list.
Effect(w, a, rest) ==
  /\ a.do \in {"content", "drop"} => UNCHANGED storeVars /\ worker'[w].todo = rest
  /\ a.do = "stage" =>
       /\ UNCHANGED <<sidecar, index>> /\ tmp' = [tmp EXCEPT ![a.path] = a.entry]
       /\ worker'[w].todo = rest
  /\ a.do = "publish" =>
       /\ UNCHANGED index /\ worker'[w].todo = rest
       /\ sidecar' = [sidecar EXCEPT ![a.path] = tmp[a.path]] /\ tmp' = [tmp EXCEPT ![a.path] = None]
  /\ a.do = "insert" =>
       /\ UNCHANGED <<sidecar, tmp>> /\ index' = [index EXCEPT ![a.path] = a.entry]
       /\ worker'[w].todo = rest
  /\ a.do = "rekey" =>
       /\ UNCHANGED <<sidecar, tmp>> /\ worker'[w].todo = rest
       /\ index' = [index EXCEPT ![worker[w].to] = a.entry, ![a.path] = None]
  /\ a.do = "unpersist" =>
       /\ UNCHANGED <<tmp, index>> /\ sidecar' = [sidecar EXCEPT ![a.path] = None]
       /\ worker'[w].todo = rest
  /\ a.do = "look" =>
       /\ UNCHANGED storeVars
       /\ LET p == worker[w].path
          IN  \/ \E do \in {"resolve", "openContent"} : worker'[w].todo = <<Call(do, p, None)>>
              \/ index[p].kind = "file" /\ \E x : worker'[w].todo = Put(p, File(index[p].of, x))
  /\ a.do = "resolve" =>
       /\ UNCHANGED storeVars
       /\ \E x, seed : worker'[w].todo = CreateFile(worker[w].path, <<pid, seq>>, x, seed)
  /\ a.do = "openContent" => UNCHANGED storeVars /\ worker'[w].todo = <<>>
  /\ a.do \in {"content", "drop", "stage", "publish", "insert", "rekey", "unpersist"} \union Finding

\* Nothing but the list of the worker's callback, and the id it took, changes.
LEMMA Works1 ==
  ASSUME Framed, NEW w \in Workers, Works(w)
  PROVE  /\ worker[w].todo # <<>>
         /\ \A v \in Workers \ {w} : worker'[v] = worker[v]
         /\ worker'[w].op = worker[w].op /\ worker'[w].path = worker[w].path
         /\ worker'[w].to = worker[w].to
         /\ Framed' /\ UNCHANGED <<mark, pid>>
         /\ Effect(w, Head(worker[w].todo), Tail(worker[w].todo))
         /\ Head(worker[w].todo).do # "resolve" => UNCHANGED seq
         /\ Head(worker[w].todo).do = "resolve" => seq' = seq + 1
<1> USE DEF Framed, Fields
<1>0. ASSUME NEW t, NEW i,
             \/ worker' = [worker EXCEPT ![w].todo = t]
             \/ worker' = [worker EXCEPT ![w].id = i, ![w].todo = t]
      PROVE  /\ \A v \in Workers \ {w} : worker'[v] = worker[v]
             /\ worker'[w].op = worker[w].op /\ worker'[w].path = worker[w].path
             /\ worker'[w].to = worker[w].to /\ worker'[w].todo = t
             /\ DOMAIN worker' = Workers /\ \A v \in Workers : DOMAIN worker'[v] = Fields
  BY <1>0
<1>1. ASSUME NEW t, worker' = [worker EXCEPT ![w].todo = t] \/ \E i : worker' = [worker EXCEPT ![w].id = i, ![w].todo = t],
             worker[w].todo # <<>>, UNCHANGED <<mark, pid>>,
             DOMAIN sidecar' = Paths /\ DOMAIN tmp' = Paths /\ DOMAIN index' = Paths
      PROVE  /\ worker[w].todo # <<>> /\ Framed' /\ UNCHANGED <<mark, pid>> /\ worker'[w].todo = t
             /\ \A v \in Workers \ {w} : worker'[v] = worker[v]
             /\ worker'[w].op = worker[w].op /\ worker'[w].path = worker[w].path
             /\ worker'[w].to = worker[w].to
  BY <1>0, <1>1
<1>2. CASE Look(w)
  <2> DEFINE p == worker[w].path
             t == IF index[p].kind # "file" THEN <<Call("resolve", p, None)>>
                  ELSE IF worker[w].op = "chmod" THEN ChmodCalls(p, worker[w].x)
                  ELSE <<Call("openContent", p, None)>>
  <2>1. /\ worker' = [worker EXCEPT ![w].todo = t] /\ Head(worker[w].todo).do = "look"
        /\ worker[w].todo # <<>> /\ UNCHANGED <<storeVars, mark, pid, seq>>
    BY <1>2 DEF Look, Does, Next1, diskVars, ghosts, storeVars
  <2>2. \/ \E do \in {"resolve", "openContent"} : t = <<Call(do, p, None)>>
        \/ index[p].kind = "file" /\ \E x : t = Put(p, File(index[p].of, x))
    BY DEF ChmodCalls
  <2> HIDE DEF t
  <2>3. /\ Framed' /\ worker'[w].todo = t
        /\ \A v \in Workers \ {w} : worker'[v] = worker[v]
        /\ worker'[w].op = worker[w].op /\ worker'[w].path = worker[w].path
        /\ worker'[w].to = worker[w].to
    BY <1>1, <2>1 DEF storeVars
  <2>4. Effect(w, Head(worker[w].todo), Tail(worker[w].todo))
    BY <2>1, <2>2, <2>3 DEF Effect, Finding
  <2> QED  BY <2>1, <2>3, <2>4
<1>3. CASE CopyUp(w)
  <2> DEFINE c == worker[w]
             t == CreateFile(c.path, NewContentId, IF c.op = "chmod" THEN c.x ELSE Seen(c.path).x,
                             IF c.op \in Truncations THEN Empty ELSE Seen(c.path).val)
  <2>1. /\ worker' = [worker EXCEPT ![w].id = NewContentId, ![w].todo = t] /\ Head(worker[w].todo).do = "resolve"
        /\ worker[w].todo # <<>> /\ UNCHANGED <<storeVars, mark, pid>> /\ seq' = seq + 1
    BY <1>3 DEF CopyUp, Does, Next1, diskVars, ghosts, storeVars
  <2>2. \E x, seed : t = CreateFile(worker[w].path, <<pid, seq>>, x, seed)
    BY DEF NewContentId
  <2> HIDE DEF t
  <2>3. /\ Framed' /\ worker'[w].todo = t
        /\ \A v \in Workers \ {w} : worker'[v] = worker[v]
        /\ worker'[w].op = worker[w].op /\ worker'[w].path = worker[w].path
        /\ worker'[w].to = worker[w].to
    BY <1>1, <2>1 DEF storeVars
  <2>4. Effect(w, Head(worker[w].todo), Tail(worker[w].todo))
    <3>1. \E x, seed : worker'[w].todo = CreateFile(worker[w].path, <<pid, seq>>, x, seed)
      BY <2>2, <2>3
    <3> QED  BY <2>1, <3>1 DEF Effect, Finding
  <2> QED  BY <2>1, <2>3, <2>4
<1>4. CASE OpenContent(w)
  <2>1. /\ \E i : worker' = [worker EXCEPT ![w].id = i, ![w].todo = <<>>]
        /\ Head(worker[w].todo).do = "openContent"
        /\ worker[w].todo # <<>> /\ UNCHANGED <<storeVars, mark, pid, seq>>
    BY <1>4 DEF OpenContent, Does, Next1, diskVars, ghosts, storeVars
  <2> QED  BY <1>1, <2>1 DEF Effect, storeVars, Finding
<1>5. ASSUME Advance(w), worker[w].todo # <<>>, UNCHANGED <<mark, pid, seq>>,
             DOMAIN sidecar' = Paths /\ DOMAIN tmp' = Paths /\ DOMAIN index' = Paths,
             worker'[w].todo = Tail(worker[w].todo) => Effect(w, Head(worker[w].todo), Tail(worker[w].todo)),
             Head(worker[w].todo).do # "resolve"
      PROVE  /\ worker[w].todo # <<>> /\ Framed' /\ UNCHANGED <<mark, pid, seq>>
             /\ \A v \in Workers \ {w} : worker'[v] = worker[v]
             /\ worker'[w].op = worker[w].op /\ worker'[w].path = worker[w].path
             /\ worker'[w].to = worker[w].to
             /\ Effect(w, Head(worker[w].todo), Tail(worker[w].todo))
  <2>1. worker' = [worker EXCEPT ![w].todo = Tail(worker[w].todo)]
    BY <1>5 DEF Advance
  <2> QED  BY <1>1, <1>5, <2>1
<1>6. CASE Content(w) \/ DropContent(w)
  <2>1. /\ UNCHANGED <<storeVars, mark, pid, seq>> /\ Advance(w) /\ worker[w].todo # <<>>
        /\ Head(worker[w].todo).do \in {"content", "drop"}
    BY <1>6 DEF Content, DropContent, Does, Next1, diskVars, ghosts, storeVars
  <2> QED  BY <1>5, <2>1 DEF Effect, storeVars
<1>7. CASE Stage(w)
  <2>1. /\ UNCHANGED <<sidecar, index, mark, pid, seq>> /\ Advance(w) /\ worker[w].todo # <<>>
        /\ Head(worker[w].todo).do = "stage"
        /\ tmp' = [tmp EXCEPT ![Head(worker[w].todo).path] = Head(worker[w].todo).entry]
    BY <1>7 DEF Stage, Does, Next1, ghosts
  <2> QED  BY <1>5, <2>1 DEF Effect, Finding
<1>8. CASE Publish(w)
  <2> DEFINE p == Head(worker[w].todo).path
  <2>1. /\ UNCHANGED <<index, mark, pid, seq>> /\ Advance(w) /\ worker[w].todo # <<>>
        /\ Head(worker[w].todo).do = "publish"
        /\ sidecar' = [sidecar EXCEPT ![p] = tmp[p]] /\ tmp' = [tmp EXCEPT ![p] = None]
    BY <1>8 DEF Publish, Does, Next1, ghosts
  <2> QED  BY <1>5, <2>1 DEF Effect, Finding
<1>9. CASE Insert(w)
  <2>1. /\ UNCHANGED <<sidecar, tmp, mark, pid, seq>> /\ Advance(w) /\ worker[w].todo # <<>>
        /\ Head(worker[w].todo).do = "insert"
        /\ index' = [index EXCEPT ![Head(worker[w].todo).path] = Head(worker[w].todo).entry]
    BY <1>9 DEF Insert, Does, Next1, ghosts, diskVars
  <2> QED  BY <1>5, <2>1 DEF Effect, Finding
<1>10. CASE IndexRekey(w)
  <2>1. /\ UNCHANGED <<sidecar, tmp, mark, pid, seq>> /\ Advance(w) /\ worker[w].todo # <<>>
        /\ Head(worker[w].todo).do = "rekey"
        /\ index' = [index EXCEPT ![worker[w].to] = Head(worker[w].todo).entry, ![Head(worker[w].todo).path] = None]
    BY <1>10 DEF IndexRekey, Does, Next1, ghosts, diskVars
  <2> QED  BY <1>5, <2>1 DEF Effect, Finding
<1>11. CASE Unpersist(w)
  <2>1. /\ UNCHANGED <<tmp, index, mark, pid, seq>> /\ Advance(w) /\ worker[w].todo # <<>>
        /\ Head(worker[w].todo).do = "unpersist"
        /\ sidecar' = [sidecar EXCEPT ![Head(worker[w].todo).path] = None]
    BY <1>11 DEF Unpersist, Does, Next1, ghosts
  <2> QED  BY <1>5, <2>1 DEF Effect, Finding
<1> QED  BY <1>2, <1>3, <1>4, <1>6, <1>7, <1>8, <1>9, <1>10, <1>11 DEF Works

LEMMA PutItems ==
  ASSUME NEW p, NEW e, NEW rest, IsList(rest)
  PROVE  \A a \in Items(PutThen(p, e, rest)) \ Items(rest) :
           a.path = p /\ a.entry = e /\ a.do \in {"stage", "publish", "insert"}
<1> DEFINE a == Call("stage", p, e)
           b == Call("publish", p, e)
           c == Call("insert", p, e)
<1>1. \A x \in {a, b, c} : x.path = p /\ x.entry = e /\ x.do \in {"stage", "publish", "insert"}
  BY DEF Call
<1> HIDE DEF a, b, c
<1>2. IsList(Then(c, rest)) /\ IsList(Then(b, Then(c, rest)))
  BY ThenParts
<1>3. Items(Then(a, Then(b, Then(c, rest)))) = {a, b, c} \union Items(rest)
  BY <1>2, ThenParts
<1> QED  BY <1>1, <1>3 DEF PutThen, StagedPut, a, b, c

LEMMA PutAlone ==
  ASSUME NEW p, NEW e, NEW a \in Items(Put(p, e))
  PROVE  a.path = p /\ a.entry = e /\ a.do \in {"stage", "publish", "insert"}
<1>1. IsList(<<>>) /\ Items(<<>>) = {} /\ Put(p, e) = PutThen(p, e, <<>>)
  BY EmptyList, PutList
<1> QED  BY <1>1, PutItems

\* What the lists of one name hold.
LEMMA OneNameItems ==
  ASSUME NEW p, NEW a
  PROVE  /\ \A e : a \in Items(Put(p, e)) =>
              a.path = p /\ a.entry = e /\ a.do \in {"stage", "publish", "insert"}
         /\ \A id, x, seed : a \in Items(CreateFile(p, id, x, seed)) =>
              a.path = p /\ a.entry = File(id, x) /\ a.do \in {"content", "stage", "publish", "insert"}
         /\ a \in Items(Entombed(p)) \union Items(Clear(p)) =>
              a.path = p /\ a.entry \in {Tomb, None} /\ a.do \in {"drop", "unpersist", "stage", "publish", "insert"}
<1>1. IsList(<<>>) /\ Items(<<>>) = {} /\ \A e : IsList(PutThen(p, e, <<>>))
  BY EmptyList, PutList
<1>2. \A e : a \in Items(Put(p, e)) =>
        a.path = p /\ a.entry = e /\ a.do \in {"stage", "publish", "insert"}
  BY PutAlone
<1>3. ASSUME NEW id, NEW x, NEW seed, a \in Items(CreateFile(p, id, x, seed))
      PROVE  a.path = p /\ a.entry = File(id, x) /\ a.do \in {"content", "stage", "publish", "insert"}
  <2>1. PICK b : /\ b.do = "content" /\ b.path = p /\ b.entry = File(id, x)
                 /\ CreateFile(p, id, x, seed) = Then(b, PutThen(p, File(id, x), <<>>))
    BY CreateList
  <2> DEFINE L == PutThen(p, File(id, x), <<>>)
  <2>2. IsList(L) /\ a \in Items(Then(b, L))
    BY <1>1, <1>3, <2>1
  <2>3. \A c \in Items(L) : c.path = p /\ c.entry = File(id, x) /\ c.do \in {"stage", "publish", "insert"}
    BY <1>1, PutItems
  <2> HIDE DEF L
  <2>4. a = b \/ a \in Items(L)
    BY <2>2, ThenParts
  <2> QED  BY <2>1, <2>3, <2>4
<1>4. ASSUME a \in Items(Entombed(p))
      PROVE  a.path = p /\ a.entry \in {Tomb, None} /\ a.do \in {"drop", "stage", "publish", "insert"}
  <2>1. a = Call("drop", p, None) \/ a \in Items(PutThen(p, Tomb, <<>>))
    BY <1>1, <1>4, ThenParts DEF Entombed
  <2>2. a = Call("drop", p, None) => a.path = p /\ a.entry = None /\ a.do = "drop"
    BY DEF Call
  <2> QED  BY <1>1, <2>1, <2>2, PutItems
<1>5. ASSUME a \in Items(Clear(p))
      PROVE  a.path = p /\ a.entry = None /\ a.do \in {"drop", "unpersist", "insert"}
  <2> DEFINE x == Call("drop", p, None)
             y == Call("unpersist", p, None)
             z == Call("insert", p, None)
  <2>1. \A b \in {x, y, z} : b.path = p /\ b.entry = None /\ b.do \in {"drop", "unpersist", "insert"}
    BY DEF Call
  <2> HIDE DEF x, y, z
  <2>2. IsList(Then(z, <<>>)) /\ IsList(Then(y, Then(z, <<>>)))
    BY <1>1, ThenParts
  <2>3. Items(Then(x, Then(y, Then(z, <<>>)))) = {x, y, z}
    BY <1>1, <2>2, ThenParts
  <2>4. Clear(p) = Then(x, Then(y, Then(z, <<>>)))
    BY RemovalLists DEF x, y, z
  <2> QED  BY <1>5, <2>1, <2>3, <2>4
<1> QED  BY <1>2, <1>3, <1>4, <1>5

LEMMA BuiltLists ==
  ASSUME NEW p, NEW e, NEW id, NEW x, NEW seed
  PROVE  IsList(Put(p, e)) /\ IsList(CreateFile(p, id, x, seed)) /\ IsList(Clear(p)) /\ IsList(Entombed(p))
<1>1. IsList(<<>>) /\ \A f : IsList(PutThen(p, f, <<>>))
  BY EmptyList, PutList
<1>2. IsList(Put(p, e))
  <2>1. Put(p, e) = PutThen(p, e, <<>>)
    BY <1>1, PutList
  <2> QED  BY <1>1, <2>1
<1>3. IsList(CreateFile(p, id, x, seed))
  <2>1. PICK b : CreateFile(p, id, x, seed) = Then(b, PutThen(p, File(id, x), <<>>))
    BY CreateList
  <2> QED  BY <1>1, <2>1, ThenParts
<1>4. IsList(Clear(p))
  BY <1>1, ThenParts, RemovalLists
<1>5. IsList(Entombed(p))
  BY <1>1, ThenParts DEF Entombed
<1> QED  BY <1>2, <1>3, <1>4, <1>5

\* A call stays with the names of its callback.
LEMMA WorksOnNames ==
  ASSUME Framed, AllOnNames, NEW w \in Workers, Works(w)
  PROVE  /\ AllOnNames'
         /\ \A v \in Workers : Touch(worker[v])' = Touch(worker[v]) /\ worker'[v].op = worker[v].op
         /\ worker[w].op # "idle"
         /\ \A q \in Paths \ Touch(worker[w]) :
              sidecar'[q] = sidecar[q] /\ tmp'[q] = tmp[q] /\ index'[q] = index[q]
<1> DEFINE c == worker[w]
           a == Head(c.todo)
           rest == Tail(c.todo)
<1>1. /\ c.todo # <<>> /\ \A v \in Workers \ {w} : worker'[v] = worker[v]
      /\ worker'[w].op = c.op /\ worker'[w].path = c.path /\ worker'[w].to = c.to
      /\ Effect(w, a, rest)
  BY Works1
<1>2. OnItsNames(c)
  BY DEF AllOnNames
<1>3. c.op # "idle"
  BY <1>1, <1>2 DEF OnItsNames, Idle
<1>4. IsList(rest) /\ a \in Items(c.todo) /\ Items(rest) \subseteq Items(c.todo)
  BY <1>1, <1>2, Front DEF OnItsNames
<1>5. a.path \in Touch(c) /\ c.path \in Touch(c) /\ c.path \in Paths
      /\ (a.do = "rekey" => c.to \in Touch(c))
      /\ (a.do \in Finding => c.op # "rename")
  BY <1>2, <1>3, <1>4, PathAssumption DEF OnItsNames, Touch
<1>6. \A v \in Workers : Touch(worker[v])' = Touch(worker[v]) /\ worker'[v].op = worker[v].op
  BY <1>1 DEF Touch
<1> HIDE DEF a, rest
<1>7. \A q \in Paths \ Touch(c) : sidecar'[q] = sidecar[q] /\ tmp'[q] = tmp[q] /\ index'[q] = index[q]
  BY <1>1, <1>5 DEF Effect, storeVars, Framed, Finding
<1>8. /\ IsList(worker'[w].todo)
      /\ \A b \in Items(worker'[w].todo) :
           /\ b.path \in Touch(c)
           /\ b.do = "rekey" => c.op = "rename" /\ b.path = c.path
           /\ b.do \in Finding => c.op # "rename"
  <2>1. CASE worker'[w].todo = rest
    BY <1>2, <1>4, <2>1 DEF OnItsNames
  <2>2. CASE \E do \in {"resolve", "openContent"} : worker'[w].todo = <<Call(do, c.path, None)>> /\ a.do = "look"
    <3>1. PICK b : worker'[w].todo = <<b>> /\ b.path = c.path /\ b.do \in {"resolve", "openContent"}
      BY <2>2 DEF Call
    <3>2. worker'[w].todo = Then(b, <<>>)
      BY <3>1, OneCall
    <3>3. IsList(worker'[w].todo) /\ Items(worker'[w].todo) = {b}
      BY <3>2, EmptyList, ThenParts
    <3> QED  BY <1>5, <2>2, <3>1, <3>3 DEF Finding
  <2>3. CASE \E e : worker'[w].todo = Put(c.path, e)
    <3>1. PICK e : worker'[w].todo = Put(c.path, e)
      BY <2>3
    <3>2. IsList(Put(c.path, e))
      BY BuiltLists
    <3>3. \A b \in Items(Put(c.path, e)) : b.path = c.path /\ b.do \in {"stage", "publish", "insert"}
      BY OneNameItems
    <3> QED  BY <1>5, <3>1, <3>2, <3>3 DEF Finding
  <2>4. CASE \E x, seed : worker'[w].todo = CreateFile(c.path, <<pid, seq>>, x, seed)
    <3>1. PICK x, seed : worker'[w].todo = CreateFile(c.path, <<pid, seq>>, x, seed)
      BY <2>4
    <3>2. IsList(CreateFile(c.path, <<pid, seq>>, x, seed))
      BY BuiltLists
    <3>3. \A b \in Items(CreateFile(c.path, <<pid, seq>>, x, seed)) :
             b.path = c.path /\ b.do \in {"content", "stage", "publish", "insert"}
      BY OneNameItems
    <3> QED  BY <1>5, <3>1, <3>2, <3>3 DEF Finding
  <2>5. CASE worker'[w].todo = <<>>
    BY <2>5, EmptyList
  <2> QED  BY <1>1, <2>1, <2>2, <2>3, <2>4, <2>5 DEF Effect, Finding
<1>9. AllOnNames'
  <2>1. OnItsNames(worker[w])'
    BY <1>1, <1>2, <1>3, <1>6, <1>8 DEF OnItsNames
  <2> QED  BY <1>1, <2>1 DEF AllOnNames, OnItsNames, Touch
<1> QED  BY <1>3, <1>6, <1>7, <1>9

-----------------------------------------------------------------------------
(* A callback that met no other goes on in step with the store. *)

LEMMA CallFields ==
  ASSUME NEW do, NEW p, NEW e
  PROVE  Call(do, p, e).do = do /\ Call(do, p, e).path = p /\ Call(do, p, e).entry = e
BY DEF Call

LEMMA EffectOf ==
  ASSUME Framed, NEW w \in Workers, Works(w), NEW do, NEW p, NEW e, NEW rest, IsList(rest),
         worker[w].todo = Then(Call(do, p, e), rest)
  PROVE  /\ do = "stage" =>
              /\ sidecar' = sidecar /\ index' = index /\ tmp' = [tmp EXCEPT ![p] = e]
              /\ worker'[w].todo = rest
         /\ do = "publish" =>
              /\ index' = index /\ worker'[w].todo = rest
              /\ sidecar' = [sidecar EXCEPT ![p] = tmp[p]] /\ tmp' = [tmp EXCEPT ![p] = None]
         /\ do = "insert" =>
              /\ sidecar' = sidecar /\ tmp' = tmp /\ index' = [index EXCEPT ![p] = e]
              /\ worker'[w].todo = rest
         /\ do = "rekey" =>
              /\ sidecar' = sidecar /\ tmp' = tmp /\ worker'[w].todo = rest
              /\ index' = [index EXCEPT ![worker[w].to] = e, ![p] = None]
         /\ do = "unpersist" =>
              /\ tmp' = tmp /\ index' = index /\ sidecar' = [sidecar EXCEPT ![p] = None]
              /\ worker'[w].todo = rest
         /\ do = "drop" => sidecar' = sidecar /\ tmp' = tmp /\ index' = index /\ worker'[w].todo = rest
<1> DEFINE a == Head(worker[w].todo)
<1>1. a = Call(do, p, e) /\ Tail(worker[w].todo) = rest
  BY ThenParts
<1>2. a.do = do /\ a.path = p /\ a.entry = e
  BY <1>1, CallFields
<1>3. Effect(w, a, Tail(worker[w].todo))
  BY Works1
<1> HIDE DEF a
<1> QED  BY <1>1, <1>2, <1>3 DEF Effect, storeVars

LEMMA Putting1 ==
  ASSUME Framed, NEW w \in Workers, Works(w), NEW p \in Paths, NEW e, NEW rest, IsList(rest),
         Putting(worker[w].todo, p, e, rest)
  PROVE  /\ \/ Putting(worker[w].todo, p, e, rest)'
            \/ AtRest(p)' /\ worker'[w].todo = rest /\ index'[p] = e
         /\ \A q \in Paths \ {p} : sidecar'[q] = sidecar[q] /\ tmp'[q] = tmp[q] /\ index'[q] = index[q]
<1> DEFINE t == worker[w].todo
<1>2. IsList(StagedPut(p, e, rest)) /\ IsList(Then(Call("insert", p, e), rest))
  BY AllLists
<1>3. CASE AtRest(p) /\ t = PutThen(p, e, rest)
  <2>1. /\ worker'[w].todo = StagedPut(p, e, rest)
        /\ sidecar' = sidecar /\ index' = index /\ tmp' = [tmp EXCEPT ![p] = e]
    BY <1>2, <1>3, EffectOf DEF PutThen
  <2> QED  BY <2>1 DEF Putting, Framed
<1>4. CASE tmp[p] = e /\ t = StagedPut(p, e, rest)
  <2>1. /\ worker'[w].todo = Then(Call("insert", p, e), rest) /\ index' = index
        /\ sidecar' = [sidecar EXCEPT ![p] = tmp[p]] /\ tmp' = [tmp EXCEPT ![p] = None]
    BY <1>2, <1>4, EffectOf DEF StagedPut
  <2> QED  BY <1>4, <2>1 DEF Putting, Framed
<1>5. CASE sidecar[p] = e /\ tmp[p] = None /\ t = Then(Call("insert", p, e), rest)
  <2>1. /\ worker'[w].todo = rest /\ sidecar' = sidecar /\ tmp' = tmp /\ index' = [index EXCEPT ![p] = e]
    BY <1>5, EffectOf
  <2> QED  BY <1>5, <2>1 DEF AtRest, Framed
<1> QED  BY <1>3, <1>4, <1>5 DEF Putting

LEMMA OneNamed1 ==
  ASSUME Framed, NEW w \in Workers, Works(w), NEW p \in Paths, worker[w].path = p,
         OneNamed(worker[w].todo, p)
  PROVE  OneNamed(worker[w].todo, p)'
<1> DEFINE t == worker[w].todo
<1>1. Effect(w, Head(t), Tail(t)) /\ t # <<>> /\ worker'[w].path = p
  BY Works1
<1>2. IsList(<<>>) /\ IsList(Clearing(p)) /\ IsList(Then(Call("insert", p, None), <<>>))
      /\ \A e : IsList(PutThen(p, e, <<>>))
  BY EmptyList, ThenParts, PutList DEF Clearing
<1>3. CASE AtRest(p) /\ \E do \in Finding : t = Then(Call(do, p, None), <<>>)
  <2>1. Head(t).do \in Finding
    BY <1>2, <1>3, ThenParts DEF Call
  <2>2. AtRest(p)'
    BY <1>1, <1>3, <2>1 DEF Effect, storeVars, AtRest, Finding
  <2>3. \/ \E do \in Finding : worker'[w].todo = <<Call(do, p, None)>>
        \/ \E e : worker'[w].todo = Put(p, e)
        \/ \E x, seed : worker'[w].todo = CreateFile(p, <<pid, seq>>, x, seed)
        \/ worker'[w].todo = <<>>
    BY <1>1, <2>1 DEF Effect, Finding
  <2>4. ASSUME NEW do \in Finding, worker'[w].todo = <<Call(do, p, None)>>
        PROVE  OneNamed(worker[w].todo, p)'
    <3>1. worker'[w].todo = Then(Call(do, p, None), <<>>)
      BY <2>4, OneCall
    <3> QED  BY <1>1, <2>2, <3>1 DEF OneNamed
  <2>5. ASSUME NEW e, worker'[w].todo = Put(p, e)
        PROVE  OneNamed(worker[w].todo, p)'
    <3>1. worker'[w].todo = PutThen(p, e, <<>>)
      BY <1>2, <2>5, PutList
    <3> QED  BY <1>1, <2>2, <3>1 DEF OneNamed, Putting
  <2>6. ASSUME NEW x, NEW seed, worker'[w].todo = CreateFile(p, <<pid, seq>>, x, seed)
        PROVE  OneNamed(worker[w].todo, p)'
    <3>1. PICK a : a.do = "content" /\ worker'[w].todo = Then(a, PutThen(p, File(<<pid, seq>>, x), <<>>))
      BY <2>6, CreateList
    <3> QED  BY <1>1, <2>2, <3>1 DEF OneNamed
  <2> QED  BY <1>1, <2>2, <2>3, <2>4, <2>5, <2>6 DEF OneNamed
<1>4. CASE AtRest(p) /\ \E a, e : a.do \in {"content", "drop"} /\ t = Then(a, PutThen(p, e, <<>>))
  <2>1. PICK a, e : a.do \in {"content", "drop"} /\ t = Then(a, PutThen(p, e, <<>>))
    BY <1>4
  <2>2. Head(t) = a /\ Tail(t) = PutThen(p, e, <<>>)
    BY <1>2, <2>1, ThenParts
  <2>3. UNCHANGED storeVars /\ worker'[w].todo = PutThen(p, e, <<>>)
    BY <1>1, <2>1, <2>2 DEF Effect
  <2> QED  BY <1>1, <1>4, <2>3 DEF OneNamed, Putting, AtRest, storeVars
<1>5. CASE \E e : Putting(t, p, e, <<>>)
  <2>1. PICK e : Putting(t, p, e, <<>>)
    BY <1>5
  <2>2. \/ Putting(worker[w].todo, p, e, <<>>)'
        \/ AtRest(p)' /\ worker'[w].todo = <<>>
    BY <1>2, <2>1, Putting1 DEF Putting, AtRest
  <2> QED  BY <1>1, <2>2 DEF OneNamed
<1>6. CASE AtRest(p) /\ t = Then(Call("drop", p, None), Clearing(p))
  <2>1. sidecar' = sidecar /\ tmp' = tmp /\ index' = index /\ worker'[w].todo = Clearing(p)
    BY <1>2, <1>6, EffectOf
  <2> QED  BY <1>1, <1>6, <2>1 DEF OneNamed, AtRest
<1>7. CASE AtRest(p) /\ t = Clearing(p)
  <2>1. /\ tmp' = tmp /\ index' = index /\ sidecar' = [sidecar EXCEPT ![p] = None]
        /\ worker'[w].todo = Then(Call("insert", p, None), <<>>)
    BY <1>2, <1>7, EffectOf DEF Clearing
  <2>2. Putting(worker[w].todo, p, None, <<>>)'
    BY <1>1, <1>7, <2>1 DEF Putting, AtRest, Framed
  <2> QED  BY <1>1, <2>2 DEF OneNamed
<1> QED  BY <1>1, <1>3, <1>4, <1>5, <1>6, <1>7 DEF OneNamed

LEMMA TwoNamed1 ==
  ASSUME Framed, NEW w \in Workers, Works(w), NEW s \in Paths, NEW d \in Paths, s # d,
         worker[w].to = d, TwoNamed(worker[w].todo, s, d)
  PROVE  TwoNamed(worker[w].todo, s, d)'
<1> DEFINE t == worker[w].todo
<1>2. IsList(<<>>) /\ IsList(Entombed(s))
  BY EmptyList, AllLists DEF Entombed
<1>3. ASSUME NEW e, NEW rest, rest \in {<<>>, Entombed(s)},
             \/ AtRest(s) /\ AtRest(d) /\ t = Moves(s, d, e, rest)
             \/ AtRest(s) /\ tmp[d] = e /\ t = Moved(s, d, e, rest)
             \/ AtRest(s) /\ sidecar[d] = e /\ tmp[d] = None /\ t = Rekeyed(s, e, rest)
             \/ /\ sidecar[s] = None /\ tmp[s] = None /\ sidecar[d] = e /\ tmp[d] = None
                /\ t = Then(Call("rekey", s, e), rest)
      PROVE  TwoNamed(worker[w].todo, s, d)'
  <2>1. /\ IsList(rest) /\ IsList(Moved(s, d, e, rest)) /\ IsList(Rekeyed(s, e, rest))
        /\ IsList(Then(Call("rekey", s, e), rest))
    BY <1>2, <1>3, AllLists
  <2>2. CASE AtRest(s) /\ AtRest(d) /\ t = Moves(s, d, e, rest)
    <3>1. /\ sidecar' = sidecar /\ index' = index /\ tmp' = [tmp EXCEPT ![d] = e]
          /\ worker'[w].todo = Moved(s, d, e, rest)
      BY <2>1, <2>2, EffectOf DEF Moves
    <3>2. AtRest(s)' /\ tmp'[d] = e
      BY <2>2, <3>1 DEF AtRest, Framed
    <3> QED  BY <1>3, <3>1, <3>2 DEF TwoNamed
  <2>3. CASE AtRest(s) /\ tmp[d] = e /\ t = Moved(s, d, e, rest)
    <3>1. /\ index' = index /\ worker'[w].todo = Rekeyed(s, e, rest)
          /\ sidecar' = [sidecar EXCEPT ![d] = tmp[d]] /\ tmp' = [tmp EXCEPT ![d] = None]
      BY <2>1, <2>3, EffectOf DEF Moved
    <3>2. AtRest(s)' /\ sidecar'[d] = e /\ tmp'[d] = None
      BY <2>3, <3>1 DEF AtRest, Framed
    <3> QED  BY <1>3, <3>1, <3>2 DEF TwoNamed
  <2>4. CASE AtRest(s) /\ sidecar[d] = e /\ tmp[d] = None /\ t = Rekeyed(s, e, rest)
    <3>1. /\ tmp' = tmp /\ index' = index /\ sidecar' = [sidecar EXCEPT ![s] = None]
          /\ worker'[w].todo = Then(Call("rekey", s, e), rest)
      BY <2>1, <2>4, EffectOf DEF Rekeyed
    <3>2. sidecar'[s] = None /\ tmp'[s] = None /\ sidecar'[d] = e /\ tmp'[d] = None
      BY <2>4, <3>1 DEF AtRest, Framed
    <3> QED  BY <1>3, <3>1, <3>2 DEF TwoNamed
  <2>5. CASE /\ sidecar[s] = None /\ tmp[s] = None /\ sidecar[d] = e /\ tmp[d] = None
             /\ t = Then(Call("rekey", s, e), rest)
    <3>1. /\ sidecar' = sidecar /\ tmp' = tmp /\ worker'[w].todo = rest
          /\ index' = [index EXCEPT ![d] = e, ![s] = None]
      BY <2>1, <2>5, EffectOf
    <3>2. AtRest(s)' /\ AtRest(d)' /\ index'[s] = None
      BY <2>5, <3>1 DEF AtRest, Framed
    <3> QED  BY <1>3, <3>1, <3>2 DEF TwoNamed
  <2> QED  BY <1>3, <2>2, <2>3, <2>4, <2>5
<1>4. CASE AtRest(s) /\ \E e : Putting(t, d, e, Entombed(s))
  <2>1. PICK e : Putting(t, d, e, Entombed(s))
    BY <1>4
  <2> DEFINE rest == Entombed(s)
  <2>2. IsList(rest) /\ Putting(t, d, e, rest)
    BY <1>2, <2>1
  <2> HIDE DEF rest
  <2>3. /\ \/ Putting(worker[w].todo, d, e, rest)'
           \/ AtRest(d)' /\ worker'[w].todo = rest
        /\ sidecar'[s] = sidecar[s] /\ tmp'[s] = tmp[s] /\ index'[s] = index[s]
    BY <2>2, Putting1 DEF Putting, AtRest
  <2>4. AtRest(s)'
    BY <1>4, <2>3 DEF AtRest
  <2> QED  BY <2>3, <2>4 DEF TwoNamed, rest
<1>5. CASE AtRest(s) /\ AtRest(d) /\ t = Entombed(s)
  <2>1. sidecar' = sidecar /\ tmp' = tmp /\ index' = index /\ worker'[w].todo = PutThen(s, Tomb, <<>>)
    BY <1>2, <1>5, PutList, EffectOf DEF Entombed
  <2>2. AtRest(d)' /\ Putting(worker[w].todo, s, Tomb, <<>>)'
    BY <1>5, <2>1 DEF AtRest, Putting
  <2> QED  BY <2>2 DEF TwoNamed
<1>6. CASE AtRest(d) /\ Putting(t, s, Tomb, <<>>)
  <2>1. /\ \/ Putting(worker[w].todo, s, Tomb, <<>>)'
           \/ AtRest(s)' /\ worker'[w].todo = <<>> /\ index'[s] = Tomb
        /\ sidecar'[d] = sidecar[d] /\ tmp'[d] = tmp[d] /\ index'[d] = index[d]
    BY <1>2, <1>6, Putting1 DEF Putting, AtRest
  <2>2. AtRest(d)'
    BY <1>6, <2>1 DEF AtRest
  <2> QED  BY <2>1, <2>2 DEF TwoNamed
<1>7. t # <<>>
  BY Works1
<1> QED  BY <1>3, <1>4, <1>5, <1>6, <1>7 DEF TwoNamed

LEMMA InStep1 ==
  ASSUME Framed, AllOnNames, NEW w \in Workers, Works(w), InStep(worker[w])
  PROVE  InStep(worker[w])'
<1>1. /\ worker'[w].op = worker[w].op /\ worker'[w].path = worker[w].path
      /\ worker'[w].to = worker[w].to /\ mark' = mark /\ Touch(worker[w])' = Touch(worker[w])
      /\ worker[w].op # "idle"
  BY Works1, WorksOnNames
<1>2. worker[w].path \in Paths /\ (worker[w].op = "rename" => worker[w].to \in Paths \ {worker[w].path})
  BY <1>1 DEF AllOnNames, OnItsNames
<1> SUFFICES ASSUME \A p \in Touch(worker[w]) : mark[p] = "clear"
             PROVE  InStep(worker[w])'
  BY <1>1 DEF InStep
<1>3. CASE worker[w].op = "rename"
  <2>1. TwoNamed(worker[w].todo, worker[w].path, worker[w].to)
    BY <1>1, <1>3 DEF InStep
  <2>2. PICK s, d : s = worker[w].path /\ d = worker[w].to
    OBVIOUS
  <2>3. TwoNamed(worker[w].todo, s, d)'
    BY <1>2, <1>3, <2>1, <2>2, TwoNamed1
  <2> QED  BY <1>1, <1>3, <2>2, <2>3 DEF InStep
<1>4. CASE worker[w].op # "rename"
  <2>1. PICK p : p = worker[w].path
    OBVIOUS
  <2>2. OneNamed(worker[w].todo, p)'
    BY <1>1, <1>2, <1>4, <2>1, OneNamed1 DEF InStep
  <2> QED  BY <1>1, <1>4, <2>1, <2>2 DEF InStep
<1> QED  BY <1>3, <1>4

-----------------------------------------------------------------------------
(* Every step keeps the invariant. *)

\* Steps of others at other names do not put a callback out of step.
LEMMA InStepKept ==
  ASSUME NEW v \in Workers, OnItsNames(worker[v]), worker'[v] = worker[v],
         \A q \in Touch(worker[v]) :
           /\ sidecar'[q] = sidecar[q] /\ tmp'[q] = tmp[q] /\ index'[q] = index[q]
           /\ mark[q] = "clear" \/ mark'[q] # "clear",
         InStep(worker[v])
  PROVE  InStep(worker[v])'
<1> SUFFICES ASSUME worker[v].op # "idle", \A q \in Touch(worker[v]) : mark'[q] = "clear"
             PROVE  InStep(worker[v])'
  BY DEF InStep, Touch
<1>1. PICK s, d : s = worker[v].path /\ d = worker[v].to
  OBVIOUS
<1>2. s \in Touch(worker[v]) /\ (worker[v].op = "rename" => d \in Touch(worker[v]))
  BY <1>1, PathAssumption DEF OnItsNames, Touch
<1>3. CASE worker[v].op = "rename"
  <2>1. TwoNamed(worker[v].todo, s, d)
    BY <1>1, <1>3 DEF InStep
  <2>2. TwoNamed(worker[v].todo, s, d)'
    BY <1>2, <1>3, <2>1 DEF TwoNamed, Putting, AtRest
  <2> QED  BY <1>1, <1>3, <2>2 DEF InStep
<1>4. CASE worker[v].op # "rename"
  <2>1. OneNamed(worker[v].todo, s)
    BY <1>1, <1>4 DEF InStep
  <2>2. OneNamed(worker[v].todo, s)'
    BY <1>2, <2>1 DEF OneNamed, Putting, AtRest
  <2> QED  BY <1>1, <1>4, <2>2 DEF InStep
<1> QED  BY <1>3, <1>4

LEMMA WorksDurable ==
  ASSUME DurableInv, NEW w \in Workers, Works(w)
  PROVE  DurableInv'
<1>1. /\ \A v \in Workers \ {w} : worker'[v] = worker[v]
      /\ Framed' /\ mark' = mark /\ AllOnNames'
      /\ \A v \in Workers : Touch(worker[v])' = Touch(worker[v])
      /\ worker[w].op # "idle"
      /\ \A q \in Paths \ Touch(worker[w]) :
           sidecar'[q] = sidecar[q] /\ tmp'[q] = tmp[q] /\ index'[q] = index[q]
  BY Works1, WorksOnNames DEF DurableInv
<1>2. Apart'
  BY <1>1 DEF DurableInv, Apart
<1>3. ASSUME NEW v \in Workers PROVE InStep(worker[v])'
  <2>1. CASE v = w
    BY <2>1, InStep1 DEF DurableInv
  <2>2. CASE v # w /\ Touch(worker[v]) \intersect Touch(worker[w]) = {}
    <3>1. Touch(worker[v]) \subseteq Paths
      BY PathAssumption DEF DurableInv, AllOnNames, OnItsNames, Touch, Idle
    <3>2. OnItsNames(worker[v]) /\ InStep(worker[v])
      BY DEF DurableInv, AllOnNames
    <3>3. \A q \in Touch(worker[v]) :
            /\ sidecar'[q] = sidecar[q] /\ tmp'[q] = tmp[q] /\ index'[q] = index[q]
            /\ mark[q] = "clear" \/ mark'[q] # "clear"
      BY <1>1, <2>2, <3>1
    <3> QED  BY <1>1, <2>2, <3>2, <3>3, InStepKept
  <2>3. CASE v # w /\ \A q \in Touch(worker[v]) : mark[q] = "raced"
    <3>1. worker'[v] = worker[v] /\ \A q \in Touch(worker[v]) : mark'[q] = "raced"
      BY <1>1, <2>3
    <3>2. worker[v].op # "idle" => worker[v].path \in Touch(worker[v])
      BY PathAssumption DEF DurableInv, AllOnNames, OnItsNames, Touch
    <3> QED  BY <3>1, <3>2 DEF InStep, Touch
  <2> QED  BY <2>1, <2>2, <2>3 DEF DurableInv, Apart
<1>4. SettledIsDurable'
  BY <1>1 DEF DurableInv, SettledIsDurable, Settled, Quiet
<1> QED  BY <1>1, <1>2, <1>3, <1>4 DEF DurableInv

LEMMA NotEmpty ==
  ASSUME NEW t, NEW p, NEW e, NEW rest, IsList(rest), Putting(t, p, e, rest)
  PROVE  t # <<>> /\ Head(t).do \in {"stage", "publish", "insert"}
<1>1. IsList(StagedPut(p, e, rest)) /\ IsList(Then(Call("insert", p, e), rest))
  BY AllLists
<1>2. t # <<>> /\ \E do \in {"stage", "publish", "insert"} : Head(t) = Call(do, p, e)
  BY <1>1, ThenParts DEF Putting, PutThen, StagedPut
<1> QED  BY <1>2, CallFields

\* Before its first change and after its last call, a callback's names are at rest.
LEMMA OneNamedEnds ==
  ASSUME NEW t, NEW p, OneNamed(t, p), t = <<>> \/ Head(t).do \in Finding
  PROVE  AtRest(p)
<1>1. IsList(<<>>)
  BY EmptyList
<1>2. \A e : ~Putting(t, p, e, <<>>)
  BY <1>1, NotEmpty DEF Finding
<1> QED  BY <1>2 DEF OneNamed

LEMMA TwoNamedEnds ==
  ASSUME NEW s, NEW d, TwoNamed(<<>>, s, d)
  PROVE  AtRest(s) /\ AtRest(d) /\ index[s] \in {None, Tomb}
<1>1. IsList(<<>>) /\ IsList(Entombed(s))
  BY BuiltLists, EmptyList
<1>2. \A e : ~Putting(<<>>, d, e, Entombed(s)) /\ ~Putting(<<>>, s, Tomb, <<>>)
  BY <1>1, NotEmpty
<1>3. Entombed(s) # <<>>
  BY <1>1, PutList, ThenParts DEF Entombed
<1>4. ASSUME NEW e, NEW rest \in {<<>>, Entombed(s)}
      PROVE  <<>> \notin {Moves(s, d, e, rest), Moved(s, d, e, rest), Rekeyed(s, e, rest), Then(Call("rekey", s, e), rest)}
  <2>1. /\ IsList(rest) /\ IsList(Moved(s, d, e, rest)) /\ IsList(Rekeyed(s, e, rest))
        /\ IsList(Then(Call("rekey", s, e), rest))
    BY <1>1, AllLists
  <2>2. <<>> # Moves(s, d, e, rest)
    BY <2>1, ThenParts DEF Moves
  <2>3. <<>> # Moved(s, d, e, rest)
    BY <2>1, ThenParts DEF Moved
  <2>4. <<>> # Rekeyed(s, e, rest) /\ <<>> # Then(Call("rekey", s, e), rest)
    BY <2>1, ThenParts DEF Rekeyed
  <2> QED  BY <2>2, <2>3, <2>4
<1> QED  BY <1>2, <1>3, <1>4 DEF TwoNamed

LEMMA AtEnd ==
  ASSUME NEW w \in Workers, OnItsNames(worker[w]), InStep(worker[w]), worker[w].op # "idle", worker[w].todo = <<>>,
         \A q \in Touch(worker[w]) : mark[q] = "clear"
  PROVE  /\ \A p \in Touch(worker[w]) : AtRest(p)
         /\ worker[w].op = "rename" => index[worker[w].path] \in {None, Tomb}
<1>1. PICK s, d : s = worker[w].path /\ d = worker[w].to
  OBVIOUS
<1>2. CASE worker[w].op = "rename"
  <2>1. TwoNamed(<<>>, s, d)
    BY <1>1, <1>2 DEF InStep
  <2> QED  BY <1>1, <2>1, TwoNamedEnds DEF Touch
<1>3. CASE worker[w].op # "rename"
  <2>1. OneNamed(<<>>, s)
    BY <1>1, <1>3 DEF InStep
  <2>2. AtRest(s) /\ Touch(worker[w]) \subseteq {s}
    BY <1>1, <1>3, <2>1, OneNamedEnds DEF OnItsNames, Touch
  <2> QED  BY <1>3, <2>2
<1> QED  BY <1>2, <1>3

\* A callback leaves with its names at rest, or marks them.
LEMMA EndsDurable ==
  ASSUME DurableInv, NEW w \in Workers, worker' = [worker EXCEPT ![w] = Idle],
         sidecar' = sidecar, tmp' = tmp, index' = index, DOMAIN mark' = Paths,
         \A p \in Paths : /\ mark[p] = "clear" \/ mark'[p] # "clear"
                          /\ mark[p] = "raced" => mark'[p] = "raced",
         \A p \in Touch(worker[w]) : mark'[p] = "clear" => AtRest(p)
  PROVE  DurableInv'
<1>1. /\ worker'[w] = Idle /\ \A v \in Workers \ {w} : worker'[v] = worker[v]
      /\ DOMAIN worker' = Workers
  BY DEF DurableInv, Framed
<1>2. \A v \in Workers : Touch(worker[v]) \subseteq Paths
  BY PathAssumption DEF DurableInv, AllOnNames, OnItsNames, Touch, Idle
<1>3. Touch(worker[w])' = {} /\ \A v \in Workers \ {w} : Touch(worker[v])' = Touch(worker[v])
  BY <1>1 DEF Touch, Idle
<1>4. Framed'
  BY <1>1 DEF DurableInv, Framed, Idle, Fields
<1>5. AllOnNames'
  <2>1. OnItsNames(Idle)
    BY EmptyList DEF OnItsNames, Idle
  <2>2. OnItsNames(worker[w])'
    BY <1>1, <2>1 DEF OnItsNames, Touch
  <2>3. \A v \in Workers \ {w} : OnItsNames(worker[v])'
    BY <1>1 DEF DurableInv, AllOnNames, OnItsNames, Touch
  <2> QED  BY <2>2, <2>3 DEF AllOnNames
<1>6. Apart'
  BY <1>2, <1>3 DEF DurableInv, Apart
<1>7. ASSUME NEW v \in Workers PROVE InStep(worker[v])'
  <2>1. CASE v = w
    BY <1>1, <2>1 DEF InStep, Idle
  <2>2. CASE v # w
    BY <1>1, <1>2, <2>2, InStepKept DEF DurableInv, AllOnNames
  <2> QED  BY <2>1, <2>2
<1>8. SettledIsDurable'
  BY <1>1, <1>3 DEF DurableInv, SettledIsDurable, Settled, Quiet, AtRest
<1> QED  BY <1>4, <1>5, <1>6, <1>7, <1>8 DEF DurableInv

LEMMA ReplyDurable ==
  ASSUME DurableInv, NEW w \in Workers, Reply(w)
  PROVE  DurableInv'
<1>1. /\ worker[w].op # "idle" /\ worker[w].todo = <<>> /\ worker' = [worker EXCEPT ![w] = Idle]
      /\ sidecar' = sidecar /\ tmp' = tmp /\ index' = index
      /\ mark' = [p \in Paths |->
           IF p \notin Touch(worker[w]) THEN mark[p]
           ELSE IF \E q \in Touch(worker[w]) : mark[q] = "raced" THEN "raced"
           ELSE IF \E q \in Touch(worker[w]) : mark[q] # "clear" THEN "healed"
           ELSE mark[p]]
  BY DEF Reply, diskVars
<1>2. Touch(worker[w]) \subseteq Paths
  BY PathAssumption DEF DurableInv, AllOnNames, OnItsNames, Touch, Idle
<1>3. \A p \in Touch(worker[w]) : mark'[p] = "clear" => \A q \in Touch(worker[w]) : mark[q] = "clear"
  BY <1>1, <1>2
<1>4. \A p \in Touch(worker[w]) : mark'[p] = "clear" => AtRest(p)
  BY <1>1, <1>3, AtEnd DEF DurableInv, AllOnNames
<1>5. /\ DOMAIN mark' = Paths
      /\ \A p \in Paths : /\ mark[p] = "clear" \/ mark'[p] # "clear"
                          /\ mark[p] = "raced" => mark'[p] = "raced"
  BY <1>1
<1> QED  BY <1>1, <1>4, <1>5, EndsDurable

LEMMA FailDurable ==
  ASSUME DurableInv, NEW w \in Workers, Fail(w) \/ ModifyFails(w)
  PROVE  DurableInv'
<1>1. Touch(worker[w]) \subseteq Paths
  BY PathAssumption DEF DurableInv, AllOnNames, OnItsNames, Touch, Idle
<1>2. CASE Fail(w)
  <2>1. /\ worker' = [worker EXCEPT ![w] = Idle] /\ mark' = Cut(Touch(worker[w]))
        /\ sidecar' = sidecar /\ tmp' = tmp /\ index' = index
    BY <1>2 DEF Fail, diskVars
  <2>2. /\ DOMAIN mark' = Paths
        /\ \A p \in Paths : /\ mark[p] = "clear" \/ mark'[p] # "clear"
                            /\ mark[p] = "raced" => mark'[p] = "raced"
        /\ \A p \in Touch(worker[w]) : mark'[p] # "clear"
    BY <1>1, <2>1 DEF Cut
  <2> QED  BY <2>1, <2>2, EndsDurable
<1>3. CASE ModifyFails(w)
  <2>1. /\ worker' = [worker EXCEPT ![w] = Idle] /\ mark' = mark
        /\ sidecar' = sidecar /\ tmp' = tmp /\ index' = index
        /\ worker[w].todo # <<>> /\ Head(worker[w].todo).do \in Finding
    BY <1>3 DEF ModifyFails, Does, Next1, diskVars, ghosts, Finding
  <2>2. OnItsNames(worker[w]) /\ InStep(worker[w])
    BY DEF DurableInv, AllOnNames
  <2>3. Head(worker[w].todo) \in Items(worker[w].todo)
    BY <2>1, <2>2, Front DEF OnItsNames
  <2>4. worker[w].op \notin {"idle", "rename"} /\ Touch(worker[w]) = {worker[w].path}
    BY <2>1, <2>2, <2>3, PathAssumption DEF OnItsNames, Touch, Idle
  <2>5. \A p \in Touch(worker[w]) : mark[p] = "clear" => AtRest(p)
    BY <2>1, <2>2, <2>4, OneNamedEnds DEF InStep
  <2> QED  BY <2>1, <2>5, EndsDurable DEF DurableInv, Framed
<1> QED  BY <1>2, <1>3

LEMMA BeginDurable ==
  ASSUME DurableInv, NEW w \in Workers, NEW c, Begin(w, c), OnItsNames(c), DOMAIN c = Fields,
         c.op # "idle",
         (\A p \in Touch(c) : AtRest(p)) =>
           IF c.op = "rename" THEN TwoNamed(c.todo, c.path, c.to) ELSE OneNamed(c.todo, c.path)
  PROVE  DurableInv'
<1>1. /\ worker[w] = Idle /\ worker' = [worker EXCEPT ![w] = c]
      /\ mark' = [p \in Paths |-> IF p \in Overlapped(c) THEN "raced" ELSE mark[p]]
      /\ sidecar' = sidecar /\ tmp' = tmp /\ index' = index
  BY DEF Begin, MayStart, diskVars
<1>2. /\ worker'[w] = c /\ \A v \in Workers \ {w} : worker'[v] = worker[v]
      /\ DOMAIN worker' = Workers
  BY <1>1 DEF DurableInv, Framed
<1>3. /\ \A v \in Workers : Touch(worker[v]) \subseteq Paths
      /\ Touch(c) \subseteq Paths /\ c.path \in Touch(c)
  BY PathAssumption DEF DurableInv, AllOnNames, OnItsNames, Touch, Idle
<1>4. \A v \in Workers \ {w} : Touch(worker[v]) \intersect Touch(c) # {} =>
        Touch(worker[v]) \union Touch(c) \subseteq Overlapped(c)
  BY DEF Overlapped
<1>5. \A v \in Workers \ {w} : Touch(worker[v])' = Touch(worker[v])
  BY <1>2 DEF Touch
<1>6. Touch(worker[w])' = Touch(c) /\ Touch(worker[w]) = {}
  BY <1>1, <1>2 DEF Touch, Idle
<1>7. \A p \in Paths : /\ mark[p] = "clear" \/ mark'[p] # "clear"
                       /\ mark[p] = "raced" => mark'[p] = "raced"
  BY <1>1
<1>8. Framed'
  BY <1>1, <1>2 DEF DurableInv, Framed
<1>9. AllOnNames'
  <2>1. OnItsNames(worker[w])'
    BY <1>2 DEF OnItsNames, Touch
  <2>2. \A v \in Workers \ {w} : OnItsNames(worker[v])'
    BY <1>2 DEF DurableInv, AllOnNames, OnItsNames, Touch
  <2> QED  BY <2>1, <2>2 DEF AllOnNames
<1>10. Apart'
  <2>1. ASSUME NEW u \in Workers, NEW v \in Workers, u # v
        PROVE  \/ Touch(worker[u])' \intersect Touch(worker[v])' = {}
               \/ \A p \in Touch(worker[u])' \union Touch(worker[v])' : mark'[p] = "raced"
    <3>1. CASE u # w /\ v # w
      BY <1>3, <1>5, <1>7, <2>1, <3>1 DEF DurableInv, Apart
    <3>2. CASE u = w
      BY <1>1, <1>3, <1>4, <1>5, <1>6, <2>1, <3>2
    <3>3. CASE v = w
      BY <1>1, <1>3, <1>4, <1>5, <1>6, <2>1, <3>3
    <3> QED  BY <3>1, <3>2, <3>3
  <2> QED  BY <2>1 DEF Apart
<1>11. ASSUME NEW v \in Workers PROVE InStep(worker[v])'
  <2>1. CASE v # w
    <3>1. \A q \in Touch(worker[v]) :
            /\ sidecar'[q] = sidecar[q] /\ tmp'[q] = tmp[q] /\ index'[q] = index[q]
            /\ mark[q] = "clear" \/ mark'[q] # "clear"
      BY <1>1, <1>3, <1>7
    <3> QED  BY <1>2, <2>1, <3>1, InStepKept DEF DurableInv, AllOnNames
  <2>2. CASE v = w /\ \E p \in Touch(c) : mark'[p] # "clear"
    BY <1>2, <1>6, <2>2 DEF InStep
  <2>3. CASE v = w /\ \A p \in Touch(c) : mark'[p] = "clear"
    <3>1. \A u \in Workers : Touch(worker[u]) \intersect Touch(c) = {}
      BY <1>1, <1>3, <1>4, <1>6, <2>3
    <3>2. \A p \in Touch(c) : Settled(p)
      BY <1>3, <1>7, <2>3, <3>1 DEF Settled, Quiet
    <3>3. \A p \in Touch(c) : AtRest(p)
      BY <1>3, <3>2 DEF DurableInv, SettledIsDurable, AtRest
    <3>4. IF c.op = "rename" THEN TwoNamed(c.todo, c.path, c.to) ELSE OneNamed(c.todo, c.path)
      BY <3>3
    <3>5. CASE c.op = "rename"
      <4>1. TwoNamed(c.todo, c.path, c.to)'
        BY <1>1, <3>4, <3>5 DEF TwoNamed, Putting, AtRest
      <4> QED  BY <1>2, <2>3, <3>5, <4>1 DEF InStep
    <3>6. CASE c.op # "rename"
      <4>1. OneNamed(c.todo, c.path)'
        BY <1>1, <3>4, <3>6 DEF OneNamed, Putting, AtRest
      <4> QED  BY <1>2, <2>3, <3>6, <4>1 DEF InStep
    <3> QED  BY <3>5, <3>6
  <2> QED  BY <2>1, <2>2, <2>3
<1>12. SettledIsDurable'
  <2> SUFFICES ASSUME NEW p \in Paths, Settled(p)'
               PROVE  sidecar'[p] = index'[p] /\ tmp'[p] = None
    BY DEF SettledIsDurable
  <2>1. Settled(p)
    BY <1>2, <1>5, <1>6, <1>7 DEF Settled, Quiet
  <2> QED  BY <1>1, <2>1 DEF DurableInv, SettledIsDurable
<1> QED  BY <1>8, <1>9, <1>10, <1>11, <1>12 DEF DurableInv

LEMMA RestartDurable ==
  ASSUME DurableInv, Restart
  PROVE  DurableInv'
<1> DEFINE touched == UNION {Touch(worker[w]) : w \in Workers}
<1>1. /\ worker' = [w \in Workers |-> Idle] /\ mark' = Cut(touched) /\ tmp' = tmp
      /\ \E back \in SUBSET Paths :
           sidecar' = [p \in Paths |-> IF p \in back THEN removed[p] ELSE sidecar[p]]
      /\ \E staged \in SUBSET {p \in Paths : tmp[p] # None} :
           index' = [p \in Paths |-> IF p \in staged THEN tmp[p] ELSE sidecar'[p]]
  BY DEF Restart, Replay
<1>2. \A w \in Workers : worker'[w] = Idle /\ Touch(worker[w])' = {}
  BY <1>1 DEF Touch, Idle
<1>3. Framed'
  BY <1>1 DEF DurableInv, Framed, Cut, Idle, Fields
<1>4. AllOnNames'
  <2>1. OnItsNames(Idle)
    BY EmptyList DEF OnItsNames, Idle
  <2> QED  BY <1>2, <2>1 DEF AllOnNames, OnItsNames, Touch
<1>5. Apart' /\ \A w \in Workers : InStep(worker[w])'
  BY <1>2 DEF Apart, InStep, Idle
<1>6. SettledIsDurable'
  <2> SUFFICES ASSUME NEW p \in Paths, Settled(p)'
               PROVE  sidecar'[p] = index'[p] /\ tmp'[p] = None
    BY DEF SettledIsDurable
  <2>1. mark'[p] = "clear"
    BY DEF Settled
  <2>2. p \notin touched /\ mark[p] = "clear"
    BY <1>1, <2>1 DEF Cut
  <2>3. tmp[p] = None
    BY <2>2 DEF DurableInv, SettledIsDurable, Settled, Quiet
  <2> QED  BY <1>1, <2>3
<1> QED  BY <1>3, <1>4, <1>5, <1>6 DEF DurableInv

LEMMA OneNameStarts ==
  ASSUME DurableInv, NEW w \in Workers, NEW c, Begin(w, c), NEW p \in Paths,
         c.path = p, c.to = NoPath, c.op \notin {"idle", "rename"}, DOMAIN c = Fields, IsList(c.todo),
         \A a \in Items(c.todo) : a.path = p /\ a.do # "rekey",
         AtRest(p) => OneNamed(c.todo, p)
  PROVE  DurableInv'
<1>1. Touch(c) = {p}
  BY PathAssumption DEF Touch
<1>2. OnItsNames(c)
  BY <1>1 DEF OnItsNames
<1> QED  BY <1>1, <1>2, BeginDurable

LEMMA CreateDurable ==
  ASSUME DurableInv, NEW w \in Workers, NEW p \in Paths, NEW x, Create(w, p, x)
  PROVE  DurableInv'
<1> DEFINE L == CreateFile(p, NewContentId, x, Empty)
           c == [Idle EXCEPT !.op = "create", !.path = p, !.x = x, !.id = NewContentId, !.todo = L]
<1>1. IsList(L) /\ \A a \in Items(L) : a.path = p /\ a.do # "rekey"
  BY BuiltLists, OneNameItems
<1>2. AtRest(p) => OneNamed(L, p)
  <2>1. PICK a : a.do = "content" /\ L = Then(a, PutThen(p, File(NewContentId, x), <<>>))
    BY CreateList
  <2> QED  BY <2>1 DEF OneNamed
<1> HIDE DEF L
<1>3. c.path = p /\ c.to = NoPath /\ c.op = "create" /\ DOMAIN c = Fields /\ c.todo = L
  BY DEF Idle, Fields
<1>4. Begin(w, c)
  BY DEF Create, L
<1> HIDE DEF c
<1> QED  BY <1>1, <1>2, <1>3, <1>4, OneNameStarts

LEMMA SymlinkDurable ==
  ASSUME DurableInv, NEW w \in Workers, NEW p \in Paths, PutSymlink(w, p)
  PROVE  DurableInv'
<1> DEFINE L == Put(p, Symlink)
           c == [Idle EXCEPT !.op = "symlink", !.path = p, !.todo = L]
<1>1. IsList(L) /\ \A a \in Items(L) : a.path = p /\ a.do # "rekey"
  BY BuiltLists, OneNameItems
<1>2. AtRest(p) => OneNamed(L, p)
  BY EmptyList, PutList DEF OneNamed, Putting
<1> HIDE DEF L
<1>3. c.path = p /\ c.to = NoPath /\ c.op = "symlink" /\ DOMAIN c = Fields /\ c.todo = L
  BY DEF Idle, Fields
<1>4. Begin(w, c)
  BY DEF PutSymlink, L
<1> HIDE DEF c
<1> QED  BY <1>1, <1>2, <1>3, <1>4, OneNameStarts

LEMMA UnlinkDurable ==
  ASSUME DurableInv, NEW w \in Workers, NEW p \in Paths, Unlink(w, p)
  PROVE  DurableInv'
<1> DEFINE L == UnlinkCalls(p)
           c == [Idle EXCEPT !.op = "unlink", !.path = p, !.todo = L]
<1>1. L = Entombed(p) \/ L = Clear(p)
  BY RemovalLists DEF UnlinkCalls
<1>2. IsList(L) /\ \A a \in Items(L) : a.path = p /\ a.do # "rekey"
  BY <1>1, BuiltLists, OneNameItems
<1>3. AtRest(p) => OneNamed(L, p)
  <2>1. CASE L = Entombed(p)
    <3>1. PICK a : a.do = "drop" /\ L = Then(a, PutThen(p, Tomb, <<>>))
      BY <2>1, CallFields DEF Entombed
    <3> QED  BY <3>1 DEF OneNamed
  <2>2. CASE L = Clear(p)
    BY <2>2, RemovalLists DEF OneNamed, Clearing
  <2> QED  BY <1>1, <2>1, <2>2
<1> HIDE DEF L
<1>4. c.path = p /\ c.to = NoPath /\ c.op = "unlink" /\ DOMAIN c = Fields /\ c.todo = L
  BY DEF Idle, Fields
<1>5. Begin(w, c)
  BY DEF Unlink, L
<1> HIDE DEF c
<1> QED  BY <1>2, <1>3, <1>4, <1>5, OneNameStarts

LEMMA ModifyDurable ==
  ASSUME DurableInv, NEW w \in Workers, NEW op \in Modifications, NEW p \in Paths, NEW x, Modify(w, op, p, x)
  PROVE  DurableInv'
<1> DEFINE L == <<Call("look", p, None)>>
           c == [Idle EXCEPT !.op = op, !.path = p, !.x = x, !.todo = L]
<1>1. L = Then(Call("look", p, None), <<>>)
  BY OneCall
<1>2. IsList(L) /\ \A a \in Items(L) : a.path = p /\ a.do # "rekey"
  BY <1>1, EmptyList, ThenParts, CallFields
<1>3. AtRest(p) => OneNamed(L, p)
  BY <1>1 DEF OneNamed, Finding
<1> HIDE DEF L
<1>4. c.path = p /\ c.to = NoPath /\ c.op = op /\ DOMAIN c = Fields /\ c.todo = L
  BY DEF Idle, Fields
<1>5. Begin(w, c) /\ op \notin {"idle", "rename"}
  BY DEF Modify, L, Modifications, Truncations
<1> HIDE DEF c
<1> QED  BY <1>2, <1>3, <1>4, <1>5, OneNameStarts

\* The lists of a rename hold the moved entry, or none of a file.
LEMMA MoveItems ==
  ASSUME NEW s, NEW d, NEW e, NEW rest, IsList(rest)
  PROVE  /\ IsList(Moves(s, d, e, rest))
         /\ \A a \in Items(Moves(s, d, e, rest)) \ Items(rest) :
              /\ a.path \in {s, d} /\ a.do \in {"stage", "publish", "unpersist", "rekey"}
              /\ (a.do = "rekey" => a.path = s) /\ a.entry \in {e, None}
<1> DEFINE x == Call("stage", d, e)
           y == Call("publish", d, e)
           z == Call("unpersist", s, None)
           b == Call("rekey", s, e)
<1>1. \A a \in {x, y, z, b} :
         /\ a.path \in {s, d} /\ a.do \in {"stage", "publish", "unpersist", "rekey"}
         /\ (a.do = "rekey" => a.path = s) /\ a.entry \in {e, None}
  BY CallFields
<1>2. Moves(s, d, e, rest) = Then(x, Then(y, Then(z, Then(b, rest))))
  BY DEF Moves, Moved, Rekeyed
<1> HIDE DEF x, y, z, b
<1>3. IsList(Then(b, rest)) /\ IsList(Then(z, Then(b, rest))) /\ IsList(Then(y, Then(z, Then(b, rest))))
  BY ThenParts
<1>4. /\ IsList(Then(x, Then(y, Then(z, Then(b, rest)))))
      /\ Items(Then(x, Then(y, Then(z, Then(b, rest))))) = {x, y, z, b} \union Items(rest)
  BY <1>3, ThenParts
<1> QED  BY <1>1, <1>2, <1>4

LEMMA RenameItems ==
  ASSUME NEW s \in Paths, NEW d \in Paths, s # d
  PROVE  /\ IsList(RenameCalls(s, d))
         /\ \A a \in Items(RenameCalls(s, d)) :
              /\ a.path \in {s, d} /\ a.do \notin Finding \union {"content"} /\ (a.do = "rekey" => a.path = s)
              /\ a.entry \in {index[s], BaseRef(s, FALSE), Tomb, None}
              /\ index[s].kind # "none" => a.entry \in {index[s], Tomb, None}
         /\ AtRest(s) /\ AtRest(d) => TwoNamed(RenameCalls(s, d), s, d)
<1>1. IsList(<<>>) /\ IsList(Entombed(s)) /\ Items(<<>>) = {}
  BY EmptyList, BuiltLists
<1>2. \A a \in Items(Entombed(s)) :
        a.path = s /\ a.entry \in {Tomb, None} /\ a.do \in {"drop", "unpersist", "stage", "publish", "insert"}
  BY OneNameItems
<1>3. CASE index[s].kind # "none"
  <2> DEFINE rest == IF s \in Baseline THEN Entombed(s) ELSE <<>>
  <2>1. IsList(rest) /\ \A a \in Items(rest) :
          a.path = s /\ a.entry \in {Tomb, None} /\ a.do \in {"drop", "unpersist", "stage", "publish", "insert"}
    BY <1>1, <1>2
  <2>2. RenameCalls(s, d) = Moves(s, d, index[s], rest)
    BY <1>3, TwoNames
  <2>3. AtRest(s) /\ AtRest(d) => TwoNamed(RenameCalls(s, d), s, d)
    <3>1. rest \in {<<>>, Entombed(s)}
      OBVIOUS
    <3> HIDE DEF rest
    <3> QED  BY <2>2, <3>1 DEF TwoNamed
  <2> HIDE DEF rest
  <2>4. IsList(RenameCalls(s, d)) /\ \A a \in Items(RenameCalls(s, d)) \ Items(rest) :
              /\ a.path \in {s, d} /\ a.do \in {"stage", "publish", "unpersist", "rekey"}
              /\ (a.do = "rekey" => a.path = s) /\ a.entry \in {index[s], None}
    BY <2>1, <2>2, MoveItems
  <2> QED  BY <2>1, <2>3, <2>4 DEF Finding
<1>4. CASE index[s].kind = "none"
  <2> DEFINE rest == Entombed(s)
             e == BaseRef(s, FALSE)
  <2>1. IsList(rest) /\ \A a \in Items(rest) : a.path = s /\ a.entry \in {Tomb, None}
          /\ a.do \in {"drop", "unpersist", "stage", "publish", "insert"}
    BY <1>1, <1>2
  <2>2. RenameCalls(s, d) = PutThen(d, e, rest)
    BY <1>4, TwoNames
  <2>3. AtRest(s) /\ AtRest(d) => TwoNamed(RenameCalls(s, d), s, d)
    BY <2>2 DEF TwoNamed, Putting
  <2> HIDE DEF rest
  <2>4. IsList(PutThen(d, e, rest)) /\ \A a \in Items(PutThen(d, e, rest)) \ Items(rest) :
           a.path = d /\ a.entry = e /\ a.do \in {"stage", "publish", "insert"}
    BY <2>1, PutList, PutItems
  <2> QED  BY <1>4, <2>1, <2>2, <2>3, <2>4 DEF Finding
<1> QED  BY <1>3, <1>4

LEMMA RenameDurable ==
  ASSUME DurableInv, NEW w \in Workers, NEW s \in Paths, NEW d \in Paths, Rename(w, s, d)
  PROVE  DurableInv'
<1> DEFINE L == RenameCalls(s, d)
           c == [Idle EXCEPT !.op = "rename", !.path = s, !.to = d, !.todo = L]
<1>1. s # d
  BY DEF Rename
<1>2. /\ IsList(L)
      /\ \A a \in Items(L) : a.path \in {s, d} /\ a.do \notin Finding /\ (a.do = "rekey" => a.path = s)
      /\ AtRest(s) /\ AtRest(d) => TwoNamed(L, s, d)
  BY <1>1, RenameItems, ZenonT(30)
<1> HIDE DEF L
<1>3. c.path = s /\ c.to = d /\ c.op = "rename" /\ DOMAIN c = Fields /\ c.todo = L
  BY DEF Idle, Fields
<1>4. Begin(w, c)
  BY DEF Rename, L
<1> HIDE DEF c
<1>5. Touch(c) = {s, d}
  BY <1>3, PathAssumption DEF Touch
<1>6. OnItsNames(c)
  BY <1>1, <1>2, <1>3, <1>5 DEF OnItsNames
<1> QED  BY <1>2, <1>3, <1>4, <1>5, <1>6, BeginDurable

LEMMA InitDurable == Init => DurableInv
<1> SUFFICES ASSUME Init PROVE DurableInv
  OBVIOUS
<1>1. \A w \in Workers : worker[w] = Idle /\ Touch(worker[w]) = {}
  BY DEF Init, Touch, Idle
<1>2. Framed
  BY DEF Init, Framed, Idle, Fields
<1>3. AllOnNames
  <2>1. OnItsNames(Idle)
    BY EmptyList DEF OnItsNames, Idle
  <2> QED  BY <1>1, <2>1 DEF AllOnNames
<1>4. Apart /\ (\A w \in Workers : InStep(worker[w])) /\ SettledIsDurable
  BY <1>1 DEF Init, Apart, InStep, Idle, SettledIsDurable
<1> QED  BY <1>2, <1>3, <1>4 DEF DurableInv

\* An ignored removal changes nothing but the list of its callback and the marks.
LEMMA Leftover ==
  ASSUME Framed, AllOnNames, NEW w \in Workers, UnpersistFails(w)
  PROVE  /\ Advance(w) /\ worker[w].todo # <<>> /\ Head(worker[w].todo).do \notin Finding
         /\ \A v \in Workers \ {w} : worker'[v] = worker[v]
         /\ worker'[w].op = worker[w].op /\ worker'[w].path = worker[w].path
         /\ worker'[w].id = worker[w].id
         /\ \A v \in Workers : Touch(worker[v])' = Touch(worker[v])
         /\ Framed' /\ AllOnNames'
         /\ sidecar' = sidecar /\ tmp' = tmp /\ index' = index /\ content' = content
         /\ UNCHANGED <<diskVars, pid, seq, handles, view, starts, writes, restarts>>
         /\ mark' = Cut(Touch(worker[w]))
         /\ \A q \in Paths : /\ mark[q] = "clear" \/ mark'[q] # "clear"
                             /\ mark[q] = "raced" => mark'[q] = "raced"
         /\ Touch(worker[w]) \subseteq Paths /\ \A q \in Touch(worker[w]) : mark'[q] # "clear"
         /\ Items(worker'[w].todo) \subseteq Items(worker[w].todo)
<1> DEFINE c == worker[w]
           a == Head(c.todo)
           rest == Tail(c.todo)
<1>1. /\ Advance(w) /\ c.todo # <<>> /\ a.do = "unpersist" /\ worker' = [worker EXCEPT ![w].todo = rest]
      /\ mark' = Cut(Touch(c)) /\ sidecar' = sidecar /\ tmp' = tmp /\ index' = index /\ content' = content
      /\ UNCHANGED <<diskVars, pid, seq, handles, view, starts, writes, restarts>>
  BY DEF UnpersistFails, Does, Next1, Advance, diskVars
<1>2. OnItsNames(c) /\ DOMAIN worker = Workers /\ DOMAIN c = Fields
  BY DEF AllOnNames, Framed
<1> HIDE DEF a, rest
<1>3. /\ \A v \in Workers \ {w} : worker'[v] = worker[v]
      /\ worker'[w].op = c.op /\ worker'[w].path = c.path /\ worker'[w].to = c.to /\ worker'[w].id = c.id
      /\ worker'[w].todo = rest /\ DOMAIN worker' = Workers /\ DOMAIN worker'[w] = Fields
  BY <1>1, <1>2 DEF Fields
<1>4. \A v \in Workers : Touch(worker[v])' = Touch(worker[v])
  BY <1>3 DEF Touch
<1>5. c.op # "idle" /\ Touch(c) \subseteq Paths
  BY <1>1, <1>2, PathAssumption DEF OnItsNames, Touch, Idle
<1>6. IsList(rest) /\ Items(rest) \subseteq Items(c.todo)
  BY <1>1, <1>2, Front DEF OnItsNames, rest
<1>7. OnItsNames(worker[w])'
  BY <1>2, <1>3, <1>4, <1>5, <1>6 DEF OnItsNames
<1>8. AllOnNames'
  BY <1>3, <1>7 DEF AllOnNames, OnItsNames, Touch
<1>9. /\ DOMAIN mark' = Paths
      /\ \A q \in Paths : /\ mark[q] = "clear" \/ mark'[q] # "clear"
                          /\ mark[q] = "raced" => mark'[q] = "raced"
      /\ \A q \in Touch(c) : mark'[q] # "clear"
  BY <1>1, <1>5 DEF Cut
<1>10. Framed'
  BY <1>1, <1>3, <1>9 DEF Framed
<1> QED  BY <1>1, <1>3, <1>4, <1>5, <1>6, <1>8, <1>9, <1>10 DEF Finding, a

LEMMA LeftoverDurable ==
  ASSUME DurableInv, NEW w \in Workers, UnpersistFails(w)
  PROVE  DurableInv'
<1>1. Framed /\ AllOnNames
  BY DEF DurableInv
<1>2. /\ \A v \in Workers \ {w} : worker'[v] = worker[v]
      /\ \A v \in Workers : Touch(worker[v])' = Touch(worker[v])
      /\ Framed' /\ AllOnNames' /\ sidecar' = sidecar /\ tmp' = tmp /\ index' = index
      /\ \A q \in Paths : /\ mark[q] = "clear" \/ mark'[q] # "clear"
                          /\ mark[q] = "raced" => mark'[q] = "raced"
      /\ Touch(worker[w]) \subseteq Paths /\ \A q \in Touch(worker[w]) : mark'[q] # "clear"
      /\ worker'[w].path = worker[w].path /\ worker'[w].op = worker[w].op
  BY <1>1, Leftover
<1>3. \A v \in Workers : Touch(worker[v]) \subseteq Paths
  BY PathAssumption DEF DurableInv, AllOnNames, OnItsNames, Touch, Idle
<1>4. Apart'
  BY <1>2, <1>3 DEF DurableInv, Apart
<1>5. ASSUME NEW v \in Workers PROVE InStep(worker[v])'
  <2>1. CASE v = w
    <3>1. worker[w].op # "idle" => worker[w].path \in Touch(worker[w])
      BY PathAssumption DEF DurableInv, AllOnNames, OnItsNames, Touch
    <3> QED  BY <1>2, <2>1, <3>1 DEF InStep
  <2>2. CASE v # w
    BY <1>2, <1>3, <2>2, InStepKept DEF DurableInv, AllOnNames
  <2> QED  BY <2>1, <2>2
<1>6. SettledIsDurable'
  BY <1>2 DEF DurableInv, SettledIsDurable, Settled, Quiet
<1> QED  BY <1>2, <1>4, <1>5, <1>6 DEF DurableInv

LEMMA StepDurable == DurableInv /\ [Next]_vars => DurableInv'
<1> SUFFICES ASSUME DurableInv, [Next]_vars PROVE DurableInv'
  OBVIOUS
<1>1. ASSUME sidecar' = sidecar, tmp' = tmp, index' = index, worker' = worker, mark' = mark
      PROVE  DurableInv'
  <2>1. Framed' /\ Apart' /\ SettledIsDurable'
    BY <1>1 DEF DurableInv, Framed, Apart, SettledIsDurable, Settled, Quiet, Touch
  <2>2. AllOnNames'
    BY <1>1 DEF DurableInv, AllOnNames, OnItsNames, Touch
  <2>3. ASSUME NEW v \in Workers PROVE InStep(worker[v])'
    BY <1>1, InStepKept DEF DurableInv, AllOnNames
  <2> QED  BY <2>1, <2>2, <2>3 DEF DurableInv
<1>2. CASE \E h \in handles : Write(h) \/ Release(h)
  BY <1>1, <1>2 DEF Write, Release, memVars, diskVars, ghosts
<1>3. CASE Restart
  BY <1>3, RestartDurable
<1>4. ASSUME NEW w \in Workers, Start(w)
      PROVE  DurableInv'
  BY <1>4, CreateDurable, SymlinkDurable, UnlinkDurable, ModifyDurable, RenameDurable
     DEF Start, Modifications
<1>5. ASSUME NEW w \in Workers, Continue(w)
      PROVE  DurableInv'
  BY <1>5, WorksDurable, LeftoverDurable, ReplyDurable, FailDurable DEF Continue, Works
<1>6. CASE UNCHANGED vars
  BY <1>1, <1>6 DEF vars, memVars, diskVars
<1> QED  BY <1>2, <1>3, <1>4, <1>5, <1>6 DEF Next

\* Whatever overlaps, fails, is lost or restarts elsewhere, on a path whose
\* callbacks all ran to their answer alone and without a failing disk call (the
\* removals whose failure overlay.rs clear and rename ignore included) the sidecars
\* say what index says, so that the next start of the process shows the same.
THEOREM SettledIsDurableAlways == Spec => []SettledIsDurable
<1>1. DurableInv => SettledIsDurable
  BY DEF DurableInv
<1> QED  BY <1>1, InitDurable, StepDurable, PTL DEF Spec

-----------------------------------------------------------------------------
(* Who may name a content file: a path in its entries, and in the lists of the *)
(* callbacks that touch it.                                                    *)

OfFile(e, i) == e.kind = "file" /\ e.of = i
Claims(p, i) ==
  \/ OfFile(index[p], i) \/ OfFile(sidecar[p], i) \/ OfFile(tmp[p], i)
  \/ \E w \in Workers : p \in Touch(worker[w]) /\ \E a \in Items(worker[w].todo) : OfFile(a.entry, i)

\* An id handed out before.
Old(i) == \E m, n \in Nat : i = <<m, n>> /\ (m < pid \/ (m = pid /\ n < seq))
Numbered == pid \in Nat /\ seq \in Nat /\ \A i : \A p \in Paths : Claims(p, i) => Old(i)

Together(p, q) == \E w \in Workers : {p, q} \subseteq Touch(worker[w])
Dirty(p) ==
  \/ mark[p] # "clear"
  \/ \E w \in Workers : p \in Touch(worker[w]) /\ \E q \in Touch(worker[w]) : mark[q] # "clear"

Owned ==
  \A i : \A p, q \in Paths : p # q /\ Claims(p, i) /\ Claims(q, i) =>
    (Dirty(p) /\ Dirty(q)) \/ Together(p, q)

OwnerInv == DurableInv /\ Numbered /\ Owned

LEMMA OwnerGoal == OwnerInv => ContentHasOneOwner
<1> SUFFICES ASSUME OwnerInv, NEW p \in Paths, NEW q \in Paths, p # q, Settled(p), index[p].kind = "file",
                    NEW e \in {index[q], sidecar[q], tmp[q]}, e.kind = "file", e.of = index[p].of
             PROVE  FALSE
  BY DEF ContentHasOneOwner
<1>1. Claims(p, index[p].of) /\ Claims(q, index[p].of)
  BY DEF Claims, OfFile
<1>2. ~Dirty(p) /\ ~Together(p, q)
  BY DEF Settled, Quiet, Dirty, Together
<1> QED  BY <1>1, <1>2 DEF OwnerInv, Owned

\* A step that names nothing new, or a fresh id at one path, and separates no
\* two names that share one.
LEMMA OwnerStep ==
  ASSUME Numbered, Owned, NEW p0, pid' \in Nat, seq' \in Nat, \A i : Old(i) => Old(i)',
         \A i : \A p \in Paths : Claims(p, i)' =>
           Claims(p, i) \/ (p = p0 /\ i = <<pid, seq>> /\ pid' = pid /\ seq' = seq + 1),
         \A p \in Paths : Dirty(p) => Dirty(p)',
         \A p, q \in Paths : Together(p, q) /\ p # q =>
           \/ Together(p, q)' \/ (Dirty(p)' /\ Dirty(q)')
           \/ \A i : ~(Claims(p, i)' /\ Claims(q, i)')
  PROVE  Numbered' /\ Owned'
<1>1. ~Old(<<pid, seq>>)
  BY DEF Old, Numbered
<1>2. ASSUME NEW i, i = <<pid, seq>>, pid' = pid, seq' = seq + 1
      PROVE  Old(i)'
  BY <1>2 DEF Old, Numbered
<1>3. Numbered'
  <2>1. ASSUME NEW i, NEW p \in Paths, Claims(p, i)' PROVE Old(i)'
    <3>1. CASE Claims(p, i)
      BY <3>1 DEF Numbered
    <3>2. CASE ~Claims(p, i)
      BY <1>2, <2>1, <3>2
    <3> QED  BY <3>1, <3>2
  <2> QED  BY <2>1 DEF Numbered
<1>4. ASSUME NEW i, NEW p \in Paths, NEW q \in Paths, p # q, Claims(p, i)', Claims(q, i)'
      PROVE  (Dirty(p)' /\ Dirty(q)') \/ Together(p, q)'
  <2>1. Claims(p, i) /\ Claims(q, i)
    BY <1>1, <1>4 DEF Numbered
  <2> QED  BY <1>4, <2>1 DEF Owned
<1>5. Owned'
  BY <1>4 DEF Owned
<1> QED  BY <1>3, <1>5

LEMMA WorksClaims ==
  ASSUME Framed, AllOnNames, NEW w \in Workers, Works(w), NEW p \in Paths, NEW i, Claims(p, i)'
  PROVE  Claims(p, i) \/ (p = worker[w].path /\ i = <<pid, seq>> /\ pid' = pid /\ seq' = seq + 1)
<1> DEFINE c == worker[w]
           a == Head(c.todo)
           rest == Tail(c.todo)
<1>1. /\ c.todo # <<>> /\ \A v \in Workers \ {w} : worker'[v] = worker[v]
      /\ Effect(w, a, rest) /\ pid' = pid /\ (a.do = "resolve" => seq' = seq + 1)
  BY Works1
<1>2. /\ \A v \in Workers : Touch(worker[v])' = Touch(worker[v])
      /\ c.op # "idle" /\ OnItsNames(c)
  BY WorksOnNames DEF AllOnNames
<1>3. a \in Items(c.todo) /\ Items(rest) \subseteq Items(c.todo) /\ a.path \in Touch(c)
      /\ (a.do = "rekey" => c.to \in Touch(c) /\ c.to # a.path)
      /\ (a.do \in Finding => Touch(c) = {c.path})
  BY <1>1, <1>2, Front, PathAssumption DEF OnItsNames, Touch
<1> HIDE DEF a, rest
<1>4. ASSUME NEW e, e \in {index'[p], sidecar'[p], tmp'[p]}, OfFile(e, i)
      PROVE  Claims(p, i)
  <2>1. e \in {index[p], sidecar[p], tmp[p]} \/ e = None \/ (e = a.entry /\ p \in Touch(c))
    BY <1>1, <1>3, <1>4 DEF Effect, storeVars, Framed, Finding
  <2>2. ~OfFile(None, i)
    BY DEF OfFile, None
  <2> QED  BY <1>3, <1>4, <2>1, <2>2 DEF Claims
<1>5. ASSUME NEW v \in Workers, p \in Touch(worker[v]), NEW b \in Items(worker'[v].todo), OfFile(b.entry, i)
      PROVE  Claims(p, i) \/ (p = worker[w].path /\ i = <<pid, seq>> /\ pid' = pid /\ seq' = seq + 1)
  <2>1. CASE v # w
    BY <1>1, <1>5, <2>1 DEF Claims
  <2>2. CASE v = w /\ worker'[w].todo = rest
    BY <1>3, <1>5, <2>2 DEF Claims
  <2>3. CASE v = w /\ \E do : worker'[w].todo = <<Call(do, c.path, None)>>
    <3>1. PICK do : worker'[w].todo = <<Call(do, c.path, None)>>
      BY <2>3
    <3>2. worker'[w].todo = Then(Call(do, c.path, None), <<>>)
      BY <3>1, OneCall
    <3>3. b = Call(do, c.path, None)
      BY <1>5, <2>3, <3>2, EmptyList, ThenParts
    <3>4. b.entry = None
      BY <3>3, CallFields
    <3> QED  BY <1>5, <3>4 DEF OfFile, None
  <2>4. CASE v = w /\ a.do = "look" /\ index[c.path].kind = "file"
             /\ \E x : worker'[w].todo = Put(c.path, File(index[c.path].of, x))
    <3>1. PICK x : worker'[w].todo = Put(c.path, File(index[c.path].of, x))
      BY <2>4
    <3>2. b.entry = File(index[c.path].of, x)
      <4>1. b \in Items(Put(c.path, File(index[c.path].of, x)))
        BY <1>5, <2>4, <3>1
      <4>2. PICK e : e = File(index[c.path].of, x)
        OBVIOUS
      <4>3. b \in Items(Put(c.path, e))
        BY <4>1, <4>2
      <4> QED  BY <4>2, <4>3, PutAlone
    <3>3. OfFile(index[c.path], i)
      BY <1>5, <2>4, <3>2 DEF OfFile, File
    <3>4. p = c.path
      BY <1>3, <1>5, <2>4 DEF Finding
    <3> QED  BY <3>3, <3>4 DEF Claims
  <2>5. CASE v = w /\ a.do = "resolve"
    <3>1. PICK x, seed : worker'[w].todo = CreateFile(c.path, <<pid, seq>>, x, seed)
      BY <1>1, <2>5 DEF Effect
    <3>2. b.entry = File(<<pid, seq>>, x)
      <4>1. b \in Items(CreateFile(c.path, <<pid, seq>>, x, seed))
        BY <1>5, <2>5, <3>1
      <4> QED  BY <4>1, OneNameItems
    <3>3. i = <<pid, seq>>
      BY <1>5, <3>2 DEF OfFile, File
    <3> QED  BY <1>1, <1>3, <1>5, <2>5, <3>3 DEF Finding
  <2>6. CASE v = w /\ worker'[w].todo = <<>>
    BY <1>5, <2>6, EmptyList
  <2>7. \/ worker'[w].todo = rest \/ a.do = "resolve" \/ worker'[w].todo = <<>>
        \/ \E do : worker'[w].todo = <<Call(do, c.path, None)>>
        \/ /\ a.do = "look" /\ index[c.path].kind = "file"
           /\ \E x : worker'[w].todo = Put(c.path, File(index[c.path].of, x))
    BY <1>1 DEF Effect, Finding
  <2> QED  BY <2>1, <2>2, <2>3, <2>4, <2>5, <2>6, <2>7
<1> QED  BY <1>2, <1>4, <1>5 DEF Claims

LEMMA WorksOwner ==
  ASSUME OwnerInv, NEW w \in Workers, Works(w)
  PROVE  OwnerInv'
<1>1. Framed /\ AllOnNames
  BY DEF OwnerInv, DurableInv
<1>2. /\ pid' = pid /\ (seq' = seq \/ seq' = seq + 1) /\ mark' = mark
      /\ \A v \in Workers : Touch(worker[v])' = Touch(worker[v])
  BY <1>1, Works1, WorksOnNames
<1>3. PICK p0 : p0 = worker[w].path
  OBVIOUS
<1>4. \A i : \A p \in Paths : Claims(p, i)' =>
        Claims(p, i) \/ (p = p0 /\ i = <<pid, seq>> /\ pid' = pid /\ seq' = seq + 1)
  BY <1>1, <1>3, WorksClaims
<1>5. \A i : Old(i) => Old(i)'
  BY <1>2 DEF Old, OwnerInv, Numbered
<1>6. /\ \A p \in Paths : Dirty(p) => Dirty(p)'
      /\ \A p, q \in Paths : Together(p, q) => Together(p, q)'
  BY <1>2 DEF Dirty, Together
<1>7. pid' \in Nat /\ seq' \in Nat
  BY <1>2 DEF OwnerInv, Numbered
<1> QED  BY <1>4, <1>5, <1>6, <1>7, OwnerStep, WorksDurable DEF OwnerInv

\* Callbacks that end take their claims along; a rename that met no other has
\* left nothing of a file under its old name.
LEMMA EndsOwner ==
  ASSUME OwnerInv, DurableInv', NEW w \in Workers, worker' = [worker EXCEPT ![w] = Idle],
         sidecar' = sidecar, tmp' = tmp, index' = index, pid' = pid, seq' = seq,
         \A p \in Paths : mark[p] = "clear" \/ mark'[p] # "clear",
         (\E q \in Touch(worker[w]) : mark[q] # "clear") => \A p \in Touch(worker[w]) : mark'[p] # "clear",
         \A p, q \in Touch(worker[w]) : p # q =>
           \/ mark'[p] # "clear" /\ mark'[q] # "clear"
           \/ \A i : ~(Claims(p, i)' /\ Claims(q, i)')
  PROVE  OwnerInv'
<1>1. /\ worker'[w] = Idle /\ \A v \in Workers \ {w} : worker'[v] = worker[v]
  BY DEF OwnerInv, DurableInv, Framed
<1>2. Touch(worker[w])' = {} /\ \A v \in Workers \ {w} : Touch(worker[v])' = Touch(worker[v])
  BY <1>1 DEF Touch, Idle
<1>3. \A v \in Workers : Touch(worker[v]) \subseteq Paths
  BY PathAssumption DEF OwnerInv, DurableInv, AllOnNames, OnItsNames, Touch, Idle
<1>4. \A i : \A p \in Paths : Claims(p, i)' => Claims(p, i)
  BY <1>1, <1>2 DEF Claims
<1>5. \A i : Old(i) => Old(i)'
  BY DEF Old
<1>6. ASSUME NEW p \in Paths, Dirty(p)
      PROVE  Dirty(p)'
  <2>1. CASE mark[p] # "clear"
    BY <2>1 DEF Dirty
  <2>2. ASSUME NEW v \in Workers, p \in Touch(worker[v]), NEW q \in Touch(worker[v]), mark[q] # "clear"
        PROVE  Dirty(p)'
    <3>1. CASE v = w
      BY <2>2, <3>1 DEF Dirty
    <3>2. CASE v # w
      BY <1>2, <1>3, <2>2, <3>2 DEF Dirty
    <3> QED  BY <3>1, <3>2
  <2> QED  BY <1>6, <2>1, <2>2 DEF Dirty
<1>7. ASSUME NEW p \in Paths, NEW q \in Paths, Together(p, q), p # q
      PROVE  \/ Together(p, q)' \/ (Dirty(p)' /\ Dirty(q)')
             \/ \A i : ~(Claims(p, i)' /\ Claims(q, i)')
  <2>1. PICK v \in Workers : {p, q} \subseteq Touch(worker[v])
    BY <1>7 DEF Together
  <2>2. CASE v = w
    BY <1>7, <2>1, <2>2 DEF Dirty
  <2>3. CASE v # w
    BY <1>2, <2>1, <2>3 DEF Together
  <2> QED  BY <2>2, <2>3
<1>8. pid' \in Nat /\ seq' \in Nat /\ Numbered /\ Owned
  BY DEF OwnerInv, Numbered
<1>9. Numbered' /\ Owned'
  BY <1>4, <1>5, <1>6, <1>7, <1>8, OwnerStep
<1> QED  BY <1>9 DEF OwnerInv

LEMMA ReplyOwner ==
  ASSUME OwnerInv, NEW w \in Workers, Reply(w)
  PROVE  OwnerInv'
<1> DEFINE c == worker[w]
<1>1. /\ c.op # "idle" /\ c.todo = <<>> /\ worker' = [worker EXCEPT ![w] = Idle]
      /\ sidecar' = sidecar /\ tmp' = tmp /\ index' = index /\ pid' = pid /\ seq' = seq
      /\ mark' = [p \in Paths |->
           IF p \notin Touch(c) THEN mark[p]
           ELSE IF \E q \in Touch(c) : mark[q] = "raced" THEN "raced"
           ELSE IF \E q \in Touch(c) : mark[q] # "clear" THEN "healed"
           ELSE mark[p]]
  BY DEF Reply, diskVars
<1>2. Touch(c) \subseteq Paths /\ OnItsNames(c) /\ InStep(c)
  <2>1. OnItsNames(c) /\ InStep(c)
    BY DEF OwnerInv, DurableInv, AllOnNames
  <2> QED  BY <1>1, <2>1, PathAssumption DEF OnItsNames, Touch
<1>3. /\ \A p \in Paths : mark[p] = "clear" \/ mark'[p] # "clear"
      /\ (\E q \in Touch(c) : mark[q] # "clear") => \A p \in Touch(c) : mark'[p] # "clear"
  BY <1>1, <1>2
<1>4. ASSUME NEW p \in Touch(c), NEW q \in Touch(c), p # q, mark'[p] = "clear" \/ mark'[q] = "clear"
      PROVE  \A i : ~(Claims(p, i)' /\ Claims(q, i)')
  <2>1. PICK s, d : s = c.path /\ d = c.to
    OBVIOUS
  <2>2. c.op = "rename" /\ {p, q} = {s, d} /\ s \in Touch(c)
    BY <1>2, <1>4, <2>1 DEF OnItsNames, Touch
  <2>3. \A r \in Touch(c) : mark[r] = "clear"
    BY <1>3, <1>4
  <2>4. AtRest(s) /\ index[s] \in {None, Tomb}
    BY <1>1, <1>2, <2>1, <2>2, <2>3, AtEnd
  <2>5. \A v \in Workers \ {w} : s \notin Touch(worker[v])
    BY <2>2, <2>3 DEF OwnerInv, DurableInv, Apart
  <2>6. \A v \in Workers : s \notin Touch(worker[v])'
    BY <1>1, <2>5, PathAssumption, <1>2, <2>2 DEF OwnerInv, DurableInv, Framed, Touch, Idle
  <2>7. \A i : ~Claims(s, i)'
    BY <1>1, <2>4, <2>6 DEF Claims, OfFile, AtRest, None, Tomb
  <2> QED  BY <2>2, <2>7
<1>5. DurableInv'
  BY ReplyDurable DEF OwnerInv
<1> QED  BY <1>1, <1>3, <1>4, <1>5, EndsOwner

LEMMA FailOwner ==
  ASSUME OwnerInv, NEW w \in Workers, Fail(w) \/ ModifyFails(w)
  PROVE  OwnerInv'
<1>1. Touch(worker[w]) \subseteq Paths
  BY PathAssumption DEF OwnerInv, DurableInv, AllOnNames, OnItsNames, Touch, Idle
<1>2. DurableInv'
  BY FailDurable DEF OwnerInv
<1>3. CASE Fail(w)
  <2>1. /\ worker' = [worker EXCEPT ![w] = Idle] /\ mark' = Cut(Touch(worker[w]))
        /\ sidecar' = sidecar /\ tmp' = tmp /\ index' = index /\ pid' = pid /\ seq' = seq
    BY <1>3 DEF Fail, diskVars
  <2>2. /\ \A p \in Paths : mark[p] = "clear" \/ mark'[p] # "clear"
        /\ \A p \in Touch(worker[w]) : mark'[p] # "clear"
    BY <1>1, <2>1 DEF Cut
  <2> QED  BY <1>2, <2>1, <2>2, EndsOwner
<1>4. CASE ModifyFails(w)
  <2>1. /\ worker' = [worker EXCEPT ![w] = Idle] /\ mark' = mark
        /\ sidecar' = sidecar /\ tmp' = tmp /\ index' = index /\ pid' = pid /\ seq' = seq
        /\ worker[w].todo # <<>> /\ Head(worker[w].todo).do \in Finding
    BY <1>4 DEF ModifyFails, Does, Next1, diskVars, ghosts, Finding
  <2>2. OnItsNames(worker[w])
    BY DEF OwnerInv, DurableInv, AllOnNames
  <2>3. Head(worker[w].todo) \in Items(worker[w].todo)
    BY <2>1, <2>2, Front DEF OnItsNames
  <2>4. \A p, q \in Touch(worker[w]) : p = q
    BY <2>1, <2>2, <2>3 DEF OnItsNames, Touch
  <2>5. (\E q \in Touch(worker[w]) : mark[q] # "clear") => \A p \in Touch(worker[w]) : mark'[p] # "clear"
    BY <2>1, <2>4
  <2>6. \A p, q \in Touch(worker[w]) : p # q =>
          \/ mark'[p] # "clear" /\ mark'[q] # "clear"
          \/ \A i : ~(Claims(p, i)' /\ Claims(q, i)')
    BY <2>4
  <2>7. \A p \in Paths : mark[p] = "clear" \/ mark'[p] # "clear"
    BY <2>1
  <2> QED  BY <1>2, <2>1, <2>5, <2>6, <2>7, EndsOwner
<1> QED  BY <1>3, <1>4

LEMMA LeftoverOwner ==
  ASSUME OwnerInv, NEW w \in Workers, UnpersistFails(w)
  PROVE  OwnerInv'
<1>1. Framed /\ AllOnNames /\ DurableInv' /\ Numbered /\ Owned
  BY LeftoverDurable DEF OwnerInv, DurableInv
<1>2. /\ \A v \in Workers \ {w} : worker'[v] = worker[v]
      /\ \A v \in Workers : Touch(worker[v])' = Touch(worker[v])
      /\ sidecar' = sidecar /\ tmp' = tmp /\ index' = index /\ pid' = pid /\ seq' = seq
      /\ \A q \in Paths : mark[q] = "clear" \/ mark'[q] # "clear"
      /\ Items(worker'[w].todo) \subseteq Items(worker[w].todo)
  BY <1>1, Leftover
<1>3. \A i : \A p \in Paths : Claims(p, i)' => Claims(p, i)
  BY <1>2 DEF Claims
<1>4. \A v \in Workers : Touch(worker[v]) \subseteq Paths
  BY PathAssumption, <1>1 DEF AllOnNames, OnItsNames, Touch, Idle
<1>5. \A p \in Paths : Dirty(p) => Dirty(p)'
  BY <1>2, <1>4 DEF Dirty
<1>6. \A p, q \in Paths : Together(p, q) => Together(p, q)'
  BY <1>2 DEF Together
<1>7. (\A i : Old(i) => Old(i)') /\ pid' \in Nat /\ seq' \in Nat
  BY <1>1, <1>2 DEF Old, Numbered
<1>8. Numbered' /\ Owned'
  BY <1>1, <1>3, <1>5, <1>6, <1>7, OwnerStep
<1> QED  BY <1>1, <1>8 DEF OwnerInv

\* A restart only reads back what was named; it hands out ids of its own.
LEMMA RestartOwner ==
  ASSUME OwnerInv, "removal" \notin Losses, ~ReusePids, Restart
  PROVE  OwnerInv'
<1> DEFINE touched == UNION {Touch(worker[w]) : w \in Workers}
<1>1. /\ worker' = [w \in Workers |-> Idle] /\ mark' = Cut(touched) /\ tmp' = tmp
      /\ pid' = pid + 1 /\ seq' = 0
      /\ sidecar' = [p \in Paths |-> sidecar[p]]
      /\ \E staged \in SUBSET {p \in Paths : tmp[p] # None} :
           index' = [p \in Paths |-> IF p \in staged THEN tmp[p] ELSE sidecar'[p]]
  BY DEF Restart, Replay
<1>2. \A w \in Workers : Touch(worker[w])' = {}
  BY <1>1 DEF Touch, Idle
<1>3. \A i : \A p \in Paths : Claims(p, i)' => Claims(p, i)
  <2> SUFFICES ASSUME NEW i, NEW p \in Paths, Claims(p, i)' PROVE Claims(p, i)
    OBVIOUS
  <2>1. index'[p] \in {tmp[p], sidecar[p]} /\ sidecar'[p] = sidecar[p] /\ tmp'[p] = tmp[p]
    BY <1>1
  <2> QED  BY <1>2, <2>1 DEF Claims
<1>4. \A i : Old(i) => Old(i)'
  BY <1>1 DEF Old, OwnerInv, Numbered
<1>5. \A w \in Workers : Touch(worker[w]) \subseteq Paths
  BY PathAssumption DEF OwnerInv, DurableInv, AllOnNames, OnItsNames, Touch, Idle
<1>6. \A p \in Paths : p \in touched \/ mark[p] # "clear" => mark'[p] # "clear"
  BY <1>1 DEF Cut
<1>7. /\ \A p \in Paths : Dirty(p) => Dirty(p)'
      /\ \A p, q \in Paths : Together(p, q) => Dirty(p)' /\ Dirty(q)'
  BY <1>5, <1>6 DEF Dirty, Together
<1>8. pid' \in Nat /\ seq' \in Nat
  BY <1>1 DEF OwnerInv, Numbered
<1>9. Numbered' /\ Owned'
  BY <1>3, <1>4, <1>7, <1>8, OwnerStep DEF OwnerInv
<1> QED  BY <1>9, RestartDurable DEF OwnerInv

\* A callback starts: who was dirty or together stays so, and it meets only
\* callbacks it marks.
LEMMA BeginMeets ==
  ASSUME DurableInv, NEW w \in Workers, NEW c, Begin(w, c)
  PROVE  /\ worker[w] = Idle /\ worker'[w] = c /\ \A v \in Workers \ {w} : worker'[v] = worker[v]
         /\ Touch(worker[w]) = {} /\ Touch(worker[w])' = Touch(c)
         /\ \A v \in Workers \ {w} : Touch(worker[v])' = Touch(worker[v])
         /\ \A v \in Workers : Touch(worker[v]) \subseteq Paths
         /\ \A q \in Paths : mark[q] # "clear" => mark'[q] # "clear"
         /\ \A q \in Paths : Dirty(q) => Dirty(q)'
         /\ \A q, r : Together(q, r) => Together(q, r)'
         /\ \A v \in Workers : Touch(worker[v]) \intersect Touch(c) # {} =>
              \A q \in Paths : q \in Touch(worker[v]) \union Touch(c) => mark'[q] = "raced"
<1>1. /\ worker[w] = Idle /\ worker' = [worker EXCEPT ![w] = c]
      /\ mark' = [q \in Paths |-> IF q \in Overlapped(c) THEN "raced" ELSE mark[q]]
  BY DEF Begin, MayStart
<1>2. worker'[w] = c /\ \A v \in Workers \ {w} : worker'[v] = worker[v]
  BY <1>1 DEF DurableInv, Framed
<1>3. /\ Touch(worker[w]) = {} /\ Touch(worker[w])' = Touch(c)
      /\ \A v \in Workers \ {w} : Touch(worker[v])' = Touch(worker[v])
  BY <1>1, <1>2 DEF Touch, Idle
<1>4. \A v \in Workers : Touch(worker[v]) \subseteq Paths
  BY PathAssumption DEF DurableInv, AllOnNames, OnItsNames, Touch, Idle
<1>5. \A q \in Paths : mark[q] # "clear" => mark'[q] # "clear"
  BY <1>1
<1>6. \A q \in Paths : Dirty(q) => Dirty(q)'
  BY <1>3, <1>4, <1>5 DEF Dirty
<1>7. \A q, r : Together(q, r) => Together(q, r)'
  BY <1>3 DEF Together
<1>8. \A v \in Workers : Touch(worker[v]) \intersect Touch(c) # {} =>
        \A q \in Paths : q \in Touch(worker[v]) \union Touch(c) => mark'[q] = "raced"
  BY <1>1 DEF Overlapped
<1> QED  BY <1>1, <1>2, <1>3, <1>4, <1>5, <1>6, <1>7, <1>8

\* What a callback of one name will write names a fresh id or nothing.
LEMMA OneNameClaims ==
  ASSUME DurableInv, NEW w \in Workers, NEW c, Begin(w, c), NEW p \in Paths, c.path = p, c.to = NoPath,
         \A a \in Items(c.todo) : a.entry.kind = "file" => a.entry.of = <<pid, seq>> /\ seq' = seq + 1
  PROVE  \A i : \A q \in Paths : Claims(q, i)' =>
           Claims(q, i) \/ (q = p /\ i = <<pid, seq>> /\ pid' = pid /\ seq' = seq + 1)
<1>1. sidecar' = sidecar /\ tmp' = tmp /\ index' = index /\ pid' = pid
  BY DEF Begin, diskVars
<1>2. /\ worker'[w] = c /\ Touch(worker[w])' = Touch(c)
      /\ \A v \in Workers \ {w} : worker'[v] = worker[v] /\ Touch(worker[v])' = Touch(worker[v])
  BY BeginMeets
<1>3. Touch(c) = {p}
  BY PathAssumption DEF Touch
<1>4. ASSUME NEW i, NEW q \in Paths, Claims(q, i)'
      PROVE  Claims(q, i) \/ (q = p /\ i = <<pid, seq>> /\ pid' = pid /\ seq' = seq + 1)
  <2>1. CASE \E a \in Items(worker'[w].todo) : q \in Touch(worker[w])' /\ OfFile(a.entry, i)
    BY <1>1, <1>2, <1>3, <2>1 DEF OfFile
  <2>2. CASE ~\E a \in Items(worker'[w].todo) : q \in Touch(worker[w])' /\ OfFile(a.entry, i)
    BY <1>1, <1>2, <1>4, <2>2 DEF Claims
  <2> QED  BY <2>1, <2>2
<1> QED  BY <1>4

LEMMA OneNameOwner ==
  ASSUME OwnerInv, DurableInv', NEW w \in Workers, NEW c, Begin(w, c), NEW p \in Paths, c.path = p, c.to = NoPath,
         seq' = seq \/ seq' = seq + 1,
         \A a \in Items(c.todo) : a.entry.kind = "file" => a.entry.of = <<pid, seq>> /\ seq' = seq + 1
  PROVE  OwnerInv'
<1>1. DurableInv /\ Numbered /\ Owned /\ pid' = pid
  BY DEF OwnerInv, Begin
<1>2. \A i : \A q \in Paths : Claims(q, i)' =>
        Claims(q, i) \/ (q = p /\ i = <<pid, seq>> /\ pid' = pid /\ seq' = seq + 1)
  BY <1>1, OneNameClaims
<1>3. /\ \A q \in Paths : Dirty(q) => Dirty(q)'
      /\ \A q, r \in Paths : Together(q, r) => Together(q, r)'
  BY <1>1, BeginMeets
<1>4. pid' \in Nat /\ seq' \in Nat
  BY <1>1 DEF Numbered
<1>5. \A i : Old(i) => Old(i)'
  BY <1>1 DEF Old, Numbered
<1>6. Numbered' /\ Owned'
  BY <1>1, <1>2, <1>3, <1>4, <1>5, OwnerStep
<1> QED  BY <1>6 DEF OwnerInv

LEMMA CreateOwner ==
  ASSUME OwnerInv, NEW w \in Workers, NEW p \in Paths, NEW x, Create(w, p, x)
  PROVE  OwnerInv'
<1> DEFINE L == CreateFile(p, NewContentId, x, Empty)
           c == [Idle EXCEPT !.op = "create", !.path = p, !.x = x, !.id = NewContentId, !.todo = L]
<1>1. \A a \in Items(L) : a.entry = File(<<pid, seq>>, x)
  <2>1. L = CreateFile(p, <<pid, seq>>, x, Empty)
    BY DEF NewContentId
  <2> SUFFICES ASSUME NEW a \in Items(CreateFile(p, <<pid, seq>>, x, Empty))
               PROVE  a.entry = File(<<pid, seq>>, x)
    BY <2>1
  <2>2. \A id, y, seed : a \in Items(CreateFile(p, id, y, seed)) => a.entry = File(id, y)
    BY OneNameItems
  <2> QED  BY <2>2
<1>2. c.path = p /\ c.to = NoPath /\ c.todo = L
  BY DEF Idle
<1>3. Begin(w, c) /\ seq' = seq + 1
  BY DEF Create
<1>4. DurableInv'
  BY CreateDurable DEF OwnerInv
<1> HIDE DEF L, c
<1>5. \A a \in Items(c.todo) : a.entry.kind = "file" => a.entry.of = <<pid, seq>> /\ seq' = seq + 1
  BY <1>1, <1>2, <1>3 DEF File
<1> QED  BY <1>2, <1>3, <1>4, <1>5, OneNameOwner

LEMMA OtherOwner ==
  ASSUME OwnerInv, NEW w \in Workers, NEW p \in Paths,
         \/ PutSymlink(w, p) \/ Unlink(w, p)
         \/ \E op \in Modifications : \E x : Modify(w, op, p, x)
  PROVE  OwnerInv'
<1>1. DurableInv'
  BY SymlinkDurable, UnlinkDurable, ModifyDurable DEF OwnerInv
<1>2. PICK c : /\ Begin(w, c) /\ UNCHANGED seq /\ c.path = p /\ c.to = NoPath
               /\ \A a \in Items(c.todo) : a.entry.kind # "file"
  <2>1. CASE PutSymlink(w, p)
    <3> DEFINE c == [Idle EXCEPT !.op = "symlink", !.path = p, !.todo = Put(p, Symlink)]
    <3>1. Begin(w, c) /\ UNCHANGED seq
      BY <2>1 DEF PutSymlink
    <3>2. c.path = p /\ c.to = NoPath /\ c.todo = Put(p, Symlink)
      BY DEF Idle
    <3>3. \A a \in Items(Put(p, Symlink)) : a.entry = Symlink
      BY PutAlone
    <3> HIDE DEF c
    <3>4. Symlink.kind # "file"
      BY DEF Symlink
    <3> QED  BY <3>1, <3>2, <3>3, <3>4
  <2>2. CASE Unlink(w, p)
    <3> DEFINE c == [Idle EXCEPT !.op = "unlink", !.path = p, !.todo = UnlinkCalls(p)]
    <3>1. Begin(w, c) /\ UNCHANGED seq
      BY <2>2 DEF Unlink
    <3>2. c.path = p /\ c.to = NoPath /\ c.todo = UnlinkCalls(p)
      BY DEF Idle
    <3>3. \A a \in Items(UnlinkCalls(p)) : a.entry \in {Tomb, None}
      <4>1. UnlinkCalls(p) \in {Entombed(p), Clear(p)}
        BY RemovalLists DEF UnlinkCalls
      <4> QED  BY <4>1, OneNameItems
    <3> HIDE DEF c
    <3> QED  BY <3>1, <3>2, <3>3 DEF Tomb, None
  <2>3. ASSUME NEW op \in Modifications, NEW x, Modify(w, op, p, x)
        PROVE  \E c : /\ Begin(w, c) /\ UNCHANGED seq /\ c.path = p /\ c.to = NoPath
                      /\ \A a \in Items(c.todo) : a.entry.kind # "file"
    <3> DEFINE L == <<Call("look", p, None)>>
               c == [Idle EXCEPT !.op = op, !.path = p, !.x = x, !.todo = L]
    <3>1. Begin(w, c) /\ UNCHANGED seq
      BY <2>3 DEF Modify
    <3>2. c.path = p /\ c.to = NoPath /\ c.todo = L
      BY DEF Idle
    <3>3. \A a \in Items(L) : a.entry = None
      <4>1. L = Then(Call("look", p, None), <<>>)
        BY OneCall
      <4>2. Items(L) = {Call("look", p, None)}
        BY <4>1, EmptyList, ThenParts
      <4> QED  BY <4>2, CallFields
    <3> HIDE DEF c
    <3> QED  BY <3>1, <3>2, <3>3 DEF None
  <2> QED  BY <2>1, <2>2, <2>3
<1> QED  BY <1>1, <1>2, OneNameOwner

\* A rename will write the entry it moves at its new name.
LEMMA RenameClaims ==
  ASSUME DurableInv, NEW w \in Workers, NEW c, Begin(w, c), NEW s \in Paths, NEW d \in Paths, c.path = s, c.to = d,
         \A a \in Items(c.todo) : a.entry \in {index[s], BaseRef(s, FALSE), Tomb, None}
  PROVE  /\ \A i : \A q \in Paths : Claims(q, i)' => Claims(q, i) \/ (q = d /\ OfFile(index[s], i))
         /\ Together(s, d)' /\ Together(d, s)' /\ (Dirty(s) => Dirty(d)')
         /\ \A q \in Paths : Together(q, s) => (Dirty(q)' /\ Dirty(d)')
<1>1. sidecar' = sidecar /\ tmp' = tmp /\ index' = index
  BY DEF Begin, diskVars
<1>2. /\ worker'[w] = c /\ Touch(worker[w])' = Touch(c)
      /\ \A v \in Workers \ {w} : worker'[v] = worker[v] /\ Touch(worker[v])' = Touch(worker[v])
      /\ \A q \in Paths : mark[q] # "clear" => mark'[q] # "clear"
      /\ \A v \in Workers : Touch(worker[v]) \intersect Touch(c) # {} =>
           \A q \in Paths : q \in Touch(worker[v]) \union Touch(c) => mark'[q] = "raced"
  BY BeginMeets
<1>3. Touch(c) = {s, d}
  BY PathAssumption DEF Touch
<1>4. \A a \in Items(c.todo) : \A i : OfFile(a.entry, i) => OfFile(index[s], i)
  BY DEF OfFile, BaseRef, Tomb, None
<1>5. ASSUME NEW i, NEW q \in Paths, Claims(q, i)'
      PROVE  Claims(q, i) \/ (q = d /\ OfFile(index[s], i))
  <2>1. CASE \E a \in Items(worker'[w].todo) : q \in Touch(worker[w])' /\ OfFile(a.entry, i)
    <3>1. OfFile(index[s], i) /\ q \in {s, d}
      BY <1>2, <1>3, <1>4, <2>1
    <3> QED  BY <3>1 DEF Claims
  <2>2. CASE ~\E a \in Items(worker'[w].todo) : q \in Touch(worker[w])' /\ OfFile(a.entry, i)
    BY <1>1, <1>2, <1>5, <2>2 DEF Claims
  <2> QED  BY <2>1, <2>2
<1>6. Together(s, d)' /\ Together(d, s)'
  BY <1>2, <1>3 DEF Together
<1>7. Dirty(s) => Dirty(d)'
  <2>1. CASE mark[s] # "clear"
    BY <1>2, <1>3, <2>1 DEF Dirty
  <2>2. CASE \E v \in Workers : s \in Touch(worker[v])
    BY <1>2, <1>3, <2>2 DEF Dirty
  <2> QED  BY <2>1, <2>2 DEF Dirty
<1>8. \A q \in Paths : Together(q, s) => (Dirty(q)' /\ Dirty(d)')
  BY <1>2, <1>3 DEF Together, Dirty
<1> QED  BY <1>5, <1>6, <1>7, <1>8

LEMMA RenameOwner ==
  ASSUME OwnerInv, NEW w \in Workers, NEW s \in Paths, NEW d \in Paths, Rename(w, s, d)
  PROVE  OwnerInv'
<1> DEFINE L == RenameCalls(s, d)
           c == [Idle EXCEPT !.op = "rename", !.path = s, !.to = d, !.todo = L]
<1>1. s # d /\ Begin(w, c) /\ seq' = seq
  BY DEF Rename
<1>2. \A a \in Items(L) : a.entry \in {index[s], BaseRef(s, FALSE), Tomb, None}
  BY <1>1, RenameItems
<1>3. c.path = s /\ c.to = d /\ c.todo = L
  BY DEF Idle
<1> HIDE DEF L, c
<1>4. DurableInv /\ Numbered /\ Owned /\ pid' = pid
  BY <1>1 DEF OwnerInv, Begin
<1>5. \A a \in Items(c.todo) : a.entry \in {index[s], BaseRef(s, FALSE), Tomb, None}
  BY <1>2, <1>3
<1>6. /\ \A i : \A q \in Paths : Claims(q, i)' => Claims(q, i) \/ (q = d /\ OfFile(index[s], i))
      /\ Together(s, d)' /\ Together(d, s)' /\ (Dirty(s) => Dirty(d)')
      /\ \A q \in Paths : Together(q, s) => (Dirty(q)' /\ Dirty(d)')
  BY <1>1, <1>3, <1>4, <1>5, RenameClaims, ZenonT(30)
<1>7. /\ \A q \in Paths : Dirty(q) => Dirty(q)'
      /\ \A q, r : Together(q, r) => Together(q, r)'
  BY <1>1, <1>4, BeginMeets
<1>8. ASSUME NEW i, NEW q \in Paths \ {d}, Claims(q, i), OfFile(index[s], i)
      PROVE  (Dirty(q)' /\ Dirty(d)') \/ (Together(q, d)' /\ Together(d, q)')
  <2>1. CASE q = s
    BY <1>6, <2>1
  <2>2. CASE q # s
    <3>1. Claims(s, i)
      BY <1>8 DEF Claims
    <3>2. (Dirty(q) /\ Dirty(s)) \/ Together(q, s)
      BY <1>4, <1>8, <2>2, <3>1 DEF Owned
    <3> QED  BY <1>6, <1>7, <3>2
  <2> QED  BY <2>1, <2>2
<1>9. ASSUME NEW i, NEW p \in Paths, NEW q \in Paths, p # q, Claims(p, i)', Claims(q, i)'
      PROVE  (Dirty(p)' /\ Dirty(q)') \/ Together(p, q)'
  <2>1. CASE Claims(p, i) /\ Claims(q, i)
    BY <1>4, <1>7, <1>9, <2>1 DEF Owned
  <2>2. CASE ~Claims(p, i)
    BY <1>6, <1>8, <1>9, <2>2
  <2>3. CASE ~Claims(q, i)
    BY <1>6, <1>8, <1>9, <2>3
  <2> QED  BY <2>1, <2>2, <2>3
<1>10. ASSUME NEW i, NEW p \in Paths, Claims(p, i)'
       PROVE  Old(i)'
  <2>1. Claims(p, i) \/ Claims(s, i)
    BY <1>6, <1>10 DEF Claims
  <2>2. Old(i)
    BY <1>4, <2>1 DEF Numbered
  <2> QED  BY <1>1, <1>4, <2>2 DEF Old
<1>11. Numbered' /\ Owned'
  BY <1>1, <1>4, <1>9, <1>10 DEF Numbered, Owned
<1> QED  BY <1>11, RenameDurable DEF OwnerInv

LEMMA InitOwner == Init => OwnerInv
<1> SUFFICES ASSUME Init PROVE OwnerInv
  OBVIOUS
<1>1. \A p \in Paths : \A i : ~Claims(p, i)
  BY DEF Init, Claims, OfFile, Idle, Touch, None
<1>2. Numbered /\ Owned
  BY <1>1 DEF Init, Numbered, Owned
<1> QED  BY <1>2, InitDurable DEF OwnerInv

LEMMA StepOwner ==
  ASSUME "removal" \notin Losses, ~ReusePids, OwnerInv, [Next]_vars
  PROVE  OwnerInv'
<1>1. DurableInv'
  BY StepDurable DEF OwnerInv
<1>2. ASSUME sidecar' = sidecar, tmp' = tmp, index' = index, worker' = worker, mark' = mark, pid' = pid, seq' = seq
      PROVE  OwnerInv'
  <2>1. Numbered' /\ Owned'
    BY <1>2 DEF OwnerInv, Numbered, Owned, Claims, Old, Dirty, Together
  <2> QED  BY <1>1, <2>1 DEF OwnerInv
<1>3. CASE \E h \in handles : Write(h) \/ Release(h)
  BY <1>2, <1>3 DEF Write, Release, memVars, diskVars, ghosts
<1>4. CASE Restart
  BY <1>4, RestartOwner
<1>5. ASSUME NEW w \in Workers, Start(w)
      PROVE  OwnerInv'
  BY <1>5, CreateOwner, OtherOwner, RenameOwner DEF Start, Modifications
<1>6. ASSUME NEW w \in Workers, Continue(w)
      PROVE  OwnerInv'
  BY <1>6, WorksOwner, LeftoverOwner, ReplyOwner, FailOwner DEF Continue, Works
<1>7. CASE UNCHANGED vars
  BY <1>2, <1>7 DEF vars, memVars, diskVars
<1> QED  BY <1>3, <1>4, <1>5, <1>6, <1>7 DEF Next

\* As long as a restart keeps removals and gets a new process id, no path but its
\* owner names the content of a path whose callbacks all ran to their answer alone
\* and without a failing disk call, a removal that fails unnoticed included:
\* drop_content of another path cannot take its bytes, though calls fail elsewhere.
THEOREM OneOwnerAlways ==
  "removal" \notin Losses /\ ~ReusePids => (Spec => []ContentHasOneOwner)
<1> SUFFICES ASSUME "removal" \notin Losses, ~ReusePids
             PROVE  Spec => []ContentHasOneOwner
  OBVIOUS
<1>1. OwnerInv /\ [Next]_vars => OwnerInv'
  BY StepOwner
<1> QED  BY <1>1, InitOwner, OwnerGoal, PTL DEF Spec

-----------------------------------------------------------------------------
(* Types, those of the calls in flight included. *)

CallOK(c) ==
  /\ c.op \in Ops \union {"idle"} /\ c.id \in Ids \union {NoId} /\ c.x \in BOOLEAN
  /\ \A a \in Items(c.todo) :
       a.entry \in Entries /\ (a.do = "content" => a.val \in Bytes /\ a.entry.kind = "file")
  /\ c.op \in Opening /\ c.id = NoId => \E do \in Finding : c.todo = Then(Call(do, c.path, None), <<>>)

StoreOK ==
  /\ {sidecar, tmp, removed, index} \subseteq [Paths -> Entries]
  /\ content \in [Ids -> Bytes \union {Broken}]
  /\ pid \in Pids /\ pid <= restarts + 1 /\ seq \in 0..MaxSeq
  /\ handles \subseteq [id : Ids, at : Paths \union {NoPath}]
  /\ view \in [Paths -> Views] /\ mark \in [Paths -> {"clear", "cut", "healed", "raced"}]
  /\ starts \in 0..MaxStarts /\ writes \in 0..MaxWrites /\ restarts \in 0..MaxRestarts

TypeInv == DurableInv /\ StoreOK /\ \A w \in Workers : CallOK(worker[w])

LEMMA EntryKinds ==
  ASSUME NEW e \in Entries
  PROVE  /\ e.kind \in {"none", "tombstone", "symlink", "baseref", "file"}
         /\ e.kind = "none" => e = None
         /\ e.kind = "file" => e.of \in Ids /\ e.x \in BOOLEAN /\ e = File(e.of, e.x)
         /\ e.kind = "baseref" => e.of \in Baseline /\ e.x \in BOOLEAN
<1>1. CASE e \in {None, Tomb, Symlink}
  BY <1>1 DEF None, Tomb, Symlink
<1>2. ASSUME NEW b \in Baseline, NEW x \in BOOLEAN, e = BaseRef(b, x)
      PROVE  e.kind = "baseref" /\ e.of \in Baseline /\ e.x \in BOOLEAN
  BY <1>2 DEF BaseRef
<1>3. ASSUME NEW i \in Ids, NEW x \in BOOLEAN, e = File(i, x)
      PROVE  e.kind = "file" /\ e.of \in Ids /\ e.x \in BOOLEAN /\ e = File(e.of, e.x)
  BY <1>3 DEF File
<1> QED  BY <1>1, <1>2, <1>3 DEF Entries

LEMMA PlainEntries ==
  /\ {None, Tomb, Symlink} \subseteq Entries /\ None.kind = "none" /\ Tomb.kind = "tombstone" /\ Symlink.kind = "symlink"
  /\ \A i \in Ids : \A x \in BOOLEAN : File(i, x) \in Entries
  /\ \A b \in Baseline : \A x \in BOOLEAN : BaseRef(b, x) \in Entries
  /\ \A i, x : File(i, x).kind = "file" /\ File(i, x).of = i /\ File(i, x).x = x
  /\ \A b, x : BaseRef(b, x).kind = "baseref" /\ BaseRef(b, x).of = b /\ BaseRef(b, x).x = x
<1>1. {None, Tomb, Symlink} \subseteq Entries /\ None.kind = "none" /\ Tomb.kind = "tombstone" /\ Symlink.kind = "symlink"
  <2>1. {None, Tomb, Symlink} \subseteq Entries
    BY DEF Entries
  <2> QED  BY <2>1 DEF None, Tomb, Symlink
<1>2. /\ \A i \in Ids : \A x \in BOOLEAN : File(i, x) \in Entries
      /\ \A b \in Baseline : \A x \in BOOLEAN : BaseRef(b, x) \in Entries
  BY DEF Entries
<1>3. /\ \A i, x : File(i, x).kind = "file" /\ File(i, x).of = i /\ File(i, x).x = x
      /\ \A b, x : BaseRef(b, x).kind = "baseref" /\ BaseRef(b, x).of = b /\ BaseRef(b, x).x = x
  BY DEF File, BaseRef
<1> QED  BY <1>1, <1>2, <1>3

LEMMA ByteKinds ==
  /\ Gone \notin Bytes /\ Broken \notin Bytes /\ Empty \in Bytes /\ Gone # Broken
  /\ Baseline \subseteq Bytes /\ \A n \in 1..MaxWrites : n \in Bytes
BY BlobAssumption, OverlayBounds DEF Bytes, Gone, Broken, Empty

\* A read of a typed entry.
LEMMA ShownType ==
  ASSUME NEW e \in Entries, NEW p \in Paths, NEW bytes \in [Ids -> Bytes \union {Broken}]
  PROVE  /\ Shown(e, p, bytes).x \in BOOLEAN
         /\ Shown(e, p, bytes).val \in Bytes \union {Gone, Broken}
         /\ Shown(e, p, bytes) = [val |-> Shown(e, p, bytes).val, x |-> Shown(e, p, bytes).x]
         /\ e.kind = "file" => Shown(e, p, bytes) = [val |-> bytes[e.of], x |-> e.x]
         /\ e.kind = "baseref" => Shown(e, p, bytes) = [val |-> e.of, x |-> e.x] /\ e.of \in Bytes
         /\ e.kind = "tombstone" => Shown(e, p, bytes) = [val |-> Gone, x |-> FALSE]
         /\ e.kind = "symlink" => Shown(e, p, bytes) = [val |-> Empty, x |-> FALSE]
         /\ e.kind = "none" => Shown(e, p, bytes) = [val |-> IF p \in Baseline THEN p ELSE Gone, x |-> FALSE]
         /\ Shown(e, p, bytes).val \notin {Gone, Broken} => Shown(e, p, bytes).val \in Bytes
<1>1. /\ e.kind \in {"none", "tombstone", "symlink", "baseref", "file"}
      /\ e.kind = "file" => e.of \in Ids /\ e.x \in BOOLEAN
      /\ e.kind = "baseref" => e.of \in Baseline /\ e.x \in BOOLEAN
  BY EntryKinds
<1>2. CASE e.kind = "file"
  BY <1>1, <1>2 DEF Shown
<1>3. CASE e.kind = "baseref"
  BY <1>1, <1>3, ByteKinds DEF Shown
<1>4. CASE e.kind = "tombstone"
  BY <1>4 DEF Shown
<1>5. CASE e.kind = "symlink"
  BY <1>5, ByteKinds DEF Shown
<1>6. CASE e.kind = "none"
  BY <1>6, ByteKinds DEF Shown
<1> QED  BY <1>1, <1>2, <1>3, <1>4, <1>5, <1>6

LEMMA NoCalls == \A i : i \in Items(<<>>) => FALSE
BY EmptyList

LEMMA OneAsk ==
  ASSUME NEW do \in Finding, NEW p, NEW e \in Entries
  PROVE  /\ <<Call(do, p, e)>> = Then(Call(do, p, e), <<>>)
         /\ \A a \in Items(<<Call(do, p, e)>>) : a.entry \in Entries /\ a.do # "content"
<1>1. <<Call(do, p, e)>> = Then(Call(do, p, e), <<>>)
  BY OneCall
<1>2. Items(<<Call(do, p, e)>>) = {Call(do, p, e)}
  BY <1>1, EmptyList, ThenParts
<1> QED  BY <1>1, <1>2, CallFields DEF Finding

LEMMA PutTyped ==
  ASSUME NEW p, NEW e \in Entries, NEW a \in Items(Put(p, e))
  PROVE  a.entry \in Entries /\ a.do # "content"
BY PutAlone

LEMMA CreateTyped ==
  ASSUME NEW p, NEW i \in Ids, NEW x \in BOOLEAN, NEW seed \in Bytes, NEW a \in Items(CreateFile(p, i, x, seed))
  PROVE  a.entry \in Entries /\ (a.do = "content" => a.val \in Bytes /\ a.entry.kind = "file")
<1>1. PICK b : /\ b.do = "content" /\ b.entry = File(i, x) /\ b.val = seed
               /\ CreateFile(p, i, x, seed) = Then(b, PutThen(p, File(i, x), <<>>))
  BY CreateList
<1>2. IsList(PutThen(p, File(i, x), <<>>)) /\ PutThen(p, File(i, x), <<>>) = Put(p, File(i, x))
  BY EmptyList, PutList
<1>3. a = b \/ a \in Items(Put(p, File(i, x)))
  BY <1>1, <1>2, ThenParts
<1>4. File(i, x) \in Entries /\ File(i, x).kind = "file"
  BY PlainEntries
<1>5. CASE a = b
  BY <1>1, <1>4, <1>5
<1>6. CASE a \in Items(Put(p, File(i, x)))
  BY <1>4, <1>6, PutTyped
<1> QED  BY <1>3, <1>5, <1>6

LEMMA RestTyped ==
  ASSUME NEW c, IsList(c.todo), c.todo # <<>>, CallOK(c)
  PROVE  /\ Head(c.todo).entry \in Entries
         /\ Head(c.todo).do = "content" => Head(c.todo).val \in Bytes /\ Head(c.todo).entry.kind = "file"
         /\ \A a \in Items(Tail(c.todo)) :
              a.entry \in Entries /\ (a.do = "content" => a.val \in Bytes /\ a.entry.kind = "file")
BY Front DEF CallOK

\* A step of worker w alone.
LEMMA TypeStep ==
  ASSUME TypeInv, DurableInv', StoreOK', NEW w \in Workers, CallOK(worker'[w]),
         \A v \in Workers \ {w} : worker'[v] = worker[v]
  PROVE  TypeInv'
<1>1. ASSUME NEW v \in Workers PROVE CallOK(worker'[v])
  <2>1. CASE v = w
    BY <2>1
  <2>2. CASE v # w
    BY <2>2 DEF TypeInv
  <2> QED  BY <2>1, <2>2
<1>2. \A v \in Workers : CallOK(worker[v])'
  BY <1>1 DEF CallOK
<1> QED  BY <1>2 DEF TypeInv

\* The plain calls: the list gets shorter.
LEMMA AdvanceTyped ==
  ASSUME TypeInv, DurableInv', NEW w \in Workers, Advance(w), worker[w].todo # <<>>, Head(worker[w].todo).do \notin Finding,
         StoreOK'
  PROVE  TypeInv'
<1> DEFINE c == worker[w]
<1>1. /\ worker' = [worker EXCEPT ![w].todo = Tail(c.todo)] /\ DOMAIN worker = Workers /\ DOMAIN worker[w] = Fields
      /\ IsList(c.todo) /\ CallOK(c)
  BY DEF Advance, TypeInv, DurableInv, Framed, AllOnNames, OnItsNames
<1>2. /\ worker'[w].op = c.op /\ worker'[w].id = c.id /\ worker'[w].x = c.x /\ worker'[w].path = c.path
      /\ worker'[w].todo = Tail(c.todo) /\ \A v \in Workers \ {w} : worker'[v] = worker[v]
  BY <1>1 DEF Fields
<1>3. ~(c.op \in Opening /\ c.id = NoId)
  <2> SUFFICES ASSUME c.op \in Opening, c.id = NoId PROVE FALSE
    OBVIOUS
  <2>1. PICK do \in Finding : c.todo = Then(Call(do, c.path, None), <<>>)
    BY <1>1 DEF CallOK
  <2>2. Head(c.todo) = Call(do, c.path, None)
    BY <2>1, EmptyList, ThenParts
  <2> QED  BY <2>2, CallFields
<1>4. CallOK(worker'[w])
  BY <1>1, <1>2, <1>3, RestTyped DEF CallOK
<1> QED  BY <1>2, <1>4, TypeStep

LEMMA AtFront ==
  ASSUME TypeInv, NEW w \in Workers, worker[w].todo # <<>>
  PROVE  LET c == worker[w]
             a == Head(c.todo)
         IN  /\ c.op # "idle" /\ c.path \in Paths /\ c.path \in Touch(c) /\ Touch(c) \subseteq Paths
             /\ a \in Items(c.todo) /\ a.path \in Touch(c) /\ a.path \in Paths
             /\ a.do = "rekey" => c.op = "rename" /\ a.path = c.path /\ c.to \in Touch(c) /\ c.to \in Paths \ {c.path}
             /\ a.do \in Finding => c.op # "rename" /\ Touch(c) = {c.path}
             /\ a.entry \in Entries
             /\ a.do = "content" => a.val \in Bytes /\ a.entry.kind = "file" /\ a.entry.of \in Ids
<1> DEFINE c == worker[w]
           a == Head(c.todo)
<1>1. OnItsNames(c) /\ CallOK(c)
  BY DEF TypeInv, DurableInv, AllOnNames
<1>2. a \in Items(c.todo) /\ IsList(c.todo)
  BY <1>1, Front DEF OnItsNames
<1>3. c.op # "idle"
  BY <1>1 DEF OnItsNames, Idle
<1>4. c.path \in Paths /\ c.path \in Touch(c) /\ Touch(c) \subseteq Paths /\ a.path \in Touch(c)
  BY <1>1, <1>2, <1>3, PathAssumption DEF OnItsNames, Touch
<1>5. a.do = "rekey" => c.op = "rename" /\ a.path = c.path /\ c.to \in Touch(c) /\ c.to \in Paths \ {c.path}
  BY <1>1, <1>2, <1>3, PathAssumption DEF OnItsNames, Touch
<1>6. a.do \in Finding => c.op # "rename" /\ Touch(c) = {c.path}
  BY <1>1, <1>2, <1>4 DEF OnItsNames, Touch
<1>7. a.entry \in Entries /\ (a.do = "content" => a.val \in Bytes /\ a.entry.kind = "file")
  BY <1>1, <1>2, RestTyped
<1>8. a.do = "content" => a.entry.of \in Ids
  BY <1>7, EntryKinds
<1> QED  BY <1>2, <1>3, <1>4, <1>5, <1>6, <1>7, <1>8

LEMMA Grown ==
  /\ \A f \in [Paths -> Entries] : \A p \in Paths : \A e \in Entries : [f EXCEPT ![p] = e] \in [Paths -> Entries]
  /\ \A g \in [Ids -> Bytes \union {Broken}] : \A i \in Ids : \A b \in Bytes \union {Broken} :
       [g EXCEPT ![i] = b] \in [Ids -> Bytes \union {Broken}]
OBVIOUS

\* A step that changes what is stored, typed.
LEMMA StoreStep ==
  ASSUME StoreOK, sidecar' \in [Paths -> Entries], tmp' \in [Paths -> Entries], removed' \in [Paths -> Entries],
         index' \in [Paths -> Entries], content' \in [Ids -> Bytes \union {Broken}], seq' \in 0..MaxSeq,
         UNCHANGED <<pid, handles, ghosts>>
  PROVE  StoreOK'
BY DEF StoreOK, ghosts

LEMMA WorksTyped ==
  ASSUME TypeInv, NEW w \in Workers, Works(w)
  PROVE  TypeInv'
<1> DEFINE c == worker[w]
           a == Head(c.todo)
<1>1. DurableInv' /\ c.todo # <<>>
  BY WorksDurable, Works1 DEF TypeInv, DurableInv
<1>2. /\ c.op # "idle" /\ c.path \in Paths /\ a.path \in Paths /\ a.entry \in Entries
      /\ a.do = "rekey" => c.to \in Paths
      /\ a.do = "content" => a.val \in Bytes /\ a.entry.of \in Ids
  BY <1>1, AtFront
<1>3. /\ sidecar \in [Paths -> Entries] /\ tmp \in [Paths -> Entries] /\ removed \in [Paths -> Entries]
      /\ index \in [Paths -> Entries] /\ content \in [Ids -> Bytes \union {Broken}] /\ seq \in 0..MaxSeq /\ StoreOK
  BY DEF TypeInv, StoreOK
<1>4. {None, Tomb} \subseteq Entries
  BY PlainEntries
<1>5. \A p \in Paths : index[p].kind = "file" => index[p].of \in Ids
  BY <1>3, EntryKinds
<1>6. Empty \in Bytes
  BY ByteKinds
<1>7. CASE Content(w) \/ DropContent(w)
  <2>1. /\ Advance(w) /\ a.do \in {"content", "drop"} /\ UNCHANGED <<sidecar, tmp, removed, index, seq, pid, handles, ghosts>>
    BY <1>7 DEF Content, DropContent, Does, Next1
  <2>2. content' \in [Ids -> Bytes \union {Broken}]
    BY <1>2, <1>3, <1>5, <1>7, Grown DEF Content, DropContent, Does, Next1
  <2>3. StoreOK'
    BY <1>3, <2>1, <2>2, StoreStep
  <2> QED  BY <1>1, <2>1, <2>3, AdvanceTyped DEF Finding
<1>8. CASE Stage(w)
  <2>1. /\ Advance(w) /\ a.do = "stage" /\ UNCHANGED <<sidecar, content, removed, index, seq, pid, handles, ghosts>>
        /\ tmp' = [tmp EXCEPT ![a.path] = a.entry]
    BY <1>8 DEF Stage, Does, Next1
  <2>2. StoreOK'
    BY <1>2, <1>3, <2>1, Grown, StoreStep
  <2> QED  BY <1>1, <2>1, <2>2, AdvanceTyped DEF Finding
<1>9. CASE Publish(w)
  <2>1. /\ Advance(w) /\ a.do = "publish" /\ UNCHANGED <<content, index, seq, pid, handles, ghosts>>
        /\ sidecar' = [sidecar EXCEPT ![a.path] = tmp[a.path]] /\ tmp' = [tmp EXCEPT ![a.path] = None]
        /\ removed' = [q \in Paths |-> None]
    BY <1>9 DEF Publish, Does, Next1
  <2>2. StoreOK'
    <3>1. /\ sidecar' \in [Paths -> Entries] /\ tmp' \in [Paths -> Entries]
          /\ removed' \in [Paths -> Entries]
      BY <1>2, <1>3, <1>4, <2>1, Grown
    <3> QED  BY <1>3, <2>1, <3>1, StoreStep
  <2> QED  BY <1>1, <2>1, <2>2, AdvanceTyped DEF Finding
<1>10. CASE Insert(w)
  <2>1. /\ Advance(w) /\ a.do = "insert" /\ UNCHANGED <<sidecar, tmp, content, removed, seq, pid, handles, ghosts>>
        /\ index' = [index EXCEPT ![a.path] = a.entry]
    BY <1>10 DEF Insert, Does, Next1, diskVars
  <2>2. StoreOK'
    BY <1>2, <1>3, <2>1, Grown, StoreStep
  <2> QED  BY <1>1, <2>1, <2>2, AdvanceTyped DEF Finding
<1>11. CASE IndexRekey(w)
  <2>1. /\ Advance(w) /\ a.do = "rekey" /\ UNCHANGED <<sidecar, tmp, content, removed, seq, pid, handles, ghosts>>
        /\ index' = [index EXCEPT ![c.to] = a.entry, ![a.path] = None]
    BY <1>11 DEF IndexRekey, Does, Next1, diskVars
  <2>2. index' \in [Paths -> Entries]
    BY <1>2, <1>3, <1>4, <2>1
  <2>3. StoreOK'
    BY <1>3, <2>1, <2>2, StoreStep
  <2> QED  BY <1>1, <2>1, <2>3, AdvanceTyped DEF Finding
<1>12. CASE Unpersist(w)
  <2>1. /\ Advance(w) /\ a.do = "unpersist" /\ UNCHANGED <<tmp, content, index, seq, pid, handles, ghosts>>
        /\ sidecar' = [sidecar EXCEPT ![a.path] = None]
        /\ removed' = [removed EXCEPT ![a.path] = sidecar[a.path]] \/ removed' = removed
    BY <1>12 DEF Unpersist, Does, Next1
  <2>2. sidecar' \in [Paths -> Entries] /\ removed' \in [Paths -> Entries]
    BY <1>2, <1>3, <1>4, <2>1, Grown
  <2>3. StoreOK'
    BY <1>3, <2>1, <2>2, StoreStep
  <2> QED  BY <1>1, <2>1, <2>3, AdvanceTyped DEF Finding
<1>13. /\ DOMAIN worker = Workers /\ DOMAIN c = Fields /\ CallOK(c)
  BY DEF TypeInv, DurableInv, Framed
<1>14. CASE Look(w)
  <2> DEFINE p == c.path
             t == IF index[p].kind # "file" THEN <<Call("resolve", p, None)>>
                  ELSE IF c.op = "chmod" THEN ChmodCalls(p, c.x)
                  ELSE <<Call("openContent", p, None)>>
  <2>1. /\ worker' = [worker EXCEPT ![w].todo = t]
        /\ UNCHANGED <<sidecar, tmp, removed, content, index, seq, pid, handles, ghosts>>
    BY <1>14 DEF Look, diskVars
  <2>2. \A b \in Items(t) : b.entry \in Entries /\ b.do # "content"
    <3>1. CASE index[p].kind = "file" /\ c.op = "chmod"
      <4>1. t = Put(p, File(index[p].of, c.x)) /\ File(index[p].of, c.x) \in Entries
        BY <1>2, <1>5, <1>13, <3>1, PlainEntries DEF ChmodCalls, CallOK
      <4> QED  BY <4>1, PutTyped
    <3>2. CASE ~(index[p].kind = "file" /\ c.op = "chmod")
      <4>1. \E do \in Finding : t = <<Call(do, p, None)>>
        BY <3>2 DEF Finding
      <4> QED  BY <1>4, <4>1, OneAsk
    <3> QED  BY <3>1, <3>2
  <2>3. c.op # "chmod" => \E do \in Finding : t = Then(Call(do, p, None), <<>>)
    BY OneCall DEF Finding
  <2> HIDE DEF t
  <2>4. /\ worker'[w].op = c.op /\ worker'[w].id = c.id /\ worker'[w].x = c.x /\ worker'[w].path = c.path
        /\ worker'[w].todo = t /\ \A v \in Workers \ {w} : worker'[v] = worker[v]
    BY <1>13, <2>1 DEF Fields
  <2>5. CallOK(worker'[w])
    BY <1>13, <2>2, <2>3, <2>4 DEF CallOK, Opening
  <2>6. StoreOK'
    BY <1>3, <2>1, StoreStep
  <2> QED  BY <1>1, <2>4, <2>5, <2>6, TypeStep
<1>15. CASE CopyUp(w)
  <2> DEFINE p == c.path
             x == IF c.op = "chmod" THEN c.x ELSE Seen(p).x
             seed == IF c.op \in Truncations THEN Empty ELSE Seen(p).val
             t == CreateFile(p, <<pid, seq>>, x, seed)
  <2>1. /\ worker' = [worker EXCEPT ![w].id = <<pid, seq>>, ![w].todo = t] /\ Clean(p) /\ seq < MaxSeq /\ seq' = seq + 1
        /\ UNCHANGED <<sidecar, tmp, removed, content, index, pid, handles, ghosts>>
    BY <1>15 DEF CopyUp, diskVars, NewContentId
  <2>2. <<pid, seq>> \in Ids /\ seq' \in 0..MaxSeq
    BY <2>1, OverlayBounds DEF TypeInv, StoreOK, Ids
  <2>3. x \in BOOLEAN /\ seed \in Bytes
    <3>1. index[p] \in Entries
      BY <1>2, <1>3
    <3> DEFINE e == index[p]
    <3>2. /\ Seen(p).x \in BOOLEAN
          /\ e.kind = "baseref" => Seen(p).val \in Bytes
          /\ e.kind = "none" => Seen(p).val = IF p \in Baseline THEN p ELSE Gone
      BY <1>2, <1>3, <3>1, ShownType DEF Seen
    <3>3. Seen(p).val \in Bytes
      BY <2>1, <3>2, ByteKinds DEF Clean
    <3> QED  BY <1>6, <1>13, <3>2, <3>3 DEF CallOK
  <2> HIDE DEF x, seed
  <2>4. \A b \in Items(t) : b.entry \in Entries /\ (b.do = "content" => b.val \in Bytes /\ b.entry.kind = "file")
    BY <2>2, <2>3, CreateTyped
  <2> HIDE DEF t
  <2>5. /\ worker'[w].op = c.op /\ worker'[w].id = <<pid, seq>> /\ worker'[w].x = c.x /\ worker'[w].path = c.path
        /\ worker'[w].todo = t /\ \A v \in Workers \ {w} : worker'[v] = worker[v]
    BY <1>13, <2>1 DEF Fields
  <2>6. <<pid, seq>> # NoId
    BY <2>2 DEF Ids, Pids, NoId
  <2>7. CallOK(worker'[w])
    BY <1>13, <2>2, <2>4, <2>5, <2>6 DEF CallOK
  <2>8. StoreOK'
    BY <1>3, <2>1, <2>2, StoreStep
  <2> QED  BY <1>1, <2>5, <2>7, <2>8, TypeStep
<1>16. CASE OpenContent(w)
  <2> DEFINE e == index[c.path]
  <2>1. /\ e.kind = "file" /\ worker' = [worker EXCEPT ![w].id = e.of, ![w].todo = <<>>]
        /\ content' = (IF c.op \in Truncations THEN [content EXCEPT ![e.of] = Empty] ELSE content)
        /\ UNCHANGED <<sidecar, tmp, removed, index, pid, seq, handles, ghosts>>
    BY <1>16 DEF OpenContent
  <2>2. e.of \in Ids
    BY <1>2, <1>5, <2>1
  <2>3. StoreOK'
    BY <1>3, <1>6, <2>1, <2>2, Grown, StoreStep
  <2> HIDE DEF e
  <2>4. /\ worker'[w].op = c.op /\ worker'[w].id = e.of /\ worker'[w].x = c.x
        /\ worker'[w].todo = <<>> /\ \A v \in Workers \ {w} : worker'[v] = worker[v]
    BY <1>13, <2>1 DEF Fields
  <2>5. e.of # NoId
    BY <2>2 DEF Ids, Pids, NoId
  <2>6. CallOK(worker'[w])
    BY <1>13, <2>2, <2>4, <2>5, NoCalls DEF CallOK
  <2> QED  BY <1>1, <2>3, <2>4, <2>6, TypeStep
<1> QED  BY <1>7, <1>8, <1>9, <1>10, <1>11, <1>12, <1>14, <1>15, <1>16 DEF Works

LEMMA BeginTyped ==
  ASSUME TypeInv, NEW w \in Workers, NEW c, Begin(w, c), DurableInv', CallOK(c), seq' \in 0..MaxSeq
  PROVE  TypeInv'
<1>1. /\ worker' = [worker EXCEPT ![w] = c] /\ DOMAIN worker = Workers
  BY DEF Begin, TypeInv, DurableInv, Framed
<1>2. worker'[w] = c /\ \A v \in Workers \ {w} : worker'[v] = worker[v]
  BY <1>1
<1>3. StoreOK'
  <2>1. mark' \in [Paths -> {"clear", "cut", "healed", "raced"}]
    BY DEF Begin, TypeInv, StoreOK
  <2>2. starts' \in 0..MaxStarts
    BY OverlayBounds DEF Begin, TypeInv, StoreOK
  <2>3. UNCHANGED <<sidecar, tmp, removed, content, index, pid, handles, view, writes, restarts>>
    BY DEF Begin, diskVars
  <2> QED  BY <2>1, <2>2, <2>3 DEF TypeInv, StoreOK
<1> QED  BY <1>2, <1>3, TypeStep

LEMMA StartTyped ==
  ASSUME TypeInv, NEW w \in Workers, Start(w)
  PROVE  TypeInv'
<1>1. DurableInv'
  BY CreateDurable, SymlinkDurable, UnlinkDurable, ModifyDurable, RenameDurable DEF Start, Modifications, TypeInv
<1>2. /\ index \in [Paths -> Entries] /\ seq \in 0..MaxSeq /\ content \in [Ids -> Bytes \union {Broken}]
      /\ Modes \subseteq BOOLEAN /\ {None, Tomb, Symlink} \subseteq Entries
  BY LossAssumption, PlainEntries DEF TypeInv, StoreOK
<1>3. ASSUME NEW p \in Paths, NEW x \in Modes, Create(w, p, x)
      PROVE  TypeInv'
  <2> DEFINE L == CreateFile(p, <<pid, seq>>, x, Empty)
             c == [Idle EXCEPT !.op = "create", !.path = p, !.x = x, !.id = <<pid, seq>>, !.todo = L]
  <2>1. Begin(w, c) /\ seq < MaxSeq /\ seq' = seq + 1
    BY <1>3 DEF Create, NewContentId
  <2>2. <<pid, seq>> \in Ids /\ seq' \in 0..MaxSeq
    BY <2>1, OverlayBounds DEF TypeInv, StoreOK, Ids
  <2>3. \A b \in Items(L) : b.entry \in Entries /\ (b.do = "content" => b.val \in Bytes /\ b.entry.kind = "file")
    BY <1>2, <2>2, ByteKinds, CreateTyped
  <2> HIDE DEF L
  <2>4. c.op = "create" /\ c.id = <<pid, seq>> /\ c.x = x /\ c.todo = L
    BY DEF Idle
  <2> HIDE DEF c
  <2>5. c.op \in Ops /\ <<pid, seq>> # NoId
    BY <2>1, <2>2 DEF Begin, MayStart, Ids, Pids, NoId
  <2>6. CallOK(c)
    BY <1>2, <2>2, <2>3, <2>4, <2>5 DEF CallOK
  <2> QED  BY <1>1, <2>1, <2>2, <2>6, BeginTyped
<1>4. ASSUME NEW c, c.op \in {"symlink", "unlink", "rename"}, c.id = NoId, c.x \in BOOLEAN, Begin(w, c), seq' = seq,
             \A b \in Items(c.todo) : b.entry \in Entries /\ b.do # "content"
      PROVE  TypeInv'
  <2>1. c.op \in Ops
    BY <1>4 DEF Begin, MayStart
  <2>2. CallOK(c)
    BY <1>4, <2>1 DEF CallOK, Opening
  <2> QED  BY <1>1, <1>2, <1>4, <2>2, BeginTyped
<1>5. ASSUME NEW p \in Paths, PutSymlink(w, p)
      PROVE  TypeInv'
  <2> DEFINE L == Put(p, Symlink)
             c == [Idle EXCEPT !.op = "symlink", !.path = p, !.todo = L]
  <2>1. Begin(w, c) /\ seq' = seq
    BY <1>5 DEF PutSymlink
  <2>2. \A b \in Items(L) : b.entry \in Entries /\ b.do # "content"
    BY <1>2, PutTyped
  <2> HIDE DEF L
  <2>3. c.op = "symlink" /\ c.id = NoId /\ c.x \in BOOLEAN /\ c.todo = L
    BY DEF Idle
  <2> HIDE DEF c
  <2>4. \A b \in Items(c.todo) : b.entry \in Entries /\ b.do # "content"
    BY <2>2, <2>3
  <2> QED  BY <1>4, <2>1, <2>3, <2>4
<1>6. ASSUME NEW p \in Paths, Unlink(w, p)
      PROVE  TypeInv'
  <2> DEFINE L == UnlinkCalls(p)
             c == [Idle EXCEPT !.op = "unlink", !.path = p, !.todo = L]
  <2>1. Begin(w, c) /\ seq' = seq
    BY <1>6 DEF Unlink
  <2>2. \A b \in Items(L) : b.entry \in {Tomb, None} /\ b.do # "content"
    <3>1. L \in {Entombed(p), Clear(p)}
      BY RemovalLists DEF UnlinkCalls
    <3> QED  BY <3>1, OneNameItems
  <2> HIDE DEF L
  <2>3. c.op = "unlink" /\ c.id = NoId /\ c.x \in BOOLEAN /\ c.todo = L
    BY DEF Idle
  <2> HIDE DEF c
  <2>4. \A b \in Items(c.todo) : b.entry \in Entries /\ b.do # "content"
    BY <1>2, <2>2, <2>3
  <2> QED  BY <1>4, <2>1, <2>3, <2>4
<1>7. ASSUME NEW s \in Paths, NEW d \in Paths, Rename(w, s, d)
      PROVE  TypeInv'
  <2> DEFINE L == RenameCalls(s, d)
             c == [Idle EXCEPT !.op = "rename", !.path = s, !.to = d, !.todo = L]
  <2>1. s # d /\ Exists(s) /\ Begin(w, c) /\ seq' = seq
    BY <1>7 DEF Rename
  <2>2. s # d
    BY <2>1
  <2>3. \A b \in Items(L) :
          /\ b.entry \in {index[s], BaseRef(s, FALSE), Tomb, None} /\ b.do \notin Finding \union {"content"}
          /\ index[s].kind # "none" => b.entry \in {index[s], Tomb, None}
    <3> SUFFICES ASSUME NEW b \in Items(RenameCalls(s, d))
                 PROVE  /\ b.entry \in {index[s], BaseRef(s, FALSE), Tomb, None} /\ b.do \notin Finding \union {"content"}
                        /\ index[s].kind # "none" => b.entry \in {index[s], Tomb, None}
      OBVIOUS
    <3> QED  BY <2>2, RenameItems
  <2>4. index[s].kind = "none" => BaseRef(s, FALSE) \in Entries
    <3>1. index[s].kind = "none" => s \in Baseline
      BY <2>1 DEF Exists, Seen, Shown
    <3> QED  BY <3>1, PlainEntries
  <2> HIDE DEF L
  <2>5. \A b \in Items(L) : b.entry \in Entries /\ b.do # "content"
    BY <1>2, <2>3, <2>4
  <2>6. c.op = "rename" /\ c.id = NoId /\ c.x \in BOOLEAN /\ c.todo = L
    BY DEF Idle
  <2> HIDE DEF c
  <2>7. \A b \in Items(c.todo) : b.entry \in Entries /\ b.do # "content"
    BY <2>5, <2>6
  <2> QED  BY <1>4, <2>1, <2>6, <2>7
<1>8. ASSUME NEW p \in Paths, NEW op \in Modifications, NEW x \in BOOLEAN, Modify(w, op, p, x)
      PROVE  TypeInv'
  <2> DEFINE L == <<Call("look", p, None)>>
             c == [Idle EXCEPT !.op = op, !.path = p, !.x = x, !.todo = L]
  <2>1. Begin(w, c) /\ seq' = seq
    BY <1>8 DEF Modify
  <2>2. /\ L = Then(Call("look", p, None), <<>>)
        /\ \A a \in Items(L) : a.entry \in Entries /\ a.do # "content"
    BY <1>2, OneAsk DEF Finding
  <2> HIDE DEF L
  <2>3. c.op = op /\ c.id = NoId /\ c.x = x /\ c.todo = L /\ c.path = p
    BY DEF Idle
  <2> HIDE DEF c
  <2>4. c.op \in Ops
    BY <2>1 DEF Begin, MayStart
  <2>5. CallOK(c)
    BY <2>2, <2>3, <2>4 DEF CallOK, Finding
  <2> QED  BY <1>1, <1>2, <2>1, <2>5, BeginTyped
<1> QED
  BY <1>2, <1>3, <1>5, <1>6, <1>7, <1>8 DEF Start, Modifications

LEMMA IdleTyped == CallOK(Idle)
<1>1. Idle.op = "idle" /\ Idle.id = NoId /\ Idle.x = FALSE /\ Idle.todo = <<>>
  BY DEF Idle
<1> QED  BY <1>1, NoCalls DEF CallOK, Opening

\* The callback leaves; what it made of the names and handles is typed.
LEMMA EndsTyped ==
  ASSUME TypeInv, DurableInv', NEW w \in Workers, worker' = [worker EXCEPT ![w] = Idle],
         UNCHANGED <<diskVars, index, pid, seq, starts, writes, restarts>>,
         handles' \subseteq [id : Ids, at : Paths \union {NoPath}],
         view' \in [Paths -> Views], mark' \in [Paths -> {"clear", "cut", "healed", "raced"}]
  PROVE  TypeInv'
<1>1. worker'[w] = Idle /\ \A v \in Workers \ {w} : worker'[v] = worker[v]
  BY DEF TypeInv, DurableInv, Framed
<1>2. StoreOK'
  BY DEF TypeInv, StoreOK, diskVars
<1>3. CallOK(worker'[w])
  BY <1>1, IdleTyped
<1> QED  BY <1>1, <1>2, <1>3, TypeStep

LEMMA FailTyped ==
  ASSUME TypeInv, NEW w \in Workers, Fail(w) \/ ModifyFails(w)
  PROVE  TypeInv'
<1>1. DurableInv'
  BY FailDurable DEF TypeInv
<1>2. /\ worker' = [worker EXCEPT ![w] = Idle] /\ UNCHANGED <<diskVars, index, pid, seq, starts, writes, restarts, handles, view>>
      /\ mark' = mark \/ mark' = Cut(Touch(worker[w]))
  BY DEF Fail, ModifyFails, ghosts
<1>3. mark' \in [Paths -> {"clear", "cut", "healed", "raced"}]
  BY <1>2 DEF TypeInv, StoreOK, Cut
<1>4. handles' \subseteq [id : Ids, at : Paths \union {NoPath}] /\ view' \in [Paths -> Views]
  BY <1>2 DEF TypeInv, StoreOK
<1> QED  BY <1>1, <1>2, <1>3, <1>4, EndsTyped

LEMMA LeftoverTyped ==
  ASSUME TypeInv, NEW w \in Workers, UnpersistFails(w)
  PROVE  TypeInv'
<1>1. Framed /\ AllOnNames /\ DurableInv' /\ StoreOK
  BY LeftoverDurable DEF TypeInv, DurableInv
<1>2. /\ Advance(w) /\ worker[w].todo # <<>> /\ Head(worker[w].todo).do \notin Finding
      /\ mark' = Cut(Touch(worker[w])) /\ index' = index
      /\ UNCHANGED <<diskVars, pid, seq, handles, view, starts, writes, restarts>>
  BY <1>1, Leftover
<1>3. mark' \in [Paths -> {"clear", "cut", "healed", "raced"}]
  BY <1>1, <1>2 DEF StoreOK, Cut
<1>4. StoreOK'
  BY <1>1, <1>2, <1>3 DEF StoreOK, diskVars
<1> QED  BY <1>1, <1>2, <1>4, AdvanceTyped

\* What an answered callback makes of its path, when that had the view u.
Owed(c, u) ==
  CASE c.op = "create"        -> [val |-> Empty, x |-> c.x]
    [] c.op = "symlink"       -> [val |-> Empty, x |-> FALSE]
    [] c.op \in Truncations   -> [val |-> Empty, x |-> u.x]
    [] c.op = "chmod"         -> [val |-> u.val, x |-> c.x]
    [] c.op = "open"          -> u

OneNameOps == {"create", "symlink"} \union Modifications
NoSuch == [val |-> Gone, x |-> FALSE]

LEMMA Views1 ==
  ASSUME NEW u \in Views
  PROVE  /\ u = [val |-> u.val, x |-> u.x] /\ u.val \in Bytes \union {Gone} /\ u.x \in BOOLEAN
         /\ \A b : [u EXCEPT !.val = b] = [val |-> b, x |-> u.x]
         /\ \A x : [u EXCEPT !.x = x] = [val |-> u.val, x |-> x]
BY DEF Views

LEMMA AfterIs ==
  ASSUME StoreOK, NEW c, c.path \in Paths, c.x \in BOOLEAN
  PROVE  /\ c.op \in OneNameOps =>
              After(c) = [view EXCEPT ![c.path] = Owed(c, view[c.path])] /\ Owed(c, view[c.path]) \in Views
         /\ c.op = "unlink" => After(c) = [view EXCEPT ![c.path] = NoSuch] /\ NoSuch \in Views
         /\ c.op = "rename" => After(c) = [view EXCEPT ![c.to] = view[c.path], ![c.path] = NoSuch] /\ NoSuch \in Views
<1> DEFINE u == view[c.path]
<1>1. view \in [Paths -> Views] /\ u \in Views
  BY DEF StoreOK
<1>2. /\ u = [val |-> u.val, x |-> u.x] /\ u.val \in Bytes \union {Gone} /\ u.x \in BOOLEAN
      /\ \A b : [u EXCEPT !.val = b] = [val |-> b, x |-> u.x]
      /\ \A x : [u EXCEPT !.x = x] = [val |-> u.val, x |-> x]
  BY <1>1, Views1
<1>3. \A b \in Bytes \union {Gone} : \A x \in BOOLEAN : [val |-> b, x |-> x] \in Views
  BY DEF Views
<1>4. Empty \in Bytes
  BY ByteKinds
<1>5. CASE c.op = "create"
  <2>1. After(c) = [view EXCEPT ![c.path] = [val |-> Empty, x |-> c.x]]
    BY <1>5 DEF After, Truncations
  <2>2. Owed(c, u) = [val |-> Empty, x |-> c.x]
    BY <1>5 DEF Owed, Truncations
  <2> QED  BY <1>3, <1>4, <1>5, <2>1, <2>2
<1>6. CASE c.op = "symlink"
  <2>1. After(c) = [view EXCEPT ![c.path] = [val |-> Empty, x |-> FALSE]]
    BY <1>6 DEF After, Truncations
  <2>2. Owed(c, u) = [val |-> Empty, x |-> FALSE]
    BY <1>6 DEF Owed, Truncations
  <2> QED  BY <1>3, <1>4, <1>6, <2>1, <2>2
<1>7. CASE c.op \in Truncations
  <2>1. After(c) = [view EXCEPT ![c.path].val = Empty]
    BY <1>7 DEF After, Truncations
  <2>2. Owed(c, u) = [val |-> Empty, x |-> u.x]
    BY <1>7 DEF Owed, Truncations
  <2>3. After(c) = [view EXCEPT ![c.path] = [val |-> Empty, x |-> u.x]]
    BY <1>1, <1>2, <2>1
  <2> QED  BY <1>2, <1>3, <1>4, <1>7, <2>2, <2>3 DEF Truncations
<1>8. CASE c.op = "chmod"
  <2>1. After(c) = [view EXCEPT ![c.path].x = c.x]
    BY <1>8 DEF After, Truncations
  <2>2. Owed(c, u) = [val |-> u.val, x |-> c.x]
    BY <1>8 DEF Owed, Truncations
  <2>3. After(c) = [view EXCEPT ![c.path] = [val |-> u.val, x |-> c.x]]
    BY <1>1, <1>2, <2>1
  <2> QED  BY <1>2, <1>3, <1>8, <2>2, <2>3
<1>9. CASE c.op = "open"
  <2>1. After(c) = view /\ Owed(c, u) = u
    BY <1>9 DEF After, Owed, Truncations
  <2> QED  BY <1>1, <1>9, <2>1
<1>10. NoSuch \in Views
  BY <1>3 DEF NoSuch
<1>11. c.op = "unlink" => After(c) = [view EXCEPT ![c.path] = NoSuch]
  BY DEF After, NoSuch, Truncations
<1>12. c.op = "rename" => After(c) = [view EXCEPT ![c.to] = view[c.path], ![c.path] = NoSuch]
  BY DEF After, NoSuch, Truncations
<1> QED  BY <1>5, <1>6, <1>7, <1>8, <1>9, <1>10, <1>11, <1>12 DEF OneNameOps, Modifications, Truncations

LEMMA AnswerIds ==
  ASSUME TypeInv, NEW w \in Workers, worker[w].todo = <<>>, worker[w].op \in Opening
  PROVE  worker[w].id \in Ids
<1>1. CallOK(worker[w])
  BY DEF TypeInv
<1>2. \A do : Then(Call(do, worker[w].path, None), <<>>) # <<>>
  BY EmptyList, ThenParts
<1> QED  BY <1>1, <1>2 DEF CallOK

LEMMA ReplyTyped ==
  ASSUME TypeInv, NEW w \in Workers, Reply(w)
  PROVE  TypeInv'
<1> DEFINE c == worker[w]
           H == [id : Ids, at : Paths \union {NoPath}]
<1>1. DurableInv'
  BY ReplyDurable DEF TypeInv
<1>2. /\ c.op # "idle" /\ c.todo = <<>> /\ worker' = [worker EXCEPT ![w] = Idle] /\ view' = After(c)
      /\ handles' = {Follow(h, c) : h \in handles}
                      \union (IF c.op \in Opening THEN {[id |-> c.id, at |-> c.path]} ELSE {})
      /\ UNCHANGED <<diskVars, index, pid, seq, starts, writes, restarts>>
  BY DEF Reply
<1>3. c.path \in Paths /\ c.to \in Paths \union {NoPath} /\ (c.op = "rename" => c.to \in Paths) /\ c.x \in BOOLEAN
      /\ c.op \in Ops /\ CallOK(c)
  BY <1>2 DEF TypeInv, DurableInv, AllOnNames, OnItsNames, CallOK
<1>4. StoreOK /\ handles \subseteq H /\ view \in [Paths -> Views]
  BY DEF TypeInv, StoreOK
<1>5. c.op \in OneNameOps \union {"unlink", "rename"}
  BY <1>3, OpAssumption DEF OneNameOps, Callbacks, NamespaceOps
<1>6. view' \in [Paths -> Views]
  <2>1. CASE c.op \in OneNameOps
    <3>1. After(c) = [view EXCEPT ![c.path] = Owed(c, view[c.path])] /\ Owed(c, view[c.path]) \in Views
      BY <1>3, <1>4, <2>1, AfterIs
    <3> QED  BY <1>2, <1>3, <1>4, <3>1
  <2>2. CASE c.op = "unlink"
    <3>1. After(c) = [view EXCEPT ![c.path] = NoSuch] /\ NoSuch \in Views
      BY <1>3, <1>4, <2>2, AfterIs
    <3> QED  BY <1>2, <1>3, <1>4, <3>1
  <2>3. CASE c.op = "rename"
    <3>1. After(c) = [view EXCEPT ![c.to] = view[c.path], ![c.path] = NoSuch] /\ NoSuch \in Views
      BY <1>3, <1>4, <2>3, AfterIs
    <3> QED  BY <1>2, <1>3, <1>4, <2>3, <3>1
  <2> QED  BY <1>5, <2>1, <2>2, <2>3
<1>7. \A h \in H : Follow(h, c) \in H
  BY <1>3 DEF Follow
<1>8. c.op \in Opening => [id |-> c.id, at |-> c.path] \in H
  BY <1>2, <1>3, AnswerIds
<1>9. handles' \subseteq H
  BY <1>2, <1>4, <1>7, <1>8
<1>10. mark' \in [Paths -> {"clear", "cut", "healed", "raced"}]
  BY DEF Reply, TypeInv, StoreOK
<1> QED  BY <1>1, <1>2, <1>6, <1>9, <1>10, EndsTyped

LEMMA HandleTyped ==
  ASSUME TypeInv, NEW h \in handles, Write(h) \/ Release(h)
  PROVE  TypeInv'
<1> DEFINE H == [id : Ids, at : Paths \union {NoPath}]
<1>1. h \in H /\ handles \subseteq H /\ view \in [Paths -> Views] /\ content \in [Ids -> Bytes \union {Broken}] /\ writes \in 0..MaxWrites
  BY DEF TypeInv, StoreOK
<1>2. DurableInv'
  BY StepDurable DEF TypeInv, Next
<1>3. UNCHANGED <<sidecar, tmp, removed, index, pid, seq, worker, mark, starts, restarts>>
  BY DEF Write, Release, memVars, ghosts, diskVars
<1>4. /\ handles' \subseteq H /\ view' \in [Paths -> Views] /\ content' \in [Ids -> Bytes \union {Broken}]
      /\ writes' \in 0..MaxWrites
  <2>1. CASE Release(h)
    BY <1>1, <2>1 DEF Release, ghosts, diskVars
  <2>2. CASE Write(h)
    <3>1. writes + 1 \in Bytes /\ writes + 1 \in 0..MaxWrites
      BY <1>1, <2>2, OverlayBounds, ByteKinds DEF Write
    <3>2. \A u \in Views : [u EXCEPT !.val = writes + 1] \in Views
      BY <3>1 DEF Views
    <3>3. view' \in [Paths -> Views]
      <4>1. CASE h.at = NoPath
        BY <1>1, <2>2, <4>1 DEF Write
      <4>2. CASE h.at # NoPath
        <5>1. view' = [view EXCEPT ![h.at] = [view[h.at] EXCEPT !.val = writes + 1]] /\ h.at \in Paths
          BY <1>1, <2>2, <4>2 DEF Write
        <5>2. [view[h.at] EXCEPT !.val = writes + 1] \in Views
          BY <1>1, <3>2, <5>1
        <5> QED  BY <1>1, <5>1, <5>2
      <4> QED  BY <4>1, <4>2
    <3>4. content' \in [Ids -> Bytes \union {Broken}]
      BY <1>1, <2>2, <3>1 DEF Write
    <3>5. handles' \subseteq H
      BY <1>1, <2>2 DEF Write, memVars
    <3> QED  BY <2>2, <3>1, <3>3, <3>4, <3>5 DEF Write
  <2> QED  BY <2>1, <2>2
<1>5. StoreOK'
  BY <1>3, <1>4 DEF TypeInv, StoreOK
<1>6. \A w \in Workers : CallOK(worker[w])'
  BY <1>3 DEF TypeInv, CallOK
<1> QED  BY <1>2, <1>5, <1>6 DEF TypeInv

LEMMA RestartTyped ==
  ASSUME TypeInv, Restart
  PROVE  TypeInv'
<1>1. DurableInv'
  BY RestartDurable DEF TypeInv
<1>2. /\ sidecar \in [Paths -> Entries] /\ tmp \in [Paths -> Entries] /\ removed \in [Paths -> Entries]
      /\ content \in [Ids -> Bytes \union {Broken}] /\ mark \in [Paths -> {"clear", "cut", "healed", "raced"}]
  BY DEF TypeInv, StoreOK
<1>3. content' \in [Ids -> Bytes \union {Broken}]
  BY <1>2 DEF Restart
<1>4. sidecar' \in [Paths -> Entries] /\ tmp' \in [Paths -> Entries] /\ removed' \in [Paths -> Entries]
  BY <1>2, PlainEntries DEF Restart
<1>5. index' \in [Paths -> Entries]
  <2>1. PICK staged : index' = [p \in Paths |-> IF p \in staged THEN tmp[p] ELSE sidecar'[p]]
    BY DEF Restart, Replay
  <2> QED  BY <1>2, <1>4, <2>1
<1>6. mark' \in [Paths -> {"clear", "cut", "healed", "raced"}]
  BY <1>2 DEF Restart, Cut
<1>7. /\ pid' \in Pids /\ pid' <= restarts' + 1 /\ seq' \in 0..MaxSeq /\ handles' = {} /\ restarts' \in 0..MaxRestarts
      /\ UNCHANGED <<view, starts, writes>> /\ worker' = [w \in Workers |-> Idle]
  BY OverlayBounds, LossAssumption DEF Restart, TypeInv, StoreOK, Pids
<1>8. StoreOK'
  BY <1>3, <1>4, <1>5, <1>6, <1>7 DEF TypeInv, StoreOK
<1>9. \A w \in Workers : CallOK(worker'[w])
  BY <1>7, IdleTyped
<1>10. \A w \in Workers : CallOK(worker[w])'
  BY <1>9 DEF CallOK
<1> QED  BY <1>1, <1>8, <1>10 DEF TypeInv

LEMMA InitTyped == Init => TypeInv
<1> SUFFICES ASSUME Init PROVE TypeInv
  OBVIOUS
<1>1. StoreOK
  <2>1. \A p \in Paths : [val |-> IF p \in Baseline THEN p ELSE Gone, x |-> FALSE] \in Views
    BY ByteKinds DEF Views
  <2>2. view \in [Paths -> Views]
    BY <2>1 DEF Init
  <2> QED  BY <2>2, PlainEntries, OverlayBounds DEF Init, StoreOK, Pids
<1>2. \A w \in Workers : CallOK(worker[w])
  BY IdleTyped DEF Init
<1> QED  BY <1>1, <1>2, InitDurable DEF TypeInv

LEMMA StepTyped == TypeInv /\ [Next]_vars => TypeInv'
<1> SUFFICES ASSUME TypeInv, [Next]_vars PROVE TypeInv'
  OBVIOUS
<1>1. CASE Next
  BY <1>1, StartTyped, WorksTyped, LeftoverTyped, ReplyTyped, FailTyped, HandleTyped, RestartTyped DEF Next, Continue, Works
<1>2. CASE UNCHANGED vars
  <2>1. DurableInv'
    BY StepDurable DEF TypeInv
  <2>2. StoreOK' /\ \A w \in Workers : CallOK(worker[w])'
    BY <1>2 DEF vars, memVars, diskVars, TypeInv, StoreOK, CallOK
  <2> QED  BY <2>1, <2>2 DEF TypeInv
<1> QED  BY <1>1, <1>2

\* The store, the calls in flight and the handles keep their types: an id in any
\* entry, list or handle is one a process handed out.
THEOREM OverlayTypes == Spec => []TypeOK
<1>1. TypeInv => TypeOK
  <2> SUFFICES ASSUME TypeInv PROVE TypeOK
    OBVIOUS
  <2>1. ASSUME NEW w \in Workers
        PROVE  /\ worker[w].op \in Ops \union {"idle"} /\ Touch(worker[w]) \subseteq Paths
               /\ worker[w].id \in Ids \union {NoId}
               /\ \A k \in DOMAIN worker[w].todo : worker[w].todo[k].entry \in Entries
    <3>1. CallOK(worker[w]) /\ OnItsNames(worker[w])
      BY DEF TypeInv, DurableInv, AllOnNames
    <3>2. Touch(worker[w]) \subseteq Paths
      BY <3>1, PathAssumption DEF OnItsNames, Touch, Idle
    <3> QED  BY <3>1, <3>2 DEF CallOK, Items
  <2> QED  BY <2>1 DEF TypeInv, StoreOK, TypeOK
<1> QED  BY <1>1, InitTyped, StepTyped, PTL DEF Spec

-----------------------------------------------------------------------------
(* What a callback that met no other is doing to its bytes, its view and its   *)
(* handles.                                                                    *)

HandlesOn(p, e) == \A h \in handles : h.at = p => OfFile(e, h.id)
HandlesOff(p, e) == \A h \in handles : h.at = p => ~OfFile(e, h.id)
Faithful(p) == Seen(p) = view[p] /\ HandlesOn(p, index[p])
Away(p) == index[p] = Tomb \/ (index[p] = None /\ p \notin Baseline)

\* The bytes and handles a worker's call moves.
Data(w, c, a) ==
  /\ a.do \notin {"content", "drop", "openContent"} => content' = content
  /\ a.do = "content" => content' = [content EXCEPT ![a.entry.of] = a.val]
  /\ a.do = "drop" =>
       content' \in {content, IF index[a.path].kind = "file" THEN [content EXCEPT ![index[a.path].of] = Broken] ELSE content}
  /\ a.do = "openContent" =>
       /\ index[c.path].kind = "file" /\ worker'[w].id = index[c.path].of
       /\ content' = IF c.op \in Truncations THEN [content EXCEPT ![index[c.path].of] = Empty] ELSE content
  /\ a.do \notin {"openContent", "resolve"} => worker'[w].id = c.id
  /\ a.do = "resolve" =>
       /\ Clean(c.path) /\ seq < MaxSeq /\ seq' = seq + 1 /\ worker'[w].id = <<pid, seq>>
       /\ worker'[w].todo = CreateFile(c.path, <<pid, seq>>, IF c.op = "chmod" THEN c.x ELSE Seen(c.path).x,
                                       IF c.op \in Truncations THEN Empty ELSE Seen(c.path).val)
  /\ a.do = "look" =>
       worker'[w].todo = IF index[c.path].kind # "file" THEN <<Call("resolve", c.path, None)>>
                         ELSE IF c.op = "chmod" THEN Put(c.path, File(index[c.path].of, c.x))
                         ELSE <<Call("openContent", c.path, None)>>

LEMMA WorksData ==
  ASSUME Framed, NEW w \in Workers, Works(w)
  PROVE  /\ Data(w, worker[w], Head(worker[w].todo))
         /\ worker'[w].x = worker[w].x /\ UNCHANGED <<handles, view, pid, restarts, mark>>
<1> DEFINE c == worker[w]
           a == Head(c.todo)
<1>1. UNCHANGED <<handles, view, pid, restarts, mark>>
  BY DEF Works, Look, CopyUp, OpenContent, Content, Stage, Publish, Insert, IndexRekey, DropContent, Unpersist, ghosts
<1>2. DOMAIN worker = Workers /\ DOMAIN c = Fields
  BY DEF Framed
<1>3. CASE Look(w)
  <2> DEFINE t == IF index[c.path].kind # "file" THEN <<Call("resolve", c.path, None)>>
                  ELSE IF c.op = "chmod" THEN Put(c.path, File(index[c.path].of, c.x))
                  ELSE <<Call("openContent", c.path, None)>>
  <2>1. a.do = "look" /\ worker' = [worker EXCEPT ![w].todo = t] /\ content' = content
    BY <1>3 DEF Look, Does, Next1, ChmodCalls, diskVars
  <2> HIDE DEF t
  <2>2. worker'[w].todo = t /\ worker'[w].id = c.id /\ worker'[w].x = c.x
    BY <1>2, <2>1 DEF Fields
  <2> QED  BY <1>1, <2>1, <2>2 DEF Data, t
<1>4. CASE CopyUp(w)
  <2> DEFINE t == CreateFile(c.path, <<pid, seq>>, IF c.op = "chmod" THEN c.x ELSE Seen(c.path).x,
                             IF c.op \in Truncations THEN Empty ELSE Seen(c.path).val)
  <2>1. /\ a.do = "resolve" /\ worker' = [worker EXCEPT ![w].id = <<pid, seq>>, ![w].todo = t] /\ content' = content
        /\ Clean(c.path) /\ seq < MaxSeq /\ seq' = seq + 1
    BY <1>4 DEF CopyUp, Does, Next1, NewContentId, diskVars
  <2> HIDE DEF t
  <2>2. worker'[w].todo = t /\ worker'[w].id = <<pid, seq>> /\ worker'[w].x = c.x
    BY <1>2, <2>1 DEF Fields
  <2> QED  BY <1>1, <2>1, <2>2 DEF Data, t
<1>5. CASE OpenContent(w)
  <2> DEFINE e == index[c.path]
  <2>1. /\ a.do = "openContent" /\ worker' = [worker EXCEPT ![w].id = e.of, ![w].todo = <<>>] /\ e.kind = "file"
        /\ content' = IF c.op \in Truncations THEN [content EXCEPT ![e.of] = Empty] ELSE content
    BY <1>5 DEF OpenContent, Does, Next1
  <2>2. worker'[w].id = e.of /\ worker'[w].x = c.x
    BY <1>2, <2>1 DEF Fields
  <2> QED  BY <1>1, <2>1, <2>2 DEF Data
<1>6. CASE Advance(w)
  <2>1. worker'[w].id = c.id /\ worker'[w].x = c.x
    BY <1>2, <1>6 DEF Advance, Fields
  <2>2. CASE Content(w)
    BY <1>1, <2>1, <2>2 DEF Content, Data, Does, Next1
  <2>3. CASE DropContent(w)
    BY <1>1, <2>1, <2>3 DEF DropContent, Data, Does, Next1
  <2>4. CASE Stage(w) \/ Publish(w) \/ Insert(w) \/ IndexRekey(w) \/ Unpersist(w)
    <3>1. a.do \in {"stage", "publish", "insert", "rekey", "unpersist"} /\ content' = content
      BY <2>4 DEF Stage, Publish, Insert, IndexRekey, Unpersist, Does, Next1, diskVars
    <3> QED  BY <1>1, <2>1, <3>1 DEF Data
  <2>5. CASE Look(w) \/ CopyUp(w) \/ OpenContent(w)
    BY <1>3, <1>4, <1>5, <2>5
  <2> QED  BY <2>2, <2>3, <2>4, <2>5 DEF Works
<1>7. ~(Look(w) \/ CopyUp(w) \/ OpenContent(w)) => Advance(w)
  BY DEF Works, Content, Stage, Publish, Insert, IndexRekey, DropContent, Unpersist
<1> QED  BY <1>3, <1>4, <1>5, <1>6, <1>7

\* A call changes the bytes of ids its own names claim, and of no others.
LEMMA BytesClaimed ==
  ASSUME TypeInv, NEW w \in Workers, Works(w), NEW i \in Ids, content'[i] # content[i]
  PROVE  \E q \in Touch(worker[w]) : q \in Paths /\ Claims(q, i)
<1> DEFINE c == worker[w]
           a == Head(c.todo)
<1>1. Framed /\ content \in [Ids -> Bytes \union {Broken}]
  BY DEF TypeInv, DurableInv, StoreOK
<1>2. c.todo # <<>> /\ Data(w, c, a)
  BY <1>1, Works1, WorksData
<1>3. /\ a \in Items(c.todo) /\ a.path \in Touch(c) /\ a.path \in Paths /\ c.path \in Touch(c) /\ c.path \in Paths
      /\ a.do = "content" => a.entry.kind = "file"
  BY <1>2, AtFront
<1> HIDE DEF a
<1>4. CASE a.do = "content"
  <2>1. i = a.entry.of
    BY <1>1, <1>2, <1>4 DEF Data
  <2> QED  BY <1>3, <1>4, <2>1 DEF Claims, OfFile
<1>5. CASE a.do = "drop"
  <2>1. index[a.path].kind = "file" /\ i = index[a.path].of
    BY <1>1, <1>2, <1>5 DEF Data
  <2> QED  BY <1>3, <2>1 DEF Claims, OfFile
<1>6. CASE a.do = "openContent"
  <2>1. index[c.path].kind = "file" /\ i = index[c.path].of
    BY <1>1, <1>2, <1>6 DEF Data
  <2> QED  BY <1>3, <2>1 DEF Claims, OfFile
<1> QED  BY <1>2, <1>4, <1>5, <1>6 DEF Data

Yields(c, p, e) == HandlesOn(p, e) /\ (c.op \in Opening => OfFile(e, c.id))

\* Between the first sidecar call and the index: p is being given the entry e.
Readying(t, p, e) ==
  \/ AtRest(p) /\ t = PutThen(p, e, <<>>)
  \/ sidecar[p] = index[p] /\ tmp[p] = e /\ t = StagedPut(p, e, <<>>)
  \/ sidecar[p] = e /\ tmp[p] = None /\ t = Then(Call("insert", p, e), <<>>)

\* create, symlink, truncate, chmod and the opens: the old bytes show until the
\* insert, and then what is owed; handles of p are on the entry p ends up with.
Changing(c, p) ==
  \/ c.todo = <<>> /\ AtRest(p) /\ Seen(p) = Owed(c, view[p]) /\ Yields(c, p, index[p])
  \/ /\ c.op \in Modifications /\ AtRest(p) /\ Faithful(p)
     /\ \E do \in Finding : (do = "openContent" => c.op # "chmod") /\ c.todo = Then(Call(do, p, None), <<>>)
  \/ /\ AtRest(p) /\ Faithful(p) /\ index[p].kind # "file"
     /\ \E a : /\ a.do = "content" /\ c.todo = Then(a, PutThen(p, a.entry, <<>>))
               /\ [val |-> a.val, x |-> a.entry.x] = Owed(c, view[p]) /\ Yields(c, p, a.entry)
  \/ /\ Faithful(p)
     /\ \E e \in Entries : Readying(c.todo, p, e) /\ Shown(e, p, content) = Owed(c, view[p]) /\ Yields(c, p, e)

TombLists(p)  == {Entombed(p), PutThen(p, Tomb, <<>>), StagedPut(p, Tomb, <<>>), Then(Call("insert", p, Tomb), <<>>)}
ClearLists(p) == {Then(Call("drop", p, None), Clearing(p)), Clearing(p), Then(Call("insert", p, None), <<>>)}

Removing(t, p) ==
  \/ p \in Baseline /\ t \in TombLists(p)
  \/ p \notin Baseline /\ t \in ClearLists(p)
  \/ t = <<>> /\ Away(p)

\* What d shows is what s is owed; handles of s are on it, those of d are not.
Landed(s, d) == Seen(d) = view[s] /\ HandlesOn(s, index[d]) /\ HandlesOff(d, index[d])

RekeyLists(s, d, e) ==
  LET rest == IF s \in Baseline THEN Entombed(s) ELSE <<>>
  IN  {Moves(s, d, e, rest), Moved(s, d, e, rest), Rekeyed(s, e, rest), Then(Call("rekey", s, e), rest)}
ReferLists(s, d) ==
  LET e == BaseRef(s, FALSE)
  IN  {PutThen(d, e, Entombed(s)), StagedPut(d, e, Entombed(s)), Then(Call("insert", d, e), Entombed(s))}

Renaming(t, s, d) ==
  \/ /\ t \in RekeyLists(s, d, index[s]) /\ index[s].kind # "none" /\ Seen(s) = view[s]
     /\ HandlesOn(s, index[s]) /\ HandlesOff(d, index[s])
  \/ /\ t \in ReferLists(s, d) /\ s \in Baseline /\ index[s] = None /\ view[s] = [val |-> s, x |-> FALSE]
     /\ HandlesOn(s, None)
  \/ t \in TombLists(s) /\ index[s] = None /\ Landed(s, d)
  \/ t = <<>> /\ Away(s) /\ Landed(s, d)

Follows(c) ==
  /\ c.op = "rename" => Renaming(c.todo, c.path, c.to)
  /\ c.op = "unlink" => Removing(c.todo, c.path)
  /\ c.op \in OneNameOps => Changing(c, c.path)

Pure(c) == c.op # "idle" /\ \A p \in Touch(c) : mark[p] = "clear"
AllFollow == \A w \in Workers : Pure(worker[w]) => Follows(worker[w])
SettledFaithful == \A p \in Paths : Settled(p) => Faithful(p)

\* A step that leaves the name q alone.
KeptAt(q) ==
  /\ sidecar'[q] = sidecar[q] /\ tmp'[q] = tmp[q] /\ index'[q] = index[q] /\ view'[q] = view[q]
  /\ \A h \in handles' : h.at = q => h \in handles
  /\ \A i \in Ids : Claims(q, i) => content'[i] = content[i]

LEMMA ShownSame ==
  ASSUME NEW e \in Entries, NEW p, NEW b, NEW g, e.kind = "file" => b[e.of] = g[e.of]
  PROVE  Shown(e, p, b) = Shown(e, p, g)
<1>1. CASE e.kind = "file"
  BY <1>1 DEF Shown
<1>2. CASE e.kind = "baseref"
  BY <1>2 DEF Shown
<1>3. CASE e.kind = "symlink"
  BY <1>3 DEF Shown
<1>4. CASE e.kind = "tombstone"
  BY <1>4 DEF Shown
<1>5. CASE e.kind = "none"
  BY <1>5 DEF Shown
<1> QED  BY <1>1, <1>2, <1>3, <1>4, <1>5, EntryKinds

LEMMA NameKept ==
  ASSUME TypeInv, NEW q \in Paths, KeptAt(q)
  PROVE  /\ Seen(q)' = Seen(q) /\ (AtRest(q) => AtRest(q)') /\ (Faithful(q) => Faithful(q)')
         /\ \A e : (HandlesOn(q, e) => HandlesOn(q, e)') /\ (HandlesOff(q, e) => HandlesOff(q, e)')
         /\ \A e \in Entries : \A p : (\A i : OfFile(e, i) => Claims(q, i)) => Shown(e, p, content') = Shown(e, p, content)
<1>1. index[q] \in Entries
  BY DEF TypeInv, StoreOK
<1>2. \A e \in Entries : e.kind = "file" => e.of \in Ids
  BY EntryKinds
<1>3. ASSUME NEW e \in Entries, NEW p, \A i : OfFile(e, i) => Claims(q, i)
      PROVE  Shown(e, p, content') = Shown(e, p, content)
  <2>1. e.kind = "file" => content'[e.of] = content[e.of]
    BY <1>2, <1>3 DEF KeptAt, OfFile
  <2> QED  BY <2>1, ShownSame
<1>4. Seen(q)' = Seen(q)
  <2>1. Shown(index[q], q, content') = Shown(index[q], q, content)
    BY <1>1, <1>3 DEF Claims
  <2> QED  BY <2>1 DEF Seen, KeptAt
<1>5. \A e : (HandlesOn(q, e) => HandlesOn(q, e)') /\ (HandlesOff(q, e) => HandlesOff(q, e)')
  BY DEF HandlesOn, HandlesOff, KeptAt
<1>6. AtRest(q) => AtRest(q)'
  BY DEF AtRest, KeptAt
<1>7. Faithful(q) => Faithful(q)'
  BY <1>4, <1>5 DEF Faithful, KeptAt
<1> QED  BY <1>3, <1>4, <1>5, <1>6, <1>7

LEMMA Carries ==
  ASSUME NEW p, NEW e
  PROVE  \E a \in Items(PutThen(p, e, <<>>)) : a.entry = e
<1>1. IsList(StagedPut(p, e, <<>>))
  BY AllLists, EmptyList
<1>2. Call("stage", p, e) \in Items(PutThen(p, e, <<>>))
  BY <1>1, ThenParts DEF PutThen
<1> QED  BY <1>2, CallFields

LEMMA ChangingKept ==
  ASSUME TypeInv, NEW v \in Workers, worker'[v] = worker[v], NEW p \in Paths, p \in Touch(worker[v]), KeptAt(p),
         Changing(worker[v], p)
  PROVE  Changing(worker[v], p)'
<1> DEFINE c == worker[v]
<1>1. /\ Seen(p)' = Seen(p) /\ (AtRest(p) => AtRest(p)') /\ (Faithful(p) => Faithful(p)')
      /\ \A e : (HandlesOn(p, e) => HandlesOn(p, e)')
      /\ \A e \in Entries : (\A i : OfFile(e, i) => Claims(p, i)) => Shown(e, p, content') = Shown(e, p, content)
  BY NameKept
<1>2. index'[p] = index[p] /\ sidecar'[p] = sidecar[p] /\ tmp'[p] = tmp[p] /\ view'[p] = view[p]
  BY DEF KeptAt
<1>3. \A e : Yields(c, p, e) => Yields(worker[v], p, e)'
  BY <1>1 DEF Yields
<1>4. CASE c.todo = <<>> /\ AtRest(p) /\ Seen(p) = Owed(c, view[p]) /\ Yields(c, p, index[p])
  BY <1>1, <1>2, <1>3, <1>4 DEF Changing
<1>5. CASE /\ c.op \in Modifications /\ AtRest(p) /\ Faithful(p)
           /\ \E do \in Finding : (do = "openContent" => c.op # "chmod") /\ c.todo = Then(Call(do, p, None), <<>>)
  BY <1>1, <1>5 DEF Changing
<1>6. CASE /\ AtRest(p) /\ Faithful(p) /\ index[p].kind # "file"
           /\ \E a : /\ a.do = "content" /\ c.todo = Then(a, PutThen(p, a.entry, <<>>))
                     /\ [val |-> a.val, x |-> a.entry.x] = Owed(c, view[p]) /\ Yields(c, p, a.entry)
  BY <1>1, <1>2, <1>3, <1>6 DEF Changing
<1>7. ASSUME Faithful(p), NEW e \in Entries, Readying(c.todo, p, e), Shown(e, p, content) = Owed(c, view[p]), Yields(c, p, e)
      PROVE  Changing(worker[v], p)'
  <2>1. \A i : OfFile(e, i) => Claims(p, i)
    <3>1. CASE AtRest(p) /\ c.todo = PutThen(p, e, <<>>)
      <4>1. \E a \in Items(c.todo) : a.entry = e
        BY <3>1, Carries
      <4> QED  BY <4>1 DEF Claims
    <3>2. CASE tmp[p] = e \/ sidecar[p] = e
      BY <3>2 DEF Claims
    <3> QED  BY <1>7, <3>1, <3>2 DEF Readying
  <2>2. Shown(e, p, content') = Owed(c, view'[p])
    BY <1>1, <1>2, <1>7, <2>1
  <2>3. Readying(worker[v].todo, p, e)'
    BY <1>1, <1>2, <1>7 DEF Readying
  <2> QED  BY <1>1, <1>3, <1>7, <2>2, <2>3 DEF Changing
<1> QED  BY <1>4, <1>5, <1>6, <1>7 DEF Changing

LEMMA RenamingKept ==
  ASSUME TypeInv, NEW t, NEW s \in Paths, NEW d \in Paths, KeptAt(s), KeptAt(d), Renaming(t, s, d)
  PROVE  Renaming(t, s, d)'
<1>1. /\ Seen(s)' = Seen(s) /\ Seen(d)' = Seen(d)
      /\ \A e : (HandlesOn(s, e) => HandlesOn(s, e)') /\ (HandlesOff(d, e) => HandlesOff(d, e)')
  BY NameKept
<1>2. index'[s] = index[s] /\ index'[d] = index[d] /\ view'[s] = view[s]
  BY DEF KeptAt
<1> QED  BY <1>1, <1>2 DEF Renaming, Landed, Away

\* A callback whose names are left alone goes on as before.
LEMMA FollowsKept ==
  ASSUME TypeInv, NEW v \in Workers, worker'[v] = worker[v], \A q \in Touch(worker[v]) : KeptAt(q), Follows(worker[v])
  PROVE  Follows(worker[v])'
<1>1. PICK s, d : s = worker[v].path /\ d = worker[v].to
  OBVIOUS
<1>2. OnItsNames(worker[v])
  BY DEF TypeInv, DurableInv, AllOnNames
<1>3. worker[v].op = "idle" \/ (s \in Paths /\ s \in Touch(worker[v]))
  BY <1>1, <1>2, PathAssumption DEF OnItsNames, Touch
<1>4. worker[v].op = "rename" => d \in Paths /\ d \in Touch(worker[v])
  BY <1>1, <1>2, PathAssumption DEF OnItsNames, Touch
<1>5. CASE worker[v].op = "rename"
  <2>1. Renaming(worker[v].todo, s, d)'
    <3>1. PICK t : t = worker[v].todo
      OBVIOUS
    <3>2. Renaming(t, s, d)'
      BY <1>1, <1>3, <1>4, <1>5, <3>1, RenamingKept DEF Follows
    <3> QED  BY <3>1, <3>2
  <2> QED  BY <1>1, <1>5, <2>1 DEF Follows, OneNameOps, Modifications, Truncations
<1>6. CASE worker[v].op = "unlink"
  <2>1. Removing(worker[v].todo, s) /\ index'[s] = index[s]
    BY <1>1, <1>3, <1>6 DEF Follows, KeptAt
  <2>2. Removing(worker[v].todo, s)'
    BY <2>1 DEF Removing, Away
  <2> QED  BY <1>1, <1>6, <2>2 DEF Follows, OneNameOps, Modifications, Truncations
<1>7. CASE worker[v].op \in OneNameOps
  <2>1. Changing(worker[v], s)'
    BY <1>1, <1>3, <1>7, ChangingKept DEF Follows, OneNameOps, Modifications, Truncations
  <2> QED  BY <1>1, <1>7, <2>1 DEF Follows, OneNameOps, Modifications, Truncations
<1> QED  BY <1>5, <1>6, <1>7 DEF Follows

-----------------------------------------------------------------------------
(* Who may write which content: a handle, or a callback about to return one.   *)

Holds(i, at) ==
  \/ \E h \in handles : h.id = i /\ h.at = at
  \/ \E w \in Workers : worker[w].op \in Opening /\ worker[w].id = i /\ worker[w].path = at

\* Content that is held is claimed by the name its handle is of, and otherwise
\* only by names of callbacks that met another or were interrupted.
HeldApart ==
  \A i \in Ids : \A at : Holds(i, at) =>
    /\ Old(i)
    /\ \A q \in Paths : q # at /\ Claims(q, i) => Dirty(q) \/ Together(q, at)

LEMMA HeldStep ==
  ASSUME HeldApart, Numbered, Owned, NEW p0, \A i : Old(i) => Old(i)',
         \A i : \A p \in Paths : Claims(p, i)' =>
           Claims(p, i) \/ (p = p0 /\ i = <<pid, seq>> /\ pid' = pid /\ seq' = seq + 1),
         \A p \in Paths : Dirty(p) => Dirty(p)',
         \A p, q : Together(p, q) => Together(p, q)',
         \A i \in Ids : \A at : Holds(i, at)' =>
           \/ Holds(i, at) \/ (at \in Paths /\ OfFile(index[at], i))
           \/ (at = p0 /\ i = <<pid, seq>> /\ pid' = pid /\ seq' = seq + 1)
  PROVE  HeldApart'
<1>1. ~Old(<<pid, seq>>)
  BY DEF Old, Numbered
<1>2. ASSUME NEW i, i = <<pid, seq>>, pid' = pid, seq' = seq + 1
      PROVE  Old(i)'
  BY <1>2 DEF Old, Numbered
<1>3. ASSUME NEW i \in Ids, NEW at, Holds(i, at)'
      PROVE  Old(i)' /\ \A q \in Paths : q # at /\ Claims(q, i)' => Dirty(q)' \/ Together(q, at)'
  <2>1. CASE Holds(i, at)
    <3>1. Old(i) /\ \A q \in Paths : q # at /\ Claims(q, i) => Dirty(q) \/ Together(q, at)
      BY <2>1 DEF HeldApart
    <3>2. \A q \in Paths : Claims(q, i)' => Claims(q, i)
      BY <1>1, <3>1
    <3> QED  BY <3>1, <3>2
  <2>2. CASE at \in Paths /\ OfFile(index[at], i)
    <3>1. Claims(at, i)
      BY <2>2 DEF Claims
    <3>2. Old(i)
      BY <2>2, <3>1 DEF Numbered
    <3>3. \A q \in Paths : Claims(q, i)' => Claims(q, i)
      BY <1>1, <3>2
    <3>4. \A q \in Paths : q # at /\ Claims(q, i) => Dirty(q) \/ Together(q, at)
      BY <2>2, <3>1 DEF Owned
    <3> QED  BY <3>2, <3>3, <3>4
  <2>3. CASE at = p0 /\ i = <<pid, seq>> /\ pid' = pid /\ seq' = seq + 1
    <3>1. \A q \in Paths : ~Claims(q, i)
      BY <1>1, <2>3 DEF Numbered
    <3>2. \A q \in Paths : Claims(q, i)' => q = at
      BY <2>3, <3>1
    <3> QED  BY <1>2, <2>3, <3>2
  <2> QED  BY <1>3, <2>1, <2>2, <2>3
<1> QED  BY <1>3 DEF HeldApart

LEMMA WorksHeld ==
  ASSUME TypeInv, Numbered, Owned, HeldApart, NEW w \in Workers, Works(w)
  PROVE  HeldApart'
<1> DEFINE c == worker[w]
           a == Head(c.todo)
<1>1. Framed /\ AllOnNames
  BY DEF TypeInv, DurableInv
<1>2. /\ pid' = pid /\ (seq' = seq \/ seq' = seq + 1) /\ mark' = mark /\ handles' = handles
      /\ \A v \in Workers : Touch(worker[v])' = Touch(worker[v])
      /\ \A v \in Workers \ {w} : worker'[v] = worker[v]
      /\ worker'[w].op = c.op /\ worker'[w].path = c.path
  BY <1>1, Works1, WorksOnNames, WorksData
<1>3. PICK p0 : p0 = c.path
  OBVIOUS
<1>4. \A i : \A p \in Paths : Claims(p, i)' =>
        Claims(p, i) \/ (p = p0 /\ i = <<pid, seq>> /\ pid' = pid /\ seq' = seq + 1)
  BY <1>1, <1>3, WorksClaims
<1>5. \A i : Old(i) => Old(i)'
  BY <1>2 DEF Old, Numbered
<1>6. /\ \A p \in Paths : Dirty(p) => Dirty(p)'
      /\ \A p, q : Together(p, q) => Together(p, q)'
  BY <1>2 DEF Dirty, Together
<1>7. c.todo # <<>> /\ Data(w, c, a)
  BY <1>1, Works1, WorksData
<1>8. c.path \in Paths
  BY <1>7, AtFront
<1> HIDE DEF a
<1>9. ASSUME NEW i \in Ids, NEW at, Holds(i, at)'
      PROVE  \/ Holds(i, at) \/ (at \in Paths /\ OfFile(index[at], i))
             \/ (at = p0 /\ i = <<pid, seq>> /\ pid' = pid /\ seq' = seq + 1)
  <2>1. CASE \E h \in handles' : h.id = i /\ h.at = at
    BY <1>2, <2>1 DEF Holds
  <2>2. ASSUME NEW v \in Workers, worker'[v].op \in Opening, worker'[v].id = i, worker'[v].path = at
        PROVE  \/ Holds(i, at) \/ (at \in Paths /\ OfFile(index[at], i))
               \/ (at = p0 /\ i = <<pid, seq>> /\ pid' = pid /\ seq' = seq + 1)
    <3>1. CASE v # w
      BY <1>2, <2>2, <3>1 DEF Holds
    <3>2. CASE v = w /\ a.do = "openContent"
      BY <1>2, <1>7, <1>8, <2>2, <3>2 DEF Data, OfFile
    <3>3. CASE v = w /\ a.do = "resolve"
      BY <1>2, <1>3, <1>7, <2>2, <3>3 DEF Data
    <3>4. CASE v = w /\ a.do \notin {"openContent", "resolve"}
      BY <1>2, <1>7, <2>2, <3>4 DEF Data, Holds
    <3> QED  BY <3>1, <3>2, <3>3, <3>4
  <2> QED  BY <1>9, <2>1, <2>2 DEF Holds
<1>10. \A i \in Ids : \A at : Holds(i, at)' =>
         \/ Holds(i, at) \/ (at \in Paths /\ OfFile(index[at], i))
         \/ (at = p0 /\ i = <<pid, seq>> /\ pid' = pid /\ seq' = seq + 1)
  BY <1>9
<1>11. /\ \A p \in Paths : Dirty(p) => Dirty(p)'
       /\ \A p, q : Together(p, q) => Together(p, q)'
  BY <1>6
<1>12. Numbered /\ Owned /\ HeldApart
  OBVIOUS
<1> HIDE DEF c
<1> QED  BY ONLY <1>4, <1>5, <1>10, <1>11, <1>12, HeldStep

\* A callback that ends takes its claims along.
LEMMA DirtyStays ==
  ASSUME DurableInv, NEW w \in Workers, worker' = [worker EXCEPT ![w] = Idle],
         \A p \in Paths : mark[p] = "clear" \/ mark'[p] # "clear",
         (\E q \in Touch(worker[w]) : mark[q] # "clear") => \A p \in Touch(worker[w]) : mark'[p] # "clear"
  PROVE  /\ \A p \in Paths : Dirty(p) => Dirty(p)'
         /\ \A v \in Workers \ {w} : worker'[v] = worker[v] /\ Touch(worker[v])' = Touch(worker[v])
         /\ worker'[w] = Idle /\ Touch(worker[w])' = {}
         /\ \A v \in Workers : Touch(worker[v]) \subseteq Paths
         /\ \A p, q : Together(p, q) => Together(p, q)' \/ {p, q} \subseteq Touch(worker[w])
<1>1. /\ worker'[w] = Idle /\ \A v \in Workers \ {w} : worker'[v] = worker[v]
  BY DEF DurableInv, Framed
<1>2. Touch(worker[w])' = {} /\ \A v \in Workers \ {w} : Touch(worker[v])' = Touch(worker[v])
  BY <1>1 DEF Touch, Idle
<1>3. \A v \in Workers : Touch(worker[v]) \subseteq Paths
  BY PathAssumption DEF DurableInv, AllOnNames, OnItsNames, Touch, Idle
<1>4. ASSUME NEW p \in Paths, Dirty(p)
      PROVE  Dirty(p)'
  <2>1. CASE mark[p] # "clear"
    BY <2>1 DEF Dirty
  <2>2. ASSUME NEW v \in Workers, p \in Touch(worker[v]), NEW q \in Touch(worker[v]), mark[q] # "clear"
        PROVE  Dirty(p)'
    <3>1. CASE v = w
      BY <2>2, <3>1 DEF Dirty
    <3>2. CASE v # w
      BY <1>2, <1>3, <2>2, <3>2 DEF Dirty
    <3> QED  BY <3>1, <3>2
  <2> QED  BY <1>4, <2>1, <2>2 DEF Dirty
<1>5. ASSUME NEW p, NEW q, Together(p, q), ~({p, q} \subseteq Touch(worker[w]))
      PROVE  Together(p, q)'
  BY <1>2, <1>5 DEF Together
<1> QED  BY <1>1, <1>2, <1>3, <1>4, <1>5

LEMMA FailHeld ==
  ASSUME TypeInv, Numbered, Owned, HeldApart, NEW w \in Workers, Fail(w) \/ ModifyFails(w)
  PROVE  HeldApart'
<1> DEFINE c == worker[w]
<1>1. /\ worker' = [worker EXCEPT ![w] = Idle] /\ handles' = handles
      /\ sidecar' = sidecar /\ tmp' = tmp /\ index' = index /\ pid' = pid /\ seq' = seq
  BY DEF Fail, ModifyFails, diskVars
<1>2. DurableInv /\ OnItsNames(c) /\ Touch(c) \subseteq Paths
  <2>1. DurableInv /\ OnItsNames(c)
    BY DEF TypeInv, DurableInv, AllOnNames
  <2> QED  BY <2>1, PathAssumption DEF OnItsNames, Touch, Idle
<1>3. /\ \A p \in Paths : mark[p] = "clear" \/ mark'[p] # "clear"
      /\ (\A p \in Touch(c) : mark'[p] # "clear") \/ (mark' = mark /\ \A p, q \in Touch(c) : p = q)
  <2>1. CASE Fail(w)
    BY <1>2, <2>1 DEF Fail, Cut
  <2>2. CASE ModifyFails(w)
    <3>1. mark' = mark /\ c.todo # <<>> /\ Head(c.todo).do \in Finding
      BY <2>2 DEF ModifyFails, Does, Next1, diskVars, ghosts, Finding
    <3>2. Touch(c) = {c.path}
      BY <3>1, AtFront
    <3> QED  BY <3>1, <3>2
  <2> QED  BY <2>1, <2>2
<1>4. (\E q \in Touch(c) : mark[q] # "clear") => \A p \in Touch(c) : mark'[p] # "clear"
  BY <1>3
<1>5. /\ \A p \in Paths : Dirty(p) => Dirty(p)'
      /\ \A v \in Workers \ {w} : worker'[v] = worker[v] /\ Touch(worker[v])' = Touch(worker[v])
      /\ worker'[w] = Idle /\ Touch(worker[w])' = {}
      /\ \A p, q : Together(p, q) => Together(p, q)' \/ {p, q} \subseteq Touch(c)
  BY <1>1, <1>2, <1>3, <1>4, DirtyStays
<1>6. \A i : \A p \in Paths : Claims(p, i)' => Claims(p, i)
  BY <1>1, <1>5 DEF Claims
<1>7. \A i \in Ids : \A at : Holds(i, at)' => Holds(i, at)
  BY <1>1, <1>5 DEF Holds, Idle, Opening
<1>8. \A i : Old(i) => Old(i)'
  BY <1>1 DEF Old
<1>9. ASSUME NEW i \in Ids, NEW at, Holds(i, at)', NEW q \in Paths, q # at, Claims(q, i)'
      PROVE  Dirty(q)' \/ Together(q, at)'
  <2>1. Dirty(q) \/ Together(q, at)
    BY <1>6, <1>7, <1>9 DEF HeldApart
  <2>2. CASE {q, at} \subseteq Touch(c)
    BY <1>3, <1>9, <2>2 DEF Dirty
  <2> QED  BY <1>5, <2>1, <2>2
<1> QED  BY <1>7, <1>8, <1>9 DEF HeldApart

LEMMA LeftoverHeld ==
  ASSUME TypeInv, Numbered, Owned, HeldApart, NEW w \in Workers, UnpersistFails(w)
  PROVE  HeldApart'
<1>1. Framed /\ AllOnNames
  BY DEF TypeInv, DurableInv
<1>2. /\ \A v \in Workers \ {w} : worker'[v] = worker[v]
      /\ worker'[w].op = worker[w].op /\ worker'[w].path = worker[w].path /\ worker'[w].id = worker[w].id
      /\ \A v \in Workers : Touch(worker[v])' = Touch(worker[v])
      /\ sidecar' = sidecar /\ tmp' = tmp /\ index' = index /\ pid' = pid /\ seq' = seq /\ handles' = handles
      /\ \A q \in Paths : mark[q] = "clear" \/ mark'[q] # "clear"
      /\ Items(worker'[w].todo) \subseteq Items(worker[w].todo)
  BY <1>1, Leftover
<1>3. \A i : \A p \in Paths : Claims(p, i)' => Claims(p, i)
  BY <1>2 DEF Claims
<1>4. \A v \in Workers : Touch(worker[v]) \subseteq Paths
  BY PathAssumption, <1>1 DEF AllOnNames, OnItsNames, Touch, Idle
<1>5. /\ \A p \in Paths : Dirty(p) => Dirty(p)'
      /\ \A p, q : Together(p, q) => Together(p, q)'
  BY <1>2, <1>4 DEF Dirty, Together
<1>6. \A i : Old(i) => Old(i)'
  BY <1>2 DEF Old
<1>7. \A i \in Ids : \A at : Holds(i, at)' => Holds(i, at)
  BY <1>2 DEF Holds
<1> QED  BY <1>3, <1>5, <1>6, <1>7 DEF HeldApart

LEMMA HandleFields ==
  ASSUME TypeInv, NEW h \in handles, NEW c
  PROVE  /\ h.id \in Ids /\ Follow(h, c).id = h.id
         /\ Follow(h, c).at =
              IF c.op \in {"unlink", "rename"} /\ h.at = c.path THEN c.to
              ELSE IF c.op = "rename" /\ h.at = c.to THEN NoPath ELSE h.at
<1>1. h \in [id : Ids, at : Paths \union {NoPath}]
  BY DEF TypeInv, StoreOK
<1> QED  BY <1>1 DEF Follow

LEMMA Unfinished ==
  ASSUME NEW s, NEW d, NEW e
  PROVE  <<>> \notin TombLists(s) \union ClearLists(s) \union RekeyLists(s, d, e) \union ReferLists(s, d)
<1>1. PICK rest : rest = IF s \in Baseline THEN Entombed(s) ELSE <<>>
  OBVIOUS
<1>2. IsList(rest) /\ IsList(<<>>) /\ IsList(Entombed(s))
  BY <1>1, AllLists, EmptyList
<1>3. \A r : IsList(r) => \A a : Then(a, r) # <<>>
  BY ThenParts
<1>4. <<>> \notin TombLists(s)
  <2>1. IsList(PutThen(s, Tomb, <<>>)) /\ IsList(StagedPut(s, Tomb, <<>>)) /\ IsList(Then(Call("insert", s, Tomb), <<>>))
    BY <1>2, AllLists
  <2>2. Entombed(s) # <<>> /\ PutThen(s, Tomb, <<>>) # <<>> /\ StagedPut(s, Tomb, <<>>) # <<>>
        /\ Then(Call("insert", s, Tomb), <<>>) # <<>>
    BY <1>2, <1>3, <2>1 DEF Entombed, PutThen, StagedPut
  <2> QED  BY <2>2 DEF TombLists
<1>5. <<>> \notin ClearLists(s)
  <2>1. IsList(Then(Call("insert", s, None), <<>>)) /\ IsList(Clearing(s))
    BY <1>2, ThenParts DEF Clearing
  <2> QED  BY <1>2, <1>3, <2>1 DEF ClearLists, Clearing
<1>6. <<>> \notin RekeyLists(s, d, e)
  <2>1. /\ IsList(Moved(s, d, e, rest)) /\ IsList(Rekeyed(s, e, rest)) /\ IsList(Then(Call("rekey", s, e), rest))
    BY <1>2, AllLists
  <2>2. /\ Moves(s, d, e, rest) # <<>> /\ Moved(s, d, e, rest) # <<>> /\ Rekeyed(s, e, rest) # <<>>
        /\ Then(Call("rekey", s, e), rest) # <<>>
    BY <1>2, <1>3, <2>1 DEF Moves, Moved, Rekeyed
  <2> QED  BY <1>1, <2>2 DEF RekeyLists
<1>7. <<>> \notin ReferLists(s, d)
  <2>1. PICK b : b = BaseRef(s, FALSE)
    OBVIOUS
  <2>2. PutThen(d, b, Entombed(s)) # <<>> /\ StagedPut(d, b, Entombed(s)) # <<>> /\ Then(Call("insert", d, b), Entombed(s)) # <<>>
    BY <1>2, <1>3, AllLists DEF PutThen, StagedPut
  <2> QED  BY <2>1, <2>2 DEF ReferLists
<1> QED  BY <1>4, <1>5, <1>6, <1>7

\* The answer moves handles along with the names, and hands out at most one.
LEMMA ReplyHeld ==
  ASSUME TypeInv, Numbered, Owned, HeldApart, NEW w \in Workers, Reply(w),
         (\A p \in Touch(worker[w]) : mark[p] = "clear") => Follows(worker[w])
  PROVE  HeldApart'
<1> DEFINE c == worker[w]
<1>1. /\ worker' = [worker EXCEPT ![w] = Idle] /\ c.op # "idle" /\ c.todo = <<>>
      /\ handles' = {Follow(h, c) : h \in handles} \union (IF c.op \in Opening THEN {[id |-> c.id, at |-> c.path]} ELSE {})
      /\ sidecar' = sidecar /\ tmp' = tmp /\ index' = index /\ pid' = pid /\ seq' = seq
      /\ mark' = [p \in Paths |->
           IF p \notin Touch(c) THEN mark[p]
           ELSE IF \E q \in Touch(c) : mark[q] = "raced" THEN "raced"
           ELSE IF \E q \in Touch(c) : mark[q] # "clear" THEN "healed"
           ELSE mark[p]]
  BY DEF Reply, diskVars
<1>2. DurableInv /\ OnItsNames(c) /\ Touch(c) \subseteq Paths /\ InStep(c) /\ c.path \in Touch(c)
  <2>1. DurableInv /\ OnItsNames(c) /\ InStep(c)
    BY DEF TypeInv, DurableInv, AllOnNames
  <2> QED  BY <1>1, <2>1, PathAssumption DEF OnItsNames, Touch
<1>3. /\ \A p \in Paths : mark[p] = "clear" \/ mark'[p] # "clear"
      /\ (\E q \in Touch(c) : mark[q] # "clear") => \A p \in Touch(c) : mark'[p] # "clear"
  BY <1>1, <1>2
<1>4. /\ \A p \in Paths : Dirty(p) => Dirty(p)'
      /\ \A v \in Workers \ {w} : worker'[v] = worker[v] /\ Touch(worker[v])' = Touch(worker[v])
      /\ worker'[w] = Idle /\ Touch(worker[w])' = {}
      /\ \A p, q : Together(p, q) => Together(p, q)' \/ {p, q} \subseteq Touch(c)
  BY <1>1, <1>2, <1>3, DirtyStays
<1>5. \A i : \A p \in Paths : Claims(p, i)' => Claims(p, i)
  BY <1>1, <1>4 DEF Claims
<1>6. \A i : Old(i) => Old(i)'
  BY <1>1 DEF Old
\* Who else is on one of its names has raced with it.
<1>7. ASSUME NEW q \in Paths, NEW p \in Touch(c), Together(q, p)
      PROVE  Dirty(q)' \/ q \in Touch(c)
  <2>1. PICK v \in Workers : {q, p} \subseteq Touch(worker[v])
    BY <1>7 DEF Together
  <2>2. CASE v # w
    <3>1. mark[q] = "raced"
      BY <1>7, <2>1, <2>2 DEF DurableInv, Apart, TypeInv
    <3> QED  BY <1>3, <1>7, <3>1 DEF Dirty
  <2> QED  BY <2>1, <2>2
\* An old name is left without a file, a new one without what it had.
<1>8. ASSUME NEW q \in Touch(c), NEW i, Claims(q, i)', mark'[q] = "clear"
      PROVE  /\ c.op \in {"unlink", "rename"} => q # c.path
             /\ \A h \in handles : c.op = "rename" /\ q = c.to /\ h.at = c.to => h.id # i
  <2>1. \A p \in Touch(c) : mark[p] = "clear"
    BY <1>3, <1>8
  <2>2. Follows(c) /\ AtRest(q)
    BY <1>1, <1>2, <1>8, <2>1, AtEnd
  <2>3. \A v \in Workers \ {w} : q \notin Touch(worker[v])
    BY <1>8, <2>1 DEF DurableInv, Apart, TypeInv
  <2>4. OfFile(index[q], i)
    <3>1. \A v \in Workers : q \notin Touch(worker[v])'
      BY <1>4, <2>3
    <3> QED  BY <1>1, <1>8, <2>2, <3>1 DEF Claims, AtRest, OfFile, None
  <2>5. ~Away(q)
    BY <2>4 DEF Away, OfFile, None, Tomb
  <2>6. CASE c.op = "unlink"
    <3>1. Away(c.path)
      <4>1. Removing(c.todo, c.path)
        BY <2>2, <2>6 DEF Follows
      <4> QED  BY <1>1, <4>1, Unfinished DEF Removing
    <3> QED  BY <2>5, <2>6, <3>1
  <2>7. CASE c.op = "rename"
    <3>1. Away(c.path) /\ Landed(c.path, c.to)
      <4>1. Renaming(c.todo, c.path, c.to)
        BY <2>2, <2>7 DEF Follows
      <4> QED  BY <1>1, <4>1, Unfinished DEF Renaming
    <3> QED  BY <2>4, <2>5, <2>7, <3>1 DEF Landed, HandlesOff, OfFile
  <2> QED  BY <2>6, <2>7
<1>9. ASSUME NEW i \in Ids, NEW at, Holds(i, at)'
      PROVE  Old(i)' /\ \A q \in Paths : q # at /\ Claims(q, i)' => Dirty(q)' \/ Together(q, at)'
  <2>1. ASSUME NEW v \in Workers, worker'[v].op \in Opening, worker'[v].id = i, worker'[v].path = at
        PROVE  Old(i)' /\ \A q \in Paths : q # at /\ Claims(q, i)' => Dirty(q)' \/ Together(q, at)'
    <3>1. v # w /\ Holds(i, at)
      BY <1>4, <2>1 DEF Holds, Opening, Idle
    <3>2. ASSUME NEW q \in Paths, q # at, Claims(q, i), at \in Touch(c), q \in Touch(c)
          PROVE  Dirty(q)'
      <4>1. at \in Touch(worker[v])
        BY <1>4, <2>1, <3>1, <3>2, <1>2, PathAssumption DEF Touch
      <4>2. mark[q] = "raced"
        BY <3>1, <3>2, <4>1 DEF DurableInv, Apart, TypeInv
      <4> QED  BY <1>3, <3>2, <4>2 DEF Dirty
    <3> QED  BY <1>4, <1>5, <1>6, <3>1, <3>2 DEF HeldApart
  <2>2. CASE c.op \in Opening /\ i = c.id /\ at = c.path
    <3>1. Holds(i, at)
      BY <2>2 DEF Holds
    <3>2. Touch(c) = {at}
      BY <1>2, <2>2, PathAssumption DEF OnItsNames, Touch, Opening
    <3> QED  BY <1>2, <1>4, <1>5, <1>6, <1>7, <3>1, <3>2 DEF HeldApart
  <2>3. ASSUME NEW h \in handles, h.id = i, Follow(h, c).at = at
        PROVE  Old(i)' /\ \A q \in Paths : q # at /\ Claims(q, i)' => Dirty(q)' \/ Together(q, at)'
    <3>1. Old(i)' /\ \A q \in Paths : q # h.at /\ Claims(q, i) => Dirty(q) \/ Together(q, h.at)
      BY <1>6, <2>3 DEF HeldApart, Holds
    <3>2. CASE at = h.at /\ h.at \notin Touch(c)
      BY <1>4, <1>5, <3>1, <3>2
    <3>3. CASE h.at \in Touch(c) /\ c.op \notin {"unlink", "rename"}
      <4>1. at = h.at /\ \A q \in Touch(c) : q = at
        BY <1>2, <2>3, <3>3, PathAssumption DEF Follow, OnItsNames, Touch
      <4> QED  BY <1>4, <1>5, <3>1, <4>1
    <3>4. CASE h.at \in Touch(c) /\ c.op \in {"unlink", "rename"}
      <4>1. /\ Touch(c) \subseteq {c.path, c.to} /\ (c.op = "unlink" => Touch(c) = {c.path})
            /\ h.at = c.path => at = c.to
        BY <1>2, <2>3, <3>4, PathAssumption, HandleFields DEF OnItsNames, Touch
      <4> SUFFICES ASSUME NEW q \in Paths, q # at, Claims(q, i)', mark'[q] = "clear"
                   PROVE  Dirty(q)'
        BY <3>1 DEF Dirty
      <4>2. q \notin Touch(c)
        BY <1>8, <2>3, <3>4, <4>1
      <4>3. q # h.at
        BY <3>4, <4>2
      <4> QED  BY <1>4, <1>5, <1>7, <3>1, <3>4, <4>2, <4>3
    <3>5. h.at \notin Touch(c) => at = h.at
      BY <1>2, <2>3, PathAssumption, HandleFields DEF OnItsNames, Touch
    <3> QED  BY <3>2, <3>3, <3>4, <3>5
  <2>4. \/ \E v \in Workers : worker'[v].op \in Opening /\ worker'[v].id = i /\ worker'[v].path = at
        \/ c.op \in Opening /\ i = c.id /\ at = c.path
        \/ \E h \in handles : h.id = i /\ Follow(h, c).at = at
    <3>1. \A h \in handles : Follow(h, c).id = h.id
      BY HandleFields
    <3> QED  BY <1>1, <1>9, <3>1 DEF Holds
  <2> QED  BY <2>1, <2>2, <2>3, <2>4
<1> QED  BY <1>9 DEF HeldApart

\* What a starting callback is.
Starting(c) ==
  /\ c.path \in Paths /\ c.x \in BOOLEAN
  /\ c.op # "rename" => c.to = NoPath
  /\ c.op # "create" => c.id = NoId /\ seq' = seq
  /\ \/ /\ c.op = "create" /\ ~Exists(c.path) /\ seq < MaxSeq /\ seq' = seq + 1
        /\ c.id = <<pid, seq>> /\ c.todo = CreateFile(c.path, <<pid, seq>>, c.x, Empty)
     \/ c.op = "symlink" /\ ~Exists(c.path) /\ c.todo = Put(c.path, Symlink)
     \/ c.op = "unlink" /\ Exists(c.path) /\ c.todo = UnlinkCalls(c.path)
     \/ /\ c.op = "rename" /\ c.to \in Paths \ {c.path} /\ Exists(c.path)
        /\ c.todo = RenameCalls(c.path, c.to)
     \/ /\ c.op \in Modifications /\ Exists(c.path) /\ index[c.path].kind # "symlink"
        /\ c.todo = Then(Call("look", c.path, None), <<>>)

LEMMA Starts ==
  ASSUME NEW w \in Workers, Start(w)
  PROVE  \E c : Begin(w, c) /\ Starting(c)
<1>1. ASSUME NEW p \in Paths, NEW x \in Modes, Create(w, p, x)
      PROVE  \E c : Begin(w, c) /\ Starting(c)
  <2> DEFINE L == CreateFile(p, <<pid, seq>>, x, Empty)
             c == [Idle EXCEPT !.op = "create", !.path = p, !.x = x, !.id = <<pid, seq>>, !.todo = L]
  <2>1. Begin(w, c) /\ ~Exists(p) /\ seq < MaxSeq /\ seq' = seq + 1
    BY <1>1 DEF Create, NewContentId
  <2>2. x \in BOOLEAN
    BY LossAssumption
  <2> HIDE DEF L
  <2>3. /\ c.op = "create" /\ c.path = p /\ c.to = NoPath /\ c.x = x /\ c.id = <<pid, seq>> /\ c.todo = L
    BY DEF Idle
  <2> HIDE DEF c
  <2> QED  BY <2>1, <2>2, <2>3 DEF Starting, L
<1>2. ASSUME NEW p \in Paths, PutSymlink(w, p)
      PROVE  \E c : Begin(w, c) /\ Starting(c)
  <2> DEFINE L == Put(p, Symlink)
             c == [Idle EXCEPT !.op = "symlink", !.path = p, !.todo = L]
  <2>1. Begin(w, c) /\ ~Exists(p) /\ seq' = seq
    BY <1>2 DEF PutSymlink
  <2> HIDE DEF L
  <2>2. c.op = "symlink" /\ c.path = p /\ c.to = NoPath /\ c.x \in BOOLEAN /\ c.id = NoId /\ c.todo = L
    BY DEF Idle
  <2> HIDE DEF c
  <2> QED  BY <2>1, <2>2 DEF Starting, L
<1>3. ASSUME NEW p \in Paths, Unlink(w, p)
      PROVE  \E c : Begin(w, c) /\ Starting(c)
  <2> DEFINE L == UnlinkCalls(p)
             c == [Idle EXCEPT !.op = "unlink", !.path = p, !.todo = L]
  <2>1. Begin(w, c) /\ Exists(p) /\ seq' = seq
    BY <1>3 DEF Unlink
  <2> HIDE DEF L
  <2>2. c.op = "unlink" /\ c.path = p /\ c.to = NoPath /\ c.x \in BOOLEAN /\ c.id = NoId /\ c.todo = L
    BY DEF Idle
  <2> HIDE DEF c
  <2> QED  BY <2>1, <2>2 DEF Starting, L
<1>4. ASSUME NEW s \in Paths, NEW d \in Paths, Rename(w, s, d)
      PROVE  \E c : Begin(w, c) /\ Starting(c)
  <2> DEFINE L == RenameCalls(s, d)
             c == [Idle EXCEPT !.op = "rename", !.path = s, !.to = d, !.todo = L]
  <2>1. Begin(w, c) /\ s # d /\ Exists(s) /\ seq' = seq
    BY <1>4 DEF Rename
  <2> HIDE DEF L
  <2>2. c.op = "rename" /\ c.path = s /\ c.to = d /\ c.x \in BOOLEAN /\ c.id = NoId /\ c.todo = L
    BY DEF Idle
  <2> HIDE DEF c
  <2> QED  BY <2>1, <2>2 DEF Starting, L
<1>5. ASSUME NEW p \in Paths, NEW op \in Modifications, NEW x \in BOOLEAN, Modify(w, op, p, x)
      PROVE  \E c : Begin(w, c) /\ Starting(c)
  <2> DEFINE L == <<Call("look", p, None)>>
             c == [Idle EXCEPT !.op = op, !.path = p, !.x = x, !.todo = L]
  <2>1. Begin(w, c) /\ Exists(p) /\ index[p].kind # "symlink" /\ seq' = seq
    BY <1>5 DEF Modify
  <2>2. L = Then(Call("look", p, None), <<>>)
    BY OneCall
  <2> HIDE DEF L
  <2>3. c.op = op /\ c.path = p /\ c.to = NoPath /\ c.x = x /\ c.id = NoId /\ c.todo = L
    BY DEF Idle
  <2> HIDE DEF c
  <2>4. op \notin {"create", "rename"}
    BY DEF Modifications, Truncations
  <2> QED  BY <2>1, <2>2, <2>3, <2>4 DEF Starting
<1>6. Modes \subseteq BOOLEAN /\ FALSE \in BOOLEAN /\ "chmod" \in Modifications
  BY LossAssumption DEF Modifications
<1> QED  BY <1>1, <1>2, <1>3, <1>4, <1>5, <1>6 DEF Start

LEMMA StartClaims ==
  ASSUME DurableInv, NEW c, Starting(c)
  PROVE  /\ c.op # "rename" =>
              \A a \in Items(c.todo) : a.entry.kind = "file" => a.entry.of = <<pid, seq>> /\ seq' = seq + 1
         /\ c.op = "rename" => \A a \in Items(c.todo) : a.entry \in {index[c.path], BaseRef(c.path, FALSE), Tomb, None}
<1>1. PICK p, d : p = c.path /\ d = c.to
  OBVIOUS
<1>2. CASE c.op = "create"
  <2>1. c.todo = CreateFile(p, <<pid, seq>>, c.x, Empty) /\ seq' = seq + 1
    BY <1>1, <1>2 DEF Starting, Modifications, Truncations
  <2>2. \A a \in Items(c.todo) : a.entry = File(<<pid, seq>>, c.x)
    <3> SUFFICES ASSUME NEW a \in Items(CreateFile(p, <<pid, seq>>, c.x, Empty))
                 PROVE  a.entry = File(<<pid, seq>>, c.x)
      BY <2>1
    <3>1. \A id, y, seed : a \in Items(CreateFile(p, id, y, seed)) => a.entry = File(id, y)
      BY OneNameItems
    <3> QED  BY <3>1
  <2> QED  BY <1>2, <2>1, <2>2 DEF File
<1>3. CASE c.op = "symlink"
  <2>1. c.todo = Put(p, Symlink)
    BY <1>1, <1>3 DEF Starting, Modifications, Truncations
  <2>2. \A a \in Items(Put(p, Symlink)) : a.entry = Symlink
    BY PutAlone
  <2>3. \A a \in Items(c.todo) : a.entry.kind # "file"
    <3>1. \A a \in Items(c.todo) : a.entry = Symlink
      BY <2>1, <2>2
    <3>2. Symlink.kind # "file"
      BY DEF Symlink
    <3> QED  BY <3>1, <3>2
  <2> QED  BY <1>3, <2>3
<1>4. CASE c.op = "unlink"
  <2>1. c.todo \in {Entombed(p), Clear(p)}
    BY <1>1, <1>4, RemovalLists DEF Starting, Modifications, Truncations, UnlinkCalls
  <2>2. \A a \in Items(c.todo) : a.entry \in {Tomb, None}
    BY <2>1, OneNameItems
  <2> QED  BY <1>4, <2>2 DEF Tomb, None
<1>5. CASE c.op \in Modifications
  <2>1. c.todo = Then(Call("look", p, None), <<>>)
    BY <1>1, <1>5 DEF Starting, Modifications, Truncations
  <2>2. \A a \in Items(c.todo) : a.entry = None
    BY <2>1, EmptyList, ThenParts, CallFields
  <2>3. \A a \in Items(c.todo) : a.entry.kind # "file"
    BY <2>2 DEF None
  <2>4. c.op # "rename"
    BY <1>5 DEF Modifications, Truncations
  <2> QED  BY <2>3, <2>4
<1>6. CASE c.op = "rename"
  <2>1. c.todo = RenameCalls(p, d) /\ p \in Paths /\ d \in Paths /\ p # d
    BY <1>1, <1>6 DEF Starting, Modifications, Truncations
  <2> QED  BY <1>1, <1>6, <2>1, RenameItems
<1> QED  BY <1>2, <1>3, <1>4, <1>5, <1>6 DEF Starting

LEMMA BeginHeld ==
  ASSUME TypeInv, Numbered, Owned, HeldApart, NEW w \in Workers, NEW c, Begin(w, c), Starting(c)
  PROVE  HeldApart'
<1>1. DurableInv /\ pid' = pid /\ (seq' = seq \/ seq' = seq + 1) /\ handles' = handles
  <2>1. DurableInv /\ pid' = pid /\ handles' = handles
    BY DEF TypeInv, Begin
  <2>2. seq' = seq \/ seq' = seq + 1
    BY DEF Starting, Modifications, Truncations
  <2> QED  BY <2>1, <2>2
<1>2. /\ worker'[w] = c /\ \A v \in Workers \ {w} : worker'[v] = worker[v]
      /\ \A q \in Paths : Dirty(q) => Dirty(q)'
      /\ \A q, r : Together(q, r) => Together(q, r)'
  BY <1>1, BeginMeets
<1>3. \A i : Old(i) => Old(i)'
  BY <1>1 DEF Old, Numbered
<1>4. NoId \notin Ids
  BY DEF NoId, Ids, Pids
<1>5. \A i \in Ids : \A at : Holds(i, at)' =>
        Holds(i, at) \/ (at = c.path /\ i = <<pid, seq>> /\ pid' = pid /\ seq' = seq + 1)
  <2> SUFFICES ASSUME NEW i \in Ids, NEW at, Holds(i, at)'
               PROVE  Holds(i, at) \/ (at = c.path /\ i = <<pid, seq>> /\ pid' = pid /\ seq' = seq + 1)
    OBVIOUS
  <2>1. CASE \E h \in handles' : h.id = i /\ h.at = at
    BY <1>1, <2>1 DEF Holds
  <2>2. ASSUME NEW v \in Workers, worker'[v].op \in Opening, worker'[v].id = i, worker'[v].path = at
        PROVE  Holds(i, at) \/ (at = c.path /\ i = <<pid, seq>> /\ pid' = pid /\ seq' = seq + 1)
    <3>1. CASE v # w
      BY <1>2, <2>2, <3>1 DEF Holds
    <3>2. CASE v = w /\ c.op = "create"
      BY <1>1, <1>2, <2>2, <3>2 DEF Starting, Modifications, Truncations
    <3>3. CASE v = w /\ c.op # "create"
      BY <1>2, <1>4, <2>2, <3>3 DEF Starting
    <3> QED  BY <3>1, <3>2, <3>3
  <2> QED  BY <2>1, <2>2 DEF Holds
<1>6. CASE c.op # "rename"
  <2>1. PICK p \in Paths : p = c.path
    BY DEF Starting
  <2>2. c.to = NoPath /\ \A a \in Items(c.todo) : a.entry.kind = "file" => a.entry.of = <<pid, seq>> /\ seq' = seq + 1
    BY <1>1, <1>6, StartClaims DEF Starting
  <2>3. \A i : \A q \in Paths : Claims(q, i)' =>
          Claims(q, i) \/ (q = p /\ i = <<pid, seq>> /\ pid' = pid /\ seq' = seq + 1)
    BY <1>1, <2>1, <2>2, OneNameClaims
  <2>4. \A i \in Ids : \A at : Holds(i, at)' =>
          \/ Holds(i, at) \/ (at \in Paths /\ OfFile(index[at], i))
          \/ (at = p /\ i = <<pid, seq>> /\ pid' = pid /\ seq' = seq + 1)
    BY <1>5, <2>1
  <2>5. Numbered /\ Owned /\ HeldApart
    OBVIOUS
  <2> QED  BY ONLY <1>2, <1>3, <2>3, <2>4, <2>5, HeldStep
<1>7. CASE c.op = "rename"
  <2>1. PICK s \in Paths, d \in Paths : s = c.path /\ d = c.to /\ s # d
    BY <1>7 DEF Starting, Modifications, Truncations
  <2>2. \A a \in Items(c.todo) : a.entry \in {index[s], BaseRef(s, FALSE), Tomb, None}
    BY <1>1, <1>7, <2>1, StartClaims
  <2>3. /\ \A i : \A q \in Paths : Claims(q, i)' => Claims(q, i) \/ (q = d /\ OfFile(index[s], i))
        /\ Together(s, d)' /\ Together(d, s)' /\ (Dirty(s) => Dirty(d)')
        /\ \A q \in Paths : Together(q, s) => (Dirty(q)' /\ Dirty(d)')
    BY <1>1, <2>1, <2>2, RenameClaims, ZenonT(30)
  <2>4. ASSUME NEW i \in Ids, NEW at, Holds(i, at)
        PROVE  Old(i)' /\ \A q \in Paths : q # at /\ Claims(q, i)' => Dirty(q)' \/ Together(q, at)'
    <3>1. Old(i)' /\ \A q \in Paths : q # at /\ Claims(q, i) => Dirty(q)' \/ Together(q, at)'
      BY <1>2, <1>3, <2>4 DEF HeldApart
    <3>2. ASSUME OfFile(index[s], i), d # at
          PROVE  Dirty(d)' \/ Together(d, at)'
      <4>1. CASE at = s
        BY <2>3, <4>1
      <4>2. CASE at # s
        <5>1. Claims(s, i)
          BY <3>2 DEF Claims
        <5>2. Dirty(s) \/ Together(s, at)
          BY <2>4, <4>2, <5>1 DEF HeldApart
        <5>3. CASE Together(s, at)
          <6>1. Together(s, s)
            BY <5>3 DEF Together
          <6> QED  BY <2>3, <6>1
        <5> QED  BY <2>3, <5>2, <5>3
      <4> QED  BY <4>1, <4>2
    <3> QED  BY <2>3, <3>1, <3>2
  <2>5. \A i \in Ids : \A at : Holds(i, at)' => Holds(i, at)
    <3>1. seq' = seq
      BY <1>7 DEF Starting
    <3> QED  BY <1>5, <3>1 DEF Numbered
  <2> QED  BY <2>4, <2>5 DEF HeldApart
<1> QED  BY <1>6, <1>7

LEMMA StepHeld ==
  ASSUME TypeInv, Numbered, Owned, HeldApart, [Next]_vars,
         \A w \in Workers : worker[w].op # "idle" /\ (\A p \in Touch(worker[w]) : mark[p] = "clear") => Follows(worker[w])
  PROVE  HeldApart'
<1>1. ASSUME sidecar' = sidecar, tmp' = tmp, index' = index, worker' = worker, mark' = mark, pid' = pid, seq' = seq,
             handles' \subseteq handles
      PROVE  HeldApart'
  <2>1. /\ \A i : \A at : Holds(i, at)' => Holds(i, at)
        /\ \A i : (Old(i)' <=> Old(i)) /\ \A q : Claims(q, i)' <=> Claims(q, i)
        /\ \A q : (Dirty(q)' <=> Dirty(q)) /\ \A r : (Together(q, r)' <=> Together(q, r))
    BY <1>1 DEF Holds, Old, Claims, Dirty, Together
  <2> QED  BY <2>1 DEF HeldApart
<1>2. CASE \E h \in handles : Write(h) \/ Release(h)
  BY <1>1, <1>2 DEF Write, Release, memVars, diskVars, ghosts
<1>3. CASE Restart
  <2>1. \A i \in Ids : \A at : ~Holds(i, at)'
    BY <1>3 DEF Restart, Holds, Idle, Opening
  <2> QED  BY <2>1 DEF HeldApart
<1>4. ASSUME NEW w \in Workers, Start(w)
      PROVE  HeldApart'
  BY <1>4, Starts, BeginHeld
<1>5. ASSUME NEW w \in Workers, Continue(w)
      PROVE  HeldApart'
  <2>1. CASE Reply(w)
    <3>1. worker[w].op # "idle"
      BY <2>1 DEF Reply
    <3> QED  BY <2>1, <3>1, ReplyHeld
  <2> QED  BY <1>5, <2>1, WorksHeld, LeftoverHeld, FailHeld DEF Continue, Works
<1>6. CASE UNCHANGED vars
  BY <1>1, <1>6 DEF vars, memVars, diskVars
<1> QED  BY <1>2, <1>3, <1>4, <1>5, <1>6 DEF Next

-----------------------------------------------------------------------------
(* A call of a callback that met no other.                                     *)

LEMMA Worked ==
  ASSUME TypeInv, NEW w \in Workers, Works(w), NEW a, NEW rest, IsList(rest), worker[w].todo = Then(a, rest)
  PROVE  /\ Effect(w, a, rest) /\ Data(w, worker[w], a)
         /\ worker'[w].op = worker[w].op /\ worker'[w].path = worker[w].path /\ worker'[w].to = worker[w].to
         /\ worker'[w].x = worker[w].x /\ handles' = handles /\ view' = view
<1>1. Framed
  BY DEF TypeInv, DurableInv
<1>2. Head(worker[w].todo) = a /\ Tail(worker[w].todo) = rest
  BY ThenParts
<1> QED  BY <1>1, <1>2, Works1, WorksData

LEMMA OwedKept ==
  ASSUME NEW c, NEW d, c.op = d.op, c.x = d.x
  PROVE  \A u : Owed(c, u) = Owed(d, u)
BY DEF Owed

\* Where the index and the bytes stay, the path shows what it showed.
LEMMA FaithfulKept ==
  ASSUME NEW p, index' = index, handles' = handles, view' = view,
         index[p] \in Entries, index[p].kind = "file" => content'[index[p].of] = content[index[p].of], Faithful(p)
  PROVE  Faithful(p)'
<1>1. Shown(index[p], p, content') = Shown(index[p], p, content)
  BY ShownSame
<1>2. Seen(p)' = Seen(p)
  BY <1>1 DEF Seen
<1> QED  BY <1>2 DEF Faithful, HandlesOn

LEMMA Looks ==
  ASSUME TypeInv, NEW w \in Workers, Works(w), NEW p \in Paths, worker[w].path = p,
         worker[w].op \in Modifications, AtRest(p), Faithful(p), worker[w].todo = Then(Call("look", p, None), <<>>)
  PROVE  Changing(worker[w], p)'
<1> DEFINE c == worker[w]
           a == Call("look", p, None)
<1>0. PICK f : f = File(index[p].of, c.x)
  OBVIOUS
<1>1. IsList(<<>>) /\ a.do = "look"
  BY EmptyList, CallFields
<1>2. /\ Effect(w, a, <<>>) /\ Data(w, c, a)
      /\ worker'[w].op = c.op /\ worker'[w].path = p
      /\ worker'[w].x = c.x /\ handles' = handles /\ view' = view
  BY <1>1, Worked
<1> HIDE DEF a
<1>3. /\ UNCHANGED storeVars /\ content' = content
      /\ worker'[w].todo = IF index[p].kind # "file" THEN <<Call("resolve", p, None)>>
                           ELSE IF c.op = "chmod" THEN Put(p, f)
                           ELSE <<Call("openContent", p, None)>>
  BY <1>0, <1>1, <1>2 DEF Effect, Data
<1>4. index[p] \in Entries /\ view[p] \in Views /\ c.x \in BOOLEAN
  BY DEF TypeInv, StoreOK, CallOK
<1>5. Faithful(p)' /\ AtRest(p)'
  <2>1. index' = index /\ handles' = handles /\ view' = view
    BY <1>2, <1>3 DEF storeVars
  <2>2. Faithful(p)'
    BY <1>3, <1>4, <2>1, FaithfulKept
  <2> QED  BY <1>3, <2>2 DEF AtRest, storeVars
<1>6. CASE index[p].kind # "file"
  <2>1. worker'[w].todo = Then(Call("resolve", p, None), <<>>)
    BY <1>3, <1>6, OneCall
  <2> QED  BY <1>2, <1>5, <2>1 DEF Changing, Finding
<1>7. CASE index[p].kind = "file" /\ c.op # "chmod"
  <2>1. worker'[w].todo = Then(Call("openContent", p, None), <<>>)
    BY <1>3, <1>7, OneCall
  <2> QED  BY <1>2, <1>5, <1>7, <2>1 DEF Changing, Finding
<1>8. CASE index[p].kind = "file" /\ c.op = "chmod"
  <2>1. index[p].of \in Ids /\ f \in Entries /\ f.kind = "file" /\ f.of = index[p].of /\ f.x = c.x
    BY <1>0, <1>4, <1>8, EntryKinds, PlainEntries
  <2>2. worker'[w].todo = PutThen(p, f, <<>>)
    BY <1>1, <1>3, <1>8, PutList
  <2>3. Shown(f, p, content') = [val |-> content[f.of], x |-> c.x]
    BY <1>3, <2>1 DEF Shown
  <2>4. view[p].val = content[f.of]
    BY <1>8, <2>1 DEF Faithful, Seen, Shown
  <2>5. Owed(worker[w], view[p])' = [val |-> view[p].val, x |-> c.x]
    BY <1>2, <1>8 DEF Owed, Truncations
  <2>6. HandlesOn(p, f)'
    BY <1>2, <1>8, <2>1 DEF Faithful, HandlesOn, OfFile
  <2>7. Yields(worker[w], p, f)'
    BY <1>2, <1>8, <2>6 DEF Yields, Opening
  <2>8. Readying(worker[w].todo, p, f)'
    BY <1>5, <2>2 DEF Readying
  <2> QED  BY <1>5, <2>1, <2>3, <2>4, <2>5, <2>7, <2>8 DEF Changing
<1> QED  BY <1>6, <1>7, <1>8

LEMMA Resolves ==
  ASSUME TypeInv, NEW w \in Workers, Works(w), NEW p \in Paths, worker[w].path = p,
         worker[w].op \in Modifications, AtRest(p), Faithful(p), worker[w].todo = Then(Call("resolve", p, None), <<>>)
  PROVE  Changing(worker[w], p)'
<1> DEFINE c == worker[w]
           a == Call("resolve", p, None)
           i == <<pid, seq>>
           x == IF c.op = "chmod" THEN c.x ELSE Seen(p).x
           seed == IF c.op \in Truncations THEN Empty ELSE Seen(p).val
<1>1. IsList(<<>>) /\ a.do = "resolve"
  BY EmptyList, CallFields
<1>2. /\ Effect(w, a, <<>>) /\ Data(w, c, a)
      /\ worker'[w].op = c.op /\ worker'[w].path = p
      /\ worker'[w].x = c.x /\ handles' = handles /\ view' = view
  BY <1>1, Worked
<1> HIDE DEF a
<1>3. UNCHANGED storeVars /\ content' = content
  BY <1>1, <1>2 DEF Effect, Data
<1>4. Clean(p) /\ worker'[w].id = i /\ worker'[w].todo = CreateFile(p, i, x, seed)
  BY <1>1, <1>2 DEF Data
<1>5. index[p] \in Entries /\ view[p] \in Views /\ c.x \in BOOLEAN /\ Seen(p) = view[p]
  BY DEF TypeInv, StoreOK, CallOK, Faithful
<1>6. Faithful(p)' /\ AtRest(p)' /\ index'[p].kind # "file"
  <2>1. index' = index /\ handles' = handles /\ view' = view
    BY <1>2, <1>3 DEF storeVars
  <2>2. Faithful(p)'
    BY <1>3, <1>5, <2>1, FaithfulKept
  <2> QED  BY <1>3, <1>4, <2>2 DEF AtRest, storeVars, Clean
<1>7. Owed(worker[w], view[p])' = [val |-> seed, x |-> x]
  <2>1. view[p] = [val |-> view[p].val, x |-> view[p].x]
    BY <1>5, Views1
  <2>2. CASE c.op = "chmod"
    BY <1>2, <1>5, <2>1, <2>2 DEF Owed, Truncations
  <2>3. CASE c.op \in Truncations
    BY <1>2, <1>5, <2>1, <2>3 DEF Owed, Truncations
  <2>4. CASE c.op = "open"
    BY <1>2, <1>5, <2>1, <2>4 DEF Owed, Truncations
  <2> QED  BY <2>2, <2>3, <2>4 DEF Modifications
<1>8. \A e : HandlesOn(p, e)'
  BY <1>2, <1>4 DEF HandlesOn, Faithful, OfFile, Clean
<1> HIDE DEF x, seed, i
<1>9. PICK b : /\ b.do = "content" /\ b.path = p /\ b.entry = File(i, x) /\ b.val = seed
               /\ CreateFile(p, i, x, seed) = Then(b, PutThen(p, File(i, x), <<>>))
  BY CreateList
<1>10. OfFile(b.entry, i) /\ b.entry.x = x
  BY <1>9 DEF OfFile, File
<1>11. Yields(worker[w], p, b.entry)'
  BY <1>4, <1>8, <1>10 DEF Yields
<1>12. worker'[w].todo = Then(b, PutThen(p, b.entry, <<>>)) /\ [val |-> b.val, x |-> b.entry.x] = Owed(worker[w], view[p])'
  BY <1>4, <1>7, <1>9, <1>10
<1> QED  BY <1>6, <1>9, <1>11, <1>12 DEF Changing

LEMMA OpensContent ==
  ASSUME TypeInv, NEW w \in Workers, Works(w), NEW p \in Paths, worker[w].path = p,
         worker[w].op \in Modifications \ {"chmod"}, AtRest(p), Faithful(p),
         worker[w].todo = Then(Call("openContent", p, None), <<>>)
  PROVE  Changing(worker[w], p)'
<1> DEFINE c == worker[w]
           a == Call("openContent", p, None)
           e == index[p]
<1>1. IsList(<<>>) /\ a.do = "openContent"
  BY EmptyList, CallFields
<1>2. /\ Effect(w, a, <<>>) /\ Data(w, c, a)
      /\ worker'[w].op = c.op /\ worker'[w].path = p
      /\ worker'[w].x = c.x /\ handles' = handles /\ view' = view
  BY <1>1, Worked
<1> HIDE DEF a
<1>3. UNCHANGED storeVars /\ worker'[w].todo = <<>>
  BY <1>1, <1>2 DEF Effect
<1>4. /\ e.kind = "file" /\ worker'[w].id = e.of
      /\ content' = IF c.op \in Truncations THEN [content EXCEPT ![e.of] = Empty] ELSE content
  BY <1>1, <1>2 DEF Data
<1>5. e \in Entries /\ view[p] \in Views /\ content \in [Ids -> Bytes \union {Broken}]
  BY DEF TypeInv, StoreOK
<1>6. e.of \in Ids /\ index' = index /\ AtRest(p)'
  BY <1>3, <1>4, <1>5, EntryKinds DEF storeVars, AtRest
<1>7. Seen(p)' = [val |-> content'[e.of], x |-> e.x] /\ view[p] = [val |-> content[e.of], x |-> e.x]
  BY <1>4, <1>6 DEF Faithful, Seen, Shown
<1>8. Seen(p)' = Owed(worker[w], view[p])'
  <2>1. CASE c.op \in Truncations
    BY <1>2, <1>4, <1>5, <1>6, <1>7, <2>1 DEF Owed, Truncations
  <2>2. CASE c.op = "open"
    BY <1>2, <1>4, <1>7, <2>2 DEF Owed, Truncations
  <2> QED  BY <2>1, <2>2 DEF Modifications
<1>9. HandlesOn(p, index[p])'
  BY <1>2, <1>6 DEF Faithful, HandlesOn
<1>10. Yields(worker[w], p, index[p])'
  BY <1>4, <1>6, <1>9 DEF Yields, OfFile
<1> QED  BY <1>3, <1>6, <1>8, <1>10 DEF Changing

LEMMA FillsContent ==
  ASSUME TypeInv, NEW w \in Workers, Works(w), NEW p \in Paths, worker[w].path = p,
         AtRest(p), Faithful(p), index[p].kind # "file", NEW a, a.do = "content", a.entry \in Entries,
         a.entry.kind = "file", worker[w].todo = Then(a, PutThen(p, a.entry, <<>>)),
         [val |-> a.val, x |-> a.entry.x] = Owed(worker[w], view[p]), Yields(worker[w], p, a.entry)
  PROVE  Changing(worker[w], p)'
<1> DEFINE c == worker[w]
<1>1. PICK e : e = a.entry
  OBVIOUS
<1>2. IsList(PutThen(p, e, <<>>))
  BY AllLists, EmptyList
<1>3. /\ Effect(w, a, PutThen(p, e, <<>>)) /\ Data(w, c, a)
      /\ worker'[w].op = c.op /\ worker'[w].x = c.x /\ handles' = handles /\ view' = view
  BY <1>1, <1>2, Worked
<1>4. /\ UNCHANGED storeVars /\ worker'[w].todo = PutThen(p, e, <<>>) /\ worker'[w].id = c.id
      /\ content' = [content EXCEPT ![e.of] = a.val]
  BY <1>1, <1>3 DEF Effect, Data
<1>5. index[p] \in Entries /\ content \in [Ids -> Bytes \union {Broken}] /\ e.of \in Ids /\ e.x \in BOOLEAN
  BY <1>1, EntryKinds DEF TypeInv, StoreOK
<1>6. Faithful(p)' /\ AtRest(p)'
  <2>1. index' = index
    BY <1>4 DEF storeVars
  <2>2. Faithful(p)'
    BY <1>3, <1>5, <2>1, FaithfulKept
  <2> QED  BY <1>4, <2>2 DEF AtRest, storeVars
<1>7. Shown(e, p, content') = [val |-> a.val, x |-> e.x]
  BY <1>1, <1>4, <1>5 DEF Shown
<1>8. Owed(worker[w], view[p])' = Owed(c, view[p])
  BY <1>3, OwedKept
<1>9. Yields(worker[w], p, e)'
  BY <1>1, <1>3, <1>4 DEF Yields, HandlesOn
<1>10. Readying(worker[w].todo, p, e)'
  BY <1>4, <1>6 DEF Readying
<1> QED  BY <1>1, <1>6, <1>7, <1>8, <1>9, <1>10 DEF Changing

LEMMA Readies ==
  ASSUME TypeInv, NEW w \in Workers, Works(w), NEW p \in Paths, worker[w].path = p,
         Faithful(p), NEW e \in Entries, Readying(worker[w].todo, p, e),
         Shown(e, p, content) = Owed(worker[w], view[p]), Yields(worker[w], p, e)
  PROVE  Changing(worker[w], p)'
<1> DEFINE c == worker[w]
<1>1. /\ IsList(<<>>) /\ IsList(StagedPut(p, e, <<>>)) /\ IsList(Then(Call("insert", p, e), <<>>))
      /\ index[p] \in Entries /\ DOMAIN sidecar = Paths /\ DOMAIN tmp = Paths /\ DOMAIN index = Paths
  BY AllLists, EmptyList DEF TypeInv, StoreOK, DurableInv, Framed
<1>2. ASSUME worker'[w].op = c.op, worker'[w].x = c.x, worker'[w].id = c.id, handles' = handles, view' = view,
             content' = content
      PROVE  /\ Owed(worker[w], view[p])' = Owed(c, view[p]) /\ Yields(worker[w], p, e)'
             /\ index' = index => Faithful(p)'
  BY <1>1, <1>2, OwedKept, FaithfulKept DEF Yields, HandlesOn
<1>3. CASE AtRest(p) /\ c.todo = PutThen(p, e, <<>>)
  <2> DEFINE a == Call("stage", p, e)
  <2>1. c.todo = Then(a, StagedPut(p, e, <<>>)) /\ a.do = "stage" /\ a.path = p /\ a.entry = e
    BY <1>3, CallFields DEF PutThen
  <2>2. /\ Effect(w, a, StagedPut(p, e, <<>>)) /\ Data(w, c, a)
        /\ worker'[w].op = c.op /\ worker'[w].x = c.x /\ handles' = handles /\ view' = view
    BY <1>1, <2>1, Worked
  <2> HIDE DEF a
  <2>3. /\ sidecar' = sidecar /\ index' = index /\ tmp' = [tmp EXCEPT ![p] = e] /\ content' = content
        /\ worker'[w].todo = StagedPut(p, e, <<>>) /\ worker'[w].id = c.id
    BY <2>1, <2>2 DEF Effect, Data
  <2>4. Readying(worker[w].todo, p, e)'
    BY <1>1, <1>3, <2>3 DEF Readying, AtRest
  <2> QED  BY <1>2, <2>2, <2>3, <2>4 DEF Changing
<1>4. CASE sidecar[p] = index[p] /\ tmp[p] = e /\ c.todo = StagedPut(p, e, <<>>)
  <2> DEFINE a == Call("publish", p, e)
  <2>1. c.todo = Then(a, Then(Call("insert", p, e), <<>>)) /\ a.do = "publish" /\ a.path = p /\ a.entry = e
    BY <1>4, CallFields DEF StagedPut
  <2>2. /\ Effect(w, a, Then(Call("insert", p, e), <<>>)) /\ Data(w, c, a)
        /\ worker'[w].op = c.op /\ worker'[w].x = c.x /\ handles' = handles /\ view' = view
    BY <1>1, <2>1, Worked
  <2> HIDE DEF a
  <2>3. /\ sidecar' = [sidecar EXCEPT ![p] = tmp[p]] /\ index' = index /\ tmp' = [tmp EXCEPT ![p] = None] /\ content' = content
        /\ worker'[w].todo = Then(Call("insert", p, e), <<>>) /\ worker'[w].id = c.id
    BY <2>1, <2>2 DEF Effect, Data
  <2>4. Readying(worker[w].todo, p, e)'
    BY <1>1, <1>4, <2>3 DEF Readying
  <2> QED  BY <1>2, <2>2, <2>3, <2>4 DEF Changing
<1>5. CASE sidecar[p] = e /\ tmp[p] = None /\ c.todo = Then(Call("insert", p, e), <<>>)
  <2> DEFINE a == Call("insert", p, e)
  <2>1. c.todo = Then(a, <<>>) /\ a.do = "insert" /\ a.path = p /\ a.entry = e
    BY <1>5, CallFields
  <2>2. /\ Effect(w, a, <<>>) /\ Data(w, c, a)
        /\ worker'[w].op = c.op /\ worker'[w].x = c.x /\ handles' = handles /\ view' = view
    BY <1>1, <2>1, Worked
  <2> HIDE DEF a
  <2>3. /\ sidecar' = sidecar /\ index' = [index EXCEPT ![p] = e] /\ tmp' = tmp /\ content' = content
        /\ worker'[w].todo = <<>> /\ worker'[w].id = c.id
    BY <2>1, <2>2 DEF Effect, Data
  <2>4. index'[p] = e /\ AtRest(p)'
    BY <1>1, <1>5, <2>3 DEF AtRest
  <2>5. Seen(p)' = Shown(e, p, content)
    BY <2>3, <2>4 DEF Seen
  <2>6. /\ Owed(worker[w], view[p])' = Owed(c, view[p]) /\ Yields(worker[w], p, e)'
    BY <1>2, <2>2, <2>3
  <2>7. Yields(worker[w], p, index[p])'
    BY <2>4, <2>6
  <2> QED  BY <2>3, <2>4, <2>5, <2>6, <2>7 DEF Changing
<1> QED  BY <1>3, <1>4, <1>5 DEF Readying

LEMMA Changing1 ==
  ASSUME TypeInv, NEW w \in Workers, Works(w), NEW p \in Paths, worker[w].path = p, Changing(worker[w], p)
  PROVE  Changing(worker[w], p)'
<1> DEFINE c == worker[w]
<1>1. c.todo # <<>> /\ CallOK(c) /\ Framed
  BY Works1 DEF TypeInv, DurableInv
<1>2. ASSUME c.op \in Modifications, AtRest(p), Faithful(p), NEW do \in Finding, do = "openContent" => c.op # "chmod",
             c.todo = Then(Call(do, p, None), <<>>)
      PROVE  Changing(worker[w], p)'
  BY <1>2, Looks, Resolves, OpensContent DEF Finding
<1>3. ASSUME AtRest(p), Faithful(p), index[p].kind # "file", NEW a, a.do = "content",
             c.todo = Then(a, PutThen(p, a.entry, <<>>)),
             [val |-> a.val, x |-> a.entry.x] = Owed(c, view[p]), Yields(c, p, a.entry)
      PROVE  Changing(worker[w], p)'
  <2>1. IsList(PutThen(p, a.entry, <<>>))
    BY AllLists, EmptyList
  <2>2. a \in Items(c.todo)
    BY <1>3, <2>1, ThenParts
  <2>3. a.entry \in Entries /\ a.entry.kind = "file"
    BY <1>1, <1>3, <2>2 DEF CallOK
  <2> QED  BY <1>3, <2>3, FillsContent
<1>4. ASSUME Faithful(p), NEW e \in Entries, Readying(c.todo, p, e), Shown(e, p, content) = Owed(c, view[p]), Yields(c, p, e)
      PROVE  Changing(worker[w], p)'
  BY <1>4, Readies
<1> QED  BY <1>1, <1>2, <1>3, <1>4 DEF Changing

\* One call of a list, by what it is.
LEMMA WorkedCall ==
  ASSUME TypeInv, NEW w \in Workers, Works(w), NEW do, NEW p, NEW e, NEW rest, IsList(rest),
         do \in {"drop", "stage", "publish", "insert", "unpersist", "rekey"},
         worker[w].todo = Then(Call(do, p, e), rest)
  PROVE  /\ worker'[w].todo = rest /\ handles' = handles /\ view' = view
         /\ do # "drop" => content' = content
         /\ do = "drop" /\ index[p].kind # "file" => content' = content
         /\ do \notin {"insert", "rekey"} => index' = index
         /\ do = "insert" => index' = [index EXCEPT ![p] = e]
         /\ do = "rekey" => index' = [index EXCEPT ![worker[w].to] = e, ![p] = None]
<1> DEFINE a == Call(do, p, e)
<1>1. a.do = do /\ a.path = p /\ a.entry = e
  BY CallFields
<1>2. Effect(w, a, rest) /\ Data(w, worker[w], a) /\ handles' = handles /\ view' = view
  BY Worked
<1> HIDE DEF a
<1> QED  BY <1>1, <1>2 DEF Effect, Data, storeVars

LEMMA Tombs1 ==
  ASSUME TypeInv, NEW w \in Workers, Works(w), NEW s \in Paths, worker[w].todo \in TombLists(s)
  PROVE  \/ worker'[w].todo \in TombLists(s) /\ index' = index /\ (index[s].kind # "file" => content' = content)
         \/ worker'[w].todo = <<>> /\ index' = [index EXCEPT ![s] = Tomb] /\ content' = content
<1>1. /\ IsList(<<>>) /\ IsList(PutThen(s, Tomb, <<>>)) /\ IsList(StagedPut(s, Tomb, <<>>))
      /\ IsList(Then(Call("insert", s, Tomb), <<>>))
  BY AllLists, EmptyList
<1>2. CASE worker[w].todo = Entombed(s)
  <2>1. worker[w].todo = Then(Call("drop", s, None), PutThen(s, Tomb, <<>>))
    BY <1>2 DEF Entombed
  <2>2. worker'[w].todo = PutThen(s, Tomb, <<>>) /\ index' = index /\ (index[s].kind # "file" => content' = content)
    BY <1>1, <2>1, WorkedCall
  <2> QED  BY <2>2 DEF TombLists
<1>3. CASE worker[w].todo = PutThen(s, Tomb, <<>>)
  <2>1. worker[w].todo = Then(Call("stage", s, Tomb), StagedPut(s, Tomb, <<>>))
    BY <1>3 DEF PutThen
  <2>2. worker'[w].todo = StagedPut(s, Tomb, <<>>) /\ index' = index /\ content' = content
    BY <1>1, <2>1, WorkedCall
  <2> QED  BY <2>2 DEF TombLists
<1>4. CASE worker[w].todo = StagedPut(s, Tomb, <<>>)
  <2>1. worker[w].todo = Then(Call("publish", s, Tomb), Then(Call("insert", s, Tomb), <<>>))
    BY <1>4 DEF StagedPut
  <2>2. worker'[w].todo = Then(Call("insert", s, Tomb), <<>>) /\ index' = index /\ content' = content
    BY <1>1, <2>1, WorkedCall
  <2> QED  BY <2>2 DEF TombLists
<1>5. CASE worker[w].todo = Then(Call("insert", s, Tomb), <<>>)
  BY <1>1, <1>5, WorkedCall
<1> QED  BY <1>2, <1>3, <1>4, <1>5 DEF TombLists

LEMMA Removing1 ==
  ASSUME TypeInv, NEW w \in Workers, Works(w), NEW p \in Paths, Removing(worker[w].todo, p)
  PROVE  Removing(worker[w].todo, p)'
<1>1. worker[w].todo # <<>> /\ DOMAIN index = Paths
  BY Works1 DEF TypeInv, DurableInv, Framed
<1>2. CASE p \in Baseline /\ worker[w].todo \in TombLists(p)
  <2>1. \/ worker'[w].todo \in TombLists(p)
        \/ worker'[w].todo = <<>> /\ index' = [index EXCEPT ![p] = Tomb]
    BY <1>2, Tombs1
  <2> QED  BY <1>1, <1>2, <2>1 DEF Removing, Away
<1>3. CASE p \notin Baseline /\ worker[w].todo \in ClearLists(p)
  <2>1. IsList(<<>>) /\ IsList(Then(Call("insert", p, None), <<>>)) /\ IsList(Clearing(p))
    BY AllLists, EmptyList, ThenParts DEF Clearing
  <2>2. CASE worker[w].todo = Then(Call("drop", p, None), Clearing(p))
    <3>1. worker'[w].todo = Clearing(p)
      BY <2>1, <2>2, WorkedCall
    <3> QED  BY <1>3, <3>1 DEF Removing, ClearLists
  <2>3. CASE worker[w].todo = Clearing(p)
    <3>1. worker'[w].todo = Then(Call("insert", p, None), <<>>)
      BY <2>1, <2>3, WorkedCall DEF Clearing
    <3> QED  BY <1>3, <3>1 DEF Removing, ClearLists
  <2>4. CASE worker[w].todo = Then(Call("insert", p, None), <<>>)
    <3>1. worker'[w].todo = <<>> /\ index' = [index EXCEPT ![p] = None]
      BY <2>1, <2>4, WorkedCall
    <3> QED  BY <1>1, <1>3, <3>1 DEF Removing, Away
  <2> QED  BY <1>3, <2>2, <2>3, <2>4 DEF ClearLists
<1> QED  BY <1>1, <1>2, <1>3 DEF Removing

\* An entry shows the same under any name.
LEMMA ShownAnywhere ==
  ASSUME NEW e \in Entries, e.kind # "none", NEW p, NEW q, NEW b
  PROVE  Shown(e, p, b) = Shown(e, q, b)
<1>1. CASE e.kind = "file"
  BY <1>1 DEF Shown
<1>2. CASE e.kind = "baseref"
  BY <1>2 DEF Shown
<1>3. CASE e.kind = "symlink"
  BY <1>3 DEF Shown
<1>4. CASE e.kind = "tombstone"
  BY <1>4 DEF Shown
<1> QED  BY <1>1, <1>2, <1>3, <1>4, EntryKinds

LEMMA Rekeys1 ==
  ASSUME TypeInv, NEW w \in Workers, Works(w), NEW s \in Paths, NEW d \in Paths, s # d, worker[w].to = d,
         NEW e \in Entries, worker[w].todo \in RekeyLists(s, d, e)
  PROVE  /\ content' = content /\ handles' = handles /\ view' = view
         /\ \/ worker'[w].todo \in RekeyLists(s, d, e) /\ index' = index
            \/ /\ worker'[w].todo = IF s \in Baseline THEN Entombed(s) ELSE <<>>
               /\ index' = [index EXCEPT ![d] = e, ![s] = None]
<1>1. PICK rest : rest = IF s \in Baseline THEN Entombed(s) ELSE <<>>
  OBVIOUS
<1>2. IsList(rest)
  BY <1>1, AllLists, EmptyList
<1>3. /\ IsList(Moved(s, d, e, rest)) /\ IsList(Rekeyed(s, e, rest)) /\ IsList(Then(Call("rekey", s, e), rest))
  BY <1>2, AllLists
<1>4. CASE worker[w].todo = Moves(s, d, e, rest)
  <2>1. worker[w].todo = Then(Call("stage", d, e), Moved(s, d, e, rest))
    BY <1>4 DEF Moves
  <2>2. worker'[w].todo = Moved(s, d, e, rest) /\ index' = index /\ content' = content /\ handles' = handles /\ view' = view
    BY <1>3, <2>1, WorkedCall
  <2> QED  BY <1>1, <2>2 DEF RekeyLists
<1>5. CASE worker[w].todo = Moved(s, d, e, rest)
  <2>1. worker[w].todo = Then(Call("publish", d, e), Rekeyed(s, e, rest))
    BY <1>5 DEF Moved
  <2>2. worker'[w].todo = Rekeyed(s, e, rest) /\ index' = index /\ content' = content /\ handles' = handles /\ view' = view
    BY <1>3, <2>1, WorkedCall
  <2> QED  BY <1>1, <2>2 DEF RekeyLists
<1>6. CASE worker[w].todo = Rekeyed(s, e, rest)
  <2>1. worker[w].todo = Then(Call("unpersist", s, None), Then(Call("rekey", s, e), rest))
    BY <1>6 DEF Rekeyed
  <2>2. worker'[w].todo = Then(Call("rekey", s, e), rest) /\ index' = index /\ content' = content /\ handles' = handles /\ view' = view
    BY <1>3, <2>1, WorkedCall
  <2> QED  BY <1>1, <2>2 DEF RekeyLists
<1>7. CASE worker[w].todo = Then(Call("rekey", s, e), rest)
  <2>1. /\ worker'[w].todo = rest /\ index' = [index EXCEPT ![d] = e, ![s] = None]
        /\ content' = content /\ handles' = handles /\ view' = view
    BY <1>2, <1>7, WorkedCall
  <2> QED  BY <1>1, <2>1
<1> QED  BY <1>1, <1>4, <1>5, <1>6, <1>7 DEF RekeyLists

LEMMA Refers1 ==
  ASSUME TypeInv, NEW w \in Workers, Works(w), NEW s \in Paths, NEW d \in Paths, worker[w].todo \in ReferLists(s, d)
  PROVE  /\ content' = content /\ handles' = handles /\ view' = view
         /\ \/ worker'[w].todo \in ReferLists(s, d) /\ index' = index
            \/ worker'[w].todo = Entombed(s) /\ index' = [index EXCEPT ![d] = BaseRef(s, FALSE)]
<1>1. PICK e, rest : e = BaseRef(s, FALSE) /\ rest = Entombed(s)
  OBVIOUS
<1>2. IsList(rest) /\ IsList(StagedPut(d, e, rest)) /\ IsList(Then(Call("insert", d, e), rest))
  BY <1>1, AllLists, EmptyList
<1>3. CASE worker[w].todo = PutThen(d, e, rest)
  <2>1. worker[w].todo = Then(Call("stage", d, e), StagedPut(d, e, rest))
    BY <1>3 DEF PutThen
  <2>2. worker'[w].todo = StagedPut(d, e, rest) /\ index' = index /\ content' = content /\ handles' = handles /\ view' = view
    BY <1>2, <2>1, WorkedCall
  <2> QED  BY <1>1, <2>2 DEF ReferLists
<1>4. CASE worker[w].todo = StagedPut(d, e, rest)
  <2>1. worker[w].todo = Then(Call("publish", d, e), Then(Call("insert", d, e), rest))
    BY <1>4 DEF StagedPut
  <2>2. worker'[w].todo = Then(Call("insert", d, e), rest) /\ index' = index /\ content' = content /\ handles' = handles /\ view' = view
    BY <1>2, <2>1, WorkedCall
  <2> QED  BY <1>1, <2>2 DEF ReferLists
<1>5. CASE worker[w].todo = Then(Call("insert", d, e), rest)
  <2>1. /\ worker'[w].todo = rest /\ index' = [index EXCEPT ![d] = e]
        /\ content' = content /\ handles' = handles /\ view' = view
    BY <1>2, <1>5, WorkedCall
  <2> QED  BY <1>1, <2>1
<1> QED  BY <1>1, <1>3, <1>4, <1>5 DEF ReferLists

LEMMA Renaming1 ==
  ASSUME TypeInv, NEW w \in Workers, Works(w), NEW s \in Paths, NEW d \in Paths, s # d, worker[w].to = d,
         Renaming(worker[w].todo, s, d)
  PROVE  Renaming(worker[w].todo, s, d)'
<1>1. worker[w].todo # <<>> /\ DOMAIN index = Paths /\ index[s] \in Entries
  BY Works1 DEF TypeInv, DurableInv, Framed, StoreOK
<1>2. CASE /\ worker[w].todo \in RekeyLists(s, d, index[s]) /\ index[s].kind # "none" /\ Seen(s) = view[s]
           /\ HandlesOn(s, index[s]) /\ HandlesOff(d, index[s])
  <2>1. PICK e \in Entries : e = index[s]
    BY <1>1
  <2>2. /\ content' = content /\ handles' = handles /\ view' = view
        /\ \/ worker'[w].todo \in RekeyLists(s, d, e) /\ index' = index
           \/ /\ worker'[w].todo = IF s \in Baseline THEN Entombed(s) ELSE <<>>
              /\ index' = [index EXCEPT ![d] = e, ![s] = None]
    BY <1>2, <2>1, Rekeys1
  <2>3. HandlesOn(s, e)' /\ HandlesOff(d, e)'
    BY <1>2, <2>1, <2>2 DEF HandlesOn, HandlesOff
  <2>4. CASE worker'[w].todo \in RekeyLists(s, d, e) /\ index' = index
    <3>1. Seen(s)' = view'[s]
      BY <1>2, <2>2, <2>4 DEF Seen
    <3> QED  BY <1>2, <2>1, <2>3, <2>4, <3>1 DEF Renaming, RekeyLists
  <2>5. CASE /\ worker'[w].todo = IF s \in Baseline THEN Entombed(s) ELSE <<>>
             /\ index' = [index EXCEPT ![d] = e, ![s] = None]
    <3>1. index'[d] = e /\ index'[s] = None
      BY <1>1, <2>5
    <3>2. Seen(d)' = Shown(e, d, content)
      BY <2>2, <3>1 DEF Seen
    <3>3. Shown(e, d, content) = Shown(e, s, content)
      BY <1>2, <2>1, ShownAnywhere
    <3>4. Landed(s, d)'
      BY <1>2, <2>1, <2>2, <2>3, <3>1, <3>2, <3>3 DEF Landed, Seen
    <3>5. CASE s \in Baseline
      BY <2>5, <3>1, <3>4, <3>5 DEF Renaming, TombLists
    <3>6. CASE s \notin Baseline
      BY <2>5, <3>1, <3>4, <3>6 DEF Renaming, Away
    <3> QED  BY <3>5, <3>6
  <2> QED  BY <2>2, <2>4, <2>5
<1>3. CASE /\ worker[w].todo \in ReferLists(s, d) /\ s \in Baseline /\ index[s] = None /\ view[s] = [val |-> s, x |-> FALSE]
           /\ HandlesOn(s, None)
  <2>1. /\ content' = content /\ handles' = handles /\ view' = view
        /\ \/ worker'[w].todo \in ReferLists(s, d) /\ index' = index
           \/ worker'[w].todo = Entombed(s) /\ index' = [index EXCEPT ![d] = BaseRef(s, FALSE)]
    BY <1>3, Refers1
  <2>2. CASE worker'[w].todo \in ReferLists(s, d) /\ index' = index
    BY <1>3, <2>1, <2>2 DEF Renaming, HandlesOn, ReferLists
  <2>3. CASE worker'[w].todo = Entombed(s) /\ index' = [index EXCEPT ![d] = BaseRef(s, FALSE)]
    <3>1. index'[s] = None /\ index'[d] = BaseRef(s, FALSE)
      BY <1>1, <1>3, <2>3
    <3>2. Seen(d)' = [val |-> s, x |-> FALSE]
      <4>1. Shown(BaseRef(s, FALSE), d, content') = [val |-> s, x |-> FALSE]
        BY DEF Shown, BaseRef
      <4> QED  BY <3>1, <4>1 DEF Seen
    <3>3. HandlesOn(s, index[d])' /\ HandlesOff(d, index[d])'
      <4>1. \A h \in handles : h.at # s
        BY <1>3 DEF HandlesOn, OfFile, None
      <4>2. BaseRef(s, FALSE).kind # "file"
        BY DEF BaseRef
      <4> QED  BY <2>1, <3>1, <4>1, <4>2 DEF HandlesOn, HandlesOff, OfFile
    <3> QED  BY <1>3, <2>1, <2>3, <3>1, <3>2, <3>3 DEF Renaming, Landed, TombLists
  <2> QED  BY <2>1, <2>2, <2>3
<1>4. CASE worker[w].todo \in TombLists(s) /\ index[s] = None /\ Landed(s, d)
  <2>1. /\ \/ worker'[w].todo \in TombLists(s) /\ index' = index /\ content' = content
           \/ worker'[w].todo = <<>> /\ index' = [index EXCEPT ![s] = Tomb] /\ content' = content
        /\ handles' = handles /\ view' = view
    BY <1>4, Tombs1, PlainEntries, WorksData DEF TypeInv, DurableInv
  <2>2. index'[d] = index[d] /\ content' = content
    BY <1>1, <2>1
  <2>3. Seen(d)' = Seen(d)
    BY <2>2 DEF Seen
  <2>4. Landed(s, d)'
    BY <1>4, <2>1, <2>2, <2>3 DEF Landed, HandlesOn, HandlesOff
  <2>5. CASE worker'[w].todo \in TombLists(s) /\ index' = index
    BY <1>4, <2>4, <2>5 DEF Renaming, TombLists
  <2>6. CASE worker'[w].todo = <<>> /\ index' = [index EXCEPT ![s] = Tomb]
    BY <1>1, <2>4, <2>6 DEF Renaming, Away
  <2> QED  BY <2>1, <2>5, <2>6
<1> QED  BY <1>1, <1>2, <1>3, <1>4 DEF Renaming

\* The inductive invariant: besides the durable and the owned part, what is
\* shown, what is being done, and who may write what.
FaithInv == TypeInv /\ Numbered /\ Owned /\ HeldApart /\ SettledFaithful /\ AllFollow

LEMMA PureApart ==
  ASSUME DurableInv, NEW v \in Workers, Pure(worker[v]), NEW p \in Touch(worker[v])
  PROVE  /\ p \in Paths /\ ~Dirty(p) /\ mark[p] = "clear"
         /\ \A w \in Workers \ {v} : p \notin Touch(worker[w])
         /\ \A q : Together(p, q) => q \in Touch(worker[v])
<1>1. Touch(worker[v]) \subseteq Paths
  BY PathAssumption DEF DurableInv, AllOnNames, OnItsNames, Touch, Idle
<1>2. \A q \in Touch(worker[v]) : mark[q] = "clear"
  BY DEF Pure
<1>3. \A w \in Workers \ {v} : p \notin Touch(worker[w])
  BY <1>2 DEF DurableInv, Apart
<1> QED  BY <1>1, <1>2, <1>3 DEF Dirty, Together

LEMMA SettledApart ==
  ASSUME NEW p \in Paths, Settled(p)
  PROVE  ~Dirty(p) /\ \A q : ~Together(p, q)
BY DEF Settled, Quiet, Dirty, Together

\* A call leaves alone the names that share nothing with its own.
LEMMA CleanKept ==
  ASSUME TypeInv, Owned, NEW w \in Workers, Works(w), NEW p \in Paths, p \notin Touch(worker[w]), ~Dirty(p),
         \A q \in Touch(worker[w]) : ~Together(p, q)
  PROVE  KeptAt(p)
<1>1. Framed /\ AllOnNames
  BY DEF TypeInv, DurableInv
<1>2. sidecar'[p] = sidecar[p] /\ tmp'[p] = tmp[p] /\ index'[p] = index[p] /\ view' = view /\ handles' = handles
  BY <1>1, WorksOnNames, WorksData
<1>3. ASSUME NEW i \in Ids, Claims(p, i), content'[i] # content[i]
      PROVE  FALSE
  <2>1. PICK q \in Paths : q \in Touch(worker[w]) /\ Claims(q, i)
    BY <1>3, BytesClaimed
  <2> QED  BY <1>3, <2>1 DEF Owned
<1> QED  BY <1>2, <1>3 DEF KeptAt

LEMMA WorksFaithful ==
  ASSUME FaithInv, NEW w \in Workers, Works(w)
  PROVE  SettledFaithful' /\ AllFollow'
<1>1. TypeInv /\ Owned /\ DurableInv /\ Framed /\ AllOnNames /\ SettledFaithful /\ AllFollow
  BY DEF FaithInv, TypeInv, DurableInv
<1>2. /\ \A v \in Workers : Touch(worker[v])' = Touch(worker[v]) /\ worker'[v].op = worker[v].op
      /\ \A v \in Workers \ {w} : worker'[v] = worker[v]
      /\ mark' = mark /\ worker'[w].path = worker[w].path /\ worker'[w].to = worker[w].to
  BY <1>1, Works1, WorksOnNames
<1>3. ASSUME NEW p \in Paths, Settled(p)'
      PROVE  Faithful(p)'
  <2>1. Settled(p)
    BY <1>2, <1>3 DEF Settled, Quiet
  <2>2. p \notin Touch(worker[w])
    BY <2>1 DEF Settled, Quiet
  <2>3. KeptAt(p)
    BY <1>1, <2>1, <2>2, SettledApart, CleanKept
  <2>4. Faithful(p)
    BY <1>1, <2>1 DEF SettledFaithful
  <2> QED  BY <1>1, <2>3, <2>4, NameKept
<1>4. ASSUME NEW v \in Workers, Pure(worker[v])'
      PROVE  Follows(worker[v])'
  <2>1. Pure(worker[v]) /\ Follows(worker[v])
    <3>1. Pure(worker[v])
      BY <1>2, <1>4 DEF Pure
    <3> QED  BY <1>1, <3>1 DEF AllFollow
  <2>2. CASE v # w
    <3>1. \A q \in Touch(worker[v]) : KeptAt(q)
      <4> SUFFICES ASSUME NEW q \in Touch(worker[v]) PROVE KeptAt(q)
        OBVIOUS
      <4>1. /\ q \in Paths /\ ~Dirty(q) /\ q \notin Touch(worker[w])
            /\ \A r : Together(q, r) => r \in Touch(worker[v])
        BY <1>1, <2>1, <2>2, PureApart
      <4>2. \A r \in Touch(worker[w]) : r \notin Touch(worker[v])
        BY <1>1, <2>1, <2>2, PureApart
      <4> QED  BY <1>1, <4>1, <4>2, CleanKept
    <3> QED  BY <1>1, <1>2, <2>1, <2>2, <3>1, FollowsKept
  <2>3. CASE v = w
    <3>1. PICK s, d : s = worker[w].path /\ d = worker[w].to
      OBVIOUS
    <3>2. OnItsNames(worker[w]) /\ worker[w].op # "idle" /\ s \in Paths
      BY <1>1, <2>1, <2>3, <3>1 DEF AllOnNames, OnItsNames, Pure
    <3>3. CASE worker[w].op = "rename"
      <4>1. d \in Paths /\ s # d /\ Renaming(worker[w].todo, s, d)
        BY <2>1, <2>3, <3>1, <3>2, <3>3 DEF OnItsNames, Follows
      <4>2. Renaming(worker[w].todo, s, d)'
        BY <1>1, <3>1, <3>2, <4>1, Renaming1
      <4> QED  BY <1>2, <2>3, <3>1, <3>3, <4>2 DEF Follows, OneNameOps, Modifications, Truncations
    <3>4. CASE worker[w].op = "unlink"
      <4>1. Removing(worker[w].todo, s)'
        BY <1>1, <2>1, <2>3, <3>1, <3>2, <3>4, Removing1 DEF Follows
      <4> QED  BY <1>2, <2>3, <3>1, <3>4, <4>1 DEF Follows, OneNameOps, Modifications, Truncations
    <3>5. CASE worker[w].op \in OneNameOps
      <4>1. Changing(worker[w], s)'
        BY <1>1, <2>1, <2>3, <3>1, <3>2, <3>5, Changing1 DEF Follows
      <4> QED  BY <1>2, <2>3, <3>1, <3>5, <4>1 DEF Follows, OneNameOps, Modifications, Truncations
    <3>6. worker[w].op \notin {"rename", "unlink"} \union OneNameOps => Follows(worker[v])'
      BY <1>2, <2>3 DEF Follows
    <3> QED  BY <3>3, <3>4, <3>5, <3>6
  <2> QED  BY <2>2, <2>3
<1> QED  BY <1>3, <1>4 DEF SettledFaithful, AllFollow

\* Where the bytes, the entries and the view stay and no handle comes, names do.
LEMMA AllKept ==
  ASSUME sidecar' = sidecar, tmp' = tmp, index' = index, view' = view, content' = content, handles' \subseteq handles
  PROVE  \A q : KeptAt(q)
BY DEF KeptAt

LEMMA GoneEntry ==
  ASSUME TypeInv, NEW p \in Paths
  PROVE  /\ ~Exists(p) => index[p].kind # "file"
         /\ Exists(p) /\ index[p].kind = "none" => p \in Baseline /\ index[p] = None /\ Seen(p) = [val |-> p, x |-> FALSE]
         /\ Away(p) => Seen(p) = NoSuch
<1>1. index[p] \in Entries /\ content \in [Ids -> Bytes \union {Broken}]
  BY DEF TypeInv, StoreOK
<1>2. index[p].kind = "file" => Seen(p).val \in Bytes \union {Broken}
  BY <1>1, EntryKinds DEF Seen, Shown
<1>3. index[p].kind = "none" => index[p] = None /\ Seen(p) = [val |-> IF p \in Baseline THEN p ELSE Gone, x |-> FALSE]
  BY <1>1, EntryKinds DEF Seen, Shown
<1>4. Away(p) => Seen(p) = NoSuch
  <2>1. CASE index[p] = Tomb
    BY <2>1 DEF Seen, Shown, Tomb, NoSuch
  <2>2. CASE index[p] = None /\ p \notin Baseline
    BY <1>3, <2>2, PlainEntries DEF NoSuch
  <2> QED  BY <2>1, <2>2 DEF Away
<1> QED  BY <1>2, <1>3, <1>4, ByteKinds DEF Exists

\* A callback that starts on settled names.
LEMMA StartFollows ==
  ASSUME FaithInv, NEW c, Starting(c), \A p \in Touch(c) : Settled(p), NEW w \in Workers, worker'[w] = c,
         index' = index, sidecar' = sidecar, tmp' = tmp, content' = content, handles' = handles, view' = view
  PROVE  Follows(worker[w])'
<1>1. PICK p, d : p = c.path /\ d = c.to
  OBVIOUS
<1>2. TypeInv /\ DurableInv /\ Owned /\ SettledFaithful /\ p \in Paths /\ p \in Touch(c)
  BY <1>1, PathAssumption DEF FaithInv, TypeInv, Starting, Touch
<1>3. Settled(p) /\ Faithful(p) /\ AtRest(p) /\ index[p] \in Entries
  BY <1>2 DEF SettledFaithful, DurableInv, SettledIsDurable, AtRest, TypeInv, StoreOK
<1>4. Faithful(p)' /\ AtRest(p)'
  BY <1>3 DEF Faithful, Seen, HandlesOn, AtRest
<1>5. index[p].kind # "file" => \A e : HandlesOn(p, e)'
  BY <1>3 DEF Faithful, HandlesOn, OfFile
<1>6. CASE c.op = "create"
  <2>1. /\ ~Exists(p) /\ c.id = <<pid, seq>> /\ c.todo = CreateFile(p, <<pid, seq>>, c.x, Empty)
    BY <1>1, <1>6 DEF Starting, Modifications, Truncations
  <2>2. PICK i, x : i = <<pid, seq>> /\ x = c.x
    OBVIOUS
  <2>3. PICK a : /\ a.do = "content" /\ a.entry = File(i, x) /\ a.val = Empty
                 /\ CreateFile(p, i, x, Empty) = Then(a, PutThen(p, File(i, x), <<>>))
    BY CreateList
  <2>4. OfFile(a.entry, i) /\ a.entry.x = x
    BY <2>3 DEF OfFile, File
  <2>5. Yields(worker[w], p, a.entry)'
    BY <1>2, <1>5, <2>1, <2>2, <2>4, GoneEntry DEF Yields
  <2>6. Owed(worker[w], view[p])' = [val |-> a.val, x |-> a.entry.x]
    BY <1>6, <2>2, <2>3, <2>4 DEF Owed, Truncations
  <2>7. worker'[w].todo = Then(a, PutThen(p, a.entry, <<>>)) /\ index'[p].kind # "file"
    BY <1>2, <2>1, <2>2, <2>3, GoneEntry
  <2>8. Changing(worker[w], p)'
    BY <1>4, <2>3, <2>5, <2>6, <2>7 DEF Changing
  <2> QED  BY <1>1, <1>6, <2>8 DEF Follows
<1>7. CASE c.op = "symlink"
  <2>1. ~Exists(p) /\ c.todo = Put(p, Symlink)
    BY <1>1, <1>7 DEF Starting, Modifications, Truncations
  <2>2. c.todo = PutThen(p, Symlink, <<>>)
    BY <2>1, PutList, EmptyList
  <2>3. Yields(worker[w], p, Symlink)'
    BY <1>2, <1>5, <1>7, <2>1, GoneEntry DEF Yields, Opening
  <2>4. Shown(Symlink, p, content') = Owed(worker[w], view[p])'
    <3>1. Shown(Symlink, p, content') = [val |-> Empty, x |-> FALSE]
      BY DEF Shown, Symlink
    <3>2. Owed(worker[w], view[p])' = [val |-> Empty, x |-> FALSE]
      BY <1>7 DEF Owed, Truncations
    <3> QED  BY <3>1, <3>2
  <2>5. Readying(worker[w].todo, p, Symlink)'
    BY <1>4, <2>2 DEF Readying
  <2>6. Changing(worker[w], p)'
    BY <1>4, <2>3, <2>4, <2>5, PlainEntries DEF Changing
  <2> QED  BY <1>1, <1>7, <2>6 DEF Follows
<1>8. CASE c.op = "unlink"
  <2>1. c.todo = UnlinkCalls(p)
    BY <1>1, <1>8 DEF Starting, Modifications, Truncations
  <2>2. Removing(c.todo, p)'
    BY <2>1, RemovalLists DEF UnlinkCalls, Removing, TombLists, ClearLists, Clearing
  <2> QED  BY <1>1, <1>8, <2>2 DEF Follows, OneNameOps, Modifications, Truncations
<1>9. CASE c.op = "rename"
  <2>1. d \in Paths /\ d # p /\ Exists(p) /\ c.todo = RenameCalls(p, d)
    BY <1>1, <1>9 DEF Starting, Modifications, Truncations
  <2>2. d \in Touch(c) /\ Settled(d) /\ Faithful(d)
    BY <1>1, <1>2, <2>1, PathAssumption DEF Touch, SettledFaithful
  <2>3. CASE index[p].kind # "none"
    <3>1. c.todo \in RekeyLists(p, d, index[p])
      BY <1>2, <2>1, <2>3, TwoNames DEF RekeyLists
    <3>2. HandlesOff(d, index[p])
      <4> SUFFICES ASSUME NEW h \in handles, h.at = d, OfFile(index[p], h.id) PROVE FALSE
        BY DEF HandlesOff
      <4>1. Claims(d, h.id) /\ Claims(p, h.id)
        BY <2>2 DEF Faithful, HandlesOn, Claims
      <4>2. ~Dirty(p) /\ ~Together(p, d)
        BY <1>2, <1>3, SettledApart
      <4> QED  BY <1>2, <2>1, <4>1, <4>2 DEF Owned
    <3>3. Renaming(c.todo, p, d)'
      BY <1>3, <2>3, <3>1, <3>2 DEF Renaming, RekeyLists, Faithful, Seen, HandlesOn, HandlesOff
    <3> QED  BY <1>1, <1>9, <3>3 DEF Follows, OneNameOps, Modifications, Truncations
  <2>4. CASE index[p].kind = "none"
    <3>1. c.todo \in ReferLists(p, d)
      BY <1>2, <2>1, <2>4, TwoNames DEF ReferLists
    <3>2. p \in Baseline /\ index[p] = None /\ view[p] = [val |-> p, x |-> FALSE]
      BY <1>2, <1>3, <2>1, <2>4, GoneEntry DEF Faithful
    <3>3. HandlesOn(p, None)'
      BY <1>5, <2>4
    <3>4. Renaming(c.todo, p, d)'
      BY <3>1, <3>2, <3>3 DEF Renaming, ReferLists
    <3> QED  BY <1>1, <1>9, <3>4 DEF Follows, OneNameOps, Modifications, Truncations
  <2> QED  BY <2>3, <2>4
<1>10. CASE c.op \in Modifications
  <2>1. c.todo = Then(Call("look", p, None), <<>>)
    BY <1>1, <1>10 DEF Starting, Modifications, Truncations
  <2>2. Changing(worker[w], p)'
    BY <1>4, <1>10, <2>1 DEF Changing, Finding
  <2> QED  BY <1>1, <1>10, <2>2 DEF Follows, Modifications, Truncations
<1> QED  BY <1>6, <1>7, <1>8, <1>9, <1>10 DEF Starting

LEMMA BeginFaithful ==
  ASSUME FaithInv, NEW w \in Workers, NEW c, Begin(w, c), Starting(c)
  PROVE  SettledFaithful' /\ AllFollow'
<1>1. TypeInv /\ DurableInv /\ SettledFaithful /\ AllFollow
  BY DEF FaithInv, TypeInv
<1>2. /\ worker[w] = Idle /\ worker'[w] = c /\ \A v \in Workers \ {w} : worker'[v] = worker[v]
      /\ Touch(worker[w]) = {} /\ Touch(worker[w])' = Touch(c)
      /\ \A v \in Workers \ {w} : Touch(worker[v])' = Touch(worker[v])
      /\ \A v \in Workers : Touch(worker[v]) \subseteq Paths
      /\ \A q \in Paths : mark[q] # "clear" => mark'[q] # "clear"
      /\ \A v \in Workers : Touch(worker[v]) \intersect Touch(c) # {} =>
           \A q \in Paths : q \in Touch(worker[v]) \union Touch(c) => mark'[q] = "raced"
  BY <1>1, BeginMeets
<1>3. /\ index' = index /\ sidecar' = sidecar /\ tmp' = tmp /\ content' = content /\ handles' = handles /\ view' = view
  BY DEF Begin, diskVars
<1>4. \A q : KeptAt(q)
  BY <1>3, AllKept
<1>5. ASSUME NEW p \in Paths, Settled(p)'
      PROVE  Faithful(p)'
  <2>1. Settled(p)
    BY <1>2, <1>5 DEF Settled, Quiet
  <2> QED  BY <1>1, <1>4, <2>1, NameKept DEF SettledFaithful
<1>6. ASSUME NEW v \in Workers \ {w}, Pure(worker[v])'
      PROVE  Follows(worker[v])'
  <2>1. Pure(worker[v])
    BY <1>2, <1>6 DEF Pure
  <2>2. Follows(worker[v])
    BY <1>1, <2>1 DEF AllFollow
  <2> QED  BY <1>1, <1>2, <1>4, <2>2, FollowsKept
<1>7. ASSUME Pure(worker[w])'
      PROVE  Follows(worker[w])'
  <2>1. Touch(c) \subseteq Paths
    BY PathAssumption DEF Starting, Touch, Modifications, Truncations
  <2>2. \A q \in Touch(c) : mark'[q] = "clear"
    BY <1>2, <1>7 DEF Pure
  <2>3. \A q \in Touch(c) : Settled(q)
    BY <1>2, <2>1, <2>2 DEF Settled, Quiet
  <2> QED  BY <1>2, <1>3, <2>3, StartFollows
<1> QED  BY <1>5, <1>6, <1>7 DEF SettledFaithful, AllFollow

LEMMA HeadOf ==
  ASSUME NEW do, NEW p, NEW e, NEW rest, IsList(rest), NEW t, t = Then(Call(do, p, e), rest)
  PROVE  t # <<>> /\ Head(t).do = do
BY ThenParts, CallFields

LEMMA ChangingEnds ==
  ASSUME NEW c, NEW p, Changing(c, p)
  PROVE  /\ c.todo = <<>> => AtRest(p) /\ Seen(p) = Owed(c, view[p]) /\ Yields(c, p, index[p])
         /\ c.todo # <<>> /\ Head(c.todo).do \in Finding => Faithful(p)
<1>1. IsList(<<>>)
  BY EmptyList
<1>2. ASSUME NEW a, a.do = "content", c.todo = Then(a, PutThen(p, a.entry, <<>>))
      PROVE  c.todo # <<>> /\ Head(c.todo).do \notin Finding
  BY <1>1, <1>2, ThenParts, AllLists DEF Finding
<1>3. ASSUME NEW e, Readying(c.todo, p, e)
      PROVE  c.todo # <<>> /\ Head(c.todo).do \notin Finding
  <2>1. IsList(StagedPut(p, e, <<>>)) /\ IsList(Then(Call("insert", p, e), <<>>))
    BY <1>1, AllLists
  <2>2. \E do \in {"stage", "publish", "insert"} : \E r : IsList(r) /\ c.todo = Then(Call(do, p, e), r)
    BY <1>1, <1>3, <2>1 DEF Readying, PutThen, StagedPut
  <2> QED  BY <2>2, HeadOf DEF Finding
<1>4. ASSUME NEW do, c.todo = Then(Call(do, p, None), <<>>)
      PROVE  c.todo # <<>>
  BY <1>1, <1>4, ThenParts
<1> QED  BY <1>2, <1>3, <1>4 DEF Changing

LEMMA RemovingEnds ==
  ASSUME NEW t, NEW p, Removing(t, p)
  PROVE  /\ t = <<>> => Away(p)
         /\ t # <<>> => Head(t).do \notin Finding
<1>1. /\ IsList(<<>>) /\ IsList(PutThen(p, Tomb, <<>>)) /\ IsList(StagedPut(p, Tomb, <<>>))
      /\ IsList(Then(Call("insert", p, Tomb), <<>>)) /\ IsList(Then(Call("insert", p, None), <<>>)) /\ IsList(Clearing(p))
  BY AllLists, EmptyList, ThenParts DEF Clearing
<1>2. ASSUME t \in TombLists(p) \union ClearLists(p)
      PROVE  t # <<>> /\ Head(t).do \notin Finding
  <2>1. \E do \in {"drop", "stage", "publish", "insert", "unpersist"} : \E e, r : IsList(r) /\ t = Then(Call(do, p, e), r)
    BY <1>1, <1>2 DEF TombLists, ClearLists, Entombed, PutThen, StagedPut, Clearing
  <2> QED  BY <2>1, HeadOf DEF Finding
<1> QED  BY <1>2 DEF Removing

\* The other callbacks and the settled names, when one callback ends.
LEMMA EndsFaithful ==
  ASSUME FaithInv, NEW w \in Workers, worker' = [worker EXCEPT ![w] = Idle],
         \A p \in Paths : mark[p] = "clear" \/ mark'[p] # "clear",
         \A q \in Paths \ Touch(worker[w]) : KeptAt(q),
         \A p \in Touch(worker[w]) : mark'[p] = "clear" => Faithful(p)'
  PROVE  SettledFaithful' /\ AllFollow'
<1>1. TypeInv /\ DurableInv /\ SettledFaithful /\ AllFollow
  BY DEF FaithInv, TypeInv
<1>2. worker'[w] = Idle /\ \A v \in Workers \ {w} : worker'[v] = worker[v]
  BY <1>1 DEF DurableInv, Framed
<1>3. ASSUME NEW p \in Paths, Settled(p)'
      PROVE  Faithful(p)'
  <2>1. CASE p \in Touch(worker[w])
    BY <1>3, <2>1 DEF Settled
  <2>2. CASE p \notin Touch(worker[w])
    <3>1. \A v \in Workers \ {w} : Touch(worker[v])' = Touch(worker[v])
      BY <1>2 DEF Touch
    <3>2. Settled(p)
      BY <1>3, <2>2, <3>1 DEF Settled, Quiet
    <3>3. Faithful(p) /\ KeptAt(p)
      BY <1>1, <2>2, <3>2 DEF SettledFaithful
    <3> QED  BY <1>1, <3>3, NameKept
  <2> QED  BY <2>1, <2>2
<1>4. ASSUME NEW v \in Workers, Pure(worker[v])'
      PROVE  Follows(worker[v])'
  <2>1. v # w /\ worker'[v] = worker[v]
    BY <1>2, <1>4 DEF Pure, Idle
  <2>2. Touch(worker[v]) \subseteq Paths
    BY <1>1, PathAssumption DEF DurableInv, AllOnNames, OnItsNames, Touch, Idle
  <2>3. Pure(worker[v])
    BY <1>4, <2>1, <2>2 DEF Pure, Touch
  <2>4. Follows(worker[v])
    BY <1>1, <2>3 DEF AllFollow
  <2>5. \A q \in Touch(worker[v]) : KeptAt(q)
    BY <1>1, <2>1, <2>3, PureApart
  <2> QED  BY <1>1, <2>1, <2>4, <2>5, FollowsKept
<1> QED  BY <1>3, <1>4 DEF SettledFaithful, AllFollow

LEMMA FailFaithful ==
  ASSUME FaithInv, NEW w \in Workers, Fail(w) \/ ModifyFails(w)
  PROVE  SettledFaithful' /\ AllFollow'
<1>1. /\ worker' = [worker EXCEPT ![w] = Idle] /\ content' = content /\ view' = view /\ handles' = handles
      /\ sidecar' = sidecar /\ tmp' = tmp /\ index' = index
  BY DEF Fail, ModifyFails, diskVars, ghosts
<1>2. /\ TypeInv /\ DurableInv /\ SettledFaithful /\ AllFollow /\ OnItsNames(worker[w]) /\ Touch(worker[w]) \subseteq Paths
  <2>1. TypeInv /\ DurableInv /\ SettledFaithful /\ AllFollow /\ OnItsNames(worker[w])
    BY DEF FaithInv, TypeInv, DurableInv, AllOnNames
  <2> QED  BY <2>1, PathAssumption DEF OnItsNames, Touch, Idle
<1>3. \A q : KeptAt(q)
  BY <1>1, AllKept
<1>4. CASE Fail(w)
  <2>1. /\ \A p \in Paths : mark[p] = "clear" \/ mark'[p] # "clear"
        /\ \A p \in Touch(worker[w]) : mark'[p] # "clear"
    BY <1>2, <1>4 DEF Fail, Cut
  <2> QED  BY <1>1, <1>3, <2>1, EndsFaithful
<1>5. CASE ModifyFails(w)
  <2>1. mark' = mark /\ worker[w].todo # <<>> /\ Head(worker[w].todo).do \in Finding
    BY <1>5 DEF ModifyFails, Does, Next1, ghosts, Finding
  <2>2. PICK p \in Paths : p = worker[w].path /\ Touch(worker[w]) = {p} /\ worker[w].op \notin {"idle", "rename"}
    BY <1>2, <2>1, AtFront
  <2>3. ASSUME mark[p] = "clear" PROVE Faithful(p)
    <3>1. Follows(worker[w])
      BY <1>2, <2>2, <2>3 DEF AllFollow, Pure
    <3>2. worker[w].op = "unlink" => Removing(worker[w].todo, p)
      BY <2>2, <3>1 DEF Follows
    <3>3. worker[w].op # "unlink"
      BY <2>1, <3>2, RemovingEnds
    <3>4. worker[w].op \in OneNameOps
      BY <1>2, <2>2, <3>3, OpAssumption DEF TypeInv, CallOK, OneNameOps, Callbacks, NamespaceOps
    <3>5. Changing(worker[w], p)
      BY <2>2, <3>1, <3>4 DEF Follows
    <3> QED  BY <2>1, <3>5, ChangingEnds
  <2>4. mark'[p] = "clear" => Faithful(p)'
    BY <1>2, <1>3, <2>1, <2>3, NameKept
  <2> QED  BY <1>1, <1>3, <2>1, <2>2, <2>4, EndsFaithful
<1> QED  BY <1>4, <1>5

LEMMA LeftoverFaithful ==
  ASSUME FaithInv, NEW w \in Workers, UnpersistFails(w)
  PROVE  SettledFaithful' /\ AllFollow'
<1>1. TypeInv /\ Framed /\ AllOnNames /\ SettledFaithful /\ AllFollow
  BY DEF FaithInv, TypeInv, DurableInv
<1>2. /\ \A v \in Workers \ {w} : worker'[v] = worker[v]
      /\ worker'[w].op = worker[w].op /\ worker'[w].path = worker[w].path
      /\ \A v \in Workers : Touch(worker[v])' = Touch(worker[v])
      /\ sidecar' = sidecar /\ tmp' = tmp /\ index' = index /\ content' = content /\ handles' = handles /\ view' = view
      /\ \A q \in Paths : mark[q] = "clear" \/ mark'[q] # "clear"
      /\ \A q \in Touch(worker[w]) : mark'[q] # "clear"
  BY <1>1, Leftover
<1>3. \A q : KeptAt(q)
  BY <1>2, AllKept
<1>4. ASSUME NEW p \in Paths, Settled(p)'
      PROVE  Faithful(p)'
  <2>1. Settled(p)
    BY <1>2, <1>4 DEF Settled, Quiet
  <2> QED  BY <1>1, <1>3, <2>1, NameKept DEF SettledFaithful
<1>5. ASSUME NEW v \in Workers, Pure(worker[v])'
      PROVE  Follows(worker[v])'
  <2>1. \A u \in Workers : Touch(worker[u]) \subseteq Paths /\ (worker[u].op # "idle" => worker[u].path \in Touch(worker[u]))
    BY PathAssumption, <1>1 DEF AllOnNames, OnItsNames, Touch, Idle
  <2>2. v # w
    BY <1>2, <1>5, <2>1 DEF Pure
  <2>3. Pure(worker[v])
    BY <1>2, <1>5, <2>1, <2>2 DEF Pure
  <2>4. Follows(worker[v])
    BY <1>1, <2>3 DEF AllFollow
  <2> QED  BY <1>1, <1>2, <1>3, <2>2, <2>4, FollowsKept
<1> QED  BY <1>4, <1>5 DEF SettledFaithful, AllFollow

LEMMA ReplyFaithful ==
  ASSUME FaithInv, NEW w \in Workers, Reply(w)
  PROVE  SettledFaithful' /\ AllFollow'
<1> DEFINE c == worker[w]
<1>0. PICK p, d : p = c.path /\ d = c.to
  OBVIOUS
<1>1. /\ worker' = [worker EXCEPT ![w] = Idle] /\ c.op # "idle" /\ c.todo = <<>> /\ view' = After(c)
      /\ handles' = {Follow(h, c) : h \in handles} \union (IF c.op \in Opening THEN {[id |-> c.id, at |-> p]} ELSE {})
      /\ sidecar' = sidecar /\ tmp' = tmp /\ index' = index /\ content' = content
      /\ mark' = [q \in Paths |->
           IF q \notin Touch(c) THEN mark[q]
           ELSE IF \E r \in Touch(c) : mark[r] = "raced" THEN "raced"
           ELSE IF \E r \in Touch(c) : mark[r] # "clear" THEN "healed"
           ELSE mark[q]]
  BY <1>0 DEF Reply, diskVars
<1>2. TypeInv /\ DurableInv /\ StoreOK /\ AllFollow /\ OnItsNames(c) /\ CallOK(c)
  BY DEF FaithInv, TypeInv, DurableInv, AllOnNames
<1>3. /\ p \in Paths /\ p \in Touch(c) /\ Touch(c) \subseteq Paths
      /\ c.op = "rename" => d \in Paths /\ d # p /\ Touch(c) = {p, d}
      /\ c.op # "rename" => d = NoPath /\ Touch(c) = {p}
  BY <1>0, <1>1, <1>2, PathAssumption DEF OnItsNames, Touch
<1>4. c.op \in {"rename", "unlink"} \union OneNameOps
  BY <1>1, <1>2, OpAssumption DEF CallOK, OneNameOps, Callbacks, NamespaceOps
<1>5. /\ c.op \in OneNameOps => view' = [view EXCEPT ![p] = Owed(c, view[p])]
      /\ c.op = "unlink" => view' = [view EXCEPT ![p] = NoSuch]
      /\ c.op = "rename" => view' = [view EXCEPT ![d] = view[p], ![p] = NoSuch]
      /\ DOMAIN view = Paths
  BY <1>0, <1>1, <1>2, <1>3, AfterIs DEF CallOK, StoreOK
<1>6. /\ \A q \in Paths : mark[q] = "clear" \/ mark'[q] # "clear"
      /\ \A q \in Touch(c) : mark'[q] = "clear" => \A r \in Touch(c) : mark[r] = "clear"
  BY <1>1, <1>3
\* Where a handle comes from.
<1>7. ASSUME NEW g \in handles', NEW q \in Paths, g.at = q
      PROVE  \/ g \in handles /\ (q \in Touch(c) => c.op \notin {"unlink", "rename"})
             \/ c.op = "rename" /\ q = d /\ \E h \in handles : h.at = p /\ h.id = g.id
             \/ c.op \in Opening /\ q = p /\ g.id = c.id
  <2>1. CASE c.op \in Opening /\ g = [id |-> c.id, at |-> p]
    BY <1>7, <2>1
  <2>2. ASSUME NEW h \in handles, g = Follow(h, c)
        PROVE  \/ g \in handles /\ (q \in Touch(c) => c.op \notin {"unlink", "rename"})
               \/ c.op = "rename" /\ q = d /\ \E h_1 \in handles : h_1.at = p /\ h_1.id = g.id
    <3>1. /\ Follow(h, c).id = h.id
          /\ Follow(h, c).at =
              IF c.op \in {"unlink", "rename"} /\ h.at = p THEN d
              ELSE IF c.op = "rename" /\ h.at = d THEN NoPath ELSE h.at
      BY <1>0, <1>2, HandleFields
    <3>2. CASE c.op \in {"unlink", "rename"} /\ h.at = p
      BY <1>3, <1>7, <2>2, <3>1, <3>2, PathAssumption
    <3>3. CASE c.op = "rename" /\ h.at = d
      BY <1>3, <1>7, <2>2, <3>1, <3>3, PathAssumption
    <3>4. CASE ~(c.op \in {"unlink", "rename"} /\ h.at = p) /\ ~(c.op = "rename" /\ h.at = d)
      <4>1. g = h
        BY <1>0, <2>2, <3>4 DEF Follow
      <4> QED  BY <1>3, <1>7, <3>4, <4>1
    <3> QED  BY <3>2, <3>3, <3>4
  <2> QED  BY <1>1, <1>7, <2>1, <2>2
<1>8. ASSUME NEW q \in Paths \ Touch(c)
      PROVE  KeptAt(q)
  <2>1. view'[q] = view[q]
    BY <1>3, <1>4, <1>5, <1>8
  <2>2. \A g \in handles' : g.at = q => g \in handles
    BY <1>3, <1>7, <1>8
  <2> QED  BY <1>1, <2>1, <2>2 DEF KeptAt
<1>9. ASSUME NEW q \in Touch(c), mark'[q] = "clear"
      PROVE  Faithful(q)'
  <2>1. Follows(c)
    BY <1>1, <1>2, <1>6, <1>9 DEF AllFollow, Pure
  <2>2. Seen(q)' = Seen(q)
    BY <1>1 DEF Seen
  <2>3. CASE c.op \in OneNameOps
    <3>1. q = p /\ Changing(c, p) /\ c.op \notin {"unlink", "rename"}
      BY <1>0, <1>3, <1>9, <2>1, <2>3 DEF Follows, OneNameOps, Modifications, Truncations
    <3>2. Seen(p) = Owed(c, view[p]) /\ Yields(c, p, index[p])
      BY <1>1, <3>1, ChangingEnds
    <3>3. view'[p] = Owed(c, view[p])
      BY <1>3, <1>5, <2>3
    <3>4. HandlesOn(p, index[p])'
      BY <1>1, <1>3, <1>7, <3>1, <3>2 DEF HandlesOn, Yields
    <3> QED  BY <2>2, <3>1, <3>2, <3>3, <3>4 DEF Faithful
  <2>4. CASE c.op = "unlink"
    <3>1. q = p /\ Away(p)
      BY <1>0, <1>1, <1>3, <1>9, <2>1, <2>4, RemovingEnds DEF Follows
    <3>2. Seen(p) = NoSuch /\ view'[p] = NoSuch
      BY <1>2, <1>3, <1>5, <2>4, <3>1, GoneEntry
    <3>3. HandlesOn(p, index[p])'
      BY <1>3, <1>7, <2>4 DEF HandlesOn, Opening, Truncations
    <3> QED  BY <2>2, <3>1, <3>2, <3>3 DEF Faithful
  <2>5. CASE c.op = "rename"
    <3>1. Away(p) /\ Landed(p, d)
      <4>1. Renaming(c.todo, p, d)
        BY <1>0, <2>1, <2>5 DEF Follows
      <4> QED  BY <1>1, <4>1, Unfinished DEF Renaming
    <3>2. CASE q = p
      <4>1. Seen(p) = NoSuch /\ view'[p] = NoSuch
        BY <1>2, <1>3, <1>5, <2>5, <3>1, GoneEntry
      <4>2. HandlesOn(p, index[p])'
        BY <1>3, <1>7, <2>5 DEF HandlesOn, Opening, Truncations
      <4> QED  BY <2>2, <3>2, <4>1, <4>2 DEF Faithful
    <3>3. CASE q = d
      <4>1. view'[d] = view[p] /\ Seen(d) = view[p]
        BY <1>3, <1>5, <2>5, <3>1 DEF Landed
      <4>2. HandlesOn(d, index[d])'
        BY <1>1, <1>3, <1>7, <2>5, <3>1 DEF HandlesOn, Landed, Opening, Truncations, OfFile
      <4> QED  BY <2>2, <3>3, <4>1, <4>2 DEF Faithful
    <3> QED  BY <1>3, <1>9, <2>5, <3>2, <3>3
  <2> QED  BY <1>4, <2>3, <2>4, <2>5
<1> QED  BY <1>1, <1>6, <1>8, <1>9, EndsFaithful

\* A write through a handle on p's content shows at p.
LEMMA WriteShows ==
  ASSUME TypeInv, NEW h \in handles, Write(h), NEW p \in Paths, h.at = p, NEW e \in Entries, OfFile(e, h.id),
         Shown(e, p, content) = view[p]
  PROVE  Shown(e, p, content') = view'[p]
<1>1. h.id \in Ids /\ content \in [Ids -> Bytes \union {Broken}] /\ view \in [Paths -> Views]
  BY DEF TypeInv, StoreOK
<1>2. p # NoPath
  BY PathAssumption
<1>3. view[p] = [val |-> content[h.id], x |-> e.x]
  BY DEF Shown, OfFile
<1>4. content[h.id] # Broken
  <2>1. view[p].val \in Bytes \union {Gone}
    BY <1>1 DEF Views
  <2> QED  BY <1>3, <2>1, ByteKinds
<1>5. content'[h.id] = writes + 1 /\ view'[p] = [val |-> writes + 1, x |-> e.x]
  BY <1>1, <1>2, <1>3, <1>4 DEF Write
<1> QED  BY <1>5 DEF Shown, OfFile

LEMMA WriteFaithful ==
  ASSUME FaithInv, NEW h \in handles, Write(h)
  PROVE  SettledFaithful' /\ AllFollow'
<1>1. /\ TypeInv /\ DurableInv /\ HeldApart /\ SettledFaithful /\ AllFollow
      /\ content \in [Ids -> Bytes \union {Broken}] /\ view \in [Paths -> Views] /\ index \in [Paths -> Entries]
  BY DEF FaithInv, TypeInv, StoreOK
<1>2. /\ sidecar' = sidecar /\ tmp' = tmp /\ index' = index /\ worker' = worker /\ handles' = handles /\ mark' = mark
      /\ \A i \in Ids : i # h.id => content'[i] = content[i]
      /\ \A q \in Paths : q # h.at => view'[q] = view[q]
      /\ \A w \in Workers : Locked(worker[w]) => h.at \notin Touch(worker[w])
  BY <1>1 DEF Write, memVars
<1>3. ASSUME NEW q \in Paths, q # h.at, ~Dirty(q), ~Together(q, h.at)
      PROVE  KeptAt(q)
  <2>1. ~Claims(q, h.id)
    <3>1. Holds(h.id, h.at) /\ h.id \in Ids
      BY <1>1 DEF Holds, TypeInv, StoreOK
    <3> QED  BY <1>1, <1>3, <3>1 DEF HeldApart
  <2> QED  BY <1>2, <1>3, <2>1 DEF KeptAt
<1>4. ASSUME NEW q \in Paths, q = h.at, Faithful(q)
      PROVE  Faithful(q)'
  <2>1. OfFile(index[q], h.id) /\ index[q] \in Entries
    BY <1>1, <1>4 DEF Faithful, HandlesOn
  <2>2. Shown(index[q], q, content') = view'[q]
    BY <1>1, <1>4, <2>1, WriteShows DEF Faithful, Seen
  <2> QED  BY <1>2, <1>4, <2>2 DEF Faithful, Seen, HandlesOn
<1>5. ASSUME NEW q \in Paths, Settled(q)'
      PROVE  Faithful(q)'
  <2>1. Settled(q)
    BY <1>2, <1>5 DEF Settled, Quiet
  <2>2. Faithful(q)
    BY <1>1, <2>1 DEF SettledFaithful
  <2>3. CASE q # h.at
    BY <1>1, <1>3, <2>1, <2>2, <2>3, NameKept, SettledApart
  <2> QED  BY <1>4, <2>2, <2>3
<1>6. ASSUME NEW v \in Workers, Pure(worker[v])'
      PROVE  Follows(worker[v])'
  <2>1. Pure(worker[v]) /\ Follows(worker[v]) /\ worker'[v] = worker[v]
    <3>1. Pure(worker[v])
      BY <1>2, <1>6 DEF Pure
    <3> QED  BY <1>1, <1>2, <3>1 DEF AllFollow
  <2>2. CASE h.at \notin Touch(worker[v])
    <3>1. \A q \in Touch(worker[v]) : KeptAt(q)
      BY <1>1, <1>3, <2>1, <2>2, PureApart
    <3> QED  BY <1>1, <2>1, <3>1, FollowsKept
  <2>3. CASE h.at \in Touch(worker[v])
    <3> DEFINE c == worker[v]
    <3>1. PICK p : p = h.at
      OBVIOUS
    <3>2. c.op = "open" /\ p \in Paths /\ c.path = p
      <4>1. c.op = "open"
        BY <1>2, <2>1, <2>3 DEF Locked, Pure
      <4>2. OnItsNames(c)
        BY <1>1 DEF DurableInv, AllOnNames
      <4> QED  BY <2>3, <3>1, <4>1, <4>2 DEF OnItsNames, Touch
    <3>3. Changing(c, p)
      BY <2>1, <3>2 DEF Follows, OneNameOps, Modifications
    <3>4. \A u : Owed(c, u) = u
      BY <3>2 DEF Owed, Truncations
    <3>5. /\ \A e : Yields(c, p, e) => Yields(worker[v], p, e)' /\ HandlesOn(p, e)
          /\ \A e : HandlesOn(p, e) => OfFile(e, h.id)
          /\ \A u : Owed(worker[v], u)' = u
      BY <1>2, <2>1, <3>1, <3>4 DEF Yields, HandlesOn, Owed
    <3>6. CASE c.todo = <<>> /\ AtRest(p) /\ Seen(p) = Owed(c, view[p]) /\ Yields(c, p, index[p])
      <4>1. Seen(p)' = view'[p]
        <5>1. Shown(index[p], p, content) = view[p] /\ OfFile(index[p], h.id) /\ index[p] \in Entries
          BY <1>1, <3>2, <3>4, <3>5, <3>6 DEF Seen
        <5>2. Shown(index[p], p, content') = view'[p]
          BY <1>1, <3>1, <3>2, <5>1, WriteShows
        <5> QED  BY <1>2, <5>2 DEF Seen
      <4>2. Changing(worker[v], p)'
        BY <1>2, <2>1, <3>5, <3>6, <4>1 DEF Changing, AtRest
      <4> QED  BY <2>1, <3>2, <4>2 DEF Follows
    <3>7. CASE Faithful(p)
      <4>1. Faithful(p)' /\ OfFile(index[p], h.id)
        BY <1>4, <3>1, <3>2, <3>7 DEF Faithful, HandlesOn
      <4>2. index[p].kind = "file"
        BY <4>1 DEF OfFile
      <4>3. ASSUME c.op \in Modifications, AtRest(p),
                   \E do \in Finding : (do = "openContent" => c.op # "chmod") /\ c.todo = Then(Call(do, p, None), <<>>)
            PROVE  Changing(worker[v], p)'
        BY <1>2, <2>1, <4>1, <4>3 DEF Changing, AtRest
      <4>4. ASSUME NEW e \in Entries, Readying(c.todo, p, e), Shown(e, p, content) = Owed(c, view[p]), Yields(c, p, e)
            PROVE  Changing(worker[v], p)'
        <5>1. OfFile(e, h.id) /\ Shown(e, p, content) = view[p]
          BY <3>4, <3>5, <4>4
        <5>2. Shown(e, p, content') = view'[p]
          BY <1>1, <3>1, <3>2, <5>1, WriteShows
        <5>3. Readying(worker[v].todo, p, e)'
          BY <1>2, <2>1, <4>4 DEF Readying, AtRest
        <5>4. Yields(worker[v], p, e)'
          BY <3>5, <4>4
        <5> QED  BY <3>5, <4>1, <5>2, <5>3, <5>4 DEF Changing
      <4>5. \/ Changing(worker[v], p)'
            \/ c.todo = <<>> /\ AtRest(p) /\ Seen(p) = Owed(c, view[p]) /\ Yields(c, p, index[p])
        <5> HIDE DEF c
        <5>1. ASSUME NEW e \in Entries, Readying(c.todo, p, e), Shown(e, p, content) = Owed(c, view[p]), Yields(c, p, e)
              PROVE  Changing(worker[v], p)'
          BY <4>4, <5>1
        <5> QED  BY <3>3, <4>2, <4>3, <5>1 DEF Changing
      <4>6. CASE Changing(worker[v], p)'
        BY <2>1, <3>2, <4>6 DEF Follows
      <4> QED  BY <3>6, <4>5, <4>6
    <3> QED  BY <3>3, <3>6, <3>7 DEF Changing
  <2> QED  BY <2>2, <2>3
<1> QED  BY <1>5, <1>6 DEF SettledFaithful, AllFollow

\* A step that only drops handles, or none.
LEMMA RestFaithful ==
  ASSUME FaithInv, sidecar' = sidecar, tmp' = tmp, index' = index, view' = view, content' = content,
         handles' \subseteq handles, worker' = worker, mark' = mark
  PROVE  SettledFaithful' /\ AllFollow'
<1>1. TypeInv /\ SettledFaithful /\ AllFollow /\ \A q : KeptAt(q)
  BY AllKept DEF FaithInv
<1>2. ASSUME NEW p \in Paths, Settled(p)'
      PROVE  Faithful(p)'
  <2>1. Settled(p)
    BY <1>2 DEF Settled, Quiet
  <2> QED  BY <1>1, <2>1, NameKept DEF SettledFaithful
<1>3. ASSUME NEW v \in Workers, Pure(worker[v])'
      PROVE  Follows(worker[v])'
  <2>1. Pure(worker[v])
    BY <1>3 DEF Pure
  <2> QED  BY <1>1, <2>1, FollowsKept DEF AllFollow
<1> QED  BY <1>2, <1>3 DEF SettledFaithful, AllFollow

\* A restart reads a name at rest back as it was.
LEMMA RestartReads ==
  ASSUME TypeInv, Losses = {}, Restart
  PROVE  /\ content' = content /\ sidecar' = sidecar /\ view' = view /\ handles' = {}
         /\ \A p \in Paths : index'[p] = sidecar[p] \/ (tmp[p] # None /\ index'[p] = tmp[p])
         /\ \A p \in Paths : AtRest(p) => index'[p] = index[p]
<1>1. content' = [i \in Ids |-> content[i]] /\ sidecar' = [p \in Paths |-> sidecar[p]] /\ view' = view /\ handles' = {}
  BY DEF Restart
<1>2. content' = content /\ sidecar' = sidecar
  BY <1>1 DEF TypeInv, StoreOK
<1>3. \E staged \in SUBSET {p \in Paths : tmp[p] # None} : index' = [p \in Paths |-> IF p \in staged THEN tmp[p] ELSE sidecar'[p]]
  BY DEF Restart, Replay
<1>4. \A p \in Paths : index'[p] = sidecar[p] \/ (tmp[p] # None /\ index'[p] = tmp[p])
  BY <1>2, <1>3
<1>5. \A p \in Paths : AtRest(p) => index'[p] = index[p]
  BY <1>4 DEF AtRest
<1> QED  BY <1>1, <1>2, <1>4, <1>5

LEMMA RestartFaithful ==
  ASSUME FaithInv, Losses = {}, Restart
  PROVE  SettledFaithful' /\ AllFollow'
<1>1. TypeInv /\ DurableInv /\ SettledFaithful
  BY DEF FaithInv, TypeInv
<1>2. worker' = [w \in Workers |-> Idle] /\ mark' = Cut(UNION {Touch(worker[w]) : w \in Workers})
  BY DEF Restart
<1>3. ASSUME NEW p \in Paths, Settled(p)'
      PROVE  Faithful(p)'
  <2>1. Settled(p)
    BY <1>2, <1>3 DEF Settled, Quiet, Cut
  <2>2. Faithful(p) /\ AtRest(p)
    BY <1>1, <2>1 DEF SettledFaithful, DurableInv, SettledIsDurable, AtRest
  <2> QED  BY <1>1, <2>2, RestartReads DEF Faithful, Seen, HandlesOn
<1>4. \A v \in Workers : ~Pure(worker[v])'
  BY <1>2 DEF Pure, Idle
<1> QED  BY <1>3, <1>4 DEF SettledFaithful, AllFollow

LEMMA InitFaithful == Init => FaithInv
<1> SUFFICES ASSUME Init PROVE FaithInv
  OBVIOUS
<1>1. TypeInv /\ Numbered /\ Owned
  BY InitTyped, InitOwner DEF OwnerInv
<1>2. /\ handles = {} /\ \A w \in Workers : worker[w].op = "idle"
  BY DEF Init, Idle
<1>3. HeldApart /\ AllFollow
  BY <1>2 DEF HeldApart, Holds, Opening, AllFollow, Pure
<1>4. \A p \in Paths : Seen(p) = view[p]
  <2> SUFFICES ASSUME NEW p \in Paths PROVE Seen(p) = view[p]
    OBVIOUS
  <2>1. index[p] = None /\ view[p] = [val |-> IF p \in Baseline THEN p ELSE Gone, x |-> FALSE]
    BY DEF Init
  <2> QED  BY <2>1 DEF Seen, Shown, None
<1>5. SettledFaithful
  BY <1>2, <1>4 DEF SettledFaithful, Faithful, HandlesOn
<1> QED  BY <1>1, <1>3, <1>5 DEF FaithInv

LEMMA StepFaithful ==
  ASSUME Losses = {}, ~ReusePids, FaithInv, [Next]_vars
  PROVE  FaithInv'
<1>1. TypeInv' /\ Numbered' /\ Owned'
  BY StepTyped, StepOwner DEF FaithInv, OwnerInv, TypeInv
<1>2. HeldApart'
  BY StepHeld DEF FaithInv, AllFollow, Pure
<1>3. CASE \E h \in handles : Write(h)
  BY <1>1, <1>2, <1>3, WriteFaithful DEF FaithInv
<1>4. CASE (\E h \in handles : Release(h)) \/ UNCHANGED vars
  <2>1. /\ sidecar' = sidecar /\ tmp' = tmp /\ index' = index /\ view' = view /\ content' = content
        /\ handles' \subseteq handles /\ worker' = worker /\ mark' = mark
    BY <1>4 DEF Release, vars, memVars, diskVars, ghosts
  <2> QED  BY <1>1, <1>2, <2>1, RestFaithful DEF FaithInv
<1>5. CASE Restart
  BY <1>1, <1>2, <1>5, RestartFaithful DEF FaithInv
<1>6. ASSUME NEW w \in Workers, Start(w)
      PROVE  FaithInv'
  BY <1>1, <1>2, <1>6, Starts, BeginFaithful DEF FaithInv
<1>7. ASSUME NEW w \in Workers, Continue(w)
      PROVE  FaithInv'
  <2>1. SettledFaithful' /\ AllFollow'
    BY <1>7, WorksFaithful, LeftoverFaithful, ReplyFaithful, FailFaithful DEF Continue, Works
  <2> QED  BY <1>1, <1>2, <2>1 DEF FaithInv
<1> QED  BY <1>3, <1>4, <1>5, <1>6, <1>7 DEF Next

\* What is answered reads back: as long as a restart loses nothing and gets a new
\* process id, a path whose callbacks all ran to their answer alone and without a
\* failing disk call, an ignored one included, shows the bytes and the executable
\* bit they left it with, whatever callbacks of other paths overlapped, failed,
\* left behind or died half-way.
THEOREM SettledAlwaysReadsBack ==
  Losses = {} /\ ~ReusePids => (Spec => []SettledReadsBack)
<1> SUFFICES ASSUME Losses = {}, ~ReusePids
             PROVE  Spec => []SettledReadsBack
  OBVIOUS
<1>1. FaithInv /\ [Next]_vars => FaithInv'
  BY StepFaithful
<1>2. FaithInv => SettledReadsBack
  BY DEF FaithInv, SettledFaithful, SettledReadsBack, Faithful
<1> QED  BY <1>1, <1>2, InitFaithful, PTL DEF Spec

\* A handle writes the content its path names, also after the file was renamed,
\* and never that of another path (FS-FH-3, FS-INO-2).
THEOREM HandlesAlwaysReach ==
  Losses = {} /\ ~ReusePids => (Spec => []HandlesReachTheirFile)
<1> SUFFICES ASSUME Losses = {}, ~ReusePids
             PROVE  Spec => []HandlesReachTheirFile
  OBVIOUS
<1>1. FaithInv /\ [Next]_vars => FaithInv'
  BY StepFaithful
<1>2. FaithInv => HandlesReachTheirFile
  <2> SUFFICES ASSUME FaithInv, NEW h \in handles, h.at # NoPath, Settled(h.at)
               PROVE  index[h.at].kind = "file" /\ index[h.at].of = h.id
    BY DEF HandlesReachTheirFile
  <2>1. h.at \in Paths
    BY DEF FaithInv, TypeInv, StoreOK
  <2> QED  BY <2>1 DEF FaithInv, SettledFaithful, Faithful, HandlesOn, OfFile
<1> QED  BY <1>1, <1>2, InitFaithful, PTL DEF Spec

\* What a restart makes of a name a callback was at.
LEMMA OldOrNew ==
  ASSUME FaithInv, Losses = {}, Restart, NEW w \in Workers, worker[w].op \in OneNameOps, NEW p \in Touch(worker[w]),
         mark[p] = "clear"
  PROVE  Seen(p)' \in {view[p], After(worker[w])[p]}
<1> DEFINE c == worker[w]
<1>1. TypeInv /\ StoreOK /\ OnItsNames(c) /\ CallOK(c) /\ AllFollow
  BY DEF FaithInv, TypeInv, DurableInv, AllOnNames
<1>2. c.op \notin {"idle", "rename", "unlink"}
  BY DEF OneNameOps, Modifications, Truncations
<1>3. p = c.path /\ p \in Paths /\ \A q \in Touch(c) : q = p
  BY <1>1, <1>2, PathAssumption DEF OnItsNames, Touch
<1>4. Changing(c, p)
  BY <1>1, <1>2, <1>3 DEF AllFollow, Pure, Follows
<1>5. After(c)[p] = Owed(c, view[p])
  BY <1>1, <1>3, AfterIs DEF CallOK, StoreOK
<1>6. /\ content' = content /\ (AtRest(p) => index'[p] = index[p])
      /\ index'[p] = sidecar[p] \/ (tmp[p] # None /\ index'[p] = tmp[p])
  BY <1>1, <1>3, RestartReads
<1>7. Seen(p)' = Shown(index'[p], p, content)
  BY <1>6 DEF Seen
<1>8. CASE AtRest(p) /\ Seen(p) \in {view[p], Owed(c, view[p])}
  BY <1>5, <1>6, <1>7, <1>8 DEF Seen
<1>9. ASSUME Faithful(p), NEW e \in Entries, Readying(c.todo, p, e), Shown(e, p, content) = Owed(c, view[p])
      PROVE  Seen(p)' \in {view[p], After(worker[w])[p]}
  <2>1. index'[p] \in {index[p], e}
    BY <1>6, <1>9 DEF Readying
  <2> QED  BY <1>5, <1>7, <1>9, <2>1 DEF Faithful, Seen
<1> QED  BY <1>4, <1>8, <1>9 DEF Changing, Faithful

\* A process that dies in the middle of a create, symlink, chmod, truncate, open or
\* copy-up leaves the path as it was before the callback or as it is after it.
THEOREM InterruptedAlwaysOldOrNew ==
  Losses = {} /\ ~ReusePids => (Spec => InterruptedIsOldOrNew)
<1> SUFFICES ASSUME Losses = {}, ~ReusePids
             PROVE  Spec => InterruptedIsOldOrNew
  OBVIOUS
<1> DEFINE Step == restarts' # restarts =>
             \A w \in Workers : worker[w].op \in {"create", "symlink"} \union Modifications =>
               \A p \in Touch(worker[w]) :
                 mark[p] = "clear" => Seen(p)' \in {view[p], After(worker[w])[p]}
<1>1. FaithInv /\ [Next]_vars => FaithInv'
  BY StepFaithful
<1>2. FaithInv /\ [Next]_vars => [Step]_vars
  <2> SUFFICES ASSUME FaithInv, Next, restarts' # restarts PROVE Step
    OBVIOUS
  <2>1. Restart
    <3>1. ASSUME NEW w \in Workers, Start(w) PROVE FALSE
      <4>1. \E c : Begin(w, c)
        BY <3>1, Starts
      <4> QED  BY <4>1 DEF Begin
    <3>2. ASSUME NEW w \in Workers, Continue(w) PROVE FALSE
      <4>1. CASE Works(w)
        BY <4>1, WorksData DEF FaithInv, TypeInv, DurableInv
      <4>2. CASE Reply(w) \/ Fail(w) \/ ModifyFails(w) \/ UnpersistFails(w)
        BY <4>2 DEF Reply, Fail, ModifyFails, UnpersistFails, ghosts
      <4> QED  BY <3>2, <4>1, <4>2 DEF Continue, Works
    <3>3. ASSUME NEW h \in handles, Write(h) \/ Release(h) PROVE FALSE
      BY <3>3 DEF Write, Release, ghosts
    <3> QED  BY <3>1, <3>2, <3>3 DEF Next
  <2> QED  BY <2>1, OldOrNew DEF OneNameOps
<1> HIDE DEF Step
<1>3. Spec => [][Step]_vars
  BY <1>1, <1>2, InitFaithful, PTL DEF Spec
<1> QED  BY <1>3 DEF InterruptedIsOldOrNew, Step
=============================================================================

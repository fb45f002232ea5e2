-------------------------- MODULE WorkingTreeProofs --------------------------
(* The overlay implements the tree of PosixTree, for any paths and baseline, and *)
(* the reader of the baseline's trees gives every caller the one it asked for.  *)
EXTENDS WorkingTree, TreeReader, SequenceTheorems, TLAPS

-----------------------------------------------------------------------------
(* Paths as sequences of names. *)

LEMMA PathSeq ==
  ASSUME NEW p \in Paths
  PROVE  p \in Seq(Names) /\ p # <<>> /\ Len(p) \in Nat /\ Len(p) >= 1
BY TreeAssumption

\* A prefix, name by name.
LEMMA PrefixNames ==
  ASSUME NEW S, NEW s \in Seq(S), NEW t \in Seq(S)
  PROVE  IsPrefix(s, t) <=> Len(s) <= Len(t) /\ \A i \in 1..Len(s) : s[i] = t[i]
<1>1. CASE Len(s) <= Len(t)
  <2>1. /\ SubSeq(s, 1, Len(s)) \in Seq(S) /\ Len(SubSeq(s, 1, Len(s))) = Len(s)
        /\ \A i \in 1..Len(s) : SubSeq(s, 1, Len(s))[i] = s[i]
    OBVIOUS
  <2>2. /\ SubSeq(t, 1, Len(s)) \in Seq(S) /\ Len(SubSeq(t, 1, Len(s))) = Len(s)
        /\ \A i \in 1..Len(s) : SubSeq(t, 1, Len(s))[i] = t[i]
    BY <1>1
  <2>3. SubSeq(s, 1, Len(s)) = SubSeq(t, 1, Len(s)) <=> \A i \in 1..Len(s) : s[i] = t[i]
    BY <2>1, <2>2, SeqEqual
  <2> QED  BY <1>1, <2>3 DEF IsPrefix
<1>2. CASE ~(Len(s) <= Len(t))
  BY <1>2 DEF IsPrefix
<1> QED  BY <1>1, <1>2

LEMMA SameNames ==
  ASSUME NEW S, NEW s \in Seq(S), NEW t \in Seq(S), Len(s) = Len(t), \A i \in 1..Len(s) : s[i] = t[i]
  PROVE  s = t
BY SeqEqual

LEMMA PrefixOrder ==
  ASSUME NEW S, NEW s \in Seq(S), NEW t \in Seq(S), NEW u \in Seq(S)
  PROVE  /\ IsPrefix(s, s)
         /\ IsPrefix(s, t) /\ IsPrefix(t, u) => IsPrefix(s, u)
         /\ IsPrefix(s, t) /\ IsPrefix(t, s) => s = t
         /\ IsPrefix(s, u) /\ IsPrefix(t, u) => IsPrefix(s, t) \/ IsPrefix(t, s)
         /\ IsPrefix(s, t) => Len(s) <= Len(t) /\ (s # t => Len(s) < Len(t))
<1>1. IsPrefix(s, s)
  BY PrefixNames
<1>2. IsPrefix(s, t) /\ IsPrefix(t, u) => IsPrefix(s, u)
  <2> HAVE IsPrefix(s, t) /\ IsPrefix(t, u)
  <2>1. Len(s) <= Len(t) /\ \A i \in 1..Len(s) : s[i] = t[i]
    BY PrefixNames
  <2>2. Len(t) <= Len(u) /\ \A i \in 1..Len(t) : t[i] = u[i]
    BY PrefixNames
  <2>3. Len(s) <= Len(u) /\ \A i \in 1..Len(s) : s[i] = u[i]
    BY <2>1, <2>2
  <2> QED  BY <2>3, PrefixNames
<1>3. IsPrefix(s, t) => Len(s) <= Len(t) /\ (s # t => Len(s) < Len(t))
  <2> HAVE IsPrefix(s, t)
  <2>1. Len(s) <= Len(t) /\ \A i \in 1..Len(s) : s[i] = t[i]
    BY PrefixNames
  <2> QED  BY <2>1, SameNames
<1>4. IsPrefix(s, t) /\ IsPrefix(t, s) => s = t
  <2> HAVE IsPrefix(s, t) /\ IsPrefix(t, s)
  <2>1. Len(s) <= Len(t) /\ \A i \in 1..Len(s) : s[i] = t[i]
    BY PrefixNames
  <2>2. Len(t) <= Len(s)
    BY PrefixNames
  <2> QED  BY <2>1, <2>2, SameNames
<1>5. IsPrefix(s, u) /\ IsPrefix(t, u) => IsPrefix(s, t) \/ IsPrefix(t, s)
  <2> HAVE IsPrefix(s, u) /\ IsPrefix(t, u)
  <2>1. Len(s) <= Len(u) /\ \A i \in 1..Len(s) : s[i] = u[i]
    BY PrefixNames
  <2>2. Len(t) <= Len(u) /\ \A i \in 1..Len(t) : t[i] = u[i]
    BY PrefixNames
  <2>3. CASE Len(s) <= Len(t)
    <3>1. \A i \in 1..Len(s) : s[i] = t[i]
      BY <2>1, <2>2, <2>3
    <3> QED  BY <2>3, <3>1, PrefixNames
  <2>4. CASE Len(t) <= Len(s)
    <3>1. \A i \in 1..Len(t) : t[i] = s[i]
      BY <2>1, <2>2, <2>4
    <3> QED  BY <2>4, <3>1, PrefixNames
  <2> QED  BY <2>3, <2>4
<1> QED  BY <1>1, <1>2, <1>3, <1>4, <1>5

\* The paths above p are its strict prefixes, each a path; Front(p) is the
\* lowest of them.
LEMMA AbovePath ==
  ASSUME NEW p \in Paths, NEW a \in Seq(Names), a # <<>>, IsStrictPrefix(a, p)
  PROVE  a \in Paths /\ a \in Above(p)
<1>1. p \in Seq(Names) /\ Len(a) \in Nat
  BY PathSeq
<1>2. Len(a) < Len(p) /\ \A i \in 1..Len(a) : a[i] = p[i]
  BY <1>1, PrefixNames, PrefixOrder DEF IsStrictPrefix
<1>3. Len(a) # 0
  BY EmptySeq
<1>4. Len(a) \in 1..(Len(p) - 1)
  BY <1>1, <1>2, <1>3, PathSeq
<1>5. SubSeq(p, 1, Len(a)) = a
  <2>1. /\ SubSeq(p, 1, Len(a)) \in Seq(Names) /\ Len(SubSeq(p, 1, Len(a))) = Len(a)
        /\ \A i \in 1..Len(a) : SubSeq(p, 1, Len(a))[i] = p[i]
    BY <1>1, <1>2
  <2> QED  BY <1>2, <2>1, SameNames
<1> QED  BY <1>4, <1>5, TreeAssumption DEF Above

LEMMA FrontPath ==
  ASSUME NEW p \in Paths
  PROVE  /\ Front(p) \in Seq(Names) /\ Len(Front(p)) = Len(p) - 1
         /\ Front(p) # <<>> => Front(p) \in Paths
         /\ IsStrictPrefix(Front(p), p)
         /\ \A a \in Seq(Names) : IsStrictPrefix(a, p) => IsPrefix(a, Front(p))
         /\ Front(p) = <<>> <=> Len(p) = 1
<1>1. p \in Seq(Names) /\ Len(p) \in Nat /\ Len(p) >= 1
  BY PathSeq
<1>2. /\ Front(p) \in Seq(Names) /\ Len(Front(p)) = Len(p) - 1
      /\ \A i \in 1..(Len(p) - 1) : Front(p)[i] = p[i]
  <2>1. \A i \in 1..(Len(p) - 1) : p[i] \in Names
    BY <1>1, ElementOfSeq
  <2>2. Len(p) - 1 \in Int /\ 1 \in Int
    BY <1>1
  <2> DEFINE n == Len(p) - 1
  <2>3. /\ Front(p) \in Seq(Names)
        /\ Len(Front(p)) = IF 1 <= n THEN n - 1 + 1 ELSE 0
        /\ \A i \in 1..(n - 1 + 1) : Front(p)[i] = p[1 + i - 1]
    BY <2>1, <2>2, SubSeqProperties DEF Front
  <2>4. n \in Nat /\ n - 1 + 1 = n /\ (1 <= n \/ n = 0)
    <3>1. \A m \in Nat : m >= 1 => m - 1 \in Nat /\ m - 1 - 1 + 1 = m - 1 /\ (1 <= m - 1 \/ m - 1 = 0)
      OBVIOUS
    <3> QED  BY <1>1, <3>1
  <2> HIDE DEF n
  <2>5. \A i \in 1..n : Front(p)[i] = p[i]
    <3> TAKE i \in 1..n
    <3>1. Front(p)[i] = p[1 + i - 1] /\ 1 + i - 1 = i
      BY <2>3, <2>4
    <3> QED  BY <3>1
  <2> QED  BY <2>3, <2>4, <2>5 DEF n
<1>3. IsPrefix(Front(p), p) /\ Front(p) # p
  BY <1>1, <1>2, PrefixNames
<1>4. ASSUME NEW a \in Seq(Names), IsStrictPrefix(a, p)
      PROVE  IsPrefix(a, Front(p))
  <2>1. Len(a) < Len(p) /\ \A i \in 1..Len(a) : a[i] = p[i]
    BY <1>1, <1>4, PrefixNames, PrefixOrder DEF IsStrictPrefix
  <2>2. Len(a) <= Len(Front(p)) /\ \A i \in 1..Len(a) : a[i] = Front(p)[i]
    BY <1>1, <1>2, <2>1
  <2> QED  BY <1>2, <2>2, PrefixNames
<1>5. Front(p) = <<>> <=> Len(p) = 1
  BY <1>1, <1>2, EmptySeq
<1>6. Front(p) # <<>> => Front(p) \in Paths
  BY <1>2, <1>3, AbovePath DEF IsStrictPrefix
<1> QED  BY <1>2, <1>3, <1>4, <1>5, <1>6 DEF IsStrictPrefix

\* The child of d on the way to q.
LEMMA ChildOnTheWay ==
  ASSUME NEW d \in Seq(Names), NEW q \in Paths, IsStrictPrefix(d, q)
  PROVE  \E c \in Paths : Front(c) = d /\ IsPrefix(c, q)
<1> DEFINE c == SubSeq(q, 1, Len(d) + 1)
<1>1. q \in Seq(Names) /\ Len(q) \in Nat /\ Len(d) \in Nat
  BY PathSeq
<1>2. Len(d) < Len(q) /\ \A i \in 1..Len(d) : d[i] = q[i]
  BY <1>1, PrefixNames, PrefixOrder DEF IsStrictPrefix
<1>3. c \in Seq(Names) /\ Len(c) = Len(d) + 1 /\ \A i \in 1..(Len(d) + 1) : c[i] = q[i]
  BY <1>1, <1>2
<1> HIDE DEF c
<1>4. IsPrefix(c, q) /\ c # <<>>
  <2>1. Len(c) <= Len(q) /\ \A i \in 1..Len(c) : c[i] = q[i]
    BY <1>1, <1>2, <1>3
  <2>2. c # <<>>
    BY <1>1, <1>3
  <2> QED  BY <1>1, <1>3, <2>1, <2>2, PrefixNames
<1>5. c \in Paths
  BY <1>3, <1>4, AbovePath DEF IsStrictPrefix
<1>6. /\ Front(c) \in Seq(Names) /\ Len(Front(c)) = Len(d)
      /\ \A i \in 1..Len(d) : Front(c)[i] = c[i]
  BY <1>1, <1>3 DEF Front
<1>7. Front(c) = d
  BY <1>1, <1>2, <1>3, <1>6, SameNames
<1> QED  BY <1>4, <1>5, <1>7

\* Where a path below d comes from, and that it comes back.
LEMMA OriginPath ==
  ASSUME NEW s \in Seq(Names), NEW d \in Seq(Names), NEW q \in Seq(Names), IsPrefix(d, q)
  PROVE  /\ Origin(q, s, d) \in Seq(Names) /\ Len(Origin(q, s, d)) = Len(s) + Len(q) - Len(d)
         /\ \A i \in 1..Len(s) : Origin(q, s, d)[i] = s[i]
         /\ \A i \in 1..(Len(q) - Len(d)) : Origin(q, s, d)[Len(s) + i] = q[Len(d) + i]
         /\ IsPrefix(s, Origin(q, s, d))
         /\ Origin(Origin(q, s, d), d, s) = q
<1> DEFINE rest(x, y) == SubSeq(x, Len(y) + 1, Len(x))
<1>1. Len(s) \in Nat /\ Len(d) \in Nat /\ Len(q) \in Nat /\ Len(d) <= Len(q)
      /\ \A i \in 1..Len(d) : d[i] = q[i]
  BY PrefixNames
<1>2. ASSUME NEW x \in Seq(Names), NEW y \in Seq(Names), NEW z \in Seq(Names), Len(x) <= Len(y)
      PROVE  /\ z \o rest(y, x) \in Seq(Names) /\ Len(z \o rest(y, x)) = Len(z) + Len(y) - Len(x)
             /\ \A i \in 1..Len(z) : (z \o rest(y, x))[i] = z[i]
             /\ \A i \in 1..(Len(y) - Len(x)) : (z \o rest(y, x))[Len(z) + i] = y[Len(x) + i]
  <2>1. /\ rest(y, x) \in Seq(Names) /\ Len(rest(y, x)) = Len(y) - Len(x)
        /\ \A i \in 1..(Len(y) - Len(x)) : rest(y, x)[i] = y[Len(x) + i]
    BY <1>2
  <2> HIDE DEF rest
  <2>2. z \o rest(y, x) \in Seq(Names) /\ Len(z \o rest(y, x)) = Len(z) + Len(rest(y, x))
        /\ \A i \in 1..(Len(z) + Len(rest(y, x))) :
             (z \o rest(y, x))[i] = IF i <= Len(z) THEN z[i] ELSE rest(y, x)[i - Len(z)]
    BY <2>1, ConcatProperties
  <2>3. \A i \in 1..(Len(y) - Len(x)) : (z \o rest(y, x))[Len(z) + i] = y[Len(x) + i]
    <3> TAKE i \in 1..(Len(y) - Len(x))
    <3>1. Len(z) + i \in 1..(Len(z) + Len(rest(y, x))) /\ ~(Len(z) + i <= Len(z)) /\ Len(z) + i - Len(z) = i
      BY <2>1
    <3> QED  BY <2>1, <2>2, <3>1
  <2> QED  BY <2>1, <2>2, <2>3
<1> DEFINE o == Origin(q, s, d)
<1>3. /\ o \in Seq(Names) /\ Len(o) = Len(s) + Len(q) - Len(d)
      /\ \A i \in 1..Len(s) : o[i] = s[i]
      /\ \A i \in 1..(Len(q) - Len(d)) : o[Len(s) + i] = q[Len(d) + i]
  BY <1>1, <1>2 DEF Origin
<1> HIDE DEF o
<1>4. IsPrefix(s, o)
  BY <1>1, <1>3, PrefixNames
<1>5. Len(s) <= Len(o)
  BY <1>1, <1>3
<1>6. /\ Origin(o, d, s) \in Seq(Names) /\ Len(Origin(o, d, s)) = Len(d) + Len(o) - Len(s)
      /\ \A i \in 1..Len(d) : Origin(o, d, s)[i] = d[i]
      /\ \A i \in 1..(Len(o) - Len(s)) : Origin(o, d, s)[Len(d) + i] = o[Len(s) + i]
  BY <1>2, <1>3, <1>5 DEF Origin
<1>7. Len(Origin(o, d, s)) = Len(q)
  BY <1>1, <1>3, <1>6
<1>8. ASSUME NEW i \in 1..Len(q)
      PROVE  Origin(o, d, s)[i] = q[i]
  <2>1. CASE i <= Len(d)
    BY <1>1, <1>6, <2>1
  <2>2. CASE i > Len(d)
    <3> DEFINE j == i - Len(d)
    <3>1. j \in 1..(Len(q) - Len(d)) /\ Len(o) - Len(s) = Len(q) - Len(d) /\ i = Len(d) + j
      BY <1>1, <1>3, <2>2
    <3> HIDE DEF j
    <3>2. Origin(o, d, s)[Len(d) + j] = o[Len(s) + j] /\ o[Len(s) + j] = q[Len(d) + j]
      BY <1>3, <1>6, <3>1
    <3> QED  BY <3>1, <3>2
  <2> QED  BY <1>1, <2>1, <2>2
<1>9. Origin(o, d, s) = q
  BY <1>6, <1>7, <1>8, SameNames
<1> QED  BY <1>3, <1>4, <1>9 DEF o

LEMMA OriginOrder ==
  ASSUME NEW s \in Seq(Names), NEW d \in Seq(Names), NEW a \in Seq(Names), NEW q \in Seq(Names),
         IsPrefix(d, a)
  PROVE  /\ IsPrefix(a, q) => IsPrefix(Origin(a, s, d), Origin(q, s, d))
         /\ Origin(d, s, d) = s
         /\ s # <<>> => Origin(a, s, d) # <<>>
<1>1. Len(s) \in Nat /\ Len(d) \in Nat /\ Len(a) \in Nat /\ Len(q) \in Nat
      /\ Len(d) <= Len(a) /\ IsPrefix(d, d)
  BY PrefixNames, PrefixOrder
<1>2. IsPrefix(a, q) => IsPrefix(Origin(a, s, d), Origin(q, s, d))
  <2> HAVE IsPrefix(a, q)
  <2> DEFINE o == Origin(a, s, d)
             r == Origin(q, s, d)
             m == Len(a) - Len(d)
  <2>1. IsPrefix(d, q) /\ Len(a) <= Len(q) /\ \A i \in 1..Len(a) : a[i] = q[i]
    BY PrefixNames, PrefixOrder
  <2>2. /\ o \in Seq(Names) /\ Len(o) = Len(s) + Len(a) - Len(d)
        /\ \A i \in 1..Len(s) : o[i] = s[i]
        /\ \A i \in 1..(Len(a) - Len(d)) : o[Len(s) + i] = a[Len(d) + i]
    <3>1. o \in Seq(Names) /\ Len(o) = Len(s) + Len(a) - Len(d)
      BY OriginPath
    <3>2. \A i \in 1..Len(s) : o[i] = s[i]
      BY OriginPath
    <3>3. \A i \in 1..(Len(a) - Len(d)) : o[Len(s) + i] = a[Len(d) + i]
      BY OriginPath
    <3> QED  BY <3>1, <3>2, <3>3
  <2>3. /\ r \in Seq(Names) /\ Len(r) = Len(s) + Len(q) - Len(d)
        /\ \A i \in 1..Len(s) : r[i] = s[i]
        /\ \A i \in 1..(Len(q) - Len(d)) : r[Len(s) + i] = q[Len(d) + i]
    <3>1. r \in Seq(Names) /\ Len(r) = Len(s) + Len(q) - Len(d)
      BY <2>1, OriginPath
    <3>2. \A i \in 1..Len(s) : r[i] = s[i]
      BY <2>1, OriginPath
    <3>3. \A i \in 1..(Len(q) - Len(d)) : r[Len(s) + i] = q[Len(d) + i]
      BY <2>1, OriginPath
    <3> QED  BY <3>1, <3>2, <3>3
  <2> HIDE DEF o, r
  <2>4. ASSUME NEW i \in 1..Len(o)
        PROVE  o[i] = r[i]
    <3>1. CASE i <= Len(s)
      BY <1>1, <2>2, <2>3, <3>1
    <3>2. CASE i > Len(s)
      <4> DEFINE j == i - Len(s)
      <4>1. /\ j \in 1..(Len(a) - Len(d)) /\ j \in 1..(Len(q) - Len(d)) /\ i = Len(s) + j
            /\ Len(d) + j \in 1..Len(a)
        BY <1>1, <2>1, <2>2, <3>2
      <4> HIDE DEF j
      <4>2. o[Len(s) + j] = a[Len(d) + j] /\ r[Len(s) + j] = q[Len(d) + j] /\ a[Len(d) + j] = q[Len(d) + j]
        BY <2>1, <2>2, <2>3, <4>1
      <4> QED  BY <4>1, <4>2
    <3> QED  BY <1>1, <2>2, <3>1, <3>2
  <2>5. Len(o) <= Len(r)
    BY <1>1, <2>1, <2>2, <2>3
  <2>6. IsPrefix(o, r)
    BY <2>2, <2>3, <2>4, <2>5, PrefixNames
  <2> QED  BY <2>6 DEF o, r
<1>3. Origin(d, s, d) = s
  <2>1. /\ Origin(d, s, d) \in Seq(Names) /\ Len(Origin(d, s, d)) = Len(s) + Len(d) - Len(d)
        /\ \A i \in 1..Len(s) : Origin(d, s, d)[i] = s[i]
    <3>1. Origin(d, s, d) \in Seq(Names) /\ Len(Origin(d, s, d)) = Len(s) + Len(d) - Len(d)
      BY <1>1, OriginPath
    <3>2. \A i \in 1..Len(s) : Origin(d, s, d)[i] = s[i]
      BY <1>1, OriginPath
    <3> QED  BY <3>1, <3>2
  <2>2. Len(Origin(d, s, d)) = Len(s)
    BY <1>1, <2>1
  <2> QED  BY <2>1, <2>2, SameNames
<1>4. s # <<>> => Origin(a, s, d) # <<>>
  <2>1. /\ Origin(a, s, d) \in Seq(Names) /\ Len(Origin(a, s, d)) = Len(s) + Len(a) - Len(d)
    BY OriginPath
  <2>2. s # <<>> => Len(s) # 0
    BY EmptySeq
  <2>3. s # <<>> => Len(Origin(a, s, d)) # 0
    BY <1>1, <2>1, <2>2
  <2> QED  BY <2>3, EmptySeq
<1> QED  BY <1>2, <1>3, <1>4

-----------------------------------------------------------------------------
(* Reading a tree. *)

Kept == overlay \in [Paths -> Entries] /\ overlay[GITFILE] = NoEntry

\* What an entry resolves to when nothing hides it.
LEMMA EntryKinds ==
  ASSUME Kept, NEW p \in Paths
  PROVE  /\ overlay[p].kind \in {"none", "tombstone", "dir", "file", "symlink", "baseref"}
         /\ overlay[p].kind = "none" <=> overlay[p] = NoEntry
         /\ overlay[p].kind = "tombstone" <=> overlay[p] = Tombstone
         /\ overlay[p].kind = "dir" <=> overlay[p] = DirEntry
         /\ overlay[p].kind = "baseref" => overlay[p].val \in Blobs /\ overlay[p] = BaseRef(overlay[p].val)
         /\ overlay[p].kind \in {"file", "symlink"} => overlay[p] = Entry(overlay[p].kind, overlay[p].val)
<1>1. overlay[p] \in Entries
  BY DEF Kept
<1> QED  BY <1>1 DEF Entries, NoEntry, Tombstone, DirEntry, File, Symlink, BaseRef, Entry

LEMMA BaselineKinds ==
  ASSUME NEW p
  PROVE  /\ BaselineResolve(p).kind \in {"none", "dir", "file", "symlink"}
         /\ BaselineResolve(p).kind = "none" <=> BaselineResolve(p) = Absent
         /\ BaselineResolve(p).kind = "none" <=> p \notin Baseline
         /\ BaselineResolve(p).kind = "dir" <=> BaselineResolve(p) = DirEntry
         /\ BaselineResolve(p).kind = "dir" <=> p \in BaselineDirs
         /\ BaselineResolve(p).kind \in {"file", "symlink"} <=> p \in Blobs
         /\ p \in Blobs => BaselineResolve(p) \in {File(p), Symlink(p)} /\ BaselineResolve(p).val = p
BY TreeAssumption DEF BaselineResolve, Baseline, Blobs, Absent, DirEntry, File, Symlink, Entry

LEMMA GitfileAlone ==
  ASSUME NEW p \in Paths
  PROVE  IsPrefix(p, GITFILE) => p = GITFILE
<1>1. p \in Seq(Names) /\ Len(p) \in Nat /\ Len(p) >= 1 /\ GITFILE \in Seq(Names) /\ Len(GITFILE) = 1
  BY PathSeq, TreeAssumption
<1> QED  BY <1>1, PrefixOrder

LEMMA PathOrder ==
  ASSUME NEW p \in Paths, NEW q \in Paths, NEW r \in Paths
  PROVE  /\ IsPrefix(p, p)
         /\ IsPrefix(p, q) /\ IsPrefix(q, r) => IsPrefix(p, r)
         /\ IsPrefix(p, q) /\ IsPrefix(q, p) => p = q
         /\ IsPrefix(p, r) /\ IsPrefix(q, r) => IsPrefix(p, q) \/ IsPrefix(q, p)
         /\ IsStrictPrefix(p, q) /\ IsPrefix(q, r) => IsStrictPrefix(p, r)
         /\ IsPrefix(p, q) /\ IsStrictPrefix(q, r) => IsStrictPrefix(p, r)
<1>1. p \in Seq(Names) /\ q \in Seq(Names) /\ r \in Seq(Names)
  BY PathSeq
<1>2. /\ IsPrefix(p, p)
      /\ IsPrefix(p, q) /\ IsPrefix(q, r) => IsPrefix(p, r)
      /\ IsPrefix(p, q) /\ IsPrefix(q, p) => p = q
      /\ IsPrefix(q, r) /\ IsPrefix(r, q) => q = r
      /\ IsPrefix(p, r) /\ IsPrefix(q, r) => IsPrefix(p, q) \/ IsPrefix(q, p)
  BY <1>1, PrefixOrder
<1> QED  BY <1>2 DEF IsStrictPrefix

\* The walk to p: nothing on it is tombstoned, and it ends at Front(p).
LEMMA WalkEnds ==
  ASSUME Kept, NEW p \in Paths
  PROVE  /\ IsDir(Front(p)) <=> Walked(p)
         /\ Walked(p) => ~AncestorTombstoned(p)
         /\ Walked(p) => Tree(p) = Resolve(p)
         /\ ~Walked(p) => Tree(p) = Absent
         /\ \A a \in Paths : Walked(p) /\ IsPrefix(a, p) => Walked(a)
         /\ \A a \in Paths : Walked(p) /\ IsStrictPrefix(a, p) => IsDir(a) /\ Held(a) /\ Tree(a) = Resolve(a)
<1>1. Walked(p) => ~AncestorTombstoned(p)
  BY DEF Walked, AncestorTombstoned, Resolve, Absent, Gitfile, Entry, Tombstone
<1>2. \A a \in Paths : Walked(p) /\ IsPrefix(a, p) => Walked(a)
  BY PathOrder DEF Walked
<1>3. \A a \in Paths : Walked(p) /\ IsStrictPrefix(a, p) => IsDir(a) /\ Held(a) /\ Tree(a) = Resolve(a)
  <2> SUFFICES ASSUME NEW a \in Paths, Walked(p), IsStrictPrefix(a, p)
               PROVE  IsDir(a) /\ Held(a) /\ Tree(a) = Resolve(a)
    OBVIOUS
  <2>1. Walked(a) /\ Resolve(a).kind = "dir"
    BY <1>2 DEF Walked, IsStrictPrefix
  <2>2. a # <<>>
    BY PathSeq
  <2> QED  BY <2>1, <2>2 DEF IsDir, Held, Tree, Absent, Entry
<1>4. IsDir(Front(p)) => Walked(p)
  <2> SUFFICES ASSUME IsDir(Front(p)), NEW a \in Paths, IsStrictPrefix(a, p)
               PROVE  Resolve(a).kind = "dir"
    BY DEF Walked
  <2>1. IsPrefix(a, Front(p)) /\ a \in Seq(Names) /\ a # <<>>
    BY FrontPath, PathSeq
  <2>2. CASE Front(p) = <<>>
    <3>1. Len(a) <= Len(Front(p))
      BY <2>1, FrontPath, PrefixOrder
    <3> QED  BY <2>1, <2>2, <3>1, EmptySeq
  <2>3. CASE Front(p) # <<>>
    <3>1. Front(p) \in Paths
      BY <2>3, FrontPath
    <3>2. Tree(Front(p)).kind = "dir"
      BY <2>3 DEF IsDir
    <3>3. Walked(Front(p)) /\ Resolve(Front(p)).kind = "dir"
      BY <3>2 DEF Tree, Absent, Entry
    <3>4. CASE a = Front(p)
      BY <3>3, <3>4
    <3>5. CASE a # Front(p)
      BY <2>1, <3>1, <3>3, <3>5 DEF Walked, IsStrictPrefix
    <3> QED  BY <3>4, <3>5
  <2> QED  BY <2>2, <2>3
<1>5. Walked(p) => IsDir(Front(p))
  BY <1>3, FrontPath DEF IsDir
<1> QED  BY <1>1, <1>2, <1>3, <1>4, <1>5 DEF Tree

LEMMA GitfileHeld == Kept => Walked(GITFILE) /\ Tree(GITFILE) = Gitfile /\ Held(GITFILE) /\ ~IsDir(GITFILE)
<1> SUFFICES ASSUME Kept  PROVE  Walked(GITFILE) /\ Tree(GITFILE) = Gitfile /\ Held(GITFILE) /\ ~IsDir(GITFILE)
  OBVIOUS
<1>1. Walked(GITFILE)
  BY GitfileAlone DEF Walked, IsStrictPrefix
<1>2. GITFILE # <<>>
  BY TreeAssumption
<1>3. Resolve(GITFILE) = Gitfile
  BY DEF Resolve, Kept, NoEntry, Tombstone, Entry
<1>4. Gitfile # Absent /\ Gitfile.kind # "dir"
  BY DEF Gitfile, Absent, Entry
<1>5. Tree(GITFILE) = Gitfile
  BY <1>1, <1>3 DEF Tree
<1> QED  BY <1>1, <1>2, <1>4, <1>5 DEF Held, IsDir

\* What a walked path holds: its entry or, without one, the baseline's.
EntryShows(p) ==
  /\ overlay[p].kind = "tombstone" => Tree(p) = Absent
  /\ overlay[p].kind \in {"file", "symlink", "dir"} => Tree(p) = overlay[p]
  /\ overlay[p].kind = "baseref" =>
       Tree(p) = BaselineResolve(overlay[p].val) /\ overlay[p].val \in Blobs
  /\ overlay[p].kind = "none" => Tree(p) = BaselineResolve(p)
  /\ Tree(p).kind \in {"none", "dir", "file", "symlink"}
  /\ Tree(p).kind = "none" <=> Tree(p) = Absent
  /\ Tree(p).kind = "dir" <=> Tree(p) = DirEntry

LEMMA Content ==
  ASSUME Kept, NEW p \in Paths, Walked(p), p # GITFILE
  PROVE  EntryShows(p)
<1> USE DEF EntryShows
<1>1. Tree(p) = Resolve(p) /\ ~AncestorTombstoned(p)
  BY WalkEnds
<1>2. /\ overlay[p].kind = "tombstone" => Resolve(p) = Absent
      /\ overlay[p].kind \in {"file", "symlink", "dir"} => Resolve(p) = overlay[p]
      /\ overlay[p].kind = "baseref" => Resolve(p) = BaselineResolve(overlay[p].val)
      /\ overlay[p].kind = "none" => Resolve(p) = BaselineResolve(p)
  BY <1>1, EntryKinds DEF Resolve, Tombstone, Entry
<1>3. /\ Resolve(p).kind \in {"none", "dir", "file", "symlink"}
      /\ Resolve(p).kind = "none" <=> Resolve(p) = Absent
      /\ Resolve(p).kind = "dir" <=> Resolve(p) = DirEntry
  <2> DEFINE Good(e) == /\ e.kind \in {"none", "dir", "file", "symlink"}
                        /\ e.kind = "none" <=> e = Absent
                        /\ e.kind = "dir" <=> e = DirEntry
  <2>1. \A b : Good(BaselineResolve(b))
    BY BaselineKinds
  <2>2. Good(Absent)
    BY DEF Absent, DirEntry, Entry
  <2>3. overlay[p].kind \in {"file", "symlink", "dir"} => Good(overlay[p])
    <3>1. overlay[p].kind = "dir" <=> overlay[p] = DirEntry
      BY EntryKinds
    <3>2. Absent.kind = "none"
      BY DEF Absent, Entry
    <3> QED  BY <3>1, <3>2
  <2> HIDE DEF Good
  <2>4. Good(Resolve(p))
    BY <1>2, <2>1, <2>2, <2>3, EntryKinds
  <2> QED  BY <2>4 DEF Good
<1> QED  BY <1>1, <1>2, <1>3, EntryKinds

EntriesShow == Kept => \A p \in Paths : Walked(p) /\ p # GITFILE => EntryShows(p)

LEMMA ContentAll == EntriesShow
BY Content DEF EntriesShow

LEMMA ContentNext ==
  ASSUME Kept', NEW p \in Paths, Walked(p)', p # GITFILE
  PROVE  EntryShows(p)'
<1>1. EntriesShow'
  BY ContentAll, PTL
<1> QED  BY <1>1 DEF EntriesShow

\* A child of a directory: what the overlay says of it or, if nothing, the tree
\* of the baseline.
LEMMA ChildKept ==
  ASSUME Kept, NEW d \in Paths \union {<<>>}, IsDir(d), NEW c \in Children(d), c # GITFILE
  PROVE  /\ c \in Paths /\ Walked(c) /\ Tree(c) = Resolve(c)
         /\ Tree(c) = Absent <=>
              overlay[c] = Tombstone \/ (overlay[c] = NoEntry /\ c \notin BaselineChildren(d))
<1>1. c \in Paths /\ Front(c) = d /\ Walked(c) /\ Tree(c) = Resolve(c)
  BY WalkEnds DEF Children
<1>2. c \in BaselineChildren(d) <=> BaselineResolve(c) # Absent
  <2>1. ASSUME BaselineResolve(c) # Absent, d # <<>>
        PROVE  d \in BaselineDirs
    <3>1. c \in Baseline
      BY <2>1, BaselineKinds
    <3>2. d \in Paths /\ IsStrictPrefix(d, c)
      BY <1>1, <2>1, FrontPath
    <3>3. d \in Above(c)
      BY <1>1, <2>1, <3>2, AbovePath, PathSeq
    <3> QED  BY <3>1, <3>3, TreeAssumption
  <2> QED  BY <1>1, <2>1 DEF BaselineChildren, Children
<1>3. CASE overlay[c].kind = "tombstone"
  BY <1>1, <1>3, Content, EntryKinds DEF EntryShows
<1>4. CASE overlay[c].kind \in {"file", "symlink", "dir"}
  BY <1>1, <1>4, Content, EntryKinds DEF EntryShows, Absent, Entry, NoEntry, Tombstone
<1>5. CASE overlay[c].kind = "baseref"
  <2>1. Tree(c) # Absent
    BY <1>1, <1>5, Content, BaselineKinds DEF EntryShows, Absent, Entry
  <2> QED  BY <1>1, <1>5, <2>1 DEF NoEntry, Tombstone, Entry
<1>6. CASE overlay[c].kind = "none"
  BY <1>1, <1>2, <1>6, Content, EntryKinds DEF EntryShows, NoEntry, Tombstone, Entry
<1> QED  BY <1>1, <1>3, <1>4, <1>5, <1>6, EntryKinds

LEMMA Listings ==
  ASSUME Kept, NEW d \in Paths \union {<<>>}, IsDir(d)
  PROVE  Readdir(d) = {p \in Children(d) : Resolve(p) # Absent}
<1> SUFFICES ASSUME NEW p
             PROVE  p \in Readdir(d) <=> p \in Children(d) /\ Resolve(p) # Absent
  OBVIOUS
<1>1. BaselineChildren(d) \subseteq Children(d)
  BY DEF BaselineChildren
<1>2. p \in Readdir(d) <=> p \in Children(d) /\ (\/ p \in BaselineChildren(d) /\ overlay[p] = NoEntry
                                                 \/ overlay[p] \notin {NoEntry, Tombstone}
                                                 \/ p = GITFILE)
  BY <1>1 DEF Readdir
<1>3. CASE p = GITFILE
  <2>1. Resolve(p) # Absent
    BY <1>3, GitfileHeld, TreeAssumption DEF Tree, Held
  <2> QED  BY <1>2, <1>3, <2>1
<1>4. CASE p # GITFILE /\ p \in Children(d)
  <2>1. Resolve(p) = Absent <=> overlay[p] = Tombstone \/ (overlay[p] = NoEntry /\ p \notin BaselineChildren(d))
    BY <1>4, ChildKept
  <2>2. NoEntry # Tombstone
    BY DEF NoEntry, Tombstone, Entry
  <2> QED  BY <1>2, <1>4, <2>1, <2>2
<1> QED  BY <1>2, <1>3, <1>4

\* A directory whose children are gone holds nothing at any depth.
LEMMA EmptyDirs ==
  ASSUME Kept, NEW d \in Paths, Held(d), IsDir(d)
  PROVE  DirIsEmpty(d) <=> \A q \in Paths : IsStrictPrefix(d, q) => ~Held(q)
<1>1. d \in Seq(Names) /\ d # <<>>
  BY PathSeq
<1>2. Walked(d) /\ d # GITFILE
  BY GitfileHeld DEF Held, Tree
<1>3. \A c \in Children(d) : c # GITFILE /\ c \in Paths /\ IsStrictPrefix(d, c)
  BY <1>1, FrontPath, GitfileAlone DEF Children, IsStrictPrefix
<1>4. NoEntry # Tombstone
  BY DEF NoEntry, Tombstone, Entry
<1>5. DirIsEmpty(d) <=> \A c \in Children(d) : Tree(c) = Absent
  <2>1. \A c \in Children(d) : Tree(c) = Absent <=>
          overlay[c] = Tombstone \/ (overlay[c] = NoEntry /\ c \notin BaselineChildren(d))
    BY <1>3, ChildKept
  <2>2. BaselineChildren(d) \subseteq Children(d)
    BY DEF BaselineChildren
  <2> QED  BY <1>4, <2>1, <2>2 DEF DirIsEmpty
<1>6. ASSUME \A c \in Children(d) : Tree(c) = Absent, NEW q \in Paths, IsStrictPrefix(d, q)
      PROVE  ~Held(q)
  <2>1. PICK c \in Paths : Front(c) = d /\ IsPrefix(c, q)
    BY <1>1, <1>6, ChildOnTheWay
  <2>2. Tree(c) = Absent
    BY <1>6, <2>1 DEF Children
  <2>3. CASE c = q
    BY <2>2, <2>3 DEF Held
  <2>4. CASE c # q
    <3>1. IsStrictPrefix(c, q)
      BY <2>1, <2>4 DEF IsStrictPrefix
    <3>2. ~Walked(q)
      BY <2>2, <3>1, WalkEnds DEF Held
    <3> QED  BY <3>2, WalkEnds DEF Held
  <2> QED  BY <2>3, <2>4
<1> QED  BY <1>3, <1>5, <1>6 DEF Held

-----------------------------------------------------------------------------
(* What a callback changes. *)

\* What a path holds depends on the entries on the way to it and its own.
LEMMA ReadsAbove ==
  ASSUME NEW q \in Paths, \A a \in Paths : IsPrefix(a, q) => overlay'[a] = overlay[a]
  PROVE  /\ Walked(q)' <=> Walked(q)
         /\ Tree(q)' = Tree(q)
<1>1. ASSUME NEW p \in Paths, IsPrefix(p, q)
      PROVE  Resolve(p)' = Resolve(p)
  <2>1. AncestorTombstoned(p)' <=> AncestorTombstoned(p)
    BY <1>1, PathOrder DEF AncestorTombstoned, IsStrictPrefix
  <2>2. overlay'[p] = overlay[p]
    BY <1>1
  <2> QED  BY <2>1, <2>2 DEF Resolve
<1>2. Walked(q)' <=> Walked(q)
  BY <1>1 DEF Walked, IsStrictPrefix
<1>3. Resolve(q)' = Resolve(q)
  BY <1>1, PathOrder
<1> QED  BY <1>2, <1>3 DEF Tree

\* Below what is no directory nothing is held.
BareBelow ==
  \A p, q \in Paths : (~Held(p) \/ ~IsDir(p)) /\ IsStrictPrefix(p, q) => Tree(q) = Absent /\ ~Walked(q)

LEMMA NothingBelow == BareBelow
<1> SUFFICES ASSUME NEW p \in Paths, ~Held(p) \/ ~IsDir(p), NEW q \in Paths, IsStrictPrefix(p, q)
             PROVE  Tree(q) = Absent /\ ~Walked(q)
  BY DEF BareBelow
<1>1. p # <<>>
  BY PathSeq
<1>2. ASSUME Walked(q)
      PROVE  FALSE
  <2>1. Resolve(p).kind = "dir"
    BY <1>2 DEF Walked
  <2>2. Walked(p)
    BY <1>2, PathOrder DEF Walked, IsStrictPrefix
  <2>3. Tree(p).kind = "dir"
    BY <2>1, <2>2 DEF Tree
  <2> QED  BY <1>1, <2>3 DEF Held, IsDir, Absent, Entry
<1> QED  BY <1>2 DEF Tree

LEMMA NothingBelowNext == BareBelow'
BY NothingBelow, PTL

\* A change of the entries at or below one path reaches no other path.
LEMMA OtherPaths ==
  ASSUME Kept, NEW p \in Paths, \A q \in Paths : ~IsPrefix(p, q) => overlay'[q] = overlay[q]
  PROVE  /\ Walked(p)' <=> Walked(p)
         /\ \A q \in Paths : ~IsPrefix(p, q) => Tree(q)' = Tree(q) /\ (Walked(q)' <=> Walked(q))
<1>1. ASSUME NEW q \in Paths, ~IsPrefix(p, q)
      PROVE  /\ Tree(q)' = Tree(q)
             /\ Walked(q)' <=> Walked(q)
             /\ Resolve(q)' = Resolve(q)
  <2>1. ASSUME NEW a \in Paths, IsPrefix(a, q)
        PROVE  overlay'[a] = overlay[a]
    BY <1>1, <2>1, PathOrder
  <2>2. AncestorTombstoned(q)' <=> AncestorTombstoned(q)
    BY <2>1 DEF AncestorTombstoned, IsStrictPrefix
  <2> QED  BY <1>1, <2>1, <2>2, ReadsAbove DEF Resolve
<1>2. Walked(p)' <=> Walked(p)
  BY <1>1, PathOrder DEF Walked, IsStrictPrefix
<1> QED  BY <1>1, <1>2

-----------------------------------------------------------------------------
(* The tree PosixTree is shown. *)

Shown == [p \in Paths |-> Tree(p)]

LEMMA SameWords ==
  /\ \A p : Posix!Front(p) = Front(p)
  /\ \A p, q : Posix!IsPrefix(p, q) <=> IsPrefix(p, q)
  /\ \A p, q : Posix!IsStrictPrefix(p, q) <=> IsStrictPrefix(p, q)
BY DEF Posix!Front, Front, Posix!IsPrefix, IsPrefix, Posix!IsStrictPrefix, IsStrictPrefix

LEMMA SameTests ==
  /\ \A p \in Paths : Posix!Held(p) <=> Held(p)
  /\ \A p \in Paths \union {<<>>} : Posix!IsDir(p) <=> IsDir(p)
  /\ \A p \in Paths : Posix!EmptyDir(p) <=> \A q \in Paths : IsStrictPrefix(p, q) => ~Held(q)
<1>1. \A p \in Paths : Posix!Held(p) <=> Held(p)
  BY DEF Posix!Held, Held, Posix!Absent, Absent, Entry
<1>2. \A p \in Paths \union {<<>>} : Posix!IsDir(p) <=> IsDir(p)
  BY DEF Posix!IsDir, IsDir
<1> QED  BY <1>1, <1>2, SameWords DEF Posix!EmptyDir

\* A callback that leaves nothing below p, where there was nothing, changes p.
LEMMA ShownAt ==
  ASSUME Kept, Kept', NEW p \in Paths, NEW e, overlay' = [overlay EXCEPT ![p] = e],
         \A q \in Paths : IsStrictPrefix(p, q) => Tree(q) = Absent /\ Tree(q)' = Absent
  PROVE  Shown' = [Shown EXCEPT ![p] = Tree(p)']
<1>1. \A q \in Paths : ~IsPrefix(p, q) => overlay'[q] = overlay[q]
  BY PathOrder DEF Kept
<1>2. \A q \in Paths : ~IsPrefix(p, q) => Tree(q)' = Tree(q)
  BY <1>1, OtherPaths
<1>3. \A q \in Paths : q # p => Tree(q)' = Tree(q)
  BY <1>2 DEF IsStrictPrefix
<1> QED  BY <1>3 DEF Shown

LEMMA WalkAt ==
  ASSUME Kept, NEW p \in Paths, Walked(p), NEW e, overlay' = [overlay EXCEPT ![p] = e]
  PROVE  Walked(p)' /\ overlay'[p] = e
<1>1. \A q \in Paths : ~IsPrefix(p, q) => overlay'[q] = overlay[q]
  BY PathOrder DEF Kept
<1> QED  BY <1>1, OtherPaths DEF Kept

LEMMA MakeStep ==
  ASSUME Kept, Kept', NEW p \in Paths, NEW op, NEW e, PutEntry(op, p, e),
         \/ e.kind \in {"file", "symlink"}
         \/ e = DirEntry /\ Bare(p)
  PROVE  Posix!Make(op, p, e)
<1>1. /\ ~Held(p) /\ IsDir(Front(p)) /\ overlay' = [overlay EXCEPT ![p] = e]
      /\ last' = [op |-> op, path |-> p, ok |-> TRUE]
  BY DEF PutEntry, Done
<1>2. Walked(p) /\ p # GITFILE
  BY <1>1, WalkEnds, GitfileHeld
<1>3. Walked(p)' /\ overlay'[p] = e
  BY <1>1, <1>2, WalkAt
<1>4. e.kind \in {"file", "symlink", "dir"}
  BY DEF DirEntry, Entry
<1>5. Tree(p)' = e
  BY <1>2, <1>3, <1>4, ContentNext DEF EntryShows
<1>6. ASSUME NEW q \in Paths, IsStrictPrefix(p, q)
      PROVE  Tree(q) = Absent /\ Tree(q)' = Absent
  <2>1. Tree(q) = Absent
    BY <1>1, <1>6, NothingBelow DEF BareBelow
  <2>2. CASE e.kind \in {"file", "symlink"}
    <3>1. ~IsDir(p)'
      BY <1>5, <2>2, PathSeq DEF IsDir
    <3> QED  BY <1>6, <2>1, <3>1, NothingBelowNext DEF BareBelow
  <2>3. CASE Bare(p)
    <3>1. q # GITFILE /\ q # p
      BY <1>6, GitfileAlone DEF IsStrictPrefix
    <3>2. overlay'[q] = Tombstone \/ (overlay'[q] = NoEntry /\ BaselineResolve(q) = Absent)
      BY <1>1, <1>6, <2>3, <3>1 DEF Bare, Kept
    <3>3. Walked(q)' => Tree(q)' = Absent
      BY <3>1, <3>2, ContentNext DEF EntryShows, Tombstone, NoEntry, Entry
    <3> QED  BY <2>1, <3>3 DEF Tree
  <2> QED  BY <2>2, <2>3
<1>7. Shown' = [Shown EXCEPT ![p] = e]
  BY <1>1, <1>5, <1>6, ShownAt
<1>8. Front(p) \in Paths \union {<<>>}
  BY FrontPath
<1> QED  BY <1>1, <1>7, <1>8, SameTests, SameWords
         DEF Posix!Make, Posix!Answer, Posix!Done, Shown

LEMMA RefuseStep ==
  ASSUME NEW op, NEW p, Refused(op, p)
  PROVE  Posix!Answer(op, p) /\ Posix!Refused
<1>1. UNCHANGED overlay
  BY DEF Refused
<1>2. Shown' = Shown
  <2>1. \A q \in Paths : Tree(q)' = Tree(q)
    BY <1>1, ReadsAbove
  <2> QED  BY <2>1 DEF Shown
<1> QED  BY <1>2 DEF Refused, Posix!Answer, Posix!Refused, Shown

\* What unlink and rmdir leave: no entry only where the baseline has nothing.
LEMMA RemoveStep ==
  ASSUME Kept, Kept', NEW p \in Paths, p # GITFILE, Walked(p), NEW b \in BOOLEAN, TombstoneOrClear(p, b),
         ~b => BaselineResolve(p) = Absent, \A q \in Paths : IsStrictPrefix(p, q) => Tree(q) = Absent
  PROVE  Shown' = [Shown EXCEPT ![p] = Absent]
<1> DEFINE e == IF b THEN Tombstone ELSE NoEntry
<1>1. overlay' = [overlay EXCEPT ![p] = e]
  BY DEF TombstoneOrClear
<1>2. Walked(p)' /\ overlay'[p] = e
  BY <1>1, WalkAt
<1>3. Tree(p)' = Absent
  BY <1>2, ContentNext DEF EntryShows, Tombstone, NoEntry, Entry
<1>4. \A q \in Paths : IsStrictPrefix(p, q) => Tree(q)' = Absent
  BY <1>3, NothingBelowNext DEF Held, BareBelow
<1> QED  BY <1>1, <1>3, <1>4, ShownAt

LEMMA UnlinkStep ==
  ASSUME Kept, Kept', NEW p \in Paths, Unlink(p)
  PROVE  Posix!Unlink(p)
<1>1. Held(p) /\ ~IsDir(p) /\ Walked(p)
  BY DEF Unlink, Held, Tree
<1>2. CASE p = GITFILE
  <2>1. Refused("unlink", p)
    BY <1>2 DEF Unlink
  <2> QED  BY <1>1, <1>2, <2>1, RefuseStep, SameTests DEF Posix!Unlink
<1>3. CASE p # GITFILE
  <2>1. /\ TombstoneOrClear(p, BaselineResolve(p) # Absent)
        /\ last' = [op |-> "unlink", path |-> p, ok |-> TRUE]
    BY <1>3 DEF Unlink, Done
  <2>2. \A q \in Paths : IsStrictPrefix(p, q) => Tree(q) = Absent
    BY <1>1, NothingBelow DEF BareBelow
  <2>3. Shown' = [Shown EXCEPT ![p] = Absent]
    BY <1>1, <1>3, <2>1, <2>2, RemoveStep
  <2>4. Posix!Absent = Absent
    BY DEF Posix!Absent, Absent, Entry
  <2> QED  BY <1>1, <1>3, <2>1, <2>3, <2>4, SameTests DEF Posix!Unlink, Posix!Answer, Posix!Done, Shown
<1> QED  BY <1>2, <1>3

\* Directories are made where the baseline has no file or symlink.
DirsApart == \A p \in Paths : overlay[p] = DirEntry => p \notin Blobs

LEMMA RmdirStep ==
  ASSUME Kept, Kept', DirsApart, NEW p \in Paths, Rmdir(p)
  PROVE  Posix!Rmdir(p)
<1>1. Held(p) /\ IsDir(p) /\ Walked(p) /\ p # GITFILE /\ p # <<>>
  BY GitfileHeld, PathSeq DEF Rmdir, Held, Tree
<1>2. Tree(p) = DirEntry
  BY <1>1, Content DEF EntryShows, IsDir
<1>3. Shown[p] = Posix!ADir
  BY <1>2 DEF Shown, Posix!ADir, DirEntry, Entry
<1>4. DirIsEmpty(p) <=> Posix!EmptyDir(p)
  BY <1>1, EmptyDirs, SameTests
<1>5. CASE ~DirIsEmpty(p)
  <2>1. Refused("rmdir", p)
    BY <1>5 DEF Rmdir
  <2> QED  BY <1>3, <1>4, <1>5, <2>1, RefuseStep DEF Posix!Rmdir, Shown
<1>6. CASE DirIsEmpty(p)
  <2>1. TombstoneOrClear(p, p \in BaselineDirs) /\ last' = [op |-> "rmdir", path |-> p, ok |-> TRUE]
    BY <1>6 DEF Rmdir, Done
  <2>2. p \notin BaselineDirs => BaselineResolve(p) = Absent
    <3>1. CASE overlay[p].kind = "dir"
      BY <3>1, EntryKinds, BaselineKinds DEF DirsApart, Baseline
    <3>2. CASE overlay[p].kind = "none"
      BY <1>1, <1>2, <3>2, Content, BaselineKinds DEF EntryShows
    <3>3. CASE overlay[p].kind = "baseref"
      <4>1. Tree(p) = BaselineResolve(overlay[p].val) /\ overlay[p].val \in Blobs
        BY <1>1, <3>3, Content DEF EntryShows
      <4>2. BaselineResolve(overlay[p].val).kind # "dir"
        BY <4>1, BaselineKinds
      <4> QED  BY <1>2, <4>1, <4>2 DEF DirEntry, Entry
    <3>4. CASE overlay[p].kind = "tombstone"
      BY <1>1, <1>2, <3>4, Content DEF EntryShows, DirEntry, Absent, Entry
    <3>5. CASE overlay[p].kind \in {"file", "symlink"}
      BY <1>1, <1>2, <3>5, Content DEF EntryShows, DirEntry, Entry
    <3> QED  BY <3>1, <3>2, <3>3, <3>4, <3>5, EntryKinds
  <2>3. \A q \in Paths : IsStrictPrefix(p, q) => Tree(q) = Absent
    BY <1>1, <1>6, EmptyDirs DEF Held
  <2>4. Shown' = [Shown EXCEPT ![p] = Absent]
    <3>1. (p \in BaselineDirs) \in BOOLEAN
      OBVIOUS
    <3> QED  BY <1>1, <2>1, <2>2, <2>3, <3>1, RemoveStep
  <2>5. Posix!Absent = Absent
    BY DEF Posix!Absent, Absent, Entry
  <2> QED  BY <1>3, <1>4, <1>6, <2>1, <2>4, <2>5 DEF Posix!Rmdir, Posix!Answer, Posix!Done, Shown
<1> QED  BY <1>5, <1>6

LEMMA WriteStep ==
  ASSUME Kept, Kept', NEW p \in Paths, NEW c, Write(p, c)
  PROVE  Posix!Write(p, c)
<1>1. Tree(p).kind \in {"file", "gitfile"} /\ last' = [op |-> "write", path |-> p, ok |-> p # GITFILE]
      /\ overlay' = IF p = GITFILE THEN overlay ELSE [overlay EXCEPT ![p] = File(c)]
  BY DEF Write
<1>2. Posix!Answer("write", p) /\ Shown[p] = Tree(p)
  BY <1>1 DEF Posix!Answer, Shown
<1>3. CASE p = GITFILE
  <2>1. Shown' = Shown
    BY <1>1, <1>3, ReadsAbove DEF Shown
  <2> QED  BY <1>1, <1>2, <1>3, <2>1 DEF Posix!Write, Posix!Refused, Shown
<1>4. CASE p # GITFILE
  <2>1. Walked(p)
    BY <1>1 DEF Tree, Absent, Entry
  <2>2. Walked(p)' /\ overlay'[p] = File(c)
    BY <1>1, <1>4, <2>1, WalkAt
  <2>3. Tree(p).kind = "file"
    BY <1>1, <1>4, <2>1, Content DEF EntryShows
  <2>4. Tree(p)' = File(c) /\ File(c).kind = "file"
    BY <1>4, <2>2, ContentNext DEF EntryShows, File, Entry
  <2>5. ~IsDir(p) /\ ~IsDir(p)'
    BY <2>3, <2>4, PathSeq DEF IsDir
  <2>6. \A q \in Paths : IsStrictPrefix(p, q) => Tree(q) = Absent /\ Tree(q)' = Absent
    BY <2>5, NothingBelow, NothingBelowNext DEF BareBelow
  <2>7. Shown' = [Shown EXCEPT ![p] = File(c)]
    BY <1>1, <1>4, <2>4, <2>6, ShownAt
  <2>8. Tree(p) = File(Tree(p).val)
    <3>1. CASE overlay[p].kind \in {"file", "symlink", "dir"}
      BY <1>4, <2>1, <2>3, <3>1, Content, EntryKinds DEF EntryShows, File, Entry
    <3>2. CASE overlay[p].kind \in {"none", "baseref"}
      BY <1>4, <2>1, <2>3, <3>2, Content, BaselineKinds DEF EntryShows, File, Symlink, Entry
    <3>3. CASE overlay[p].kind = "tombstone"
      BY <1>4, <2>1, <2>3, <3>3, Content DEF EntryShows, Absent, Entry
    <3> QED  BY <3>1, <3>2, <3>3, EntryKinds
  <2>9. Shown' = [Shown EXCEPT ![p].val = c]
    <3>1. [Shown[p] EXCEPT !.val = c] = File(c)
      BY <1>2, <2>8 DEF File, Entry
    <3> QED  BY <2>7, <3>1
  <2> QED  BY <1>1, <1>2, <1>4, <2>3, <2>9 DEF Posix!Write, Posix!Done, Shown
<1> QED  BY <1>3, <1>4

-----------------------------------------------------------------------------
(* A rename. *)

\* The walk to a path depends on the entries above it.
LEMMA WalksAbove ==
  ASSUME NEW q \in Paths, \A a \in Paths : IsStrictPrefix(a, q) => overlay'[a] = overlay[a]
  PROVE  /\ Walked(q)' <=> Walked(q)
         /\ \A a \in Paths : IsStrictPrefix(a, q) => Resolve(a)' = Resolve(a)
<1>1. ASSUME NEW p \in Paths, IsStrictPrefix(p, q)
      PROVE  Resolve(p)' = Resolve(p)
  <2>1. AncestorTombstoned(p)' <=> AncestorTombstoned(p)
    BY <1>1, PathOrder DEF AncestorTombstoned, IsStrictPrefix
  <2>2. overlay'[p] = overlay[p]
    BY <1>1
  <2> QED  BY <2>1, <2>2 DEF Resolve
<1> QED  BY <1>1 DEF Walked

LEMMA OriginBelow ==
  ASSUME NEW s \in Paths, NEW d \in Paths, NEW q \in Paths, IsPrefix(d, q)
  PROVE  /\ IsPrefix(s, Origin(q, s, d)) /\ Origin(d, s, d) = s /\ Origin(Origin(q, s, d), d, s) = q
         /\ q # d => IsStrictPrefix(s, Origin(q, s, d))
<1>1. s \in Seq(Names) /\ d \in Seq(Names) /\ q \in Seq(Names)
  BY PathSeq
<1>2. IsPrefix(d, d) /\ IsPrefix(s, s)
  BY PathOrder
<1>3. IsPrefix(s, Origin(q, s, d)) /\ Origin(Origin(q, s, d), d, s) = q
  BY <1>1, OriginPath
<1>4. Origin(d, s, d) = s /\ Origin(s, d, s) = d
  BY <1>1, <1>2, OriginOrder
<1>5. q # d => Origin(q, s, d) # s
  BY <1>3, <1>4
<1> QED  BY <1>3, <1>4, <1>5 DEF IsStrictPrefix

\* What the renamed tree must show, path by path.
LEMMA MovedAt ==
  ASSUME NEW s \in Paths, NEW d \in Paths,
         \A q \in Paths :
           /\ IsPrefix(d, q) /\ Origin(q, s, d) \in Paths => Tree(q)' = Tree(Origin(q, s, d))
           /\ IsPrefix(d, q) /\ Origin(q, s, d) \notin Paths => Tree(q)' = Absent
           /\ ~IsPrefix(d, q) /\ IsPrefix(s, q) => Tree(q)' = Absent
           /\ ~IsPrefix(d, q) /\ ~IsPrefix(s, q) => Tree(q)' = Tree(q)
  PROVE  Shown' = Posix!Moved(s, d)
<1> DEFINE at(q) == IF IsPrefix(d, q)
                      THEN IF Origin(q, s, d) \in Paths THEN Shown[Origin(q, s, d)] ELSE Absent
                    ELSE IF IsPrefix(s, q) THEN Absent
                    ELSE Shown[q]
<1>1. Posix!Moved(s, d) = [q \in Paths |-> at(q)]
  BY SameWords DEF Posix!Moved, Origin, Posix!Absent, Absent, Entry, Shown
<1>2. \A q \in Paths : Tree(q)' = at(q)
  BY DEF Shown
<1>3. Shown' = [q \in Paths |-> Tree(q)']
  BY DEF Shown
<1> HIDE DEF at
<1> QED  BY <1>1, <1>2, <1>3

LEMMA RenameFileShown ==
  ASSUME Kept, Kept', NEW s \in Paths, NEW d \in Paths, GITFILE \notin {s, d},
         Held(s), ~IsDir(s), IsDir(Front(d)), ~IsPrefix(s, d), ~IsPrefix(d, s), Held(d) => ~IsDir(d),
         overlay' = RenameFile(s, d)
  PROVE  Shown' = Posix!Moved(s, d)
<1>1. Walked(s) /\ Walked(d) /\ s # d /\ d # <<>>
  BY WalkEnds, PathOrder, PathSeq DEF Held, Tree
<1>2. ~Held(d) \/ ~IsDir(d)
  OBVIOUS
<1>3. /\ overlay'[d] = IF overlay[s] # NoEntry THEN overlay[s] ELSE BaseRef(s)
      /\ overlay'[s] = IF overlay[s] # NoEntry /\ BaselineResolve(s) = Absent THEN NoEntry ELSE Tombstone
      /\ \A a \in Paths : a # s /\ a # d => overlay'[a] = overlay[a]
  BY <1>1 DEF RenameFile, Kept
<1>4. Walked(s)' /\ Walked(d)'
  <2>1. \A a \in Paths : IsStrictPrefix(a, s) => overlay'[a] = overlay[a]
    BY <1>3 DEF IsStrictPrefix
  <2>2. \A a \in Paths : IsStrictPrefix(a, d) => overlay'[a] = overlay[a]
    BY <1>3 DEF IsStrictPrefix
  <2> QED  BY <1>1, <2>1, <2>2, WalksAbove
<1>5. Tree(s)' = Absent
  <2>1. EntryShows(s)'
    BY <1>4, ContentNext
  <2> QED  BY <1>3, <2>1 DEF EntryShows, NoEntry, Tombstone, Entry
<1>6. Tree(d)' = Tree(s)
  <2>1. EntryShows(s) /\ EntryShows(d)'
    BY <1>1, <1>4, Content, ContentNext
  <2>2. CASE overlay[s].kind \in {"file", "symlink"}
    BY <1>3, <2>1, <2>2 DEF EntryShows, NoEntry, Entry
  <2>3. CASE overlay[s].kind = "baseref"
    BY <1>3, <2>1, <2>3 DEF EntryShows, NoEntry, Entry
  <2>4. CASE overlay[s].kind = "none"
    <3>1. overlay'[d] = BaseRef(s)
      BY <1>3, <2>4, EntryKinds
    <3>2. Tree(s) = BaselineResolve(s)
      BY <2>1, <2>4 DEF EntryShows
    <3> QED  BY <2>1, <3>1, <3>2 DEF EntryShows, BaseRef, Entry, BaselineResolve
  <2>5. CASE overlay[s].kind \in {"tombstone", "dir"}
    BY <2>1, <2>5, PathSeq DEF EntryShows, Held, IsDir, DirEntry, Entry
  <2> QED  BY <2>2, <2>3, <2>4, <2>5, EntryKinds
<1>7. \A q \in Paths : IsStrictPrefix(s, q) => Tree(q) = Absent /\ Tree(q)' = Absent
  BY <1>5, NothingBelow, NothingBelowNext DEF BareBelow, Held
<1>8. \A q \in Paths : IsStrictPrefix(d, q) => Tree(q)' = Absent
  <2>1. ~IsDir(d)'
    BY <1>1, <1>6, PathSeq DEF IsDir
  <2> QED  BY <2>1, NothingBelowNext DEF BareBelow
<1>9. ASSUME NEW q \in Paths
      PROVE  /\ IsPrefix(d, q) /\ Origin(q, s, d) \in Paths => Tree(q)' = Tree(Origin(q, s, d))
             /\ IsPrefix(d, q) /\ Origin(q, s, d) \notin Paths => Tree(q)' = Absent
             /\ ~IsPrefix(d, q) /\ IsPrefix(s, q) => Tree(q)' = Absent
             /\ ~IsPrefix(d, q) /\ ~IsPrefix(s, q) => Tree(q)' = Tree(q)
  <2>1. CASE q = d
    <3>1. IsPrefix(d, q) /\ Origin(q, s, d) = s
      BY <2>1, PathOrder, OriginBelow
    <3> QED  BY <1>6, <2>1, <3>1
  <2>2. CASE IsStrictPrefix(d, q)
    <3>1. IsPrefix(d, q) /\ Tree(q)' = Absent /\ IsStrictPrefix(s, Origin(q, s, d))
      BY <1>8, <2>2, OriginBelow DEF IsStrictPrefix
    <3> QED  BY <1>7, <3>1
  <2>3. CASE ~IsPrefix(d, q) /\ IsPrefix(s, q)
    BY <1>5, <1>7, <2>3 DEF IsStrictPrefix
  <2>4. CASE ~IsPrefix(d, q) /\ ~IsPrefix(s, q)
    <3>1. \A a \in Paths : IsPrefix(a, q) => overlay'[a] = overlay[a]
      BY <1>3, <2>4
    <3> QED  BY <2>4, <3>1, ReadsAbove
  <2> QED  BY <2>1, <2>2, <2>3, <2>4 DEF IsStrictPrefix
<1> QED  BY <1>9, MovedAt

LEMMA RenameDirShown ==
  ASSUME Kept, Kept', NEW s \in Paths, NEW d \in Paths, GITFILE \notin {s, d},
         Held(s), IsDir(s), IsDir(Front(d)), ~IsPrefix(s, d), ~IsPrefix(d, s),
         Bare(d), overlay' = RenameDir(s, d)
  PROVE  Shown' = Posix!Moved(s, d)
<1> DEFINE from(q) == Origin(q, s, d)
           Taken(q) == from(q) \in Paths /\ Held(from(q))
<1>1. Walked(d) /\ Walked(s)
  BY WalkEnds DEF Held, Tree
<1>2. ASSUME NEW q \in Paths, IsPrefix(d, q)
      PROVE  /\ ~IsPrefix(s, q) /\ q # GITFILE
             /\ overlay'[q] = IF Taken(q) THEN Moved(from(q)) ELSE overlay[q]
             /\ IsPrefix(s, from(q))
             /\ q = d => from(q) = s
  <2>1. ~IsPrefix(s, q)
    BY <1>2, PathOrder
  <2>2. q # GITFILE
    BY <1>2, GitfileAlone
  <2> QED  BY <1>2, <2>1, <2>2, OriginBelow DEF RenameDir
<1>3. \A a \in Paths : ~IsPrefix(d, a) /\ ~IsPrefix(s, a) => overlay'[a] = overlay[a]
  BY DEF RenameDir
<1>4. ASSUME NEW q \in Paths, IsPrefix(d, q), Taken(q)
      PROVE  Walked(q)'
  <2>1. Walked(from(q))
    BY <1>4 DEF Held, Tree
  <2> SUFFICES ASSUME NEW a \in Paths, IsStrictPrefix(a, q)
               PROVE  Resolve(a)'.kind = "dir"
    BY DEF Walked
  <2>2. CASE IsPrefix(d, a)
    <3>1. IsPrefix(a, q) /\ a # q /\ a \in Seq(Names) /\ q \in Seq(Names) /\ s \in Seq(Names) /\ d \in Seq(Names)
          /\ s # <<>>
      BY PathSeq DEF IsStrictPrefix
    <3>2. IsPrefix(from(a), from(q)) /\ from(a) # <<>> /\ from(a) \in Seq(Names)
      BY <2>2, <3>1, OriginOrder, OriginPath
    <3>3. from(a) # from(q)
      BY <1>4, <2>2, <3>1, OriginPath
    <3>4. IsStrictPrefix(from(a), from(q))
      BY <3>2, <3>3 DEF IsStrictPrefix
    <3>5. from(a) \in Paths
      BY <1>4, <3>2, <3>4, AbovePath
    <3>6. Held(from(a)) /\ IsDir(from(a)) /\ from(a) # <<>>
      BY <1>4, <2>1, <3>2, <3>4, <3>5, WalkEnds
    <3>7. overlay'[a] = DirEntry /\ a # GITFILE
      BY <1>2, <2>2, <3>5, <3>6 DEF Moved, IsDir
    <3> QED  BY <3>7 DEF Resolve, DirEntry, Tombstone, Entry
  <2>3. CASE ~IsPrefix(d, a)
    <3>1. IsStrictPrefix(a, d)
      BY <1>4, <2>3, PathOrder DEF IsStrictPrefix
    <3>2. ASSUME NEW b \in Paths, IsStrictPrefix(b, d)
          PROVE  overlay'[b] = overlay[b]
      <4>1. ~IsPrefix(s, b)
        BY <3>2, PathOrder DEF IsStrictPrefix
      <4>2. ~IsPrefix(d, b)
        BY <3>2, PathOrder DEF IsStrictPrefix
      <4> QED  BY <1>3, <4>1, <4>2
    <3>3. Resolve(a)' = Resolve(a)
      BY <3>1, <3>2, WalksAbove
    <3> QED  BY <1>1, <3>1, <3>3 DEF Walked
  <2> QED  BY <2>2, <2>3
<1>5. ASSUME NEW q \in Paths, IsPrefix(d, q), Taken(q)
      PROVE  Tree(q)' = Tree(from(q))
  <2> DEFINE o == from(q)
  <2>1. Walked(o) /\ o \in Paths /\ o # GITFILE
    BY <1>2, <1>5, GitfileAlone DEF Held, Tree
  <2>2. overlay'[q] = Moved(o) /\ q # GITFILE /\ Walked(q)'
    BY <1>2, <1>4, <1>5
  <2>3. EntryShows(o) /\ EntryShows(q)'
    BY <2>1, <2>2, Content, ContentNext
  <2> HIDE DEF o
  <2>4. CASE Tree(o).kind = "dir"
    BY <2>2, <2>3, <2>4 DEF Moved, EntryShows, DirEntry, Entry, o
  <2>5. CASE Tree(o).kind # "dir" /\ overlay[o].kind \in {"file", "symlink"}
    BY <2>2, <2>3, <2>5 DEF Moved, EntryShows, o
  <2>6. CASE Tree(o).kind # "dir" /\ overlay[o].kind \notin {"file", "symlink"}
    <3>1. overlay'[q] = BaseRef(Tree(o).val)
      BY <2>2, <2>6 DEF Moved
    <3>2. Tree(o) = BaselineResolve(Tree(o).val)
      <4>1. Tree(o).kind \in {"file", "symlink"} /\ Tree(o) # Absent
        BY <1>5, <2>3, <2>6 DEF EntryShows, Held, o
      <4>2. CASE overlay[o].kind = "baseref"
        BY <2>3, <4>2, BaselineKinds DEF EntryShows
      <4>3. CASE overlay[o].kind = "none"
        BY <2>3, <4>1, <4>3, BaselineKinds DEF EntryShows
      <4>4. CASE overlay[o].kind \in {"tombstone", "dir"}
        BY <2>3, <2>6, <4>1, <4>4 DEF EntryShows
      <4> QED  BY <2>1, <2>6, <4>2, <4>3, <4>4, EntryKinds
    <3> QED  BY <2>3, <3>1, <3>2 DEF EntryShows, BaseRef, Entry, BaselineResolve, o
  <2> QED  BY <2>4, <2>5, <2>6 DEF o
<1>6. ASSUME NEW q \in Paths, IsPrefix(d, q), ~Taken(q)
      PROVE  Tree(q)' = Absent
  <2>1. overlay'[q] = overlay[q] /\ q # GITFILE /\ q # d
    BY <1>2, <1>6
  <2>2. overlay[q] = Tombstone \/ (overlay[q] = NoEntry /\ BaselineResolve(q) = Absent)
    BY <1>6, <2>1 DEF Bare, IsStrictPrefix
  <2>3. Walked(q)' => EntryShows(q)'
    BY <2>1, ContentNext
  <2>4. Walked(q)' => Tree(q)' = Absent
    BY <2>1, <2>2, <2>3 DEF EntryShows, Tombstone, NoEntry, Entry
  <2> QED  BY <2>4 DEF Tree
<1>7. Tree(s)' = Absent
  <2>1. overlay'[s] = Tombstone /\ s # GITFILE
    BY PathOrder DEF RenameDir
  <2>2. Walked(s)' => Tree(s)' = Absent
    BY <2>1, ContentNext DEF EntryShows, Tombstone, Entry
  <2> QED  BY <2>2 DEF Tree
<1>8. \A q \in Paths : IsPrefix(s, q) => Tree(q)' = Absent
  BY <1>7, NothingBelowNext DEF BareBelow, Held, IsStrictPrefix
<1>9. ASSUME NEW q \in Paths, ~IsPrefix(d, q), ~IsPrefix(s, q)
      PROVE  Tree(q)' = Tree(q)
  <2>1. ASSUME NEW a \in Paths, IsPrefix(a, q)
        PROVE  overlay'[a] = overlay[a]
    <3>1. ~IsPrefix(d, a) /\ ~IsPrefix(s, a)
      BY <1>9, <2>1, PathOrder
    <3> QED  BY <1>3, <3>1
  <2> QED  BY <2>1, ReadsAbove
<1>10. ASSUME NEW q \in Paths, IsPrefix(d, q), from(q) \in Paths
       PROVE  Tree(q)' = Tree(from(q))
  BY <1>5, <1>6, <1>10 DEF Held
<1> QED  BY <1>6, <1>8, <1>9, <1>10, MovedAt

LEMMA RenameStep ==
  ASSUME Kept, Kept', ~Leftovers, NEW s \in Paths, NEW d \in Paths, NEW noreplace \in BOOLEAN,
         Rename(s, d, noreplace)
  PROVE  Posix!Rename(s, d, noreplace)
<1>1. /\ Held(s) /\ IsDir(Front(d)) /\ ~IsPrefix(s, d) /\ ~IsPrefix(d, s)
      /\ Held(d) => (IsDir(s) <=> IsDir(d))
  BY DEF Rename
<1>2. /\ Posix!Held(s) /\ Posix!IsDir(Posix!Front(d)) /\ ~Posix!IsPrefix(s, d) /\ ~Posix!IsPrefix(d, s)
      /\ Posix!Held(d) => (Posix!IsDir(s) <=> Posix!IsDir(d))
      /\ Posix!Held(d) <=> Held(d)
      /\ Posix!IsDir(s) <=> IsDir(s)
  <2>1. Front(d) \in Paths \union {<<>>}
    BY FrontPath
  <2> QED  BY <1>1, <2>1, SameTests, SameWords
<1>3. CASE GITFILE \in {s, d} \/ (noreplace /\ Held(d))
  <2>1. Refused("rename", d)
    BY <1>3 DEF Rename
  <2> QED  BY <1>2, <1>3, <2>1, RefuseStep DEF Posix!Rename
<1>4. CASE ~(GITFILE \in {s, d} \/ (noreplace /\ Held(d)))
  <2>1. /\ last' = [op |-> "rename", path |-> d, ok |-> TRUE]
        /\ IF IsDir(s) THEN BareFor(s, d) /\ overlay' = RenameDir(s, d) ELSE overlay' = RenameFile(s, d)
    BY <1>4 DEF Rename, Done
  <2>2. IsDir(s) => Posix!EmptyDir(d)
    <3> SUFFICES ASSUME IsDir(s), NEW q \in Paths, IsStrictPrefix(d, q)
                 PROVE  ~Held(q)
      BY SameTests
    <3>1. q # GITFILE
      BY GitfileAlone DEF IsStrictPrefix
    <3>2. overlay[q] = Tombstone \/ (overlay[q] = NoEntry /\ BaselineResolve(q) = Absent)
      BY <2>1 DEF BareFor, Bare
    <3>3. Walked(q) => Tree(q) = Absent
      BY <3>1, <3>2, Content DEF EntryShows, Tombstone, NoEntry, Entry
    <3> QED  BY <3>3 DEF Tree, Held
  <2>3. Shown' = Posix!Moved(s, d)
    <3>1. CASE IsDir(s)
      BY <1>1, <1>4, <2>1, <3>1, RenameDirShown DEF BareFor
    <3>2. CASE ~IsDir(s)
      BY <1>1, <1>4, <2>1, <3>2, RenameFileShown
    <3> QED  BY <3>1, <3>2
  <2> QED  BY <1>2, <1>4, <2>1, <2>2, <2>3 DEF Posix!Rename, Posix!Answer, Posix!Done, Shown
<1> QED  BY <1>3, <1>4

-----------------------------------------------------------------------------
(* What every callback keeps. *)

\* Contents stay among those written or named by the baseline.
LEMMA ContentKinds ==
  ASSUME Kept, NEW p \in Paths, p # GITFILE, Held(p), Tree(p).kind # "dir",
         overlay[p].kind \notin {"file", "symlink"}
  PROVE  Tree(p).val \in Blobs
<1>1. Walked(p)
  BY DEF Held, Tree
<1>2. EntryShows(p) /\ Tree(p) # Absent
  BY <1>1, Content DEF Held
<1>3. CASE overlay[p].kind = "baseref"
  BY <1>2, <1>3, BaselineKinds DEF EntryShows
<1>4. CASE overlay[p].kind = "none"
  BY <1>2, <1>4, BaselineKinds DEF EntryShows
<1>5. CASE overlay[p].kind \in {"tombstone", "dir"}
  BY <1>2, <1>5 DEF EntryShows
<1> QED  BY <1>3, <1>4, <1>5, EntryKinds

LEMMA MovedEntry ==
  ASSUME Kept, NEW c \in Paths, c # GITFILE, Held(c)
  PROVE  /\ Moved(c) \in Entries
         /\ Moved(c) = DirEntry => IsDir(c)
<1>1. CASE Tree(c).kind = "dir"
  BY <1>1, PathSeq DEF Moved, Entries, IsDir
<1>2. CASE Tree(c).kind # "dir" /\ overlay[c].kind \in {"file", "symlink"}
  <2>1. Moved(c) = overlay[c] /\ overlay[c] \in Entries /\ overlay[c] # DirEntry
    BY <1>2 DEF Moved, Kept, DirEntry, Entry
  <2> QED  BY <2>1
<1>3. CASE Tree(c).kind # "dir" /\ overlay[c].kind \notin {"file", "symlink"}
  <2>1. Moved(c) = BaseRef(Tree(c).val) /\ Tree(c).val \in Blobs
    BY <1>3, ContentKinds DEF Moved
  <2> QED  BY <2>1 DEF Entries, BaseRef, DirEntry, Entry
<1> QED  BY <1>1, <1>2, <1>3

LEMMA PutKept ==
  ASSUME Kept, NEW p \in Paths, p # GITFILE, NEW e \in Entries, overlay' = [overlay EXCEPT ![p] = e]
  PROVE  Kept'
BY TreeAssumption DEF Kept

LEMMA MakeKept ==
  ASSUME Kept, NEW p \in Paths, NEW op, NEW e \in Entries, PutEntry(op, p, e)
  PROVE  Kept'
BY GitfileHeld, PutKept DEF PutEntry

LEMMA RemoveKept ==
  ASSUME Kept, NEW p \in Paths, Unlink(p) \/ Rmdir(p)
  PROVE  Kept'
<1>1. Tombstone \in Entries /\ NoEntry \in Entries
  BY DEF Entries
<1>2. CASE UNCHANGED overlay
  BY <1>2 DEF Kept
<1>3. CASE \E b \in BOOLEAN : p # GITFILE /\ TombstoneOrClear(p, b)
  BY <1>1, <1>3, PutKept DEF TombstoneOrClear
<1>4. CASE Unlink(p)
  <2>1. (BaselineResolve(p) # Absent) \in BOOLEAN
    OBVIOUS
  <2> QED  BY <1>2, <1>3, <1>4, <2>1 DEF Unlink, Refused
<1>5. CASE Rmdir(p)
  <2>1. (p \in BaselineDirs) \in BOOLEAN
    OBVIOUS
  <2>2. p # GITFILE
    BY <1>5, GitfileHeld DEF Rmdir
  <2> QED  BY <1>2, <1>3, <1>5, <2>1, <2>2 DEF Rmdir, Refused
<1> QED  BY <1>4, <1>5

LEMMA WriteKept ==
  ASSUME Kept, NEW p \in Paths, NEW c \in Contents, Write(p, c)
  PROVE  Kept'
<1>1. File(c) \in Entries
  BY DEF Entries
<1>2. CASE p = GITFILE
  BY <1>2 DEF Write, Kept
<1>3. CASE p # GITFILE
  BY <1>1, <1>3, PutKept DEF Write
<1> QED  BY <1>2, <1>3

LEMMA RenameFileKept ==
  ASSUME Kept, NEW s \in Paths, NEW d \in Paths, GITFILE \notin {s, d}, Held(s), ~IsDir(s),
         overlay' = RenameFile(s, d)
  PROVE  Kept' /\ (DirsApart => DirsApart')
<1>1. s # d => overlay'[d] = IF overlay[s] # NoEntry THEN overlay[s] ELSE BaseRef(s)
  BY DEF RenameFile, Kept
<1>2. overlay' \in [Paths -> {overlay[s], BaseRef(s), NoEntry, Tombstone} \union Entries]
  BY DEF RenameFile, Kept
<1>3. Walked(s) /\ EntryShows(s)
  BY Content DEF Held, Tree
<1>4. overlay[s] = NoEntry => s \in Blobs
  BY <1>3, BaselineKinds, PathSeq DEF EntryShows, NoEntry, Entry, Held, IsDir
<1>5. overlay[s] = NoEntry => BaseRef(s) \in Entries
  BY <1>4 DEF Entries
<1>6. overlay[s] \in Entries /\ NoEntry \in Entries /\ Tombstone \in Entries
  BY DEF Entries, Kept
<1>7. RenameFile(s, d) \in [Paths -> Entries]
  <2> DEFINE e == IF overlay[s] # NoEntry THEN overlay[s] ELSE BaseRef(s)
             x == IF overlay[s] # NoEntry /\ BaselineResolve(s) = Absent THEN NoEntry ELSE Tombstone
  <2>1. e \in Entries /\ x \in Entries
    BY <1>5, <1>6
  <2>2. RenameFile(s, d) = [overlay EXCEPT ![d] = e, ![s] = x]
    BY DEF RenameFile
  <2> HIDE DEF e, x
  <2> QED  BY <2>1, <2>2 DEF Kept
<1>8. overlay'[GITFILE] = overlay[GITFILE]
  BY TreeAssumption DEF RenameFile, Kept
<1>9. overlay[s] # DirEntry
  BY <1>3, PathSeq DEF EntryShows, DirEntry, Entry, IsDir
<1>10. \A q \in Paths : overlay'[q] = DirEntry => overlay[q] = DirEntry
  <2>1. NoEntry # DirEntry /\ Tombstone # DirEntry /\ BaseRef(s) # DirEntry
    BY DEF NoEntry, DirEntry, Tombstone, BaseRef, Entry
  <2> QED  BY <1>9, <2>1 DEF RenameFile, Kept
<1> QED  BY <1>7, <1>8, <1>10 DEF Kept, DirsApart

LEMMA RenameDirKept ==
  ASSUME Kept, NEW s \in Paths, NEW d \in Paths, GITFILE \notin {s, d}, overlay' = RenameDir(s, d)
  PROVE  Kept' /\ (DirsApart /\ BareFor(s, d) => DirsApart')
<1>1. ASSUME NEW q \in Paths
      PROVE  /\ overlay'[q] \in Entries
             /\ DirsApart /\ BareFor(s, d) /\ overlay'[q] = DirEntry => q \notin Blobs
  <2> DEFINE o == Origin(q, s, d)
  <2>1. CASE IsPrefix(d, q) /\ o \in Paths /\ Held(o)
    <3>1. overlay'[q] = Moved(o)
      BY <2>1 DEF RenameDir
    <3>2. IsPrefix(s, o) /\ Origin(o, d, s) = q
      BY <2>1, OriginBelow
    <3>3. o # GITFILE
      BY <2>1, <3>2, GitfileAlone
    <3>4. Moved(o) \in Entries /\ (Moved(o) = DirEntry => IsDir(o))
      BY <2>1, <3>3, MovedEntry
    <3> HIDE DEF o
    <3>5. BareFor(s, d) /\ IsDir(o) => Origin(o, d, s) \notin Blobs
      BY <2>1, <3>2 DEF BareFor
    <3> QED  BY <3>1, <3>2, <3>4, <3>5
  <2>2. CASE ~(IsPrefix(d, q) /\ o \in Paths /\ Held(o))
    <3>1. overlay'[q] \in {Tombstone, NoEntry, overlay[q]}
      BY <2>2 DEF RenameDir
    <3> QED  BY <3>1 DEF Kept, Entries, DirsApart, Tombstone, NoEntry, DirEntry, Entry
  <2> QED  BY <2>1, <2>2
<1>2. overlay'[GITFILE] = overlay[GITFILE]
  <2>1. ~IsPrefix(d, GITFILE) /\ ~IsPrefix(s, GITFILE)
    BY GitfileAlone
  <2> QED  BY <2>1, TreeAssumption DEF RenameDir
<1>3. overlay' = [q \in Paths |-> overlay'[q]]
  BY DEF RenameDir
<1> QED  BY <1>1, <1>2, <1>3 DEF Kept, DirsApart

LEMMA KeptStep ==
  ASSUME Kept, [Next]_vars
  PROVE  Kept'
<1>1. ASSUME NEW p \in Paths, Create(p)  PROVE Kept'
  <2>1. File(<<>>) \in Entries
    BY DEF Entries
  <2> QED  BY <1>1, <2>1, MakeKept DEF Create
<1>2. ASSUME NEW p \in Paths, Mkdir(p)  PROVE Kept'
  <2>1. DirEntry \in Entries
    BY DEF Entries
  <2> QED  BY <1>2, <2>1, MakeKept DEF Mkdir
<1>3. ASSUME NEW p \in Paths, NEW c \in Contents, PutSymlink(p, c)  PROVE Kept'
  <2>1. Symlink(c) \in Entries
    BY DEF Entries
  <2> QED  BY <1>3, <2>1, MakeKept DEF PutSymlink
<1>4. ASSUME NEW s \in Paths, NEW d \in Paths, NEW noreplace \in BOOLEAN, Rename(s, d, noreplace)  PROVE Kept'
  <2>1. CASE UNCHANGED overlay
    BY <2>1 DEF Kept
  <2>2. CASE GITFILE \notin {s, d} /\ Held(s) /\ IsDir(s) /\ overlay' = RenameDir(s, d)
    BY <2>2, RenameDirKept
  <2>3. CASE GITFILE \notin {s, d} /\ Held(s) /\ ~IsDir(s) /\ overlay' = RenameFile(s, d)
    BY <2>3, RenameFileKept
  <2> QED  BY <1>4, <2>1, <2>2, <2>3 DEF Rename, Refused
<1>5. CASE UNCHANGED vars
  BY <1>5 DEF vars, Kept
<1> QED  BY <1>1, <1>2, <1>3, <1>4, <1>5, RemoveKept, WriteKept DEF Next

LEMMA ApartStep ==
  ASSUME Kept, Kept', DirsApart, ~Leftovers, [Next]_vars
  PROVE  DirsApart'
<1>1. ASSUME NEW p \in Paths, NEW e, overlay' = [overlay EXCEPT ![p] = e], e = DirEntry => p \notin Blobs
      PROVE  DirsApart'
  BY <1>1 DEF DirsApart, Kept
<1>2. CASE UNCHANGED overlay
  BY <1>2 DEF DirsApart
<1>3. /\ \A c : File(c) # DirEntry /\ Symlink(c) # DirEntry
      /\ NoEntry # DirEntry /\ Tombstone # DirEntry
  BY DEF File, Symlink, NoEntry, Tombstone, DirEntry, Entry
<1>4. ASSUME NEW p \in Paths, Create(p)  PROVE DirsApart'
  BY <1>1, <1>3, <1>4 DEF Create, PutEntry
<1>5. ASSUME NEW p \in Paths, Mkdir(p)  PROVE DirsApart'
  BY <1>1, <1>5 DEF Mkdir, PutEntry, Bare
<1>6. ASSUME NEW p \in Paths, NEW c \in Contents, PutSymlink(p, c)  PROVE DirsApart'
  BY <1>1, <1>3, <1>6 DEF PutSymlink, PutEntry
<1>7. ASSUME NEW p \in Paths, NEW b, TombstoneOrClear(p, b)  PROVE DirsApart'
  BY <1>1, <1>3, <1>7 DEF TombstoneOrClear
<1>8. ASSUME NEW p \in Paths, Unlink(p) \/ Rmdir(p)  PROVE DirsApart'
  BY <1>2, <1>7, <1>8 DEF Unlink, Rmdir, Refused
<1>9. ASSUME NEW p \in Paths, NEW c \in Contents, Write(p, c)  PROVE DirsApart'
  BY <1>1, <1>2, <1>3, <1>9 DEF Write
<1>10. ASSUME NEW s \in Paths, NEW d \in Paths, NEW noreplace \in BOOLEAN, Rename(s, d, noreplace)
       PROVE  DirsApart'
  <2>1. CASE GITFILE \notin {s, d} /\ BareFor(s, d) /\ overlay' = RenameDir(s, d)
    BY <2>1, RenameDirKept
  <2>2. CASE GITFILE \notin {s, d} /\ Held(s) /\ ~IsDir(s) /\ overlay' = RenameFile(s, d)
    BY <2>2, RenameFileKept
  <2> QED  BY <1>2, <1>10, <2>1, <2>2 DEF Rename, Refused
<1>11. CASE UNCHANGED vars
  BY <1>2, <1>11 DEF vars
<1> QED  BY <1>4, <1>5, <1>6, <1>8, <1>9, <1>10, <1>11 DEF Next

LEMMA PosixStep ==
  ASSUME Kept, Kept', DirsApart, ~Leftovers, [Next]_vars
  PROVE  [Posix!Next]_<<Shown, last>>
<1>1. ASSUME NEW p \in Paths, Create(p)  PROVE Posix!Make("create", p, Posix!AFile(<<>>))
  <2>1. File(<<>>).kind \in {"file", "symlink"} /\ File(<<>>) = Posix!AFile(<<>>)
    BY DEF File, Entry, Posix!AFile
  <2> QED  BY <1>1, <2>1, MakeStep DEF Create
<1>2. ASSUME NEW p \in Paths, Mkdir(p)  PROVE Posix!Make("mkdir", p, Posix!ADir)
  <2>1. DirEntry = Posix!ADir
    BY DEF DirEntry, Entry, Posix!ADir
  <2> QED  BY <1>2, <2>1, MakeStep DEF Mkdir
<1>3. ASSUME NEW p \in Paths, NEW c \in Contents, PutSymlink(p, c)  PROVE Posix!Make("symlink", p, Posix!ALink(c))
  <2>1. Symlink(c).kind \in {"file", "symlink"} /\ Symlink(c) = Posix!ALink(c)
    BY DEF Symlink, Entry, Posix!ALink
  <2> QED  BY <1>3, <2>1, MakeStep DEF PutSymlink
<1>4. CASE UNCHANGED vars
  <2>1. \A q \in Paths : Tree(q)' = Tree(q)
    BY <1>4, ReadsAbove DEF vars
  <2> QED  BY <1>4, <2>1 DEF vars, Shown
<1>5. CASE Next
  BY <1>1, <1>2, <1>3, <1>5, UnlinkStep, RmdirStep, RenameStep, WriteStep DEF Next, Posix!Next
<1> QED  BY <1>4, <1>5

LEMMA KeptInit ==
  ASSUME Init
  PROVE  Kept /\ DirsApart
BY TreeAssumption DEF Init, Kept, DirsApart, Entries, NoEntry, DirEntry, Entry

LEMMA PosixInit ==
  ASSUME Init
  PROVE  Posix!Init
<1>1. Kept /\ \A a \in Paths : overlay[a] = NoEntry
  BY KeptInit DEF Init
<1>2. ~ \E a \in Paths : overlay[a] = Tombstone
  BY <1>1 DEF NoEntry, Tombstone, Entry
<1>3. \A a \in Paths \ {GITFILE} : Resolve(a) = BaselineResolve(a)
  BY <1>1, <1>2 DEF Resolve, AncestorTombstoned, NoEntry, Entry
<1>4. ASSUME NEW q \in Paths
      PROVE  Tree(q) = IF q = GITFILE THEN Gitfile ELSE BaselineResolve(q)
  <2>1. CASE q = GITFILE
    BY <1>1, <2>1, GitfileHeld
  <2>2. CASE q # GITFILE /\ q \in Baseline
    <3>1. ASSUME NEW a \in Paths, IsStrictPrefix(a, q)
          PROVE  Resolve(a).kind = "dir"
      <4>1. a \in Above(q)
        BY <3>1, AbovePath, PathSeq
      <4>2. a \in BaselineDirs /\ a # GITFILE
        BY <2>2, <4>1, TreeAssumption DEF Baseline
      <4> QED  BY <1>3, <4>2, BaselineKinds
    <3> QED  BY <1>3, <2>2, <3>1 DEF Tree, Walked
  <2>3. CASE q # GITFILE /\ q \notin Baseline
    BY <1>3, <2>3, BaselineKinds DEF Tree
  <2> QED  BY <2>1, <2>2, <2>3
<1> QED  BY <1>4 DEF Init, Posix!Init

-----------------------------------------------------------------------------
(* What the callbacks record. *)

Change(a) ==
  \E r \in recorded' : /\ IsPrefix(r, a)
                       /\ r = a => \/ Front(a) = <<>> \/ Front(a) \in recorded'
                                   \/ Tree(a) # Absent /\ Tree(a)' # Absent

ListingsAgree == Kept => \A d \in Paths \union {<<>>} :
                   IsDir(d) => /\ Readdir(d) = {p \in Children(d) : Resolve(p) # Absent}
                               /\ \A p \in Children(d) : Tree(p) = Resolve(p)

LEMMA ListingsAll == ListingsAgree
<1> SUFFICES ASSUME Kept, NEW d \in Paths \union {<<>>}, IsDir(d)
             PROVE  /\ Readdir(d) = {p \in Children(d) : Resolve(p) # Absent}
                    /\ \A p \in Children(d) : Tree(p) = Resolve(p)
  BY DEF ListingsAgree
<1>1. \A p \in Children(d) : Tree(p) = Resolve(p)
  BY WalkEnds DEF Children
<1> QED  BY <1>1, Listings

\* A recorded path or a recorded directory above it, for every node and listing.
LEMMA ChangeCovers ==
  ASSUME Kept, Kept', recorded' \subseteq Paths, \A a \in Paths : overlay'[a] # overlay[a] => Change(a),
         NEW p \in Paths
  PROVE  /\ Tree(p)' # Tree(p) => Covered(p)
         /\ (IsDir(p) /\ IsDir(p)' /\ Readdir(p)' # Readdir(p)) => Covered(p)
<1>1. ASSUME NEW q \in Paths, Tree(q)' # Tree(q)
      PROVE  \E a \in Paths : IsPrefix(a, q) /\ overlay'[a] # overlay[a]
  BY <1>1, ReadsAbove
<1>2. ASSUME Tree(p)' # Tree(p)
      PROVE  Covered(p)
  <2>1. PICK a \in Paths : IsPrefix(a, p) /\ overlay'[a] # overlay[a]
    BY <1>1, <1>2
  <2>2. PICK r \in recorded' : IsPrefix(r, a)
    BY <2>1 DEF Change
  <2> QED  BY <2>1, <2>2, PathOrder DEF Covered
<1>3. ASSUME IsDir(p), IsDir(p)', Readdir(p)' # Readdir(p)
      PROVE  Covered(p)
  <2>1. ListingsAgree /\ ListingsAgree'
    BY ListingsAll, PTL
  <2>2. /\ Readdir(p) = {c \in Children(p) : Resolve(c) # Absent}
        /\ \A c \in Children(p) : Tree(c) = Resolve(c)
    BY <1>3, <2>1 DEF ListingsAgree
  <2>3. /\ Readdir(p)' = {c \in Children(p) : Resolve(c)' # Absent}
        /\ \A c \in Children(p) : Tree(c)' = Resolve(c)'
    BY <1>3, <2>1 DEF ListingsAgree, Children, Absent, Entry
  <2>4. PICK c \in Children(p) : Resolve(c) # Absent <=> ~(Resolve(c)' # Absent)
    BY <1>3, <2>2, <2>3
  <2>5. Tree(c)' # Tree(c) /\ ~(Tree(c) # Absent /\ Tree(c)' # Absent)
    BY <2>2, <2>3, <2>4
  <2>6. c \in Paths /\ Front(c) = p
    BY DEF Children
  <2>7. PICK a \in Paths : IsPrefix(a, c) /\ overlay'[a] # overlay[a]
    BY <1>1, <2>5, <2>6
  <2>8. PICK r \in recorded' : /\ IsPrefix(r, a)
                               /\ r = a => \/ Front(a) = <<>> \/ Front(a) \in recorded'
                                           \/ Tree(a) # Absent /\ Tree(a)' # Absent
    BY <2>7 DEF Change
  <2>9. r \in Paths /\ IsPrefix(r, c)
    BY <2>6, <2>7, <2>8, PathOrder
  <2>10. CASE r = c
    <3>1. a = c
      BY <2>6, <2>7, <2>8, <2>10, PathOrder
    <3>2. p \in recorded'
      BY <2>5, <2>6, <2>8, <2>10, <3>1, PathSeq
    <3> QED  BY <3>2, PathOrder DEF Covered
  <2>11. CASE r # c
    <3>1. IsPrefix(r, p)
      BY <2>6, <2>9, <2>11, FrontPath, PathSeq DEF IsStrictPrefix
    <3> QED  BY <3>1 DEF Covered
  <2> QED  BY <2>10, <2>11
<1> QED  BY <1>2, <1>3

LEMMA RecordNames ==
  ASSUME NEW p \in Paths
  PROVE  /\ Record(p) \subseteq Paths /\ p \in Record(p)
         /\ Front(p) = <<>> \/ Front(p) \in Record(p)
BY FrontPath DEF Record

\* Every entry a callback changes is recorded, or lies below a recorded path.
LEMMA EntriesRecorded ==
  ASSUME Kept, Kept', [Next]_vars, overlay' # overlay
  PROVE  recorded' \subseteq Paths /\ \A a \in Paths : overlay'[a] # overlay[a] => Change(a)
<1>1. ASSUME NEW p \in Paths, NEW e, overlay' = [overlay EXCEPT ![p] = e], recorded' = Record(p)
      PROVE  recorded' \subseteq Paths /\ \A a \in Paths : overlay'[a] # overlay[a] => Change(a)
  <2>1. \A a \in Paths : overlay'[a] # overlay[a] => a = p
    BY <1>1 DEF Kept
  <2>2. Change(p)
    BY <1>1, RecordNames, PathOrder DEF Change
  <2> QED  BY <1>1, <2>1, <2>2, RecordNames
<1>2. ASSUME NEW p \in Paths, Create(p) \/ Mkdir(p) \/ \E c \in Contents : PutSymlink(p, c)
      PROVE  \E e : overlay' = [overlay EXCEPT ![p] = e] /\ recorded' = Record(p)
  BY <1>2 DEF Create, Mkdir, PutSymlink, PutEntry
<1>3. ASSUME NEW p \in Paths, Unlink(p) \/ Rmdir(p)
      PROVE  \E e : overlay' = [overlay EXCEPT ![p] = e] /\ recorded' = Record(p)
  BY <1>3 DEF Unlink, Rmdir, Refused, TombstoneOrClear
<1>4. ASSUME NEW p \in Paths, NEW c \in Contents, Write(p, c)
      PROVE  recorded' \subseteq Paths /\ \A a \in Paths : overlay'[a] # overlay[a] => Change(a)
  <2>1. recorded' = {p} /\ p # GITFILE /\ overlay' = [overlay EXCEPT ![p] = File(c)]
        /\ Tree(p).kind \in {"file", "gitfile"}
    BY <1>4 DEF Write
  <2>2. Walked(p) /\ Tree(p) # Absent
    BY <2>1 DEF Tree, Absent, Entry
  <2>3. Walked(p)' /\ overlay'[p] = File(c)
    BY <2>1, <2>2, WalkAt
  <2>4. Tree(p)' # Absent
    BY <2>1, <2>3, ContentNext DEF EntryShows, File, Absent, Entry
  <2>5. Change(p)
    BY <2>1, <2>2, <2>4, PathOrder DEF Change
  <2> QED  BY <2>1, <2>5 DEF Kept
<1>5. ASSUME NEW s \in Paths, NEW d \in Paths, NEW noreplace \in BOOLEAN, Rename(s, d, noreplace)
      PROVE  recorded' \subseteq Paths /\ \A a \in Paths : overlay'[a] # overlay[a] => Change(a)
  <2>1. recorded' = Record(s) \union Record(d) /\ (overlay' = RenameDir(s, d) \/ overlay' = RenameFile(s, d))
    BY <1>5 DEF Rename, Refused, RenameRecords
  <2>2. \A a \in Paths : overlay'[a] # overlay[a] => IsPrefix(s, a) \/ IsPrefix(d, a)
    <3>1. overlay' = RenameDir(s, d) => \A a \in Paths : overlay'[a] # overlay[a] => IsPrefix(s, a) \/ IsPrefix(d, a)
      BY DEF RenameDir
    <3>2. overlay' = RenameFile(s, d) => \A a \in Paths : overlay'[a] # overlay[a] => a = s \/ a = d
      BY DEF RenameFile, Kept
    <3> QED  BY <2>1, <3>1, <3>2, PathOrder
  <2>3. s \in recorded' /\ (Front(s) = <<>> \/ Front(s) \in recorded')
        /\ d \in recorded' /\ (Front(d) = <<>> \/ Front(d) \in recorded')
    BY <2>1, RecordNames
  <2>4. ASSUME NEW a \in Paths, overlay'[a] # overlay[a]
        PROVE  Change(a)
    BY <2>2, <2>3, <2>4 DEF Change
  <2> QED  BY <2>1, <2>4, RecordNames
<1>6. overlay' = overlay \/ Next
  BY DEF vars
<1> QED  BY <1>1, <1>2, <1>3, <1>4, <1>5, <1>6 DEF Next

-----------------------------------------------------------------------------
(* The theorems. *)

\* The overlay holds written contents and baseline names only, nothing at .git.
LEMMA AlwaysKept == Spec => []Kept
<1>1. Init => Kept
  BY KeptInit
<1>2. Kept /\ [Next]_vars => Kept'
  BY KeptStep
<1> QED  BY <1>1, <1>2, PTL DEF Spec

\* Every callback has its POSIX effect on the tree, or is refused for a POSIX
\* reason: tombstones, base-refs and re-keyed entries never show through, for
\* any paths and any baseline, if no directory is put over what is left there.
THEOREM OverlayIsATree == ASSUME ~Leftovers  PROVE Spec => ImplementsPosix
<1>1. Init => Kept /\ DirsApart /\ Posix!Init
  BY KeptInit, PosixInit
<1>2. (Kept /\ DirsApart) /\ [Next]_vars => (Kept /\ DirsApart)'
  BY KeptStep, ApartStep
<1>3. (Kept /\ DirsApart) /\ (Kept /\ DirsApart)' /\ [Next]_vars =>
        [Posix!Next]_<<[p \in Paths |-> Tree(p)], last>>
  BY PosixStep DEF Shown
<1> QED  BY <1>1, <1>2, <1>3, PTL DEF Spec, ImplementsPosix, Posix!Spec

\* Whatever changes for git, a node or a listing, the callback recorded it or a
\* directory above it, leftovers or not.
THEOREM NothingUnrecorded == Spec => ChangesAreRecorded
<1> DEFINE Recorded == \A p \in Paths :
             /\ Tree(p)' # Tree(p) => Covered(p)
             /\ (IsDir(p) /\ IsDir(p)' /\ Readdir(p)' # Readdir(p)) => Covered(p)
<1>1. Kept /\ Kept' /\ [Next]_vars => [Recorded]_vars
  <2> SUFFICES ASSUME Kept, Kept', [Next]_vars, NEW p \in Paths
               PROVE  /\ Tree(p)' # Tree(p) => Covered(p)
                      /\ (IsDir(p) /\ IsDir(p)' /\ Readdir(p)' # Readdir(p)) => Covered(p)
    OBVIOUS
  <2>1. CASE overlay' = overlay
    <3>1. \A q \in Paths : Tree(q)' = Tree(q)
      BY <2>1, ReadsAbove
    <3>2. Readdir(p)' = Readdir(p)
      BY <2>1 DEF Readdir, BaselineChildren, Children
    <3> QED  BY <3>1, <3>2
  <2>2. CASE overlay' # overlay
    BY <2>2, EntriesRecorded, ChangeCovers
  <2> QED  BY <2>1, <2>2
<1> QED  BY <1>1, AlwaysKept, PTL DEF Spec, ChangesAreRecorded

\* readdir and lookup, which layer overlay and baseline each in its own way,
\* agree on what every directory holds.
THEOREM ListingsAlwaysAgree == Spec => []ListingAgrees
<1>1. Kept => ListingAgrees
  BY Listings DEF ListingAgrees
<1> QED  BY <1>1, AlwaysKept, PTL

-----------------------------------------------------------------------------
(* Where the trees below come from: TreeReader, whose state is its own. The      *)
(* session shared by all readers stays in step with its requests, so that every *)
(* reader gets the tree it asked for.                                           *)

Pcs  == {"idle", "lock", "spawn", "send", "header", "body", "parsed", "oneshot", "done"}
Kinds == {"header", "body", "missing"}
ReadType == [pc : Pcs, oid : Oids \union {None}, fetch : BOOLEAN,
             got : Oids \union {None, Error}]
AnswerType == [kind : Kinds, of : Oids]
SessionType == [up : BOOLEAN, running : BOOLEAN, asked : Seq(Oids),
                reply : Seq(AnswerType)]

Types == ReadTypeOK /\ session \in SessionType

\* The thread that uses the session is the one that holds its mutex.
Using == {"spawn", "send", "header", "body"}
HolderUses == \A r \in Readers : read[r].pc \in Using <=> holder = r

\* What the pipes hold in between: the one request, its answer, or the part of the
\* answer that a killed process got out.
Empty == session.asked = <<>> /\ session.reply = <<>>
Missing(x) == [kind |-> "missing", of |-> x]
HeaderAhead(x) ==
  \/ session.asked = <<x>> /\ session.reply = <<>>
  \/ /\ session.asked = <<>>
     /\ \/ session.reply = <<Header(x), Body(x)>>
        \/ session.reply = <<Missing(x)>>
        \/ ~session.running /\ session.reply \in {<<>>, <<Header(x)>>}
BodyAhead(x) ==
  /\ session.asked = <<>>
  /\ \/ session.reply = <<Body(x)>>
     \/ ~session.running /\ session.reply = <<>>

Pipes ==
  /\ \A r \in Readers : At(r, "header") => HeaderAhead(read[r].oid)
  /\ \A r \in Readers : At(r, "body") => BodyAhead(read[r].oid)
  /\ (\A r \in Readers : ~At(r, "header") /\ ~At(r, "body")) => Empty

\* A tree on its way to the cache is the one that was asked for.
OnTheWay ==
  \A r \in Readers : /\ ~At(r, "idle") => read[r].oid \in Oids
                     /\ At(r, "parsed") => read[r].got = read[r].oid

ReaderInv == Types /\ HolderUses /\ Pipes /\ OnTheWay /\ AnswersAsked

-----------------------------------------------------------------------------
LEMMA ReaderInit == ReadInit => ReaderInv
<1> SUFFICES ASSUME ReadInit PROVE ReaderInv
  OBVIOUS
<1>1. session \in SessionType /\ Empty
  BY DEF ReadInit, NoSession, SessionType, Empty
<1> QED  BY <1>1, StoreAssumption
         DEF ReadInit, ReaderInv, Types, ReadTypeOK, Idle, HolderUses, Using, Pipes, OnTheWay,
             AnswersAsked, At, Oids

\* A step of one thread leaves the others where they are.
LEMMA OtherReaders ==
  ASSUME ReaderInv, NEW r \in Readers, NEW x \in ReadType, read' = [read EXCEPT ![r] = x]
  PROVE  /\ read' \in [Readers -> ReadType] /\ read'[r] = x
         /\ \A s \in Readers \ {r} : read'[s] = read[s]
BY DEF ReaderInv, Types, ReadTypeOK, ReadType, Pcs

LEMMA Retype ==
  ASSUME NEW y \in ReadType, NEW pc \in Pcs, NEW got \in Oids \union {None, Error}
  PROVE  [y EXCEPT !.pc = pc, !.got = got] \in ReadType
BY DEF ReadType

\* Steps away from the session: its pipes and its holder stay as they are.
LEMMA OutsideStep ==
  ASSUME ReaderInv, NEW r \in Readers,
         Read(r) \/ CacheTree(r) \/ OneShot(r) \/ Reply(r)
  PROVE  ReaderInv'
<1> USE DEF ReaderInv, At, Go, Answer
<1>1. PICK x \in ReadType :
         /\ read' = [read EXCEPT ![r] = x]
         /\ x.pc \notin Using
         /\ x.pc # "idle" => x.oid \in Oids
         /\ x.pc = "parsed" => x.got = x.oid
         /\ x.pc = "done" => x.got \in {x.oid, Error}
  <2>5. read[r] \in ReadType
    BY DEF Types, ReadTypeOK, ReadType, Pcs
  <2>6. \A o \in Oids : [read[r] EXCEPT !.pc = "parsed", !.got = o] \in ReadType
    BY <2>5, Retype DEF Pcs
  <2>7. [read[r] EXCEPT !.pc = "done", !.got = Error] \in ReadType
    BY <2>5, Retype DEF Pcs
  <2> USE DEF Types, ReadTypeOK, ReadType, Pcs, Using, OnTheWay, AnswersAsked
  <2>1. CASE Read(r)
    <3>1. PICK y \in Oids, fetch \in BOOLEAN :
             read' = [read EXCEPT ![r] =
                        IF cache[y] # None
                          THEN [pc |-> "done", oid |-> y, fetch |-> fetch, got |-> cache[y]]
                          ELSE [pc |-> "lock", oid |-> y, fetch |-> fetch, got |-> None]]
      BY <2>1 DEF Read
    <3>2. CASE cache[y] # None
      <4>1. cache[y] = y
        BY <3>2
      <4> WITNESS [pc |-> "done", oid |-> y, fetch |-> fetch, got |-> cache[y]] \in ReadType
      <4> QED  BY <3>1, <3>2, <4>1
    <3>3. CASE cache[y] = None
      <4> WITNESS [pc |-> "lock", oid |-> y, fetch |-> fetch, got |-> None] \in ReadType
      <4> QED  BY <3>1, <3>3
    <3> QED  BY <3>2, <3>3
  <2>2. CASE CacheTree(r)
    <3> WITNESS [read[r] EXCEPT !.pc = "done"] \in ReadType
    <3> QED  BY <2>2 DEF CacheTree
  <2>3. CASE OneShot(r)
    <3>1. read[r].oid \in Oids
      BY <2>3 DEF OneShot
    <3>2. CASE read' = [read EXCEPT ![r].pc = "parsed", ![r].got = read[r].oid]
      <4>1. read' = [read EXCEPT ![r] = [read[r] EXCEPT !.pc = "parsed", !.got = read[r].oid]]
        BY <3>2
      <4>2. [read[r] EXCEPT !.pc = "parsed", !.got = read[r].oid] \in ReadType
        BY <3>1, <2>6
      <4> WITNESS [read[r] EXCEPT !.pc = "parsed", !.got = read[r].oid] \in ReadType
      <4> QED  BY <3>1, <4>1
    <3>3. CASE read' = [read EXCEPT ![r].pc = "done", ![r].got = Error]
      <4>1. read' = [read EXCEPT ![r] = [read[r] EXCEPT !.pc = "done", !.got = Error]]
        BY <3>3
      <4>2. [read[r] EXCEPT !.pc = "done", !.got = Error] \in ReadType
        BY <3>1, <2>7
      <4> WITNESS [read[r] EXCEPT !.pc = "done", !.got = Error] \in ReadType
      <4> QED  BY <3>1, <4>1
    <3> QED  BY <2>3, <3>2, <3>3 DEF OneShot, Parse
  <2>4. CASE Reply(r)
    <3>1. Idle \in ReadType
      BY DEF Idle
    <3> WITNESS Idle \in ReadType
    <3> QED  BY <2>4 DEF Reply, Idle
  <2> QED  BY <2>1, <2>2, <2>3, <2>4
<1>2. /\ read' \in [Readers -> ReadType] /\ read'[r] = x
      /\ \A s \in Readers \ {r} : read'[s] = read[s]
  BY <1>1, OtherReaders
<1>3. read[r].pc \notin Using /\ UNCHANGED <<holder, session>>
  BY DEF Read, CacheTree, OneShot, Reply, Using
<1>4. /\ cache' \in [Oids -> Oids \union {None}] /\ local' \subseteq Oids
      /\ \A y \in Oids : cache'[y] \in {None, y}
  <2>1. CASE CacheTree(r)
    BY <2>1 DEF CacheTree, OnTheWay, AnswersAsked, Types, ReadTypeOK
  <2>2. CASE OneShot(r)
    BY <2>2 DEF OneShot, OnTheWay, AnswersAsked, Types, ReadTypeOK
  <2>3. CASE Read(r) \/ Reply(r)
    BY <2>3 DEF Read, Reply, AnswersAsked, Types, ReadTypeOK
  <2> QED  BY <2>1, <2>2, <2>3
<1>5. Types'
  BY <1>2, <1>3, <1>4 DEF Types, ReadTypeOK, ReadType, Pcs
<1>6. HolderUses'
  BY <1>1, <1>2, <1>3 DEF HolderUses
<1>7. Pipes'
  BY <1>1, <1>2, <1>3 DEF Pipes, Using, HeaderAhead, BodyAhead, Empty
<1>8. OnTheWay' /\ AnswersAsked'
  BY <1>1, <1>2, <1>4 DEF OnTheWay, AnswersAsked
<1> QED  BY <1>5, <1>6, <1>7, <1>8

\* What every step under the mutex has in common: the thread holds it before, and
\* after it unless it lets go; and what remains to show of the step.
LEMMA UnderMutex ==
  ASSUME ReaderInv, NEW r \in Readers, NEW x \in ReadType,
         read' = [read EXCEPT ![r] = x], x.oid = read[r].oid,
         holder \in {None, r}, read[r].pc # "idle",
         holder' = IF x.pc \in Using THEN r ELSE None,
         x.pc = "done" => x.got = Error, x.pc = "parsed" => x.got = x.oid,
         session' \in SessionType,
         x.pc = "header" => HeaderAhead(read[r].oid)',
         x.pc = "body" => BodyAhead(read[r].oid)',
         x.pc \notin {"header", "body"} => Empty',
         UNCHANGED <<local, cache>>
  PROVE  ReaderInv'
<1> USE DEF ReaderInv, At
<1>1. /\ read' \in [Readers -> ReadType] /\ read'[r] = x
      /\ \A s \in Readers \ {r} : read'[s] = read[s]
  BY OtherReaders
<1>2. \A s \in Readers \ {r} : read[s].pc \notin Using
  BY StoreAssumption DEF HolderUses
<1>3. Types'
  BY <1>1 DEF Types, ReadTypeOK, ReadType, Pcs
<1>4. HolderUses'
  BY <1>1, <1>2, StoreAssumption DEF HolderUses
<1>5. Pipes'
  BY <1>1, <1>2 DEF Pipes, Using, HeaderAhead, BodyAhead, Empty
<1>6. OnTheWay' /\ AnswersAsked'
  BY <1>1 DEF OnTheWay, AnswersAsked
<1> QED  BY <1>3, <1>4, <1>5, <1>6

\* The parts of the session.
LEMMA SessionParts ==
  ASSUME session \in SessionType
  PROVE  /\ session.asked \in Seq(Oids) /\ session.reply \in Seq(AnswerType)
         /\ \A a \in Seq(Oids) : [session EXCEPT !.asked = a] \in SessionType
         /\ \A b \in Seq(AnswerType) : [session EXCEPT !.reply = b] \in SessionType
BY DEF SessionType

\* Sequences of at most two elements.
LEMMA Short ==
  ASSUME NEW a, NEW b
  PROVE  /\ Tail(<<a>>) = <<>> /\ Tail(<<a, b>>) = <<b>>
         /\ Head(<<a>>) = a /\ Head(<<a, b>>) = a
         /\ <<a>> # <<>> /\ <<a, b>> # <<>>
OBVIOUS

\* What is left of an answer that is cut off.
LEMMA Cut ==
  ASSUME NEW S, NEW s \in Seq(S), NEW n \in 0 .. Len(s)
  PROVE  /\ SubSeq(s, 1, n) \in Seq(S)
         /\ n = 0 => SubSeq(s, 1, n) = <<>>
         /\ n = 1 => SubSeq(s, 1, n) = <<s[1]>>
         /\ n = Len(s) => SubSeq(s, 1, n) = s
<1>1. \A i \in 1 .. n : s[i] \in S
  OBVIOUS
<1>2. /\ SubSeq(s, 1, n) \in Seq(S)
      /\ Len(SubSeq(s, 1, n)) = IF 1 <= n THEN n - 1 + 1 ELSE 0
      /\ \A i \in 1 .. n - 1 + 1 : SubSeq(s, 1, n)[i] = s[1 + i - 1]
  <2>1. 1 \in Int /\ n \in Int
    OBVIOUS
  <2> QED  BY <1>1, <2>1, SubSeqProperties
<1>3. ASSUME n = 1 PROVE SubSeq(s, 1, n) = <<s[1]>>
  <2>1. Len(SubSeq(s, 1, n)) = 1 /\ SubSeq(s, 1, n)[1] = s[1] /\ s[1] \in S
    BY <1>1, <1>2, <1>3
  <2>2. <<s[1]>> \in Seq(S) /\ Len(<<s[1]>>) = 1 /\ <<s[1]>>[1] = s[1]
    BY <2>1
  <2>3. \A i \in 1 .. 1 : i = 1
    OBVIOUS
  <2> QED  BY <1>2, <2>1, <2>2, <2>3, SeqEqual
<1>4. n = 0 => SubSeq(s, 1, n) = <<>>
  BY <1>2
<1> QED  BY <1>2, <1>3, <1>4, SubSeqFull

LEMMA NoneOrAll == ASSUME NEW k \in {0, 1}, NEW n \in 0 .. k PROVE n = 0 \/ n = k
OBVIOUS

LEMMA TailType == ASSUME NEW S, NEW s \in Seq(S), s # <<>> PROVE Tail(s) \in Seq(S)
OBVIOUS

LEMMA GoesOn ==
  ASSUME ReaderInv, NEW r \in Readers, NEW pc \in Using \union {"oneshot"}, Go(r, pc),
         holder \in {None, r}, read[r].pc # "idle",
         holder' = IF pc \in Using THEN r ELSE None,
         session' \in SessionType,
         pc = "header" => HeaderAhead(read[r].oid)',
         pc = "body" => BodyAhead(read[r].oid)',
         pc \notin {"header", "body"} => Empty',
         UNCHANGED <<local, cache>>
  PROVE  ReaderInv'
<1> DEFINE x == [read[r] EXCEPT !.pc = pc]
<1>1. x \in ReadType /\ x.pc = pc /\ x.oid = read[r].oid
  BY DEF ReaderInv, Types, ReadTypeOK, ReadType, Pcs, Using
<1>2. read' = [read EXCEPT ![r] = x]
  BY DEF Go
<1> HIDE DEF x
<1> QED  BY <1>1, <1>2, UnderMutex DEF Using

\* One step of the use of the session.
LEMMA SessionStep ==
  ASSUME ReaderInv, NEW r \in Readers,
         Lock(r) \/ Spawn(r) \/ Send(r) \/ ReadHeader(r) \/ ReadBody(r)
  PROVE  ReaderInv'
<1> DEFINE o == read[r].oid
<1> USE DEF At
<1>1. session \in SessionType /\ UNCHANGED <<local, cache>> /\ read[r] \in ReadType
  BY DEF ReaderInv, Types, ReadTypeOK, ReadType, Pcs, Lock, Spawn, Send, ReadHeader, ReadBody
<1>2. read[r].pc # "idle" /\ o \in Oids
  BY DEF ReaderInv, OnTheWay, Lock, Spawn, Send, ReadHeader, ReadBody
<1>3. holder \in {None, r} /\ (holder = None <=> read[r].pc = "lock")
  BY StoreAssumption DEF ReaderInv, HolderUses, Using, Lock, Spawn, Send, ReadHeader, ReadBody
<1>4. read[r].pc \notin {"header", "body"} => Empty
  BY <1>3, StoreAssumption DEF ReaderInv, HolderUses, Using, Pipes
<1>5. NoSession \in SessionType /\ Fresh \in SessionType
  BY DEF NoSession, Fresh, SessionType
<1>6. CASE Lock(r)
  <2>1. PICK pc \in {"send", "spawn"} : Go(r, pc)
    BY <1>6 DEF Lock
  <2>2. holder' = r /\ Empty' /\ session' \in SessionType
    BY <1>1, <1>4, <1>6 DEF Lock, Empty
  <2> QED  BY <1>1, <1>2, <1>3, <2>1, <2>2, GoesOn DEF Using
<1>7. CASE Spawn(r)
  <2>1. holder = r /\ Empty
    BY <1>3, <1>4, <1>7 DEF Spawn
  <2>2. CASE session' = Fresh /\ Go(r, "send") /\ UNCHANGED holder
    <3>1. Empty'
      BY <2>2 DEF Empty, Fresh
    <3> QED  BY <1>1, <1>2, <1>5, <2>1, <2>2, <3>1, GoesOn DEF Using
  <2>3. CASE Fallback(r) /\ UNCHANGED session
    <3>1. Empty'
      BY <2>1, <2>3 DEF Empty
    <3> QED  BY <1>1, <1>2, <2>1, <2>3, <3>1, GoesOn DEF Using, Fallback
  <2> QED  BY <1>7, <2>2, <2>3 DEF Spawn
<1>8. CASE Send(r)
  <2>1. holder = r /\ Empty
    BY <1>3, <1>4, <1>8 DEF Send
  <2>2. CASE session' = [session EXCEPT !.asked = Append(@, o)]
             /\ Go(r, "header") /\ UNCHANGED holder
    <3>1. session' \in SessionType
      <4>1. Append(session.asked, o) \in Seq(Oids)
        BY <1>1, <1>2, SessionParts, AppendProperties
      <4> QED  BY <1>1, <2>2, <4>1, SessionParts
    <3>2. session'.asked = <<o>> /\ session'.reply = <<>>
      BY <1>1, <2>1, <2>2 DEF SessionType, Empty
    <3>3. HeaderAhead(o)'
      <4>1. o' = o
        BY <1>1, <2>2 DEF Go, ReaderInv, Types, ReadTypeOK
      <4> QED  BY <3>2, <4>1 DEF HeaderAhead
    <3> QED  BY <1>1, <1>2, <2>1, <2>2, <3>1, <3>3, GoesOn DEF Using
  <2>3. CASE session' = NoSession /\ Fallback(r)
    <3>1. Empty'
      BY <2>3 DEF Empty, NoSession
    <3> QED  BY <1>1, <1>2, <1>5, <2>1, <2>3, <3>1, GoesOn DEF Using, Fallback
  <2> QED  BY <1>8, <2>2, <2>3 DEF Send
<1>9. ASSUME Ended(r), holder = r
      PROVE  ReaderInv'
  <2>1. session' = NoSession /\ Fallback(r) /\ Empty'
    BY <1>9 DEF Ended, Empty, NoSession
  <2> QED  BY <1>1, <1>2, <1>5, <1>9, <2>1, GoesOn DEF Using, Fallback
<1>10. CASE ReadHeader(r)
  <2>1. holder = r /\ HeaderAhead(o)
    BY <1>3, <1>10 DEF ReadHeader, ReaderInv, Pipes
  <2>2. CASE /\ session.reply # <<>> /\ session' = [session EXCEPT !.reply = Tail(@)]
             /\ \/ Head(session.reply).kind = "header" /\ Go(r, "body") /\ UNCHANGED holder
                \/ Head(session.reply).kind = "missing" /\ Fallback(r)
    <3>1. session' \in SessionType
      BY <1>1, <2>2, SessionParts, TailType
    <3>2. /\ session'.asked = <<>> /\ session'.running = session.running
          /\ session'.reply = Tail(session.reply)
      BY <1>1, <2>1, <2>2 DEF SessionType, HeaderAhead
    <3>3. CASE Head(session.reply).kind = "header"
      <4>1. \/ session'.reply = <<Body(o)>>
            \/ ~session'.running /\ session'.reply = <<>>
        <5>1. Head(<<Missing(o)>>).kind = "missing"
          BY DEF Missing
        <5>2. \/ session.reply = <<Header(o), Body(o)>>
              \/ ~session.running /\ session.reply = <<Header(o)>>
          BY <2>1, <2>2, <3>3, <5>1 DEF HeaderAhead
        <5>3. Tail(<<Header(o), Body(o)>>) = <<Body(o)>> /\ Tail(<<Header(o)>>) = <<>>
          BY Short
        <5> QED  BY <3>2, <5>2, <5>3
      <4>2. holder' = r /\ Go(r, "body")
        BY <2>1, <2>2, <3>3
      <4>3. o' = o
        BY <1>1, <4>2 DEF Go, ReaderInv, Types, ReadTypeOK
      <4>4. BodyAhead(o)'
        BY <3>2, <4>1, <4>3 DEF BodyAhead, Body
      <4> QED  BY <1>1, <1>2, <2>1, <3>1, <4>2, <4>4, GoesOn DEF Using
    <3>4. CASE Head(session.reply).kind # "header"
      <4>1. Empty'
        <5>1. Head(<<Header(o)>>).kind = "header" /\ Head(<<Header(o), Body(o)>>).kind = "header"
          BY DEF Header
        <5>2. session.reply = <<Missing(o)>>
          BY <2>1, <2>2, <3>4, <5>1 DEF HeaderAhead
        <5> QED  BY <3>2, <5>2, Short DEF Empty
      <4>2. Fallback(r)
        BY <2>2, <3>4
      <4> QED  BY <1>1, <1>2, <2>1, <3>1, <4>1, <4>2, GoesOn DEF Using, Fallback
    <3> QED  BY <3>3, <3>4
  <2> QED  BY <1>9, <1>10, <2>1, <2>2 DEF ReadHeader
<1>11. CASE ReadBody(r)
  <2>1. holder = r /\ BodyAhead(o)
    BY <1>3, <1>11 DEF ReadBody, ReaderInv, Pipes
  <2>2. CASE /\ session.reply # <<>> /\ session' = [session EXCEPT !.reply = Tail(@)]
             /\ IF Head(session.reply).of \in Trees
                  THEN holder' = None /\ Parse(r, Head(session.reply).of)
                  ELSE Fallback(r)
    <3>1. session' \in SessionType
      BY <1>1, <2>2, SessionParts, TailType
    <3>2. session.reply = <<Body(o)>> /\ Head(session.reply).of = o
      BY <2>1, <2>2 DEF BodyAhead, Body
    <3>3. Empty'
      BY <1>1, <2>1, <2>2, <3>2 DEF SessionType, BodyAhead, Empty
    <3>4. CASE o \in Trees
      <4>1. holder' = None /\ Parse(r, o)
        BY <2>2, <3>2, <3>4
      <4>2. PICK x : /\ read' = [read EXCEPT ![r] = x] /\ x \in ReadType
                     /\ \/ x.pc = "parsed" /\ x.oid = read[r].oid /\ x.got = x.oid
                        \/ x.pc = "done" /\ x.oid = read[r].oid /\ x.got = Error
        <5>1. CASE read' = [read EXCEPT ![r].pc = "parsed", ![r].got = o]
          <6> DEFINE x == [read[r] EXCEPT !.pc = "parsed", !.got = o]
          <6>1. x \in ReadType /\ x.pc = "parsed" /\ x.oid = read[r].oid /\ x.got = x.oid
            BY <1>1, <1>2 DEF ReadType, Pcs
          <6>2. read' = [read EXCEPT ![r] = x]
            BY <5>1
          <6> HIDE DEF x
          <6> QED  BY <6>1, <6>2
        <5>2. CASE read' = [read EXCEPT ![r].pc = "done", ![r].got = Error]
          <6> DEFINE x == [read[r] EXCEPT !.pc = "done", !.got = Error]
          <6>1. x \in ReadType /\ x.pc = "done" /\ x.oid = read[r].oid /\ x.got = Error
            BY <1>1, <1>2 DEF ReadType, Pcs
          <6>2. read' = [read EXCEPT ![r] = x]
            BY <5>2
          <6> HIDE DEF x
          <6> QED  BY <6>1, <6>2
        <5> QED  BY <4>1, <5>1, <5>2 DEF Parse, Answer
      <4> QED  BY <1>1, <1>2, <2>1, <3>1, <3>3, <4>1, <4>2, UnderMutex DEF Using
    <3>5. CASE o \notin Trees
      <4>1. Fallback(r)
        BY <2>2, <3>2, <3>5
      <4> QED  BY <1>1, <1>2, <2>1, <3>1, <3>3, <4>1, GoesOn DEF Using, Fallback
    <3> QED  BY <3>4, <3>5
  <2> QED  BY <1>9, <1>11, <2>1, <2>2 DEF ReadBody
<1> QED  BY <1>6, <1>7, <1>8, <1>10, <1>11

\* git answers, leaves the request unanswered, or is killed with an answer half-way.
LEMMA GitStep ==
  ASSUME ReaderInv, GitAnswers \/ GitKilled
  PROVE  ReaderInv'
<1> USE DEF At
<1>1. /\ session \in SessionType /\ UNCHANGED <<local, cache, holder, read>>
      /\ session.asked \in Seq(Oids) /\ session.reply \in Seq(AnswerType)
  BY SessionParts DEF ReaderInv, Types, GitAnswers, GitKilled
<1>2. CASE GitAnswers
  <2> DEFINE x == Head(session.asked)
  <2>1. session.asked # <<>> /\ x \in Oids /\ Tail(session.asked) \in Seq(Oids)
    BY <1>1, <1>2, TailType DEF GitAnswers
  <2>2. Header(x) \in AnswerType /\ Body(x) \in AnswerType /\ Missing(x) \in AnswerType
    BY <2>1 DEF AnswerType, Kinds, Header, Body, Missing
  <2>3. PICK more \in {<<Header(x), Body(x)>>, <<>>, <<Missing(x)>>} :
           /\ session'.asked = Tail(session.asked)
           /\ session'.reply = session.reply \o more
           /\ session'.up = session.up /\ session' \in SessionType
           /\ more = <<>> => ~session'.running
    <3>1. CASE session' = [session EXCEPT !.asked = Tail(@),
                                          !.reply = @ \o <<Header(x), Body(x)>>]
      <4>1. session.reply \o <<Header(x), Body(x)>> \in Seq(AnswerType)
        BY <1>1, <2>2, ConcatProperties
      <4> WITNESS <<Header(x), Body(x)>> \in {<<Header(x), Body(x)>>, <<>>, <<Missing(x)>>}
      <4> QED  BY <1>1, <2>1, <3>1, <4>1, Short DEF SessionType
    <3>2. CASE session' = [session EXCEPT !.asked = Tail(@), !.running = FALSE]
      <4>1. session.reply \o <<>> = session.reply
        BY <1>1, ConcatEmptySeq
      <4> WITNESS <<>> \in {<<Header(x), Body(x)>>, <<>>, <<Missing(x)>>}
      <4> QED  BY <1>1, <2>1, <3>2, <4>1 DEF SessionType
    <3>3. CASE session' = [session EXCEPT !.asked = Tail(@), !.reply = Append(@, Missing(x))]
      <4>1. /\ Append(session.reply, Missing(x)) \in Seq(AnswerType)
            /\ Append(session.reply, Missing(x)) = session.reply \o <<Missing(x)>>
        BY <1>1, <2>2, AppendProperties, AppendIsConcat
      <4> WITNESS <<Missing(x)>> \in {<<Header(x), Body(x)>>, <<>>, <<Missing(x)>>}
      <4> QED  BY <1>1, <2>1, <3>3, <4>1, Short DEF SessionType
    <3> QED  BY <1>2, <3>1, <3>2, <3>3 DEF GitAnswers, Missing
  <2>4. ASSUME NEW y, HeaderAhead(y)
        PROVE  HeaderAhead(y)'
    <3>1. session.asked = <<y>> /\ session.reply = <<>>
      BY <2>1, <2>4 DEF HeaderAhead
    <3>2. x = y /\ session'.asked = <<>>
      BY <2>3, <3>1, Short
    <3>3. session'.reply = more
      <4>1. more \in Seq(AnswerType)
        <5>1. /\ <<Header(x), Body(x)>> \in Seq(AnswerType)
              /\ <<>> \in Seq(AnswerType) /\ <<Missing(x)>> \in Seq(AnswerType)
          BY <2>2
        <5> QED  BY <2>3, <5>1
      <4> QED  BY <2>3, <3>1, <4>1, ConcatEmptySeq
    <3> QED  BY <2>3, <3>2, <3>3 DEF HeaderAhead
  <2>5. (\A y : ~BodyAhead(y)) /\ ~Empty
    BY <2>1 DEF BodyAhead, Empty
  <2> HIDE DEF x
  <2>6. Pipes'
    BY <1>1, <2>4, <2>5 DEF ReaderInv, Pipes
  <2> QED  BY <1>1, <2>3, <2>6
           DEF ReaderInv, Types, ReadTypeOK, HolderUses, OnTheWay, AnswersAsked
<1>3. CASE GitKilled
  <2>1. PICK n \in 0 .. Len(session.reply) :
           session' = [session EXCEPT !.running = FALSE, !.asked = <<>>,
                                      !.reply = SubSeq(@, 1, n)]
    BY <1>3 DEF GitKilled
  <2>2. /\ SubSeq(session.reply, 1, n) \in Seq(AnswerType)
        /\ n = 0 => SubSeq(session.reply, 1, n) = <<>>
        /\ n = 1 => SubSeq(session.reply, 1, n) = <<session.reply[1]>>
        /\ n = Len(session.reply) => SubSeq(session.reply, 1, n) = session.reply
    BY <1>1, Cut
  <2>3. /\ session' \in SessionType /\ ~session'.running /\ session'.asked = <<>>
        /\ session'.reply = SubSeq(session.reply, 1, n)
    <3> DEFINE rest == SubSeq(session.reply, 1, n)
    <3>1. rest \in Seq(AnswerType) /\ <<>> \in Seq(Oids)
      BY <2>2
    <3>2. session' = [session EXCEPT !.running = FALSE, !.asked = <<>>, !.reply = rest]
      BY <2>1
    <3> HIDE DEF rest
    <3>3. session' \in SessionType /\ ~session'.running /\ session'.asked = <<>>
          /\ session'.reply = rest
      BY <1>1, <3>1, <3>2 DEF SessionType
    <3> QED  BY <3>3 DEF rest
  <2>4. \A y, z : /\ Len(<<y, z>>) = 2 /\ <<y, z>>[1] = y /\ Len(<<y>>) = 1
    OBVIOUS
  <2>5. ASSUME NEW y, HeaderAhead(y)
        PROVE  HeaderAhead(y)'
    <3>1. CASE session.reply = <<Header(y), Body(y)>>
      <4>1. n \in {0, 1, 2} /\ Len(session.reply) = 2 /\ session.reply[1] = Header(y)
        BY <2>1, <2>4, <3>1
      <4> QED  BY <2>2, <2>3, <3>1, <4>1 DEF HeaderAhead
    <3>2. CASE session.reply # <<Header(y), Body(y)>>
      <4>1. session.reply = <<>> \/ session.reply \in {<<Missing(y)>>, <<Header(y)>>}
        BY <2>5, <3>2 DEF HeaderAhead
      <4>2. n = 0 \/ n = Len(session.reply)
        <5>1. Len(session.reply) \in {0, 1}
          BY <4>1
        <5> QED  BY <5>1, NoneOrAll
      <4>3. session'.reply \in {<<>>, session.reply}
        BY <2>2, <2>3, <4>2
      <4> QED  BY <2>3, <4>1, <4>3 DEF HeaderAhead
    <3> QED  BY <3>1, <3>2
  <2>6. ASSUME NEW y, BodyAhead(y)
        PROVE  BodyAhead(y)'
    <3>1. session.reply \in {<<>>, <<Body(y)>>}
      BY <2>6 DEF BodyAhead
    <3>2. n = 0 \/ n = Len(session.reply)
      <4>1. Len(session.reply) \in {0, 1}
        BY <3>1
      <4> QED  BY <4>1, NoneOrAll
    <3>3. session'.reply \in {<<>>, session.reply}
      BY <2>2, <2>3, <3>2
    <3> QED  BY <2>3, <3>1, <3>3 DEF BodyAhead
  <2>7. Empty => Empty'
    <3>1. ASSUME Empty PROVE n = 0
      BY <3>1 DEF Empty
    <3> QED  BY <2>2, <2>3, <3>1 DEF Empty
  <2>8. Pipes'
    BY <1>1, <2>5, <2>6, <2>7 DEF ReaderInv, Pipes
  <2> QED  BY <1>1, <2>3, <2>8
           DEF ReaderInv, Types, ReadTypeOK, HolderUses, OnTheWay, AnswersAsked
<1> QED  BY <1>2, <1>3

LEMMA ReaderStep == ReaderInv /\ [ReadNext]_readVars => ReaderInv'
<1> SUFFICES ASSUME ReaderInv, [ReadNext]_readVars
             PROVE  ReaderInv'
  OBVIOUS
<1>1. CASE UNCHANGED readVars
  BY <1>1 DEF readVars, ReaderInv, Types, ReadTypeOK, HolderUses, Pipes, HeaderAhead, BodyAhead, Empty,
              OnTheWay, AnswersAsked, At
<1> QED  BY <1>1, OutsideStep, SessionStep, GitStep DEF ReadNext, Continue, Quiet

-----------------------------------------------------------------------------
\* A read is answered with the tree it asked for or an error, and the cache holds
\* no tree under another's id, for any number of readers, objects, reads and kills
\* (store.rs read_tree, batch.rs BatchSession).
THEOREM AnswersAreAsked == ReadSpec => []AnswersAsked
<1>1. ReaderInv => AnswersAsked
  BY DEF ReaderInv
<1> QED  BY <1>1, ReaderInit, ReaderStep, PTL DEF ReadSpec

\* Whenever no reader holds the session's mutex nothing is left in its pipes, also
\* after a missing object, an object that is no tree, and a killed process
\* (batch.rs BatchSession::contents).
THEOREM SessionStaysInStep == ReadSpec => []SessionInStep
<1>1. ReaderInv => SessionInStep
  <2> SUFFICES ASSUME ReaderInv, holder = None
               PROVE  Empty
    BY DEF SessionInStep, Empty
  <2>1. \A r \in Readers : read[r].pc \notin Using
    BY StoreAssumption DEF ReaderInv, HolderUses
  <2> QED  BY <2>1 DEF ReaderInv, Pipes, At, Using
<1> QED  BY <1>1, ReaderInit, ReaderStep, PTL DEF ReadSpec
=============================================================================

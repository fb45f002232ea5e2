---------------------------- MODULE FrontEndProofs ----------------------------
(* Invariance proofs for the front end's listings and for its worker pools:    *)
(* a directory read page by page while others change it, and the end of the    *)
(* pool, for any number of callers, entries, threads and jobs.                 *)
EXTENDS FrontEnd, WorkerPool, FiniteSetTheorems, SequenceTheorems, TLAPS

-----------------------------------------------------------------------------
(* Listings. *)

\* Every set of entries has a listing: an entry's place is the number of entries
\* up to it.
LEMMA ListingLemma ==
  ASSUME NEW s \in SUBSET Nat, IsFiniteSet(s)
  PROVE  /\ Listing(s) \in Seq(s) /\ IsInjective(Listing(s))
         /\ \A x \in s : \E i \in 1..Len(Listing(s)) : Listing(s)[i] = x
<1> DEFINE n == Cardinality(s)
           upTo(x) == {y \in s : y <= x}
           rank == [x \in s |-> Cardinality(upTo(x))]
           Increasing(l) == \A i, j \in DOMAIN l : i < j => l[i] < l[j]
<1>1. n \in Nat /\ IsFiniteSet(1..n) /\ Cardinality(1..n) = n
  BY FS_CardinalityType, FS_Interval
<1>2. ASSUME NEW x \in s
      PROVE  IsFiniteSet(upTo(x)) /\ Cardinality(upTo(x)) \in 1..n
  <2>1. upTo(x) \in SUBSET s /\ x \in upTo(x)
    OBVIOUS
  <2>2. IsFiniteSet(upTo(x)) /\ Cardinality(upTo(x)) <= n
    BY <2>1, FS_Subset
  <2>3. Cardinality(upTo(x)) \in Nat /\ Cardinality(upTo(x)) # 0
    BY <2>1, <2>2, FS_CardinalityType, FS_EmptySet
  <2> QED  BY <1>1, <2>2, <2>3
<1>3. rank \in [s -> 1..n]
  BY <1>2
<1>4. ASSUME NEW x \in s, NEW y \in s, x < y
      PROVE  rank[x] < rank[y]
  <2>1. upTo(x) \in SUBSET upTo(y) /\ upTo(x) # upTo(y)
    <3>1. x \in Nat /\ y \in Nat /\ \A z \in s : z \in Nat
      OBVIOUS
    <3>2. \A z \in s : z <= x => z <= y
      BY <1>4, <3>1
    <3>3. y \in upTo(y) /\ y \notin upTo(x)
      BY <1>4, <3>1
    <3> QED  BY <3>2, <3>3
  <2>2. Cardinality(upTo(x)) <= Cardinality(upTo(y)) /\ Cardinality(upTo(x)) # Cardinality(upTo(y))
    BY <1>2, <2>1, FS_Subset
  <2> QED  BY <1>2, <2>2
<1> HIDE DEF n, upTo, rank
<1>5. rank \in Injection(s, 1..n)
  BY <1>3, <1>4 DEF Injection, IsInjective
<1>6. \A i \in 1..n : \E x \in s : rank[x] = i
  <2>1. rank \in Surjection(s, 1..n)
    BY <1>1, <1>5, FS_Injection DEF n
  <2> QED  BY <2>1 DEF Surjection
<1>7. \E l \in [1..n -> s] : Increasing(l)
  <2> DEFINE l == [i \in 1..n |-> CHOOSE x \in s : rank[x] = i]
  <2>1. \A i \in 1..n : l[i] \in s /\ rank[l[i]] = i
    BY <1>6
  <2>2. l \in [1..n -> s]
    BY <2>1
  <2> HIDE DEF l
  <2>3. ASSUME NEW i \in 1..n, NEW j \in 1..n, i < j
        PROVE  l[i] < l[j]
    <3>1. l[i] \in Nat /\ l[j] \in Nat /\ rank[l[i]] < rank[l[j]]
      BY <2>1, <2>3
    <3>2. l[i] # l[j] /\ ~(l[j] < l[i])
      BY <1>1, <1>4, <2>1, <2>3, <3>1
    <3> QED  BY <3>1, <3>2
  <2> QED  BY <2>2, <2>3
<1>8. Listing(s) \in [1..n -> s] /\ Increasing(Listing(s))
  BY <1>7 DEF Listing, n
<1>9. Listing(s) \in Seq(s) /\ Len(Listing(s)) = n /\ DOMAIN Listing(s) = 1..n
  BY <1>1, <1>8
<1>10. IsInjective(Listing(s))
  <2> SUFFICES ASSUME NEW i \in 1..n, NEW j \in 1..n, i # j
               PROVE  Listing(s)[i] # Listing(s)[j]
    BY <1>9 DEF IsInjective
  <2>1. i < j \/ j < i
    BY <1>1
  <2>2. Listing(s)[i] \in Nat /\ Listing(s)[j] \in Nat
    BY <1>8
  <2> QED  BY <1>8, <1>9, <2>1, <2>2
<1>11. Listing(s) \in Surjection(1..n, s)
  BY <1>1, <1>8, <1>10, FS_Injection DEF Injection, n
<1> QED  BY <1>9, <1>10, <1>11 DEF Surjection

Overlay == [Names -> {"none", "here", "tombstone"}]
Handles == [open : BOOLEAN, ahead : SUBSET Baseline, listing : Seq(Names), off : Nat,
            given : Seq(Names), end : BOOLEAN]
Requests == [kind : {"none", "io", "opendir", "readdir", "releasedir"},
             at : {"user", "kernel", "pool", "answered"}]
Frames  == [of : Callers \union {Nobody},
            at : {"idle", "mutex", "session", "oneshot", "resolved", "object", "fetch", "change", "rename"},
            git : {"none", "flushing", "running", "hung"},
            wants : Names \union Objects \union {Nobody}]

Typed ==
  /\ entry \in Overlay /\ dir \in [Walkers -> Handles]
  /\ req \in [Callers -> Requests]
  /\ thread \in [Threads -> Frames]
  /\ poolQ \in Seq(Users) /\ metaQ \in Seq(Walkers)
  /\ steady \in [Walkers -> SUBSET Shown(entry)] /\ raced \in [Walkers -> SUBSET Names]

\* A walker's opendir waits in the queue or has one thread, which does nothing
\* but list; a handle is there only after it.
Lists(t) == thread[t].at \in {"mutex", "session", "oneshot", "resolved"} /\ thread[t].wants = Nobody

OneWalk ==
  /\ \A c \in Callers : req[c].kind = "io" => c \in Users
  /\ IsInjective(metaQ)
  /\ \A i \in 1..Len(metaQ) : At(metaQ[i], "opendir", "pool")
  /\ \A t \in Threads, w \in Walkers : thread[t].of = w =>
       /\ At(w, "opendir", "pool") /\ Lists(t)
       /\ \A i \in 1..Len(metaQ) : metaQ[i] # w
       /\ \A s \in Threads : thread[s].of = w => s = t
  /\ \A w \in Walkers :
       /\ dir[w].open => req[w].kind # "opendir" /\ req[w] # NoReq
       /\ req[w].kind = "readdir" => dir[w].open

Found(d) == {d.listing[i] : i \in 1..Len(d.listing)}

\* While opendir walks: what it passed by without listing it is in the overlay,
\* what it listed gets there only under its eyes.
Walked(w) ==
  LET d == dir[w] IN
  /\ ~d.open /\ IsInjective(d.listing)
  /\ Found(d) \subseteq Baseline \ d.ahead
  /\ \A n \in Baseline \ d.ahead : n \in steady[w] /\ n \notin Found(d) => entry[n] = "here"
  /\ \A n \in Found(d) : entry[n] = "here" => n \in raced[w]

\* No name but those of R twice, none three times.
Twice(l, R) ==
  /\ \A i, j \in 1..Len(l) : l[i] = l[j] /\ l[i] \notin R => i = j
  /\ \E k \in 0..Len(l) : /\ \A i, j \in 1..k : l[i] = l[j] => i = j
                          /\ \A i, j \in k + 1..Len(l) : l[i] = l[j] => i = j

Unread(d) == ~d.open => d.given = <<>> /\ d.off = 0 /\ ~d.end

\* What was given is the front of the listing.
Paged(d) ==
  /\ d.off = Len(d.given) /\ d.off <= Len(d.listing)
  /\ \A i \in 1..d.off : d.given[i] = d.listing[i]
  /\ d.end => d.off = Len(d.listing)

Listed(w) == Twice(dir[w].listing, raced[w]) /\ steady[w] \subseteq Found(dir[w])

Snapped ==
  /\ \A t \in Threads, w \in Walkers : thread[t].of = w => Walked(w)
  /\ \A w \in Walkers : Unread(dir[w]) /\ (dir[w].open => Paged(dir[w]) /\ Listed(w))

ListingInv == Typed /\ OneWalk /\ Snapped

LEMMA GivenOnce == ListingInv => EntriesOnce
<1> SUFFICES ASSUME ListingInv, NEW w \in Walkers
             PROVE  LET given == dir[w].given
                        once(I) == \A i, j \in I : given[i] = given[j] => i = j
                    IN  /\ once({i \in DOMAIN given : given[i] \notin raced[w]})
                        /\ \E k \in 0 .. Len(given) : once(1 .. k) /\ once(k + 1 .. Len(given))
                        /\ dir[w].end => steady[w] \subseteq {given[i] : i \in DOMAIN given}
  BY DEF EntriesOnce
<1> DEFINE d == dir[w]
           given == dir[w].given
<1>1. d \in Handles /\ Unread(d) /\ (d.open => Paged(d) /\ Listed(w))
  BY DEF ListingInv, Typed, Snapped
<1>2. given \in Seq(Names) /\ DOMAIN given = 1..Len(given) /\ Len(given) \in Nat
      /\ d.listing \in Seq(Names) /\ Len(d.listing) \in Nat
  BY <1>1 DEF Handles
<1>3. CASE ~d.open
  <2>1. given = <<>> /\ ~d.end /\ Len(given) = 0
    BY <1>1, <1>3 DEF Unread
  <2> QED  BY <1>2, <2>1
<1>4. CASE d.open
  <2>1. /\ Len(given) <= Len(d.listing) /\ \A i \in 1..Len(given) : given[i] = d.listing[i]
        /\ d.end => Len(given) = Len(d.listing)
    BY <1>1, <1>2, <1>4 DEF Paged
  <2>2. \A i, j \in 1..Len(d.listing) : d.listing[i] = d.listing[j] /\ d.listing[i] \notin raced[w] => i = j
    BY <1>1, <1>4 DEF Listed, Twice
  <2>3. PICK k \in 0..Len(d.listing) :
               /\ \A i, j \in 1..k : d.listing[i] = d.listing[j] => i = j
               /\ \A i, j \in k + 1..Len(d.listing) : d.listing[i] = d.listing[j] => i = j
    BY <1>1, <1>4 DEF Listed, Twice
  <2>4. steady[w] \subseteq {d.listing[i] : i \in 1..Len(d.listing)}
    BY <1>1, <1>4 DEF Listed, Found
  <2>5. \A i, j \in {i \in DOMAIN given : given[i] \notin raced[w]} : given[i] = given[j] => i = j
    BY <1>2, <2>1, <2>2
  <2>6. \E h \in 0..Len(given) : /\ \A i, j \in 1..h : given[i] = given[j] => i = j
                                 /\ \A i, j \in h + 1..Len(given) : given[i] = given[j] => i = j
    <3> DEFINE h == IF k <= Len(given) THEN k ELSE Len(given)
    <3>1. h \in 0..Len(given) /\ h <= k /\ (h = k \/ h = Len(given))
      BY <1>2
    <3> HIDE DEF h
    <3>2. \A i, j \in 1..h : given[i] = given[j] => i = j
      BY <1>2, <2>1, <2>3, <3>1
    <3>3. \A i, j \in h + 1..Len(given) : given[i] = given[j] => i = j
      BY <1>2, <2>1, <2>3, <3>1
    <3> QED  BY <3>1, <3>2, <3>3
  <2>7. d.end => steady[w] \subseteq {given[i] : i \in DOMAIN given}
    BY <1>2, <2>1, <2>4
  <2> QED  BY <2>5, <2>6, <2>7
<1> QED  BY <1>3, <1>4

LEMMA EmptyOverlay == \A e \in Overlay : /\ Shown(e) \subseteq Names /\ Here(e) \subseteq Names
                                         /\ IsFiniteSet(Here(e)) /\ Here(e) \in SUBSET Nat
BY FrontAssumption, FS_Subset DEF Shown, Here, Overlay

LEMMA NoDirRead == NoDir \in Handles /\ ~NoDir.open /\ Unread(NoDir)
BY DEF NoDir, Handles, Unread

\* The next page continues what was given.
LEMMA NextPage ==
  ASSUME NEW S, NEW s \in Seq(S), NEW a \in Nat, NEW b \in Nat, a <= b, b <= Len(s)
  PROVE  /\ SubSeq(s, a + 1, b) \in Seq(S) /\ Len(SubSeq(s, a + 1, b)) = b - a
         /\ \A i \in 1..(b - a) : SubSeq(s, a + 1, b)[i] = s[a + i]
OBVIOUS

LEMMA GivePaged ==
  ASSUME Typed, NEW w \in Walkers, Paged(dir[w]), dir[w].open, Give(w, dir[w].listing)
  PROVE  /\ dir' \in [Walkers -> Handles]
         /\ \A v \in Walkers \ {w} : dir'[v] = dir[v]
         /\ Paged(dir'[w]) /\ dir'[w].open /\ dir'[w].listing = dir[w].listing
<1> DEFINE d == dir[w]
           last == IF d.off + PAGE > Len(d.listing) THEN Len(d.listing) ELSE d.off + PAGE
           page == SubSeq(d.listing, d.off + 1, last)
           over == d.off >= Len(d.listing)
           e == [d EXCEPT !.off = last, !.given = @ \o page, !.end = over]
<1>1. d \in Handles /\ Paged(d) /\ d.open
  BY DEF Typed
<1>2. dir' = [dir EXCEPT ![w] = e]
  <2>1. dir' = [dir EXCEPT ![w].off = last, ![w].given = @ \o page, ![w].end = d.off >= Len(d.listing)]
    BY DEF Give
  <2> HIDE DEF last, page
  <2> QED  BY <2>1 DEF Typed
<1>3. /\ d.off \in Nat /\ Len(d.listing) \in Nat /\ d.listing \in Seq(Names) /\ d.given \in Seq(Names)
      /\ d.off <= Len(d.listing) /\ d.off = Len(d.given)
  BY <1>1 DEF Handles, Paged
<1>4. last \in Nat /\ d.off <= last /\ last <= Len(d.listing) /\ (d.off >= Len(d.listing) => last = Len(d.listing))
  BY <1>3, FrontAssumption
<1>5. page \in Seq(Names) /\ Len(page) = last - d.off /\ \A i \in 1..(last - d.off) : page[i] = d.listing[d.off + i]
  <2>1. PICK l, a, b : l = d.listing /\ a = d.off /\ b = last
    OBVIOUS
  <2>2. l \in Seq(Names) /\ a \in Nat /\ b \in Nat /\ a <= b /\ b <= Len(l)
    BY <1>3, <1>4, <2>1
  <2>3. /\ SubSeq(l, a + 1, b) \in Seq(Names) /\ Len(SubSeq(l, a + 1, b)) = b - a
        /\ \A i \in 1..(b - a) : SubSeq(l, a + 1, b)[i] = l[a + i]
    BY <2>2, NextPage
  <2> QED  BY <2>1, <2>3
<1> HIDE DEF d, last, page
<1>6. /\ d.given \o page \in Seq(Names) /\ Len(d.given \o page) = last
      /\ \A i \in 1..last : (d.given \o page)[i] = IF i <= d.off THEN d.given[i] ELSE page[i - d.off]
  BY <1>3, <1>4, <1>5
<1>7. ASSUME NEW i \in 1..last
      PROVE  (d.given \o page)[i] = d.listing[i]
  <2>1. CASE i <= d.off
    BY <1>1, <1>3, <1>4, <1>6, <2>1 DEF Paged
  <2>2. CASE ~(i <= d.off)
    <3>1. i - d.off \in 1..(last - d.off) /\ d.off + (i - d.off) = i
      BY <1>3, <1>4, <2>2
    <3> QED  BY <1>5, <1>6, <2>2, <3>1
  <2> QED  BY <2>1, <2>2
<1>8. e \in Handles
  <2>1. d \in Handles /\ d.given \o page \in Seq(Names) /\ last \in Nat /\ over \in BOOLEAN
    BY <1>1, <1>4, <1>6
  <2> HIDE DEF over
  <2> QED  BY <2>1 DEF Handles
<1>9. /\ e.open = d.open /\ e.listing = d.listing /\ e.off = last /\ e.given = d.given \o page
      /\ e.end <=> d.off >= Len(d.listing)
  BY <1>1 DEF Handles
<1>10. Paged(e)
  <2> HIDE DEF e
  <2>1. e.off = Len(e.given) /\ e.off <= Len(e.listing)
    BY <1>1, <1>4, <1>6, <1>9 DEF Paged
  <2>2. \A i \in 1..e.off : e.given[i] = e.listing[i]
    BY <1>7, <1>9
  <2>3. e.end => e.off = Len(e.listing)
    BY <1>1, <1>4, <1>9
  <2> QED  BY <2>1, <2>2, <2>3 DEF Paged
<1> HIDE DEF e
<1> QED  BY <1>1, <1>2, <1>8, <1>9, <1>10 DEF Typed, d

LEMMA ListingInit == Init => ListingInv
<1> SUFFICES ASSUME Init  PROVE ListingInv
  OBVIOUS
<1>1. entry \in Overlay /\ \A w \in Walkers : dir[w] = NoDir
  BY DEF Init, Overlay
<1>2. NoReq \in Requests /\ Free \in Frames /\ Free.of = Nobody
      /\ NoReq.kind = "none"
  BY DEF NoReq, Requests, Free, Frames
<1>3. Typed
  BY <1>1, <1>2, NoDirRead DEF Init, Typed
<1>4. \A t \in Threads : thread[t].of \notin Walkers
  BY <1>2, FrontAssumption DEF Init
<1>5. OneWalk
  BY <1>1, <1>2, <1>4, NoDirRead DEF Init, OneWalk, IsInjective, Callers
<1>6. Snapped
  BY <1>1, <1>4, NoDirRead DEF Snapped
<1> QED  BY <1>3, <1>5, <1>6 DEF ListingInv

\* Nothing the listings rest on changes.
LEMMA Still ==
  ASSUME Snapped, UNCHANGED <<entry, dir, steady, raced>>,
         \A t \in Threads : thread'[t].of \in Walkers => thread'[t].of = thread[t].of
  PROVE  Snapped'
<1>1. ASSUME NEW w \in Walkers
      PROVE  (Walked(w) => Walked(w)') /\ (Listed(w) => Listed(w)')
  BY DEF Walked, Listed
<1>2. \A w \in Walkers : Unread(dir[w])' /\ ((dir[w].open)' => Paged(dir[w])' /\ Listed(w)')
  BY <1>1 DEF Snapped
<1>3. \A t \in Threads, w \in Walkers : thread'[t].of = w => Walked(w)'
  BY <1>1 DEF Snapped
<1> QED  BY <1>2, <1>3 DEF Snapped

LEMMA Same ==
  ASSUME ListingInv, UNCHANGED <<entry, dir, steady, raced>>, OneWalk',
         thread' \in [Threads -> Frames], req' \in [Callers -> Requests],
         poolQ' \in Seq(Users), metaQ' \in Seq(Walkers),
         \A t \in Threads : thread'[t].of \in Walkers => thread'[t].of = thread[t].of
  PROVE  ListingInv'
BY Still DEF ListingInv, Typed

\* A thread goes on with its request.
LEMMA ThreadGoesOn ==
  ASSUME ListingInv, NEW t \in Threads, NEW f \in Frames, thread' = [thread EXCEPT ![t] = f],
         f.of = thread[t].of,
         f.of \in Walkers => f.at \in {"mutex", "session", "oneshot", "resolved"} /\ f.wants = Nobody,
         UNCHANGED <<req, metaQ>>, \A w \in Walkers : dir'[w].open = dir[w].open
  PROVE  /\ thread' \in [Threads -> Frames] /\ OneWalk'
         /\ \A s \in Threads : thread'[s].of = thread[s].of
<1>1. thread' \in [Threads -> Frames] /\ thread'[t] = f /\ \A s \in Threads \ {t} : thread'[s] = thread[s]
  BY DEF ListingInv, Typed
<1>2. \A s \in Threads : thread'[s].of = thread[s].of
  BY <1>1
<1>3. \A s \in Threads : thread[s].of \in Walkers => Lists(s)'
  BY <1>1 DEF ListingInv, OneWalk, Lists
<1>4. OneWalk'
  BY <1>2, <1>3 DEF ListingInv, OneWalk, At
<1> QED  BY <1>1, <1>2, <1>4

LEMMA ThreadDone ==
  ASSUME ListingInv, NEW t \in Threads, Done(t), UNCHANGED <<poolQ, metaQ>>,
         \A w \in Walkers : dir'[w].open => dir[w].open \/ w = thread[t].of,
         \A w \in Walkers : dir[w].open => dir'[w].open
  PROVE  /\ thread' \in [Threads -> Frames] /\ req' \in [Callers -> Requests]
         /\ thread'[t].of = Nobody /\ \A s \in Threads \ {t} : thread'[s] = thread[s]
         /\ OneWalk'
<1> DEFINE c == thread[t].of
           a == [NoReq EXCEPT !.at = "answered"]
<1>1. /\ thread' = [thread EXCEPT ![t] = Free] /\ req' = [req EXCEPT ![c] = a]
  BY DEF Done, Answer
<1>2. Free \in Frames /\ Free.of = Nobody /\ a = [kind |-> "none", at |-> "answered"] /\ a # NoReq
  BY DEF Free, Frames, NoReq
<1>3. a \in Requests /\ a.kind = "none"
  BY <1>2 DEF Requests
<1> HIDE DEF c, a
<1>4. /\ thread' \in [Threads -> Frames] /\ thread'[t] = Free
      /\ \A s \in Threads \ {t} : thread'[s] = thread[s]
  BY <1>1, <1>2 DEF ListingInv, Typed
<1>5. /\ req' \in [Callers -> Requests]
      /\ \A x \in Callers : req'[x] = IF x = c THEN a ELSE req[x]
  BY <1>1, <1>3 DEF ListingInv, Typed
<1>6. Walkers \subseteq Callers /\ Nobody \notin Walkers
  BY FrontAssumption DEF Callers
<1>7. \A x \in Callers : req'[x].kind = "io" => x \in Users
  BY <1>3, <1>5 DEF ListingInv, OneWalk
<1>8. IsInjective(metaQ) /\ \A i \in 1..Len(metaQ) : At(metaQ[i], "opendir", "pool")'
  <2>1. \A i \in 1..Len(metaQ) : metaQ[i] \in Walkers /\ metaQ[i] # c
    BY DEF ListingInv, Typed, OneWalk, c
  <2>2. \A i \in 1..Len(metaQ) : req'[metaQ[i]] = req[metaQ[i]]
    BY <1>5, <1>6, <2>1
  <2>3. IsInjective(metaQ) /\ \A i \in 1..Len(metaQ) : req[metaQ[i]] = [kind |-> "opendir", at |-> "pool"]
    BY DEF ListingInv, OneWalk, At
  <2> QED  BY <2>2, <2>3 DEF At
<1>9. ASSUME NEW s \in Threads, NEW w \in Walkers, thread'[s].of = w
      PROVE  /\ At(w, "opendir", "pool")' /\ Lists(s)'
             /\ \A i \in 1..Len(metaQ) : metaQ[i] # w
             /\ \A r \in Threads : thread'[r].of = w => r = s
  <2>1. s # t /\ thread'[s] = thread[s] /\ thread[s].of = w
    BY <1>2, <1>4, <1>6, <1>9
  <2>2. w # c
    BY <2>1 DEF ListingInv, OneWalk, c
  <2>3. Lists(s)'
    BY <2>1 DEF ListingInv, OneWalk, Lists
  <2>4. At(w, "opendir", "pool")'
    BY <1>5, <1>6, <2>1, <2>2 DEF ListingInv, OneWalk, At
  <2>5. \A r \in Threads : thread'[r].of = w => r = s
    BY <1>2, <1>4, <1>6, <2>1 DEF ListingInv, OneWalk
  <2> QED  BY <2>1, <2>3, <2>4, <2>5 DEF ListingInv, OneWalk
<1>10. \A w \in Walkers : /\ dir'[w].open => req'[w].kind # "opendir" /\ req'[w] # NoReq
                          /\ req'[w].kind = "readdir" => dir'[w].open
  BY <1>2, <1>3, <1>5, <1>6 DEF ListingInv, OneWalk, c
<1>11. OneWalk'
  BY <1>7, <1>8, <1>9, <1>10 DEF OneWalk
<1> QED  BY <1>2, <1>4, <1>5, <1>11

\* What a change of the overlay leaves of the walks and the listings.
LEMMA Changed ==
  ASSUME ListingInv, entry' \in Overlay, dir' = dir, NEW new \in SUBSET Names, NEW leaving,
         Witness(new, leaving),
         \A n \in Names : entry'[n] = "here" => entry[n] = "here" \/ n \in new,
         \A n \in Names : entry[n] = "here" /\ n \in Shown(entry') /\ entry'[n] # "here" => n \in leaving,
         \A t \in Threads : thread'[t].of \in Walkers => thread'[t].of = thread[t].of
  PROVE  /\ steady' \in [Walkers -> SUBSET Shown(entry')] /\ raced' \in [Walkers -> SUBSET Names]
         /\ Snapped'
<1>1. ASSUME NEW w \in Walkers
      PROVE  /\ steady'[w] = (steady[w] \intersect Shown(entry')) \ leaving
             /\ raced'[w] = IF At(w, "opendir", "pool") THEN raced[w] \union new ELSE raced[w]
  BY DEF Witness
<1>2. steady' \in [Walkers -> SUBSET Shown(entry')] /\ raced' \in [Walkers -> SUBSET Names]
  BY DEF Witness, ListingInv, Typed
<1>3. ASSUME NEW t \in Threads, NEW w \in Walkers, thread'[t].of = w
      PROVE  Walked(w)'
  <2>1. thread[t].of = w
    BY <1>3
  <2>2. Walked(w) /\ At(w, "opendir", "pool")
    BY <2>1 DEF ListingInv, OneWalk, Snapped
  <2> DEFINE d == dir[w]
  <2>3. d.listing \in Seq(Names) /\ Found(d) \subseteq Names /\ Baseline \subseteq Names
    BY FrontAssumption DEF ListingInv, Typed, Handles, Found
  <2> HIDE DEF d
  <2>4. \A n \in Baseline \ d.ahead : n \in steady'[w] /\ n \notin Found(d) => entry'[n] = "here"
    BY <1>1, <2>2, <2>3 DEF Walked, d
  <2>5. \A n \in Found(d) : entry'[n] = "here" => n \in raced'[w]
    BY <1>1, <2>2, <2>3 DEF Walked, d
  <2> QED  BY <2>2, <2>4, <2>5 DEF Walked, d
<1>4. ASSUME NEW w \in Walkers
      PROVE  Unread(dir'[w]) /\ (dir'[w].open => Paged(dir'[w]) /\ Listed(w)')
  <2>1. raced[w] \subseteq raced'[w] /\ steady'[w] \subseteq steady[w]
    BY <1>1
  <2>2. Unread(dir[w]) /\ (dir[w].open => Paged(dir[w]) /\ Listed(w))
    BY DEF ListingInv, Snapped
  <2>3. Listed(w) => Twice(dir[w].listing, raced'[w]) /\ steady'[w] \subseteq Found(dir[w])
    BY <2>1 DEF Listed, Twice
  <2> QED  BY <2>2, <2>3 DEF Listed
<1> QED  BY <1>2, <1>3, <1>4 DEF Snapped

\* The names of a set s not met before, appended to a listing without repetition.
LEMMA Appended ==
  ASSUME NEW l \in Seq(Names), NEW m \in Seq(Names), NEW R,
         IsInjective(l), IsInjective(m),
         \A i \in 1..Len(l), j \in 1..Len(m) : l[i] = m[j] => l[i] \in R
  PROVE  Twice(l \o m, R)
<1>1. /\ Len(l) \in Nat /\ Len(m) \in Nat /\ DOMAIN l = 1..Len(l) /\ DOMAIN m = 1..Len(m)
      /\ Len(l \o m) = Len(l) + Len(m)
      /\ \A i \in 1..Len(l) : (l \o m)[i] = l[i]
      /\ \A i \in Len(l) + 1..Len(l) + Len(m) : (l \o m)[i] = m[i - Len(l)] /\ i - Len(l) \in 1..Len(m)
  OBVIOUS
<1> DEFINE lm == l \o m
<1> HIDE DEF lm
<1>2. \A i, j \in 1..Len(l) : lm[i] = lm[j] => i = j
  BY <1>1 DEF IsInjective, lm
<1>3. \A i, j \in Len(l) + 1..Len(lm) : lm[i] = lm[j] => i = j
  BY <1>1 DEF IsInjective, lm
<1>4. ASSUME NEW i \in 1..Len(l), NEW j \in Len(l) + 1..Len(lm), lm[i] = lm[j]
      PROVE  lm[i] \in R
  BY <1>1, <1>4 DEF lm
<1>5. \A i \in 1..Len(lm) : i \in 1..Len(l) \/ i \in Len(l) + 1..Len(lm)
  BY <1>1 DEF lm
<1>6. \A i, j \in 1..Len(lm) : lm[i] = lm[j] /\ lm[i] \notin R => i = j
  BY <1>2, <1>3, <1>4, <1>5
<1>7. Len(l) \in 0..Len(lm)
  BY <1>1 DEF lm
<1> QED  BY <1>2, <1>3, <1>6, <1>7 DEF Twice, lm

Places == {"mutex", "session", "oneshot", "resolved", "object", "fetch", "change", "rename"}
Gits   == {"none", "flushing", "running", "hung"}
Wanted == Names \union Objects \union {Nobody}

\* A step of a thread's own within its request.
LEMMA OwnStep ==
  ASSUME ListingInv, NEW t \in Threads, NEW f \in Frames, thread' = [thread EXCEPT ![t] = f],
         f.of = thread[t].of,
         f.of \in Walkers => f.at \in {"mutex", "session", "oneshot", "resolved"} /\ f.wants = Nobody,
         UNCHANGED <<req, metaQ, entry, dir, poolQ, steady, raced>>
  PROVE  ListingInv'
<1>1. thread' \in [Threads -> Frames] /\ OneWalk' /\ \A s \in Threads : thread'[s].of = thread[s].of
  BY ThreadGoesOn
<1> QED  BY <1>1, Same DEF ListingInv, Typed

\* An answer that changes nothing else.
LEMMA OwnAnswer ==
  ASSUME ListingInv, NEW t \in Threads, Done(t), UNCHANGED <<entry, dir, poolQ, metaQ, steady, raced>>
  PROVE  ListingInv'
<1>1. /\ thread' \in [Threads -> Frames] /\ req' \in [Callers -> Requests]
      /\ thread'[t].of = Nobody /\ \A s \in Threads \ {t} : thread'[s] = thread[s]
      /\ OneWalk'
  BY ThreadDone
<1>2. \A s \in Threads : thread'[s].of \in Walkers => thread'[s].of = thread[s].of
  BY <1>1, FrontAssumption
<1> QED  BY <1>1, <1>2, Same DEF ListingInv, Typed

\* An answer with a change of the overlay.
LEMMA AnswerChanged ==
  ASSUME ListingInv, NEW t \in Threads, Done(t), UNCHANGED <<dir, poolQ, metaQ>>,
         entry' \in Overlay, NEW new \in SUBSET Names, Witness(new, {}),
         \A n \in Names : entry'[n] = "here" => entry[n] = "here" \/ n \in new,
         \A n \in Names : entry[n] = "here" /\ n \in Shown(entry') => entry'[n] = "here"
  PROVE  ListingInv'
<1>1. /\ thread' \in [Threads -> Frames] /\ req' \in [Callers -> Requests]
      /\ thread'[t].of = Nobody /\ \A s \in Threads \ {t} : thread'[s] = thread[s]
      /\ OneWalk'
  BY ThreadDone
<1>2. \A s \in Threads : thread'[s].of \in Walkers => thread'[s].of = thread[s].of
  BY <1>1, FrontAssumption
<1>3. /\ steady' \in [Walkers -> SUBSET Shown(entry')] /\ raced' \in [Walkers -> SUBSET Names]
      /\ Snapped'
  BY <1>2, Changed
<1> QED  BY <1>1, <1>3 DEF ListingInv, Typed

LEMMA CallerStep ==
  ASSUME ListingInv, NEW c \in Callers,
         (c \in Users /\ Call(c)) \/ (c \in Walkers /\ (Opendir(c) \/ Page(c)))
  PROVE  ListingInv'
<1>1. /\ thread' = thread /\ metaQ' = metaQ /\ poolQ' = poolQ /\ dir' = dir /\ entry' = entry /\ raced' = raced
  BY DEF Call, Opendir, Page, fetching, ghosts
<1>2. PICK k \in {"io", "opendir", "readdir", "releasedir"} :
        /\ req' = [req EXCEPT ![c] = [kind |-> k, at |-> "kernel"]]
        /\ k = "io" => c \in Users
        /\ c \in Walkers /\ k = "opendir" => req[c] = NoReq
        /\ c \in Walkers /\ k \in {"readdir", "releasedir"} => dir[c].open
        /\ ~Waiting(c)
        /\ k \in {"readdir", "releasedir"} => c \in Walkers
  <2>1. ~Waiting(c)
    BY DEF Call, Opendir, Page, NoReq, Waiting
  <2> QED  BY <2>1 DEF Call, Opendir, Page, Send
<1>3. [kind |-> k, at |-> "kernel"] \in Requests
  BY DEF Requests
<1>4. req' \in [Callers -> Requests] /\ req'[c] = [kind |-> k, at |-> "kernel"]
      /\ \A x \in Callers \ {c} : req'[x] = req[x]
  BY <1>2, <1>3 DEF ListingInv, Typed
<1>5. Walkers \subseteq Callers /\ Users \subseteq Callers /\ Users \intersect Walkers = {}
  BY FrontAssumption DEF Callers
<1>6. \A w \in Walkers : At(w, "opendir", "pool") => w # c /\ At(w, "opendir", "pool")'
  BY <1>2, <1>4, <1>5 DEF At, Waiting
<1>7. \A x \in Callers : req'[x].kind = "io" => x \in Users
  BY <1>2, <1>4 DEF ListingInv, OneWalk
<1>8. IsInjective(metaQ) /\ \A i \in 1..Len(metaQ) : At(metaQ[i], "opendir", "pool")'
  <2>1. \A i \in 1..Len(metaQ) : metaQ[i] \in Walkers /\ At(metaQ[i], "opendir", "pool")
    BY DEF ListingInv, Typed, OneWalk
  <2>2. \A i \in 1..Len(metaQ) : req'[metaQ[i]] = req[metaQ[i]]
    BY <1>4, <1>5, <1>6, <2>1
  <2> QED  BY <1>1, <2>1, <2>2 DEF ListingInv, OneWalk, At
<1>9. \A t \in Threads, w \in Walkers : thread[t].of = w =>
        /\ At(w, "opendir", "pool")' /\ Lists(t)
        /\ \A i \in 1..Len(metaQ) : metaQ[i] # w
        /\ \A s \in Threads : thread[s].of = w => s = t
  BY <1>6 DEF ListingInv, OneWalk
<1>10. \A w \in Walkers : /\ dir[w].open => req'[w].kind # "opendir" /\ req'[w] # NoReq
                          /\ req'[w].kind = "readdir" => dir[w].open
  <2> TAKE w \in Walkers
  <2>1. dir[w].open => req[w].kind # "opendir" /\ req[w] # NoReq
    BY DEF ListingInv, OneWalk
  <2>2. req[w].kind = "readdir" => dir[w].open
    BY DEF ListingInv, OneWalk
  <2>3. CASE w # c
    BY <1>4, <1>5, <2>1, <2>2, <2>3
  <2>4. CASE w = c
    BY <1>2, <1>4, <1>5, <2>1, <2>4 DEF NoReq
  <2> QED  BY <2>3, <2>4
<1>11. OneWalk'
  BY <1>1, <1>7, <1>8, <1>9, <1>10 DEF OneWalk, Lists
<1>12. CASE steady' = steady
  BY <1>1, <1>4, <1>11, <1>12, Same DEF ListingInv, Typed
<1>13. CASE ~(steady' = steady)
  <2>1. c \in Walkers /\ steady' = [steady EXCEPT ![c] = Shown(entry)] /\ req[c] = NoReq
    BY <1>13 DEF Call, Page, Opendir, fetching, ghosts
  <2>2. steady' \in [Walkers -> SUBSET Shown(entry)]
    BY <2>1 DEF ListingInv, Typed
  <2>3. Typed'
    BY <1>1, <1>4, <2>2 DEF ListingInv, Typed
  <2>4. \A t \in Threads : thread[t].of # c
    BY <2>1 DEF ListingInv, OneWalk, At, NoReq
  <2>5. ~dir[c].open
    BY <2>1 DEF ListingInv, OneWalk
  <2>6. \A w \in Walkers \ {c} : steady'[w] = steady[w]
    BY <2>1 DEF ListingInv, Typed
  <2>7. \A w \in Walkers \ {c} : (Walked(w) => Walked(w)') /\ (Listed(w) => Listed(w)')
    BY <1>1, <2>6 DEF Walked, Listed
  <2>8. \A t \in Threads, w \in Walkers : thread[t].of = w => Walked(w)'
    BY <2>4, <2>7 DEF ListingInv, Snapped
  <2>9. \A w \in Walkers : Unread(dir[w]) /\ (dir[w].open => Paged(dir[w]) /\ Listed(w)')
    BY <2>5, <2>7 DEF ListingInv, Snapped
  <2>10. Snapped'
    BY <1>1, <2>8, <2>9 DEF Snapped
  <2> QED  BY <1>11, <2>3, <2>10 DEF ListingInv
<1> QED  BY <1>12, <1>13

LEMMA DispatchStep ==
  ASSUME ListingInv, NEW c \in Callers, DispatchIo(c) \/ (DispatchOpendir(c) /\ c \in Walkers)
  PROVE  ListingInv'
<1>1. /\ thread' = thread /\ dir' = dir /\ UNCHANGED <<entry, steady, raced>>
      /\ req' = [req EXCEPT ![c].at = "pool"] /\ req[c].at = "kernel"
  BY DEF DispatchIo, DispatchOpendir, fetching, ghosts, At
<1>2. /\ req[c] \in Requests /\ req'[c] = [kind |-> req[c].kind, at |-> "pool"]
      /\ req' \in [Callers -> Requests] /\ \A x \in Callers \ {c} : req'[x] = req[x]
  <2>1. req[c] \in Requests /\ req \in [Callers -> Requests]
    BY DEF ListingInv, Typed
  <2>2. [req[c] EXCEPT !.at = "pool"] = [kind |-> req[c].kind, at |-> "pool"]
    BY <2>1 DEF Requests
  <2>3. [kind |-> req[c].kind, at |-> "pool"] \in Requests
    BY <2>1 DEF Requests
  <2> QED  BY <1>1, <2>1, <2>2, <2>3
<1>3. Walkers \subseteq Callers /\ Users \intersect Walkers = {}
  BY FrontAssumption DEF Callers
<1>4. \A x \in Callers : req'[x].kind = req[x].kind
  BY <1>2
<1>5. \A w \in Walkers : At(w, "opendir", "pool") => w # c /\ At(w, "opendir", "pool")'
  BY <1>1, <1>2, <1>3 DEF At
<1>6. \A w \in Walkers : dir[w].open => req'[w] # NoReq
  <2> TAKE w \in Walkers
  <2>1. CASE w = c
    BY <1>2, <2>1 DEF NoReq
  <2>2. CASE w # c
    BY <1>2, <1>3, <2>2 DEF ListingInv, OneWalk
  <2> QED  BY <2>1, <2>2
<1>7. CASE DispatchIo(c)
  <2>1. c \in Users /\ poolQ' = Append(poolQ, c) /\ metaQ' = metaQ
    BY <1>7 DEF DispatchIo, At, ListingInv, OneWalk
  <2>2. poolQ' \in Seq(Users) /\ metaQ' \in Seq(Walkers)
    BY <2>1 DEF ListingInv, Typed
  <2>3. \A i \in 1..Len(metaQ) : At(metaQ[i], "opendir", "pool")'
    <3>1. \A i \in 1..Len(metaQ) : metaQ[i] \in Walkers /\ At(metaQ[i], "opendir", "pool")
      BY DEF ListingInv, Typed, OneWalk
    <3>2. \A i \in 1..Len(metaQ) : req'[metaQ[i]] = req[metaQ[i]]
      BY <1>2, <1>3, <1>5, <3>1
    <3> QED  BY <2>1, <3>1, <3>2 DEF At
  <2>4. OneWalk'
    BY <1>1, <1>3, <1>4, <1>5, <1>6, <2>1, <2>3 DEF ListingInv, OneWalk, Lists
  <2> QED  BY <1>1, <1>2, <2>2, <2>4, Same DEF ListingInv, Typed
<1>8. CASE DispatchOpendir(c) /\ c \in Walkers
  <2>1. metaQ' = Append(metaQ, c) /\ poolQ' = poolQ /\ At(c, "opendir", "kernel")
    BY <1>8 DEF DispatchOpendir
  <2>2. metaQ \in Seq(Walkers) /\ Len(metaQ) \in Nat /\ DOMAIN metaQ = 1..Len(metaQ)
    BY DEF ListingInv, Typed
  <2>3. /\ metaQ' \in Seq(Walkers) /\ Len(metaQ') = Len(metaQ) + 1
        /\ \A i \in 1..Len(metaQ) : metaQ'[i] = metaQ[i]
        /\ metaQ'[Len(metaQ) + 1] = c /\ DOMAIN metaQ' = 1..Len(metaQ) + 1
    BY <1>8, <2>1, <2>2
  <2>4. At(c, "opendir", "pool")' /\ ~At(c, "opendir", "pool")
    BY <1>2, <2>1 DEF At
  <2>5. \A i \in 1..Len(metaQ) : metaQ[i] # c /\ metaQ[i] \in Walkers /\ At(metaQ[i], "opendir", "pool")
    BY <2>2, <2>4 DEF ListingInv, OneWalk
  <2>6. IsInjective(metaQ')
    <3> SUFFICES ASSUME NEW i \in 1..Len(metaQ) + 1, NEW j \in 1..Len(metaQ) + 1, metaQ'[i] = metaQ'[j]
                 PROVE  i = j
      BY <2>3 DEF IsInjective
    <3>1. i \in 1..Len(metaQ) \/ i = Len(metaQ) + 1
      BY <2>2
    <3>2. j \in 1..Len(metaQ) \/ j = Len(metaQ) + 1
      BY <2>2
    <3>3. \A k, l \in 1..Len(metaQ) : metaQ[k] = metaQ[l] => k = l
      BY <2>2 DEF ListingInv, OneWalk, IsInjective
    <3> QED  BY <2>3, <2>5, <3>1, <3>2, <3>3
  <2>7. \A i \in 1..Len(metaQ') : At(metaQ[i], "opendir", "pool")'
    <3> SUFFICES ASSUME NEW i \in 1..Len(metaQ) + 1
                 PROVE  (req[metaQ[i]])' = [kind |-> "opendir", at |-> "pool"]
      BY <2>3 DEF At
    <3>1. CASE i \in 1..Len(metaQ)
      BY <1>5, <2>3, <2>5, <3>1 DEF At
    <3>2. CASE i = Len(metaQ) + 1
      BY <2>3, <2>4, <3>2 DEF At
    <3> QED  BY <2>2, <3>1, <3>2
  <2>8. \A t \in Threads : thread[t].of # c
    BY <1>8, <2>4 DEF ListingInv, OneWalk
  <2>9. \A t \in Threads, w \in Walkers : thread[t].of = w => \A i \in 1..Len(metaQ') : metaQ'[i] # w
    <3> SUFFICES ASSUME NEW t \in Threads, NEW w \in Walkers, thread[t].of = w, NEW i \in 1..Len(metaQ) + 1
                 PROVE  metaQ'[i] # w
      BY <2>3
    <3>1. CASE i \in 1..Len(metaQ)
      BY <2>3, <3>1 DEF ListingInv, OneWalk
    <3>2. CASE i = Len(metaQ) + 1
      BY <2>3, <2>8, <3>2
    <3> QED  BY <2>2, <3>1, <3>2
  <2>10. OneWalk'
    <3>1. \A x \in Callers : req'[x].kind = "io" => x \in Users
      BY <1>4 DEF ListingInv, OneWalk
    <3>2. \A t \in Threads, w \in Walkers : thread[t].of = w =>
            /\ At(w, "opendir", "pool")' /\ Lists(t)
            /\ \A s \in Threads : thread[s].of = w => s = t
      BY <1>5 DEF ListingInv, OneWalk
    <3>3. \A w \in Walkers : /\ dir[w].open => req'[w].kind # "opendir"
                             /\ req'[w].kind = "readdir" => dir[w].open
      BY <1>3, <1>4 DEF ListingInv, OneWalk
    <3> QED  BY <1>1, <1>6, <2>6, <2>7, <2>9, <3>1, <3>2, <3>3 DEF OneWalk, Lists
  <2> QED  BY <1>1, <1>2, <2>1, <2>3, <2>10, Same DEF ListingInv, Typed
<1> QED  BY <1>7, <1>8

\* The steps of a thread that leave the directory and its listings alone.
LEMMA QuietStep ==
  ASSUME ListingInv, NEW t \in Threads,
         \/ DispatchFlush(t) \/ LockSession(t) \/ SessionEnds(t) \/ OneShotEnds(t) \/ Hang(t)
         \/ WantObject(t) \/ LockObject(t) \/ FetchEnds(t) \/ Reply(t)
  PROVE  ListingInv'
<1> DEFINE c == thread[t]
<1>1. c \in Frames /\ thread \in [Threads -> Frames] /\ (c.of \in Walkers => Lists(t))
  BY DEF ListingInv, Typed, OneWalk
<1>2. UNCHANGED <<entry, dir, poolQ, metaQ, steady, raced>>
  BY DEF DispatchFlush, LockSession, SessionEnds, OneShotEnds, Hang, WantObject, LockObject,
         FetchEnds, Reply, fetching, ghosts
<1>3. CASE Done(t)
  BY <1>2, <1>3, OwnAnswer
<1>4. ASSUME NEW g \in Gits, thread' = [thread EXCEPT ![t].git = g], UNCHANGED req  PROVE ListingInv'
  <2> DEFINE h == [c EXCEPT !.git = g]
  <2>1. h \in Frames /\ h.of = c.of /\ h.at = c.at /\ h.wants = c.wants
    BY <1>1, <1>4 DEF Frames, Gits
  <2>2. thread' = [thread EXCEPT ![t] = h]
    BY <1>1, <1>4
  <2> HIDE DEF h
  <2>3. h.of \in Walkers => h.at \in {"mutex", "session", "oneshot", "resolved"} /\ h.wants = Nobody
    BY <1>1, <1>4, <2>1 DEF Lists
  <2> QED  BY <1>2, <1>4, <2>1, <2>2, <2>3, OwnStep
<1>5. ASSUME NEW a \in Places, NEW g \in Gits, thread' = [thread EXCEPT ![t].at = a, ![t].git = g], UNCHANGED req,
             c.of \in Walkers => a \in {"mutex", "session", "oneshot", "resolved"}
      PROVE  ListingInv'
  <2> DEFINE h == [c EXCEPT !.at = a, !.git = g]
  <2>1. h \in Frames /\ h.of = c.of /\ h.at = a /\ h.wants = c.wants
    BY <1>1, <1>5 DEF Frames, Places, Gits
  <2>2. thread' = [thread EXCEPT ![t] = h]
    BY <1>1, <1>5
  <2> HIDE DEF h
  <2>3. h.of \in Walkers => h.at \in {"mutex", "session", "oneshot", "resolved"} /\ h.wants = Nobody
    BY <1>1, <1>5, <2>1 DEF Lists
  <2> QED  BY <1>2, <1>5, <2>1, <2>2, <2>3, OwnStep
<1>6. ASSUME NEW a \in Places, NEW x \in Wanted, thread' = [thread EXCEPT ![t].at = a, ![t].wants = x], UNCHANGED req,
             c.of \notin Walkers
      PROVE  ListingInv'
  <2> DEFINE h == [c EXCEPT !.at = a, !.wants = x]
  <2>1. h \in Frames /\ h.of = c.of /\ h.at = a /\ h.wants = x
    BY <1>1, <1>6 DEF Frames, Places, Wanted
  <2>2. thread' = [thread EXCEPT ![t] = h]
    BY <1>1, <1>6
  <2> HIDE DEF h
  <2>3. h.of \in Walkers => h.at \in {"mutex", "session", "oneshot", "resolved"} /\ h.wants = Nobody
    BY <1>1, <1>6, <2>1 DEF Lists
  <2> QED  BY <1>2, <1>6, <2>1, <2>2, <2>3, OwnStep
<1>7. CASE DispatchFlush(t)
  BY <1>4, <1>7 DEF DispatchFlush, Gits
<1>8. CASE LockSession(t)
  BY <1>5, <1>8 DEF LockSession, Gits, Places, Spawned
<1>9. ASSUME Resolved(t), UNCHANGED req  PROVE ListingInv'
  <2>1. c.of \in Walkers => c.wants \notin Names
    BY <1>1, FrontAssumption DEF Lists
  <2> QED  BY <1>5, <1>9, <2>1 DEF Resolved, Goes, Gits, Places
<1>10. CASE SessionEnds(t)
  <2>1. ASSUME UNCHANGED req, NEW g \in Spawned, thread' = [thread EXCEPT ![t].at = "oneshot", ![t].git = g]
        PROVE  ListingInv'
    BY <1>5, <2>1 DEF Gits, Places, Spawned
  <2> QED  BY <1>3, <1>9, <1>10, <2>1 DEF SessionEnds
<1>11. CASE OneShotEnds(t)
  BY <1>3, <1>9, <1>11 DEF OneShotEnds
<1>12. CASE Hang(t)
  BY <1>4, <1>12 DEF Hang, Gits
<1>13. CASE WantObject(t)
  <2>1. c.of \notin Walkers
    BY <1>13, FrontAssumption DEF WantObject
  <2> QED  BY <1>6, <1>13, <2>1 DEF WantObject, Places, Wanted
<1>14. CASE LockObject(t)
  <2>1. c.of \notin Walkers /\ UNCHANGED req
    BY <1>1, <1>14 DEF LockObject, Lists
  <2>2. CASE thread' = [thread EXCEPT ![t].at = "change", ![t].wants = Nobody]
    BY <1>6, <2>1, <2>2 DEF Places, Wanted
  <2>3. ASSUME NEW g \in Spawned, thread' = [thread EXCEPT ![t].at = "fetch", ![t].git = g]
        PROVE  ListingInv'
    BY <1>5, <2>1, <2>3 DEF Places, Gits, Spawned
  <2> QED  BY <1>14, <2>2, <2>3 DEF LockObject
<1>15. CASE FetchEnds(t)
  <2>1. CASE thread' = [thread EXCEPT ![t].at = "change", ![t].git = "none", ![t].wants = Nobody] /\ UNCHANGED req
    <3> DEFINE h == [c EXCEPT !.at = "change", !.git = "none", !.wants = Nobody]
    <3>1. h \in Frames /\ h.of = c.of
      BY <1>1 DEF Frames, Places, Gits, Wanted
    <3>2. thread' = [thread EXCEPT ![t] = h]
      BY <1>1, <2>1
    <3>3. c.of \notin Walkers
      BY <1>1, <1>15 DEF FetchEnds, Lists
    <3> HIDE DEF h
    <3> QED  BY <1>1, <1>2, <2>1, <3>1, <3>2, <3>3, OwnStep
  <2> QED  BY <1>3, <1>15, <2>1 DEF FetchEnds
<1>16. CASE Reply(t)
  BY <1>3, <1>16 DEF Reply
<1> QED  BY <1>7, <1>8, <1>10, <1>11, <1>12, <1>13, <1>14, <1>15, <1>16

\* readdir and releasedir, answered by the loop.
LEMMA ReadStep ==
  ASSUME ListingInv, NEW v \in Walkers, DispatchReaddir(v) \/ DispatchReleasedir(v)
  PROVE  ListingInv'
<1> DEFINE a == [NoReq EXCEPT !.at = "answered"]
<1>1. /\ thread' = thread /\ UNCHANGED <<entry, poolQ, metaQ>> /\ req' = [req EXCEPT ![v] = a]
      /\ req[v].kind \in {"readdir", "releasedir"}
  BY DEF DispatchReaddir, DispatchReleasedir, fetching, ghosts, Answer, At
<1>2. a = [kind |-> "none", at |-> "answered"] /\ a # NoReq
  BY DEF NoReq
<1>3. a \in Requests /\ a.kind = "none"
  BY <1>2 DEF Requests
<1> HIDE DEF a
<1>4. v \in Callers /\ Walkers \subseteq Callers
  BY DEF Callers
<1>5. req' \in [Callers -> Requests] /\ req'[v] = a /\ \A x \in Callers \ {v} : req'[x] = req[x]
  BY <1>1, <1>3, <1>4 DEF ListingInv, Typed
<1>6. \A w \in Walkers : At(w, "opendir", "pool") => w # v /\ At(w, "opendir", "pool")'
  BY <1>1, <1>4, <1>5 DEF At
<1>7. (\A t \in Threads : thread[t].of # v) /\ \A i \in 1..Len(metaQ) : metaQ[i] \in Walkers /\ metaQ[i] # v
  BY <1>6 DEF ListingInv, Typed, OneWalk
<1>8. /\ dir' \in [Walkers -> Handles] /\ \A w \in Walkers \ {v} : dir'[w] = dir[w]
      /\ steady' \in [Walkers -> SUBSET Shown(entry)] /\ raced' \in [Walkers -> SUBSET Names]
      /\ \A w \in Walkers \ {v} : steady'[w] = steady[w] /\ raced'[w] = raced[w]
      /\ Unread(dir'[v]) /\ (dir'[v].open => Paged(dir'[v]) /\ Listed(v)')
  <2>1. CASE DispatchReaddir(v)
    <3>1. Give(v, dir[v].listing) /\ UNCHANGED <<steady, raced>> /\ req[v].kind = "readdir"
      BY <2>1 DEF DispatchReaddir, ghosts, At
    <3>2. dir[v].open /\ Paged(dir[v]) /\ Listed(v)
      BY <3>1 DEF ListingInv, OneWalk, Snapped
    <3>3. /\ dir' \in [Walkers -> Handles]
          /\ \A w \in Walkers \ {v} : dir'[w] = dir[w]
          /\ Paged(dir'[v]) /\ dir'[v].open /\ dir'[v].listing = dir[v].listing
      BY <3>1, <3>2, GivePaged DEF ListingInv
    <3>4. Listed(v)'
      BY <3>1, <3>2, <3>3 DEF Listed, Found
    <3> QED  BY <3>1, <3>3, <3>4 DEF ListingInv, Typed, Unread
  <2>2. CASE DispatchReleasedir(v)
    <3>1. /\ dir' = [dir EXCEPT ![v] = NoDir] /\ steady' = [steady EXCEPT ![v] = {}]
          /\ raced' = [raced EXCEPT ![v] = {}]
      BY <2>2 DEF DispatchReleasedir
    <3> QED  BY <3>1, NoDirRead DEF ListingInv, Typed
  <2> QED  BY <2>1, <2>2
<1>9. Typed'
  BY <1>1, <1>5, <1>8 DEF ListingInv, Typed
<1>10. OneWalk'
  <2>1. \A x \in Callers : req'[x].kind = "io" => x \in Users
    BY <1>3, <1>5 DEF ListingInv, OneWalk
  <2>2. \A i \in 1..Len(metaQ) : req'[metaQ[i]] = [kind |-> "opendir", at |-> "pool"]
    BY <1>4, <1>5, <1>7 DEF ListingInv, OneWalk, At
  <2>3. \A t \in Threads, w \in Walkers : thread[t].of = w =>
          /\ At(w, "opendir", "pool")' /\ Lists(t)
          /\ \A i \in 1..Len(metaQ) : metaQ[i] # w
          /\ \A s \in Threads : thread[s].of = w => s = t
    BY <1>6 DEF ListingInv, OneWalk
  <2>4. \A w \in Walkers : /\ dir'[w].open => req'[w].kind # "opendir" /\ req'[w] # NoReq
                           /\ req'[w].kind = "readdir" => dir'[w].open
    BY <1>2, <1>3, <1>4, <1>5, <1>8 DEF ListingInv, OneWalk
  <2> QED  BY <1>1, <2>1, <2>2, <2>3, <2>4 DEF ListingInv, OneWalk, Lists, At
<1>11. \A w \in Walkers \ {v} : (Walked(w) => Walked(w)') /\ (Listed(w) => Listed(w)')
  BY <1>1, <1>8 DEF Walked, Listed
<1>12. \A t \in Threads, w \in Walkers : thread[t].of = w => Walked(w)'
  BY <1>7, <1>11 DEF ListingInv, Snapped
<1>13. \A w \in Walkers : Unread(dir'[w]) /\ (dir'[w].open => Paged(dir'[w]) /\ Listed(w)')
  BY <1>8, <1>11 DEF ListingInv, Snapped
<1>14. Snapped'
  BY <1>1, <1>12, <1>13 DEF Snapped
<1> QED  BY <1>9, <1>10, <1>14 DEF ListingInv

\* A thread takes a callback.
LEMMA TakeIoStep ==
  ASSUME ListingInv, NEW t \in Threads, TakeIo(t)
  PROVE  ListingInv'
<1> DEFINE c == Head(poolQ)
<1>1. poolQ \in Seq(Users) /\ poolQ # <<>>
  BY DEF ListingInv, Typed, TakeIo
<1>2. c \in Users /\ c \notin Walkers /\ Tail(poolQ) \in Seq(Users)
  BY <1>1, FrontAssumption
<1> HIDE DEF c
<1>3. PICK at \in {"mutex", "resolved"} : thread' = [thread EXCEPT ![t] = [Free EXCEPT !.of = c, !.at = at]]
  BY DEF TakeIo, Take, c
<1>4. /\ dir' = dir /\ UNCHANGED <<entry, req, metaQ, steady, raced>> /\ poolQ' = Tail(poolQ)
  BY <1>2 DEF TakeIo, StartWalk, ghosts, c
<1> DEFINE f == [Free EXCEPT !.of = c, !.at = at]
<1>5. f \in Frames /\ f.of = c
  BY <1>2 DEF Free, Frames, Callers
<1> HIDE DEF f
<1>6. thread' \in [Threads -> Frames] /\ thread'[t] = f /\ \A s \in Threads \ {t} : thread'[s] = thread[s]
  BY <1>3, <1>5 DEF ListingInv, Typed, f
<1>7. \A s \in Threads : thread'[s].of \in Walkers => thread'[s] = thread[s]
  BY <1>2, <1>5, <1>6
<1>8. OneWalk'
  BY <1>4, <1>7 DEF ListingInv, OneWalk, At, Lists
<1> QED  BY <1>2, <1>4, <1>6, <1>7, <1>8, Same DEF ListingInv, Typed

\* A thread takes an opendir, and its walk begins.
LEMMA TakeOpendirStep ==
  ASSUME ListingInv, NEW t \in Threads, TakeOpendir(t)
  PROVE  ListingInv'
<1>1. metaQ \in Seq(Walkers) /\ metaQ # <<>> /\ Len(metaQ) \in Nat
  BY DEF ListingInv, Typed, TakeOpendir
<1> PICK c \in Walkers : c = Head(metaQ)
  BY <1>1
<1>2. c \in Walkers /\ c = metaQ[1] /\ Tail(metaQ) \in Seq(Walkers) /\ 1 \in 1..Len(metaQ) /\ c # Nobody
      /\ Len(Tail(metaQ)) = Len(metaQ) - 1
      /\ \A i \in 1..Len(metaQ) - 1 : Tail(metaQ)[i] = metaQ[i + 1] /\ i + 1 \in 1..Len(metaQ)
  BY <1>1, FrontAssumption
<1>3. \A i \in 1..Len(Tail(metaQ)) : Tail(metaQ)[i] # c
  <2>1. \A i, j \in 1..Len(metaQ) : metaQ[i] = metaQ[j] => i = j
    BY <1>1 DEF ListingInv, OneWalk, IsInjective
  <2> QED  BY <1>1, <1>2, <2>1
<1>4. IsInjective(Tail(metaQ)) /\ \A i \in 1..Len(Tail(metaQ)) : At(Tail(metaQ)[i], "opendir", "pool")
  <2>1. \A i, j \in 1..Len(metaQ) : metaQ[i] = metaQ[j] => i = j
    BY <1>1 DEF ListingInv, OneWalk, IsInjective
  <2>2. DOMAIN Tail(metaQ) = 1..Len(Tail(metaQ))
    BY <1>2
  <2> QED  BY <1>1, <1>2, <2>1, <2>2 DEF ListingInv, OneWalk, IsInjective
<1>5. At(c, "opendir", "pool") /\ (\A s \in Threads : thread[s].of # c) /\ ~dir[c].open
  BY <1>2 DEF ListingInv, OneWalk, At
<1> DEFINE q == Tail(metaQ)
<1> HIDE DEF q
<1>6. PICK at \in {"mutex", "resolved"} : thread' = [thread EXCEPT ![t] = [Free EXCEPT !.of = c, !.at = at]]
  BY DEF TakeOpendir, Take
<1> DEFINE d == [NoDir EXCEPT !.ahead = Baseline]
           f == [Free EXCEPT !.of = c, !.at = at]
<1>7. /\ UNCHANGED <<entry, req, poolQ, steady, raced>> /\ metaQ' = q /\ dir' = [dir EXCEPT ![c] = d]
  BY <1>2 DEF TakeOpendir, StartWalk, ghosts, q
<1>8. f \in Frames /\ f.of = c /\ f.at \in {"mutex", "resolved"} /\ f.wants = Nobody
  BY <1>2 DEF Free, Frames, Callers
<1>9. d \in Handles /\ ~d.open /\ Unread(d) /\ d.listing = <<>> /\ d.ahead = Baseline
  <2>1. /\ ~d.open /\ d.listing = <<>> /\ d.ahead = Baseline /\ d.given = <<>> /\ d.off = 0 /\ ~d.end
    BY DEF NoDir
  <2>2. d \in Handles
    BY NoDirRead DEF Handles
  <2> QED  BY <2>1, <2>2 DEF Unread
<1> HIDE DEF d, f
<1>10. thread' \in [Threads -> Frames] /\ thread'[t] = f /\ \A s \in Threads \ {t} : thread'[s] = thread[s]
  BY <1>6, <1>8 DEF ListingInv, Typed, f
<1>11. dir' \in [Walkers -> Handles] /\ dir'[c] = d /\ \A w \in Walkers \ {c} : dir'[w] = dir[w]
  BY <1>2, <1>7, <1>9 DEF ListingInv, Typed
<1>12. Typed'
  BY <1>2, <1>7, <1>10, <1>11 DEF ListingInv, Typed, q
<1>13. ASSUME NEW s \in Threads, NEW w \in Walkers, thread'[s].of = w
       PROVE  /\ At(w, "opendir", "pool") /\ Lists(s)'
              /\ \A i \in 1..Len(q) : q[i] # w
              /\ \A r \in Threads : thread'[r].of = w => r = s
  <2>1. CASE s = t
    <3>1. w = c
      BY <1>8, <1>10, <1>13, <2>1
    <3>2. \A r \in Threads : thread'[r].of = c => r = t
      BY <1>5, <1>10
    <3> QED  BY <1>3, <1>5, <1>8, <1>10, <2>1, <3>1, <3>2 DEF Lists, q
  <2>2. CASE s # t
    <3>1. thread[s].of = w /\ thread'[s] = thread[s] /\ w # c
      BY <1>5, <1>10, <1>13, <2>2
    <3>2. \A i \in 1..Len(q) : q[i] # w
      BY <1>1, <1>2, <3>1 DEF ListingInv, OneWalk, q
    <3>3. \A r \in Threads : thread'[r].of = w => r = s
      BY <1>8, <1>10, <3>1 DEF ListingInv, OneWalk
    <3> QED  BY <3>1, <3>2, <3>3 DEF ListingInv, OneWalk, Lists
  <2> QED  BY <2>1, <2>2
<1>14. \A w \in Walkers : dir'[w].open = dir[w].open \/ (w = c /\ ~dir'[c].open /\ ~dir[c].open)
  BY <1>5, <1>9, <1>11
<1>15. OneWalk'
  <2>1. IsInjective(metaQ') /\ \A i \in 1..Len(metaQ') : At(metaQ[i], "opendir", "pool")'
    BY <1>4, <1>7 DEF q, At
  <2>2. \A w \in Walkers : /\ dir'[w].open => req[w].kind # "opendir" /\ req[w] # NoReq
                           /\ req[w].kind = "readdir" => dir'[w].open
    BY <1>14 DEF ListingInv, OneWalk
  <2>3. \A s \in Threads, w \in Walkers : thread'[s].of = w =>
          /\ At(w, "opendir", "pool")' /\ Lists(s)'
          /\ \A i \in 1..Len(metaQ') : metaQ'[i] # w
          /\ \A r \in Threads : thread'[r].of = w => r = s
    BY <1>7, <1>13 DEF At
  <2>4. \A x \in Callers : req[x].kind = "io" => x \in Users
    BY DEF ListingInv, OneWalk
  <2> QED  BY <1>7, <2>1, <2>2, <2>3, <2>4 DEF OneWalk
<1>16. \A w \in Walkers \ {c} : (Walked(w) => Walked(w)') /\ (Listed(w) => Listed(w)')
  BY <1>7, <1>11 DEF Walked, Listed
<1>17. Walked(c)'
  <2>1. Found(d) = {} /\ IsInjective(d.listing) /\ Baseline \ d.ahead = {}
    <3>1. DOMAIN d.listing = {} /\ 1..Len(d.listing) = {}
      BY <1>9
    <3> QED  BY <1>9, <3>1 DEF Found, IsInjective
  <2> QED  BY <1>9, <1>11, <2>1 DEF Walked
<1>18. ASSUME NEW s \in Threads, NEW w \in Walkers, thread'[s].of = w
       PROVE  Walked(w)'
  <2>1. CASE w = c
    BY <1>17, <2>1
  <2>2. CASE w # c
    <3>1. thread[s].of = w
      BY <1>8, <1>10, <1>18, <2>2
    <3> QED  BY <1>16, <2>2, <3>1 DEF ListingInv, Snapped
  <2> QED  BY <2>1, <2>2
<1>19. \A w \in Walkers : Unread(dir'[w]) /\ (dir'[w].open => Paged(dir'[w]) /\ Listed(w)')
  BY <1>9, <1>11, <1>16 DEF ListingInv, Snapped
<1>20. Snapped'
  BY <1>18, <1>19 DEF Snapped
<1> QED  BY <1>12, <1>15, <1>20 DEF ListingInv

\* The walk looks at the next name of the baseline.
LEMMA LookAtStep ==
  ASSUME ListingInv, NEW t \in Threads, LookAt(t)
  PROVE  ListingInv'
<1>1. PICK v \in Walkers : thread[t].of = v
  BY DEF LookAt
<1> DEFINE d == dir[v]
<1>2. PICK n \in d.ahead :
        dir' = [dir EXCEPT ![v].ahead = @ \ {n},
                           ![v].listing = IF entry[n] = "none" THEN Append(@, n) ELSE @]
  BY <1>1 DEF LookAt
<1>3. UNCHANGED <<entry, req, poolQ, metaQ, thread, steady, raced>>
  BY DEF LookAt, ghosts
<1>4. d \in Handles /\ Walked(v) /\ Unread(d) /\ n \in Baseline /\ n \in Names
  BY <1>1, FrontAssumption DEF ListingInv, Typed, Snapped, Handles
<1> DEFINE l == IF entry[n] = "none" THEN Append(d.listing, n) ELSE d.listing
           e == [d EXCEPT !.ahead = @ \ {n}, !.listing = l]
<1>5. dir' = [dir EXCEPT ![v] = e]
  BY <1>2 DEF ListingInv, Typed
<1>6. d.listing \in Seq(Names) /\ Len(d.listing) \in Nat /\ DOMAIN d.listing = 1..Len(d.listing)
  BY <1>4 DEF Handles
<1>7. l \in Seq(Names)
  BY <1>4, <1>6
<1>8. /\ e \in Handles /\ e.open = d.open /\ e.ahead = d.ahead \ {n} /\ e.listing = l /\ e.given = d.given
      /\ e.off = d.off /\ e.end = d.end
  <2> HIDE DEF l
  <2> QED  BY <1>4, <1>7 DEF Handles
<1>9. dir' \in [Walkers -> Handles] /\ dir'[v] = e /\ \A w \in Walkers \ {v} : dir'[w] = dir[w]
  <2> HIDE DEF e
  <2> QED  BY <1>5, <1>8 DEF ListingInv, Typed
<1>10. Typed'
  BY <1>3, <1>9 DEF ListingInv, Typed
<1>11. \A w \in Walkers : dir'[w].open = dir[w].open
  BY <1>8, <1>9
<1>12. OneWalk'
  BY <1>3, <1>11 DEF ListingInv, OneWalk, At, Lists
<1>13. n \notin Found(d) /\ Found(d) \subseteq Baseline \ d.ahead /\ IsInjective(d.listing)
  BY <1>4 DEF Walked
<1>14. IsInjective(l) /\ {l[i] : i \in 1..Len(l)} = IF entry[n] = "none" THEN Found(d) \union {n} ELSE Found(d)
  <2>1. CASE entry[n] = "none"
    <3>1. /\ l = Append(d.listing, n) /\ Len(l) = Len(d.listing) + 1 /\ DOMAIN l = 1..Len(d.listing) + 1
          /\ l[Len(d.listing) + 1] = n /\ \A i \in 1..Len(d.listing) : l[i] = d.listing[i]
      BY <1>4, <1>6, <2>1
    <3>2. \A i \in 1..Len(d.listing) + 1 : i \in 1..Len(d.listing) \/ i = Len(d.listing) + 1
      BY <1>6
    <3>3. Len(d.listing) + 1 \in 1..Len(d.listing) + 1 /\ 1..Len(d.listing) \subseteq 1..Len(d.listing) + 1
      BY <1>6
    <3> HIDE DEF l, d
    <3>4. \A i \in 1..Len(d.listing) : d.listing[i] # n
      BY <1>13 DEF Found
    <3>5. \A i, j \in 1..Len(d.listing) : d.listing[i] = d.listing[j] => i = j
      BY <1>6, <1>13 DEF IsInjective
    <3>6. IsInjective(l)
      BY <3>1, <3>2, <3>4, <3>5 DEF IsInjective
    <3>7. {l[i] : i \in 1..Len(l)} = Found(d) \union {n}
      BY <3>1, <3>2, <3>3 DEF Found
    <3> QED  BY <2>1, <3>6, <3>7
  <2>2. CASE entry[n] # "none"
    BY <1>13, <2>2 DEF Found
  <2> QED  BY <2>1, <2>2
<1>15. Found(e) = IF entry[n] = "none" THEN Found(d) \union {n} ELSE Found(d)
  BY <1>8, <1>14 DEF Found
<1>16. Walked(v)'
  <2> HIDE DEF e, l
  <2>1. ~e.open /\ IsInjective(e.listing) /\ Found(e) \subseteq Baseline \ e.ahead
    BY <1>4, <1>8, <1>13, <1>14, <1>15 DEF Walked
  <2>2. \A m \in Baseline \ e.ahead : m \in steady[v] /\ m \notin Found(e) => entry[m] = "here"
    <3> SUFFICES ASSUME NEW m \in Baseline \ e.ahead, m \in steady[v], m \notin Found(e)  PROVE entry[m] = "here"
      OBVIOUS
    <3>1. CASE m = n
      <4>1. entry[n] # "none" /\ n \in Shown(entry)
        BY <1>15, <3>1 DEF ListingInv, Typed
      <4> QED  BY <3>1, <4>1 DEF Shown, Here
    <3>2. CASE m # n
      <4>1. m \in Baseline \ d.ahead /\ m \notin Found(d)
        BY <1>8, <1>15, <3>2
      <4> QED  BY <1>4, <4>1 DEF Walked
    <3> QED  BY <3>1, <3>2
  <2>3. \A m \in Found(e) : entry[m] = "here" => m \in raced[v]
    BY <1>4, <1>15 DEF Walked
  <2> QED  BY <1>3, <1>9, <2>1, <2>2, <2>3 DEF Walked
<1>17. \A w \in Walkers \ {v} : (Walked(w) => Walked(w)') /\ (Listed(w) => Listed(w)')
  BY <1>3, <1>9 DEF Walked, Listed
<1>18. \A s \in Threads, w \in Walkers : thread[s].of = w => Walked(w)'
  BY <1>16, <1>17 DEF ListingInv, Snapped
<1>19. \A w \in Walkers : Unread(dir'[w]) /\ (dir'[w].open => Paged(dir'[w]) /\ Listed(w)')
  <2>1. Unread(e) /\ ~e.open
    BY <1>4, <1>8 DEF Unread, Walked
  <2> QED  BY <1>9, <1>17, <2>1 DEF ListingInv, Snapped
<1>20. Snapped'
  BY <1>3, <1>18, <1>19 DEF Snapped
<1> QED  BY <1>10, <1>12, <1>20 DEF ListingInv

\* The overlay's children end the walk.
LEMMA OverlayChildrenStep ==
  ASSUME ListingInv, NEW t \in Threads, OverlayChildren(t)
  PROVE  ListingInv'
<1>1. PICK v \in Walkers : thread[t].of = v
  BY DEF OverlayChildren
<1> DEFINE d == dir[v]
           m == Listing(Here(entry))
           e == [d EXCEPT !.open = TRUE, !.listing = @ \o m]
<1>2. /\ dir' = [dir EXCEPT ![v].open = TRUE, ![v].listing = @ \o m] /\ d.ahead = {} /\ Done(t)
      /\ UNCHANGED <<entry, poolQ, metaQ, steady, raced>>
  BY <1>1 DEF OverlayChildren, ghosts
<1>3. d \in Handles /\ Walked(v) /\ Unread(d) /\ d.listing \in Seq(Names)
  BY <1>1 DEF ListingInv, Typed, Snapped, Handles
<1>4. /\ m \in Seq(Here(entry)) /\ IsInjective(m)
      /\ \A x \in Here(entry) : \E i \in 1..Len(m) : m[i] = x
  BY EmptyOverlay, ListingLemma DEF ListingInv, Typed
<1>5. m \in Seq(Names)
  BY <1>4 DEF Here
<1>6. dir' = [dir EXCEPT ![v] = e]
  <2> HIDE DEF m
  <2> QED  BY <1>2 DEF ListingInv, Typed
<1> HIDE DEF m
<1>7. /\ e \in Handles /\ e.open /\ e.ahead = {} /\ e.listing = d.listing \o m /\ e.given = <<>>
      /\ e.off = 0 /\ ~e.end
  <2>1. d.listing \o m \in Seq(Names) /\ d.given = <<>> /\ d.off = 0 /\ ~d.end
    BY <1>3, <1>5 DEF Unread, Walked
  <2> QED  BY <1>2, <1>3, <2>1 DEF Handles
<1> HIDE DEF d, e
<1>8. dir' \in [Walkers -> Handles] /\ dir'[v] = e /\ \A w \in Walkers \ {v} : dir'[w] = dir[w]
  BY <1>6, <1>7 DEF ListingInv, Typed
<1>9. ~d.open
  BY <1>3 DEF Walked, d
<1>10. /\ thread' \in [Threads -> Frames] /\ req' \in [Callers -> Requests]
       /\ thread'[t].of = Nobody /\ \A s \in Threads \ {t} : thread'[s] = thread[s]
       /\ OneWalk'
  <2>1. \A w \in Walkers : dir'[w].open => dir[w].open \/ w = thread[t].of
    BY <1>1, <1>8
  <2>2. \A w \in Walkers : dir[w].open => dir'[w].open
    BY <1>7, <1>8
  <2> QED  BY <1>2, <2>1, <2>2, ThreadDone
<1>11. Typed'
  BY <1>2, <1>8, <1>10 DEF ListingInv, Typed
<1>12. Paged(e) /\ Unread(e)
  <2>1. Len(e.listing) \in Nat
    BY <1>7 DEF Handles
  <2> QED  BY <1>7, <2>1 DEF Paged, Unread
<1>13. Twice(e.listing, raced[v])
  <2>1. \A i \in 1..Len(d.listing), j \in 1..Len(m) : d.listing[i] = m[j] => d.listing[i] \in raced[v]
    <3> SUFFICES ASSUME NEW i \in 1..Len(d.listing), NEW j \in 1..Len(m), d.listing[i] = m[j]
                 PROVE  d.listing[i] \in raced[v]
      OBVIOUS
    <3>1. m[j] \in Here(entry)
      BY <1>4
    <3>2. d.listing[i] \in Found(d) /\ entry[d.listing[i]] = "here"
      BY <3>1 DEF Found, Here
    <3> QED  BY <1>3, <3>2 DEF Walked, d
  <2>2. IsInjective(d.listing)
    BY <1>3 DEF Walked, d
  <2>3. Twice(d.listing \o m, raced[v])
    BY <1>3, <1>4, <1>5, <2>1, <2>2, Appended
  <2> QED  BY <1>7, <2>3
<1>14. steady[v] \subseteq Found(e)
  <2> SUFFICES ASSUME NEW n \in steady[v]  PROVE n \in Found(e)
    OBVIOUS
  <2>1. /\ Len(d.listing) \in Nat /\ Len(m) \in Nat /\ Len(e.listing) = Len(d.listing) + Len(m)
        /\ \A i \in 1..Len(d.listing) : i \in 1..Len(e.listing) /\ e.listing[i] = d.listing[i]
        /\ \A j \in 1..Len(m) : Len(d.listing) + j \in 1..Len(e.listing)
                                /\ e.listing[Len(d.listing) + j] = m[j]
    BY <1>3, <1>5, <1>7
  <2>2. n \in Shown(entry)
    BY DEF ListingInv, Typed
  <2>3. n \in Found(d) \/ n \in Here(entry)
    <3>1. CASE n \in Here(entry)
      BY <3>1
    <3>2. CASE n \notin Here(entry)
      <4>1. n \in Baseline /\ entry[n] # "here"
        BY <2>2, <3>2 DEF Shown, Here
      <4> QED  BY <1>2, <1>3, <4>1 DEF Walked, d
    <3> QED  BY <3>1, <3>2
  <2>4. CASE n \in Found(d)
    BY <2>1, <2>4 DEF Found
  <2>5. CASE n \in Here(entry)
    BY <1>4, <2>1, <2>5 DEF Found
  <2> QED  BY <2>3, <2>4, <2>5
<1>15. \A w \in Walkers \ {v} : (Walked(w) => Walked(w)') /\ (Listed(w) => Listed(w)')
  BY <1>2, <1>8 DEF Walked, Listed
<1>16. Listed(v)'
  BY <1>2, <1>8, <1>13, <1>14 DEF Listed
<1>17. \A s \in Threads, w \in Walkers : thread'[s].of = w => Walked(w)'
  <2> SUFFICES ASSUME NEW s \in Threads, NEW w \in Walkers, thread'[s].of = w  PROVE Walked(w)'
    OBVIOUS
  <2>1. s # t /\ thread[s].of = w
    BY <1>10, FrontAssumption
  <2>2. w # v
    BY <1>1, <2>1 DEF ListingInv, OneWalk
  <2> QED  BY <1>15, <2>1, <2>2 DEF ListingInv, Snapped
<1>18. \A w \in Walkers : Unread(dir'[w]) /\ (dir'[w].open => Paged(dir'[w]) /\ Listed(w)')
  BY <1>8, <1>12, <1>15, <1>16 DEF ListingInv, Snapped
<1>19. Snapped'
  BY <1>17, <1>18 DEF Snapped
<1> QED  BY <1>10, <1>11, <1>19 DEF ListingInv

\* Callbacks that change the overlay.
LEMMA ChangeStep ==
  ASSUME ListingInv, NEW t \in Threads, Put(t) \/ Remove(t) \/ RenameTo(t) \/ RenameFrom(t)
  PROVE  ListingInv'
<1>1. entry \in Overlay
  BY DEF ListingInv, Typed
<1>2. CASE Put(t)
  <2>1. PICK n \in Names : entry' = [entry EXCEPT ![n] = "here"] /\ Witness({n}, {})
    BY <1>2 DEF Put
  <2>2. entry' \in Overlay /\ \A x \in Names : entry'[x] = IF x = n THEN "here" ELSE entry[x]
    BY <1>1, <2>1 DEF Overlay
  <2>3. {n} \in SUBSET Names /\ Done(t) /\ UNCHANGED <<dir, poolQ, metaQ>>
    BY <1>2 DEF Put
  <2> QED  BY <2>1, <2>2, <2>3, AnswerChanged
<1>3. ASSUME NEW n, entry' = [entry EXCEPT ![n] = Gone(n)], Witness({}, {}), Done(t), UNCHANGED <<dir, poolQ, metaQ>>
      PROVE  ListingInv'
  <2>1. entry' \in Overlay /\ \A x \in Names : entry'[x] = IF x = n THEN Gone(n) ELSE entry[x]
    BY <1>1, <1>3 DEF Overlay, Gone
  <2>2. \A x \in Names : entry'[x] = "here" => entry[x] = "here"
    BY <2>1 DEF Gone
  <2>3. \A x \in Names : entry[x] = "here" /\ x \in Shown(entry') => entry'[x] = "here"
    BY <2>1 DEF Shown, Here, Gone
  <2>4. {} \in SUBSET Names
    OBVIOUS
  <2> QED  BY <1>3, <2>1, <2>2, <2>3, <2>4, AnswerChanged
<1>4. CASE Remove(t)
  BY <1>3, <1>4 DEF Remove
<1>5. CASE RenameFrom(t)
  BY <1>3, <1>5 DEF RenameFrom
<1>6. CASE RenameTo(t)
  <2>1. PICK a \in Names, b \in Names :
          /\ a # b /\ entry' = [entry EXCEPT ![b] = "here", ![a] = "none"] /\ Witness({b}, {a})
          /\ \E at \in {"mutex", "rename"} : thread' = [thread EXCEPT ![t].at = at, ![t].wants = a]
    BY <1>6 DEF RenameTo
  <2>2. PICK at \in {"mutex", "rename"} : thread' = [thread EXCEPT ![t].at = at, ![t].wants = a]
    BY <2>1
  <2>3. UNCHANGED <<req, dir, poolQ, metaQ>> /\ thread[t].of \notin Walkers /\ thread[t] \in Frames
    BY <1>6, FrontAssumption DEF RenameTo, Ready, ListingInv, Typed
  <2> DEFINE h == [thread[t] EXCEPT !.at = at, !.wants = a]
  <2>4. h \in Frames /\ h.of = thread[t].of
    BY <2>3 DEF Frames
  <2>5. thread' = [thread EXCEPT ![t] = h]
    BY <2>2 DEF ListingInv, Typed
  <2> HIDE DEF h
  <2>6. thread' \in [Threads -> Frames] /\ OneWalk' /\ \A s \in Threads : thread'[s].of = thread[s].of
    BY <2>3, <2>4, <2>5, ThreadGoesOn
  <2>7. entry' \in Overlay /\ \A x \in Names : entry'[x] = IF x = a THEN "none" ELSE IF x = b THEN "here" ELSE entry[x]
    BY <1>1, <2>1 DEF Overlay
  <2>8. \A x \in Names : entry'[x] = "here" => entry[x] = "here" \/ x \in {b}
    BY <2>7
  <2>9. \A x \in Names : entry[x] = "here" /\ x \in Shown(entry') /\ entry'[x] # "here" => x \in {a}
    BY <2>7
  <2>10. {b} \in SUBSET Names
    OBVIOUS
  <2>11. /\ steady' \in [Walkers -> SUBSET Shown(entry')] /\ raced' \in [Walkers -> SUBSET Names]
         /\ Snapped'
    BY <2>1, <2>3, <2>6, <2>7, <2>8, <2>9, <2>10, Changed
  <2> QED  BY <2>3, <2>6, <2>7, <2>11 DEF ListingInv, Typed
<1> QED  BY <1>2, <1>4, <1>5, <1>6

LEMMA ListingStep == ListingInv /\ [Next]_vars => ListingInv'
<1> SUFFICES ASSUME ListingInv, [Next]_vars  PROVE ListingInv'
  OBVIOUS
<1>1. Walkers \subseteq Callers /\ Users \subseteq Callers
      /\ PoolThreads \subseteq Threads /\ MetaThreads \subseteq Threads
  BY DEF Callers, Threads
<1>2. CASE Dispatch
  <2>1. ASSUME NEW t \in Threads, DispatchFlush(t)  PROVE ListingInv'
    BY <2>1, QuietStep
  <2>2. ASSUME NEW c \in Callers, DispatchIo(c)  PROVE ListingInv'
    BY <2>2, DispatchStep
  <2>3. ASSUME NEW w \in Walkers, DispatchOpendir(w)  PROVE ListingInv'
    BY <1>1, <2>3, DispatchStep
  <2>4. ASSUME NEW w \in Walkers, DispatchReaddir(w) \/ DispatchReleasedir(w)  PROVE ListingInv'
    BY <2>4, ReadStep
  <2> QED  BY <1>2, <2>1, <2>2, <2>3, <2>4 DEF Dispatch
<1>3. ASSUME NEW t \in Threads, Work(t)  PROVE ListingInv'
  BY <1>3, QuietStep, LookAtStep, OverlayChildrenStep, ChangeStep DEF Work
<1>4. ASSUME NEW t \in Threads, PoolStep(t) \/ MetaStep(t)  PROVE ListingInv'
  BY <1>3, <1>4, TakeIoStep, TakeOpendirStep DEF PoolStep, MetaStep
<1>5. ASSUME NEW u \in Users, Call(u)  PROVE ListingInv'
  BY <1>1, <1>5, CallerStep
<1>6. ASSUME NEW w \in Walkers, Opendir(w) \/ Page(w)  PROVE ListingInv'
  BY <1>1, <1>6, CallerStep
<1>7. CASE UNCHANGED vars
  BY <1>7, Same DEF vars, ghosts, ListingInv, Typed, OneWalk, At, Lists
<1> QED  BY <1>1, <1>2, <1>4, <1>5, <1>6, <1>7 DEF Next, Settled

\* A listing read page by page, while callbacks create, copy up, rename and
\* remove entries, misses no name that was there all the time, gives a name twice
\* only if it got an overlay entry while opendir walked, and none three times,
\* for any callers, threads, entries, baseline and page size.
THEOREM EntriesOnceAlways == Spec => []EntriesOnce
<1>1. Init => ListingInv
  BY ListingInit
<1>2. ListingInv /\ [Next]_vars => ListingInv'
  BY ListingStep
<1> QED  BY <1>1, <1>2, GivenOnce, PTL DEF Spec

-----------------------------------------------------------------------------
(* The pools that serve the callbacks: WorkerPool, whose state is its own.      *)

\* Who is where: a worker holds a strong reference exactly while its job runs,
\* the sender goes and Drop begins when the last reference does, and Drop waits
\* for every thread but its own.
Ownership ==
  /\ \A w \in Workers : w \in owners <=> pc[w] = "work"
  /\ dropper = NoThread <=> owners # {}
  /\ open <=> owners # {}

Joined ==
  /\ dropper # NoThread =>
       \A w \in Workers : w \in joining \/ pc[w] = "exit" \/ w = dropper
  /\ \A w \in Workers : pc[w] = "exit" => ~open /\ queue = <<>>

PoolInv == TypeOK /\ Ownership /\ Joined

\* What lets a step of worker w leave the other workers' places alone.
Holding ==
  \A w \in Workers : pc[w] \in {"taken", "work"} <=> job[w] # NoJob

LEMMA PoolStarts == PoolInit => PoolInv /\ Holding
BY PoolAssumption
   DEF PoolInit, PoolInv, Holding, TypeOK, Ownership, Joined, AllThreads

\* Letting go of a reference that is held begins Drop exactly when it was the
\* last, and then waits for every worker but the thread itself.
LEMMA LetGoLemma ==
  ASSUME PoolInv, NEW t \in owners, LetGo(t)
  PROVE  /\ owners' \subseteq AllThreads /\ dropper' \in AllThreads \union {NoThread}
         /\ open' \in BOOLEAN /\ joining' \subseteq Workers
         /\ dropper' = NoThread <=> owners' # {}
         /\ open' <=> owners' # {}
         /\ dropper' # NoThread =>
              \A w \in Workers : w \in joining' \/ w = dropper'
<1>1. /\ owners \subseteq AllThreads /\ t \in AllThreads /\ dropper = NoThread /\ open
      /\ joining \subseteq Workers
  BY DEF PoolInv, TypeOK, Ownership
<1>2. CASE owners' = {}
  <2>1. dropper' = t /\ open' = FALSE /\ joining' = Workers \ {t}
    BY <1>2 DEF LetGo, BeginDrop, ToJoin
  <2>2. t # NoThread
    BY <1>1, PoolAssumption DEF AllThreads
  <2> QED  BY <1>1, <1>2, <2>1, <2>2
<1>3. CASE owners' # {}
  BY <1>1, <1>3 DEF LetGo
<1> QED  BY <1>2, <1>3

LEMMA PoolKeeps == PoolInv /\ Holding /\ [PoolNext]_poolVars => PoolInv' /\ Holding'
<1> SUFFICES ASSUME PoolInv, Holding, [PoolNext]_poolVars PROVE PoolInv' /\ Holding'
  OBVIOUS
<1> USE PoolAssumption DEF PoolInv, Holding, TypeOK, Ownership, Joined, AllThreads
<1>1. ASSUME NEW t \in AllThreads, Spawn(t) PROVE PoolInv' /\ Holding'
  <2>1. PICK j \in fresh : queue' = Append(queue, j) /\ fresh' = fresh \ {j}
    BY <1>1 DEF Spawn
  <2>2. open
    BY <1>1 DEF Spawn
  <2> QED  BY <1>1, <2>1, <2>2 DEF Spawn
<1>2. ASSUME NEW w \in Workers, Lock(w) PROVE PoolInv' /\ Holding'
  BY <1>2 DEF Lock
<1>3. ASSUME NEW w \in Workers, Recv(w) PROVE PoolInv' /\ Holding'
  <2>1. CASE queue # <<>>
    <3>1. /\ Head(queue) \in Jobs /\ Tail(queue) \in Seq(Jobs)
      BY <2>1
    <3>2. /\ job' = [job EXCEPT ![w] = Head(queue)] /\ queue' = Tail(queue)
          /\ pc' = [pc EXCEPT ![w] = "taken"]
      BY <1>3, <2>1 DEF Recv
    <3> QED  BY <1>3, <2>1, <3>1, <3>2 DEF Recv
  <2>2. CASE queue = <<>>
    <3>1. ~open /\ pc' = [pc EXCEPT ![w] = "exit"] /\ UNCHANGED <<job, queue>>
      BY <1>3, <2>2 DEF Recv
    <3> QED  BY <1>3, <2>2, <3>1 DEF Recv
  <2> QED  BY <2>1, <2>2
<1>4. ASSUME NEW w \in Workers, Upgrade(w) PROVE PoolInv' /\ Holding'
  <2>1. CASE owners # {}
    BY <1>4, <2>1 DEF Upgrade
  <2>2. CASE owners = {}
    BY <1>4, <2>2 DEF Upgrade
  <2> QED  BY <2>1, <2>2
<1>5. ASSUME NEW w \in Workers, Finish(w) PROVE PoolInv' /\ Holding'
  <2>1. w \in owners /\ job[w] \in Jobs
    BY <1>5 DEF Finish
  <2>2. /\ owners' \subseteq AllThreads /\ dropper' \in AllThreads \union {NoThread}
        /\ open' \in BOOLEAN /\ joining' \subseteq Workers
        /\ dropper' = NoThread <=> owners' # {}
        /\ open' <=> owners' # {}
        /\ dropper' # NoThread => \A v \in Workers : v \in joining' \/ v = dropper'
    BY <1>5, <2>1, LetGoLemma DEF Finish
  <2>3. owners' = owners \ {w}
    BY <1>5 DEF Finish, LetGo
  <2>4. TypeOK'
    BY <1>5, <2>1, <2>2 DEF Finish
  <2>5. Ownership' /\ Holding'
    BY <1>5, <2>2, <2>3 DEF Finish
  <2>6. Joined'
    BY <1>5, <2>1, <2>2 DEF Finish
  <2> QED  BY <2>4, <2>5, <2>6
<1>6. ASSUME Unmount PROVE PoolInv' /\ Holding'
  <2>1. Main \in owners
    BY <1>6 DEF Unmount
  <2>2. /\ owners' \subseteq AllThreads /\ dropper' \in AllThreads \union {NoThread}
        /\ open' \in BOOLEAN /\ joining' \subseteq Workers
        /\ dropper' = NoThread <=> owners' # {}
        /\ open' <=> owners' # {}
        /\ dropper' # NoThread => \A v \in Workers : v \in joining' \/ v = dropper'
    BY <1>6, <2>1, LetGoLemma DEF Unmount
  <2>3. owners' = owners \ {Main}
    BY <1>6 DEF Unmount, LetGo
  <2>4. TypeOK' /\ Holding'
    BY <1>6, <2>2 DEF Unmount
  <2>5. Ownership' /\ Joined'
    BY <1>6, <2>1, <2>2, <2>3 DEF Unmount
  <2> QED  BY <2>4, <2>5
<1>7. ASSUME NEW w \in Workers, Join(w) PROVE PoolInv' /\ Holding'
  BY <1>7 DEF Join
<1>8. ASSUME NEW w \in Workers, Return(w) PROVE PoolInv' /\ Holding'
  BY <1>8 DEF Return
<1>9. ASSUME UNCHANGED poolVars PROVE PoolInv' /\ Holding'
  BY <1>9 DEF poolVars
<1> QED
  BY <1>1, <1>2, <1>3, <1>4, <1>5, <1>6, <1>7, <1>8, <1>9
     DEF PoolNext, WorkerStep, Ended

\* The pool's state has its types, for any number of workers and jobs.
THEOREM PoolTypeCorrect == PoolSpec => []TypeOK
<1>1. PoolInv => TypeOK
  BY DEF PoolInv
<1> QED  BY <1>1, PoolStarts, PoolKeeps, PTL DEF PoolSpec

\* pool.rs: "a panicking callback must never kill the worker". A worker is gone
\* only once the sender is, and with nothing left in the queue.
THEOREM Stay == PoolSpec => []WorkersStay
<1>1. PoolInv => WorkersStay
  BY DEF PoolInv, Joined, WorkersStay
<1> QED  BY <1>1, PoolStarts, PoolKeeps, PTL DEF PoolSpec

\* Drop for Pool, from outside or from one of the pool's own threads: when it
\* has returned no other worker is left and none runs a job on the owner.
THEOREM NoWorkerLeft == PoolSpec => []DropLeavesNoWorker
<1>1. PoolInv => DropLeavesNoWorker
  <2> SUFFICES ASSUME PoolInv, Dropped, NEW w \in Workers, pc[w] # "exit"
               PROVE  w = dropper /\ pc[w] # "work"
    BY DEF DropLeavesNoWorker
  <2>1. w = dropper
    BY DEF PoolInv, Joined, Dropped
  <2>2. owners = {}
    BY DEF PoolInv, Ownership, Dropped
  <2> QED  BY <2>1, <2>2 DEF PoolInv, Ownership
<1> QED  BY <1>1, PoolStarts, PoolKeeps, PTL DEF PoolSpec
=============================================================================

------------------------- MODULE ObjContainerProofs -------------------------
(***************************************************************************)
(* Theorems about ObjContainer, for every number of threads, objects,      *)
(* buckets and versions, when the callers of obj_link lock the container.  *)
(***************************************************************************)
EXTENDS ObjContainer, Basics, FiniteSetTheorems, SequenceTheorems, TLAPS

----------------------------------------------------------------------------
(* The inductive invariant.                                                *)

OrderTypes ==
  /\ buckets \in [Buckets -> Seq(Entry)]
  /\ version \in Nat \ {0}
  /\ pc \in [Threads -> {"idle", "version", "insert", "ref", "crashed"}]
  /\ arg \in [Threads -> Objects \cup {Nil}]
  /\ ver \in [Threads -> Nat]
  /\ it \in [Threads -> [on : BOOLEAN, unlink : BOOLEAN, bucket : 1 .. N + 1,
                         ver : Nat, cver : Nat, ptr : Nat]]
  /\ seen \in [Threads -> SUBSET Nat]
  /\ twice \in [Threads -> BOOLEAN]
  /\ excused \in [Threads -> SUBSET Nat]

\* Who links has the lock.
LinkersLock ==
  \A th \in Threads :
    pc[th] \in {"version", "insert", "ref"} => owner = th /\ arg[th] \in Objects

\* The version a link has taken is newer than all an entry or an iterator has.
Newest ==
  \A th \in Threads : pc[th] = "insert" =>
    /\ 0 < ver[th] /\ ver[th] < version
    /\ \A e \in Entries : e.ver < ver[th]
    /\ \A x \in Threads : it[x].ver < ver[th] /\ \A v \in seen[x] : v < ver[th]

\* A version is one entry's.
OneEntry ==
  /\ \A e \in Entries : 0 < e.ver
  /\ \A d, e \in Entries : d.ver = e.ver => d = e

\* An iterator has no version that was not taken; and where it points is where it is.
Iterators ==
  \A x \in Threads :
    /\ it[x].ver < version /\ it[x].cver <= version
    /\ \A v \in seen[x] : v < version
    /\ it[x].unlink => it[x].ver = 0
    /\ it[x].bucket \in Buckets /\ it[x].ptr # 0 => it[x].ptr = it[x].ver
    /\ it[x].on => life = "pinned"
    /\ ~it[x].on => it[x] = NoIterator

\* The entries an iterator has left behind are those it has returned, and those put there
\* since.
Behind(x, e) ==
  \/ Hash[e.obj] < it[x].bucket
  \/ Hash[e.obj] = it[x].bucket /\ e.ver <= it[x].ver

SeenBehind ==
  \A x \in Threads, e \in Entries :
    /\ it[x].on /\ Behind(x, e) => e.ver \in seen[x] \cup excused[x]
    /\ e.ver \in seen[x] => Behind(x, e)

OrderInv ==
  /\ OrderTypes
  /\ LinkersLock
  /\ Newest
  /\ VersionsIncrease
  /\ OneEntry
  /\ Iterators
  /\ PointerIsLive
  /\ SeenBehind
  /\ NoneTwice

----------------------------------------------------------------------------
(* What a traversal leaves of a bucket.                                    *)

Traverses(left, s, S) ==
  left = [n \in 0 .. Len(s) |->
    IF n = 0 THEN <<>> ELSE IF s[n] \in S THEN left[n - 1] ELSE Append(left[n - 1], s[n])]

\* The traversal is a function: the equation that defines it has a solution.
LEMMA TraversalEnds ==
  ASSUME NEW s, Len(s) \in Nat, NEW S
  PROVE  \E left : Traverses(left, s, S)
  <1> DEFINE Solves(f, m) == f = [n \in 0 .. m |->
               IF n = 0 THEN <<>> ELSE IF s[n] \in S THEN f[n - 1] ELSE Append(f[n - 1], s[n])]
             Bad == {m \in 0 .. Len(s) : ~ \E f : Solves(f, m)}
  <1>1. ASSUME Bad # {} PROVE FALSE
    <2>1. Bad \subseteq Nat
      OBVIOUS
    <2> HIDE DEF Bad
    <2>2. PICK m \in Bad : \A k \in Bad : m <= k
      BY <1>1, <2>1, LeastNumber
    <2> USE DEF Bad
    <2>3. m \in 0 .. Len(s) /\ ~ \E f : Solves(f, m)
      BY <2>2
    <2>4. m # 0
      <3>1. Solves([n \in 0 .. 0 |-> <<>>], 0)
        OBVIOUS
      <3>2. QED BY <2>3, <3>1
    <2>5. m - 1 \in 0 .. Len(s) /\ m - 1 \notin Bad
      <3>1. m \in Nat /\ m - 1 \in 0 .. Len(s) /\ ~(m <= m - 1)
        BY <2>3, <2>4
      <3>2. QED BY <2>2, <3>1
    <2>6. PICK f : Solves(f, m - 1)
      BY <2>5
    <2> DEFINE g == [n \in 0 .. m |->
                 IF n = m THEN IF s[m] \in S THEN f[m - 1] ELSE Append(f[m - 1], s[m]) ELSE f[n]]
    <2>7. Solves(g, m)
      <3>1. ASSUME NEW n \in 0 .. m
            PROVE  g[n] = IF n = 0 THEN <<>>
                          ELSE IF s[n] \in S THEN g[n - 1] ELSE Append(g[n - 1], s[n])
        <4>1. CASE n = m
          <5>1. g[n] = IF s[m] \in S THEN f[m - 1] ELSE Append(f[m - 1], s[m])
            BY <4>1
          <5>2. g[n - 1] = f[n - 1]
            BY <2>3, <2>4, <4>1
          <5>3. QED BY <2>4, <4>1, <5>1, <5>2
        <4>2. CASE n # m
          <5>1. n \in 0 .. m - 1 /\ g[n] = f[n]
            BY <2>3, <4>2
          <5>2. n # 0 => n - 1 \in 0 .. m /\ n - 1 # m
            BY <2>3, <4>2
          <5>3. n # 0 => g[n - 1] = f[n - 1]
            BY <5>2
          <5>4. f[n] = IF n = 0 THEN <<>> ELSE IF s[n] \in S THEN f[n - 1] ELSE Append(f[n - 1], s[n])
            BY <2>6, <5>1
          <5>5. QED BY <5>1, <5>3, <5>4
        <4>3. QED BY <4>1, <4>2
      <3>2. g = [n \in 0 .. m |-> g[n]]
        OBVIOUS
      <3> HIDE DEF g
      <3>3. QED BY <3>1, <3>2
    <2>8. QED BY <2>3, <2>7
  <1>2. Len(s) \in 0 .. Len(s)
    OBVIOUS
  <1>3. QED BY <1>1, <1>2 DEF Traverses

\* It leaves the entries that are not taken out, in the order they were in.
LEMMA WithoutIs ==
  ASSUME NEW s \in Seq(Entry), NEW S
  PROVE  /\ Without(s, S) \in Seq(Entry)
         /\ ToSet(Without(s, S)) = ToSet(s) \ S
         /\ (\A i, j \in 1 .. Len(s) : i < j => s[i].ver < s[j].ver) =>
              \A i, j \in 1 .. Len(Without(s, S)) :
                i < j => Without(s, S)[i].ver < Without(s, S)[j].ver
  <1>1. Len(s) \in Nat /\ \A n \in 1 .. Len(s) : s[n] \in Entry /\ s[n].ver \in Nat
    <2>1. Len(s) \in Nat /\ \A n \in 1 .. Len(s) : s[n] \in Entry
      OBVIOUS
    <2>2. QED BY <2>1 DEF Entry
  <1> DEFINE left == CHOOSE left : Traverses(left, s, S)
  <1>2. Traverses(left, s, S)
    BY <1>1, TraversalEnds
  <1>3. Without(s, S) = left[Len(s)]
    BY DEF Without, Traverses
  <1> HIDE DEF left
  <1> DEFINE Increase(t) == \A i, j \in 1 .. Len(t) : i < j => t[i].ver < t[j].ver
             Good(n) == /\ left[n] \in Seq(Entry)
                        /\ \A e : (\E i \in 1 .. Len(left[n]) : left[n][i] = e)
                                    <=> e \notin S /\ \E j \in 1 .. n : s[j] = e
                        /\ Increase(s) => Increase(left[n])
             Bad == {n \in 0 .. Len(s) : ~Good(n)}
  <1>4. Good(0)
    <2>1. left[0] = <<>>
      BY <1>1, <1>2 DEF Traverses
    <2>2. Len(left[0]) = 0
      BY <2>1
    <2>3. QED BY <2>1, <2>2
  <1>5. ASSUME NEW n \in 1 .. Len(s), Good(n - 1)
        PROVE  Good(n)
    <2>1. left[n] = IF s[n] \in S THEN left[n - 1] ELSE Append(left[n - 1], s[n])
      <3>1. n \in 0 .. Len(s) /\ n # 0
        BY <1>1
      <3>2. QED BY <1>2, <3>1 DEF Traverses
    <2>2. PICK t \in Seq(Entry) : t = left[n - 1]
      BY <1>5
    <2>3. /\ \A e : (\E i \in 1 .. Len(t) : t[i] = e) <=> e \notin S /\ \E j \in 1 .. n - 1 : s[j] = e
          /\ Increase(s) => Increase(t)
          /\ Len(t) \in Nat
      BY <1>5, <2>2
    <2>4. CASE s[n] \in S
      <3>1. left[n] = t
        BY <2>1, <2>2, <2>4
      <3>2. \A e : e \notin S => ((\E j \in 1 .. n - 1 : s[j] = e) <=> (\E j \in 1 .. n : s[j] = e))
        BY <1>1, <2>4
      <3>3. QED BY <2>3, <3>1, <3>2
    <2>5. CASE s[n] \notin S
      <3>1. /\ left[n] = Append(t, s[n]) /\ left[n] \in Seq(Entry)
            /\ Len(left[n]) = Len(t) + 1
            /\ \A i \in 1 .. Len(t) : left[n][i] = t[i]
            /\ left[n][Len(t) + 1] = s[n]
        BY <1>1, <2>1, <2>2, <2>5, AppendProperties
      <3>2. ASSUME NEW e
            PROVE  (\E i \in 1 .. Len(left[n]) : left[n][i] = e)
                     <=> e \notin S /\ \E j \in 1 .. n : s[j] = e
        <4>1. (\E i \in 1 .. Len(left[n]) : left[n][i] = e)
                <=> e = s[n] \/ \E i \in 1 .. Len(t) : t[i] = e
          <5>1. 1 .. Len(left[n]) = (1 .. Len(t)) \cup {Len(t) + 1}
            BY <2>3, <3>1
          <5>2. QED BY <3>1, <5>1
        <4>2. 1 .. n = (1 .. n - 1) \cup {n}
          BY <1>1
        <4>3. QED BY <2>3, <2>5, <4>1, <4>2
      <3>3. ASSUME Increase(s), NEW i \in 1 .. Len(left[n]), NEW j \in 1 .. Len(left[n]), i < j
            PROVE  left[n][i].ver < left[n][j].ver
        <4>1. i \in 1 .. Len(t)
          BY <2>3, <3>1, <3>3
        <4>2. CASE j \in 1 .. Len(t)
          BY <2>3, <3>1, <3>3, <4>1, <4>2
        <4>3. CASE j = Len(t) + 1
          <5>1. PICK k \in 1 .. n - 1 : s[k] = t[i]
            BY <2>3, <4>1
          <5>2. k \in 1 .. Len(s) /\ k < n
            BY <1>1
          <5>3. s[k].ver < s[n].ver
            BY <3>3, <5>2
          <5>4. QED BY <3>1, <4>1, <4>3, <5>1, <5>3
        <4>4. QED BY <2>3, <3>1, <4>2, <4>3
      <3>4. QED BY <3>1, <3>2, <3>3
    <2>6. QED BY <2>4, <2>5
  <1>6. Bad = {}
    <2>1. SUFFICES ASSUME Bad # {} PROVE FALSE
      OBVIOUS
    <2>2. Bad \subseteq Nat
      BY <1>1
    <2>3. \A n : n \in Bad <=> n \in 0 .. Len(s) /\ ~Good(n)
      OBVIOUS
    <2> HIDE DEF Bad, Good
    <2>4. PICK n \in Bad : \A k \in Bad : n <= k
      BY <2>1, <2>2, LeastNumber
    <2>5. n \in 0 .. Len(s) /\ ~Good(n)
      BY <2>3, <2>4
    <2>6. n # 0
      BY <1>4, <2>5
    <2>7. n \in 1 .. Len(s) /\ n - 1 \in 0 .. Len(s) /\ ~(n <= n - 1)
      BY <1>1, <2>5, <2>6
    <2>8. Good(n - 1)
      BY <2>3, <2>4, <2>7
    <2>9. QED BY <1>5, <2>5, <2>7, <2>8
  <1>7. Good(Len(s))
    <2>1. Len(s) \in 0 .. Len(s)
      BY <1>1
    <2> HIDE DEF Good
    <2>2. QED BY <1>6, <2>1
  <1>8. ToSet(left[Len(s)]) = ToSet(s) \ S
    <2>1. /\ \A e : e \in ToSet(left[Len(s)]) <=> \E i \in 1 .. Len(left[Len(s)]) : left[Len(s)][i] = e
          /\ \A e : e \in ToSet(s) <=> \E j \in 1 .. Len(s) : s[j] = e
      BY <1>7 DEF ToSet
    <2>2. QED BY <1>7, <2>1
  <1>9. QED BY <1>3, <1>7, <1>8

----------------------------------------------------------------------------
(* Entries.                                                                *)

LEMMA EntriesAre ==
  /\ \A b \in Buckets : \A e : e \in EntriesOf(b) <=> \E k \in DOMAIN buckets[b] : buckets[b][k] = e
  /\ \A e : e \in Entries <=> \E b \in Buckets : e \in EntriesOf(b)
  BY DEF EntriesOf, Entries, ToSet

\* An entry is in the bucket of its object, at a place that is in the order of the versions.
LEMMA InBucket ==
  ASSUME OrderInv, NEW b \in Buckets
  PROVE  /\ buckets[b] \in Seq(Entry) /\ DOMAIN buckets[b] = 1 .. Len(buckets[b])
         /\ Len(buckets[b]) \in Nat
         /\ \A e \in EntriesOf(b) : e \in Entry /\ e \in Entries /\ Hash[e.obj] = b
                                    /\ e.ver \in Nat /\ 0 < e.ver
         /\ \A e \in Entries : Hash[e.obj] = b => e \in EntriesOf(b)
         /\ \A i, j \in DOMAIN buckets[b] : i < j => buckets[b][i].ver < buckets[b][j].ver
  <1>1. buckets[b] \in Seq(Entry)
    BY DEF OrderInv, OrderTypes
  <1>2. DOMAIN buckets[b] = 1 .. Len(buckets[b]) /\ Len(buckets[b]) \in Nat
    BY <1>1
  <1>3. \A e \in EntriesOf(b) : e \in Entry /\ e \in Entries
    <2>1. \A k \in DOMAIN buckets[b] : buckets[b][k] \in Entry
      BY <1>1, <1>2
    <2>2. QED BY <2>1, EntriesAre
  <1>4. \A e \in EntriesOf(b) : e.ver \in Nat
    BY <1>3 DEF Entry
  <1>5. \A e \in Entries : \E c \in Buckets : e \in EntriesOf(c) /\ Hash[e.obj] = c
    BY EntriesAre DEF OrderInv, VersionsIncrease
  <1>6. QED BY <1>1, <1>2, <1>3, <1>4, <1>5 DEF OrderInv, VersionsIncrease, OneEntry

\* There are no more entries than versions.
LEMMA EntriesFinite ==
  ASSUME OrderInv
  PROVE  IsFiniteSet(Entries)
  <1>1. version \in Nat
    BY DEF OrderInv, OrderTypes
  <1>2. \A e \in Entries : e.ver \in 0 .. version
    <2>1. ASSUME NEW e \in Entries PROVE e.ver \in 0 .. version
      <3>1. PICK b \in Buckets : e \in EntriesOf(b)
        BY EntriesAre
      <3>2. e.ver \in Nat /\ e.ver < version
        BY <3>1, InBucket DEF OrderInv, VersionsIncrease
      <3>3. QED BY <1>1, <3>2
    <2>2. QED BY <2>1
  <1> DEFINE f == [e \in Entries |-> e.ver]
  <1>3. f \in Injection(Entries, 0 .. version)
    <2>1. \A d, e \in Entries : d.ver = e.ver => d = e
      BY DEF OrderInv, OneEntry
    <2>2. QED BY <1>2, <2>1 DEF Injection, IsInjective
  <1>4. IsFiniteSet(0 .. version)
    BY <1>1, FS_Interval
  <1> HIDE DEF f
  <1>5. QED BY <1>3, <1>4, FS_Injection

\* The first entry of a bucket above a version is the lowest of those above it.
LEMMA FirstHigherIs ==
  ASSUME OrderInv, NEW b \in Buckets, NEW v \in Nat
  PROVE  \/ /\ FirstHigher(b, v) = {}
            /\ \A e \in EntriesOf(b) : e.ver <= v
         \/ \E e \in EntriesOf(b) :
              /\ FirstHigher(b, v) = {e}
              /\ e.ver > v
              /\ \A d \in EntriesOf(b) : d.ver > v => e.ver <= d.ver
  <1> DEFINE s == buckets[b]
             T == {k \in DOMAIN s : s[k].ver > v}
  <1>1. /\ DOMAIN s = 1 .. Len(s) /\ Len(s) \in Nat
        /\ \A k \in DOMAIN s : s[k] \in EntriesOf(b) /\ s[k].ver \in Nat
        /\ \A i, j \in DOMAIN s : i < j => s[i].ver < s[j].ver
        /\ \A e : e \in EntriesOf(b) <=> \E k \in DOMAIN s : s[k] = e
    BY InBucket, EntriesAre
  <1>2. FirstHigher(b, v) = {e \in EntriesOf(b) : \E k \in DOMAIN s :
           /\ e = s[k] /\ e.ver > v /\ \A j \in 1 .. k - 1 : ~(s[j].ver > v)}
    BY DEF FirstHigher, FirstOf, Higher
  <1> HIDE DEF s
  <1>3. CASE T = {}
    BY <1>1, <1>2, <1>3
  <1>4. CASE T # {}
    <2>1. T \subseteq Nat
      BY <1>1
    <2> HIDE DEF T
    <2>2. PICK k \in T : \A j \in T : k <= j
      BY <1>4, <2>1, LeastNumber
    <2> USE DEF T
    <2>3. k \in DOMAIN s /\ s[k].ver > v
      BY <2>2
    <2>4. \A j \in DOMAIN s : s[j].ver > v => k <= j
      BY <2>2
    <2> HIDE DEF T
    <2>5. \A j \in 1 .. k - 1 : j \in DOMAIN s /\ ~(s[j].ver > v)
      BY <1>1, <2>3, <2>4
    <2>6. \A j \in DOMAIN s : j # k /\ s[j].ver > v => ~ \A i \in 1 .. j - 1 : ~(s[i].ver > v)
      BY <1>1, <2>3, <2>4
    <2>7. FirstHigher(b, v) = {s[k]}
      BY <1>1, <1>2, <2>3, <2>5, <2>6
    <2>8. \A d \in EntriesOf(b) : d.ver > v => s[k].ver <= d.ver
      <3>1. ASSUME NEW j \in DOMAIN s, s[j].ver > v PROVE s[k].ver <= s[j].ver
        <4>1. k = j \/ k < j
          BY <1>1, <2>3, <2>4, <3>1
        <4>2. QED BY <1>1, <2>3, <4>1
      <3>2. QED BY <1>1, <3>1
    <2>9. QED BY <1>1, <2>3, <2>7, <2>8
  <1>5. QED BY <1>3, <1>4

----------------------------------------------------------------------------
(* What the iterator finds.                                                *)

\* In the order of buckets and versions, the least entry it has not left behind.
LEMMA NextIs ==
  ASSUME OrderInv, NEW x \in Threads, it[x].on, it[x].bucket \in Buckets
  PROVE  \/ /\ NextEntry(it[x]).entry = {} /\ NextEntry(it[x]).bucket = N + 1
            /\ \A e \in Entries : Behind(x, e)
         \/ \E e \in Entries :
              /\ NextEntry(it[x]).entry = {e}
              /\ NextEntry(it[x]).bucket = Hash[e.obj]
              /\ ~Behind(x, e)
              /\ \A d \in Entries : ~Behind(x, d) =>
                   Hash[e.obj] < Hash[d.obj] \/ (Hash[d.obj] = Hash[e.obj] /\ e.ver <= d.ver)
  <1>1. PICK i : i = it[x] /\ i.bucket \in Buckets /\ i.ver \in Nat /\ i.cver \in Nat /\ i.ptr \in Nat
    BY DEF OrderInv, OrderTypes
  <1>2. N \in Nat /\ Buckets \subseteq Nat /\ \A b : b \in Buckets <=> b \in Nat /\ 1 <= b /\ b <= N
    BY ConstantsAssumption DEF Buckets
  <1>3. \A e \in Entries : Hash[e.obj] \in Buckets /\ e \in EntriesOf(Hash[e.obj])
                           /\ e.ver \in Nat /\ 0 < e.ver
    <2>1. ASSUME NEW e \in Entries
          PROVE  Hash[e.obj] \in Buckets /\ e \in EntriesOf(Hash[e.obj]) /\ e.ver \in Nat /\ 0 < e.ver
      <3>1. PICK b \in Buckets : e \in EntriesOf(b)
        BY EntriesAre
      <3>2. QED BY <3>1, InBucket
    <2>2. QED BY <2>1
  <1> DEFINE s == buckets[i.bucket]
             after(d) == Hash[d.obj] > i.bucket \/ (Hash[d.obj] = i.bucket /\ d.ver > i.ver)
  <1>4. \A d \in Entries : ~Behind(x, d) <=> after(d)
    BY <1>1, <1>2, <1>3 DEF Behind
  <1>5. /\ DOMAIN s = 1 .. Len(s) /\ Len(s) \in Nat
        /\ \A k \in DOMAIN s : /\ s[k] \in EntriesOf(i.bucket) /\ s[k] \in Entries
                               /\ Hash[s[k].obj] = i.bucket /\ s[k].ver \in Nat
        /\ \A j, k \in DOMAIN s : j < k => s[j].ver < s[k].ver
        /\ \A e \in Entries : Hash[e.obj] = i.bucket => \E k \in DOMAIN s : s[k] = e
    BY <1>1, InBucket, EntriesAre
  <1>6. Follows(i) => /\ Place(i) \in DOMAIN s /\ s[Place(i)].ver = i.ver
    <2>1. SUFFICES ASSUME Follows(i) PROVE Place(i) \in DOMAIN s /\ s[Place(i)].ver = i.ver
      OBVIOUS
    <2>2. PICK e \in EntriesOf(i.bucket) : e.ver = i.ptr
      BY <1>1, <2>1 DEF OrderInv, PointerIsLive
    <2>3. PICK k \in DOMAIN s : s[k].ver = i.ptr
      BY <1>1, <2>2, EntriesAre
    <2>4. Place(i) = CHOOSE j \in 0 .. Len(s) : j # 0 /\ s[j].ver = i.ptr
      BY <2>3 DEF Place
    <2>5. k \in 0 .. Len(s) /\ k # 0
      BY <1>5
    <2> HIDE DEF s
    <2>6. Place(i) \in 0 .. Len(s) /\ Place(i) # 0 /\ s[Place(i)].ver = i.ptr
      BY <2>3, <2>4, <2>5
    <2>7. i.ptr = i.ver
      BY <1>1, <2>1 DEF OrderInv, Iterators, Follows
    <2>8. QED BY <1>5, <2>6, <2>7
  <1> DEFINE start == ScanFrom(i)
             above(b) == IF b = start.bucket THEN start.above ELSE 0
             hits == {b \in start.bucket .. N : FirstHigher(b, above(b)) # {}}
             least == CHOOSE b \in hits : \A c \in hits : b <= c
  <1>7. NextEntry(i) =
          IF Follows(i) /\ Place(i) < Len(s)
          THEN [bucket |-> i.bucket, entry |-> {s[Place(i) + 1]}]
          ELSE IF hits = {} THEN [bucket |-> N + 1, entry |-> {}]
          ELSE [bucket |-> least, entry |-> FirstHigher(least, above(least))]
    BY DEF NextEntry
  <1>8. CASE Follows(i) /\ Place(i) < Len(s)
    <2>1. PICK k \in DOMAIN s : k = Place(i) /\ s[k].ver = i.ver /\ k < Len(s)
      BY <1>6, <1>8
    <2> HIDE DEF s, hits, least
    <2>2. /\ k + 1 \in DOMAIN s /\ k < k + 1
          /\ NextEntry(i) = [bucket |-> i.bucket, entry |-> {s[k + 1]}]
      BY <1>5, <1>7, <1>8, <2>1
    <2>3. PICK e \in Entries : e = s[k + 1] /\ Hash[e.obj] = i.bucket /\ e.ver > i.ver
      BY <1>1, <1>5, <2>1, <2>2
    <2>4. ASSUME NEW d \in Entries, after(d)
          PROVE  Hash[e.obj] < Hash[d.obj] \/ (Hash[d.obj] = Hash[e.obj] /\ e.ver <= d.ver)
      <3>1. CASE Hash[d.obj] = i.bucket
        <4>1. PICK j \in DOMAIN s : s[j] = d
          BY <1>5, <3>1
        <4>2. ~(j <= k)
          <5>1. j = k => d.ver = i.ver
            BY <2>1, <4>1
          <5>2. j < k => d.ver < i.ver
            BY <1>5, <2>1, <4>1
          <5>3. d.ver > i.ver
            <6>1. ~(Hash[d.obj] > i.bucket)
              BY <1>1, <1>2, <3>1
            <6>2. QED BY <2>4, <6>1
          <5>4. QED BY <1>1, <1>3, <1>5, <5>1, <5>2, <5>3
        <4>3. j = k + 1 \/ k + 1 < j
          BY <1>5, <4>2
        <4>4. e.ver <= d.ver
          BY <1>3, <1>5, <2>2, <2>3, <4>1, <4>3
        <4>5. QED BY <2>3, <3>1, <4>4
      <3>2. CASE Hash[d.obj] # i.bucket
        BY <2>3, <2>4, <3>2
      <3>3. QED BY <3>1, <3>2
    <2>5. after(e)
      BY <2>3
    <2> HIDE DEF after
    <2>6. QED BY <1>1, <1>4, <2>2, <2>3, <2>4, <2>5
  <1>9. CASE ~(Follows(i) /\ Place(i) < Len(s))
    <2>1. /\ start.bucket \in Nat /\ 1 <= start.bucket /\ start.above \in Nat
          /\ \A d \in Entries :
               after(d) <=> \/ Hash[d.obj] > start.bucket
                            \/ Hash[d.obj] = start.bucket /\ d.ver > start.above
      <3>1. CASE Follows(i)
        <4>1. start = [bucket |-> i.bucket + 1, above |-> 0]
          BY <3>1 DEF ScanFrom
        <4>2. Place(i) = Len(s) /\ Len(s) \in DOMAIN s /\ s[Len(s)].ver = i.ver
          BY <1>5, <1>6, <1>9, <3>1
        <4>3. \A d \in Entries : Hash[d.obj] = i.bucket => ~(d.ver > i.ver)
          <5>1. ASSUME NEW k \in DOMAIN s PROVE ~(s[k].ver > i.ver)
            <6>1. k = Len(s) \/ k < Len(s)
              BY <1>5
            <6>2. QED BY <1>1, <1>5, <4>2, <6>1
          <5>2. QED BY <1>5, <5>1
        <4>4. start.bucket = i.bucket + 1 /\ start.above = 0
          BY <4>1
        <4> HIDE DEF start
        <4>5. QED BY <1>1, <1>2, <1>3, <4>3, <4>4
      <3>2. CASE ~Follows(i)
        <4>1. start.bucket = i.bucket /\ start.above = i.ver
          BY <3>2 DEF ScanFrom
        <4> HIDE DEF start
        <4>2. QED BY <1>1, <1>2, <4>1
      <3>3. QED BY <3>1, <3>2
    <2>2. \A b \in Buckets : above(b) \in Nat
      BY <2>1
    <2>3. \A d \in Entries : after(d) <=> Hash[d.obj] \in start.bucket .. N /\ d.ver > above(Hash[d.obj])
      <3> HIDE DEF start, after
      <3>1. QED BY <1>2, <1>3, <2>1
    <2>4. hits \subseteq Nat /\ hits \subseteq Buckets
      BY <1>2, <2>1
    <2> HIDE DEF start, above, after, s
    <2>5. CASE hits = {}
      <3>1. ASSUME NEW d \in Entries, after(d) PROVE FALSE
        <4>1. Hash[d.obj] \in Buckets /\ d \in EntriesOf(Hash[d.obj]) /\ Hash[d.obj] \in start.bucket .. N
              /\ d.ver > above(Hash[d.obj]) /\ d.ver \in Nat /\ above(Hash[d.obj]) \in Nat
          BY <1>3, <2>2, <2>3, <3>1
        <4>2. FirstHigher(Hash[d.obj], above(Hash[d.obj])) # {}
          BY <4>1, FirstHigherIs
        <4>3. QED BY <2>5, <4>1, <4>2
      <3>2. NextEntry(i) = [bucket |-> N + 1, entry |-> {}]
        BY <1>7, <1>9, <2>5
      <3>3. QED BY <1>1, <1>4, <3>1, <3>2
    <2>6. CASE hits # {}
      <3>1. \A b : b \in hits <=> b \in start.bucket .. N /\ FirstHigher(b, above(b)) # {}
        OBVIOUS
      <3>2. NextEntry(i) = [bucket |-> least, entry |-> FirstHigher(least, above(least))]
        BY <1>7, <1>9, <2>6
      <3> HIDE DEF hits
      <3>3. \E b \in hits : \A c \in hits : b <= c
        BY <2>4, <2>6, LeastNumber
      <3>4. least \in hits /\ \A c \in hits : least <= c
        BY <3>3
      <3> HIDE DEF least
      <3>5. least \in Buckets /\ least \in start.bucket .. N /\ FirstHigher(least, above(least)) # {}
        BY <2>4, <3>1, <3>4
      <3>6. PICK e \in EntriesOf(least) :
              /\ FirstHigher(least, above(least)) = {e}
              /\ e.ver > above(least)
              /\ \A d \in EntriesOf(least) : d.ver > above(least) => e.ver <= d.ver
        BY <2>2, <3>5, FirstHigherIs
      <3>7. e \in Entries /\ Hash[e.obj] = least
        BY <3>5, <3>6, InBucket
      <3>8. after(e)
        BY <2>3, <3>5, <3>6, <3>7
      <3>9. ASSUME NEW d \in Entries, after(d)
            PROVE  Hash[e.obj] < Hash[d.obj] \/ (Hash[d.obj] = Hash[e.obj] /\ e.ver <= d.ver)
        <4>1. Hash[d.obj] \in Buckets /\ d \in EntriesOf(Hash[d.obj]) /\ Hash[d.obj] \in start.bucket .. N
              /\ d.ver > above(Hash[d.obj]) /\ d.ver \in Nat /\ above(Hash[d.obj]) \in Nat
          BY <1>3, <2>2, <2>3, <3>9
        <4>2. FirstHigher(Hash[d.obj], above(Hash[d.obj])) # {}
          BY <4>1, FirstHigherIs
        <4>3. least <= Hash[d.obj]
          BY <3>1, <3>4, <4>1, <4>2
        <4>4. CASE Hash[d.obj] = least
          BY <3>6, <3>7, <4>1, <4>4
        <4>5. CASE Hash[d.obj] # least
          BY <1>2, <3>5, <3>7, <4>1, <4>3, <4>5
        <4>6. QED BY <4>4, <4>5
      <3>10. QED BY <1>1, <1>4, <3>2, <3>6, <3>7, <3>8, <3>9
    <2>7. QED BY <2>5, <2>6
  <1>10. QED BY <1>8, <1>9

----------------------------------------------------------------------------
(* The invariant under each operation.                                     *)

\* Operations that touch references only.
LEMMA OthersKeep ==
  ASSUME OrderInv, UNCHANGED <<buckets, version, life, owner, linkVars, it, histVars>>
  PROVE  OrderInv'
  <1>1. UNCHANGED <<buckets, version, life, owner, pc, arg, ver, it, seen, twice, excused>>
    BY DEF linkVars, histVars
  <1>2. Entries' = Entries /\ \A b : EntriesOf(b)' = EntriesOf(b)
    BY <1>1 DEF Entries, EntriesOf
  <1>3. OrderTypes' /\ LinkersLock' /\ Newest' /\ OneEntry' /\ NoneTwice'
    BY <1>1, <1>2 DEF OrderInv, OrderTypes, LinkersLock, Newest, OneEntry, NoneTwice
  <1>4. VersionsIncrease'
    BY <1>1, <1>2 DEF OrderInv, VersionsIncrease
  <1>5. Iterators'
    BY <1>1 DEF OrderInv, Iterators
  <1>6. PointerIsLive'
    BY <1>1, <1>2 DEF OrderInv, PointerIsLive, Follows
  <1>7. SeenBehind'
    BY <1>1, <1>2 DEF OrderInv, SeenBehind, Behind
  <1>8. QED BY <1>3, <1>4, <1>5, <1>6, <1>7 DEF OrderInv

\* What a removal leaves: the other entries, in their order, and a new version.
LEMMA RemovalLeaves ==
  ASSUME OrderInv, NEW S, S \subseteq Entries, RemoveEntries(S)
  PROVE  /\ Entries' = Entries \ S
         /\ buckets' \in [Buckets -> Seq(Entry)]
         /\ VersionsIncrease'
         /\ OneEntry'
         /\ version' \in Nat \ {0} /\ version <= version'
         /\ life' = life
         /\ S # {} => version < version'
         /\ S = {} => \A b \in Buckets : EntriesOf(b)' = EntriesOf(b)
  <1>1. /\ buckets' = [b \in Buckets |-> Without(buckets[b], S)]
        /\ version' = version + Cardinality(S)
        /\ life' = life
    BY DEF RemoveEntries
  <1>2. \A b \in Buckets :
          /\ buckets[b] \in Seq(Entry)
          /\ Without(buckets[b], S) \in Seq(Entry)
          /\ ToSet(Without(buckets[b], S)) = ToSet(buckets[b]) \ S
          /\ \A i, j \in 1 .. Len(Without(buckets[b], S)) :
               i < j => Without(buckets[b], S)[i].ver < Without(buckets[b], S)[j].ver
    <2>1. ASSUME NEW b \in Buckets
          PROVE  /\ buckets[b] \in Seq(Entry)
                 /\ \A i, j \in 1 .. Len(buckets[b]) :
                      i < j => buckets[b][i].ver < buckets[b][j].ver
      BY InBucket
    <2>2. QED BY <2>1, WithoutIs
  <1>3. \A b \in Buckets : /\ EntriesOf(b)' = EntriesOf(b) \ S
                           /\ DOMAIN buckets'[b] = 1 .. Len(buckets'[b])
                           /\ \A i, j \in 1 .. Len(buckets'[b]) :
                                i < j => buckets'[b][i].ver < buckets'[b][j].ver
    BY <1>1, <1>2 DEF EntriesOf
  <1>4. \A e : e \in Entries' <=> \E b \in Buckets : e \in EntriesOf(b)'
    BY DEF Entries
  <1>5. Entries' = Entries \ S
    BY <1>3, <1>4, EntriesAre
  <1>6. buckets' \in [Buckets -> Seq(Entry)]
    BY <1>1, <1>2
  <1>7. IsFiniteSet(S)
    BY EntriesFinite, FS_Subset
  <1>8. Cardinality(S) \in Nat /\ (S # {} => Cardinality(S) # 0)
    BY <1>7, FS_CardinalityType, FS_EmptySet
  <1>9. version \in Nat \ {0}
    BY DEF OrderInv, OrderTypes
  <1>10. version' \in Nat \ {0} /\ version <= version' /\ (S # {} => version < version')
    BY <1>1, <1>8, <1>9
  <1>11. VersionsIncrease'
    <2>1. ASSUME NEW b \in Buckets, NEW e \in EntriesOf(b)'
          PROVE  e.ver < version' /\ Hash[e.obj] = b
      <3>1. e \in EntriesOf(b) /\ e.ver \in Nat /\ e.ver < version /\ Hash[e.obj] = b
        BY <1>3, InBucket DEF OrderInv, VersionsIncrease
      <3>2. QED BY <1>9, <1>10, <3>1
    <2>2. QED BY <1>3, <2>1 DEF VersionsIncrease
  <1>12. OneEntry'
    BY <1>5 DEF OrderInv, OneEntry
  <1>13. S = {} => \A b \in Buckets : EntriesOf(b)' = EntriesOf(b)
    BY <1>3
  <1>14. QED BY <1>1, <1>5, <1>6, <1>10, <1>11, <1>12, <1>13

\* A callback removes entries.
LEMMA RemovalKeeps ==
  ASSUME OrderInv, NEW S, S \subseteq Entries, RemoveEntries(S),
         owner = Nil, UNCHANGED <<owner, linkVars, it, histVars>>
  PROVE  OrderInv'
  <1>1. UNCHANGED <<owner, pc, arg, ver, it, seen, twice, excused>>
    BY DEF linkVars, histVars
  <1>2. /\ Entries' = Entries \ S
        /\ buckets' \in [Buckets -> Seq(Entry)]
        /\ VersionsIncrease' /\ OneEntry'
        /\ version' \in Nat \ {0} /\ version \in Nat /\ version <= version'
        /\ life' = life
        /\ S # {} => version < version'
        /\ S = {} => \A b \in Buckets : EntriesOf(b)' = EntriesOf(b)
    BY RemovalLeaves DEF OrderInv, OrderTypes
  <1>3. OrderTypes'
    BY <1>1, <1>2 DEF OrderInv, OrderTypes
  <1>4. LinkersLock' /\ NoneTwice'
    BY <1>1 DEF OrderInv, LinkersLock, NoneTwice
  <1>5. Newest'
    BY <1>1, ConstantsAssumption DEF OrderInv, LinkersLock, Newest
  <1>6. \A x \in Threads : it[x].ver \in Nat /\ it[x].cver \in Nat /\ seen[x] \subseteq Nat
    BY DEF OrderInv, OrderTypes
  <1>7. Iterators'
    <2>1. ASSUME NEW x \in Threads
          PROVE  it[x].ver < version' /\ it[x].cver <= version' /\ \A v \in seen[x] : v < version'
      BY <1>2, <1>6 DEF OrderInv, Iterators
    <2>2. QED BY <1>1, <1>2, <2>1 DEF OrderInv, Iterators
  <1>8. PointerIsLive'
    <2>1. SUFFICES ASSUME NEW x \in Threads, it[x].on, it[x].cver = version', it[x].ptr # 0,
                          it[x].bucket \in Buckets
                   PROVE  \E e \in EntriesOf(it[x].bucket)' : e.ver = it[x].ptr
      BY <1>1 DEF PointerIsLive, Follows
    <2>2. it[x].cver <= version
      BY DEF OrderInv, Iterators
    <2>3. version' = version /\ S = {}
      BY <1>2, <1>6, <2>1, <2>2
    <2>4. \E e \in EntriesOf(it[x].bucket) : e.ver = it[x].ptr
      BY <2>1, <2>3 DEF OrderInv, PointerIsLive, Follows
    <2>5. QED BY <1>2, <2>1, <2>3, <2>4
  <1>9. SeenBehind'
    BY <1>1, <1>2 DEF OrderInv, SeenBehind, Behind
  <1>10. QED BY <1>2, <1>3, <1>4, <1>5, <1>7, <1>8, <1>9 DEF OrderInv

\* obj_unlink, and the callbacks with OBJ_UNLINK.
LEMMA CallbacksKeep ==
  ASSUME OrderInv, NEW th \in Threads,
         \/ \E o \in Objects : Unlink(th, o) \/ FindUnlink(th, o)
         \/ \E M \in Matches : RemoveAll(th, M) \/ TakeAll(th, M)
  PROVE  OrderInv'
  <1>1. \A o \in Objects : FirstMatch(Hash[o], {o}) \subseteq Entries
    <2>1. \A o \in Objects : Hash[o] \in Buckets
      BY ConstantsAssumption
    <2>2. \A o \in Objects : FirstMatch(Hash[o], {o}) \subseteq EntriesOf(Hash[o])
      BY DEF FirstMatch, FirstOf
    <2>3. QED BY <2>1, <2>2, EntriesAre
  <1>2. \A M : MatchesOf(M) \subseteq Entries
    BY DEF MatchesOf
  <1>3. \E S : S \subseteq Entries /\ RemoveEntries(S)
    BY <1>1, <1>2 DEF Unlink, FindUnlink, RemoveAll, TakeAll
  <1>4. owner = Nil /\ UNCHANGED <<owner, linkVars, it, histVars>>
    BY DEF Unlink, FindUnlink, RemoveAll, TakeAll, Locked, iterVars
  <1>5. QED BY <1>3, <1>4, RemovalKeeps

\* The steps of a link before and after the insertion, and the end of a thread.
LEMMA LinkStepsKeep ==
  ASSUME OrderInv, CallerLocks, NEW th \in Threads,
         \/ (\E o \in Objects : LinkCall(th, o))
         \/ LinkVersion(th) \/ LinkRef(th) \/ LinkFails(th) \/ MultiDestroy(th)
  PROVE  OrderInv'
  <1>1. UNCHANGED <<buckets, life, it, seen, twice, excused>>
    BY DEF LinkCall, LinkVersion, LinkRef, LinkFails, MultiDestroy, contVars, iterVars, histVars
  <1>2. Entries' = Entries /\ \A b : EntriesOf(b)' = EntriesOf(b)
    BY <1>1 DEF Entries, EntriesOf
  <1>3. version \in Nat \ {0} /\ version' \in Nat \ {0} /\ version <= version'
    <2>1. version \in Nat \ {0}
      BY DEF OrderInv, OrderTypes
    <2>2. version' = version \/ version' = version + 1
      BY DEF LinkCall, LinkVersion, LinkRef, LinkFails, MultiDestroy, contVars
    <2>3. QED BY <2>1, <2>2
  <1>4. /\ pc' \in [Threads -> {"idle", "version", "insert", "ref", "crashed"}]
        /\ arg' \in [Threads -> Objects \cup {Nil}]
        /\ ver' \in [Threads -> Nat]
    <2>1. /\ pc \in [Threads -> {"idle", "version", "insert", "ref", "crashed"}]
          /\ arg \in [Threads -> Objects \cup {Nil}] /\ ver \in [Threads -> Nat]
          /\ version \in Nat
      BY DEF OrderInv, OrderTypes
    <2>2. \/ pc' = pc
          \/ \E at \in {"idle", "version", "insert", "crashed"} : pc' = [pc EXCEPT ![th] = at]
      BY DEF LinkCall, LinkVersion, LinkRef, LinkFails, MultiDestroy
    <2>3. arg' = arg \/ \E o \in Objects \cup {Nil} : arg' = [arg EXCEPT ![th] = o]
      BY DEF LinkCall, LinkVersion, LinkRef, LinkFails, MultiDestroy
    <2>4. ver' = ver \/ ver' = [ver EXCEPT ![th] = version] \/ ver' = [ver EXCEPT ![th] = 0]
      BY DEF LinkCall, LinkVersion, LinkRef, LinkFails, MultiDestroy
    <2>5. pc' \in [Threads -> {"idle", "version", "insert", "ref", "crashed"}]
      BY <2>1, <2>2
    <2>6. arg' \in [Threads -> Objects \cup {Nil}]
      BY <2>1, <2>3
    <2>7. ver' \in [Threads -> Nat]
      BY <2>1, <2>4
    <2>8. QED BY <2>5, <2>6, <2>7
  <1>5. OrderTypes'
    BY <1>1, <1>3, <1>4 DEF OrderInv, OrderTypes
  <1>6. VersionsIncrease'
    <2>1. ASSUME NEW b \in Buckets, NEW e \in EntriesOf(b) PROVE e.ver < version'
      <3>1. e.ver \in Nat /\ e.ver < version
        BY InBucket DEF OrderInv, VersionsIncrease
      <3>2. QED BY <1>3, <3>1
    <2>2. QED BY <1>1, <1>2, <2>1 DEF OrderInv, VersionsIncrease
  <1>7. OneEntry' /\ NoneTwice'
    BY <1>1, <1>2 DEF OrderInv, OneEntry, NoneTwice
  <1>8. \A x \in Threads : it[x].ver \in Nat /\ it[x].cver \in Nat /\ seen[x] \subseteq Nat
    BY DEF OrderInv, OrderTypes
  <1>9. Iterators'
    <2>1. ASSUME NEW x \in Threads
          PROVE  it[x].ver < version' /\ it[x].cver <= version' /\ \A v \in seen[x] : v < version'
      BY <1>3, <1>8 DEF OrderInv, Iterators
    <2>2. QED BY <1>1, <2>1 DEF OrderInv, Iterators
  <1>10. PointerIsLive'
    <2>1. ASSUME NEW x \in Threads, it[x].on, it[x].cver = version', it[x].ptr # 0,
                 it[x].bucket \in Buckets
          PROVE  \E e \in EntriesOf(it[x].bucket) : e.ver = it[x].ptr
      <3>1. it[x].cver <= version
        BY DEF OrderInv, Iterators
      <3>2. version' = version
        BY <1>3, <1>8, <2>1, <3>1
      <3>3. QED BY <2>1, <3>2 DEF OrderInv, PointerIsLive, Follows
    <2>2. QED BY <1>1, <1>2, <2>1 DEF PointerIsLive, Follows
  <1>11. SeenBehind'
    BY <1>1, <1>2 DEF OrderInv, SeenBehind, Behind
  <1>12. LinkersLock'
    <2>1. pc \in [Threads -> {"idle", "version", "insert", "ref", "crashed"}]
          /\ arg \in [Threads -> Objects \cup {Nil}]
      BY DEF OrderInv, OrderTypes
    <2>2. \A x \in Threads : pc[x] \in {"version", "insert", "ref"} => owner = x /\ arg[x] \in Objects
      BY DEF OrderInv, LinkersLock
    <2>3. Nil \notin Threads
      BY ConstantsAssumption
    <2>4. CASE \E o \in Objects : LinkCall(th, o)
      BY <2>1, <2>2, <2>3, <2>4 DEF LinkCall, LinkersLock
    <2>5. CASE LinkVersion(th)
      BY <2>1, <2>2, <2>5 DEF LinkVersion, LinkersLock
    <2>6. CASE LinkRef(th) \/ LinkFails(th)
      BY <2>1, <2>2, <2>6 DEF LinkRef, LinkFails, LinkersLock
    <2>7. CASE MultiDestroy(th)
      BY <2>1, <2>2, <2>7 DEF MultiDestroy, LinkersLock
    <2>8. QED BY <2>4, <2>5, <2>6, <2>7
  <1>13. Newest'
    <2>1. pc \in [Threads -> {"idle", "version", "insert", "ref", "crashed"}]
          /\ ver \in [Threads -> Nat]
      BY DEF OrderInv, OrderTypes
    <2>2. CASE LinkVersion(th)
      <3>1. /\ pc' = [pc EXCEPT ![th] = "insert"] /\ ver' = [ver EXCEPT ![th] = version]
            /\ version' = version + 1 /\ pc[th] = "version"
        BY <2>2 DEF LinkVersion
      <3>2. \A x \in Threads : pc'[x] = "insert" => x = th
        BY <2>1, <3>1 DEF OrderInv, LinkersLock
      <3>3. ver'[th] = version /\ 0 < version /\ version < version + 1
        BY <1>3, <2>1, <3>1
      <3>4. \A e \in Entries : e.ver < version
        BY EntriesAre DEF OrderInv, VersionsIncrease
      <3>5. \A x \in Threads : it[x].ver < version /\ \A v \in seen[x] : v < version
        BY DEF OrderInv, Iterators
      <3>6. QED BY <1>1, <1>2, <3>1, <3>2, <3>3, <3>4, <3>5 DEF Newest
    <2>3. CASE ~LinkVersion(th)
      <3>1. /\ version' = version
            /\ \A x \in Threads : pc'[x] = "insert" => pc[x] = "insert" /\ ver'[x] = ver[x]
        BY <2>1, <2>3 DEF LinkCall, LinkRef, LinkFails, MultiDestroy, contVars
      <3>2. QED BY <1>1, <1>2, <3>1 DEF OrderInv, Newest
    <2>4. QED BY <2>2, <2>3
  <1>14. QED BY <1>5, <1>6, <1>7, <1>9, <1>10, <1>11, <1>12, <1>13 DEF OrderInv

\* The new entry comes behind all that are in its bucket, and before every iterator that has
\* not left the bucket.
LEMMA LinkInsertKeeps ==
  ASSUME OrderInv, CallerLocks, NEW th \in Threads, LinkInsert(th)
  PROVE  OrderInv'
  <1>1. /\ pc[th] = "insert" /\ owner = th /\ arg[th] \in Objects
        /\ UNCHANGED <<version, life, owner, arg, ver, it, seen, twice>>
        /\ pc' = [pc EXCEPT ![th] = "ref"]
    BY DEF LinkInsert, OrderInv, LinkersLock, iterVars
  <1>2. PICK b \in Buckets : b = Hash[arg[th]]
    BY <1>1, ConstantsAssumption
  <1>3. PICK new \in Entry : new = [ver |-> ver[th], obj |-> arg[th]]
                             /\ new.ver = ver[th] /\ new.obj = arg[th]
    <2>1. ver[th] \in Nat
      BY DEF OrderInv, OrderTypes
    <2>2. [ver |-> ver[th], obj |-> arg[th]] \in Entry
      BY <1>1, <2>1 DEF Entry
    <2>3. QED BY <2>2
  <1>4. /\ buckets' = [buckets EXCEPT ![b] = Append(@, new)]
        /\ excused' = [x \in Threads |->
             IF it[x].on /\ b < it[x].bucket THEN excused[x] \cup {ver[th]} ELSE excused[x]]
    BY <1>2, <1>3 DEF LinkInsert, AtTail
  <1>5. /\ 0 < new.ver /\ new.ver < version /\ new.ver \in Nat
        /\ \A e \in Entries : e.ver < new.ver
        /\ \A x \in Threads : it[x].ver < new.ver /\ \A v \in seen[x] : v < new.ver
    BY <1>1, <1>3 DEF OrderInv, Newest, OrderTypes
  <1>6. /\ buckets \in [Buckets -> Seq(Entry)] /\ buckets[b] \in Seq(Entry)
        /\ DOMAIN buckets[b] = 1 .. Len(buckets[b]) /\ Len(buckets[b]) \in Nat
    BY InBucket DEF OrderInv, OrderTypes
  <1>7. /\ buckets' \in [Buckets -> Seq(Entry)]
        /\ \A c \in Buckets : c # b => buckets'[c] = buckets[c]
        /\ buckets'[b] = Append(buckets[b], new)
        /\ DOMAIN buckets'[b] = 1 .. Len(buckets[b]) + 1
        /\ \A k \in 1 .. Len(buckets[b]) : buckets'[b][k] = buckets[b][k]
        /\ buckets'[b][Len(buckets[b]) + 1] = new
    <2>1. /\ Append(buckets[b], new) \in Seq(Entry)
          /\ Len(Append(buckets[b], new)) = Len(buckets[b]) + 1
          /\ \A k \in 1 .. Len(buckets[b]) : Append(buckets[b], new)[k] = buckets[b][k]
          /\ Append(buckets[b], new)[Len(buckets[b]) + 1] = new
      BY <1>6, AppendProperties
    <2>2. DOMAIN Append(buckets[b], new) = 1 .. Len(buckets[b]) + 1
      BY <2>1
    <2>3. /\ \A c \in Buckets : c # b => buckets'[c] = buckets[c]
          /\ buckets'[b] = Append(buckets[b], new)
          /\ buckets' \in [Buckets -> Seq(Entry)]
      BY <1>4, <1>6, <2>1
    <2>4. QED BY <2>1, <2>2, <2>3
  <1>8. /\ \A c \in Buckets : c # b => EntriesOf(c)' = EntriesOf(c)
        /\ \A e : e \in EntriesOf(b)' <=> e \in EntriesOf(b) \/ e = new
    <2>1. \A c \in Buckets : c # b => EntriesOf(c)' = EntriesOf(c)
      BY <1>7 DEF EntriesOf
    <2>2. \A e : e \in EntriesOf(b)' <=> \E k \in DOMAIN buckets'[b] : buckets'[b][k] = e
      BY DEF EntriesOf, ToSet
    <2>3. 1 .. Len(buckets[b]) + 1 = (1 .. Len(buckets[b])) \cup {Len(buckets[b]) + 1}
      BY <1>6
    <2>4. \A e : e \in EntriesOf(b)' <=> (\E k \in DOMAIN buckets[b] : buckets[b][k] = e) \/ e = new
      BY <1>6, <1>7, <2>2, <2>3
    <2>5. QED BY <2>1, <2>4, EntriesAre
  <1>9. \A e : e \in Entries' <=> e \in Entries \/ e = new
    <2>1. \A e : e \in Entries' <=> \E c \in Buckets : e \in EntriesOf(c)'
      BY DEF Entries
    <2>2. QED BY <1>8, <2>1, EntriesAre
  <1>10. OrderTypes'
    <2>1. pc' \in [Threads -> {"idle", "version", "insert", "ref", "crashed"}]
      BY <1>1 DEF OrderInv, OrderTypes
    <2>2. excused' \in [Threads -> SUBSET Nat]
      BY <1>3, <1>4, <1>5 DEF OrderInv, OrderTypes
    <2>3. QED BY <1>1, <1>7, <2>1, <2>2 DEF OrderInv, OrderTypes
  <1>11. LinkersLock' /\ Newest' /\ NoneTwice'
    <2>1. \A x \in Threads : pc'[x] = IF x = th THEN "ref" ELSE pc[x]
      BY <1>1 DEF OrderInv, OrderTypes
    <2>2. \A x \in Threads : x # th => pc[x] \notin {"version", "insert", "ref"}
      BY <1>1 DEF OrderInv, LinkersLock
    <2>3. QED BY <1>1, <2>1, <2>2 DEF OrderInv, LinkersLock, Newest, NoneTwice
  <1>12. VersionsIncrease'
    <2>1. ASSUME NEW i \in DOMAIN buckets'[b], NEW j \in DOMAIN buckets'[b], i < j
          PROVE  buckets'[b][i].ver < buckets'[b][j].ver
      <3>1. i \in 1 .. Len(buckets[b])
        BY <1>6, <1>7, <2>1
      <3>2. CASE j \in 1 .. Len(buckets[b])
        BY <1>6, <1>7, <2>1, <3>1, <3>2, InBucket
      <3>3. CASE j = Len(buckets[b]) + 1
        <4>1. buckets[b][i] \in Entries
          BY <1>6, <3>1, EntriesAre
        <4>2. QED BY <1>5, <1>7, <3>1, <3>3, <4>1
      <3>4. QED BY <1>6, <1>7, <3>2, <3>3
    <2>2. ASSUME NEW c \in Buckets, c # b,
                 NEW i \in DOMAIN buckets'[c], NEW j \in DOMAIN buckets'[c], i < j
          PROVE  buckets'[c][i].ver < buckets'[c][j].ver
      <3>1. buckets'[c] = buckets[c]
        BY <1>7, <2>2
      <3>2. QED BY <2>2, <3>1, InBucket
    <2>3. ASSUME NEW c \in Buckets, NEW e \in EntriesOf(c)'
          PROVE  e.ver < version' /\ Hash[e.obj] = c
      <3>1. e \in EntriesOf(c) \/ (c = b /\ e = new)
        BY <1>8, <2>3
      <3>2. e \in EntriesOf(c) => e.ver < version /\ Hash[e.obj] = c
        BY DEF OrderInv, VersionsIncrease
      <3>3. QED BY <1>1, <1>2, <1>3, <1>5, <3>1, <3>2
    <2>4. QED BY <2>1, <2>2, <2>3 DEF VersionsIncrease
  <1>13. OneEntry'
    <2>1. \A e \in Entries : e.ver # new.ver
      <3>1. ASSUME NEW e \in Entries PROVE e.ver # new.ver
        <4>1. PICK c \in Buckets : e \in EntriesOf(c)
          BY EntriesAre
        <4>2. e.ver \in Nat
          BY <4>1, InBucket
        <4>3. QED BY <1>5, <4>2
      <3>2. QED BY <3>1
    <2>2. QED BY <1>5, <1>9, <2>1 DEF OrderInv, OneEntry
  <1>14. Iterators'
    BY <1>1 DEF OrderInv, Iterators
  <1>15. PointerIsLive'
    BY <1>1, <1>8 DEF OrderInv, PointerIsLive, Follows
  <1>16. SeenBehind'
    <2>1. ASSUME NEW x \in Threads
          PROVE  /\ it[x].on /\ Behind(x, new) => new.ver \in excused'[x]
                 /\ new.ver \notin seen[x]
                 /\ excused[x] \subseteq excused'[x]
      <3>1. new.ver \notin seen[x]
        BY <1>5
      <3>2. ~(new.ver <= it[x].ver)
        BY <1>5 DEF OrderInv, OrderTypes
      <3>3. it[x].on /\ Behind(x, new) => b < it[x].bucket
        BY <1>2, <1>3, <3>2 DEF Behind
      <3>4. QED BY <1>3, <1>4, <3>1, <3>3
    <2>2. \A x \in Threads : \A e : Behind(x, e)' <=> Behind(x, e)
      BY <1>1 DEF Behind
    <2>3. QED BY <1>1, <1>9, <2>1, <2>2 DEF OrderInv, SeenBehind
  <1>17. QED BY <1>10, <1>11, <1>12, <1>13, <1>14, <1>15, <1>16 DEF OrderInv

\* Only the iterator of one thread begins or ends.
LEMMA IterEndsKeep ==
  ASSUME OrderInv, NEW th \in Threads,
         (\E unlink \in BOOLEAN : IterInit(th, unlink)) \/ IterDestroy(th)
  PROVE  OrderInv'
  <1>1. UNCHANGED <<buckets, version, owner, pc, arg, ver>>
    BY DEF IterInit, IterDestroy, contVars, linkVars
  <1>2. Entries' = Entries /\ \A b : EntriesOf(b)' = EntriesOf(b)
    BY <1>1 DEF Entries, EntriesOf
  <1>3. PICK i \in [on : BOOLEAN, unlink : BOOLEAN, bucket : 1 .. N + 1, ver : Nat, cver : Nat,
                    ptr : Nat] :
          /\ it' = [it EXCEPT ![th] = i]
          /\ i.bucket = 1 /\ i.ver = 0 /\ i.cver = 0 /\ i.ptr = 0
          /\ i.on => life' = "pinned"
          /\ ~i.on => i = NoIterator
    <2>1. N + 1 \in Nat /\ 1 <= N + 1
      BY ConstantsAssumption
    <2>2. CASE IterDestroy(th)
      <3>1. NoIterator \in [on : BOOLEAN, unlink : BOOLEAN, bucket : 1 .. N + 1, ver : Nat,
                            cver : Nat, ptr : Nat]
        BY <2>1 DEF NoIterator
      <3>2. it' = [it EXCEPT ![th] = NoIterator]
        BY <2>2 DEF IterDestroy
      <3>3. ~NoIterator.on /\ NoIterator.bucket = 1 /\ NoIterator.ver = 0 /\ NoIterator.cver = 0
            /\ NoIterator.ptr = 0
        BY DEF NoIterator
      <3>4. QED BY <3>1, <3>2, <3>3
    <2>3. CASE \E unlink \in BOOLEAN : IterInit(th, unlink)
      <3>1. PICK unlink \in BOOLEAN : IterInit(th, unlink)
        BY <2>3
      <3>2. PICK n \in [on : BOOLEAN, unlink : BOOLEAN, bucket : 1 .. N + 1, ver : Nat,
                          cver : Nat, ptr : Nat] :
              n = NoIterator /\ n.bucket = 1 /\ n.ver = 0 /\ n.cver = 0 /\ n.ptr = 0
        <4>1. NoIterator \in [on : BOOLEAN, unlink : BOOLEAN, bucket : 1 .. N + 1, ver : Nat,
                              cver : Nat, ptr : Nat]
          BY <2>1 DEF NoIterator
        <4>2. /\ NoIterator.bucket = 1 /\ NoIterator.ver = 0 /\ NoIterator.cver = 0
              /\ NoIterator.ptr = 0
          BY DEF NoIterator
        <4>3. QED BY <4>1, <4>2
      <3>3. PICK j : j = [n EXCEPT !.on = TRUE, !.unlink = unlink]
        OBVIOUS
      <3>4. it' = [it EXCEPT ![th] = j] /\ life' = "pinned"
        BY <3>1, <3>2, <3>3 DEF IterInit
      <3>5. j \in [on : BOOLEAN, unlink : BOOLEAN, bucket : 1 .. N + 1, ver : Nat, cver : Nat,
                   ptr : Nat]
        BY <3>2, <3>3
      <3>6. j.on /\ j.bucket = 1 /\ j.ver = 0 /\ j.cver = 0 /\ j.ptr = 0
        BY <3>2, <3>3
      <3>7. QED BY <3>4, <3>5, <3>6
    <2>4. QED BY <2>2, <2>3
  <1>4. /\ it' \in [Threads -> [on : BOOLEAN, unlink : BOOLEAN, bucket : 1 .. N + 1,
                                ver : Nat, cver : Nat, ptr : Nat]]
        /\ it'[th] = i
        /\ \A x \in Threads : x # th => it'[x] = it[x]
    BY <1>3 DEF OrderInv, OrderTypes
  <1>5. life' = life \/ life' = "pinned"
    BY DEF IterInit, IterDestroy, contVars
  <1>6. /\ \A x \in Threads : seen'[x] = seen[x] \/ seen'[x] = {}
        /\ \A x \in Threads : x # th => seen'[x] = seen[x] /\ excused'[x] = excused[x]
        /\ \A x \in Threads : twice'[x] = twice[x] \/ twice'[x] = FALSE
        /\ seen' \in [Threads -> SUBSET Nat] /\ twice' \in [Threads -> BOOLEAN]
        /\ excused' \in [Threads -> SUBSET Nat]
    <2>1. seen \in [Threads -> SUBSET Nat] /\ twice \in [Threads -> BOOLEAN]
          /\ excused \in [Threads -> SUBSET Nat]
      BY DEF OrderInv, OrderTypes
    <2>2. CASE IterDestroy(th)
      BY <2>1, <2>2 DEF IterDestroy
    <2>3. CASE \E unlink \in BOOLEAN : IterInit(th, unlink)
      BY <2>1, <2>3 DEF IterInit, histVars
    <2>4. QED BY <2>2, <2>3
  <1>7. \A e \in Entries : e.ver \notin seen'[th] /\ Hash[e.obj] \in Nat /\ 1 <= Hash[e.obj]
                           /\ e.ver \in Nat /\ 0 < e.ver
    <2>1. ASSUME NEW e \in Entries
          PROVE  e.ver \notin seen'[th] /\ Hash[e.obj] \in Nat /\ 1 <= Hash[e.obj]
                 /\ e.ver \in Nat /\ 0 < e.ver
      <3>1. PICK b \in Buckets : e \in EntriesOf(b)
        BY EntriesAre
      <3>2. b \in Nat /\ 1 <= b /\ Hash[e.obj] = b /\ e.ver \in Nat /\ 0 < e.ver
        BY <3>1, InBucket, ConstantsAssumption DEF Buckets
      <3>3. CASE IterDestroy(th)
        BY <3>2, <3>3 DEF IterDestroy, OrderInv, OrderTypes
      <3>4. CASE \E unlink \in BOOLEAN : IterInit(th, unlink)
        <4>1. ~it[th].on /\ seen'[th] = seen[th]
          BY <3>4 DEF IterInit, histVars
        <4>2. it[th].bucket = 1 /\ it[th].ver = 0
          BY <4>1 DEF OrderInv, Iterators, NoIterator
        <4>3. ~Behind(th, e)
          BY <3>2, <4>2 DEF Behind
        <4>4. QED BY <3>2, <4>1, <4>3 DEF OrderInv, SeenBehind
      <3>5. QED BY <3>3, <3>4
    <2>2. QED BY <2>1
  <1>8. version \in Nat \ {0}
    BY DEF OrderInv, OrderTypes
  <1>9. OrderTypes'
    BY <1>1, <1>4, <1>6 DEF OrderInv, OrderTypes
  <1>10. LinkersLock' /\ OneEntry'
    BY <1>1, <1>2 DEF OrderInv, LinkersLock, OneEntry
  <1>11. VersionsIncrease'
    BY <1>1, <1>2 DEF OrderInv, VersionsIncrease
  <1>12. NoneTwice'
    BY <1>6 DEF OrderInv, NoneTwice
  <1>13. Newest'
    <2>1. ASSUME NEW x \in Threads PROVE it'[x].ver = it[x].ver \/ it'[x].ver = 0
      BY <1>3, <1>4
    <2>2. QED BY <1>1, <1>2, <1>6, <2>1 DEF OrderInv, Newest
  <1>14. Iterators'
    <2>1. ASSUME NEW x \in Threads
          PROVE  /\ it'[x].ver < version /\ it'[x].cver <= version
                 /\ \A v \in seen'[x] : v < version
                 /\ it'[x].unlink => it'[x].ver = 0
                 /\ it'[x].bucket \in Buckets /\ it'[x].ptr # 0 => it'[x].ptr = it'[x].ver
                 /\ it'[x].on => life' = "pinned"
                 /\ ~it'[x].on => it'[x] = NoIterator
      <3>1. CASE x = th
        BY <1>3, <1>4, <1>6, <1>8, <3>1 DEF OrderInv, Iterators
      <3>2. CASE x # th
        BY <1>4, <1>5, <1>6, <3>2 DEF OrderInv, Iterators
      <3>3. QED BY <3>1, <3>2
    <2>2. NoIterator' = NoIterator /\ Buckets' = Buckets
      BY DEF NoIterator, Buckets
    <2>3. QED BY <1>1, <2>1, <2>2 DEF Iterators
  <1>15. PointerIsLive'
    BY <1>1, <1>2, <1>3, <1>4 DEF OrderInv, PointerIsLive, Follows
  <1>16. SeenBehind'
    <2>1. ASSUME NEW x \in Threads, NEW e \in Entries
          PROVE  /\ it'[x].on /\ Behind(x, e)' => e.ver \in seen'[x] \cup excused'[x]
                 /\ e.ver \in seen'[x] => Behind(x, e)'
      <3>1. CASE x = th
        <4>1. ~Behind(x, e)'
          BY <1>3, <1>4, <1>7, <3>1 DEF Behind
        <4>2. QED BY <1>7, <3>1, <4>1
      <3>2. CASE x # th
        BY <1>4, <1>6, <3>2 DEF OrderInv, SeenBehind, Behind
      <3>3. QED BY <3>1, <3>2
    <2>2. QED BY <1>2, <2>1 DEF SeenBehind
  <1>17. QED BY <1>9, <1>10, <1>11, <1>12, <1>13, <1>14, <1>15, <1>16 DEF OrderInv

\* A step of an iterator returns the first entry it has not left behind, and stands on it, or
\* before the place where it was.
LEMMA IterNextKeeps ==
  ASSUME OrderInv, NEW th \in Threads, IterNext(th)
  PROVE  OrderInv'
  <1> DEFINE ItType == [on : BOOLEAN, unlink : BOOLEAN, bucket : 1 .. N + 1,
                        ver : Nat, cver : Nat, ptr : Nat]
             next == NextEntry(it[th])
  <1>1. /\ owner = Nil /\ it[th].on /\ it[th].bucket \in Buckets
        /\ UNCHANGED <<owner, pc, arg, ver, excused>>
    BY DEF IterNext, Locked, linkVars, histVars
  <1>2. /\ it \in [Threads -> ItType] /\ it[th] \in ItType
        /\ version \in Nat \ {0} /\ life = "pinned"
    BY <1>1 DEF OrderInv, OrderTypes, Iterators
  <1>3. N \in Nat /\ Buckets = 1 .. N /\ Nil \notin Threads
    BY ConstantsAssumption DEF Buckets
  <1>4. \A x \in Threads : pc[x] \notin {"version", "insert", "ref"}
    BY <1>1, <1>3 DEF OrderInv, LinkersLock
  <1>5. LinkersLock' /\ Newest'
    BY <1>1, <1>4 DEF LinkersLock, Newest
  <1>6. \A e \in Entries : Hash[e.obj] \in 1 .. N /\ e \in EntriesOf(Hash[e.obj])
                           /\ e.ver \in Nat /\ 0 < e.ver /\ e.ver < version
    <2>1. ASSUME NEW e \in Entries
          PROVE  Hash[e.obj] \in 1 .. N /\ e \in EntriesOf(Hash[e.obj])
                 /\ e.ver \in Nat /\ 0 < e.ver /\ e.ver < version
      <3>1. PICK b \in Buckets : e \in EntriesOf(b)
        BY EntriesAre
      <3>2. QED BY <1>3, <3>1, InBucket DEF OrderInv, VersionsIncrease
    <2>2. QED BY <2>1
  <1>7. CASE next.entry = {}
    <2>1. next.bucket = N + 1 /\ \A e \in Entries : Behind(th, e)
      BY <1>1, <1>7, NextIs
    <2>2. /\ it' = [it EXCEPT ![th].bucket = N + 1, ![th].ver = 0,
                              ![th].ptr = IF Follows(it[th]) THEN 0 ELSE @]
          /\ UNCHANGED <<buckets, version, life, seen, twice>>
      BY <1>7, <2>1 DEF IterNext, contVars, histVars
    <2>3. /\ it' \in [Threads -> ItType]
          /\ \A x \in Threads : x # th => it'[x] = it[x]
          /\ it'[th].bucket = N + 1 /\ it'[th].ver = 0 /\ it'[th].cver = it[th].cver
          /\ it'[th].on /\ it'[th].unlink = it[th].unlink
      <3>1. N + 1 \in 1 .. N + 1 /\ (IF Follows(it[th]) THEN 0 ELSE it[th].ptr) \in Nat
        BY <1>2, <1>3
      <3>2. PICK p \in Nat : it' = [it EXCEPT ![th].bucket = N + 1, ![th].ver = 0, ![th].ptr = p]
        BY <2>2, <3>1
      <3>3. QED BY <1>1, <1>2, <3>1, <3>2
    <2>4. Entries' = Entries /\ \A b : EntriesOf(b)' = EntriesOf(b)
      BY <2>2 DEF Entries, EntriesOf
    <2>5. OrderTypes'
      BY <1>1, <2>2, <2>3 DEF OrderInv, OrderTypes
    <2>6. VersionsIncrease' /\ OneEntry' /\ NoneTwice'
      BY <2>2, <2>4 DEF OrderInv, VersionsIncrease, OneEntry, NoneTwice
    <2>7. Iterators'
      <3>1. it'[th].bucket \notin Buckets
        BY <1>3, <2>3
      <3>2. ASSUME NEW x \in Threads
            PROVE  /\ it'[x].ver < version /\ it'[x].cver <= version
                   /\ \A v \in seen[x] : v < version
                   /\ it'[x].unlink => it'[x].ver = 0
                   /\ it'[x].bucket \in Buckets /\ it'[x].ptr # 0 => it'[x].ptr = it'[x].ver
                   /\ it'[x].on => life = "pinned"
                   /\ ~it'[x].on => it'[x] = NoIterator
        BY <1>2, <2>3, <3>1 DEF OrderInv, Iterators
      <3>3. NoIterator' = NoIterator /\ Buckets' = Buckets
        BY DEF NoIterator, Buckets
      <3>4. QED BY <2>2, <3>2, <3>3 DEF Iterators
    <2>8. PointerIsLive'
      <3>1. it'[th].bucket \notin Buckets
        BY <1>3, <2>3
      <3>2. QED BY <2>2, <2>3, <2>4, <3>1 DEF OrderInv, PointerIsLive, Follows
    <2>9. SeenBehind'
      <3>1. ASSUME NEW x \in Threads, NEW e \in Entries
            PROVE  /\ it'[x].on /\ Behind(x, e)' => e.ver \in seen[x] \cup excused[x]
                   /\ e.ver \in seen[x] => Behind(x, e)'
        <4>1. CASE x = th
          <5>1. Behind(x, e)'
            BY <1>3, <1>6, <2>3, <4>1 DEF Behind
          <5>2. QED BY <1>1, <2>1, <4>1, <5>1 DEF OrderInv, SeenBehind
        <4>2. CASE x # th
          BY <2>3, <4>2 DEF OrderInv, SeenBehind, Behind
        <4>3. QED BY <4>1, <4>2
      <3>2. QED BY <1>1, <2>2, <2>4, <3>1 DEF SeenBehind
    <2>10. QED BY <1>5, <2>5, <2>6, <2>7, <2>8, <2>9 DEF OrderInv
  <1>8. CASE next.entry # {}
    <2>1. PICK e \in Entries :
            /\ next.entry = {e} /\ next.bucket = Hash[e.obj] /\ ~Behind(th, e)
            /\ \A d \in Entries : ~Behind(th, d) =>
                 Hash[e.obj] < Hash[d.obj] \/ (Hash[d.obj] = Hash[e.obj] /\ e.ver <= d.ver)
      BY <1>1, <1>8, NextIs
    <2>2. /\ seen' = [seen EXCEPT ![th] = @ \cup {e.ver}]
          /\ twice' = [twice EXCEPT ![th] = @ \/ e.ver \in seen[th]]
          /\ \/ /\ ~it[th].unlink
                /\ it' = [it EXCEPT ![th].bucket = Hash[e.obj], ![th].ver = e.ver,
                                    ![th].ptr = e.ver, ![th].cver = version]
                /\ UNCHANGED <<buckets, version, life>>
             \/ /\ it[th].unlink
                /\ RemoveEntries({e})
                /\ it' = [it EXCEPT ![th].bucket = Hash[e.obj], ![th].ver = 0,
                                    ![th].ptr = 0, ![th].cver = version']
      BY <1>8, <2>1 DEF IterNext, contVars
    <2>3. /\ seen' \in [Threads -> SUBSET Nat]
          /\ \A x \in Threads : seen'[x] = IF x = th THEN seen[x] \cup {e.ver} ELSE seen[x]
      <3>1. seen \in [Threads -> SUBSET Nat] /\ e.ver \in Nat
        BY <1>6 DEF OrderInv, OrderTypes
      <3>2. QED BY <2>2, <3>1
    <2>4. e.ver \notin seen[th]
      BY <2>1 DEF OrderInv, SeenBehind
    <2>5. NoneTwice' /\ twice' \in [Threads -> BOOLEAN]
      <3>1. twice \in [Threads -> BOOLEAN] /\ \A x \in Threads : twice[x] = FALSE
        BY DEF OrderInv, OrderTypes, NoneTwice
      <3>2. \A x \in Threads : twice'[x] = FALSE
        BY <2>2, <2>4, <3>1
      <3>3. twice' \in [Threads -> BOOLEAN]
        BY <2>2, <2>4, <3>1
      <3>4. QED BY <3>2, <3>3 DEF NoneTwice
    <2>6. /\ Entries' \subseteq Entries
          /\ \A d \in Entries' : d = e => ~it[th].unlink
          /\ buckets' \in [Buckets -> Seq(Entry)]
          /\ version' \in Nat \ {0} /\ version <= version' /\ life' = life
          /\ VersionsIncrease' /\ OneEntry'
          /\ version' = version => ~it[th].unlink /\ \A b \in Buckets : EntriesOf(b)' = EntriesOf(b)
      <3>1. CASE it[th].unlink
        <4>1. RemoveEntries({e}) /\ {e} \subseteq Entries
          BY <2>2, <3>1
        <4>2. /\ Entries' = Entries \ {e}
              /\ buckets' \in [Buckets -> Seq(Entry)]
              /\ VersionsIncrease' /\ OneEntry'
              /\ version' \in Nat \ {0} /\ version <= version'
              /\ life' = life
              /\ version < version'
          BY <4>1, RemovalLeaves
        <4>3. version' # version
          BY <1>2, <4>2
        <4>4. QED BY <4>2, <4>3
      <3>2. CASE ~it[th].unlink
        <4>1. UNCHANGED <<buckets, version, life>>
          BY <2>2, <3>2
        <4>2. Entries' = Entries /\ \A b : EntriesOf(b)' = EntriesOf(b)
          BY <4>1 DEF Entries, EntriesOf
        <4>3. version <= version
          BY <1>2
        <4>4. QED BY <1>2, <3>2, <4>1, <4>2, <4>3
                  DEF OrderInv, OrderTypes, VersionsIncrease, OneEntry
      <3>3. QED BY <3>1, <3>2
    <2>7. /\ it' \in [Threads -> ItType]
          /\ \A x \in Threads : x # th => it'[x] = it[x]
          /\ it'[th].bucket = Hash[e.obj] /\ it'[th].on /\ it'[th].unlink = it[th].unlink
          /\ it'[th].ver = (IF it[th].unlink THEN 0 ELSE e.ver)
          /\ it'[th].ptr = it'[th].ver /\ it'[th].cver = version'
      <3>1. Hash[e.obj] \in 1 .. N + 1 /\ e.ver \in Nat
        BY <1>3, <1>6
      <3>2. CASE it[th].unlink
        <4>1. it' = [it EXCEPT ![th].bucket = Hash[e.obj], ![th].ver = 0,
                                ![th].ptr = 0, ![th].cver = version']
          BY <2>2, <3>2
        <4>2. QED BY <1>1, <1>2, <2>6, <3>1, <3>2, <4>1
      <3>3. CASE ~it[th].unlink
        <4>1. /\ it' = [it EXCEPT ![th].bucket = Hash[e.obj], ![th].ver = e.ver,
                                  ![th].ptr = e.ver, ![th].cver = version]
              /\ version' = version
          BY <2>2, <3>3
        <4>2. QED BY <1>1, <1>2, <2>6, <3>1, <3>3, <4>1
      <3>4. QED BY <3>2, <3>3
    <2>8. OrderTypes'
      BY <1>1, <2>3, <2>5, <2>6, <2>7 DEF OrderInv, OrderTypes
    <2>9. Iterators'
      <3>1. \A x \in Threads : it[x].ver \in Nat /\ it[x].cver \in Nat /\ seen[x] \subseteq Nat
        BY DEF OrderInv, OrderTypes
      <3>2. ASSUME NEW x \in Threads
            PROVE  /\ it'[x].ver < version' /\ it'[x].cver <= version'
                   /\ \A v \in seen'[x] : v < version'
                   /\ it'[x].unlink => it'[x].ver = 0
                   /\ it'[x].bucket \in Buckets /\ it'[x].ptr # 0 => it'[x].ptr = it'[x].ver
                   /\ it'[x].on => life' = "pinned"
                   /\ ~it'[x].on => it'[x] = NoIterator
        <4>1. \A v \in seen'[x] : v < version'
          <5>1. \A v \in seen[x] : v \in Nat /\ v < version
            BY <3>1 DEF OrderInv, Iterators
          <5>2. e.ver \in Nat /\ e.ver < version
            BY <1>6
          <5>3. QED BY <1>2, <2>3, <2>6, <5>1, <5>2
        <4>2. CASE x = th
          <5>1. it'[x].ver < version'
            BY <1>2, <1>6, <2>6, <2>7, <4>2
          <5>2. it'[x].cver <= version'
            BY <2>6, <2>7, <4>2
          <5>3. QED BY <1>2, <2>6, <2>7, <4>1, <4>2, <5>1, <5>2
        <4>3. CASE x # th
          <5>1. it[x].ver < version' /\ it[x].cver <= version'
            BY <1>2, <2>6, <3>1 DEF OrderInv, Iterators
          <5>2. QED BY <2>6, <2>7, <4>1, <4>3, <5>1 DEF OrderInv, Iterators
        <4>4. QED BY <4>2, <4>3
      <3>3. NoIterator' = NoIterator /\ Buckets' = Buckets
        BY DEF NoIterator, Buckets
      <3>4. QED BY <3>2, <3>3 DEF Iterators
    <2>10. PointerIsLive'
      <3>1. SUFFICES ASSUME NEW x \in Threads, it'[x].on, it'[x].cver = version', it'[x].ptr # 0,
                            it'[x].bucket \in Buckets
                     PROVE  \E d \in EntriesOf(it[x].bucket)' : d.ver = it'[x].ptr
        <4>1. Buckets' = Buckets
          BY DEF Buckets
        <4>2. QED BY <4>1 DEF PointerIsLive, Follows
      <3>2. version' = version /\ ~it[th].unlink /\ \A b \in Buckets : EntriesOf(b)' = EntriesOf(b)
        <4>1. CASE x = th
          <5>1. ~it[th].unlink
            BY <2>7, <3>1, <4>1
          <5>2. QED BY <2>2, <2>6, <5>1
        <4>2. CASE x # th
          <5>1. it[x].cver <= version /\ it[x].cver = version' /\ it[x].cver \in Nat
            BY <2>7, <3>1, <4>2 DEF OrderInv, OrderTypes, Iterators
          <5>2. version' = version
            BY <1>2, <2>6, <5>1
          <5>3. QED BY <2>6, <5>2
        <4>3. QED BY <4>1, <4>2
      <3>3. CASE x = th
        <4>1. e \in EntriesOf(it'[x].bucket) /\ e.ver = it'[x].ptr
          BY <1>6, <2>7, <3>2, <3>3
        <4>2. PICK b \in Buckets : b = it'[x].bucket
          BY <3>1
        <4>3. EntriesOf(it[x].bucket)' = EntriesOf(b)'
          BY <4>2 DEF EntriesOf
        <4>4. QED BY <3>2, <4>1, <4>2, <4>3
      <3>4. CASE x # th
        <4>1. \E d \in EntriesOf(it[x].bucket) : d.ver = it[x].ptr
          BY <2>7, <3>1, <3>2, <3>4 DEF OrderInv, PointerIsLive, Follows
        <4>2. PICK b \in Buckets : b = it'[x].bucket /\ b = it[x].bucket /\ it'[x].ptr = it[x].ptr
          BY <2>7, <3>1, <3>4
        <4>3. EntriesOf(it[x].bucket)' = EntriesOf(b)'
          BY <4>2 DEF EntriesOf
        <4>4. QED BY <3>2, <4>1, <4>2, <4>3
      <3>5. QED BY <3>3, <3>4
    <2>11. SeenBehind'
      <3>1. ASSUME NEW x \in Threads, NEW d \in Entries'
            PROVE  /\ it'[x].on /\ Behind(x, d)' => d.ver \in seen'[x] \cup excused[x]
                   /\ d.ver \in seen'[x] => Behind(x, d)'
        <4>1. d \in Entries /\ Hash[d.obj] \in 1 .. N /\ d.ver \in Nat /\ 0 < d.ver
              /\ Hash[e.obj] \in 1 .. N /\ e.ver \in Nat /\ 0 < e.ver
          BY <1>6, <2>6
        <4>2. CASE x = th
          <5>1. Behind(x, d)' <=> \/ Hash[d.obj] < Hash[e.obj]
                                  \/ Hash[d.obj] = Hash[e.obj] /\ d.ver <= it'[th].ver
            BY <2>7, <4>2 DEF Behind
          <5>2. Behind(th, d) <=> \/ Hash[d.obj] < it[th].bucket
                                  \/ Hash[d.obj] = it[th].bucket /\ d.ver <= it[th].ver
            BY DEF Behind
          <5>3. /\ ~(Hash[e.obj] < it[th].bucket)
                /\ Hash[e.obj] = it[th].bucket => ~(e.ver <= it[th].ver)
            BY <2>1 DEF Behind
          <5>4. it[th].ver \in Nat /\ it[th].bucket \in 1 .. N
            BY <1>1, <1>2, <1>3
          <5>5. Behind(x, d)' /\ d # e => Behind(th, d)
            <6>1. SUFFICES ASSUME Behind(x, d)', d # e, ~Behind(th, d) PROVE FALSE
              OBVIOUS
            <6>2. Hash[e.obj] < Hash[d.obj] \/ (Hash[d.obj] = Hash[e.obj] /\ e.ver <= d.ver)
              BY <2>1, <4>1, <6>1
            <6>3. Hash[d.obj] = Hash[e.obj] /\ e.ver <= d.ver /\ d.ver <= it'[th].ver
              BY <4>1, <5>1, <6>1, <6>2
            <6>4. d.ver <= e.ver
              BY <2>7, <4>1, <6>3
            <6>5. d.ver = e.ver
              BY <4>1, <6>3, <6>4
            <6>6. QED BY <4>1, <6>1, <6>5 DEF OrderInv, OneEntry
          <5>6. it'[x].on /\ Behind(x, d)' => d.ver \in seen'[x] \cup excused[x]
            BY <1>1, <2>3, <4>1, <4>2, <5>5 DEF OrderInv, SeenBehind
          <5>7. d = e => Behind(x, d)'
            BY <2>6, <2>7, <4>1, <5>1
          <5>8. d # e /\ d.ver \in seen'[x] => Behind(th, d)
            <6>1. d # e => d.ver # e.ver
              BY <4>1 DEF OrderInv, OneEntry
            <6>2. QED BY <2>3, <4>1, <4>2, <6>1 DEF OrderInv, SeenBehind
          <5>9. d # e /\ Behind(th, d) => Behind(x, d)'
            <6>1. it[th].unlink => it[th].ver = 0
              BY DEF OrderInv, Iterators
            <6>2. CASE Hash[d.obj] = it[th].bucket /\ Hash[e.obj] = it[th].bucket
              BY <2>7, <4>1, <5>1, <5>2, <5>3, <5>4, <6>1, <6>2
            <6>3. CASE ~(Hash[d.obj] = it[th].bucket /\ Hash[e.obj] = it[th].bucket)
              BY <4>1, <5>1, <5>2, <5>3, <5>4, <6>3
            <6>4. QED BY <6>2, <6>3
          <5>10. QED BY <5>6, <5>7, <5>8, <5>9
        <4>3. CASE x # th
          BY <2>3, <2>7, <4>1, <4>3 DEF OrderInv, SeenBehind, Behind
        <4>4. QED BY <4>2, <4>3
      <3>2. QED BY <1>1, <3>1 DEF SeenBehind
    <2>12. QED BY <1>5, <2>5, <2>6, <2>8, <2>9, <2>10, <2>11 DEF OrderInv
  <1>9. QED BY <1>7, <1>8

\* Who destroys the container has it for himself: no link is under way, and no iterator was
\* ever made.
LEMMA DestroyKeeps ==
  ASSUME OrderInv, DestroyContainer
  PROVE  OrderInv'
  <1>1. /\ life = "fresh" /\ life' = "gone" /\ \A x \in Threads : pc[x] = "idle" /\ ~it[x].on
        /\ buckets' = [b \in Buckets |-> <<>>]
        /\ UNCHANGED <<version, owner, pc, arg, ver, it, seen, twice, excused>>
    BY DEF DestroyContainer, OrderInv, Iterators, linkVars, iterVars, histVars
  <1>2. \A b \in Buckets : buckets'[b] = <<>> /\ DOMAIN buckets'[b] = {} /\ EntriesOf(b)' = {}
    BY <1>1 DEF EntriesOf, ToSet
  <1>3. Entries' = {}
    BY <1>2 DEF Entries
  <1>4. OrderTypes'
    BY <1>1 DEF OrderInv, OrderTypes
  <1>5. LinkersLock' /\ Newest' /\ NoneTwice' /\ OneEntry' /\ SeenBehind'
    BY <1>1, <1>3 DEF OrderInv, LinkersLock, Newest, NoneTwice, OneEntry, SeenBehind
  <1>6. VersionsIncrease' /\ PointerIsLive'
    BY <1>1, <1>2 DEF VersionsIncrease, PointerIsLive
  <1>7. Iterators'
    BY <1>1 DEF OrderInv, Iterators
  <1>8. QED BY <1>4, <1>5, <1>6, <1>7 DEF OrderInv

LEMMA InitOrder ==
  ASSUME Init
  PROVE  OrderInv
  <1>1. NoIterator \in [on : BOOLEAN, unlink : BOOLEAN, bucket : 1 .. N + 1,
                        ver : Nat, cver : Nat, ptr : Nat]
        /\ NoIterator.ver = 0 /\ NoIterator.cver = 0 /\ NoIterator.ptr = 0
        /\ ~NoIterator.on /\ ~NoIterator.unlink
    <2>1. N + 1 \in Nat /\ 1 <= N + 1
      BY ConstantsAssumption
    <2>2. QED BY <2>1 DEF NoIterator
  <1>2. \A b \in Buckets : buckets[b] = <<>> /\ DOMAIN buckets[b] = {} /\ EntriesOf(b) = {}
    BY DEF Init, EntriesOf, ToSet
  <1>3. Entries = {}
    BY <1>2 DEF Entries
  <1>4. OrderTypes
    BY <1>1 DEF Init, OrderTypes
  <1>5. LinkersLock /\ Newest /\ NoneTwice /\ OneEntry /\ SeenBehind
    BY <1>3 DEF Init, LinkersLock, Newest, NoneTwice, OneEntry, SeenBehind
  <1>6. VersionsIncrease /\ PointerIsLive
    BY <1>1, <1>2 DEF Init, VersionsIncrease, PointerIsLive, Follows
  <1>7. Iterators
    BY <1>1 DEF Init, Iterators
  <1>8. QED BY <1>4, <1>5, <1>6, <1>7 DEF OrderInv

LEMMA StepOrder ==
  ASSUME OrderInv, CallerLocks, [Next]_vars
  PROVE  OrderInv'
  <1>1. CASE DestroyContainer
    BY <1>1, DestroyKeeps
  <1>2. ASSUME NEW th \in Threads, Link(th) \/ MultiDestroy(th) \/ \E o \in Objects : LinkCall(th, o)
        PROVE  OrderInv'
    BY <1>2, LinkStepsKeep, LinkInsertKeeps DEF Link
  <1>3. ASSUME NEW th \in Threads, IterNext(th)
        PROVE  OrderInv'
    BY <1>3, IterNextKeeps
  <1>4. ASSUME NEW th \in Threads, (\E unlink \in BOOLEAN : IterInit(th, unlink)) \/ IterDestroy(th)
        PROVE  OrderInv'
    BY <1>4, IterEndsKeep
  <1>5. ASSUME NEW th \in Threads,
               \/ \E o \in Objects : Unlink(th, o) \/ FindUnlink(th, o)
               \/ \E M \in Matches : RemoveAll(th, M) \/ TakeAll(th, M)
        PROVE  OrderInv'
    BY <1>5, CallbacksKeep
  <1>6. ASSUME NEW th \in Threads,
               \/ MultiNext(th) \/ CurUnref(th)
               \/ \E o \in Objects : Alloc(th, o) \/ Unref(th, o) \/ Find(th, o)
               \/ \E M \in Matches : CollectAll(th, M)
        PROVE  OrderInv'
    <2>1. UNCHANGED <<buckets, version, life, owner, linkVars, it, histVars>>
      BY <1>6 DEF MultiNext, CurUnref, Alloc, Unref, Find, CollectAll, contVars, iterVars
    <2>2. QED BY <2>1, OthersKeep
  <1>7. CASE UNCHANGED vars
    <2>1. UNCHANGED <<buckets, version, life, owner, linkVars, it, histVars>>
      BY <1>7 DEF vars, contVars, iterVars
    <2>2. QED BY <2>1, OthersKeep
  <1>8. QED BY <1>1, <1>2, <1>3, <1>4, <1>5, <1>6, <1>7 DEF Next

LEMMA Order ==
  ASSUME CallerLocks
  PROVE  Spec => []OrderInv
  <1>1. Init => OrderInv
    BY InitOrder
  <1>2. OrderInv /\ [Next]_vars => OrderInv'
    BY StepOrder
  <1>3. QED BY <1>1, <1>2, PTL DEF Spec

----------------------------------------------------------------------------
(* What a traversal of all buckets finds.                                  *)

\* It finds every match, once.
LEMMA FoundIs ==
  ASSUME OrderInv, NEW M
  PROVE  /\ Found(M) \in Seq(Entry)
         /\ \A e : (\E i \in 1 .. Len(Found(M)) : Found(M)[i] = e) <=> e \in MatchesOf(M)
         /\ \A i, j \in 1 .. Len(Found(M)) : Found(M)[i] = Found(M)[j] => i = j
  <1> DEFINE S == Entries \ MatchesOf(M)
             g == [b \in 1 .. N |-> Without(buckets[b], S)]
             Upto(f) == f = [b \in 0 .. N |->
                          IF b = 0 THEN <<>> ELSE f[b - 1] \o Without(buckets[b], S)]
             upto == CHOOSE f : Upto(f)
  <1>1. N \in Nat /\ Buckets = 1 .. N
    BY ConstantsAssumption DEF Buckets
  <1>2. \A f : Upto(f) <=> Joins(f, g, N)
    <2>1. \A b \in 0 .. N : b # 0 => g[b] = Without(buckets[b], S)
      BY <1>1
    <2>2. \A f : [b \in 0 .. N |-> IF b = 0 THEN <<>> ELSE f[b - 1] \o Without(buckets[b], S)]
                   = [b \in 0 .. N |-> IF b = 0 THEN <<>> ELSE f[b - 1] \o g[b]]
      BY <2>1
    <2> HIDE DEF g, S
    <2>3. QED BY <2>2 DEF Joins
  <1>3. Joins(upto, g, N)
    <2>1. \E f : Upto(f)
      BY <1>1, <1>2, JoiningEnds
    <2> HIDE DEF g, S, Upto
    <2>2. Upto(upto)
      BY <2>1
    <2> HIDE DEF upto
    <2>3. QED BY <1>2, <2>2
  <1>4. Found(M) = upto[N]
    BY DEF Found
  <1>5. ASSUME NEW b \in 1 .. N
        PROVE  /\ g[b] \in Seq(Entry)
               /\ \A e : (\E i \in 1 .. Len(g[b]) : g[b][i] = e) <=> e \in EntriesOf(b) /\ e \in MatchesOf(M)
               /\ \A i, j \in 1 .. Len(g[b]) : g[b][i] = g[b][j] => i = j
    <2>1. b \in Buckets
      BY <1>1
    <2>2. g[b] = Without(buckets[b], S)
      OBVIOUS
    <2>3. /\ buckets[b] \in Seq(Entry)
          /\ \A i, j \in 1 .. Len(buckets[b]) : i < j => buckets[b][i].ver < buckets[b][j].ver
          /\ \A e \in EntriesOf(b) : e \in Entries
      BY <2>1, InBucket
    <2> HIDE DEF g, S
    <2>4. /\ g[b] \in Seq(Entry)
          /\ ToSet(g[b]) = EntriesOf(b) \ S
          /\ \A i, j \in 1 .. Len(g[b]) : i < j => g[b][i].ver < g[b][j].ver
      BY <2>2, <2>3, WithoutIs DEF EntriesOf
    <2>5. \A e : (\E i \in 1 .. Len(g[b]) : g[b][i] = e) <=> e \in EntriesOf(b) \ S
      <3>1. DOMAIN g[b] = 1 .. Len(g[b])
        BY <2>4
      <3>2. \A e : e \in ToSet(g[b]) <=> \E i \in 1 .. Len(g[b]) : g[b][i] = e
        BY <3>1 DEF ToSet
      <3>3. QED BY <2>4, <3>2
    <2>6. ASSUME NEW i \in 1 .. Len(g[b]), NEW j \in 1 .. Len(g[b]), g[b][i] = g[b][j]
          PROVE  i = j
      <3>1. g[b][i] \in Entry /\ Len(g[b]) \in Nat
        BY <2>4
      <3>2. g[b][i].ver \in Nat /\ ~(g[b][i].ver < g[b][i].ver)
        BY <3>1 DEF Entry
      <3>3. ~(i < j) /\ ~(j < i)
        BY <2>4, <2>6, <3>2
      <3>4. QED BY <3>1, <3>3
    <2>7. QED BY <2>3, <2>4, <2>5, <2>6 DEF S
  <1>6. ASSUME NEW k \in 1 .. N, NEW l \in 1 .. N,
               NEW i \in 1 .. Len(g[k]), NEW j \in 1 .. Len(g[l]), g[k][i] = g[l][j]
        PROVE  k = l /\ i = j
    <2> HIDE DEF g, S
    <2>1. g[k][i] \in EntriesOf(k) /\ g[k][i] \in EntriesOf(l)
      BY <1>5, <1>6
    <2>2. Hash[g[k][i].obj] = k /\ Hash[g[k][i].obj] = l
      BY <1>1, <2>1, InBucket
    <2>3. QED BY <1>5, <1>6, <2>2
  <1> HIDE DEF g, S, upto
  <1>7. /\ upto[N] \in Seq(Entry)
        /\ \A e : (\E i \in 1 .. Len(upto[N]) : upto[N][i] = e)
                    <=> \E k \in 1 .. N : \E j \in 1 .. Len(g[k]) : g[k][j] = e
        /\ \A i, j \in 1 .. Len(upto[N]) : upto[N][i] = upto[N][j] => i = j
    <2>1. \A k \in 1 .. N : g[k] \in Seq(Entry)
      BY <1>5
    <2>2. Apart(g, N)
      BY <1>6 DEF Apart
    <2>3. QED BY <1>1, <1>3, <2>1, <2>2, JoinedIs
  <1>8. \A e : (\E k \in 1 .. N : \E j \in 1 .. Len(g[k]) : g[k][j] = e) <=> e \in MatchesOf(M)
    <2>1. \A e : (\E k \in 1 .. N : \E j \in 1 .. Len(g[k]) : g[k][j] = e)
                   <=> \E k \in 1 .. N : e \in EntriesOf(k) /\ e \in MatchesOf(M)
      BY <1>5
    <2>2. \A e : e \in MatchesOf(M) => \E k \in 1 .. N : e \in EntriesOf(k)
      BY <1>1, EntriesAre DEF MatchesOf
    <2>3. QED BY <2>1, <2>2
  <1>9. QED BY <1>4, <1>7, <1>8

\* And so as many of an object as there are.
LEMMA FoundCounts ==
  ASSUME OrderInv, NEW M, NEW o
  PROVE  Cardinality({i \in 1 .. Len(Found(M)) : Found(M)[i].obj = o})
           = Cardinality({e \in MatchesOf(M) : e.obj = o})
  <1> DEFINE s == Found(M)
             A == {i \in 1 .. Len(s) : s[i].obj = o}
             B == {e \in MatchesOf(M) : e.obj = o}
             f == [i \in A |-> s[i]]
  <1>1. /\ s \in Seq(Entry) /\ Len(s) \in Nat
        /\ \A e : (\E i \in 1 .. Len(s) : s[i] = e) <=> e \in MatchesOf(M)
        /\ \A i, j \in 1 .. Len(s) : s[i] = s[j] => i = j
    BY FoundIs
  <1>2. IsFiniteSet(A)
    <2>1. IsFiniteSet(1 .. Len(s))
      BY <1>1, FS_Interval
    <2>2. QED BY <2>1, FS_Subset
  <1>3. f \in Bijection(A, B)
    <2> HIDE DEF s
    <2>1. \A i \in A : f[i] \in B
      BY <1>1
    <2>2. \A e \in B : \E i \in A : f[i] = e
      BY <1>1
    <2>3. \A i, j \in A : f[i] = f[j] => i = j
      BY <1>1
    <2>4. f \in [A -> B]
      BY <2>1
    <2> HIDE DEF f, A, B
    <2>5. QED BY <2>2, <2>3, <2>4 DEF Bijection, Injection, Surjection, IsInjective
  <1>4. ExistsBijection(A, B)
    BY <1>3 DEF ExistsBijection
  <1>5. QED BY <1>2, <1>4, FS_Bijection

----------------------------------------------------------------------------
(* Places of results.                                                      *)

Result == Seq(Objects) \cup {Nil}
At(s, o) == IF s = Nil THEN {} ELSE {i \in DOMAIN s : s[i] = o}
PlacesIn(m, o) == UNION {{th} \X At(m[th], o) : th \in Threads}

LEMMA PlacesAre ==
  ASSUME NEW o
  PROVE  Places(o) = PlacesIn(multi, o) /\ Places(o)' = PlacesIn(multi', o)
  BY DEF Places, PlacesOf, PlacesIn, At

LEMMA PlacesFinite ==
  ASSUME NEW s \in Result, NEW o
  PROVE  IsFiniteSet(At(s, o)) /\ Cardinality(At(s, o)) \in Nat
  <1>1. CASE s = Nil
    BY <1>1, FS_EmptySet DEF At
  <1>2. CASE s # Nil
    <2>1. s \in Seq(Objects)
      BY <1>2 DEF Result
    <2>2. IsFiniteSet(DOMAIN s)
      BY <2>1, FS_Interval
    <2>3. At(s, o) \subseteq DOMAIN s
      BY <1>2 DEF At
    <2>4. QED BY <2>2, <2>3, FS_Subset, FS_CardinalityType
  <1>3. QED BY <1>1, <1>2

LEMMA ProductWithOne ==
  ASSUME NEW x, NEW S, IsFiniteSet(S)
  PROVE  IsFiniteSet({x} \X S) /\ Cardinality({x} \X S) = Cardinality(S)
  <1>1. IsFiniteSet({x}) /\ Cardinality({x}) = 1
    BY FS_Singleton
  <1>2. Cardinality(S) \in Nat
    BY FS_CardinalityType
  <1>3. Cardinality({x}) * Cardinality(S) = Cardinality(S)
    BY <1>1, <1>2
  <1>4. QED BY <1>1, <1>3, FS_Product

\* Results are finite, and what changes is counted where it changes.
LEMMA PlacesCounted ==
  ASSUME NEW m \in [Threads -> Result], NEW o
  PROVE  /\ IsFiniteSet(PlacesIn(m, o))
         /\ Cardinality(PlacesIn(m, o)) \in Nat
  <1> DEFINE T == {{th} \X At(m[th], o) : th \in Threads}
  <1>1. \A th \in Threads : IsFiniteSet({th} \X At(m[th], o))
    BY PlacesFinite, ProductWithOne
  <1>2. IsFiniteSet(T)
    <2> DEFINE f == [th \in Threads |-> {th} \X At(m[th], o)]
    <2>1. IsFiniteSet(Threads)
      BY ConstantsAssumption
    <2>2. f \in Surjection(Threads, T)
      BY DEF Surjection
    <2>3. QED BY <2>1, <2>2, FS_Surjection
  <1>3. \A t \in T : IsFiniteSet(t)
    BY <1>1
  <1>4. IsFiniteSet(UNION T)
    BY <1>2, <1>3, FS_UNION
  <1>5. QED BY <1>4, FS_CardinalityType DEF PlacesIn

LEMMA PlacesChange ==
  ASSUME NEW m \in [Threads -> Result], NEW n \in [Threads -> Result], NEW th \in Threads,
         \A x \in Threads : x # th => n[x] = m[x], NEW o
  PROVE  Cardinality(PlacesIn(n, o)) + Cardinality(At(m[th], o))
           = Cardinality(PlacesIn(m, o)) + Cardinality(At(n[th], o))
  <1> DEFINE R == UNION {{x} \X At(m[x], o) : x \in Threads \ {th}}
             A == {th} \X At(m[th], o)
             B == {th} \X At(n[th], o)
  <1>1. PlacesIn(m, o) = R \cup A
    BY DEF PlacesIn
  <1>2. PlacesIn(n, o) = R \cup B
    <2>1. \A x \in Threads \ {th} : {x} \X At(m[x], o) = {x} \X At(n[x], o)
      OBVIOUS
    <2>2. {{x} \X At(m[x], o) : x \in Threads \ {th}} = {{x} \X At(n[x], o) : x \in Threads \ {th}}
      BY <2>1
    <2>3. R = UNION {{x} \X At(n[x], o) : x \in Threads \ {th}}
      BY <2>2
    <2> HIDE DEF R
    <2>4. QED BY <2>3 DEF PlacesIn
  <1>3. R \cap A = {} /\ R \cap B = {}
    <2>1. \A p \in R : p[1] # th
      OBVIOUS
    <2>2. \A p \in A \cup B : p[1] = th
      OBVIOUS
    <2>3. QED BY <2>1, <2>2
  <1>4. IsFiniteSet(R)
    BY <1>1, PlacesCounted, FS_Subset
  <1>5. /\ IsFiniteSet(A) /\ Cardinality(A) = Cardinality(At(m[th], o))
        /\ IsFiniteSet(B) /\ Cardinality(B) = Cardinality(At(n[th], o))
    BY PlacesFinite, ProductWithOne
  <1> HIDE DEF R, A, B
  <1>6. Cardinality({}) = 0
    BY FS_EmptySet
  <1>7. /\ Cardinality(R \cup A) = Cardinality(R) + Cardinality(A) - Cardinality({})
        /\ Cardinality(R \cup B) = Cardinality(R) + Cardinality(B) - Cardinality({})
    BY <1>3, <1>4, <1>5, FS_Union
  <1>8. Cardinality(R) \in Nat /\ Cardinality(A) \in Nat /\ Cardinality(B) \in Nat
    BY <1>4, <1>5, FS_CardinalityType
  <1>9. QED BY <1>1, <1>2, <1>5, <1>6, <1>7, <1>8

\* The rest of a result has its head less.
LEMMA TailCounted ==
  ASSUME NEW s \in Seq(Objects), s # <<>>, NEW o
  PROVE  /\ Tail(s) \in Result /\ Head(s) \in Objects
         /\ Cardinality(At(s, o))
              = Cardinality(At(Tail(s), o)) + (IF Head(s) = o THEN 1 ELSE 0)
  <1> DEFINE A == {i \in 1 .. Len(s) : s[i] = o}
             B == {i \in 1 .. Len(Tail(s)) : Tail(s)[i] = o}
             f == [i \in B |-> i + 1]
  <1>1. /\ Tail(s) \in Seq(Objects) /\ Len(Tail(s)) = Len(s) - 1 /\ Len(s) \in Nat
        /\ Head(s) = s[1] /\ Head(s) \in Objects /\ Len(s) # 0
        /\ \A i \in 1 .. Len(s) - 1 : Tail(s)[i] = s[i + 1]
    OBVIOUS
  <1>2. s # Nil /\ Tail(s) # Nil
    BY <1>1, ConstantsAssumption
  <1>3. At(s, o) = A /\ At(Tail(s), o) = B
    <2>1. DOMAIN s = 1 .. Len(s) /\ DOMAIN Tail(s) = 1 .. Len(Tail(s))
      BY <1>1
    <2>2. QED BY <1>2, <2>1 DEF At
  <1>4. IsFiniteSet(A) /\ IsFiniteSet(B)
    <2>1. IsFiniteSet(1 .. Len(s)) /\ IsFiniteSet(1 .. Len(Tail(s)))
      BY <1>1, FS_Interval
    <2>2. QED BY <2>1, FS_Subset
  <1>5. f \in Bijection(B, A \ {1})
    <2>1. \A i \in B : f[i] \in A \ {1}
      BY <1>1
    <2>2. \A j \in A \ {1} : j - 1 \in B /\ f[j - 1] = j
      BY <1>1
    <2>3. \A i, j \in B : f[i] = f[j] => i = j
      BY <1>1
    <2>4. f \in [B -> A \ {1}]
      BY <2>1
    <2> HIDE DEF f, A, B
    <2>5. QED BY <2>2, <2>3, <2>4 DEF Bijection, Injection, Surjection, IsInjective
  <1>6. Cardinality(A \ {1}) = Cardinality(B)
    <2>1. ExistsBijection(B, A \ {1})
      BY <1>5 DEF ExistsBijection
    <2> HIDE DEF f, A, B
    <2>2. QED BY <1>4, <2>1, FS_Bijection
  <1>7. 1 \in A <=> Head(s) = o
    BY <1>1
  <1> HIDE DEF A, B, f
  <1>8. Cardinality(A \ {1}) = (IF 1 \in A THEN Cardinality(A) - 1 ELSE Cardinality(A))
    BY <1>4, FS_RemoveElement
  <1>9. Cardinality(A) \in Nat /\ Cardinality(B) \in Nat
    BY <1>4, FS_CardinalityType
  <1>10. QED BY <1>1, <1>3, <1>6, <1>7, <1>8, <1>9 DEF Result

----------------------------------------------------------------------------
(* The invariant of the references.                                        *)

RefTypes ==
  /\ elements \in Nat
  /\ life \in {"fresh", "pinned", "gone"}
  /\ owner \in Threads \cup {Nil}
  /\ refs \in [Objects -> Nat]
  /\ freed \subseteq Objects
  /\ held \in [Threads -> SUBSET Objects]
  /\ cur \in [Threads -> Objects \cup {Nil}]
  /\ multi \in [Threads -> Result]

\* Who links an object holds it.
ArgsAreHeld ==
  \A th \in Threads :
    arg[th] # Nil => pc[th] \in {"version", "insert", "ref"} /\ arg[th] \in held[th]

\* A link that has not come to its reference has put its entry there.
LinkedIsThere == \A th \in Threads : pc[th] = "ref" => EntriesFor(arg[th]) # {}

FreedAreDead == \A o \in freed : refs[o] = 0

RefInv ==
  /\ RefTypes
  /\ ElementsCounted
  /\ \A o \in Objects : References(o)
  /\ ArgsAreHeld
  /\ LinkedIsThere
  /\ FreedAreDead

----------------------------------------------------------------------------
(* Counting.                                                               *)

LEMMA Threads1 ==
  ASSUME NEW S, S \subseteq Threads
  PROVE  IsFiniteSet(S) /\ Cardinality(S) \in Nat
  BY ConstantsAssumption, FS_Subset, FS_CardinalityType

\* Everything counted is finite.
LEMMA Counted ==
  ASSUME OrderInv, RefTypes, NEW o
  PROVE  /\ IsFiniteSet(Holders(o)) /\ Cardinality(Holders(o)) \in Nat
         /\ IsFiniteSet(Standing(o)) /\ Cardinality(Standing(o)) \in Nat
         /\ IsFiniteSet(Linking(o)) /\ Cardinality(Linking(o)) \in Nat
         /\ IsFiniteSet(Places(o)) /\ Cardinality(Places(o)) \in Nat
         /\ IsFiniteSet(EntriesFor(o)) /\ Cardinality(EntriesFor(o)) \in Nat
  <1>1. Holders(o) \subseteq Threads /\ Standing(o) \subseteq Threads /\ Linking(o) \subseteq Threads
    BY DEF Holders, Standing, Linking
  <1>2. IsFiniteSet(EntriesFor(o))
    <2>1. EntriesFor(o) \subseteq Entries
      BY DEF EntriesFor
    <2>2. QED BY <2>1, EntriesFinite, FS_Subset
  <1>3. IsFiniteSet(Places(o)) /\ Cardinality(Places(o)) \in Nat
    BY PlacesAre, PlacesCounted DEF RefTypes
  <1>4. QED BY <1>1, <1>2, <1>3, Threads1, FS_CardinalityType

\* Nobody links while the lock is free; and one thread at a time.
LEMMA LinkersAre ==
  ASSUME OrderInv
  PROVE  /\ owner = Nil => \A th \in Threads : pc[th] \notin {"version", "insert", "ref"}
         /\ owner = Nil => \A o : Linking(o) = {}
  <1>1. \A th \in Threads : th # Nil
    BY ConstantsAssumption
  <1>2. QED BY <1>1 DEF OrderInv, LinkersLock, Linking

\* One entry makes up for a link that has not come to its reference: a count is no less than
\* zero.
LEMMA CountsAreNatural ==
  ASSUME OrderInv', LinkedIsThere', IsFiniteSet(Entries'), multi' \in [Threads -> Result],
         refs' \in [Objects -> Int], \A o \in Objects : References(o)'
  PROVE  refs' \in [Objects -> Nat]
  <1>1. SUFFICES ASSUME NEW o \in Objects PROVE refs'[o] \in Nat
    OBVIOUS
  <1>2. IsFiniteSet(Linking(o)') /\ Cardinality(Linking(o)') \in Nat
    <2>1. Linking(o)' \subseteq Threads
      BY DEF Linking
    <2>2. QED BY <2>1, Threads1
  <1>3. IsFiniteSet(EntriesFor(o)') /\ Cardinality(EntriesFor(o)') \in Nat
    <2>1. EntriesFor(o)' \subseteq Entries'
      BY DEF EntriesFor
    <2>2. QED BY <2>1, FS_Subset, FS_CardinalityType
  <1>4. Cardinality(Holders(o)') \in Nat /\ Cardinality(Standing(o)') \in Nat
    <2>1. Holders(o)' \subseteq Threads /\ Standing(o)' \subseteq Threads
      BY DEF Holders, Standing
    <2>2. QED BY <2>1, Threads1
  <1>5. Cardinality(Places(o)') \in Nat
    BY PlacesAre, PlacesCounted
  <1>6. Cardinality(Linking(o)') <= Cardinality(EntriesFor(o)')
    <2>1. CASE Linking(o)' = {}
      <3>1. Cardinality(Linking(o)') = 0
        BY <2>1, FS_EmptySet
      <3>2. QED BY <1>3, <3>1
    <2>2. CASE Linking(o)' # {}
      <3>1. \A th \in Linking(o)' : th = owner' /\ EntriesFor(o)' # {}
        BY DEF Linking, OrderInv, LinkersLock, LinkedIsThere
      <3>2. Linking(o)' = {owner'} /\ EntriesFor(o)' # {}
        BY <2>2, <3>1
      <3>3. Cardinality(Linking(o)') = 1
        BY <3>2, FS_Singleton
      <3>4. Cardinality(EntriesFor(o)') # 0
        BY <1>3, <3>2, FS_EmptySet
      <3>5. QED BY <1>3, <3>3, <3>4
    <2>3. QED BY <2>1, <2>2
  <1>7. References(o)'
    OBVIOUS
  <1>8. refs'[o] + Cardinality(Linking(o)')
          = Cardinality(Holders(o)') + Cardinality(Standing(o)') + Cardinality(Places(o)')
            + Cardinality(EntriesFor(o)')
    BY <1>7 DEF References
  <1>9. refs'[o] \in Int
    OBVIOUS
  <1>10. QED BY <1>2, <1>3, <1>4, <1>5, <1>6, <1>8, <1>9

\* Nothing leads to an object without references.
LEMMA DeadIsAway ==
  ASSUME OrderInv, RefInv, NEW o \in Objects, refs[o] = 0
  PROVE  /\ Holders(o) = {} /\ Standing(o) = {} /\ Places(o) = {} /\ EntriesFor(o) = {}
         /\ \A th \in Threads : o \notin held[th] /\ cur[th] # o /\ arg[th] # o
  <1>1. /\ refs[o] + Cardinality(Linking(o))
             = Cardinality(Holders(o)) + Cardinality(Standing(o)) + Cardinality(Places(o))
               + Cardinality(EntriesFor(o))
        /\ RefTypes /\ ArgsAreHeld /\ LinkedIsThere
    BY DEF RefInv, References
  <1>2. /\ IsFiniteSet(Holders(o)) /\ Cardinality(Holders(o)) \in Nat
        /\ IsFiniteSet(Standing(o)) /\ Cardinality(Standing(o)) \in Nat
        /\ IsFiniteSet(Linking(o)) /\ Cardinality(Linking(o)) \in Nat
        /\ IsFiniteSet(Places(o)) /\ Cardinality(Places(o)) \in Nat
        /\ IsFiniteSet(EntriesFor(o)) /\ Cardinality(EntriesFor(o)) \in Nat
    BY <1>1, Counted
  <1>3. Linking(o) = {}
    <2>1. SUFFICES ASSUME Linking(o) # {} PROVE FALSE
      OBVIOUS
    <2>2. PICK th \in Threads : th \in Linking(o)
      BY <2>1 DEF Linking
    <2>3. pc[th] = "ref" /\ arg[th] = o /\ o # Nil
      BY <2>2, ConstantsAssumption DEF Linking
    <2>4. th \in Holders(o) /\ EntriesFor(o) # {}
      BY <1>1, <2>3 DEF ArgsAreHeld, LinkedIsThere, Holders
    <2>5. Cardinality(Holders(o)) # 0 /\ Cardinality(EntriesFor(o)) # 0
      BY <1>2, <2>4, FS_EmptySet
    <2>6. \A x \in Linking(o) : x = owner
      BY DEF Linking, OrderInv, LinkersLock
    <2>7. Linking(o) = {owner}
      BY <2>1, <2>6
    <2>8. Cardinality(Linking(o)) = 1
      BY <2>7, FS_Singleton
    <2>9. QED BY <1>1, <1>2, <2>5, <2>8
  <1>4. Cardinality(Linking(o)) = 0
    BY <1>3, FS_EmptySet
  <1>5. /\ Cardinality(Holders(o)) = 0 /\ Cardinality(Standing(o)) = 0
        /\ Cardinality(Places(o)) = 0 /\ Cardinality(EntriesFor(o)) = 0
    BY <1>1, <1>2, <1>4
  <1>6. Holders(o) = {} /\ Standing(o) = {} /\ Places(o) = {} /\ EntriesFor(o) = {}
    BY <1>2, <1>5, FS_EmptySet
  <1>7. \A th \in Threads : o \notin held[th] /\ cur[th] # o
    BY <1>6 DEF Holders, Standing
  <1>8. \A th \in Threads : arg[th] # o
    BY <1>1, <1>7, ConstantsAssumption DEF ArgsAreHeld
  <1>9. QED BY <1>6, <1>7, <1>8

----------------------------------------------------------------------------
(* One more, one less.                                                     *)

LEMMA OneIs ==
  ASSUME NEW o \in Objects, NEW k \in Int
  PROVE  /\ One(o, k) \in [Objects -> Int]
         /\ One(o, k)[o] = k
         /\ \A x \in Objects : x # o => One(o, k)[x] = 0
  BY DEF One

LEMMA HolderJoins ==
  ASSUME RefTypes, NEW th \in Threads, NEW o \in Objects, o \notin held[th],
         held' = [held EXCEPT ![th] = @ \cup {o}], NEW x \in Objects
  PROVE  Cardinality(Holders(x)') = Cardinality(Holders(x)) + One(o, 1)[x]
  <1>1. held \in [Threads -> SUBSET Objects]
    BY DEF RefTypes
  <1>2. CASE x = o
    <2>1. Holders(x)' = Holders(x) \cup {th} /\ th \notin Holders(x)
      BY <1>1, <1>2 DEF Holders
    <2>2. IsFiniteSet(Holders(x))
      BY Threads1 DEF Holders
    <2>3. Cardinality(Holders(x) \cup {th}) = Cardinality(Holders(x)) + 1
      BY <2>1, <2>2, FS_AddElement
    <2>4. QED BY <1>2, <2>1, <2>3, OneIs
  <1>3. CASE x # o
    <2>1. Holders(x)' = Holders(x)
      BY <1>1, <1>3 DEF Holders
    <2>2. Cardinality(Holders(x)) \in Nat
      BY Threads1 DEF Holders
    <2>3. QED BY <1>3, <2>1, <2>2, OneIs
  <1>4. QED BY <1>2, <1>3

LEMMA HolderLeaves ==
  ASSUME RefTypes, NEW th \in Threads, NEW o \in Objects, o \in held[th],
         held' = [held EXCEPT ![th] = @ \ {o}], NEW x \in Objects
  PROVE  Cardinality(Holders(x)') = Cardinality(Holders(x)) + One(o, -1)[x]
  <1>1. held \in [Threads -> SUBSET Objects]
    BY DEF RefTypes
  <1>2. Cardinality(Holders(x)) \in Nat /\ IsFiniteSet(Holders(x))
    BY Threads1 DEF Holders
  <1>3. CASE x = o
    <2>1. Holders(x)' = Holders(x) \ {th} /\ th \in Holders(x)
      BY <1>1, <1>3 DEF Holders
    <2>2. Cardinality(Holders(x) \ {th}) = Cardinality(Holders(x)) - 1
      BY <1>2, <2>1, FS_RemoveElement
    <2>3. QED BY <1>2, <1>3, <2>1, <2>2, OneIs
  <1>4. CASE x # o
    <2>1. Holders(x)' = Holders(x)
      BY <1>1, <1>4 DEF Holders
    <2>2. QED BY <1>2, <1>4, <2>1, OneIs
  <1>5. QED BY <1>3, <1>4

LEMMA IteratorStands ==
  ASSUME RefTypes, NEW th \in Threads, NEW o \in Objects, cur[th] = Nil,
         cur' = [cur EXCEPT ![th] = o], NEW x \in Objects
  PROVE  Cardinality(Standing(x)') = Cardinality(Standing(x)) + One(o, 1)[x]
  <1>1. cur \in [Threads -> Objects \cup {Nil}] /\ x # Nil
    BY ConstantsAssumption DEF RefTypes
  <1>2. Cardinality(Standing(x)) \in Nat /\ IsFiniteSet(Standing(x))
    BY Threads1 DEF Standing
  <1>3. CASE x = o
    <2>1. Standing(x)' = Standing(x) \cup {th} /\ th \notin Standing(x)
      BY <1>1, <1>3 DEF Standing
    <2>2. Cardinality(Standing(x) \cup {th}) = Cardinality(Standing(x)) + 1
      BY <1>2, <2>1, FS_AddElement
    <2>3. QED BY <1>3, <2>1, <2>2, OneIs
  <1>4. CASE x # o
    <2>1. Standing(x)' = Standing(x)
      BY <1>1, <1>4 DEF Standing
    <2>2. QED BY <1>2, <1>4, <2>1, OneIs
  <1>5. QED BY <1>3, <1>4

LEMMA IteratorLeaves ==
  ASSUME RefTypes, NEW th \in Threads, NEW o \in Objects, cur[th] = o,
         cur' = [cur EXCEPT ![th] = Nil], NEW x \in Objects
  PROVE  Cardinality(Standing(x)') = Cardinality(Standing(x)) + One(o, -1)[x]
  <1>1. cur \in [Threads -> Objects \cup {Nil}] /\ x # Nil
    BY ConstantsAssumption DEF RefTypes
  <1>2. Cardinality(Standing(x)) \in Nat /\ IsFiniteSet(Standing(x))
    BY Threads1 DEF Standing
  <1>3. CASE x = o
    <2>1. Standing(x)' = Standing(x) \ {th} /\ th \in Standing(x)
      BY <1>1, <1>3 DEF Standing
    <2>2. Cardinality(Standing(x) \ {th}) = Cardinality(Standing(x)) - 1
      BY <1>2, <2>1, FS_RemoveElement
    <2>3. QED BY <1>2, <1>3, <2>1, <2>2, OneIs
  <1>4. CASE x # o
    <2>1. Standing(x)' = Standing(x)
      BY <1>1, <1>4 DEF Standing
    <2>2. QED BY <1>2, <1>4, <2>1, OneIs
  <1>5. QED BY <1>3, <1>4

\* What is removed is counted by the objects it was of, and by elements.
LEMMA RemovalCounted ==
  ASSUME OrderInv, RefTypes, ElementsCounted, life # "gone",
         NEW S, S \subseteq Entries, RemoveEntries(S)
  PROVE  /\ IsFiniteSet(Entries')
         /\ elements' \in Nat /\ ElementsCounted' /\ life' = life
         /\ \A x \in Objects :
              /\ Cardinality({e \in S : e.obj = x}) \in Nat
              /\ Cardinality(EntriesFor(x)')
                   = Cardinality(EntriesFor(x)) - Cardinality({e \in S : e.obj = x})
  <1>1. Entries' = Entries \ S /\ life' = life
    BY RemovalLeaves
  <1>2. IsFiniteSet(Entries) /\ IsFiniteSet(S)
    BY EntriesFinite, FS_Subset
  <1>3. /\ IsFiniteSet(Entries \ S) /\ S = Entries \cap S
        /\ Cardinality(Entries \ S) = Cardinality(Entries) - Cardinality(Entries \cap S)
    BY <1>2, FS_Difference
  <1>4. elements = Cardinality(Entries) /\ elements' = elements - Cardinality(S)
    BY DEF ElementsCounted, RemoveEntries
  <1>5. elements' = Cardinality(Entries') /\ elements' \in Nat
    BY <1>1, <1>3, <1>4, FS_CardinalityType
  <1>6. ASSUME NEW x \in Objects
        PROVE  /\ Cardinality({e \in S : e.obj = x}) \in Nat
               /\ Cardinality(EntriesFor(x)')
                    = Cardinality(EntriesFor(x)) - Cardinality({e \in S : e.obj = x})
    <2>1. EntriesFor(x)' = EntriesFor(x) \ {e \in S : e.obj = x}
      BY <1>1 DEF EntriesFor
    <2>2. EntriesFor(x) \cap {e \in S : e.obj = x} = {e \in S : e.obj = x}
      BY DEF EntriesFor
    <2>3. IsFiniteSet(EntriesFor(x)) /\ IsFiniteSet({e \in S : e.obj = x})
      BY <1>2, Counted, FS_Subset
    <2>4. Cardinality(EntriesFor(x) \ {e \in S : e.obj = x})
            = Cardinality(EntriesFor(x)) - Cardinality(EntriesFor(x) \cap {e \in S : e.obj = x})
      BY <2>3, FS_Difference
    <2>5. QED BY <2>1, <2>2, <2>3, <2>4, FS_CardinalityType
  <1>7. QED BY <1>1, <1>3, <1>5, <1>6 DEF ElementsCounted

\* Each takes an amount for every entry.
LEMMA EachIs ==
  ASSUME OrderInv, NEW S, S \subseteq Entries
  PROVE  /\ Each(S, -1) \in [Objects -> Int] /\ Each(S, 1) \in [Objects -> Int]
         /\ \A x \in Objects :
              /\ Each(S, -1)[x] = - Cardinality({e \in S : e.obj = x})
              /\ Each(S, 1)[x] = Cardinality({e \in S : e.obj = x})
              /\ Cardinality({e \in S : e.obj = x}) \in Nat
  <1>1. \A x \in Objects : Cardinality({e \in S : e.obj = x}) \in Nat
    <2>1. IsFiniteSet(S)
      BY EntriesFinite, FS_Subset
    <2>2. \A x \in Objects : IsFiniteSet({e \in S : e.obj = x})
      BY <2>1, FS_Subset
    <2>3. QED BY <2>2, FS_CardinalityType
  <1>2. \A x \in Objects : /\ Each(S, -1)[x] = (-1) * Cardinality({e \in S : e.obj = x})
                           /\ Each(S, 1)[x] = 1 * Cardinality({e \in S : e.obj = x})
    BY DEF Each
  <1>3. \A x \in Objects : /\ Each(S, -1)[x] = - Cardinality({e \in S : e.obj = x})
                           /\ Each(S, 1)[x] = Cardinality({e \in S : e.obj = x})
    BY <1>1, <1>2
  <1>4. ASSUME NEW x \in Objects
        PROVE  Each(S, -1)[x] \in Int /\ Each(S, 1)[x] \in Int
    <2>1. PICK k \in Nat : k = Cardinality({e \in S : e.obj = x})
      BY <1>1
    <2>2. Each(S, -1)[x] = - k /\ Each(S, 1)[x] = k
      BY <1>3, <2>1
    <2>3. QED BY <2>2
  <1>5. Each(S, -1) \in [Objects -> Int] /\ Each(S, 1) \in [Objects -> Int]
    <2>1. /\ Each(S, -1) = [x \in Objects |-> Each(S, -1)[x]]
          /\ Each(S, 1) = [x \in Objects |-> Each(S, 1)[x]]
      BY DEF Each
    <2>2. QED BY <1>4, <2>1
  <1>6. QED BY <1>1, <1>3, <1>5

\* The first entry that matches is one of its object, if there is one.
LEMMA FirstMatchIs ==
  ASSUME OrderInv, NEW o \in Objects
  PROVE  /\ FirstMatch(Hash[o], {o}) \subseteq EntriesFor(o)
         /\ FirstMatch(Hash[o], {o}) \subseteq Entries
         /\ FirstMatch(Hash[o], {o}) # {} => \E e : FirstMatch(Hash[o], {o}) = {e}
  <1> DEFINE b == Hash[o]
             S == FirstMatch(b, {o})
  <1>1. b \in Buckets
    BY ConstantsAssumption
  <1>2. /\ DOMAIN buckets[b] = 1 .. Len(buckets[b]) /\ Len(buckets[b]) \in Nat
        /\ \A e \in EntriesOf(b) : e \in Entries
    BY <1>1, InBucket
  <1>3. \A e : e \in S <=> /\ e \in EntriesOf(b)
                           /\ \E k \in DOMAIN buckets[b] :
                                /\ e = buckets[b][k] /\ e.obj \in {o}
                                /\ \A j \in 1 .. k - 1 : ~(buckets[b][j].obj \in {o})
    BY DEF FirstMatch, FirstOf
  <1> HIDE DEF S, b
  <1>4. S \subseteq EntriesFor(o) /\ S \subseteq Entries
    BY <1>2, <1>3 DEF EntriesFor
  <1>5. ASSUME NEW d \in S, NEW e \in S
        PROVE  d = e
    <2>1. PICK k \in DOMAIN buckets[b] :
            d = buckets[b][k] /\ d.obj = o /\ \A j \in 1 .. k - 1 : buckets[b][j].obj # o
      BY <1>3
    <2>2. PICK l \in DOMAIN buckets[b] :
            e = buckets[b][l] /\ e.obj = o /\ \A j \in 1 .. l - 1 : buckets[b][j].obj # o
      BY <1>3
    <2>3. ~(k < l) /\ ~(l < k)
      BY <1>2, <2>1, <2>2
    <2>4. QED BY <1>2, <2>1, <2>2, <2>3
  <1>6. S # {} => \E e : S = {e}
    <2>1. ASSUME NEW e \in S PROVE S = {e}
      BY <1>5
    <2>2. QED BY <2>1
  <1>7. QED BY <1>4, <1>6 DEF S, b

----------------------------------------------------------------------------
(* The steps.                                                              *)

\* A step that keeps the balance of every object keeps the invariant, if it gives no
\* reference to an object that is freed.
LEMMA BalanceKeeps ==
  ASSUME OrderInv', RefInv, NEW amount \in [Objects -> Int], AddRefs(amount),
         \A o \in freed : amount[o] <= 0,
         elements' \in Nat, life' \in {"fresh", "pinned", "gone"}, owner' \in Threads \cup {Nil},
         held' \in [Threads -> SUBSET Objects], cur' \in [Threads -> Objects \cup {Nil}],
         multi' \in [Threads -> Result],
         IsFiniteSet(Entries'), ElementsCounted', ArgsAreHeld', LinkedIsThere',
         \A o \in Objects :
           refs[o] + amount[o] + Cardinality(Linking(o)')
             = Cardinality(Holders(o)') + Cardinality(Standing(o)') + Cardinality(Places(o)')
               + Cardinality(EntriesFor(o)')
  PROVE  RefInv'
  <1>1. /\ refs \in [Objects -> Nat] /\ freed \subseteq Objects
        /\ \A o \in freed : refs[o] = 0
    BY DEF RefInv, RefTypes, FreedAreDead
  <1>2. /\ refs' = [o \in Objects |-> refs[o] + amount[o]]
        /\ freed' = freed \cup {o \in Objects : amount[o] < 0 /\ refs[o] + amount[o] <= 0}
    BY DEF AddRefs
  <1>3. \A o \in Objects : refs'[o] = refs[o] + amount[o] /\ refs'[o] \in Int
    BY <1>1, <1>2
  <1>4. \A o \in Objects : References(o)'
    BY <1>3 DEF References
  <1>5. refs' \in [Objects -> Int]
    BY <1>2, <1>3
  <1>6. refs' \in [Objects -> Nat]
    BY <1>4, <1>5, CountsAreNatural
  <1>7. freed' \subseteq Objects
    BY <1>1, <1>2
  <1>8. ASSUME NEW o \in freed' PROVE refs'[o] = 0
    <2>1. o \in Objects /\ refs'[o] \in Nat /\ refs'[o] = refs[o] + amount[o]
          /\ amount[o] \in Int /\ refs[o] \in Nat
      BY <1>1, <1>3, <1>6, <1>7
    <2>2. CASE o \in freed
      <3>1. refs[o] = 0 /\ amount[o] <= 0
        BY <1>1, <2>2
      <3>2. QED BY <2>1, <3>1
    <2>3. CASE o \notin freed
      BY <1>2, <2>1, <2>3
    <2>4. QED BY <2>2, <2>3
  <1>9. RefTypes'
    BY <1>6, <1>7 DEF RefTypes
  <1>10. FreedAreDead'
    BY <1>8 DEF FreedAreDead
  <1>11. QED BY <1>4, <1>9, <1>10 DEF RefInv

\* The balance before the step.
LEMMA Balance ==
  ASSUME OrderInv, RefInv, NEW o \in Objects
  PROVE  /\ refs[o] \in Nat
         /\ Cardinality(Holders(o)) \in Nat /\ Cardinality(Standing(o)) \in Nat
         /\ Cardinality(Places(o)) \in Nat /\ Cardinality(EntriesFor(o)) \in Nat
         /\ Cardinality(Linking(o)) \in Nat
         /\ refs[o] + Cardinality(Linking(o))
              = Cardinality(Holders(o)) + Cardinality(Standing(o)) + Cardinality(Places(o))
                + Cardinality(EntriesFor(o))
  BY Counted DEF RefInv, RefTypes, References

LEMMA HandsCounted ==
  ASSUME multi' \in [Threads -> Result], NEW o \in Objects
  PROVE  /\ Cardinality(Holders(o)') \in Nat /\ Cardinality(Standing(o)') \in Nat
         /\ Cardinality(Places(o)') \in Nat
  <1>1. Holders(o)' \subseteq Threads /\ Standing(o)' \subseteq Threads
    BY DEF Holders, Standing
  <1>2. QED BY <1>1, Threads1, PlacesAre, PlacesCounted

\* No change of any count.
LEMMA QuietKeeps ==
  ASSUME OrderInv, OrderInv', RefInv, UNCHANGED <<buckets, elements, refs, freed, held, cur, multi>>,
         life' \in {life, "pinned"}, life' = "gone" \/ life # "gone",
         owner' \in Threads \cup {Nil}, ArgsAreHeld',
         \A th \in Threads : pc'[th] = "ref" <=> pc[th] = "ref",
         \A th \in Threads : pc'[th] = "ref" => arg'[th] = arg[th]
  PROVE  RefInv'
  <1>1. Entries' = Entries /\ \A o : EntriesFor(o)' = EntriesFor(o)
    BY DEF Entries, EntriesOf, EntriesFor
  <1>2. \A o : /\ Holders(o)' = Holders(o) /\ Standing(o)' = Standing(o)
               /\ Places(o)' = Places(o) /\ Linking(o)' = Linking(o)
    BY DEF Holders, Standing, Places, PlacesOf, Linking
  <1>3. RefTypes' /\ ElementsCounted' /\ LinkedIsThere' /\ FreedAreDead'
    BY <1>1 DEF RefInv, RefTypes, ElementsCounted, LinkedIsThere, FreedAreDead
  <1>4. \A o \in Objects : References(o)'
    BY <1>1, <1>2 DEF RefInv, References
  <1>5. QED BY <1>3, <1>4 DEF RefInv

\* References on objects that change hands between threads, iterators and results; the
\* container stays as it is.
LEMMA HandsKeep ==
  ASSUME OrderInv, OrderInv', RefInv, NEW amount \in [Objects -> Int], AddRefs(amount),
         \A o \in freed : amount[o] <= 0,
         UNCHANGED <<buckets, elements, life, owner, pc, arg>>,
         held' \in [Threads -> SUBSET Objects], cur' \in [Threads -> Objects \cup {Nil}],
         multi' \in [Threads -> Result], ArgsAreHeld',
         \A o \in Objects :
           amount[o] + Cardinality(Holders(o)) + Cardinality(Standing(o)) + Cardinality(Places(o))
             = Cardinality(Holders(o)') + Cardinality(Standing(o)') + Cardinality(Places(o)')
  PROVE  RefInv'
  <1>1. Entries' = Entries /\ \A o : EntriesFor(o)' = EntriesFor(o)
    BY DEF Entries, EntriesOf, EntriesFor
  <1>2. \A o : Linking(o)' = Linking(o)
    BY DEF Linking
  <1>3. IsFiniteSet(Entries') /\ ElementsCounted' /\ LinkedIsThere'
    BY <1>1, EntriesFinite DEF RefInv, ElementsCounted, LinkedIsThere
  <1>4. elements' \in Nat /\ life' \in {"fresh", "pinned", "gone"} /\ owner' \in Threads \cup {Nil}
    BY DEF RefInv, RefTypes
  <1>5. ASSUME NEW o \in Objects
        PROVE  refs[o] + amount[o] + Cardinality(Linking(o)')
                 = Cardinality(Holders(o)') + Cardinality(Standing(o)') + Cardinality(Places(o)')
                   + Cardinality(EntriesFor(o)')
    <2>1. amount[o] \in Int
      OBVIOUS
    <2>2. amount[o] + Cardinality(Holders(o)) + Cardinality(Standing(o)) + Cardinality(Places(o))
             = Cardinality(Holders(o)') + Cardinality(Standing(o)') + Cardinality(Places(o)')
      OBVIOUS
    <2>3. EntriesFor(o)' = EntriesFor(o) /\ Linking(o)' = Linking(o)
      BY <1>1, <1>2
    <2>4. QED BY <2>1, <2>2, <2>3, Balance
  <1>6. QED BY <1>3, <1>4, <1>5, BalanceKeeps

\* A callback that removes the entries in S while nobody links.
LEMMA RemovalBalances ==
  ASSUME OrderInv, OrderInv', RefInv, owner = Nil, life # "gone",
         NEW S, S \subseteq Entries, RemoveEntries(S),
         NEW amount \in [Objects -> Int], AddRefs(amount), \A o \in freed : amount[o] <= 0,
         UNCHANGED <<owner, pc, arg>>,
         held' \in [Threads -> SUBSET Objects], cur' \in [Threads -> Objects \cup {Nil}],
         multi' \in [Threads -> Result], ArgsAreHeld',
         \A o \in Objects :
           amount[o] + Cardinality(Holders(o)) + Cardinality(Standing(o)) + Cardinality(Places(o))
               + Cardinality({e \in S : e.obj = o})
             = Cardinality(Holders(o)') + Cardinality(Standing(o)') + Cardinality(Places(o)')
  PROVE  RefInv'
  <1>1. /\ IsFiniteSet(Entries') /\ elements' \in Nat /\ ElementsCounted' /\ life' = life
        /\ \A x \in Objects :
              /\ Cardinality({e \in S : e.obj = x}) \in Nat
              /\ Cardinality(EntriesFor(x)')
                   = Cardinality(EntriesFor(x)) - Cardinality({e \in S : e.obj = x})
    BY RemovalCounted DEF RefInv
  <1>2. \A th \in Threads : pc'[th] # "ref"
    BY LinkersAre
  <1>3. \A o : Linking(o)' = Linking(o)
    BY DEF Linking
  <1>4. LinkedIsThere'
    BY <1>2 DEF LinkedIsThere
  <1>5. life' \in {"fresh", "pinned", "gone"} /\ owner' \in Threads \cup {Nil}
    BY <1>1 DEF RefInv, RefTypes
  <1>6. ASSUME NEW o \in Objects
        PROVE  refs[o] + amount[o] + Cardinality(Linking(o)')
                 = Cardinality(Holders(o)') + Cardinality(Standing(o)') + Cardinality(Places(o)')
                   + Cardinality(EntriesFor(o)')
    <2>1. amount[o] \in Int
      OBVIOUS
    <2>2. amount[o] + Cardinality(Holders(o)) + Cardinality(Standing(o)) + Cardinality(Places(o))
               + Cardinality({e \in S : e.obj = o})
             = Cardinality(Holders(o)') + Cardinality(Standing(o)') + Cardinality(Places(o)')
      OBVIOUS
    <2>3. Linking(o)' = Linking(o)
      BY <1>3
    <2>4. /\ Cardinality({e \in S : e.obj = o}) \in Nat
          /\ Cardinality(EntriesFor(o)') = Cardinality(EntriesFor(o)) - Cardinality({e \in S : e.obj = o})
      BY <1>1
    <2>5. /\ Cardinality(Holders(o)') \in Nat /\ Cardinality(Standing(o)') \in Nat
          /\ Cardinality(Places(o)') \in Nat
      BY HandsCounted
    <2>6. QED BY <2>1, <2>2, <2>3, <2>4, <2>5, Balance
  <1>7. QED BY <1>1, <1>4, <1>5, <1>6, BalanceKeeps

\* The steps of a link but the insertion and the reference, and those of iterators that
\* find nothing.
LEMMA QuietSteps ==
  ASSUME OrderInv, OrderInv', RefInv, CallerLocks, NEW th \in Threads,
         \/ (\E o \in Objects : LinkCall(th, o))
         \/ LinkVersion(th) \/ LinkFails(th) \/ MultiDestroy(th) \/ IterDestroy(th)
         \/ (\E unlink \in BOOLEAN : IterInit(th, unlink))
         \/ IterNext(th) /\ NextEntry(it[th]).entry = {}
  PROVE  RefInv'
  <1>1. /\ pc \in [Threads -> {"idle", "version", "insert", "ref", "crashed"}]
        /\ arg \in [Threads -> Objects \cup {Nil}]
        /\ owner \in Threads \cup {Nil} /\ life \in {"fresh", "pinned", "gone"} /\ Nil \notin Objects
        /\ \A x \in Threads :
             arg[x] # Nil => pc[x] \in {"version", "insert", "ref"} /\ arg[x] \in held[x]
    BY ConstantsAssumption DEF OrderInv, OrderTypes, RefInv, RefTypes, ArgsAreHeld
  <1>2. ASSUME NEW o \in Objects, LinkCall(th, o)
        PROVE  RefInv'
    <2>1. /\ UNCHANGED <<buckets, elements, refs, freed, held, cur, multi, life>> /\ owner' = th
          /\ life # "gone" /\ pc[th] = "idle" /\ o \in held[th]
          /\ pc' = [pc EXCEPT ![th] = "version"] /\ arg' = [arg EXCEPT ![th] = o]
      BY <1>2 DEF LinkCall, contVars, objVars, iterVars
    <2>2. /\ \A x \in Threads : pc'[x] = "ref" <=> pc[x] = "ref"
          /\ \A x \in Threads : pc'[x] = "ref" => arg'[x] = arg[x]
      BY <1>1, <2>1
    <2>3. ArgsAreHeld'
      BY <1>1, <2>1 DEF ArgsAreHeld
    <2>4. QED BY <2>1, <2>2, <2>3, QuietKeeps
  <1>3. ASSUME LinkVersion(th)
        PROVE  RefInv'
    <2>1. /\ UNCHANGED <<buckets, elements, refs, freed, held, cur, multi, life, owner, arg>>
          /\ pc[th] = "version" /\ pc' = [pc EXCEPT ![th] = "insert"]
      BY <1>3 DEF LinkVersion, objVars, iterVars
    <2>2. \A x \in Threads : pc'[x] = "ref" <=> pc[x] = "ref"
      BY <1>1, <2>1
    <2>3. ArgsAreHeld'
      BY <1>1, <2>1 DEF ArgsAreHeld
    <2>4. QED BY <1>1, <2>1, <2>2, <2>3, QuietKeeps
  <1>4. ASSUME LinkFails(th)
        PROVE  RefInv'
    <2>1. /\ UNCHANGED <<buckets, elements, refs, freed, held, cur, multi, life>> /\ owner' = Nil
          /\ pc[th] = "version" /\ pc' = [pc EXCEPT ![th] = "idle"]
          /\ arg' = [arg EXCEPT ![th] = Nil]
      BY <1>4 DEF LinkFails, contVars, objVars, iterVars
    <2>2. /\ \A x \in Threads : pc'[x] = "ref" <=> pc[x] = "ref"
          /\ \A x \in Threads : pc'[x] = "ref" => arg'[x] = arg[x]
      BY <1>1, <2>1
    <2>3. ArgsAreHeld'
      BY <1>1, <2>1 DEF ArgsAreHeld
    <2>4. QED BY <1>1, <2>1, <2>2, <2>3, QuietKeeps
  <1>5. ASSUME MultiDestroy(th)
        PROVE  RefInv'
    <2>1. /\ UNCHANGED <<buckets, elements, refs, freed, held, cur, multi, life, owner, arg>>
          /\ pc[th] = "idle" /\ pc' = [pc EXCEPT ![th] = "crashed"]
      BY <1>5 DEF MultiDestroy, contVars, objVars, iterVars
    <2>2. \A x \in Threads : pc'[x] = "ref" <=> pc[x] = "ref"
      BY <1>1, <2>1
    <2>3. ArgsAreHeld'
      BY <1>1, <2>1 DEF ArgsAreHeld
    <2>4. QED BY <1>1, <2>1, <2>2, <2>3, QuietKeeps
  <1>6. ASSUME UNCHANGED <<buckets, elements, refs, freed, held, cur, multi, owner, pc, arg>>,
               life' = life \/ (life' = "pinned" /\ life # "gone")
        PROVE  RefInv'
    <2>1. /\ UNCHANGED <<buckets, elements, refs, freed, held, cur, multi, owner, pc, arg>>
          /\ life' = life \/ (life' = "pinned" /\ life # "gone")
      BY <1>6
    <2>2. ArgsAreHeld'
      BY <2>1 DEF RefInv, ArgsAreHeld
    <2>3. life' \in {life, "pinned"}
      BY <2>1
    <2>4. life' = "gone" \/ life # "gone"
      BY <2>1
    <2>5. owner' \in Threads \cup {Nil}
      BY <1>1, <2>1
    <2>6. \A x \in Threads : pc'[x] = "ref" <=> pc[x] = "ref"
      BY <2>1
    <2>7. \A x \in Threads : pc'[x] = "ref" => arg'[x] = arg[x]
      BY <2>1
    <2>8. UNCHANGED <<buckets, elements, refs, freed, held, cur, multi>>
      BY <2>1
    <2>9. QED BY <2>2, <2>3, <2>4, <2>5, <2>6, <2>7, <2>8, QuietKeeps
  <1>7. ASSUME IterDestroy(th)
        PROVE  RefInv'
    BY <1>6, <1>7 DEF IterDestroy, contVars, objVars, linkVars
  <1>8. ASSUME NEW unlink \in BOOLEAN, IterInit(th, unlink)
        PROVE  RefInv'
    BY <1>6, <1>8 DEF IterInit, objVars, linkVars
  <1>9. ASSUME IterNext(th), NextEntry(it[th]).entry = {}
        PROVE  RefInv'
    BY <1>6, <1>9 DEF IterNext, contVars, objVars, linkVars
  <1>10. QED BY <1>2, <1>3, <1>4, <1>5, <1>7, <1>8, <1>9

\* The insertion makes one entry more, of the object that is linked.
LEMMA InsertAdds ==
  ASSUME OrderInv, NEW th \in Threads, LinkInsert(th)
  PROVE  \E e : /\ e \notin Entries /\ e.obj = arg[th]
                /\ Entries' = Entries \cup {e}
  <1>1. pc[th] = "insert" /\ arg[th] \in Objects /\ ver[th] \in Nat
    BY DEF LinkInsert, OrderInv, LinkersLock, OrderTypes
  <1>2. PICK b \in Buckets : b = Hash[arg[th]]
    BY <1>1, ConstantsAssumption
  <1>3. PICK e \in Entry : e = [ver |-> ver[th], obj |-> arg[th]] /\ e.ver = ver[th] /\ e.obj = arg[th]
    <2>1. [ver |-> ver[th], obj |-> arg[th]] \in Entry
      BY <1>1 DEF Entry
    <2>2. QED BY <2>1
  <1>4. buckets' = [buckets EXCEPT ![b] = Append(@, e)]
    BY <1>2, <1>3 DEF LinkInsert, AtTail
  <1>5. e \notin Entries
    <2>1. \A d \in Entries : d.ver < e.ver
      BY <1>1, <1>3 DEF OrderInv, Newest
    <2>2. ~(e.ver < e.ver)
      BY <1>1, <1>3
    <2>3. QED BY <2>1, <2>2
  <1>6. PICK s \in Seq(Entry) : s = buckets[b]
    BY DEF OrderInv, OrderTypes
  <1>7. ToSet(Append(s, e)) = ToSet(s) \cup {e}
    <2>1. /\ Append(s, e) \in Seq(Entry) /\ Len(Append(s, e)) = Len(s) + 1 /\ Len(s) \in Nat
          /\ \A k \in 1 .. Len(s) : Append(s, e)[k] = s[k]
          /\ Append(s, e)[Len(s) + 1] = e
      BY AppendProperties
    <2>2. /\ DOMAIN Append(s, e) = 1 .. Len(s) + 1 /\ DOMAIN s = 1 .. Len(s)
          /\ 1 .. Len(s) + 1 = (1 .. Len(s)) \cup {Len(s) + 1}
      BY <2>1
    <2>3. \A d : /\ d \in ToSet(Append(s, e)) <=> \E k \in 1 .. Len(s) + 1 : Append(s, e)[k] = d
                 /\ d \in ToSet(s) <=> \E k \in 1 .. Len(s) : s[k] = d
      BY <2>2 DEF ToSet
    <2>4. \A d : d \in ToSet(Append(s, e)) <=> d \in ToSet(s) \/ d = e
      BY <2>1, <2>2, <2>3
    <2>5. QED BY <2>4
  <1>8. \A c \in Buckets : EntriesOf(c)' = IF c = b THEN EntriesOf(c) \cup {e} ELSE EntriesOf(c)
    <2>1. buckets \in [Buckets -> Seq(Entry)]
      BY DEF OrderInv, OrderTypes
    <2>2. \A c \in Buckets : buckets'[c] = IF c = b THEN Append(s, e) ELSE buckets[c]
      BY <1>4, <1>6, <2>1
    <2>3. QED BY <1>6, <1>7, <2>2 DEF EntriesOf
  <1>9. \A d : d \in Entries' <=> \E c \in Buckets : d \in EntriesOf(c)'
    BY DEF Entries
  <1>10. Entries' = Entries \cup {e}
    BY <1>8, <1>9, EntriesAre
  <1>11. QED BY <1>3, <1>5, <1>10

\* What a step gives that leaves the counts alone.
Nothing == [o \in Objects |-> 0]

LEMMA NothingGiven ==
  ASSUME RefTypes, UNCHANGED objVars
  PROVE  AddRefs(Nothing) /\ Nothing \in [Objects -> Int] /\ \A o \in Objects : Nothing[o] = 0
  <1>1. refs \in [Objects -> Nat] /\ freed \subseteq Objects
    BY DEF RefTypes
  <1>2. /\ \A o \in Objects : refs[o] + Nothing[o] = refs[o] /\ ~(Nothing[o] < 0)
        /\ Nothing \in [Objects -> Int]
    BY <1>1 DEF Nothing
  <1>3. [o \in Objects |-> refs[o] + Nothing[o]] = refs
    BY <1>1, <1>2
  <1>4. {o \in Objects : Nothing[o] < 0 /\ refs[o] + Nothing[o] <= 0} = {}
    BY <1>2
  <1>5. QED BY <1>2, <1>3, <1>4 DEF AddRefs, objVars, Nothing

LEMMA InsertStep ==
  ASSUME OrderInv, OrderInv', RefInv, NEW th \in Threads, LinkInsert(th)
  PROVE  RefInv'
  <1>1. /\ pc[th] = "insert" /\ pc' = [pc EXCEPT ![th] = "ref"] /\ elements' = elements + 1
        /\ UNCHANGED <<life, owner, objVars, held, arg, cur, multi>>
    BY DEF LinkInsert, iterVars
  <1>2. PICK o \in Objects : o = arg[th]
    BY <1>1 DEF OrderInv, LinkersLock
  <1>3. PICK e : e \notin Entries /\ e.obj = o /\ Entries' = Entries \cup {e}
    BY <1>2, InsertAdds
  <1>4. /\ RefTypes /\ ElementsCounted /\ ArgsAreHeld /\ LinkedIsThere
        /\ pc \in [Threads -> {"idle", "version", "insert", "ref", "crashed"}]
    BY DEF RefInv, OrderInv, OrderTypes
  <1>5. /\ IsFiniteSet(Entries) /\ IsFiniteSet(Entries')
        /\ Cardinality(Entries') = Cardinality(Entries) + 1
    BY <1>3, EntriesFinite, FS_AddElement
  <1>6. ElementsCounted' /\ elements' \in Nat
    BY <1>1, <1>4, <1>5 DEF ElementsCounted, RefTypes
  <1>7. \A x : EntriesFor(x) \subseteq EntriesFor(x)'
    BY <1>3 DEF EntriesFor
  <1>8. EntriesFor(o)' = EntriesFor(o) \cup {e} /\ e \notin EntriesFor(o)
        /\ \A x : x # o => EntriesFor(x)' = EntriesFor(x)
    BY <1>3 DEF EntriesFor
  <1>9. LinkedIsThere'
    <2>1. ASSUME NEW x \in Threads, pc'[x] = "ref"
          PROVE  EntriesFor(arg[x])' # {}
      <3>1. CASE x = th
        BY <1>1, <1>2, <1>8, <3>1 DEF EntriesFor
      <3>2. CASE x # th
        <4>1. pc[x] = "ref"
          BY <1>1, <1>4, <2>1, <3>2
        <4>2. EntriesFor(arg[x]) # {} /\ arg'[x] = arg[x]
          BY <1>1, <1>4, <4>1 DEF LinkedIsThere
        <4>3. PICK y : y = arg[x] /\ y = arg'[x]
          BY <4>2
        <4>4. EntriesFor(y) # {} /\ EntriesFor(y) \subseteq EntriesFor(y)'
          BY <1>7, <4>2, <4>3
        <4>5. EntriesFor(y)' = EntriesFor(arg[x])'
          BY <4>3 DEF EntriesFor
        <4>6. QED BY <4>4, <4>5
      <3>3. QED BY <3>1, <3>2
    <2>2. QED BY <2>1 DEF LinkedIsThere
  <1>10. ArgsAreHeld'
    BY <1>1, <1>4 DEF ArgsAreHeld
  <1>11. ASSUME NEW x \in Objects
         PROVE  refs[x] + Nothing[x] + Cardinality(Linking(x)')
                  = Cardinality(Holders(x)') + Cardinality(Standing(x)') + Cardinality(Places(x)')
                    + Cardinality(EntriesFor(x)')
    <2>1. Holders(x)' = Holders(x) /\ Standing(x)' = Standing(x) /\ Places(x)' = Places(x)
      BY <1>1 DEF Holders, Standing, Places, PlacesOf
    <2>2. Nothing[x] = 0
      BY <1>1, <1>4, NothingGiven
    <2>3. CASE x = o
      <3>1. Linking(x)' = Linking(x) \cup {th} /\ th \notin Linking(x)
        BY <1>1, <1>2, <1>4, <2>3 DEF Linking
      <3>2. Cardinality(Linking(x)') = Cardinality(Linking(x)) + 1
        BY <1>4, <3>1, Counted, FS_AddElement
      <3>3. Cardinality(EntriesFor(x)') = Cardinality(EntriesFor(x)) + 1
        BY <1>4, <1>8, <2>3, Counted, FS_AddElement
      <3>4. QED BY <2>1, <2>2, <3>2, <3>3, Balance
    <2>4. CASE x # o
      <3>1. Linking(x)' = Linking(x)
        BY <1>1, <1>2, <1>4, <2>4 DEF Linking
      <3>2. EntriesFor(x)' = EntriesFor(x)
        BY <1>8, <2>4
      <3>3. QED BY <2>1, <2>2, <3>1, <3>2, Balance
    <2>5. QED BY <2>3, <2>4
  <1>12. AddRefs(Nothing) /\ Nothing \in [Objects -> Int] /\ \A x \in freed : Nothing[x] <= 0
    <2>1. AddRefs(Nothing) /\ Nothing \in [Objects -> Int] /\ \A x \in Objects : Nothing[x] = 0
      BY <1>1, <1>4, NothingGiven
    <2>2. QED BY <1>4, <2>1 DEF RefTypes
  <1>13. /\ life' \in {"fresh", "pinned", "gone"} /\ owner' \in Threads \cup {Nil}
         /\ held' \in [Threads -> SUBSET Objects] /\ cur' \in [Threads -> Objects \cup {Nil}]
         /\ multi' \in [Threads -> Result]
    BY <1>1, <1>4 DEF RefTypes
  <1>14. QED BY <1>5, <1>6, <1>9, <1>10, <1>11, <1>12, <1>13, BalanceKeeps

LEMMA LinkRefStep ==
  ASSUME OrderInv, OrderInv', RefInv, CallerLocks, NEW th \in Threads, LinkRef(th)
  PROVE  RefInv'
  <1>1. /\ pc[th] = "ref" /\ AddRefs(One(arg[th], 1)) /\ owner' = Nil
        /\ pc' = [pc EXCEPT ![th] = "idle"] /\ arg' = [arg EXCEPT ![th] = Nil]
        /\ UNCHANGED <<buckets, elements, life, held, cur, multi>>
    BY DEF LinkRef, contVars, iterVars
  <1>2. PICK o \in Objects : o = arg[th]
    BY <1>1 DEF OrderInv, LinkersLock
  <1>3. /\ RefTypes /\ ElementsCounted /\ ArgsAreHeld /\ LinkedIsThere /\ FreedAreDead
        /\ pc \in [Threads -> {"idle", "version", "insert", "ref", "crashed"}]
        /\ arg \in [Threads -> Objects \cup {Nil}]
    BY DEF RefInv, OrderInv, OrderTypes
  <1>4. Entries' = Entries /\ \A x : EntriesFor(x)' = EntriesFor(x)
    BY <1>1 DEF Entries, EntriesOf, EntriesFor
  <1>5. IsFiniteSet(Entries') /\ ElementsCounted'
    BY <1>1, <1>3, <1>4, EntriesFinite DEF ElementsCounted
  <1>6. LinkedIsThere'
    <2>1. ASSUME NEW x \in Threads, pc'[x] = "ref"
          PROVE  EntriesFor(arg[x])' # {}
      <3>1. x # th /\ pc[x] = "ref"
        BY <1>1, <1>3, <2>1
      <3>2. EntriesFor(arg[x]) # {} /\ arg'[x] = arg[x]
        BY <1>1, <1>3, <3>1 DEF LinkedIsThere
      <3>3. PICK y : y = arg[x] /\ y = arg'[x]
        BY <3>2
      <3>4. EntriesFor(y)' # {} /\ EntriesFor(y)' = EntriesFor(arg[x])'
        <4>1. EntriesFor(y)' # {}
          BY <1>4, <3>2, <3>3
        <4>2. EntriesFor(y)' = EntriesFor(arg[x])'
          BY <3>3 DEF EntriesFor
        <4>3. QED BY <4>1, <4>2
      <3>5. QED BY <3>4
    <2>2. QED BY <2>1 DEF LinkedIsThere
  <1>7. ArgsAreHeld'
    BY <1>1, <1>3, ConstantsAssumption DEF ArgsAreHeld
  <1>8. One(o, 1) \in [Objects -> Int] /\ AddRefs(One(o, 1))
        /\ \A x \in freed : One(o, 1)[x] <= 0
    <2>1. \A x \in freed : x # o /\ x \in Objects
      BY <1>2, <1>3, DeadIsAway DEF FreedAreDead, RefTypes
    <2>2. \A x \in freed : One(o, 1)[x] = 0
      BY <2>1, OneIs
    <2>3. QED BY <1>1, <1>2, <2>2, OneIs
  <1>9. ASSUME NEW x \in Objects
        PROVE  refs[x] + One(o, 1)[x] + Cardinality(Linking(x)')
                 = Cardinality(Holders(x)') + Cardinality(Standing(x)') + Cardinality(Places(x)')
                   + Cardinality(EntriesFor(x)')
    <2>1. /\ Holders(x)' = Holders(x) /\ Standing(x)' = Standing(x) /\ Places(x)' = Places(x)
          /\ EntriesFor(x)' = EntriesFor(x)
      BY <1>1, <1>4 DEF Holders, Standing, Places, PlacesOf
    <2>2. CASE x = o
      <3>1. Linking(x)' = Linking(x) \ {th} /\ th \in Linking(x)
        BY <1>1, <1>2, <1>3, <2>2 DEF Linking
      <3>2. Cardinality(Linking(x)') = Cardinality(Linking(x)) - 1
        BY <1>3, <3>1, Counted, FS_RemoveElement
      <3>3. One(o, 1)[x] = 1
        BY <2>2, OneIs
      <3>4. QED BY <2>1, <3>2, <3>3, Balance
    <2>3. CASE x # o
      <3>1. Linking(x)' = Linking(x)
        BY <1>1, <1>2, <1>3, <2>3 DEF Linking
      <3>2. One(o, 1)[x] = 0
        BY <2>3, OneIs
      <3>3. QED BY <2>1, <3>1, <3>2, Balance
    <2>4. QED BY <2>2, <2>3
  <1>10. /\ elements' \in Nat /\ life' \in {"fresh", "pinned", "gone"} /\ owner' \in Threads \cup {Nil}
         /\ held' \in [Threads -> SUBSET Objects] /\ cur' \in [Threads -> Objects \cup {Nil}]
         /\ multi' \in [Threads -> Result]
    BY <1>1, <1>3 DEF RefTypes
  <1>11. QED BY <1>5, <1>6, <1>7, <1>8, <1>9, <1>10, BalanceKeeps

\* One reference more, on an object somebody has, or one less.
LEMMA OneGiven ==
  ASSUME RefInv, NEW o \in Objects, o \notin freed
  PROVE  One(o, 1) \in [Objects -> Int] /\ \A x \in freed : One(o, 1)[x] <= 0
  <1>1. \A x \in freed : x \in Objects /\ x # o
    BY DEF RefInv, RefTypes
  <1>2. \A x \in freed : One(o, 1)[x] = 0
    BY <1>1, OneIs
  <1>3. QED BY <1>2, OneIs

LEMMA OneDropped ==
  ASSUME RefInv, NEW o \in Objects
  PROVE  One(o, -1) \in [Objects -> Int] /\ \A x \in freed : One(o, -1)[x] <= 0
  <1>1. \A x \in freed : x \in Objects
    BY DEF RefInv, RefTypes
  <1>2. -1 \in Int /\ -1 <= 0
    OBVIOUS
  <1>3. \A x \in Objects : One(o, -1)[x] = 0 \/ One(o, -1)[x] = -1
    BY <1>2, OneIs
  <1>4. \A x \in freed : One(o, -1)[x] <= 0
    BY <1>1, <1>2, <1>3
  <1>5. QED BY <1>2, <1>4, OneIs

\* Who comes upon an object finds it alive.
LEMMA ReachedIsAlive ==
  ASSUME OrderInv, RefInv, NEW o \in Objects,
         \/ EntriesFor(o) # {}
         \/ \E th \in Threads : o \in held[th] \/ cur[th] = o
         \/ Places(o) # {}
  PROVE  o \notin freed
  BY DeadIsAway DEF RefInv, FreedAreDead

\* Threads take and drop references.
LEMMA AllocStep ==
  ASSUME OrderInv, OrderInv', RefInv, NEW th \in Threads, NEW o \in Objects, Alloc(th, o)
  PROVE  RefInv'
  <1>1. /\ refs[o] = 0 /\ o \notin freed
        /\ refs' = [refs EXCEPT ![o] = 1] /\ freed' = freed
        /\ held' = [held EXCEPT ![th] = @ \cup {o}]
        /\ UNCHANGED <<buckets, elements, life, owner, pc, arg, cur, multi>>
    BY DEF Alloc, contVars, linkVars, iterVars
  <1>2. RefTypes /\ ArgsAreHeld
    BY DEF RefInv
  <1>3. o \notin held[th]
    BY <1>1, DeadIsAway
  <1>4. AddRefs(One(o, 1))
    <2>1. \A x \in Objects : refs'[x] = refs[x] + One(o, 1)[x] /\ ~(One(o, 1)[x] < 0)
      <3>1. \A x \in Objects : refs[x] \in Nat /\ refs'[x] = IF x = o THEN 1 ELSE refs[x]
        BY <1>1, <1>2 DEF RefTypes
      <3>2. QED BY <1>1, <3>1, OneIs
    <2>2. refs' = [x \in Objects |-> refs'[x]]
      BY <1>1, <1>2 DEF RefTypes
    <2>3. refs' = [x \in Objects |-> refs[x] + One(o, 1)[x]]
      BY <2>1, <2>2
    <2>4. {x \in Objects : One(o, 1)[x] < 0 /\ refs[x] + One(o, 1)[x] <= 0} = {}
      BY <2>1
    <2>5. QED BY <1>1, <2>3, <2>4 DEF AddRefs
  <1>5. One(o, 1) \in [Objects -> Int] /\ \A x \in freed : One(o, 1)[x] <= 0
    BY <1>1, OneGiven
  <1>6. ASSUME NEW x \in Objects
        PROVE  One(o, 1)[x] + Cardinality(Holders(x)) + Cardinality(Standing(x)) + Cardinality(Places(x))
                 = Cardinality(Holders(x)') + Cardinality(Standing(x)') + Cardinality(Places(x)')
    <2>1. Cardinality(Holders(x)') = Cardinality(Holders(x)) + One(o, 1)[x]
      BY <1>1, <1>2, <1>3, HolderJoins
    <2>2. Standing(x)' = Standing(x) /\ Places(x)' = Places(x)
      BY <1>1 DEF Standing, Places, PlacesOf
    <2>3. One(o, 1)[x] \in Int
      BY <1>5
    <2>4. QED BY <2>1, <2>2, <2>3, Balance
  <1>7. /\ held' \in [Threads -> SUBSET Objects] /\ cur' \in [Threads -> Objects \cup {Nil}]
        /\ multi' \in [Threads -> Result]
    BY <1>1, <1>2 DEF RefTypes
  <1>8. ArgsAreHeld'
    BY <1>1, <1>2 DEF ArgsAreHeld, RefTypes
  <1>9. QED BY <1>1, <1>4, <1>5, <1>6, <1>7, <1>8, HandsKeep

LEMMA UnrefStep ==
  ASSUME OrderInv, OrderInv', RefInv, NEW th \in Threads, NEW o \in Objects, Unref(th, o)
  PROVE  RefInv'
  <1>1. /\ pc[th] = "idle" /\ o \in held[th] /\ AddRefs(One(o, -1))
        /\ held' = [held EXCEPT ![th] = @ \ {o}]
        /\ UNCHANGED <<buckets, elements, life, owner, pc, arg, cur, multi>>
    BY DEF Unref, contVars, linkVars, iterVars
  <1>2. RefTypes /\ ArgsAreHeld
    BY DEF RefInv
  <1>3. One(o, -1) \in [Objects -> Int] /\ \A x \in freed : One(o, -1)[x] <= 0
    BY OneDropped
  <1>4. ASSUME NEW x \in Objects
        PROVE  One(o, -1)[x] + Cardinality(Holders(x)) + Cardinality(Standing(x)) + Cardinality(Places(x))
                 = Cardinality(Holders(x)') + Cardinality(Standing(x)') + Cardinality(Places(x)')
    <2>1. Cardinality(Holders(x)') = Cardinality(Holders(x)) + One(o, -1)[x]
      BY <1>1, <1>2, HolderLeaves
    <2>2. Standing(x)' = Standing(x) /\ Places(x)' = Places(x)
      BY <1>1 DEF Standing, Places, PlacesOf
    <2>3. One(o, -1)[x] \in Int
      BY <1>3
    <2>4. QED BY <2>1, <2>2, <2>3, Balance
  <1>5. /\ held' \in [Threads -> SUBSET Objects] /\ cur' \in [Threads -> Objects \cup {Nil}]
        /\ multi' \in [Threads -> Result]
    BY <1>1, <1>2 DEF RefTypes
  <1>6. ArgsAreHeld'
    BY <1>1, <1>2 DEF ArgsAreHeld, RefTypes
  <1>7. QED BY <1>1, <1>3, <1>4, <1>5, <1>6, HandsKeep

LEMMA FindStep ==
  ASSUME OrderInv, OrderInv', RefInv, NEW th \in Threads, NEW o \in Objects, Find(th, o)
  PROVE  RefInv'
  <1>1. /\ o \notin held[th] /\ FirstMatch(Hash[o], {o}) # {} /\ AddRefs(One(o, 1))
        /\ held' = [held EXCEPT ![th] = @ \cup {o}]
        /\ UNCHANGED <<buckets, elements, life, owner, pc, arg, cur, multi>>
    BY DEF Find, FoundRef, contVars, linkVars, iterVars
  <1>2. RefTypes /\ ArgsAreHeld
    BY DEF RefInv
  <1>3. EntriesFor(o) # {}
    BY <1>1, FirstMatchIs
  <1>4. One(o, 1) \in [Objects -> Int] /\ \A x \in freed : One(o, 1)[x] <= 0
    BY <1>3, ReachedIsAlive, OneGiven
  <1>5. ASSUME NEW x \in Objects
        PROVE  One(o, 1)[x] + Cardinality(Holders(x)) + Cardinality(Standing(x)) + Cardinality(Places(x))
                 = Cardinality(Holders(x)') + Cardinality(Standing(x)') + Cardinality(Places(x)')
    <2>1. Cardinality(Holders(x)') = Cardinality(Holders(x)) + One(o, 1)[x]
      BY <1>1, <1>2, HolderJoins
    <2>2. Standing(x)' = Standing(x) /\ Places(x)' = Places(x)
      BY <1>1 DEF Standing, Places, PlacesOf
    <2>3. One(o, 1)[x] \in Int
      BY <1>4
    <2>4. QED BY <2>1, <2>2, <2>3, Balance
  <1>6. /\ held' \in [Threads -> SUBSET Objects] /\ cur' \in [Threads -> Objects \cup {Nil}]
        /\ multi' \in [Threads -> Result]
    BY <1>1, <1>2 DEF RefTypes
  <1>7. ArgsAreHeld'
    BY <1>1, <1>2 DEF ArgsAreHeld, RefTypes
  <1>8. QED BY <1>1, <1>4, <1>5, <1>6, <1>7, HandsKeep

\* An iterator drops the reference on the object it stood on.
LEMMA CurUnrefStep ==
  ASSUME OrderInv, OrderInv', RefInv, NEW th \in Threads, CurUnref(th)
  PROVE  RefInv'
  <1>1. RefTypes /\ ArgsAreHeld
    BY DEF RefInv
  <1>2. PICK o \in Objects : o = cur[th]
    BY <1>1 DEF CurUnref, RefTypes
  <1>3. /\ cur[th] = o /\ AddRefs(One(o, -1)) /\ cur' = [cur EXCEPT ![th] = Nil]
        /\ UNCHANGED <<buckets, elements, life, owner, pc, arg, held, multi>>
    BY <1>2 DEF CurUnref, contVars, linkVars
  <1>4. One(o, -1) \in [Objects -> Int] /\ \A x \in freed : One(o, -1)[x] <= 0
    BY OneDropped
  <1>5. ASSUME NEW x \in Objects
        PROVE  One(o, -1)[x] + Cardinality(Holders(x)) + Cardinality(Standing(x)) + Cardinality(Places(x))
                 = Cardinality(Holders(x)') + Cardinality(Standing(x)') + Cardinality(Places(x)')
    <2>1. Cardinality(Standing(x)') = Cardinality(Standing(x)) + One(o, -1)[x]
      BY <1>1, <1>3, IteratorLeaves
    <2>2. Holders(x)' = Holders(x) /\ Places(x)' = Places(x)
      BY <1>3 DEF Holders, Places, PlacesOf
    <2>3. One(o, -1)[x] \in Int
      BY <1>4
    <2>4. QED BY <2>1, <2>2, <2>3, Balance
  <1>6. /\ held' \in [Threads -> SUBSET Objects] /\ cur' \in [Threads -> Objects \cup {Nil}]
        /\ multi' \in [Threads -> Result]
    BY <1>1, <1>3 DEF RefTypes
  <1>7. ArgsAreHeld'
    BY <1>1, <1>3 DEF ArgsAreHeld
  <1>8. QED BY <1>3, <1>4, <1>5, <1>6, <1>7, HandsKeep

\* An iterator comes to the next object of a result; the place it was in is gone.
LEMMA MultiNextStep ==
  ASSUME OrderInv, OrderInv', RefInv, NEW th \in Threads, MultiNext(th)
  PROVE  RefInv'
  <1>1. RefTypes /\ ArgsAreHeld
    BY DEF RefInv
  <1>2. PICK s \in Seq(Objects) : s = multi[th] /\ s # <<>>
    BY <1>1 DEF MultiNext, RefTypes, Result
  <1>3. PICK o \in Objects : o = Head(s)
    BY <1>2, TailCounted
  <1>4. PICK t \in Result : t = Tail(s)
    BY <1>2, TailCounted
  <1>5. /\ cur[th] = Nil /\ cur' = [cur EXCEPT ![th] = o] /\ multi' = [multi EXCEPT ![th] = t]
        /\ UNCHANGED <<buckets, elements, life, owner, pc, arg, held>> /\ UNCHANGED objVars
    BY <1>2, <1>3, <1>4 DEF MultiNext, contVars, linkVars
  <1>6. /\ multi \in [Threads -> Result] /\ multi' \in [Threads -> Result]
        /\ multi[th] = s /\ multi'[th] = t
        /\ \A x \in Threads : x # th => multi'[x] = multi[x]
    BY <1>1, <1>2, <1>5 DEF RefTypes
  <1>7. /\ AddRefs(Nothing) /\ Nothing \in [Objects -> Int] /\ \A x \in Objects : Nothing[x] = 0
        /\ \A x \in freed : Nothing[x] <= 0
    <2>1. AddRefs(Nothing) /\ Nothing \in [Objects -> Int] /\ \A x \in Objects : Nothing[x] = 0
      BY <1>1, <1>5, NothingGiven
    <2>2. QED BY <1>1, <2>1 DEF RefTypes
  <1>8. ASSUME NEW x \in Objects
        PROVE  Nothing[x] + Cardinality(Holders(x)) + Cardinality(Standing(x)) + Cardinality(Places(x))
                 = Cardinality(Holders(x)') + Cardinality(Standing(x)') + Cardinality(Places(x)')
    <2>1. Cardinality(Standing(x)') = Cardinality(Standing(x)) + One(o, 1)[x]
      BY <1>1, <1>5, IteratorStands
    <2>2. Holders(x)' = Holders(x)
      BY <1>5 DEF Holders
    <2>3. One(o, 1)[x] = IF o = x THEN 1 ELSE 0
      BY OneIs
    <2>4. Cardinality(PlacesIn(multi', x)) + Cardinality(At(multi[th], x))
            = Cardinality(PlacesIn(multi, x)) + Cardinality(At(multi'[th], x))
      BY <1>6, PlacesChange
    <2>5. Cardinality(Places(x)') + Cardinality(At(s, x))
            = Cardinality(Places(x)) + Cardinality(At(t, x))
      BY <1>6, <2>4, PlacesAre
    <2>6. Cardinality(At(s, x)) = Cardinality(At(t, x)) + (IF o = x THEN 1 ELSE 0)
      BY <1>2, <1>3, <1>4, TailCounted
    <2>7. Cardinality(At(s, x)) \in Nat /\ Cardinality(At(t, x)) \in Nat
      BY <1>2, <1>4, PlacesFinite DEF Result
    <2>8. Cardinality(Places(x)') \in Nat
      BY <1>6, HandsCounted
    <2>9. Nothing[x] = 0
      BY <1>7
    <2>10. Cardinality(Standing(x)') + Cardinality(Places(x)')
             = Cardinality(Standing(x)) + Cardinality(Places(x))
      <3>1. Cardinality(Standing(x)) \in Nat /\ Cardinality(Places(x)) \in Nat
        BY Balance
      <3>2. CASE o = x
        BY <2>1, <2>3, <2>5, <2>6, <2>7, <2>8, <3>1, <3>2
      <3>3. CASE o # x
        BY <2>1, <2>3, <2>5, <2>6, <2>7, <2>8, <3>1, <3>3
      <3>4. QED BY <3>2, <3>3
    <2>11. Cardinality(Standing(x)') \in Nat
      BY <1>6, HandsCounted
    <2>12. PICK h \in Nat, k \in Nat, l \in Nat, c \in Nat, d \in Nat :
             /\ h = Cardinality(Holders(x)) /\ k = Cardinality(Standing(x)) /\ l = Cardinality(Places(x))
             /\ c = Cardinality(Standing(x)') /\ d = Cardinality(Places(x)')
      BY <2>8, <2>11, Balance
    <2>13. 0 + h + k + l = h + c + d
      <3>1. c + d = k + l
        BY <2>10, <2>12
      <3>2. QED BY <3>1
    <2>14. QED BY <2>2, <2>9, <2>12, <2>13
  <1>9. held' \in [Threads -> SUBSET Objects] /\ cur' \in [Threads -> Objects \cup {Nil}]
    BY <1>1, <1>5 DEF RefTypes
  <1>10. ArgsAreHeld'
    BY <1>1, <1>5 DEF ArgsAreHeld
  <1>11. QED BY <1>5, <1>6, <1>7, <1>8, <1>9, <1>10, HandsKeep

\* A result that is put together has a place for every match.
LEMMA ResultIs ==
  ASSUME OrderInv, NEW M, NEW r, r = [i \in DOMAIN Found(M) |-> Found(M)[i].obj]
  PROVE  /\ r \in Result
         /\ \A o : Cardinality(At(r, o)) = Cardinality({e \in MatchesOf(M) : e.obj = o})
  <1>1. /\ Found(M) \in Seq(Entry) /\ Len(Found(M)) \in Nat
        /\ DOMAIN Found(M) = 1 .. Len(Found(M))
        /\ \A i \in 1 .. Len(Found(M)) : Found(M)[i] \in Entry
    BY FoundIs
  <1>2. \A i \in 1 .. Len(Found(M)) : Found(M)[i].obj \in Objects
    BY <1>1 DEF Entry
  <1>3. PICK n \in Nat : n = Len(Found(M))
    BY <1>1
  <1>4. r = [i \in 1 .. n |-> Found(M)[i].obj]
    BY <1>1, <1>3
  <1>5. r \in Seq(Objects) /\ DOMAIN r = 1 .. n
    BY <1>2, <1>3, <1>4
  <1>6. r # Nil
    BY <1>5, ConstantsAssumption
  <1>7. ASSUME NEW o
        PROVE  Cardinality(At(r, o)) = Cardinality({e \in MatchesOf(M) : e.obj = o})
    <2>1. At(r, o) = {i \in 1 .. n : Found(M)[i].obj = o}
      BY <1>4, <1>5, <1>6 DEF At
    <2>2. 1 .. n = 1 .. Len(Found(M))
      BY <1>3
    <2>3. At(r, o) = {i \in 1 .. Len(Found(M)) : Found(M)[i].obj = o}
      BY <2>1, <2>2
    <2>4. Cardinality({i \in 1 .. Len(Found(M)) : Found(M)[i].obj = o})
            = Cardinality({e \in MatchesOf(M) : e.obj = o})
      BY FoundCounts
    <2>5. QED BY <2>3, <2>4
  <1>8. QED BY <1>5, <1>7 DEF Result

\* Before it is, the thread has none with places in it.
LEMMA ResultReplaces ==
  ASSUME OrderInv, RefTypes, NEW th \in Threads, multi[th] \in {Nil, <<>>}, NEW r \in Result,
         multi' = [multi EXCEPT ![th] = r], NEW o \in Objects
  PROVE  /\ multi' \in [Threads -> Result]
         /\ Cardinality(At(r, o)) \in Nat
         /\ Cardinality(Places(o)') = Cardinality(Places(o)) + Cardinality(At(r, o))
  <1>1. /\ multi \in [Threads -> Result] /\ multi' \in [Threads -> Result]
        /\ multi'[th] = r /\ \A x \in Threads : x # th => multi'[x] = multi[x]
    BY DEF RefTypes
  <1>2. At(multi[th], o) = {}
    BY DEF At
  <1>3. Cardinality(At(multi[th], o)) = 0
    BY <1>2, FS_EmptySet
  <1>4. PICK m \in [Threads -> Result] : m = multi
    BY <1>1
  <1>5. PICK n \in [Threads -> Result] : n = multi'
    BY <1>1
  <1>6. n[th] = r /\ m[th] = multi[th] /\ \A x \in Threads : x # th => n[x] = m[x]
    BY <1>1, <1>4, <1>5
  <1>7. Cardinality(PlacesIn(n, o)) + Cardinality(At(m[th], o))
          = Cardinality(PlacesIn(m, o)) + Cardinality(At(n[th], o))
    BY <1>6, PlacesChange
  <1>8. /\ Cardinality(PlacesIn(n, o)) \in Nat /\ Cardinality(PlacesIn(m, o)) \in Nat
        /\ Cardinality(At(r, o)) \in Nat
    BY PlacesCounted, PlacesFinite
  <1>9. Cardinality(PlacesIn(n, o)) = Cardinality(PlacesIn(m, o)) + Cardinality(At(r, o))
    BY <1>3, <1>6, <1>7, <1>8
  <1>10. QED BY <1>1, <1>4, <1>5, <1>8, <1>9, PlacesAre

LEMMA CollectAllStep ==
  ASSUME OrderInv, OrderInv', RefInv, NEW th \in Threads, NEW M \in Matches, CollectAll(th, M)
  PROVE  RefInv'
  <1>1. RefTypes /\ ArgsAreHeld
    BY DEF RefInv
  <1>2. PICK r : r = [i \in DOMAIN Found(M) |-> Found(M)[i].obj]
    OBVIOUS
  <1>3. /\ multi[th] \in {Nil, <<>>} /\ multi' = [multi EXCEPT ![th] = r]
        /\ AddRefs(Each(MatchesOf(M), 1))
        /\ UNCHANGED <<buckets, elements, life, owner, pc, arg, held, cur>>
    BY <1>2 DEF CollectAll, contVars, linkVars
  <1>4. /\ r \in Result
        /\ \A o : Cardinality(At(r, o)) = Cardinality({e \in MatchesOf(M) : e.obj = o})
    BY <1>2, ResultIs
  <1>5. MatchesOf(M) \subseteq Entries
    BY DEF MatchesOf
  <1>6. /\ Each(MatchesOf(M), 1) \in [Objects -> Int]
        /\ \A x \in Objects :
             /\ Each(MatchesOf(M), 1)[x] = Cardinality({e \in MatchesOf(M) : e.obj = x})
             /\ Cardinality({e \in MatchesOf(M) : e.obj = x}) \in Nat
    BY <1>5, EachIs
  <1>7. ASSUME NEW o \in freed PROVE Each(MatchesOf(M), 1)[o] <= 0
    <2>1. o \in Objects
      BY <1>1 DEF RefTypes
    <2>2. EntriesFor(o) = {}
      BY <2>1, ReachedIsAlive
    <2>3. {e \in MatchesOf(M) : e.obj = o} = {}
      BY <1>5, <2>2 DEF EntriesFor
    <2>4. Each(MatchesOf(M), 1)[o] = 0
      BY <1>6, <2>1, <2>3, FS_EmptySet
    <2>5. QED BY <2>4
  <1>8. ASSUME NEW x \in Objects
        PROVE  Each(MatchesOf(M), 1)[x] + Cardinality(Holders(x)) + Cardinality(Standing(x))
                   + Cardinality(Places(x))
                 = Cardinality(Holders(x)') + Cardinality(Standing(x)') + Cardinality(Places(x)')
    <2>1. Holders(x)' = Holders(x) /\ Standing(x)' = Standing(x)
      BY <1>3 DEF Holders, Standing
    <2>2. /\ Cardinality(At(r, x)) \in Nat
          /\ Cardinality(Places(x)') = Cardinality(Places(x)) + Cardinality(At(r, x))
      BY <1>1, <1>3, <1>4, ResultReplaces
    <2>3. Each(MatchesOf(M), 1)[x] = Cardinality(At(r, x))
      BY <1>4, <1>6
    <2>4. QED BY <2>1, <2>2, <2>3, Balance
  <1>9. /\ held' \in [Threads -> SUBSET Objects] /\ cur' \in [Threads -> Objects \cup {Nil}]
        /\ multi' \in [Threads -> Result]
    BY <1>1, <1>3, <1>4 DEF RefTypes
  <1>10. ArgsAreHeld'
    BY <1>1, <1>3 DEF ArgsAreHeld
  <1>11. QED BY <1>3, <1>6, <1>7, <1>8, <1>9, <1>10, HandsKeep

\* What a callback removes is dropped.
LEMMA DropsKeep ==
  ASSUME OrderInv, OrderInv', RefInv, owner = Nil, life # "gone",
         NEW S, S \subseteq Entries, RemoveEntries(S), AddRefs(Each(S, -1)),
         UNCHANGED <<owner, pc, arg, held, cur, multi>>
  PROVE  RefInv'
  <1>1. RefTypes /\ ArgsAreHeld
    BY DEF RefInv
  <1>2. /\ Each(S, -1) \in [Objects -> Int]
        /\ \A x \in Objects :
             /\ Each(S, -1)[x] = - Cardinality({e \in S : e.obj = x})
             /\ Cardinality({e \in S : e.obj = x}) \in Nat
    BY EachIs
  <1>3. ASSUME NEW o \in freed PROVE Each(S, -1)[o] <= 0
    <2>1. o \in Objects
      BY <1>1 DEF RefTypes
    <2>2. PICK k \in Nat : k = Cardinality({e \in S : e.obj = o})
      BY <1>2, <2>1
    <2>3. Each(S, -1)[o] = - k
      BY <1>2, <2>1, <2>2
    <2>4. QED BY <2>3
  <1>4. ASSUME NEW x \in Objects
        PROVE  Each(S, -1)[x] + Cardinality(Holders(x)) + Cardinality(Standing(x)) + Cardinality(Places(x))
                   + Cardinality({e \in S : e.obj = x})
                 = Cardinality(Holders(x)') + Cardinality(Standing(x)') + Cardinality(Places(x)')
    <2>1. Holders(x)' = Holders(x) /\ Standing(x)' = Standing(x) /\ Places(x)' = Places(x)
      BY DEF Holders, Standing, Places, PlacesOf
    <2>2. PICK k \in Nat : k = Cardinality({e \in S : e.obj = x})
      BY <1>2
    <2>3. Each(S, -1)[x] = - k
      BY <1>2, <2>2
    <2>4. QED BY <2>1, <2>2, <2>3, Balance
  <1>5. /\ held' \in [Threads -> SUBSET Objects] /\ cur' \in [Threads -> Objects \cup {Nil}]
        /\ multi' \in [Threads -> Result]
    BY <1>1 DEF RefTypes
  <1>6. ArgsAreHeld'
    BY <1>1 DEF ArgsAreHeld
  <1>7. QED BY <1>2, <1>3, <1>4, <1>5, <1>6, RemovalBalances

LEMMA UnlinkStep ==
  ASSUME OrderInv, OrderInv', RefInv, NEW th \in Threads, NEW o \in Objects, Unlink(th, o)
  PROVE  RefInv'
  <1>1. PICK S : S = FirstMatch(Hash[o], {o})
    OBVIOUS
  <1>2. /\ owner = Nil /\ life # "gone" /\ RemoveEntries(S) /\ AddRefs(Each(S, -1))
        /\ UNCHANGED <<owner, pc, arg, held, cur, multi>>
    BY <1>1 DEF Unlink, Locked, UnlinkDrops, linkVars, iterVars
  <1>3. S \subseteq Entries
    BY <1>1, FirstMatchIs
  <1>4. QED BY <1>2, <1>3, DropsKeep

LEMMA RemoveAllStep ==
  ASSUME OrderInv, OrderInv', RefInv, NEW th \in Threads, NEW M \in Matches, RemoveAll(th, M)
  PROVE  RefInv'
  <1>1. PICK S : S = MatchesOf(M)
    OBVIOUS
  <1>2. /\ owner = Nil /\ life # "gone" /\ RemoveEntries(S) /\ AddRefs(Each(S, -1))
        /\ UNCHANGED <<owner, pc, arg, held, cur, multi>>
    BY <1>1 DEF RemoveAll, Locked, UnlinkDrops, linkVars, iterVars
  <1>3. S \subseteq Entries
    BY <1>1 DEF MatchesOf
  <1>4. QED BY <1>2, <1>3, DropsKeep

LEMMA SingleCounted ==
  ASSUME NEW e, NEW o \in Objects, e.obj = o, NEW x \in Objects
  PROVE  Cardinality({d \in {e} : d.obj = x}) = One(o, 1)[x]
  <1>1. CASE x = o
    <2>1. {d \in {e} : d.obj = x} = {e}
      BY <1>1
    <2>2. Cardinality({e}) = 1
      BY FS_Singleton
    <2>3. One(o, 1)[x] = 1
      BY <1>1 DEF One
    <2>4. QED BY <2>1, <2>2, <2>3
  <1>2. CASE x # o
    <2>1. {d \in {e} : d.obj = x} = {}
      BY <1>2
    <2>2. Cardinality({}) = 0 /\ One(o, 1)[x] = 0
      BY <1>2, FS_EmptySet, OneIs
    <2>3. QED BY <2>1, <2>2
  <1>3. QED BY <1>1, <1>2

\* The reference of an entry goes to the caller.
LEMMA FindUnlinkStep ==
  ASSUME OrderInv, OrderInv', RefInv, NEW th \in Threads, NEW o \in Objects, FindUnlink(th, o)
  PROVE  RefInv'
  <1>1. RefTypes /\ ArgsAreHeld
    BY DEF RefInv
  <1>2. PICK e : FirstMatch(Hash[o], {o}) = {e}
    BY FirstMatchIs DEF FindUnlink
  <1>3. /\ owner = Nil /\ life # "gone" /\ RemoveEntries({e}) /\ o \notin held[th]
        /\ held' = [held EXCEPT ![th] = @ \cup {o}]
        /\ UNCHANGED <<owner, pc, arg, cur, multi>> /\ UNCHANGED objVars
    BY <1>2 DEF FindUnlink, Locked, linkVars, iterVars
  <1>4. {e} \subseteq Entries /\ e.obj = o
    BY <1>2, FirstMatchIs DEF EntriesFor
  <1>5. /\ AddRefs(Nothing) /\ Nothing \in [Objects -> Int] /\ \A x \in Objects : Nothing[x] = 0
        /\ \A x \in freed : Nothing[x] <= 0
    <2>1. AddRefs(Nothing) /\ Nothing \in [Objects -> Int] /\ \A x \in Objects : Nothing[x] = 0
      BY <1>1, <1>3, NothingGiven
    <2>2. QED BY <1>1, <2>1 DEF RefTypes
  <1>6. ASSUME NEW x \in Objects
        PROVE  Nothing[x] + Cardinality(Holders(x)) + Cardinality(Standing(x)) + Cardinality(Places(x))
                   + Cardinality({d \in {e} : d.obj = x})
                 = Cardinality(Holders(x)') + Cardinality(Standing(x)') + Cardinality(Places(x)')
    <2>1. PICK k \in Int : k = One(o, 1)[x]
      BY OneIs
    <2>2. Cardinality(Holders(x)') = Cardinality(Holders(x)) + k
      BY <1>1, <1>3, <2>1, HolderJoins
    <2>3. Standing(x)' = Standing(x) /\ Places(x)' = Places(x)
      BY <1>3 DEF Standing, Places, PlacesOf
    <2>4. Cardinality({d \in {e} : d.obj = x}) = k
      BY <1>4, <2>1, SingleCounted
    <2>5. Nothing[x] = 0
      BY <1>5
    <2>6. QED BY <2>2, <2>3, <2>4, <2>5, Balance
  <1>7. /\ held' \in [Threads -> SUBSET Objects] /\ cur' \in [Threads -> Objects \cup {Nil}]
        /\ multi' \in [Threads -> Result]
    BY <1>1, <1>3 DEF RefTypes
  <1>8. ArgsAreHeld'
    BY <1>1, <1>3 DEF ArgsAreHeld, RefTypes
  <1>9. QED BY <1>3, <1>4, <1>5, <1>6, <1>7, <1>8, RemovalBalances

\* Those of all matches go to the places of a result.
LEMMA TakeAllStep ==
  ASSUME OrderInv, OrderInv', RefInv, NEW th \in Threads, NEW M \in Matches, TakeAll(th, M)
  PROVE  RefInv'
  <1>1. RefTypes /\ ArgsAreHeld
    BY DEF RefInv
  <1>2. PICK r : r = [i \in DOMAIN Found(M) |-> Found(M)[i].obj]
    OBVIOUS
  <1>3. PICK S : S = MatchesOf(M)
    OBVIOUS
  <1>4. /\ owner = Nil /\ life # "gone" /\ RemoveEntries(S)
        /\ multi[th] \in {Nil, <<>>} /\ multi' = [multi EXCEPT ![th] = r]
        /\ UNCHANGED <<owner, pc, arg, held, cur>> /\ UNCHANGED objVars
    BY <1>2, <1>3 DEF TakeAll, Locked, linkVars
  <1>5. /\ r \in Result
        /\ \A o : Cardinality(At(r, o)) = Cardinality({e \in S : e.obj = o})
    BY <1>2, <1>3, ResultIs
  <1>6. S \subseteq Entries
    BY <1>3 DEF MatchesOf
  <1>7. /\ AddRefs(Nothing) /\ Nothing \in [Objects -> Int] /\ \A x \in Objects : Nothing[x] = 0
        /\ \A x \in freed : Nothing[x] <= 0
    <2>1. AddRefs(Nothing) /\ Nothing \in [Objects -> Int] /\ \A x \in Objects : Nothing[x] = 0
      BY <1>1, <1>4, NothingGiven
    <2>2. QED BY <1>1, <2>1 DEF RefTypes
  <1>8. ASSUME NEW x \in Objects
        PROVE  Nothing[x] + Cardinality(Holders(x)) + Cardinality(Standing(x)) + Cardinality(Places(x))
                   + Cardinality({e \in S : e.obj = x})
                 = Cardinality(Holders(x)') + Cardinality(Standing(x)') + Cardinality(Places(x)')
    <2>1. PICK k : k = Cardinality({e \in S : e.obj = x})
      OBVIOUS
    <2>2. k \in Nat /\ Cardinality(Places(x)') = Cardinality(Places(x)) + k
      BY <1>1, <1>4, <1>5, <2>1, ResultReplaces
    <2>3. Holders(x)' = Holders(x) /\ Standing(x)' = Standing(x)
      BY <1>4 DEF Holders, Standing
    <2>4. Nothing[x] = 0
      BY <1>7
    <2>5. QED BY <2>1, <2>2, <2>3, <2>4, Balance
  <1>9. /\ held' \in [Threads -> SUBSET Objects] /\ cur' \in [Threads -> Objects \cup {Nil}]
        /\ multi' \in [Threads -> Result]
    BY <1>1, <1>4, <1>5 DEF RefTypes
  <1>10. ArgsAreHeld'
    BY <1>1, <1>4 DEF ArgsAreHeld
  <1>11. QED BY <1>4, <1>6, <1>7, <1>8, <1>9, <1>10, RemovalBalances

\* An iterator takes a reference on what it comes to, or that of the entry it removes.
LEMMA IterNextStep ==
  ASSUME OrderInv, OrderInv', RefInv, CallerLocks, NEW th \in Threads, IterNext(th)
  PROVE  RefInv'
  <1>1. RefTypes /\ ArgsAreHeld
    BY DEF RefInv
  <1>2. /\ owner = Nil /\ life # "gone" /\ it[th].on /\ it[th].bucket \in Buckets /\ cur[th] = Nil
        /\ UNCHANGED <<owner, pc, arg, held, multi>>
    BY DEF IterNext, Locked, linkVars
  <1>3. CASE NextEntry(it[th]).entry = {}
    BY <1>3, QuietSteps
  <1>4. CASE NextEntry(it[th]).entry # {}
    <2>1. PICK e \in Entries : NextEntry(it[th]).entry = {e}
      BY <1>2, <1>4, NextIs
    <2>2. PICK o \in Objects : o = e.obj
      <3>1. e.obj \in Objects
        <4>1. PICK b \in Buckets : e \in EntriesOf(b)
          BY EntriesAre
        <4>2. e \in Entry
          BY <4>1, InBucket
        <4>3. QED BY <4>2 DEF Entry
      <3>2. QED BY <3>1
    <2>3. cur' = [cur EXCEPT ![th] = o]
      BY <1>4, <2>1, <2>2 DEF IterNext
    <2>4. held' \in [Threads -> SUBSET Objects] /\ cur' \in [Threads -> Objects \cup {Nil}]
          /\ multi' \in [Threads -> Result]
      BY <1>1, <1>2, <2>3 DEF RefTypes
    <2>5. ArgsAreHeld'
      BY <1>1, <1>2 DEF ArgsAreHeld
    <2>6. \A x \in Objects : /\ Holders(x)' = Holders(x) /\ Places(x)' = Places(x)
                             /\ Cardinality(Standing(x)') = Cardinality(Standing(x)) + One(o, 1)[x]
      <3>1. \A x \in Objects : Holders(x)' = Holders(x) /\ Places(x)' = Places(x)
        BY <1>2 DEF Holders, Places, PlacesOf
      <3>2. \A x \in Objects : Cardinality(Standing(x)') = Cardinality(Standing(x)) + One(o, 1)[x]
        BY <1>1, <1>2, <2>3, IteratorStands
      <3>3. QED BY <3>1, <3>2
    <2>7. CASE ~it[th].unlink
      <3>1. AddRefs(One(o, 1)) /\ UNCHANGED <<buckets, elements, life>>
        BY <1>4, <2>1, <2>2, <2>7 DEF IterNext, contVars
      <3>2. EntriesFor(o) # {}
        BY <2>2 DEF EntriesFor
      <3>3. One(o, 1) \in [Objects -> Int] /\ \A x \in freed : One(o, 1)[x] <= 0
        BY <3>2, ReachedIsAlive, OneGiven
      <3>4. ASSUME NEW x \in Objects
            PROVE  One(o, 1)[x] + Cardinality(Holders(x)) + Cardinality(Standing(x)) + Cardinality(Places(x))
                     = Cardinality(Holders(x)') + Cardinality(Standing(x)') + Cardinality(Places(x)')
        <4>1. PICK k \in Int : k = One(o, 1)[x]
          BY <3>3
        <4>2. QED BY <2>6, <4>1, Balance
      <3>5. QED BY <1>2, <2>4, <2>5, <3>1, <3>3, <3>4, HandsKeep
    <2>8. CASE it[th].unlink
      <3>1. RemoveEntries({e}) /\ UNCHANGED objVars
        BY <1>4, <2>1, <2>8 DEF IterNext
      <3>2. /\ AddRefs(Nothing) /\ Nothing \in [Objects -> Int] /\ \A x \in Objects : Nothing[x] = 0
            /\ \A x \in freed : Nothing[x] <= 0
        <4>1. AddRefs(Nothing) /\ Nothing \in [Objects -> Int] /\ \A x \in Objects : Nothing[x] = 0
          BY <1>1, <3>1, NothingGiven
        <4>2. QED BY <1>1, <4>1 DEF RefTypes
      <3>3. ASSUME NEW x \in Objects
            PROVE  Nothing[x] + Cardinality(Holders(x)) + Cardinality(Standing(x)) + Cardinality(Places(x))
                       + Cardinality({d \in {e} : d.obj = x})
                     = Cardinality(Holders(x)') + Cardinality(Standing(x)') + Cardinality(Places(x)')
        <4>1. PICK k \in Int : k = One(o, 1)[x]
          BY OneIs
        <4>2. Cardinality({d \in {e} : d.obj = x}) = k
          BY <2>2, <4>1, SingleCounted
        <4>3. Nothing[x] = 0
          BY <3>2
        <4>4. QED BY <2>6, <4>1, <4>2, <4>3, Balance
      <3>4. {e} \subseteq Entries
        BY <2>1
      <3>5. QED BY <1>2, <2>4, <2>5, <3>1, <3>2, <3>3, <3>4, RemovalBalances
    <2>9. QED BY <2>7, <2>8
  <1>5. QED BY <1>3, <1>4

\* The end of the container drops a reference for every entry.
LEMMA DestroyStep ==
  ASSUME OrderInv, OrderInv', RefInv, DestroyContainer
  PROVE  RefInv'
  <1>1. /\ AddRefs(Each(Entries, -1)) /\ life' = "gone"
        /\ buckets' = [b \in Buckets |-> <<>>]
        /\ \A th \in Threads : pc[th] = "idle"
        /\ UNCHANGED <<elements, owner, pc, arg, held, cur, multi>>
    BY DEF DestroyContainer, linkVars, iterVars
  <1>2. RefTypes /\ ArgsAreHeld
    BY DEF RefInv
  <1>3. Entries' = {} /\ \A o : EntriesFor(o)' = {}
    <2>1. \A b \in Buckets : EntriesOf(b)' = {}
      BY <1>1 DEF EntriesOf, ToSet
    <2>2. \A d : d \in Entries' <=> \E b \in Buckets : d \in EntriesOf(b)'
      BY DEF Entries
    <2>3. Entries' = {}
      BY <2>1, <2>2
    <2>4. QED BY <2>3 DEF EntriesFor
  <1>4. IsFiniteSet(Entries') /\ ElementsCounted' /\ LinkedIsThere'
    BY <1>1, <1>3, FS_EmptySet DEF ElementsCounted, LinkedIsThere
  <1>5. /\ elements' \in Nat /\ life' \in {"fresh", "pinned", "gone"} /\ owner' \in Threads \cup {Nil}
        /\ held' \in [Threads -> SUBSET Objects] /\ cur' \in [Threads -> Objects \cup {Nil}]
        /\ multi' \in [Threads -> Result]
    BY <1>1, <1>2 DEF RefTypes
  <1>6. ArgsAreHeld'
    BY <1>1, <1>2 DEF ArgsAreHeld
  <1>7. \A x \in Objects :
          /\ Each(Entries, -1)[x] = - Cardinality({e \in Entries : e.obj = x})
          /\ Cardinality({e \in Entries : e.obj = x}) \in Nat
    BY EachIs
  <1>8. Each(Entries, -1) \in [Objects -> Int]
    BY EachIs
  <1>9. ASSUME NEW x \in Objects
        PROVE  \E k \in Nat : Cardinality(EntriesFor(x)) = k /\ Each(Entries, -1)[x] = - k
    BY <1>7 DEF EntriesFor
  <1>10. ASSUME NEW o \in freed PROVE Each(Entries, -1)[o] <= 0
    <2>1. o \in Objects
      BY <1>2 DEF RefTypes
    <2>2. PICK k \in Nat : Each(Entries, -1)[o] = - k
      BY <1>9, <2>1
    <2>3. QED BY <2>2
  <1>11. ASSUME NEW x \in Objects
         PROVE  refs[x] + Each(Entries, -1)[x] + Cardinality(Linking(x)')
                  = Cardinality(Holders(x)') + Cardinality(Standing(x)') + Cardinality(Places(x)')
                    + Cardinality(EntriesFor(x)')
    <2>1. PICK k \in Nat : Cardinality(EntriesFor(x)) = k /\ Each(Entries, -1)[x] = - k
      BY <1>9
    <2>2. /\ Holders(x)' = Holders(x) /\ Standing(x)' = Standing(x) /\ Places(x)' = Places(x)
          /\ Linking(x)' = Linking(x)
      BY <1>1 DEF Holders, Standing, Places, PlacesOf, Linking
    <2>3. Cardinality(EntriesFor(x)') = 0
      BY <1>3, FS_EmptySet
    <2>4. QED BY <2>1, <2>2, <2>3, Balance
  <1>12. QED BY <1>1, <1>4, <1>5, <1>6, <1>8, <1>10, <1>11, BalanceKeeps

LEMMA InitRefs == Init => RefInv
  <1>1. SUFFICES ASSUME Init PROVE RefInv
    OBVIOUS
  <1>2. /\ buckets = [b \in Buckets |-> <<>>] /\ elements = 0 /\ life = "fresh" /\ owner = Nil
        /\ refs = [o \in Objects |-> 0] /\ freed = {}
        /\ held = [th \in Threads |-> {}]
        /\ pc = [th \in Threads |-> "idle"] /\ arg = [th \in Threads |-> Nil]
        /\ cur = [th \in Threads |-> Nil] /\ multi = [th \in Threads |-> Nil]
    BY <1>1 DEF Init
  <1>3. RefTypes /\ ArgsAreHeld /\ LinkedIsThere /\ FreedAreDead
    BY <1>2 DEF RefTypes, Result, ArgsAreHeld, LinkedIsThere, FreedAreDead
  <1>4. Entries = {} /\ \A o : EntriesFor(o) = {}
    <2>1. \A b \in Buckets : EntriesOf(b) = {}
      BY <1>2 DEF EntriesOf, ToSet
    <2>2. QED BY <2>1 DEF Entries, EntriesFor
  <1>5. ElementsCounted
    BY <1>2, <1>4, FS_EmptySet DEF ElementsCounted
  <1>6. ASSUME NEW o \in Objects PROVE References(o)
    <2>1. Linking(o) = {} /\ Holders(o) = {} /\ Standing(o) = {} /\ Places(o) = {}
      BY <1>2, ConstantsAssumption DEF Linking, Holders, Standing, Places, PlacesOf
    <2>2. Cardinality({}) = 0 /\ refs[o] = 0
      BY <1>2, FS_EmptySet
    <2>3. QED BY <1>4, <2>1, <2>2 DEF References
  <1>7. QED BY <1>3, <1>5, <1>6 DEF RefInv

LEMMA StepRefs ==
  ASSUME OrderInv, OrderInv', RefInv, CallerLocks, [Next]_vars
  PROVE  RefInv'
  <1>1. CASE DestroyContainer
    BY <1>1, DestroyStep
  <1>2. ASSUME NEW th \in Threads, Link(th)
        PROVE  RefInv'
    BY <1>2, QuietSteps, InsertStep, LinkRefStep DEF Link
  <1>3. ASSUME NEW th \in Threads, MultiNext(th) \/ CurUnref(th) \/ IterNext(th)
        PROVE  RefInv'
    BY <1>3, MultiNextStep, CurUnrefStep, IterNextStep
  <1>4. ASSUME NEW th \in Threads, MultiDestroy(th) \/ IterDestroy(th)
        PROVE  RefInv'
    BY <1>4, QuietSteps
  <1>5. ASSUME NEW th \in Threads, NEW unlink \in BOOLEAN, IterInit(th, unlink)
        PROVE  RefInv'
    BY <1>5, QuietSteps
  <1>6. ASSUME NEW th \in Threads, NEW o \in Objects, LinkCall(th, o)
        PROVE  RefInv'
    BY <1>6, QuietSteps
  <1>7. ASSUME NEW th \in Threads, NEW o \in Objects,
               Alloc(th, o) \/ Unref(th, o) \/ Unlink(th, o) \/ Find(th, o) \/ FindUnlink(th, o)
        PROVE  RefInv'
    BY <1>7, AllocStep, UnrefStep, UnlinkStep, FindStep, FindUnlinkStep
  <1>8. ASSUME NEW th \in Threads, NEW M \in Matches,
               RemoveAll(th, M) \/ CollectAll(th, M) \/ TakeAll(th, M)
        PROVE  RefInv'
    BY <1>8, RemoveAllStep, CollectAllStep, TakeAllStep
  <1>9. CASE UNCHANGED vars
    <2>1. /\ UNCHANGED <<buckets, elements, refs, freed, held, cur, multi>>
          /\ UNCHANGED <<life, owner, pc, arg>>
      BY <1>9 DEF vars, contVars, objVars, linkVars, iterVars
    <2>2. owner' \in Threads \cup {Nil} /\ ArgsAreHeld'
      BY <2>1 DEF RefInv, RefTypes, ArgsAreHeld
    <2>3. QED BY <2>1, <2>2, QuietKeeps
  <1>10. QED BY <1>1, <1>2, <1>3, <1>4, <1>5, <1>6, <1>7, <1>8, <1>9 DEF Next

LEMMA Refs ==
  ASSUME CallerLocks
  PROVE  Spec => [](OrderInv /\ RefInv)
  <1>1. Init => OrderInv /\ RefInv
    BY InitOrder, InitRefs
  <1>2. OrderInv /\ RefInv /\ [Next]_vars => OrderInv' /\ RefInv'
    BY StepOrder, StepRefs
  <1>3. QED BY <1>1, <1>2, PTL DEF Spec

----------------------------------------------------------------------------
(* The theorems.                                                           *)

\* If the callers of obj_link lock the container, versions increase along every bucket.
THEOREM VersionsAlwaysIncrease ==
  ASSUME CallerLocks
  PROVE  Spec => []VersionsIncrease
  <1>1. OrderInv => VersionsIncrease
    BY DEF OrderInv
  <1>2. QED BY <1>1, Order, PTL

\* Then an iterator misses no entry and returns none twice, whatever other threads link, unlink
\* and drop between its steps.
THEOREM EachOnceAlways ==
  ASSUME CallerLocks
  PROVE  Spec => []EachOnce
  <1>1. OrderInv => EachOnce
    <2>1. SUFFICES ASSUME OrderInv, NEW x \in Threads, it[x].on, it[x].bucket = N + 1,
                          NEW e \in Entries
                   PROVE  e.ver \in seen[x] \cup excused[x]
      BY DEF EachOnce, NoneMissed, OrderInv
    <2>2. PICK b \in Buckets : e \in EntriesOf(b)
      BY EntriesAre
    <2>3. Hash[e.obj] = b /\ b < N + 1
      <3>1. b \in Nat /\ b < N + 1
        BY ConstantsAssumption DEF Buckets
      <3>2. QED BY <2>1, <2>2, <3>1, InBucket
    <2>4. Behind(x, e)
      BY <2>1, <2>3 DEF Behind
    <2>5. QED BY <2>1, <2>4 DEF OrderInv, SeenBehind
  <1>2. QED BY <1>1, Order, PTL

\* And the pointer it follows without a scan is never one to an entry that was removed.
THEOREM PointerAlwaysLive ==
  ASSUME CallerLocks
  PROVE  Spec => []PointerIsLive
  <1>1. OrderInv => PointerIsLive
    BY DEF OrderInv
  <1>2. QED BY <1>1, Order, PTL

\* Then every object has exactly the references that are accounted for, through link, unlink,
\* find, callbacks of every kind and iterators; and obj_container_count counts the entries.
THEOREM ReferencesAlwaysExact ==
  ASSUME CallerLocks
  PROVE  Spec => []ReferencesExact
  <1>1. OrderInv /\ RefInv => ReferencesExact
    <2>1. SUFFICES ASSUME OrderInv, RefInv PROVE TypeOK
      BY DEF ReferencesExact, RefInv
    <2>2. QED BY <2>1 DEF TypeOK, OrderInv, OrderTypes, RefInv, RefTypes, Result
  <1>2. QED BY <1>1, Refs, PTL

\* And nothing leads to an object whose destructor has run, nor to an entry that was removed.
THEOREM FreedNeverReachable ==
  ASSUME CallerLocks
  PROVE  Spec => []NothingFreedReachable
  <1>1. OrderInv /\ RefInv => NothingFreedReachable
    <2>1. SUFFICES ASSUME OrderInv, RefInv PROVE NothingLeadsToFreed
      BY DEF NothingFreedReachable, OrderInv
    <2>2. \A o \in freed : o \in Objects /\ refs[o] = 0
      BY <2>1 DEF RefInv, RefTypes, FreedAreDead
    <2>3. QED BY <2>1, <2>2, DeadIsAway DEF NothingLeadsToFreed
  <1>2. QED BY <1>1, Refs, PTL
=============================================================================

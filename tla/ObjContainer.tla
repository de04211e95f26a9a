---------------------------- MODULE ObjContainer ----------------------------
(***************************************************************************)
(* The hash container of src/src/obj.c and the reference counts of the     *)
(* objects in it: link, unlink, find, callback with its flags, and the     *)
(* iterator, which walks the container without holding its lock.           *)
(*                                                                         *)
(* Callbacks and one step of an iterator run under the container's lock    *)
(* and are one action each.  A link is several: __obj_link tests           *)
(* "!flags & OBJ_NOLOCK", which is 0 for every flags, and so never locks.  *)
(* CallerLocks says whether its callers do, as spd_taskqueue_get does; if  *)
(* they do not, the insertion itself is a data race that may lose entries, *)
(* and the model keeps only the outcomes in which it does not.             *)
(*                                                                         *)
(* An entry is identified by its version.  A version number is never used  *)
(* twice: wrap-around of the counter is out of the bound MaxVersion.       *)
(*                                                                         *)
(* A definition that stands before another one and is used nowhere is that *)
(* other with a mistake in it; the properties are tried against these.     *)
(***************************************************************************)
EXTENDS Integers, Sequences, FiniteSets, SequencesExt

CONSTANTS
  Threads,
  Walkers,      \* the threads that use iterators and OBJ_MULTIPLE results
  Objects,
  N,            \* n_buckets
  Hash,         \* the bucket of each object
  CallerLocks,  \* obj_link is called with the container locked
  Nil,
  Matches,      \* what the callbacks of OBJ_MULTIPLE may match: sets of objects
  MaxVersion    \* bound: the versions a behaviour uses up

Buckets == 1 .. N

ASSUME ConstantsAssumption ==
  /\ IsFiniteSet(Threads) /\ Walkers \subseteq Threads
  /\ N \in Nat \ {0}
  /\ Hash \in [Objects -> Buckets]
  /\ CallerLocks \in BOOLEAN
  /\ Matches \subseteq SUBSET Objects
  /\ MaxVersion \in Nat
  /\ Nil \notin Threads \cup Objects \cup Seq(Objects)

VARIABLES
  \* struct obj_container
  buckets,   \* the entries [ver, obj] of each bucket
  version,
  elements,
  life,      \* "fresh"; "pinned", by the reference an iterator leaves on it; "gone"
  owner,     \* owner of the container's lock, between actions
  \* the objects
  refs,
  freed,     \* objects whose destructor has run
  held,      \* references each thread holds, one per object at most
  \* obj_link in progress: program counter, object, version of the new entry
  pc, arg, ver,
  \* one iterator per thread, the object it returned last, and the list of an
  \* OBJ_MULTIPLE result
  it, cur, multi,
  \* history of each iteration: entries returned, whether one was returned twice,
  \* and those put into a bucket the iterator had already left
  seen, twice, excused

contVars == <<buckets, version, elements, life>>
objVars == <<refs, freed>>
linkVars == <<pc, arg, ver>>
iterVars == <<it, cur, multi>>
histVars == <<seen, twice, excused>>
vars == <<contVars, owner, objVars, held, linkVars, iterVars, histVars>>

NoIterator == [on |-> FALSE, unlink |-> FALSE, bucket |-> 1, ver |-> 0, cver |-> 0, ptr |-> 0]

Init ==
  /\ buckets = [b \in Buckets |-> <<>>]
  /\ version = 1
  /\ elements = 0
  /\ life = "fresh"
  /\ owner = Nil
  /\ refs = [o \in Objects |-> 0]
  /\ freed = {}
  /\ held = [th \in Threads |-> {}]
  /\ pc = [th \in Threads |-> "idle"]
  /\ arg = [th \in Threads |-> Nil]
  /\ ver = [th \in Threads |-> 0]
  /\ it = [th \in Threads |-> NoIterator]
  /\ cur = [th \in Threads |-> Nil]
  /\ multi = [th \in Threads |-> Nil]
  /\ seen = [th \in Threads |-> {}]
  /\ twice = [th \in Threads |-> FALSE]
  /\ excused = [th \in Threads |-> {}]

----------------------------------------------------------------------------
(* Entries and references. *)

EntriesOf(b) == ToSet(buckets[b])
Entries == UNION {EntriesOf(b) : b \in Buckets}
EntriesFor(o) == {e \in Entries : e.obj = o}

MatchesOf(M) == {e \in Entries : e.obj \in M}

\* The first entry of bucket b that passes a test, as a set.
FirstOf(b, Test(_)) ==
  {e \in EntriesOf(b) : \E k \in DOMAIN buckets[b] :
     /\ e = buckets[b][k] /\ Test(e)
     /\ \A j \in 1 .. k - 1 : ~Test(buckets[b][j])}

\* The first match in bucket b.
FirstMatch(b, M) == FirstOf(b, LAMBDA e : e.obj \in M)

\* obj_ref on every object, by the amount given for it; at zero the object is freed.
AddRefs(amount) ==
  /\ refs' = [o \in Objects |-> refs[o] + amount[o]]
  /\ freed' = freed \cup {o \in Objects : amount[o] < 0 /\ refs[o] + amount[o] <= 0}

One(o, k) == [x \in Objects |-> IF x = o THEN k ELSE 0]
Each(S, k) == [o \in Objects |-> k * Cardinality({e \in S : e.obj = o})]

\* What a traversal that takes out the entries in S leaves of a bucket.
Without(s, S) ==
  LET left[n \in 0 .. Len(s)] ==
        IF n = 0 THEN <<>> ELSE IF s[n] \in S THEN left[n - 1] ELSE Append(left[n - 1], s[n])
  IN  left[Len(s)]

\* What a traversal of all buckets finds of the objects in M, in its order.
Found(M) ==
  LET upto[b \in 0 .. N] ==
        IF b = 0 THEN <<>> ELSE upto[b - 1] \o Without(buckets[b], Entries \ MatchesOf(M))
  IN  upto[N]

\* The removal of entries, one by one, by a callback or an iterator.
RemoveQuietly(S) ==
  /\ buckets' = [b \in Buckets |-> Without(buckets[b], S)]
  /\ version' = version
  /\ elements' = elements - Cardinality(S)
  /\ life' = life
RemoveEntries(S) ==
  /\ version + Cardinality(S) <= MaxVersion
  /\ buckets' = [b \in Buckets |-> Without(buckets[b], S)]
  /\ version' = version + Cardinality(S)
  /\ elements' = elements - Cardinality(S)
  /\ life' = life

\* A thread calls one operation at a time, and locks the container for each.
Locked(th) == pc[th] = "idle" /\ owner = Nil /\ life # "gone"

----------------------------------------------------------------------------
(* Objects. *)

\* obj_alloc: the caller has the one reference.
Alloc(th, o) ==
  /\ pc[th] = "idle"
  /\ refs[o] = 0 /\ o \notin freed
  /\ refs' = [refs EXCEPT ![o] = 1]
  /\ held' = [held EXCEPT ![th] = @ \cup {o}]
  /\ UNCHANGED <<contVars, owner, freed, linkVars, iterVars, histVars>>

\* obj_ref(o, -1) by a thread that has a reference.
Unref(th, o) ==
  /\ pc[th] = "idle"
  /\ o \in held[th]
  /\ AddRefs(One(o, -1))
  /\ held' = [held EXCEPT ![th] = @ \ {o}]
  /\ UNCHANGED <<contVars, owner, linkVars, iterVars, histVars>>

----------------------------------------------------------------------------
(* obj_link, in the order of its effects. *)

LinkCall(th, o) ==
  /\ pc[th] = "idle"
  /\ o \in held[th] /\ life # "gone"
  /\ owner = Nil \/ ~CallerLocks
  /\ owner' = IF CallerLocks THEN th ELSE owner
  /\ pc' = [pc EXCEPT ![th] = "version"]
  /\ arg' = [arg EXCEPT ![th] = o]
  /\ UNCHANGED <<contVars, objVars, held, ver, iterVars, histVars>>

LinkVersion(th) ==
  /\ pc[th] = "version"
  /\ version < MaxVersion
  /\ ver' = [ver EXCEPT ![th] = version]
  /\ version' = version + 1
  /\ pc' = [pc EXCEPT ![th] = "insert"]
  /\ UNCHANGED <<buckets, elements, life, owner, objVars, held, arg, iterVars, histVars>>

AtTail(b, e) == buckets' = [buckets EXCEPT ![b] = Append(@, e)]

LinkInsert(th) ==
  LET b == Hash[arg[th]] IN
  /\ pc[th] = "insert"
  /\ AtTail(b, [ver |-> ver[th], obj |-> arg[th]])
  /\ excused' = [x \in Threads |->
       IF it[x].on /\ b < it[x].bucket THEN excused[x] \cup {ver[th]} ELSE excused[x]]
  /\ elements' = elements + 1
  /\ pc' = [pc EXCEPT ![th] = "ref"]
  /\ UNCHANGED <<version, life, owner, objVars, held, arg, ver, iterVars, seen, twice>>

LinkRef(th) ==
  /\ pc[th] = "ref"
  /\ AddRefs(One(arg[th], 1))
  /\ owner' = IF CallerLocks THEN Nil ELSE owner
  /\ pc' = [pc EXCEPT ![th] = "idle"]
  /\ arg' = [arg EXCEPT ![th] = Nil]
  /\ ver' = [ver EXCEPT ![th] = 0]
  /\ UNCHANGED <<contVars, held, iterVars, histVars>>

\* No memory for the entry: link and nothing else has happened.
LinkFails(th) ==
  /\ pc[th] = "version"
  /\ owner' = IF CallerLocks THEN Nil ELSE owner
  /\ pc' = [pc EXCEPT ![th] = "idle"]
  /\ arg' = [arg EXCEPT ![th] = Nil]
  /\ UNCHANGED <<contVars, objVars, held, ver, iterVars, histVars>>

----------------------------------------------------------------------------
(* internal_obj_callback.  With OBJ_POINTER it looks into the bucket of the     *)
(* argument, otherwise into all; without OBJ_MULTIPLE it stops at the first     *)
(* match.                                                                       *)

\* obj_unlink: OBJ_UNLINK | OBJ_POINTER | OBJ_NODATA, matching the address.
UnlinkNothingDropped(S) == Each(S, 0)
UnlinkDrops(S) == Each(S, -1)

Unlink(th, o) ==
  LET S == FirstMatch(Hash[o], {o}) IN
  /\ Locked(th)
  /\ o \in held[th]
  /\ RemoveEntries(S)
  /\ AddRefs(UnlinkDrops(S))
  /\ UNCHANGED <<owner, held, linkVars, iterVars, histVars>>

\* obj_find: OBJ_POINTER; the object found gets a reference.
FoundRef(o) == One(o, 1)

Find(th, o) ==
  /\ Locked(th)
  /\ o \notin held[th]
  /\ FirstMatch(Hash[o], {o}) # {}
  /\ AddRefs(FoundRef(o))
  /\ held' = [held EXCEPT ![th] = @ \cup {o}]
  /\ UNCHANGED <<contVars, owner, linkVars, iterVars, histVars>>

\* OBJ_POINTER | OBJ_UNLINK: the container's reference goes to the caller.
FindUnlink(th, o) ==
  LET S == FirstMatch(Hash[o], {o}) IN
  /\ Locked(th)
  /\ o \notin held[th]
  /\ S # {}
  /\ RemoveEntries(S)
  /\ held' = [held EXCEPT ![th] = @ \cup {o}]
  /\ UNCHANGED <<owner, objVars, linkVars, iterVars, histVars>>

\* OBJ_UNLINK | OBJ_MULTIPLE | OBJ_NODATA: every match is removed and dropped.
RemoveAll(th, M) ==
  LET S == MatchesOf(M) IN
  /\ Locked(th)
  /\ S # {}
  /\ RemoveEntries(S)
  /\ AddRefs(UnlinkDrops(S))
  /\ UNCHANGED <<owner, held, linkVars, iterVars, histVars>>

\* OBJ_MULTIPLE: the matches are linked into a list of their own, which the caller
\* takes apart by an iterator that unlinks.
CollectAll(th, M) ==
  /\ Locked(th)
  /\ th \in Walkers
  /\ ~it[th].on /\ multi[th] \in {Nil, <<>>}
  /\ MatchesOf(M) # {}
  /\ multi' = [multi EXCEPT ![th] = [i \in DOMAIN Found(M) |-> Found(M)[i].obj]]
  /\ AddRefs(Each(MatchesOf(M), 1))
  /\ UNCHANGED <<contVars, owner, held, linkVars, it, cur, histVars>>

\* OBJ_MULTIPLE | OBJ_UNLINK: the reference of the list replaces the container's.
TakeAll(th, M) ==
  /\ Locked(th)
  /\ th \in Walkers
  /\ ~it[th].on /\ multi[th] \in {Nil, <<>>}
  /\ MatchesOf(M) # {}
  /\ multi' = [multi EXCEPT ![th] = [i \in DOMAIN Found(M) |-> Found(M)[i].obj]]
  /\ RemoveEntries(MatchesOf(M))
  /\ UNCHANGED <<owner, objVars, held, linkVars, it, cur, histVars>>

MultiNext(th) ==
  /\ pc[th] = "idle"
  /\ multi[th] \notin {Nil, <<>>} /\ cur[th] = Nil
  /\ cur' = [cur EXCEPT ![th] = Head(multi[th])]
  /\ multi' = [multi EXCEPT ![th] = Tail(@)]
  /\ UNCHANGED <<contVars, owner, objVars, held, linkVars, it, histVars>>

\* obj_iterator_destory on the iterator of such a result: spd_safe_free(i) clears i,
\* and i->c is written through it.  The process dies;
\* here, the thread takes no more steps.
MultiDestroy(th) ==
  /\ pc[th] = "idle"
  /\ multi[th] # Nil /\ cur[th] = Nil
  /\ pc' = [pc EXCEPT ![th] = "crashed"]
  /\ UNCHANGED <<contVars, owner, objVars, held, arg, ver, iterVars, histVars>>

----------------------------------------------------------------------------
(* The iterator. *)

IterInit(th, unlink) ==
  /\ pc[th] = "idle"
  /\ th \in Walkers /\ life # "gone"
  /\ ~it[th].on /\ multi[th] \in {Nil, <<>>}
  /\ life' = "pinned"
  /\ it' = [it EXCEPT ![th] = [NoIterator EXCEPT !.on = TRUE, !.unlink = unlink]]
  /\ UNCHANGED <<buckets, version, elements, owner, objVars, held, linkVars, cur, multi, histVars>>

\* If the container has not changed since the pointer was saved, the pointer is followed.
Follows(i) == i.cver = version /\ i.ptr # 0

\* The place of the entry the iterator points to, or 0.
Place(i) ==
  LET s == buckets[i.bucket] IN
  CHOOSE k \in 0 .. Len(s) :
    IF \E j \in DOMAIN s : s[j].ver = i.ptr THEN k # 0 /\ s[k].ver = i.ptr ELSE k = 0

\* Where the scan of the buckets starts and above which version, after a pointer that
\* led to the end of its bucket, or without one.  In the next buckets it is above 0.
ScanFromKeeping(i) ==
  IF Follows(i) THEN [bucket |-> i.bucket + 1, above |-> i.ver]
                ELSE [bucket |-> i.bucket, above |-> i.ver]
ScanFrom(i) ==
  IF Follows(i) THEN [bucket |-> i.bucket + 1, above |-> 0]
                ELSE [bucket |-> i.bucket, above |-> i.ver]

Higher(e, v) == e.ver > v

\* The first entry of bucket b that is newer than v.
FirstHigher(b, v) == FirstOf(b, LAMBDA e : Higher(e, v))

\* What internal_obj_iterator_next finds: the bucket it stops at, N + 1 at the end,
\* and the entry.
NextEntry(i) ==
  LET start == ScanFrom(i)
      above(b) == IF b = start.bucket THEN start.above ELSE 0
      hits == {b \in start.bucket .. N : FirstHigher(b, above(b)) # {}}
      b == CHOOSE b \in hits : \A c \in hits : b <= c
  IN  IF Follows(i) /\ Place(i) < Len(buckets[i.bucket])
      THEN [bucket |-> i.bucket, entry |-> {buckets[i.bucket][Place(i) + 1]}]
      ELSE IF hits = {} THEN [bucket |-> N + 1, entry |-> {}]
      ELSE [bucket |-> b, entry |-> FirstHigher(b, above(b))]

\* The next call is made after the reference on the object before was dropped.
IterNext(th) ==
  LET next == NextEntry(it[th]) IN
  /\ Locked(th)
  /\ it[th].on /\ it[th].bucket \in Buckets
  /\ cur[th] = Nil
  /\ \/ /\ next.entry = {}
        /\ it' = [it EXCEPT ![th].bucket = next.bucket, ![th].ver = 0,
                            ![th].ptr = IF Follows(it[th]) THEN 0 ELSE @]
        /\ UNCHANGED <<contVars, objVars, cur, histVars>>
     \/ \E e \in next.entry :
        /\ cur' = [cur EXCEPT ![th] = e.obj]
        /\ seen' = [seen EXCEPT ![th] = @ \cup {e.ver}]
        /\ twice' = [twice EXCEPT ![th] = @ \/ e.ver \in seen[th]]
        /\ \/ /\ ~it[th].unlink
              /\ it' = [it EXCEPT ![th].bucket = next.bucket, ![th].ver = e.ver,
                                  ![th].ptr = e.ver, ![th].cver = version]
              /\ AddRefs(One(e.obj, 1))
              /\ UNCHANGED contVars
           \/ /\ it[th].unlink
              /\ RemoveEntries({e})
              /\ it' = [it EXCEPT ![th].bucket = next.bucket, ![th].ver = 0,
                                  ![th].ptr = 0, ![th].cver = version']
              /\ UNCHANGED objVars
        /\ UNCHANGED excused
  /\ UNCHANGED <<owner, held, linkVars, multi>>

\* obj_ref(o, -1) at the end of the loop's body.
CurUnref(th) ==
  /\ pc[th] = "idle"
  /\ cur[th] # Nil
  /\ AddRefs(One(cur[th], -1))
  /\ cur' = [cur EXCEPT ![th] = Nil]
  /\ UNCHANGED <<contVars, owner, held, linkVars, it, multi, histVars>>

\* obj_iterator_destory.  It drops a reference on the iterator, which is no object,
\* and so none on the container, which keeps the iterator's for ever.
IterDestroy(th) ==
  /\ pc[th] = "idle"
  /\ it[th].on /\ cur[th] = Nil
  /\ it' = [it EXCEPT ![th] = NoIterator]
  /\ seen' = [seen EXCEPT ![th] = {}]
  /\ twice' = [twice EXCEPT ![th] = FALSE]
  /\ excused' = [excused EXCEPT ![th] = {}]
  /\ UNCHANGED <<contVars, owner, objVars, held, linkVars, cur, multi>>

----------------------------------------------------------------------------
\* container_destruct, when the application drops the container's last reference, which
\* nobody uses any more: the callback drops one reference for every entry.  elements stays.
DestroyContainer ==
  /\ life = "fresh"
  /\ owner = Nil /\ \A th \in Threads : pc[th] = "idle"
  /\ life' = "gone"
  /\ buckets' = [b \in Buckets |-> <<>>]
  /\ AddRefs(Each(Entries, -1))
  /\ UNCHANGED <<version, elements, owner, held, linkVars, iterVars, histVars>>

----------------------------------------------------------------------------
Link(th) ==
  \/ LinkVersion(th) \/ LinkInsert(th) \/ LinkRef(th) \/ LinkFails(th)

Next ==
  \/ DestroyContainer
  \/ \E th \in Threads :
      \/ Link(th)
      \/ MultiNext(th) \/ MultiDestroy(th)
      \/ IterNext(th) \/ CurUnref(th) \/ IterDestroy(th)
      \/ \E unlink \in BOOLEAN : IterInit(th, unlink)
      \/ \E o \in Objects :
           \/ Alloc(th, o) \/ Unref(th, o) \/ LinkCall(th, o)
           \/ Unlink(th, o) \/ Find(th, o) \/ FindUnlink(th, o)
      \/ \E M \in Matches : RemoveAll(th, M) \/ CollectAll(th, M) \/ TakeAll(th, M)

Spec == Init /\ [][Next]_vars

----------------------------------------------------------------------------
(* Properties. *)

Entry == [ver : Nat, obj : Objects]

\* Every variable keeps the type its declaration gives it in obj.c and obj.h.
TypeOK ==
  /\ buckets \in [Buckets -> Seq(Entry)]
  /\ version \in Nat /\ elements \in Nat
  /\ life \in {"fresh", "pinned", "gone"}
  /\ owner \in Threads \cup {Nil}
  /\ refs \in [Objects -> Nat]
  /\ freed \subseteq Objects
  /\ held \in [Threads -> SUBSET Objects]
  /\ pc \in [Threads -> {"idle", "version", "insert", "ref", "crashed"}]
  /\ arg \in [Threads -> Objects \cup {Nil}]
  /\ ver \in [Threads -> Nat]
  /\ it \in [Threads -> [on : BOOLEAN, unlink : BOOLEAN, bucket : 1 .. N + 1,
                         ver : Nat, cver : Nat, ptr : Nat]]
  /\ cur \in [Threads -> Objects \cup {Nil}]
  /\ multi \in [Threads -> Seq(Objects) \cup {Nil}]
  /\ seen \in [Threads -> SUBSET Nat]
  /\ twice \in [Threads -> BOOLEAN]
  /\ excused \in [Threads -> SUBSET Nat]

\* Every entry is in the bucket its object hashes to, and versions increase along a
\* bucket: the order the iterator's scan relies on when it looks for "the next one in
\* the list with a higher number" (obj.c:245-251).
VersionsIncrease ==
  \A b \in Buckets :
    /\ \A i, j \in DOMAIN buckets[b] : i < j => buckets[b][i].ver < buckets[b][j].ver
    /\ \A e \in EntriesOf(b) : e.ver < version /\ Hash[e.obj] = b

\* What obj_container_count returns.
ElementsCounted == life # "gone" => elements = Cardinality(Entries)

\* Who has a reference on an object: the threads that hold it, the iterators that stand on
\* it, the places of results; a link that has not come to its reference is one too few.
Holders(o) == {th \in Threads : o \in held[th]}
Standing(o) == {th \in Threads : cur[th] = o}
PlacesOf(th, o) == IF multi[th] = Nil THEN {} ELSE {i \in DOMAIN multi[th] : multi[th][i] = o}
Places(o) == UNION {{th} \X PlacesOf(th, o) : th \in Threads}
Linking(o) == {th \in Threads : pc[th] = "ref" /\ arg[th] = o}

References(o) ==
  refs[o] + Cardinality(Linking(o))
    = Cardinality(Holders(o)) + Cardinality(Standing(o)) + Cardinality(Places(o))
      + Cardinality(EntriesFor(o))

\* An object has exactly one reference for each thread that holds it, each iterator
\* that stands on it, each place in a result and each entry in the container, whatever
\* flags the callbacks had, but for links that have not come to it; and the container
\* counts its entries (obj.c:142-185, 341-365, 533-551).
ReferencesExact == TypeOK /\ ElementsCounted /\ \A o \in Objects : References(o)

\* Nothing leads to an object whose destructor has run.
NothingLeadsToFreed ==
  \A o \in freed :
    /\ refs[o] = 0
    /\ EntriesFor(o) = {}
    /\ \A th \in Threads : o \notin held[th] /\ cur[th] # o /\ arg[th] # o

\* The pointer an iterator follows without a scan is an entry still in its bucket: every
\* removal changes the version the iterator compares.
PointerIsLive ==
  \A th \in Threads :
    it[th].on /\ Follows(it[th]) /\ it[th].bucket \in Buckets =>
      \E e \in EntriesOf(it[th].bucket) : e.ver = it[th].ptr

\* No thread, entry or iterator comes upon freed memory, objects or entries, whatever is
\* removed while others search and iterate (obj.c:142-185, 533-551, 645-675, 721-740).
NothingFreedReachable == NothingLeadsToFreed /\ PointerIsLive

\* obj.h:654-659: "It is not possible to miss an object in the container while
\* iterating unless it gets added after the iteration begins and is added to a bucket
\* that is before the one the current object is in."
NoneMissed ==
  \A th \in Threads :
    it[th].on /\ it[th].bucket = N + 1 =>
      \A e \in Entries : e.ver \in seen[th] \cup excused[th]

\* obj.h:660-663: an object is seen twice only if it was unlinked and added again, that
\* is, as another entry.
NoneTwice == \A th \in Threads : ~twice[th]

\* Both, of callers that lock the container around obj_link.
EachOnce == NoneMissed /\ NoneTwice
=============================================================================

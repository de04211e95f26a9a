----------------------------- MODULE LinkedList -----------------------------
(***************************************************************************)
(* The macros of src/src/linkedlist.h: a head with pointers to the first   *)
(* and the last entry, a next pointer in each entry, and the loop in which *)
(* the current entry may be removed.  Locks are the callers' matter.       *)
(*                                                                         *)
(* The callers' part: an entry that is inserted is in no list, the list    *)
(* that is moved is another one, and nothing is inserted in a loop after   *)
(* the current entry has been removed (the macros would lose it).          *)
(*                                                                         *)
(* A definition that stands before another one and is used nowhere is that *)
(* other with a mistake in it.                                             *)
(***************************************************************************)
EXTENDS Integers, Sequences, SequencesExt, FiniteSets

CONSTANTS Heads, Entries, Rank, Nil

VARIABLES
  head,   \* by head: first and last
  next,   \* by entry
  iter    \* __list_head, cur, __list_prev, __new_prev and __list_next

vars == <<head, next, iter>>

NoIter == [over |-> {}, cur |-> Nil, prev |-> Nil, new |-> Nil, next |-> Nil]

Init ==
  /\ head = [h \in Heads |-> [first |-> Nil, last |-> Nil]]
  /\ next = [e \in Entries |-> Nil]
  /\ iter = NoIter

Walk(nxt, first) ==
  LET at[i \in 0 .. Cardinality(Entries)] ==
        IF i = 0 THEN first ELSE LET e == at[i - 1] IN IF e = Nil THEN Nil ELSE nxt[e]
  IN  [i \in {k \in 1 .. Cardinality(Entries) + 1 : at[k - 1] # Nil} |-> at[i - 1]]
In(h) == Walk(next, head[h].first)
Loose == {e \in Entries : \A h \in Heads : e \notin Range(In(h))}

NoLoop == iter = NoIter /\ UNCHANGED iter

InsertAfter(h, cur, e) ==
  /\ next' = [next EXCEPT ![e] = next[cur], ![cur] = e]
  /\ head' = [head EXCEPT ![h].last = IF @ = cur THEN e ELSE @]

InsertHeadKeepsLast(h, e) ==
  /\ next' = [next EXCEPT ![e] = head[h].first]
  /\ head' = [head EXCEPT ![h].first = e]
InsertHead(h, e) ==
  /\ next' = [next EXCEPT ![e] = head[h].first]
  /\ head' = [head EXCEPT ![h].first = e, ![h].last = IF @ = Nil THEN e ELSE @]

InsertTail(h, e) ==
  IF head[h].first = Nil
  THEN head' = [head EXCEPT ![h] = [first |-> e, last |-> e]] /\ UNCHANGED next
  ELSE /\ next' = [next EXCEPT ![head[h].last] = e]
       /\ head' = [head EXCEPT ![h].last = e]

\* Behind the entries at the front that are less.
InsertSortAlpha(h, e) ==
  LET list == In(h)
      prev == SelectInSeq(list, LAMBDA x : Rank[x] >= Rank[e]) - 1
  IN  IF list = <<>> THEN head' = [head EXCEPT ![h] = [first |-> e, last |-> e]] /\ UNCHANGED next
      ELSE IF prev = 0 THEN InsertHead(h, e)
      ELSE IF prev < 0 THEN InsertTail(h, e)
      ELSE InsertAfter(h, list[prev], e)

Insert ==
  /\ NoLoop
  /\ \E h \in Heads, e \in Loose :
       \/ InsertHead(h, e) \/ InsertTail(h, e) \/ InsertSortAlpha(h, e)
       \/ \E cur \in Range(In(h)) : InsertAfter(h, cur, e)

RemoveHead ==
  /\ NoLoop
  /\ \E h \in Heads : LET cur == head[h].first IN
       /\ cur # Nil
       /\ head' = [head EXCEPT ![h].first = next[cur], ![h].last = IF @ = cur THEN Nil ELSE @]
       /\ next' = [next EXCEPT ![cur] = Nil]

\* The entry's next is cleared even if it was not found.
RemoveEntry ==
  /\ NoLoop
  /\ \E h \in Heads : \E e \in Loose \cup Range(In(h)) :
       LET prev == {x \in Range(In(h)) : next[x] = e} IN
       IF head[h].first = e THEN
         /\ head' = [head EXCEPT ![h].first = next[e], ![h].last = IF @ = e THEN Nil ELSE @]
         /\ next' = [next EXCEPT ![e] = Nil]
       ELSE
         /\ head' = [head EXCEPT ![h].last = IF @ = e /\ prev # {} THEN CHOOSE x \in prev : TRUE ELSE @]
         /\ next' = [x \in Entries |-> IF x = e THEN Nil ELSE IF x \in prev THEN next[e] ELSE next[x]]

AppendList ==
  /\ NoLoop
  /\ \E h, from \in Heads :
       /\ h # from /\ head[from].first # Nil
       /\ head' = [head EXCEPT ![from] = [first |-> Nil, last |-> Nil],
                     ![h] = IF @.first = Nil THEN head[from] ELSE [@ EXCEPT !.last = head[from].last]]
       /\ next' = IF head[h].first = Nil THEN next
                  ELSE [next EXCEPT ![head[h].last] = head[from].first]

\* The list must not be empty: its last entry is followed without a test.
InsertListAfter ==
  /\ NoLoop
  /\ \E h, from \in Heads : \E e \in Range(In(h)) :
       /\ h # from /\ head[from].first # Nil
       /\ next' = [next EXCEPT ![head[from].last] = next[e], ![e] = head[from].first]
       /\ head' = [head EXCEPT ![from] = [first |-> Nil, last |-> Nil],
                     ![h].last = IF @ = e THEN head[from].last ELSE @]

----------------------------------------------------------------------------
(* SPD_LIST_TRAVERSE_SAFE_BEGIN to _END.                                   *)

After(e) == IF e = Nil THEN Nil ELSE next[e]

Begin ==
  /\ iter = NoIter
  /\ \E h \in Heads : LET cur == head[h].first IN
       /\ cur # Nil
       /\ iter' = [over |-> {h}, cur |-> cur, prev |-> Nil, new |-> cur, next |-> After(cur)]
  /\ UNCHANGED <<head, next>>

Advance ==
  /\ iter # NoIter
  /\ iter' = IF iter.next = Nil THEN NoIter
             ELSE [iter EXCEPT !.prev = iter.new, !.cur = iter.next, !.new = iter.next,
                               !.next = After(iter.next)]
  /\ UNCHANGED <<head, next>>

Standing == iter.new = iter.cur

RemoveCurrentKeepsPrev ==
  /\ iter # NoIter /\ Standing
  /\ \E h \in iter.over :
       /\ head' = [head EXCEPT ![h].first = IF iter.prev = Nil THEN iter.next ELSE @,
                               ![h].last = IF iter.next = Nil THEN iter.prev ELSE @]
       /\ next' = [e \in Entries |-> IF e = iter.prev THEN iter.next ELSE next[e]]
  /\ iter' = [iter EXCEPT !.new = iter.prev]
RemoveCurrent ==
  /\ iter # NoIter /\ Standing
  /\ \E h \in iter.over :
       /\ head' = [head EXCEPT ![h].first = IF iter.prev = Nil THEN iter.next ELSE @,
                               ![h].last = IF iter.next = Nil THEN iter.prev ELSE @]
       /\ next' = [e \in Entries |-> IF e = iter.cur THEN Nil
                                     ELSE IF e = iter.prev THEN iter.next ELSE next[e]]
  /\ iter' = [iter EXCEPT !.new = iter.prev]

InsertBeforeCurrent ==
  /\ iter # NoIter /\ Standing
  /\ \E h \in iter.over, e \in Loose :
       /\ IF iter.prev # Nil
          THEN /\ next' = [next EXCEPT ![e] = next[iter.prev], ![iter.prev] = e]
               /\ UNCHANGED head
          ELSE /\ next' = [next EXCEPT ![e] = head[h].first]
               /\ head' = [head EXCEPT ![h].first = e]
       /\ iter' = [iter EXCEPT !.prev = e]

Next ==
  \/ Insert \/ RemoveHead \/ RemoveEntry \/ AppendList \/ InsertListAfter
  \/ Begin \/ Advance \/ RemoveCurrent \/ InsertBeforeCurrent

Spec == Init /\ [][Next]_vars

----------------------------------------------------------------------------
\* Whatever the macros do, and in whatever order, the pointers implement sequences and the
\* loop visits each entry once (linkedlist.h:503-856).
Promised == INSTANCE Lists WITH
  lists <- [h \in Heads |-> In(h)],
  loop <- [over |-> iter.over, cur |-> IF iter.cur = Nil THEN <<>> ELSE <<iter.cur>>,
           ahead |-> Walk(next, iter.next)]
LastIsLast == \A h \in Heads : head[h].last = IF In(h) = <<>> THEN Nil ELSE Last(In(h))
\* An entry that is put into a list by its rank goes behind the lesser ones at the front.
SortsIn ==
  \/ UNCHANGED <<head, next>>
  \/ \A h \in Heads, e \in Loose : InsertSortAlpha(h, e) => Promised!InsertSorted(h)
ListsAreSequences == Promised!Spec /\ LastIsLast /\ [][LastIsLast' /\ SortsIn]_<<head, next, iter>>

=============================================================================

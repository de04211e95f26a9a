-------------------------------- MODULE Lists --------------------------------
(***************************************************************************)
(* What src/src/linkedlist.h promises: lists of entries, an entry in one   *)
(* list at most, and a loop over a list that visits what was in it when    *)
(* the loop began, once and in order, whatever it removes or inserts where *)
(* it stands.                                                              *)
(***************************************************************************)
EXTENDS Naturals, Sequences

CONSTANTS Heads, Entries, Rank

VARIABLES
  lists,  \* by head
  loop    \* the head a loop is over, its entry and those it has still to visit

vars == <<lists, loop>>

NoLoop == [over |-> {}, cur |-> <<>>, ahead |-> <<>>]

Init == lists = [h \in Heads |-> <<>>] /\ loop = NoLoop

Outside == Entries \ UNION {{lists[h][i] : i \in DOMAIN lists[h]} : h \in Heads}
Becomes(h, list) == lists' = [lists EXCEPT ![h] = list]

\* A list with others in the place of its elements from i to j - 1.
Spliced(list, i, j, others) == SubSeq(list, 1, i - 1) \o others \o SubSeq(list, j, Len(list))

Insert(h) ==
  \E e \in Outside, i \in 1 .. Len(lists[h]) + 1 : Becomes(h, Spliced(lists[h], i, i, <<e>>))

\* If the list is sorted it stays so; the new entry goes before its equals.
InsertSorted(h) ==
  \E e \in Outside :
    LET less == {i \in 0 .. Len(lists[h]) : \A j \in 1 .. i : Rank[lists[h][j]] < Rank[e]}
        n == CHOOSE i \in less : \A j \in less : j <= i
    IN  Becomes(h, Spliced(lists[h], n + 1, n + 1, <<e>>))

\* What is not there is not removed.
RemoveOne(h) ==
  \/ UNCHANGED lists
  \/ \E i \in DOMAIN lists[h] : Becomes(h, Spliced(lists[h], i, i + 1, <<>>))

Move(h, from) ==
  /\ h # from
  /\ \E i \in 1 .. Len(lists[h]) + 1 :
       lists' = [lists EXCEPT ![from] = <<>>, ![h] = Spliced(@, i, i, lists[from])]

Between ==
  /\ loop = NoLoop /\ UNCHANGED loop
  /\ \/ \E h \in Heads : RemoveOne(h) \/ Insert(h) \/ InsertSorted(h)
     \/ \E h, from \in Heads : Move(h, from)

Begin ==
  /\ loop = NoLoop /\ UNCHANGED lists
  /\ \E h \in Heads : lists[h] # <<>> /\
       loop' = [over |-> {h}, cur |-> <<Head(lists[h])>>, ahead |-> Tail(lists[h])]

Advance ==
  /\ loop # NoLoop /\ UNCHANGED lists
  /\ loop' = IF loop.ahead = <<>> THEN NoLoop
             ELSE [loop EXCEPT !.cur = <<Head(loop.ahead)>>, !.ahead = Tail(@)]

\* An entry is removed while it is the current one, or one is inserted before it.
Change ==
  /\ loop # NoLoop /\ UNCHANGED loop
  /\ \E h \in loop.over :
       LET list == lists[h]
           i == Len(list) - Len(loop.ahead)
       IN  \/ \E j \in DOMAIN list : <<list[j]>> = loop.cur /\ Becomes(h, Spliced(list, j, j + 1, <<>>))
           \/ \E e \in Outside : <<e>> # loop.cur /\ Becomes(h, Spliced(list, i, i, <<e>>))

Next == Between \/ Begin \/ Advance \/ Change
Spec == Init /\ [][Next]_vars

=============================================================================

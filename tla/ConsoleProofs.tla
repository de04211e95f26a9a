--------------------------- MODULE ConsoleProofs ---------------------------
(***************************************************************************)
(* Theorems about the registry of commands and the consoles, for every     *)
(* number of slots, clients, files, threads and entries.                   *)
(***************************************************************************)
EXTENDS Console, Basics, FiniteSetTheorems, SequenceTheorems, TLAPS

----------------------------------------------------------------------------
(* Finding an entry.                                                       *)

PatternWord == [kind : {"word", "one", "opt", "any"}, of : Seq(Words)]
IsPlain(e) == \A i \in DOMAIN Pattern[e] : Pattern[e][i].kind = "word"

\* Patterns are sequences of words.
LEMMA PatternTyped ==
  ASSUME NEW e \in Entries
  PROVE  Pattern[e] \in Seq(PatternWord) /\ Len(Pattern[e]) \in Nat
  <1>1. Pattern \in [Entries -> Seq([kind : {"word", "one", "opt", "any"}, of : Seq(Words)])]
    BY PatternsAssumption
  <1>2. Pattern \in [Entries -> Seq(PatternWord)]
    BY <1>1 DEF PatternWord
  <1>3. Pattern[e] \in Seq(PatternWord)
    BY <1>2
  <1>4. QED BY <1>3

\* Matched counts the leading words that match, and no fewer.
LEMMA MatchedIs ==
  ASSUME NEW cmds \in Seq(PatternWord), NEW e \in Entries
  PROVE  /\ Matched(cmds, e) \in Nat
         /\ Matched(cmds, e) <= Len(cmds) /\ Matched(cmds, e) <= Len(Pattern[e])
         /\ \A i \in 1 .. Matched(cmds, e) : WordMatch(cmds[i], Pattern[e][i])
         /\ \A j \in Nat :
              /\ j <= Len(cmds) /\ j <= Len(Pattern[e])
              /\ \A i \in 1 .. j : WordMatch(cmds[i], Pattern[e][i])
              => j <= Matched(cmds, e)
  <1>1. Len(cmds) \in Nat /\ Len(Pattern[e]) \in Nat
    BY PatternsAssumption
  <1>2. PICK m \in Nat : /\ m = Min({Len(cmds), Len(Pattern[e])})
                         /\ m <= Len(cmds) /\ m <= Len(Pattern[e])
                         /\ \A c \in Nat : c <= Len(cmds) /\ c <= Len(Pattern[e]) => c <= m
    BY <1>1, MinOfTwo
  <1>3. PICK S \in SUBSET (0 .. m) :
          S = {k \in 0 .. m : \A i \in 1 .. k : WordMatch(cmds[i], Pattern[e][i])}
    OBVIOUS
  <1>4. 0 \in S
    BY <1>3
  <1>5. Max(S) \in S /\ \A y \in S : y <= Max(S)
    BY <1>4, MaxIsGreatest
  <1>6. Matched(cmds, e) = Max(S)
    BY <1>2, <1>3 DEF Matched
  <1>7. QED
    <2>1. Max(S) \in 0 .. m /\ \A i \in 1 .. Max(S) : WordMatch(cmds[i], Pattern[e][i])
      BY <1>3, <1>5
    <2>2. ASSUME NEW j \in Nat, j <= Len(cmds), j <= Len(Pattern[e]),
                 \A i \in 1 .. j : WordMatch(cmds[i], Pattern[e][i])
          PROVE  j <= Max(S)
      <3>1. j <= m
        BY <1>2, <2>2
      <3>2. j \in S
        BY ONLY <1>3, <2>2, <3>1, j \in Nat, m \in Nat
      <3>3. QED BY <1>5, <3>2
    <2>3. Max(S) \in Nat /\ Max(S) <= Len(cmds) /\ Max(S) <= Len(Pattern[e])
      BY <1>1, <1>2, <2>1
    <2>4. QED BY <1>6, <2>1, <2>2, <2>3

\* An exact match, without the count.
LEMMA ExactIs ==
  ASSUME NEW cmds \in Seq(PatternWord), NEW e \in Entries
  PROVE  Exact(cmds, e) <=>
           /\ Len(cmds) <= Len(Pattern[e])
           /\ \A i \in 1 .. Len(cmds) : WordMatch(cmds[i], Pattern[e][i])
           /\ Exhausted(Len(cmds), e)
  <1>1. Len(cmds) \in Nat /\ Len(Pattern[e]) \in Nat
    BY PatternsAssumption
  <1>2. QED BY <1>1, MatchedIs DEF Exact

\* What is found is in the list.
LEMMA FindListed ==
  ASSUME NEW list \in Seq(Entries), NEW cmds \in Seq(PatternWord), NEW type
  PROVE  FindCli(list, cmds, type) \in Range(list) \cup {NoEntry}
  <1>1. PICK exact \in SUBSET DOMAIN list :
          exact = {i \in DOMAIN list : Exact(cmds, list[i])}
    OBVIOUS
  <1>2. PICK cands \in SUBSET DOMAIN list :
          cands = {i \in DOMAIN list : Candidate(cmds, list[i], type)}
    OBVIOUS
  <1>3. PICK longest \in SUBSET DOMAIN list :
          longest = {i \in cands : \A j \in cands :
                       Matched(cmds, list[j]) <= Matched(cmds, list[i])}
    OBVIOUS
  <1>4. FindCli(list, cmds, type) =
          IF exact # {} THEN list[Min(exact)]
          ELSE IF cands # {} THEN list[Min(longest)] ELSE NoEntry
    BY <1>1, <1>2, <1>3 DEF FindCli
  <1>5. DOMAIN list \subseteq Nat /\ \A i \in DOMAIN list : list[i] \in Entries
    OBVIOUS
  <1>6. exact # {} => Min(exact) \in DOMAIN list
    BY <1>5, MinIsLeast
  <1>7. ASSUME cands # {} PROVE Min(longest) \in DOMAIN list
    <2>1. \A i \in cands : Matched(cmds, list[i]) \in 0 .. Len(cmds)
      <3>1. ASSUME NEW i \in cands PROVE Matched(cmds, list[i]) \in 0 .. Len(cmds)
        <4>1. list[i] \in Entries
          BY <1>5
        <4>2. QED BY <4>1, MatchedIs
      <3>2. QED BY <3>1
    <2>2. PICK S \in SUBSET (0 .. Len(cmds)) : S = {Matched(cmds, list[i]) : i \in cands}
      BY <2>1
    <2>3. Max(S) \in S /\ \A y \in S : y <= Max(S)
      <3>1. S # {}
        BY <1>7, <2>2
      <3>2. Len(cmds) \in Nat
        OBVIOUS
      <3>3. QED BY <3>1, <3>2, MaxIsGreatest
    <2>4. PICK i \in cands : Matched(cmds, list[i]) = Max(S)
      BY <2>2, <2>3
    <2>5. \A j \in cands : Matched(cmds, list[j]) <= Matched(cmds, list[i])
      BY <2>2, <2>3, <2>4
    <2>6. i \in longest
      BY <1>3, <2>5
    <2>7. QED BY <1>5, <2>6, MinIsLeast
  <1>8. QED BY <1>4, <1>6, <1>7 DEF Range

\* Who asks for an exact match and finds nothing is matched exactly by no entry.
LEMMA NoneExact ==
  ASSUME NEW list \in Seq(Entries), NEW cmds, NEW type,
         FindCli(list, cmds, type) = NoEntry
  PROVE  \A i \in DOMAIN list : ~Exact(cmds, list[i])
  <1>1. PICK exact \in SUBSET DOMAIN list :
          exact = {i \in DOMAIN list : Exact(cmds, list[i])}
    OBVIOUS
  <1>2. ASSUME exact # {} PROVE FALSE
    <2>1. Min(exact) \in DOMAIN list
      BY <1>2, MinIsLeast
    <2>2. list[Min(exact)] \in Entries
      BY <2>1
    <2>3. FindCli(list, cmds, type) = list[Min(exact)]
      BY <1>1, <1>2 DEF FindCli
    <2>4. QED BY <2>2, <2>3, PatternsAssumption
  <1>3. QED BY <1>1, <1>2

----------------------------------------------------------------------------
(* The order of the registry.                                              *)

\* Fixed(e) has the ranks of the plain words e begins with.
LEMMA FixedIs ==
  ASSUME NEW e \in Entries
  PROVE  /\ Fixed(e) \in Seq(Nat) /\ Len(Fixed(e)) <= Len(Pattern[e])
         /\ \A i \in 1 .. Len(Fixed(e)) :
              Pattern[e][i].kind = "word" /\ Fixed(e)[i] = Rank[Pattern[e][i].of[1]]
         /\ IsPlain(e) => Len(Fixed(e)) = Len(Pattern[e])
  <1>1. Pattern[e] \in Seq(PatternWord) /\ Len(Pattern[e]) \in Nat
    BY PatternTyped
  <1>2. PICK S \in SUBSET (0 .. Len(Pattern[e])) :
          S = {k \in 0 .. Len(Pattern[e]) : \A i \in 1 .. k : Pattern[e][i].kind = "word"}
    OBVIOUS
  <1>3. 0 \in S
    BY <1>1, <1>2
  <1>4. PICK n \in 0 .. Len(Pattern[e]) : n = Max(S) /\ n \in S /\ \A y \in S : y <= n
    BY <1>1, <1>3, MaxIsGreatest
  <1>5. Fixed(e) = [i \in 1 .. n |-> Rank[Pattern[e][i].of[1]]]
    BY <1>2, <1>4 DEF Fixed
  <1>6. \A i \in 1 .. n : Pattern[e][i].kind = "word"
    BY <1>2, <1>4
  <1>7. ASSUME NEW i \in 1 .. n PROVE Rank[Pattern[e][i].of[1]] \in Nat
    <2>1. i \in DOMAIN Pattern[e] /\ Pattern[e][i] \in PatternWord
      BY <1>1
    <2>2. Len(Pattern[e][i].of) = 1
      BY <1>6, <2>1, PatternsAssumption
    <2>3. Pattern[e][i].of \in Seq(Words)
      BY <2>1 DEF PatternWord
    <2>4. Pattern[e][i].of[1] \in Words
      BY <2>2, <2>3
    <2>5. QED BY <2>4, PatternsAssumption
  <1>8. Fixed(e) \in Seq(Nat) /\ Len(Fixed(e)) = n
    BY <1>5, <1>7
  <1>9. ASSUME IsPlain(e) PROVE n = Len(Pattern[e])
    <2>1. Len(Pattern[e]) \in S
      BY <1>1, <1>2, <1>9 DEF IsPlain
    <2>2. QED BY <1>1, <1>4, <2>1
  <1>10. QED BY <1>1, <1>5, <1>6, <1>8, <1>9

\* Before, without Min.
LEMMA BeforeIs ==
  ASSUME NEW a \in Entries, NEW b \in Entries
  PROVE  Before(a, b) <=>
           \E i \in Nat \ {0} :
             /\ i <= Len(Fixed(a)) /\ i <= Len(Fixed(b)) /\ Fixed(a)[i] < Fixed(b)[i]
             /\ \A j \in 1 .. i - 1 : Fixed(a)[j] = Fixed(b)[j]
  <1>1. Len(Fixed(a)) \in Nat /\ Len(Fixed(b)) \in Nat
    BY FixedIs
  <1>2. PICK m \in Nat : /\ m = Min({Len(Fixed(a)), Len(Fixed(b))})
                         /\ m <= Len(Fixed(a)) /\ m <= Len(Fixed(b))
                         /\ \A c \in Nat : c <= Len(Fixed(a)) /\ c <= Len(Fixed(b)) => c <= m
    BY <1>1, MinOfTwo
  <1>3. \A i \in Nat : i <= m <=> i <= Len(Fixed(a)) /\ i <= Len(Fixed(b))
    BY <1>1, <1>2
  <1>4. Before(a, b) <=> \E i \in 1 .. m : /\ Fixed(a)[i] < Fixed(b)[i]
                                          /\ \A j \in 1 .. i - 1 : Fixed(a)[j] = Fixed(b)[j]
    BY <1>2 DEF Before
  <1>5. \A i : i \in 1 .. m <=> /\ i \in Nat \ {0}
                               /\ i <= Len(Fixed(a)) /\ i <= Len(Fixed(b))
    BY <1>3
  <1>6. QED BY <1>4, <1>5

\* No entry comes before itself, and what comes before an earlier one comes before.
LEMMA BeforeOrders ==
  ASSUME NEW a \in Entries
  PROVE  /\ ~Before(a, a)
         /\ \A b, c \in Entries : Before(a, b) /\ Before(b, c) => Before(a, c)
  <1>1. \A x \in Entries : Fixed(x) \in Seq(Nat) /\ Len(Fixed(x)) \in Nat
    BY FixedIs
  <1>2. ~Before(a, a)
    <2>1. \A i \in Nat \ {0} : i <= Len(Fixed(a)) => Fixed(a)[i] \in Nat
      BY <1>1
    <2>2. QED BY <2>1, BeforeIs
  <1>3. ASSUME NEW b \in Entries, NEW c \in Entries, Before(a, b), Before(b, c)
        PROVE  Before(a, c)
    <2>1. PICK m \in Nat \ {0} :
            /\ m <= Len(Fixed(a)) /\ m <= Len(Fixed(b)) /\ Fixed(a)[m] < Fixed(b)[m]
            /\ \A j \in 1 .. m - 1 : Fixed(a)[j] = Fixed(b)[j]
      BY <1>3, BeforeIs
    <2>2. PICK k \in Nat \ {0} :
            /\ k <= Len(Fixed(b)) /\ k <= Len(Fixed(c)) /\ Fixed(b)[k] < Fixed(c)[k]
            /\ \A j \in 1 .. k - 1 : Fixed(b)[j] = Fixed(c)[j]
      BY <1>3, BeforeIs
    <2>3. \A i \in Nat \ {0} : /\ i <= Len(Fixed(a)) => Fixed(a)[i] \in Nat
                               /\ i <= Len(Fixed(b)) => Fixed(b)[i] \in Nat
                               /\ i <= Len(Fixed(c)) => Fixed(c)[i] \in Nat
      BY <1>1
    <2>4. CASE m <= k
      <3>1. m <= Len(Fixed(c))
        BY <1>1, <2>2, <2>4
      <3>2. Fixed(a)[m] < Fixed(c)[m]
        <4>1. CASE m = k
          <5>1. Fixed(a)[m] \in Nat /\ Fixed(b)[m] \in Nat /\ Fixed(c)[m] \in Nat
            <6>1. m <= Len(Fixed(a)) /\ m <= Len(Fixed(b)) /\ m \in Nat \ {0}
              BY <2>1
            <6>2. QED BY <1>1, <2>3, <3>1, <6>1
          <5>2. Fixed(a)[m] < Fixed(b)[m] /\ Fixed(b)[m] < Fixed(c)[m]
            BY <2>1, <2>2, <4>1
          <5>3. QED BY <5>1, <5>2
        <4>2. CASE m < k
          <5>1. Fixed(b)[m] = Fixed(c)[m]
            BY <2>2, <4>2
          <5>2. QED BY <2>1, <5>1
        <4>3. QED BY <2>4, <4>1, <4>2
      <3>3. \A j \in 1 .. m - 1 : Fixed(a)[j] = Fixed(c)[j]
        BY <2>1, <2>2, <2>4
      <3>4. QED BY <2>1, <3>1, <3>2, <3>3, BeforeIs
    <2>5. CASE k < m
      <3>1. k <= Len(Fixed(a))
        BY <1>1, <2>1, <2>5
      <3>2. Fixed(a)[k] = Fixed(b)[k]
        BY <2>1, <2>5
      <3>3. \A j \in 1 .. k - 1 : Fixed(a)[j] = Fixed(c)[j]
        BY <2>1, <2>2, <2>5
      <3>4. QED BY <2>2, <3>1, <3>2, <3>3, BeforeIs
    <2>6. QED BY <2>4, <2>5
  <1>4. QED BY <1>2, <1>3

\* An entry that covers a plain one begins with plain words of that one.
LEMMA CoversByPrefix ==
  ASSUME NEW e \in Entries, IsPlain(e), NEW p \in Entries, Exact(Pattern[e], p)
  PROVE  /\ Len(Fixed(p)) <= Len(Fixed(e))
         /\ \A i \in 1 .. Len(Fixed(p)) : Fixed(p)[i] = Fixed(e)[i]
  <1>1. /\ Pattern[e] \in Seq(PatternWord) /\ Len(Pattern[e]) \in Nat
        /\ Pattern[p] \in Seq(PatternWord) /\ Len(Pattern[p]) \in Nat
        /\ Len(Fixed(p)) \in Nat
    BY PatternTyped, FixedIs
  <1>2. /\ Len(Pattern[e]) <= Len(Pattern[p])
        /\ \A i \in 1 .. Len(Pattern[e]) : WordMatch(Pattern[e][i], Pattern[p][i])
        /\ Exhausted(Len(Pattern[e]), p)
    BY <1>1, ExactIs
  <1>3. Len(Fixed(e)) = Len(Pattern[e])
    BY FixedIs
  <1>4. Len(Fixed(p)) <= Len(Pattern[p])
    BY FixedIs
  <1>5. Len(Fixed(p)) <= Len(Pattern[e])
    <2>1. CASE Len(Pattern[e]) >= Len(Pattern[p])
      BY <1>1, <1>4, <2>1
    <2>2. CASE /\ Len(Pattern[e]) + 1 = Len(Pattern[p])
               /\ Pattern[p][Len(Pattern[e]) + 1].kind = "opt"
      <3>1. ASSUME Len(Fixed(p)) = Len(Pattern[p]) PROVE FALSE
        <4>1. Pattern[p][Len(Pattern[p])].kind = "word"
          BY <1>1, <2>2, <3>1, FixedIs
        <4>2. QED BY <2>2, <4>1
      <3>2. QED BY <1>1, <1>4, <2>2, <3>1
    <2>3. QED BY <1>2, <2>1, <2>2 DEF Exhausted
  <1>6. ASSUME NEW i \in 1 .. Len(Fixed(p)) PROVE Fixed(p)[i] = Fixed(e)[i]
    <2>1. i \in 1 .. Len(Pattern[e]) /\ i \in 1 .. Len(Pattern[p]) /\ i \in 1 .. Len(Fixed(e))
      BY <1>1, <1>3, <1>4, <1>5
    <2>2. Pattern[p][i].kind = "word" /\ Fixed(p)[i] = Rank[Pattern[p][i].of[1]]
      BY FixedIs
    <2>3. Fixed(e)[i] = Rank[Pattern[e][i].of[1]]
      BY <2>1, FixedIs
    <2>4. Pattern[p][i].of \in Seq(Words) /\ Len(Pattern[p][i].of) = 1
      <3>1. Pattern[p][i] \in PatternWord
        BY <1>1, <2>1
      <3>2. QED BY <1>1, <2>1, <2>2, <3>1, PatternsAssumption DEF PatternWord
    <2>5. Pattern[e][i].of[1] \in Range(Pattern[p][i].of)
      BY <1>2, <2>1, <2>2 DEF WordMatch
    <2>6. Pattern[e][i].of[1] = Pattern[p][i].of[1]
      BY <2>4, <2>5 DEF Range
    <2>7. QED BY <2>2, <2>3, <2>6
  <1>7. QED BY <1>3, <1>5, <1>6

\* What comes after an entry comes after the plain ones it covers.
LEMMA CoversComesLater ==
  ASSUME NEW e \in Entries, IsPlain(e), NEW p \in Entries, Exact(Pattern[e], p),
         NEW x \in Entries, Before(p, x)
  PROVE  Before(e, x)
  <1>1. /\ Len(Fixed(p)) <= Len(Fixed(e))
        /\ \A i \in 1 .. Len(Fixed(p)) : Fixed(p)[i] = Fixed(e)[i]
    BY CoversByPrefix
  <1>2. PICK k \in Nat \ {0} :
          /\ k <= Len(Fixed(p)) /\ k <= Len(Fixed(x)) /\ Fixed(p)[k] < Fixed(x)[k]
          /\ \A j \in 1 .. k - 1 : Fixed(p)[j] = Fixed(x)[j]
    BY BeforeIs
  <1>3. Len(Fixed(p)) \in Nat /\ Len(Fixed(e)) \in Nat
    BY FixedIs
  <1>4. k <= Len(Fixed(e)) /\ Fixed(e)[k] < Fixed(x)[k]
    BY <1>1, <1>2, <1>3
  <1>5. \A j \in 1 .. k - 1 : Fixed(e)[j] = Fixed(x)[j]
    BY <1>1, <1>2, <1>3
  <1>6. QED BY <1>2, <1>4, <1>5, BeforeIs

\* The plain words of an entry match it.
LEMMA MatchesItself ==
  ASSUME NEW e \in Entries, IsPlain(e)
  PROVE  Exact(Pattern[e], e)
  <1>1. Pattern[e] \in Seq(PatternWord) /\ Len(Pattern[e]) \in Nat
    BY PatternTyped
  <1>2. ASSUME NEW i \in 1 .. Len(Pattern[e]) PROVE WordMatch(Pattern[e][i], Pattern[e][i])
    <2>1. Pattern[e][i].kind = "word" /\ Pattern[e][i] \in PatternWord
      BY <1>1 DEF IsPlain
    <2>2. Len(Pattern[e][i].of) = 1 /\ Pattern[e][i].of \in Seq(Words)
      BY <1>1, <2>1, PatternsAssumption DEF PatternWord
    <2>3. 1 \in DOMAIN Pattern[e][i].of
      BY <2>2
    <2>4. QED BY <2>1, <2>3 DEF WordMatch, Range
  <1>3. Exhausted(Len(Pattern[e]), e)
    BY <1>1 DEF Exhausted
  <1>4. QED BY <1>1, <1>2, <1>3, ExactIs

----------------------------------------------------------------------------
(* The registry as a sequence.                                             *)

\* No entry comes before one that stands in front of it.
InOrder(list) == \A i, j \in DOMAIN list : i < j => ~Before(list[j], list[i])

\* A plain entry stands in front of all others that match its words.
PlainsFirst(list) ==
  \A i, j \in DOMAIN list :
    IsPlain(list[i]) /\ i # j /\ Exact(Pattern[list[i]], list[j]) => i < j

\* A sequence is the list of its elements.
LEMMA IsListed ==
  ASSUME NEW s \in Seq(Entries), NEW n \in Nat, Len(s) = n,
         NEW t, t = [i \in 1 .. n |-> t[i]], \A i \in 1 .. n : s[i] = t[i]
  PROVE  s = t
  OBVIOUS

\* Where Insert puts an entry.
LEMMA InsertIs ==
  ASSUME NEW list \in Seq(Entries), NEW e \in Entries
  PROVE  \E k \in 1 .. Len(list) + 1 :
           /\ Insert(list, e) = [i \in 1 .. Len(list) + 1 |->
                IF i < k THEN list[i] ELSE IF i = k THEN e ELSE list[i - 1]]
           /\ \A i \in 1 .. k - 1 : ~Before(e, list[i])
           /\ k <= Len(list) => Before(e, list[k])
  <1>1. PICK after \in SUBSET DOMAIN list :
          after = {i \in DOMAIN list : Before(e, list[i])}
    OBVIOUS
  <1>2. CASE after = {}
    <2>1. Insert(list, e) = Append(list, e)
      BY <1>1, <1>2 DEF Insert
    <2>2. Len(list) + 1 \in 1 .. Len(list) + 1 /\ ~(Len(list) + 1 <= Len(list))
      OBVIOUS
    <2>3. Append(list, e) = [i \in 1 .. Len(list) + 1 |->
            IF i < Len(list) + 1 THEN list[i] ELSE IF i = Len(list) + 1 THEN e ELSE list[i - 1]]
      <3>1. PICK new \in Seq(Entries) : new = Append(list, e)
        <4>1. Append(list, e) \in Seq(Entries)
          OBVIOUS
        <4>2. QED BY <4>1
      <3>2. /\ Len(new) = Len(list) + 1 /\ new[Len(list) + 1] = e
            /\ \A i \in 1 .. Len(list) : new[i] = list[i]
        BY <3>1
      <3>3. \A i \in 1 .. Len(list) + 1 : new[i] =
              IF i < Len(list) + 1 THEN list[i] ELSE IF i = Len(list) + 1 THEN e ELSE list[i - 1]
        BY <3>2
      <3>4. new = [i \in 1 .. Len(list) + 1 |-> new[i]]
        BY <3>2
      <3>5. QED BY <3>1, <3>3, <3>4
    <2>4. \A i \in 1 .. Len(list) + 1 - 1 : ~Before(e, list[i])
      BY <1>1, <1>2
    <2>5. QED BY <2>1, <2>2, <2>3, <2>4
  <1>3. CASE after # {}
    <2>1. PICK k \in Nat : k = Min(after)
      BY <1>3, MinIsLeast
    <2>2. k \in after /\ \A y \in after : k <= y
      BY <1>3, <2>1, MinIsLeast
    <2>3. k \in DOMAIN list /\ Before(e, list[k])
      BY <1>1, <2>2
    <2>4. Insert(list, e) = InsertAt(list, k, e)
      BY <1>1, <1>3, <2>1 DEF Insert
    <2>5. InsertAt(list, k, e) = [i \in 1 .. Len(list) + 1 |->
               IF i < k THEN list[i] ELSE IF i = k THEN e ELSE list[i - 1]]
      <3>1. k \in 1 .. Len(list) + 1
        BY <2>3
      <3>2. QED BY <3>1, InsertedAt, IsListed
    <2>6. \A i \in 1 .. k - 1 : ~Before(e, list[i])
      <3>1. ASSUME NEW i \in 1 .. k - 1, Before(e, list[i]) PROVE FALSE
        <4>1. i \in DOMAIN list
          BY <2>3
        <4>2. i \in after
          BY <1>1, <3>1, <4>1
        <4>3. k <= i
          BY <2>2, <4>2
        <4>4. QED BY <4>3
      <3>2. QED BY <3>1
    <2>7. QED BY <2>3, <2>4, <2>5, <2>6
  <1>4. QED BY <1>2, <1>3

\* What TakeOut leaves.
LEMMA TakeOutIs ==
  ASSUME NEW list \in Seq(Entries), NEW e
  PROVE  \/ TakeOut(list, e) = list /\ \A i \in DOMAIN list : list[i] # e
         \/ \E k \in DOMAIN list :
              /\ list[k] = e
              /\ TakeOut(list, e) = [i \in 1 .. Len(list) - 1 |->
                                       IF i < k THEN list[i] ELSE list[i + 1]]
  <1>1. PICK at \in SUBSET DOMAIN list : at = {i \in DOMAIN list : list[i] = e}
    OBVIOUS
  <1>2. CASE at = {}
    BY <1>1, <1>2 DEF TakeOut
  <1>3. CASE at # {}
    <2>1. PICK k \in Nat : k = Min(at)
      BY <1>3, MinIsLeast
    <2>2. k \in DOMAIN list /\ list[k] = e
      BY <1>1, <1>3, <2>1, MinIsLeast
    <2>3. TakeOut(list, e) = RemoveAt(list, k)
      BY <1>1, <1>3, <2>1 DEF TakeOut
    <2>4. RemoveAt(list, k) =
            [i \in 1 .. Len(list) - 1 |-> IF i < k THEN list[i] ELSE list[i + 1]]
      <3>1. k \in 1 .. Len(list) /\ Len(list) - 1 \in Nat
        BY <2>2
      <3>2. \A i \in 1 .. Len(list) - 1 :
              RemoveAt(list, k)[i] = IF i < k THEN list[i] ELSE list[i + 1]
        BY <3>1, RemovedAt
      <3>3. RemoveAt(list, k) \in Seq(Entries) /\ Len(RemoveAt(list, k)) = Len(list) - 1
        BY <3>1, RemovedAt
      <3>4. QED BY <3>1, <3>2, <3>3, IsListed
    <2>5. QED BY <2>2, <2>3, <2>4
  <1>4. QED BY <1>2, <1>3

\* To register an entry that is not matched by a listed one keeps the order, and with it
\* the plain entries in front of what covers them.
LEMMA InsertKeepsOrder ==
  ASSUME NEW list \in Seq(Entries), NEW e \in Entries, InOrder(list)
  PROVE  /\ Insert(list, e) \in Seq(Entries)
         /\ Range(Insert(list, e)) = Range(list) \cup {e}
         /\ InOrder(Insert(list, e))
         /\ PlainsFirst(list) /\ (\A i \in DOMAIN list : ~Exact(Pattern[e], list[i]))
              => PlainsFirst(Insert(list, e))
  <1>1. PICK k \in 1 .. Len(list) + 1 :
           /\ Insert(list, e) = [i \in 1 .. Len(list) + 1 |->
                IF i < k THEN list[i] ELSE IF i = k THEN e ELSE list[i - 1]]
           /\ \A i \in 1 .. k - 1 : ~Before(e, list[i])
           /\ k <= Len(list) => Before(e, list[k])
    BY InsertIs
  <1>2. PICK new : new = Insert(list, e)
    OBVIOUS
  <1>3. /\ DOMAIN new = 1 .. Len(list) + 1
        /\ \A i \in 1 .. Len(list) + 1 :
             /\ i < k => i \in DOMAIN list /\ new[i] = list[i]
             /\ i = k => new[i] = e
             /\ i > k => i - 1 \in DOMAIN list /\ new[i] = list[i - 1]
    BY <1>1, <1>2
  <1>4. \A i \in DOMAIN list : list[i] \in Entries
    OBVIOUS
  <1>5. new \in Seq(Entries)
    BY <1>1, <1>2, <1>3, <1>4
  <1>6. Range(new) = Range(list) \cup {e}
    <2>1. ASSUME NEW x \in Range(list) PROVE x \in Range(new)
      <3>1. PICK i \in DOMAIN list : x = list[i]
        BY DEF Range
      <3>2. CASE i < k
        <4>1. i \in DOMAIN new /\ new[i] = x
          BY <1>3, <3>1, <3>2
        <4>2. QED BY <4>1 DEF Range
      <3>3. CASE i >= k
        <4>1. i + 1 \in DOMAIN new /\ new[i + 1] = x
          BY <1>3, <3>1, <3>3
        <4>2. QED BY <4>1 DEF Range
      <3>4. QED BY <3>2, <3>3
    <2>2. e \in Range(new)
      BY <1>3 DEF Range
    <2>3. ASSUME NEW i \in DOMAIN new PROVE new[i] \in Range(list) \cup {e}
      BY <1>3 DEF Range
    <2>4. QED BY <2>1, <2>2, <2>3 DEF Range
  <1>7. \A j \in DOMAIN list : j >= k => ~Before(list[j], e)
    <2>1. SUFFICES ASSUME NEW j \in DOMAIN list, j >= k, Before(list[j], e) PROVE FALSE
      OBVIOUS
    <2>2. k \in DOMAIN list /\ Before(e, list[k])
      BY <1>1, <2>1
    <2>3. Before(list[j], list[k])
      BY <1>4, <2>1, <2>2, BeforeOrders
    <2>4. QED BY <1>4, <2>1, <2>2, <2>3, BeforeOrders DEF InOrder
  <1>8. InOrder(new)
    <2>1. SUFFICES ASSUME NEW i \in DOMAIN new, NEW j \in DOMAIN new, i < j
                   PROVE  ~Before(new[j], new[i])
      BY DEF InOrder
    <2>2. CASE j < k
      BY <1>3, <2>1, <2>2 DEF InOrder
    <2>3. CASE j = k
      <3>1. i \in 1 .. k - 1 /\ new[i] = list[i] /\ new[j] = e
        BY <1>3, <2>1, <2>3
      <3>2. QED BY <1>1, <3>1
    <2>4. CASE i < k /\ k < j
      <3>1. i \in DOMAIN list /\ j - 1 \in DOMAIN list /\ i < j - 1
        BY <1>3, <2>1, <2>4
      <3>2. new[i] = list[i] /\ new[j] = list[j - 1]
        BY <1>3, <2>1, <2>4
      <3>3. QED BY <3>1, <3>2 DEF InOrder
    <2>5. CASE i = k
      <3>1. j - 1 \in DOMAIN list /\ j - 1 >= k /\ new[j] = list[j - 1] /\ new[i] = e
        BY <1>3, <2>1, <2>5
      <3>2. QED BY <1>7, <3>1
    <2>6. CASE i > k
      <3>1. /\ i - 1 \in DOMAIN list /\ new[i] = list[i - 1]
            /\ j - 1 \in DOMAIN list /\ new[j] = list[j - 1] /\ i - 1 < j - 1
        BY <1>3, <2>1, <2>6
      <3>2. QED BY <3>1 DEF InOrder
    <2>7. QED
      <3>1. i \in Nat /\ j \in Nat /\ k \in Nat
        BY <1>3
      <3>2. QED BY <2>1, <2>2, <2>3, <2>4, <2>5, <2>6, <3>1
  <1>9. ASSUME PlainsFirst(list), \A i \in DOMAIN list : ~Exact(Pattern[e], list[i])
        PROVE  PlainsFirst(new)
    <2>1. SUFFICES ASSUME NEW i \in DOMAIN new, NEW j \in DOMAIN new, IsPlain(new[i]), i # j,
                          Exact(Pattern[new[i]], new[j]), ~(i < j)
                   PROVE  FALSE
      BY DEF PlainsFirst
    <2>2. j < i /\ i \in Nat /\ j \in Nat
      BY <1>3, <2>1
    <2>3. CASE i = k
      <3>1. j \in DOMAIN list /\ new[j] = list[j] /\ new[i] = e
        BY <1>3, <2>1, <2>2, <2>3
      <3>2. QED BY <1>9, <2>1, <3>1
    <2>4. CASE j = k
      <3>1. i - 1 \in DOMAIN list /\ new[i] = list[i - 1] /\ i - 1 >= k /\ new[j] = e
        BY <1>3, <2>1, <2>2, <2>4
      <3>2. k \in DOMAIN list /\ Before(e, list[k])
        BY <1>1, <3>1
      <3>3. Before(list[i - 1], list[k])
        BY <1>4, <2>1, <3>1, <3>2, CoversComesLater
      <3>4. QED
        <4>1. CASE i - 1 = k
          BY <1>4, <3>3, <4>1, <3>2, BeforeOrders
        <4>2. CASE i - 1 > k
          BY <3>1, <3>2, <3>3, <4>2 DEF InOrder
        <4>3. QED BY <2>2, <3>1, <4>1, <4>2
    <2>5. CASE i < k
      <3>1. i \in DOMAIN list /\ j \in DOMAIN list /\ new[i] = list[i] /\ new[j] = list[j]
        BY <1>3, <2>1, <2>2, <2>5
      <3>2. QED BY <1>9, <2>1, <3>1 DEF PlainsFirst
    <2>6. CASE k < j
      <3>1. /\ i - 1 \in DOMAIN list /\ j - 1 \in DOMAIN list
            /\ new[i] = list[i - 1] /\ new[j] = list[j - 1] /\ i - 1 # j - 1 /\ ~(i - 1 < j - 1)
        BY <1>3, <2>1, <2>2, <2>6
      <3>2. QED BY <1>9, <2>1, <3>1 DEF PlainsFirst
    <2>7. CASE j < k /\ k < i
      <3>1. /\ i - 1 \in DOMAIN list /\ j \in DOMAIN list
            /\ new[i] = list[i - 1] /\ new[j] = list[j] /\ i - 1 # j /\ ~(i - 1 < j)
        BY <1>3, <2>1, <2>2, <2>7
      <3>2. QED BY <1>9, <2>1, <3>1 DEF PlainsFirst
    <2>8. QED BY <2>2, <2>3, <2>4, <2>5, <2>6, <2>7
  <1>10. QED BY <1>2, <1>5, <1>6, <1>8, <1>9

\* To take an entry out keeps the order of the others.
LEMMA TakeOutKeepsOrder ==
  ASSUME NEW list \in Seq(Entries), NEW e, InOrder(list)
  PROVE  /\ TakeOut(list, e) \in Seq(Entries)
         /\ Range(list) \ {e} \subseteq Range(TakeOut(list, e))
         /\ InOrder(TakeOut(list, e))
         /\ PlainsFirst(list) => PlainsFirst(TakeOut(list, e))
  <1>1. CASE TakeOut(list, e) = list
    BY <1>1
  <1>2. ASSUME NEW k \in DOMAIN list, list[k] = e,
               TakeOut(list, e) = [i \in 1 .. Len(list) - 1 |->
                                     IF i < k THEN list[i] ELSE list[i + 1]]
        PROVE  /\ TakeOut(list, e) \in Seq(Entries)
               /\ Range(list) \ {e} \subseteq Range(TakeOut(list, e))
               /\ InOrder(TakeOut(list, e))
               /\ PlainsFirst(list) => PlainsFirst(TakeOut(list, e))
    <2>1. PICK new : new = TakeOut(list, e)
      OBVIOUS
    <2>2. PICK place \in [1 .. Len(list) - 1 -> Nat] :
            place = [i \in 1 .. Len(list) - 1 |-> IF i < k THEN i ELSE i + 1]
      <3>1. [i \in 1 .. Len(list) - 1 |-> IF i < k THEN i ELSE i + 1] \in
              [1 .. Len(list) - 1 -> Nat]
        OBVIOUS
      <3>2. QED BY <3>1
    <2>3. /\ DOMAIN new = 1 .. Len(list) - 1
          /\ \A i \in DOMAIN new : place[i] \in DOMAIN list /\ new[i] = list[place[i]]
          /\ \A i, j \in DOMAIN new : i < j <=> place[i] < place[j]
          /\ \A i, j \in DOMAIN new : i = j <=> place[i] = place[j]
      BY <1>2, <2>1, <2>2
    <2>4. new \in Seq(Entries)
      <3>1. \A i \in 1 .. Len(list) - 1 : new[i] \in Entries
        BY <2>3
      <3>2. Len(list) - 1 \in Nat /\ new = [i \in 1 .. Len(list) - 1 |-> new[i]]
        BY <1>2, <2>1
      <3>3. QED BY <3>1, <3>2
    <2>5. ASSUME NEW x \in Range(list), x # e PROVE x \in Range(new)
      <3>1. PICK i \in DOMAIN list : x = list[i]
        BY DEF Range
      <3>2. CASE i < k
        <4>1. i \in DOMAIN new /\ new[i] = x
          BY <1>2, <2>1, <2>3, <3>1, <3>2
        <4>2. QED BY <4>1 DEF Range
      <3>3. CASE i > k
        <4>1. i - 1 \in DOMAIN new /\ new[i - 1] = x
          BY <1>2, <2>1, <2>3, <3>1, <3>3
        <4>2. QED BY <4>1 DEF Range
      <3>4. QED BY <1>2, <2>5, <3>1, <3>2, <3>3
    <2>6. InOrder(new)
      BY <2>3 DEF InOrder
    <2>7. PlainsFirst(list) => PlainsFirst(new)
      BY <2>3 DEF PlainsFirst
    <2>8. QED BY <2>1, <2>4, <2>5, <2>6, <2>7
  <1>3. QED BY <1>1, <1>2, TakeOutIs

\* The order is what the search for plain words needs.
LEMMA OrderFinds ==
  ASSUME NEW list \in Seq(Entries), PlainsFirst(list), NEW e \in Range(list), IsPlain(e)
  PROVE  FindCli(list, Pattern[e], 0) = e
  <1>1. PICK i \in DOMAIN list : e = list[i]
    BY DEF Range
  <1>2. PICK exact \in SUBSET DOMAIN list :
          exact = {j \in DOMAIN list : Exact(Pattern[e], list[j])}
    OBVIOUS
  <1>3. i \in exact
    <2>1. e \in Entries
      BY <1>1
    <2>2. QED BY <1>1, <1>2, <2>1, MatchesItself
  <1>4. FindCli(list, Pattern[e], 0) = list[Min(exact)]
    BY <1>2, <1>3 DEF FindCli
  <1>5. PICK m \in Nat : m = Min(exact) /\ m \in exact /\ \A y \in exact : m <= y
    BY <1>3, MinIsLeast
  <1>6. m = i
    <2>1. m <= i /\ m \in DOMAIN list
      BY <1>2, <1>3, <1>5
    <2>2. ASSUME m # i PROVE i < m
      BY <1>1, <1>2, <1>5, <2>1, <2>2 DEF PlainsFirst
    <2>3. QED BY <2>1, <2>2
  <1>7. QED BY <1>1, <1>4, <1>5, <1>6

----------------------------------------------------------------------------
(* The invariant of the registry.                                          *)

RegistryTypes ==
  /\ walks \in BOOLEAN
  /\ registry \in Seq(Entries)
  /\ inuse \in [Entries -> Nat]
  /\ late \subseteq Threads
  /\ call \in [Threads -> [at : {"idle", "find", "unknown", "handler", "register", "unlist"},
                           cmd : Commands \cup {<<>>}, entry : Entries \cup {NoEntry}]]

CallsHaveEntries ==
  \A t \in Threads : call[t].at \in {"handler", "register", "unlist"} => call[t].entry \in Entries

Handling(e) == {t \in Threads : call[t].at = "handler" /\ call[t].entry = e}

InUseCounted == \A e \in Entries : inuse[e] = Cardinality(Handling(e))

HandledIsListed ==
  \A t \in Threads : call[t].at = "handler" /\ ~Listed(call[t].entry) => t \in late

\* Who executes an entry that somebody is about to take out is late.
LateAreKnown ==
  \A t, u \in Threads :
    /\ call[t].at = "unlist" /\ call[u].at = "handler" /\ call[u].entry = call[t].entry
    => u \in late

RegistryInv ==
  /\ RegistryTypes
  /\ CallsHaveEntries
  /\ InUseCounted
  /\ HandledIsListed
  /\ LateAreKnown
  /\ InOrder(registry)
  /\ walks => PlainsFirst(registry)

\* What leaves the registry and the calls alone keeps the invariant.
LEMMA RegistryUntouched ==
  ASSUME RegistryInv, UNCHANGED <<registryVars, call>>
  PROVE  RegistryInv'
  <1>1. UNCHANGED <<walks, registry, inuse, late, call>>
    BY DEF registryVars
  <1>2. QED
    BY <1>1 DEF RegistryInv, RegistryTypes, CallsHaveEntries, InUseCounted, Handling,
                HandledIsListed, LateAreKnown, Listed, InOrder, PlainsFirst

\* A step of one thread that neither begins nor ends the execution of an entry.
LEMMA CallMoves ==
  ASSUME RegistryInv, NEW t \in Threads, call[t].at # "handler",
         NEW at \in {"idle", "find", "unknown", "register", "unlist"},
         NEW cmd \in Commands \cup {<<>>}, NEW e \in Entries \cup {NoEntry},
         call' = [call EXCEPT ![t] = [at |-> at, cmd |-> cmd, entry |-> e]],
         at \in {"register", "unlist"} => e \in Entries,
         at = "unlist" => \A u \in Threads : call[u].at = "handler" /\ call[u].entry = e => u \in late,
         walks' = walks, inuse' = inuse, late' = late,
         registry' \in Seq(Entries), InOrder(registry'), walks => PlainsFirst(registry'),
         \A u \in Threads : call[u].at = "handler" /\ u \notin late => call[u].entry \in Range(registry')
  PROVE  RegistryInv'
  <1>1. RegistryTypes'
    BY DEF RegistryInv, RegistryTypes
  <1>2. \A u \in Threads :
          /\ u # t => call'[u] = call[u]
          /\ u = t => call'[u] = [at |-> at, cmd |-> cmd, entry |-> e]
    BY DEF RegistryInv, RegistryTypes
  <1>3. CallsHaveEntries'
    BY <1>2 DEF RegistryInv, CallsHaveEntries
  <1>4. \A u \in Threads : (call[u].at = "handler" <=> call'[u].at = "handler")
                           /\ (call[u].at = "handler" => call'[u] = call[u])
    BY <1>2
  <1>5. InUseCounted'
    <2>1. \A d \in Entries : Handling(d)' = Handling(d)
      BY <1>4 DEF Handling
    <2>2. QED BY <2>1 DEF RegistryInv, InUseCounted
  <1>6. HandledIsListed'
    BY <1>4 DEF HandledIsListed, Listed
  <1>7. LateAreKnown'
    BY <1>2, <1>4 DEF RegistryInv, LateAreKnown
  <1>8. QED
    BY <1>1, <1>3, <1>5, <1>6, <1>7 DEF RegistryInv

\* A call with some of its fields changed.
LEMMA CallWith ==
  ASSUME RegistryTypes, NEW t \in Threads, NEW at, NEW e
  PROVE  /\ [call EXCEPT ![t].at = at] =
              [call EXCEPT ![t] = [at |-> at, cmd |-> call[t].cmd, entry |-> call[t].entry]]
         /\ [call EXCEPT ![t].at = at, ![t].entry = e] =
              [call EXCEPT ![t] = [at |-> at, cmd |-> call[t].cmd, entry |-> e]]
  <1>1. call[t] \in [at : {"idle", "find", "unknown", "handler", "register", "unlist"},
                     cmd : Commands \cup {<<>>}, entry : Entries \cup {NoEntry}]
    BY DEF RegistryTypes
  <1>2. /\ call[t] = [at |-> call[t].at, cmd |-> call[t].cmd, entry |-> call[t].entry]
        /\ DOMAIN call = Threads
    BY <1>1 DEF RegistryTypes
  <1>3. PICK r : r = [call[t] EXCEPT !.at = at]
    OBVIOUS
  <1>4. r = [at |-> at, cmd |-> call[t].cmd, entry |-> call[t].entry]
    BY <1>2, <1>3
  <1>5. [r EXCEPT !.entry = e] = [at |-> at, cmd |-> call[t].cmd, entry |-> e]
    BY ONLY <1>4
  <1>6. [call EXCEPT ![t].at = at] = [call EXCEPT ![t] = r]
    BY <1>3
  <1>7. [call EXCEPT ![t].at = at, ![t].entry = e] = [call EXCEPT ![t] = [r EXCEPT !.entry = e]]
    BY <1>2, <1>3
  <1>8. QED BY <1>4, <1>5, <1>6, <1>7

\* A line that is typed is a sequence of words.
LEMMA LineIsWords ==
  ASSUME NEW cmd \in Commands \cup {<<>>}
  PROVE  Line(cmd) \in Seq(PatternWord)
  <1>1. cmd \in Seq(Words)
    <2>1. <<>> \in Seq(Words)
      OBVIOUS
    <2>2. QED BY <2>1, CliAssumption
  <1>2. \A w \in Words : Plain(w) \in PatternWord
    BY DEF Plain, PatternWord
  <1>3. DOMAIN cmd = 1 .. Len(cmd) /\ Len(cmd) \in Nat /\ \A i \in DOMAIN cmd : cmd[i] \in Words
    BY <1>1
  <1>4. QED BY <1>2, <1>3 DEF Line

LEMMA ExecuteKeeps ==
  ASSUME RegistryInv, NEW t \in Threads, NEW cmd \in Commands, Execute(t, cmd)
  PROVE  RegistryInv'
  <1>1. call[t].at = "idle" /\ call[t] \in [at : {"idle", "find", "unknown", "handler", "register", "unlist"},
                           cmd : Commands \cup {<<>>}, entry : Entries \cup {NoEntry}]
    BY DEF Execute, In, RegistryInv, RegistryTypes
  <1>2. UNCHANGED <<walks, registry, inuse, late>>
    BY DEF Execute, registryVars
  <1>3. \A u \in Threads : call[u].at = "handler" /\ u \notin late => call[u].entry \in Range(registry')
    BY <1>2 DEF RegistryInv, HandledIsListed, Listed
  <1>4. registry' \in Seq(Entries) /\ InOrder(registry') /\ (walks => PlainsFirst(registry'))
    BY <1>2 DEF RegistryInv, RegistryTypes
  <1>5. CASE cmd = <<>>
    <2>1. call' = [call EXCEPT ![t] = [at |-> "idle", cmd |-> <<>>, entry |-> NoEntry]]
      BY <1>5 DEF Execute, Idle
    <2>2. QED BY <1>1, <1>2, <1>3, <1>4, <2>1, CallMoves
  <1>6. CASE cmd # <<>>
    <2>1. call' = [call EXCEPT ![t] = [at |-> "find", cmd |-> cmd, entry |-> NoEntry]]
      BY <1>6 DEF Execute
    <2>2. QED BY <1>1, <1>2, <1>3, <1>4, <2>1, CallMoves
  <1>7. QED BY <1>5, <1>6

LEMMA UnknownKeeps ==
  ASSUME RegistryInv, NEW t \in Threads, Unknown(t)
  PROVE  RegistryInv'
  <1>1. call[t].at = "unknown" /\ call' = [call EXCEPT ![t] = [at |-> "idle", cmd |-> <<>>, entry |-> NoEntry]]
    BY DEF Unknown, In, GoIdle, Idle
  <1>2. UNCHANGED <<walks, registry, inuse, late>>
    BY DEF Unknown
  <1>3. \A u \in Threads : call[u].at = "handler" /\ u \notin late => call[u].entry \in Range(registry')
    BY <1>2 DEF RegistryInv, HandledIsListed, Listed
  <1>4. registry' \in Seq(Entries) /\ InOrder(registry') /\ (walks => PlainsFirst(registry'))
    BY <1>2 DEF RegistryInv, RegistryTypes
  <1>5. QED BY <1>1, <1>2, <1>3, <1>4, CallMoves

\* The number of threads that execute an entry changes with the counter.
LEMMA CountChanges ==
  ASSUME NEW t \in Threads, NEW S, S \subseteq Threads
  PROVE  /\ Cardinality(S) \in Nat
         /\ t \notin S => Cardinality(S \cup {t}) = Cardinality(S) + 1
         /\ t \in S => Cardinality(S \ {t}) = Cardinality(S) - 1
  <1>1. IsFiniteSet(S)
    BY CliAssumption, FS_Subset
  <1>2. QED BY <1>1, FS_CardinalityType, FS_AddElement, FS_RemoveElement

\* The command is found and its handler called.
LEMMA FoundKeeps ==
  ASSUME RegistryInv, NEW t \in Threads, call[t].at = "find",
         NEW e \in Range(registry), Found(t, e),
         late' = IF \E u \in Threads : call[u].at = "unlist" /\ call[u].entry = e
                 THEN late \cup {t} ELSE late,
         UNCHANGED <<walks, registry>>
  PROVE  RegistryInv'
  <1>1. e \in Entries
    BY DEF RegistryInv, RegistryTypes, Range
  <1>2. call' = [call EXCEPT ![t] = [at |-> "handler", cmd |-> call[t].cmd, entry |-> e]]
    <2>1. RegistryTypes
      BY DEF RegistryInv
    <2>2. [call EXCEPT ![t].at = "handler", ![t].entry = e] =
            [call EXCEPT ![t] = [at |-> "handler", cmd |-> call[t].cmd, entry |-> e]]
      BY ONLY <2>1, t \in Threads, CallWith
    <2>3. QED BY <2>2 DEF Found
  <1>3. call[t].cmd \in Commands \cup {<<>>}
    BY DEF RegistryInv, RegistryTypes
  <1>4. \A u \in Threads :
          /\ u # t => call'[u] = call[u]
          /\ u = t => call'[u] = [at |-> "handler", cmd |-> call[t].cmd, entry |-> e]
    BY <1>2 DEF RegistryInv, RegistryTypes
  <1>5. inuse' = [inuse EXCEPT ![e] = @ + 1]
    BY DEF Found
  <1>6. RegistryTypes'
    <2>1. call' \in [Threads -> [at : {"idle", "find", "unknown", "handler", "register", "unlist"},
                           cmd : Commands \cup {<<>>}, entry : Entries \cup {NoEntry}]]
      BY <1>1, <1>2, <1>3 DEF RegistryInv, RegistryTypes
    <2>2. QED BY <2>1, <1>1, <1>5 DEF RegistryInv, RegistryTypes
  <1>7. CallsHaveEntries'
    BY <1>1, <1>4 DEF RegistryInv, CallsHaveEntries
  <1>8. InUseCounted'
    <2>1. ASSUME NEW d \in Entries
          PROVE  inuse'[d] = Cardinality(Handling(d)')
      <3>1. inuse[d] = Cardinality(Handling(d)) /\ inuse[d] \in Nat
        BY DEF RegistryInv, InUseCounted, RegistryTypes
      <3>2. CASE d = e
        <4>1. Handling(d)' = Handling(d) \cup {t} /\ t \notin Handling(d)
          BY <1>4, <3>2 DEF Handling
        <4>2. Handling(d) \subseteq Threads
          BY DEF Handling
        <4>3. Cardinality(Handling(d)') = Cardinality(Handling(d)) + 1
          BY <4>1, <4>2, CountChanges
        <4>4. inuse'[d] = inuse[d] + 1
          BY <1>1, <1>5, <3>2 DEF RegistryInv, RegistryTypes
        <4>5. QED BY <3>1, <4>3, <4>4
      <3>3. CASE d # e
        <4>1. Handling(d)' = Handling(d)
          BY <1>4, <3>3 DEF Handling
        <4>2. inuse'[d] = inuse[d]
          BY <1>1, <1>5, <3>3 DEF RegistryInv, RegistryTypes
        <4>3. QED BY <3>1, <4>1, <4>2
      <3>4. QED BY <3>2, <3>3
    <2>2. QED BY <2>1 DEF InUseCounted
  <1>9. late \subseteq late'
    OBVIOUS
  <1>10. HandledIsListed'
    BY <1>4, <1>9 DEF RegistryInv, HandledIsListed, Listed
  <1>11. LateAreKnown'
    <2>1. SUFFICES ASSUME NEW s \in Threads, NEW u \in Threads, call'[s].at = "unlist",
                          call'[u].at = "handler", call'[u].entry = call'[s].entry
                   PROVE  u \in late'
      BY DEF LateAreKnown
    <2>2. s # t /\ call'[s] = call[s]
      BY <1>4, <2>1
    <2>3. CASE u = t
      <3>1. call[s].at = "unlist" /\ call[s].entry = e
        BY <1>4, <2>1, <2>2, <2>3
      <3>2. QED BY <2>3, <3>1
    <2>4. CASE u # t
      BY <1>4, <1>9, <2>1, <2>2, <2>4 DEF RegistryInv, LateAreKnown
    <2>5. QED BY <2>3, <2>4
  <1>12. InOrder(registry') /\ (walks' => PlainsFirst(registry'))
    BY DEF RegistryInv
  <1>13. QED
    BY <1>6, <1>7, <1>8, <1>10, <1>11, <1>12 DEF RegistryInv, InOrder, PlainsFirst

LEMMA FindItKeeps ==
  ASSUME RegistryInv, NEW t \in Threads, FindIt(t)
  PROVE  RegistryInv'
  <1>1. /\ call[t].at = "find" /\ call[t].cmd \in Commands \cup {<<>>}
        /\ call[t].entry \in Entries \cup {NoEntry}
    BY DEF FindIt, In, RegistryInv, RegistryTypes
  <1>2. UNCHANGED <<walks, registry>>
    BY DEF FindIt
  <1>3. PICK e : e = Find(Line(call[t].cmd), 0)
    OBVIOUS
  <1>4. /\ late' = IF \E u \in Threads : call[u].at = "unlist" /\ call[u].entry = e
                   THEN late \cup {t} ELSE late
        /\ e = NoEntry => call' = [call EXCEPT ![t].at = "unknown"] /\ inuse' = inuse
        /\ e # NoEntry => Found(t, e)
    BY <1>3 DEF FindIt
  <1>5. e \in Range(registry) \cup {NoEntry}
    <2>1. registry \in Seq(Entries) /\ Line(call[t].cmd) \in Seq(PatternWord)
      BY <1>1, LineIsWords DEF RegistryInv, RegistryTypes
    <2>2. FindCli(registry, Line(call[t].cmd), 0) \in Range(registry) \cup {NoEntry}
      BY <2>1, FindListed
    <2>3. QED BY <1>3, <2>2 DEF Find
  <1>6. CASE e = NoEntry
    <2>1. call' = [call EXCEPT ![t] = [at |-> "unknown", cmd |-> call[t].cmd, entry |-> call[t].entry]]
      <3>1. RegistryTypes
        BY DEF RegistryInv
      <3>2. [call EXCEPT ![t].at = "unknown"] =
            [call EXCEPT ![t] = [at |-> "unknown", cmd |-> call[t].cmd, entry |-> call[t].entry]]
        BY ONLY <3>1, t \in Threads, CallWith
      <3>3. QED BY <1>4, <1>6, <3>2
    <2>2. late' = late
      <3>1. ~\E u \in Threads : call[u].at = "unlist" /\ call[u].entry = e
        BY <1>6, PatternsAssumption DEF RegistryInv, CallsHaveEntries
      <3>2. QED BY <1>4, <3>1
    <2>3. \A u \in Threads : call[u].at = "handler" /\ u \notin late => call[u].entry \in Range(registry')
      BY <1>2 DEF RegistryInv, HandledIsListed, Listed
    <2>4. registry' \in Seq(Entries) /\ InOrder(registry') /\ (walks => PlainsFirst(registry'))
      BY <1>2 DEF RegistryInv, RegistryTypes
    <2>5. inuse' = inuse
      BY <1>4, <1>6
    <2>6. QED BY <1>1, <1>2, <2>1, <2>2, <2>3, <2>4, <2>5, CallMoves
  <1>7. CASE e # NoEntry
    BY <1>1, <1>2, <1>4, <1>5, <1>7, FoundKeeps
  <1>8. QED BY <1>6, <1>7

\* The handler returns.
LEMMA HandledKeeps ==
  ASSUME RegistryInv, NEW t \in Threads, Handled(t)
  PROVE  RegistryInv'
  <1>1. PICK e \in Entries : e = call[t].entry
    BY DEF Handled, In, RegistryInv, CallsHaveEntries
  <1>2. /\ call[t].at = "handler"
        /\ inuse' = [inuse EXCEPT ![e] = @ - 1]
        /\ late' = late \ {t}
        /\ call' = [call EXCEPT ![t] = Idle]
        /\ UNCHANGED <<walks, registry>>
    BY <1>1 DEF Handled, In, GoIdle
  <1>3. \A u \in Threads : /\ u # t => call'[u] = call[u]
                           /\ u = t => call'[u] = Idle
    BY <1>2 DEF RegistryInv, RegistryTypes
  <1>4. ASSUME NEW d \in Entries
        PROVE  inuse'[d] \in Nat /\ inuse'[d] = Cardinality(Handling(d)')
    <2>1. inuse[d] = Cardinality(Handling(d)) /\ inuse[d] \in Nat
      BY DEF RegistryInv, InUseCounted, RegistryTypes
    <2>2. CASE d = e
      <3>1. Handling(d)' = Handling(d) \ {t} /\ t \in Handling(d)
        BY <1>1, <1>2, <1>3, <2>2 DEF Handling, Idle
      <3>2. Handling(d) \subseteq Threads /\ Handling(d)' \subseteq Threads
        BY <3>1 DEF Handling
      <3>3. Cardinality(Handling(d)') = Cardinality(Handling(d)) - 1
        BY <3>1, <3>2, CountChanges
      <3>4. Cardinality(Handling(d)') \in Nat
        BY <3>2, CountChanges
      <3>5. inuse'[d] = inuse[d] - 1
        BY <1>2, <2>2 DEF RegistryInv, RegistryTypes
      <3>6. QED BY <2>1, <3>3, <3>4, <3>5
    <2>3. CASE d # e
      <3>1. Handling(d)' = Handling(d)
        BY <1>1, <1>2, <1>3, <2>3 DEF Handling, Idle
      <3>2. inuse'[d] = inuse[d]
        BY <1>2, <2>3 DEF RegistryInv, RegistryTypes
      <3>3. QED BY <2>1, <3>1, <3>2
    <2>4. QED BY <2>2, <2>3
  <1>5. RegistryTypes'
    <2>1. inuse' \in [Entries -> Nat]
      <3>1. DOMAIN inuse' = Entries /\ inuse' = [d \in Entries |-> inuse'[d]]
        BY <1>2 DEF RegistryInv, RegistryTypes
      <3>2. QED BY <1>4, <3>1
    <2>2. call' \in [Threads -> [at : {"idle", "find", "unknown", "handler", "register", "unlist"},
                           cmd : Commands \cup {<<>>}, entry : Entries \cup {NoEntry}]]
      BY <1>2 DEF RegistryInv, RegistryTypes, Idle
    <2>3. QED BY <1>2, <2>1, <2>2 DEF RegistryInv, RegistryTypes
  <1>6. CallsHaveEntries'
    BY <1>3 DEF RegistryInv, CallsHaveEntries, Idle
  <1>7. InUseCounted'
    BY <1>4 DEF InUseCounted
  <1>8. HandledIsListed'
    BY <1>2, <1>3 DEF RegistryInv, HandledIsListed, Listed, Idle
  <1>9. LateAreKnown'
    BY <1>2, <1>3 DEF RegistryInv, LateAreKnown, Idle
  <1>10. InOrder(registry') /\ (walks' => PlainsFirst(registry'))
    BY <1>2 DEF RegistryInv
  <1>11. QED
    BY <1>5, <1>6, <1>7, <1>8, <1>9, <1>10 DEF RegistryInv, InOrder, PlainsFirst

\* A call of the registry begins.
LEMMA CallBegins ==
  ASSUME RegistryInv, NEW t \in Threads, NEW at \in {"register", "unlist"}, NEW e \in Entries,
         Call(t, at, e), UNCHANGED <<walks, registry, inuse, late>>,
         at = "unlist" => inuse[e] = 0
  PROVE  RegistryInv'
  <1>1. call[t].at = "idle" /\ call[t].cmd \in Commands \cup {<<>>}
    BY DEF Call, In, RegistryInv, RegistryTypes
  <1>2. call' = [call EXCEPT ![t] = [at |-> at, cmd |-> call[t].cmd, entry |-> e]]
    <2>1. RegistryTypes
      BY DEF RegistryInv
    <2>2. [call EXCEPT ![t].at = at, ![t].entry = e] =
            [call EXCEPT ![t] = [at |-> at, cmd |-> call[t].cmd, entry |-> e]]
      BY ONLY <2>1, t \in Threads, CallWith
    <2>3. QED BY <2>2 DEF Call
  <1>3. ASSUME at = "unlist", NEW u \in Threads, call[u].at = "handler", call[u].entry = e
        PROVE  FALSE
    <2>1. u \in Handling(e) /\ Handling(e) \subseteq Threads
      BY <1>3 DEF Handling
    <2>2. IsFiniteSet(Handling(e)) /\ Handling(e) # {}
      BY <2>1, CliAssumption, FS_Subset
    <2>3. Cardinality(Handling(e)) # 0
      BY <2>2, FS_EmptySet
    <2>4. QED BY <1>3, <2>3 DEF RegistryInv, InUseCounted
  <1>4. \A u \in Threads : call[u].at = "handler" /\ u \notin late => call[u].entry \in Range(registry')
    BY DEF RegistryInv, HandledIsListed, Listed
  <1>5. registry' \in Seq(Entries) /\ InOrder(registry') /\ (walks => PlainsFirst(registry'))
    BY DEF RegistryInv, RegistryTypes
  <1>6. QED BY <1>1, <1>2, <1>3, <1>4, <1>5, CallMoves

\* An entry is put into the registry, or refused.
LEMMA RegisterItKeeps ==
  ASSUME RegistryInv, NEW t \in Threads, RegisterIt(t)
  PROVE  RegistryInv'
  <1>1. PICK e \in Entries : e = call[t].entry
    BY DEF RegisterIt, In, RegistryInv, CallsHaveEntries
  <1>2. /\ call[t].at = "register"
        /\ call' = [call EXCEPT ![t] = [at |-> "idle", cmd |-> <<>>, entry |-> NoEntry]]
        /\ UNCHANGED <<walks, inuse, late>>
    BY DEF RegisterIt, In, GoIdle, Idle
  <1>3. /\ registry \in Seq(Entries) /\ InOrder(registry) /\ (walks => PlainsFirst(registry))
        /\ \A u \in Threads : call[u].at = "handler" /\ u \notin late
                                => call[u].entry \in Range(registry)
    BY DEF RegistryInv, RegistryTypes, HandledIsListed, Listed
  <1>4. CASE registry' = registry
    BY <1>2, <1>3, <1>4, CallMoves
  <1>5. CASE Find(Pattern[e], 1) = NoEntry /\ registry' = Insert(registry, e)
    <2>1. walks => \A i \in DOMAIN registry : ~Exact(Pattern[e], registry[i])
      <3>1. walks => FindCli(registry, Pattern[e], 1) = NoEntry
        BY <1>5 DEF Find
      <3>2. QED BY <1>3, <3>1, NoneExact
    <2>2. /\ registry' \in Seq(Entries) /\ InOrder(registry') /\ (walks => PlainsFirst(registry'))
          /\ Range(registry') = Range(registry) \cup {e}
      BY <1>3, <1>5, <2>1, InsertKeepsOrder
    <2>3. QED BY <1>2, <1>3, <2>2, CallMoves
  <1>6. QED BY <1>1, <1>4, <1>5 DEF RegisterIt

\* An entry is taken out of the registry.
LEMMA UnregisterItKeeps ==
  ASSUME RegistryInv, NEW t \in Threads, UnregisterIt(t)
  PROVE  RegistryInv'
  <1>1. PICK e \in Entries : e = call[t].entry
    BY DEF UnregisterIt, In, RegistryInv, CallsHaveEntries
  <1>2. /\ call[t].at = "unlist"
        /\ call' = [call EXCEPT ![t] = [at |-> "idle", cmd |-> <<>>, entry |-> NoEntry]]
        /\ registry' = TakeOut(registry, e)
        /\ UNCHANGED <<walks, inuse, late>>
    BY <1>1 DEF UnregisterIt, In, GoIdle, Idle
  <1>3. registry \in Seq(Entries) /\ InOrder(registry) /\ (walks => PlainsFirst(registry))
    BY DEF RegistryInv, RegistryTypes
  <1>4. /\ registry' \in Seq(Entries) /\ InOrder(registry') /\ (walks => PlainsFirst(registry'))
        /\ Range(registry) \ {e} \subseteq Range(registry')
    BY <1>2, <1>3, TakeOutKeepsOrder
  <1>5. ASSUME NEW u \in Threads, call[u].at = "handler", u \notin late
        PROVE  call[u].entry \in Range(registry')
    <2>1. call[u].entry \in Range(registry)
      BY <1>5 DEF RegistryInv, HandledIsListed, Listed
    <2>2. call[u].entry # e
      BY <1>1, <1>2, <1>5 DEF RegistryInv, LateAreKnown
    <2>3. QED BY <1>4, <2>1, <2>2
  <1>6. QED BY <1>2, <1>4, <1>5, CallMoves

\* Every step of the registry.
LEMMA CallersKeep ==
  ASSUME RegistryInv, NEW t \in Threads, Caller(t) \/ Registrar(t)
  PROVE  RegistryInv'
  <1>1. ASSUME NEW e \in Entries, Register(t, e) PROVE RegistryInv'
    BY <1>1, CallBegins DEF Register
  <1>2. ASSUME NEW e \in Entries, Unregister(t, e) PROVE RegistryInv'
    BY <1>2, CallBegins DEF Unregister
  <1>3. ASSUME NEW e \in Entries, UnregisterRefused(t, e) PROVE RegistryInv'
    <2>1. UNCHANGED <<walks, registry, inuse, late, call>>
      BY <1>3 DEF UnregisterRefused
    <2>2. QED
      BY <2>1 DEF RegistryInv, RegistryTypes, CallsHaveEntries, InUseCounted, Handling,
                  HandledIsListed, LateAreKnown, Listed, InOrder, PlainsFirst
  <1>4. QED
    BY <1>1, <1>2, <1>3, FindItKeeps, UnknownKeeps, HandledKeeps, RegisterItKeeps,
       UnregisterItKeeps DEF Caller, Registrar

----------------------------------------------------------------------------
(* The invariant of the consoles.                                          *)

ConTypes ==
  /\ files \in [Fds -> {Free, Other} \cup (Kinds \X Clients)]
  /\ con \in [Slots -> [fd : Fds \cup {NoFd}, p0 : Fds \cup {0}, p1 : Fds \cup {0}]]
  /\ peer \in [Clients -> {"away", "queued", "accepted", "gone"}]
  /\ left \subseteq Clients /\ spoke \subseteq Clients /\ lines \subseteq Clients
  /\ listen \in [at : {"poll", "scan", "take", "spawn", "giveup", "announce"},
                slot : 1 .. NumSlots + 1, fd : Fds \cup {NoFd}, client : Clients \cup {NoClient}]
  /\ serve \in [Slots -> [at : {"none", "greet", "poll", "client", "command", "pair", "end",
                                "closefd", "closep0", "closep1", "clear"},
                          client : Clients \cup {NoClient}, ev : SUBSET {"client", "pair"}]]
  /\ fan \in [Announcers -> [slot : 0 .. NumSlots + 1, write : BOOLEAN,
                             to : Clients \cup {NoClient}]]
  /\ others \in {"away", "open", "closed"}
  /\ strange \in BOOLEAN /\ strayed \in BOOLEAN /\ verbose \in BOOLEAN
  /\ dead \in BOOLEAN /\ writer \in Threads \cup {NoThread} /\ regs \in 0 .. MaxRegs

\* The client the listener has in hand, and the slot it fills.
InHand(c) == listen.at \in {"scan", "take", "spawn", "giveup"} /\ listen.client = c
Filling(x) == listen.at \in {"spawn", "giveup"} /\ listen.slot = x

ListenerHas ==
  /\ listen.at \in {"scan", "take", "spawn", "giveup"} =>
       /\ listen.client \in Clients /\ peer[listen.client] = "accepted"
       /\ listen.fd \in Fds /\ files[listen.fd] = Conn(listen.client)
       /\ \A x \in Slots : serve[x].client # listen.client
  /\ listen.at \in {"take", "spawn"} =>
       /\ con[listen.slot].p0 \in Fds /\ files[con[listen.slot].p0] = P0(listen.client)
       /\ con[listen.slot].p1 \in Fds /\ files[con[listen.slot].p1] = P1(listen.client)
  /\ listen.at \in {"take", "spawn", "giveup"} =>
       listen.slot \in Slots /\ serve[listen.slot].at = "none"
  /\ listen.at \in {"spawn", "giveup"} => con[listen.slot].fd = listen.fd
  /\ listen.at = "announce" => listen.slot \in Slots

\* A slot is taken from the moment it is filled until its thread clears it.
SlotsTaken ==
  \A x \in Slots : con[x].fd \in Fds <=> serve[x].at # "none" \/ Filling(x)

\* What a slot's thread still has to close.
HasP0(x) == Serving(x) \/ serve[x].at = "closep0"
HasP1(x) == HasP0(x) \/ serve[x].at = "closep1"

ConsolesHave ==
  \A x \in Slots :
    /\ serve[x].at = "none" <=> serve[x].client = NoClient
    /\ serve[x].at # "none" =>
         /\ peer[serve[x].client] = IF Serving(x) THEN "accepted" ELSE "gone"
         /\ \A y \in Slots : serve[y].client = serve[x].client => y = x
    /\ Serving(x) => files[con[x].fd] = Conn(serve[x].client)
    /\ HasP0(x) => con[x].p0 \in Fds /\ files[con[x].p0] = P0(serve[x].client)
    /\ HasP1(x) => con[x].p1 \in Fds /\ files[con[x].p1] = P1(serve[x].client)

\* Each file of a client is the one its holder knows.
FilesPlaced ==
  \A n \in Fds, c \in Clients :
    /\ files[n] = Conn(c) =>
         \/ InHand(c) /\ listen.fd = n
         \/ \E x \in Slots : Serving(x) /\ serve[x].client = c /\ con[x].fd = n
    /\ files[n] = P0(c) =>
         \/ InHand(c) /\ listen.at \in {"take", "spawn"} /\ con[listen.slot].p0 = n
         \/ \E x \in Slots : HasP0(x) /\ serve[x].client = c /\ con[x].p0 = n
    /\ files[n] = P1(c) =>
         \/ InHand(c) /\ listen.at \in {"take", "spawn"} /\ con[listen.slot].p1 = n
         \/ \E x \in Slots : HasP1(x) /\ serve[x].client = c /\ con[x].p1 = n

\* A line about to be written is meant for the console of its slot, or for one that is over.
Aimed(x, c) ==
  \/ peer[c] = "gone"
  \/ serve[x].client = c
  \/ Filling(x) /\ listen.client = c

LinesAimed ==
  \A w \in Announcers : fan[w].write =>
    fan[w].slot \in Slots /\ (fan[w].to \in Clients => Aimed(fan[w].slot, fan[w].to))

\* The listener announces only when it waits for a client.
FirstAnnounces == listen.at # "poll" => fan[Listener] = Silent

OwnInv == ListenerHas /\ SlotsTaken /\ ConsolesHave /\ FilesPlaced /\ ~strange

ConInv == ConTypes /\ OwnInv /\ LinesAimed /\ FirstAnnounces /\ ~strayed

AimKept == \A x \in Slots, c \in Clients : Aimed(x, c) => Aimed(x, c)'

----------------------------------------------------------------------------
(* Files, numbers and records.                                             *)

LEMMA Numerals ==
  /\ NoFd \notin Fds /\ 0 \notin Fds /\ Fds \subseteq Nat
  /\ \A n \in Fds \cup {NoFd} : n >= 0 <=> n \in Fds
  /\ Slots \subseteq Nat /\ \A x \in 1 .. NumSlots + 1 : x \in Slots \/ x = NumSlots + 1
  /\ 1 \in Slots /\ 1 \in 1 .. NumSlots + 1 /\ NumSlots + 1 \notin Slots
  /\ Slots \subseteq 1 .. NumSlots + 1
  BY ConsoleAssumption DEF NoFd, Fds, Slots

\* Files of different kinds or clients are different.
LEMMA Files ==
  ASSUME NEW c, NEW d
  PROVE  /\ Conn(c) = Conn(d) <=> c = d
         /\ P0(c) = P0(d) <=> c = d
         /\ P1(c) = P1(d) <=> c = d
         /\ Conn(c) # P0(d) /\ Conn(c) # P1(d) /\ P0(c) # P1(d)
         /\ Free \notin {Conn(c), P0(c), P1(c), Other}
         /\ Other \notin {Conn(c), P0(c), P1(c)}
  BY DEF Conn, P0, P1, Free, Other

\* What kinds of files there are.
LEMMA FileTypes ==
  ASSUME NEW c \in Clients
  PROVE  /\ Conn(c) \in Kinds \X Clients /\ P0(c) \in Kinds \X Clients /\ P1(c) \in Kinds \X Clients
         /\ Conn(c)[1] = "conn" /\ P0(c)[1] = "p0" /\ P1(c)[1] = "p1"
         /\ Conn(c)[2] = c /\ P0(c)[2] = c /\ P1(c)[2] = c
  BY DEF Conn, P0, P1, Kinds

\* A file of a client has one of three forms.
LEMMA FileForms ==
  ASSUME NEW f \in Kinds \X Clients
  PROVE  \E c \in Clients : f \in {Conn(c), P0(c), P1(c)}
  <1>1. PICK k \in Kinds, c \in Clients : f = <<k, c>>
    OBVIOUS
  <1>2. QED BY <1>1 DEF Kinds, Conn, P0, P1

\* The lowest number of some is one of them.
LEMMA LowestIs ==
  ASSUME NEW S, S \subseteq Fds, S # {}
  PROVE  Lowest(S) \in S
  <1>1. \E n \in S : \A m \in S : n <= m
    BY LeastNumber, Numerals
  <1>2. QED BY <1>1 DEF Lowest

\* A file is opened.
LEMMA OpenIs ==
  ASSUME ConTypes, NEW f \in {Free, Other} \cup (Kinds \X Clients), FreeFds # {},
         files' = [files EXCEPT ![NewFd] = f]
  PROVE  /\ NewFd \in Fds /\ files[NewFd] = Free
         /\ files' \in [Fds -> {Free, Other} \cup (Kinds \X Clients)]
         /\ \A m \in Fds : files'[m] = IF m = NewFd THEN f ELSE files[m]
  <1>1. NewFd \in Fds /\ files[NewFd] = Free
    <2>1. FreeFds \subseteq Fds
      BY DEF FreeFds
    <2>2. QED BY <2>1, LowestIs DEF NewFd, FreeFds
  <1>2. files \in [Fds -> {Free, Other} \cup (Kinds \X Clients)]
    BY DEF ConTypes
  <1>3. QED BY <1>1, <1>2

\* Somebody closes what is his.
LEMMA CloseIs ==
  ASSUME ConTypes, NEW n \in Fds, Close(n, files[n])
  PROVE  /\ strange' = strange
         /\ files' \in [Fds -> {Free, Other} \cup (Kinds \X Clients)]
         /\ \A m \in Fds : files'[m] = IF m = n THEN Free ELSE files[m]
  <1>1. FileAt(n) = files[n]
    BY DEF FileAt
  <1>2. files' = [m \in Fds |-> IF m = n THEN Free ELSE files[m]]
    BY DEF Close
  <1>3. strange' = (strange \/ FileAt(n) # files[n])
    BY DEF Close
  <1>4. strange \in BOOLEAN /\ files \in [Fds -> {Free, Other} \cup (Kinds \X Clients)]
    BY DEF ConTypes
  <1>5. strange' = strange
    BY <1>1, <1>3, <1>4
  <1>6. QED BY <1>2, <1>4, <1>5

Places == {"none", "greet", "poll", "client", "command", "pair", "end",
           "closefd", "closep0", "closep1", "clear"}

\* The thread of a console goes on.
LEMMA MoveIs ==
  ASSUME ConTypes, NEW x \in Slots, NEW at \in Places, Move(x, at)
  PROVE  /\ serve' \in [Slots -> [at : Places, client : Clients \cup {NoClient},
                                  ev : SUBSET {"client", "pair"}]]
         /\ \A y \in Slots : /\ serve'[y].client = serve[y].client
                             /\ serve'[y].at = IF y = x THEN at ELSE serve[y].at
  <1>1. serve \in [Slots -> [at : Places, client : Clients \cup {NoClient},
                             ev : SUBSET {"client", "pair"}]]
    BY DEF ConTypes, Places
  <1>2. serve' = [serve EXCEPT ![x].at = at]
    BY DEF Move
  <1>3. QED BY <1>1, <1>2

\* The number in a slot is set.
LEMMA SetFdIs ==
  ASSUME ConTypes, NEW x \in Slots, NEW n \in Fds \cup {NoFd}, con' = [con EXCEPT ![x].fd = n]
  PROVE  /\ con' \in [Slots -> [fd : Fds \cup {NoFd}, p0 : Fds \cup {0}, p1 : Fds \cup {0}]]
         /\ \A y \in Slots : /\ con'[y].p0 = con[y].p0 /\ con'[y].p1 = con[y].p1
                             /\ con'[y].fd = IF y = x THEN n ELSE con[y].fd
  <1>1. con \in [Slots -> [fd : Fds \cup {NoFd}, p0 : Fds \cup {0}, p1 : Fds \cup {0}]]
    BY DEF ConTypes
  <1>2. QED BY <1>1

----------------------------------------------------------------------------
(* Steps that pass no file on.                                             *)

\* Whether the thread of a console is in the same state as before, as far as files go.
SameStage(x) ==
  /\ serve'[x].client = serve[x].client
  /\ serve'[x].at = "none" <=> serve[x].at = "none"
  /\ Serving(x)' <=> Serving(x)
  /\ HasP0(x)' <=> HasP0(x)
  /\ HasP1(x)' <=> HasP1(x)

LEMMA NothingPassed ==
  ASSUME ConTypes, OwnInv,
         \A n \in Fds : files'[n] = files[n]
                        \/ (files'[n] \in {Free, Other} /\ files[n] \in {Free, Other}),
         \A c \in Clients : peer'[c] = peer[c] \/ (peer[c] = "away" /\ peer'[c] = "queued"),
         \A x \in Slots : SameStage(x),
         UNCHANGED <<strange, con, listen>>
  PROVE  OwnInv' /\ AimKept
  <1>1. \A n \in Fds, c \in Clients : /\ files'[n] = Conn(c) <=> files[n] = Conn(c)
                                      /\ files'[n] = P0(c) <=> files[n] = P0(c)
                                      /\ files'[n] = P1(c) <=> files[n] = P1(c)
    BY Files
  <1>2. \A c \in Clients : /\ peer'[c] = "accepted" <=> peer[c] = "accepted"
                           /\ peer'[c] = "gone" <=> peer[c] = "gone"
    OBVIOUS
  <1>3. \A x \in Slots : serve[x].client \in Clients \cup {NoClient}
    BY DEF ConTypes
  <1>4. \A x \in Slots : serve[x].at # "none" => serve[x].client \in Clients
    BY <1>3 DEF OwnInv, ConsolesHave
  <1>5. ListenerHas'
    BY <1>1, <1>2 DEF OwnInv, ListenerHas, SameStage
  <1>6. SlotsTaken'
    BY DEF OwnInv, SlotsTaken, Filling, SameStage
  <1>7. ConsolesHave'
    <2>1. SUFFICES ASSUME NEW x \in Slots
                   PROVE  /\ serve'[x].at = "none" <=> serve'[x].client = NoClient
                          /\ serve'[x].at # "none" =>
                               /\ peer'[serve'[x].client] = IF Serving(x)' THEN "accepted" ELSE "gone"
                               /\ \A y \in Slots : serve'[y].client = serve'[x].client => y = x
                          /\ Serving(x)' => files'[con[x].fd] = Conn(serve'[x].client)
                          /\ HasP0(x)' => con[x].p0 \in Fds /\ files'[con[x].p0] = P0(serve'[x].client)
                          /\ HasP1(x)' => con[x].p1 \in Fds /\ files'[con[x].p1] = P1(serve'[x].client)
      BY DEF ConsolesHave
    <2>2. SameStage(x) /\ \A y \in Slots : serve'[y].client = serve[y].client
      BY DEF SameStage
    <2>3. con[x].fd \in Fds \/ serve[x].at = "none"
      BY DEF OwnInv, SlotsTaken
    <2>4. CASE serve[x].at = "none"
      BY <2>2, <2>4 DEF OwnInv, ConsolesHave, SameStage, Serving, HasP0, HasP1
    <2>5. CASE serve[x].at # "none"
      <3>1. serve[x].client \in Clients
        BY <1>4, <2>5
      <3>2. QED BY <1>1, <1>2, <2>2, <2>3, <2>5, <3>1 DEF OwnInv, ConsolesHave, SameStage
    <2>6. QED BY <2>4, <2>5
  <1>8. FilesPlaced'
    BY <1>1 DEF OwnInv, FilesPlaced, SameStage, InHand
  <1>9. AimKept
    BY <1>2 DEF AimKept, Aimed, Filling, SameStage
  <1>10. QED BY <1>5, <1>6, <1>7, <1>8, <1>9 DEF OwnInv

\* Nothing at all happens to the files.
LEMMA NothingHappens ==
  ASSUME ConTypes, OwnInv, UNCHANGED <<files, strange, con, peer, listen>>,
         \A x \in Slots : SameStage(x)
  PROVE  OwnInv' /\ AimKept
  BY NothingPassed

StagePlaces == Places \ {"none", "closep0", "closep1", "clear"}

LEMMA StageMoves ==
  ASSUME ConTypes, NEW x \in Slots, serve[x].at \in StagePlaces,
         NEW at \in StagePlaces, Move(x, at)
  PROVE  \A y \in Slots : SameStage(y)
  <1>1. \A y \in Slots : /\ serve'[y].client = serve[y].client
                         /\ serve'[y].at = IF y = x THEN at ELSE serve[y].at
    BY MoveIs DEF StagePlaces
  <1>2. QED BY <1>1 DEF SameStage, Serving, HasP0, HasP1, StagePlaces, Places

LEMMA StageStays ==
  ASSUME serve' = serve
  PROVE  \A y \in Slots : SameStage(y)
  BY DEF SameStage, Serving, HasP0, HasP1

\* The types of what a step leaves alone.
RestTyped ==
  /\ peer \in [Clients -> {"away", "queued", "accepted", "gone"}]
  /\ left \subseteq Clients /\ spoke \subseteq Clients /\ lines \subseteq Clients
  /\ others \in {"away", "open", "closed"}
  /\ strange \in BOOLEAN /\ strayed \in BOOLEAN /\ verbose \in BOOLEAN
  /\ dead \in BOOLEAN /\ writer \in Threads \cup {NoThread} /\ regs \in 0 .. MaxRegs

FilesTyped == files \in [Fds -> {Free, Other} \cup (Kinds \X Clients)]
ConTyped == con \in [Slots -> [fd : Fds \cup {NoFd}, p0 : Fds \cup {0}, p1 : Fds \cup {0}]]
ListenTyped ==
  listen \in [at : {"poll", "scan", "take", "spawn", "giveup", "announce"},
              slot : 1 .. NumSlots + 1, fd : Fds \cup {NoFd}, client : Clients \cup {NoClient}]
ServeTyped ==
  serve \in [Slots -> [at : Places, client : Clients \cup {NoClient}, ev : SUBSET {"client", "pair"}]]
FanTyped ==
  fan \in [Announcers -> [slot : 0 .. NumSlots + 1, write : BOOLEAN, to : Clients \cup {NoClient}]]

LEMMA TypesAre ==
  ConTypes <=> RestTyped /\ FilesTyped /\ ConTyped /\ ListenTyped /\ ServeTyped /\ FanTyped
  BY DEF ConTypes, RestTyped, FilesTyped, ConTyped, ListenTyped, ServeTyped, FanTyped, Places

LEMMA TypesMake ==
  ASSUME RestTyped', FilesTyped', ConTyped', ListenTyped', ServeTyped', FanTyped'
  PROVE  ConTypes'
  BY DEF ConTypes, RestTyped, FilesTyped, ConTyped, ListenTyped, ServeTyped, FanTyped, Places

\* What is left alone keeps its type.
LEMMA TypesStay ==
  ASSUME ConTypes
  PROVE  /\ files' = files => FilesTyped'
         /\ con' = con => ConTyped'
         /\ listen' = listen => ListenTyped'
         /\ serve' = serve => ServeTyped'
         /\ fan' = fan => FanTyped'
         /\ UNCHANGED <<peer, left, spoke, lines, others, strange, strayed, verbose, dead, writer, regs>>
              => RestTyped'
  BY TypesAre DEF RestTyped, FilesTyped, ConTyped, ListenTyped, ServeTyped, FanTyped

\* A step that leaves the rest well typed.
LEMMA RestStays ==
  ASSUME ConTypes,
         peer' \in [Clients -> {"away", "queued", "accepted", "gone"}],
         left' \subseteq Clients, spoke' \subseteq Clients, lines' \subseteq Clients,
         others' \in {"away", "open", "closed"}, dead' \in BOOLEAN, strayed' \in BOOLEAN,
         UNCHANGED <<strange, verbose>>,
         writer' \in Threads \cup {NoThread}, regs' \in 0 .. MaxRegs
  PROVE  RestTyped'
  <1>1. strange \in BOOLEAN /\ verbose \in BOOLEAN
    BY DEF ConTypes
  <1>2. strange' \in BOOLEAN
    BY <1>1
  <1>3. verbose' \in BOOLEAN
    BY <1>1
  <1>4. QED BY <1>2, <1>3 DEF RestTyped

\* What is said to a client ends the process or does not.
LEMMA TellIs ==
  ASSUME NEW c, Tell(c)
  PROVE  dead' \in BOOLEAN
  <1>1. (c \in left) \in BOOLEAN
    OBVIOUS
  <1>2. dead' = (c \in left)
    BY DEF Tell
  <1>3. QED BY <1>1, <1>2, Zenon

LEMMA OthersKeep ==
  ASSUME ConTypes, OwnInv, OtherOpens \/ OtherCloses
  PROVE  ConTypes' /\ OwnInv' /\ AimKept
  <1>1. /\ UNCHANGED <<dead, writer, regs, con, peer, left, spoke, lines, listen, serve, fan,
                       strayed, verbose>>
        /\ others' \in {"away", "open", "closed"}
    BY DEF OtherOpens, OtherCloses, cliVars, registryVars
  <1>2. /\ strange' = strange
        /\ FilesTyped'
        /\ \A n \in Fds : files'[n] = files[n]
                          \/ (files'[n] \in {Free, Other} /\ files[n] \in {Free, Other})
    <2>1. CASE OtherOpens
      <3>1. FreeFds # {} /\ files' = [files EXCEPT ![NewFd] = Other] /\ strange' = strange
        BY <2>1 DEF OtherOpens
      <3>2. QED BY <3>1, OpenIs DEF FilesTyped
    <2>2. CASE OtherCloses
      <3>1. PICK n \in Fds : files[n] = Other /\ Close(n, Other)
        BY <2>2 DEF OtherCloses
      <3>2. QED BY <3>1, CloseIs DEF FilesTyped
    <2>3. QED BY <2>1, <2>2
  <1>3. OwnInv' /\ AimKept
    BY <1>1, <1>2, StageStays, NothingPassed
  <1>4. RestTyped'
    BY <1>1, <1>2, RestStays DEF ConTypes
  <1>5. QED BY <1>1, <1>2, <1>3, <1>4, TypesMake, TypesStay

LEMMA ClientsKeep ==
  ASSUME ConTypes, OwnInv, NEW c \in Clients, Connect(c) \/ Hangup(c)
  PROVE  ConTypes' /\ OwnInv' /\ AimKept
  <1>1. /\ UNCHANGED <<files, strange, dead, writer, regs, con, others, spoke, lines, listen,
                       serve, fan, strayed, verbose>>
        /\ left' \subseteq Clients
        /\ peer' \in [Clients -> {"away", "queued", "accepted", "gone"}]
        /\ \A d \in Clients : peer'[d] = peer[d] \/ (peer[d] = "away" /\ peer'[d] = "queued")
    BY DEF Connect, Hangup, cliVars, registryVars, ConTypes
  <1>2. OwnInv' /\ AimKept
    BY <1>1, StageStays, NothingPassed
  <1>3. RestTyped'
    BY <1>1, RestStays DEF ConTypes
  <1>4. QED BY <1>1, <1>2, <1>3, TypesMake, TypesStay

\* Who is at the place of a serving console has a client.
LEMMA ServesClient ==
  ASSUME ConTypes, OwnInv, NEW x \in Slots, serve[x].at # "none"
  PROVE  serve[x].client \in Clients
  BY DEF ConTypes, OwnInv, ConsolesHave

\* A console that goes on without closing anything.
LEMMA ServingKeeps ==
  ASSUME ConTypes, OwnInv, NEW x \in Slots,
         \/ Greet(x) \/ Poll(x) \/ ClientLeft(x) \/ ClientSpeaks(x) \/ NoInput(x)
         \/ CommandDone(x) \/ Forward(x) \/ End(x)
  PROVE  ConTypes' /\ OwnInv' /\ AimKept
  <1>1. UNCHANGED <<files, strange, others, con, peer, left, listen, strayed, verbose>>
    BY DEF Greet, Poll, ClientLeft, ClientSpeaks, NoInput, CommandDone, Forward, End
  <1>2. writer' = writer /\ regs' = regs
    BY DEF Greet, Poll, ClientLeft, ClientSpeaks, NoInput, CommandDone, Forward, End, cliVars,
           registryVars, Execute
  <1>3. dead' \in BOOLEAN
    <2>1. CASE Poll(x) \/ ClientLeft(x) \/ NoInput(x) \/ End(x) \/ ClientSpeaks(x)
      <3>1. dead' = dead
        BY <2>1 DEF Poll, ClientLeft, NoInput, End, ClientSpeaks, Execute, cliVars
      <3>2. QED BY <3>1 DEF ConTypes
    <2>2. CASE Greet(x)
      <3>1. Tell(serve[x].client)
        BY <2>2 DEF Greet
      <3>2. QED BY <3>1, TellIs
    <2>3. CASE CommandDone(x)
      <3>1. dead' \in {FALSE, serve[x].client \in left}
        BY <2>3 DEF CommandDone
      <3>2. (serve[x].client \in left) \in BOOLEAN
        OBVIOUS
      <3>3. QED BY <3>1, <3>2, Zenon
    <2>4. CASE Forward(x)
      <3>1. Tell(serve[x].client) \/ dead' = dead
        BY <2>4 DEF Forward
      <3>2. CASE dead' = dead
        BY <3>2 DEF ConTypes
      <3>3. QED BY <3>1, <3>2, TellIs
    <2>5. QED BY <2>1, <2>2, <2>3, <2>4
  <1>4. lines' \subseteq Clients /\ spoke' \subseteq Clients
    <2>1. lines' = lines \/ lines' = lines \ {serve[x].client}
      BY DEF Greet, Poll, ClientLeft, ClientSpeaks, NoInput, CommandDone, Forward, End
    <2>2. spoke' = spoke \/ spoke' = spoke \cup {serve[x].client}
      BY DEF Greet, Poll, ClientLeft, ClientSpeaks, NoInput, CommandDone, Forward, End
    <2>3. serve[x].client \in Clients
      <3>1. serve[x].at # "none"
        BY DEF Greet, Poll, ClientLeft, ClientSpeaks, NoInput, CommandDone, Forward, End, At
      <3>2. QED BY <3>1, ServesClient
    <2>4. lines \subseteq Clients /\ spoke \subseteq Clients
      BY DEF ConTypes
    <2>5. QED BY <2>1, <2>2, <2>3, <2>4
  <1>5. FanTyped'
    <2>1. fan' = fan \/ fan' = [fan EXCEPT ![x].slot = 1]
      BY DEF Greet, Poll, ClientLeft, ClientSpeaks, NoInput, CommandDone, Forward, End
    <2>2. FanTyped /\ 1 \in 0 .. NumSlots + 1
      BY TypesAre, Numerals
    <2>3. QED BY <2>1, <2>2 DEF FanTyped
  <1>6. ServeTyped' /\ \A y \in Slots : SameStage(y)
    <2>1. CASE Poll(x)
      <3>1. PICK ev \in SUBSET {"client", "pair"} :
              serve' = [serve EXCEPT ![x].at = "client", ![x].ev = ev]
        BY <2>1 DEF Poll
      <3>2. ServeTyped /\ "client" \in Places /\ serve[x].at = "poll"
        BY <2>1, TypesAre DEF Poll, At, Places
      <3>3. ServeTyped'
        BY <3>1, <3>2 DEF ServeTyped
      <3>4. \A y \in Slots : /\ serve'[y].client = serve[y].client
                             /\ serve'[y].at = IF y = x THEN "client" ELSE serve[y].at
        BY <3>1, <3>2 DEF ServeTyped
      <3>5. QED BY <3>2, <3>3, <3>4 DEF SameStage, Serving, HasP0, HasP1
    <2>2. CASE ~Poll(x)
      <3>1. PICK at \in StagePlaces : Move(x, at)
        BY <2>2 DEF Greet, ClientLeft, ClientSpeaks, NoInput, CommandDone, Forward, End,
                    StagePlaces, Places
      <3>2. serve[x].at \in StagePlaces
        BY <2>2 DEF Greet, ClientLeft, ClientSpeaks, NoInput, CommandDone, Forward, End, At,
                    StagePlaces, Places
      <3>3. ServeTyped'
        BY <3>1, MoveIs DEF StagePlaces, ServeTyped
      <3>4. QED BY <3>1, <3>2, <3>3, StageMoves
    <2>3. QED BY <2>1, <2>2
  <1>7. RestTyped'
    BY <1>1, <1>2, <1>3, <1>4, RestStays DEF ConTypes
  <1>8. QED BY <1>1, <1>5, <1>6, <1>7, NothingHappens, TypesMake, TypesStay

----------------------------------------------------------------------------
(* Steps of the listener.                                                  *)

\* A client who has not been accepted has no file and no console.
LEMMA Strangers ==
  ASSUME ConTypes, OwnInv, NEW c \in Clients, peer[c] \notin {"accepted", "gone"}
  PROVE  /\ \A n \in Fds : files[n] \notin {Conn(c), P0(c), P1(c)}
         /\ \A x \in Slots : serve[x].client # c
         /\ ~InHand(c)
  <1>1. ~InHand(c)
    BY DEF OwnInv, ListenerHas, InHand
  <1>2. \A x \in Slots : serve[x].client # c
    BY ConsoleAssumption DEF OwnInv, ConsolesHave
  <1>3. \A n \in Fds : files[n] \notin {Conn(c), P0(c), P1(c)}
    BY <1>1, <1>2 DEF OwnInv, FilesPlaced
  <1>4. QED BY <1>1, <1>2, <1>3

\* The consoles keep what they have when nobody touches the files of those served.
LEMMA ConsolesKept ==
  ASSUME ConTypes, OwnInv, serve' = serve,
         \A x \in Slots : serve[x].at # "none" =>
           con'[x] = con[x] /\ peer'[serve[x].client] = peer[serve[x].client],
         \A x \in Slots, n \in Fds :
           /\ serve[x].at # "none"
           /\ files[n] \in {Conn(serve[x].client), P0(serve[x].client), P1(serve[x].client)}
           => files'[n] = files[n]
  PROVE  ConsolesHave'
  <1>1. SUFFICES ASSUME NEW x \in Slots
                 PROVE  /\ serve[x].at = "none" <=> serve[x].client = NoClient
                        /\ serve[x].at # "none" =>
                             /\ peer'[serve[x].client] = IF Serving(x) THEN "accepted" ELSE "gone"
                             /\ \A y \in Slots : serve[y].client = serve[x].client => y = x
                        /\ Serving(x) => files'[con'[x].fd] = Conn(serve[x].client)
                        /\ HasP0(x) => con'[x].p0 \in Fds /\ files'[con'[x].p0] = P0(serve[x].client)
                        /\ HasP1(x) => con'[x].p1 \in Fds /\ files'[con'[x].p1] = P1(serve[x].client)
    BY DEF ConsolesHave, Serving, HasP0, HasP1
  <1>2. CASE serve[x].at = "none"
    BY <1>2 DEF OwnInv, ConsolesHave, Serving, HasP0, HasP1
  <1>3. CASE serve[x].at # "none"
    <2>1. con'[x] = con[x] /\ con[x].fd \in Fds
      BY <1>3 DEF OwnInv, SlotsTaken
    <2>2. QED BY <1>3, <2>1 DEF OwnInv, ConsolesHave
  <1>4. QED BY <1>2, <1>3

\* The listener's two ends of a pair.
HasPair(c) == InHand(c) /\ listen.at \in {"take", "spawn"}

LEMMA PlacedKept ==
  ASSUME ConTypes, OwnInv, serve' = serve,
         \A x \in Slots : serve[x].at # "none" => con'[x] = con[x],
         \A n \in Fds, c \in Clients :
           /\ files'[n] = Conn(c) => \/ InHand(c)' /\ listen'.fd = n
                                     \/ files[n] = Conn(c) /\ ~(InHand(c) /\ listen.fd = n)
           /\ files'[n] = P0(c) => \/ HasPair(c)' /\ con'[listen'.slot].p0 = n
                                   \/ files[n] = P0(c) /\ ~(HasPair(c) /\ con[listen.slot].p0 = n)
           /\ files'[n] = P1(c) => \/ HasPair(c)' /\ con'[listen'.slot].p1 = n
                                   \/ files[n] = P1(c) /\ ~(HasPair(c) /\ con[listen.slot].p1 = n)
  PROVE  FilesPlaced'
  <1>1. \A x \in Slots : (Serving(x)' <=> Serving(x)) /\ (HasP0(x)' <=> HasP0(x))
                         /\ (HasP1(x)' <=> HasP1(x))
    BY DEF Serving, HasP0, HasP1
  <1>2. \A x \in Slots : Serving(x) \/ HasP0(x) \/ HasP1(x) => serve[x].at # "none"
    BY DEF Serving, HasP0, HasP1
  <1>3. SUFFICES ASSUME NEW n \in Fds, NEW c \in Clients
        PROVE  /\ files'[n] = Conn(c) =>
                    \/ InHand(c)' /\ listen'.fd = n
                    \/ \E x \in Slots : Serving(x) /\ serve[x].client = c /\ con'[x].fd = n
               /\ files'[n] = P0(c) =>
                    \/ HasPair(c)' /\ con'[listen'.slot].p0 = n
                    \/ \E x \in Slots : HasP0(x) /\ serve[x].client = c /\ con'[x].p0 = n
               /\ files'[n] = P1(c) =>
                    \/ HasPair(c)' /\ con'[listen'.slot].p1 = n
                    \/ \E x \in Slots : HasP1(x) /\ serve[x].client = c /\ con'[x].p1 = n
    BY <1>1 DEF FilesPlaced, HasPair
  <1>4. ASSUME files'[n] = Conn(c), ~(InHand(c)' /\ listen'.fd = n)
        PROVE  \E x \in Slots : Serving(x) /\ serve[x].client = c /\ con'[x].fd = n
    <2>1. files[n] = Conn(c) /\ ~(InHand(c) /\ listen.fd = n)
      BY <1>4
    <2>2. PICK x \in Slots : Serving(x) /\ serve[x].client = c /\ con[x].fd = n
      BY <2>1 DEF OwnInv, FilesPlaced
    <2>3. QED BY <1>2, <2>2
  <1>5. ASSUME files'[n] = P0(c), ~(HasPair(c)' /\ con'[listen'.slot].p0 = n)
        PROVE  \E x \in Slots : HasP0(x) /\ serve[x].client = c /\ con'[x].p0 = n
    <2>1. files[n] = P0(c) /\ ~(HasPair(c) /\ con[listen.slot].p0 = n)
      BY <1>5
    <2>2. PICK x \in Slots : HasP0(x) /\ serve[x].client = c /\ con[x].p0 = n
      BY <2>1 DEF OwnInv, FilesPlaced, HasPair
    <2>3. QED BY <1>2, <2>2
  <1>6. ASSUME files'[n] = P1(c), ~(HasPair(c)' /\ con'[listen'.slot].p1 = n)
        PROVE  \E x \in Slots : HasP1(x) /\ serve[x].client = c /\ con'[x].p1 = n
    <2>1. files[n] = P1(c) /\ ~(HasPair(c) /\ con[listen.slot].p1 = n)
      BY <1>6
    <2>2. PICK x \in Slots : HasP1(x) /\ serve[x].client = c /\ con[x].p1 = n
      BY <2>1 DEF OwnInv, FilesPlaced, HasPair
    <2>3. QED BY <1>2, <2>2
  <1>7. QED BY <1>4, <1>5, <1>6

\* accept.
LEMMA AcceptKeeps ==
  ASSUME ConTypes, OwnInv, NEW c \in Clients, Accept(c)
  PROVE  ConTypes' /\ OwnInv' /\ AimKept
  <1>1. /\ listen.at = "poll" /\ peer[c] = "queued" /\ FreeFds # {}
        /\ UNCHANGED <<dead, writer, regs, strange, others, con, left, spoke, lines, serve, fan,
                       strayed, verbose>>
    BY DEF Accept, Listens, cliVars, registryVars
  <1>2. /\ \A n \in Fds : files[n] \notin {Conn(c), P0(c), P1(c)}
        /\ \A x \in Slots : serve[x].client # c
        /\ ~InHand(c)
    BY <1>1, Strangers
  <1>3. /\ peer' \in [Clients -> {"away", "queued", "accepted", "gone"}]
        /\ peer'[c] \in {"accepted", "gone"}
        /\ \A d \in Clients \ {c} : peer'[d] = peer[d]
    BY DEF Accept, ConTypes
  <1>4. RestTyped'
    BY <1>1, <1>3, RestStays DEF ConTypes
  <1>5. \A x \in Slots : serve[x].at # "none" => serve[x].client \in Clients
    BY ServesClient
  <1>6. \A x \in Slots : ~Filling(x)
    BY <1>1 DEF Filling
  <1>7. CASE /\ peer' = [peer EXCEPT ![c] = "gone"]
             /\ UNCHANGED <<files, listen>>
    <2>1. ConsolesHave'
      BY <1>1, <1>2, <1>3, <1>5, <1>7, ConsolesKept
    <2>2. FilesPlaced'
      BY <1>1, <1>7 DEF OwnInv, FilesPlaced, InHand, Serving, HasP0, HasP1
    <2>3. ListenerHas'
      BY <1>1, <1>7 DEF OwnInv, ListenerHas
    <2>4. SlotsTaken'
      BY <1>1, <1>7 DEF OwnInv, SlotsTaken, Filling
    <2>5. AimKept
      BY <1>1, <1>2, <1>3, <1>7 DEF AimKept, Aimed, Filling
    <2>6. ConTypes'
      BY <1>1, <1>4, <1>7, TypesMake, TypesStay
    <2>7. QED BY <1>1, <2>1, <2>2, <2>3, <2>4, <2>5, <2>6 DEF OwnInv
  <1>8. CASE /\ peer' = [peer EXCEPT ![c] = "accepted"]
             /\ files' = [files EXCEPT ![NewFd] = Conn(c)]
             /\ listen' = [at |-> "scan", slot |-> 1, fd |-> NewFd, client |-> c]
    <2>1. PICK f \in Fds : f = NewFd
      BY <1>1, LowestIs DEF NewFd, FreeFds
    <2>2. /\ files[f] = Free /\ FilesTyped'
          /\ \A m \in Fds : files'[m] = IF m = f THEN Conn(c) ELSE files[m]
      BY <1>1, <1>8, <2>1, OpenIs, FileTypes DEF FilesTyped
    <2>3. /\ listen'.at = "scan" /\ listen'.slot = 1 /\ listen'.fd = f /\ listen'.client = c
          /\ ListenTyped'
      BY <1>8, <2>1, Numerals DEF ListenTyped
    <2>4. \A m \in Fds : files[m] # Free => files'[m] = files[m]
      BY <2>2
    <2>5. ConsolesHave'
      <3>1. ASSUME NEW x \in Slots, NEW n \in Fds, serve[x].at # "none",
                   files[n] \in {Conn(serve[x].client), P0(serve[x].client), P1(serve[x].client)}
            PROVE  files'[n] = files[n]
        BY <2>4, <3>1, Files
      <3>2. QED BY <1>1, <1>2, <1>3, <1>5, <3>1, ConsolesKept
    <2>6. FilesPlaced'
      <3>1. ASSUME NEW n \in Fds, NEW d \in Clients
            PROVE  /\ files'[n] = Conn(d) => \/ InHand(d)' /\ listen'.fd = n
                                             \/ files[n] = Conn(d) /\ ~(InHand(d) /\ listen.fd = n)
                   /\ files'[n] = P0(d) => files[n] = P0(d) /\ ~HasPair(d)
                   /\ files'[n] = P1(d) => files[n] = P1(d) /\ ~HasPair(d)
        BY <1>1, <2>2, <2>3, Files DEF InHand, HasPair
      <3>2. QED BY <1>1, <3>1, PlacedKept
    <2>7. ListenerHas'
      BY <1>1, <1>2, <1>8, <2>2, <2>3 DEF ListenerHas, ConTypes
    <2>8. SlotsTaken'
      BY <1>1, <1>6, <2>3 DEF OwnInv, SlotsTaken, Filling
    <2>9. AimKept
      BY <1>1, <1>2, <1>3, <1>6 DEF AimKept, Aimed
    <2>10. ConTypes'
      BY <1>1, <1>4, <2>2, <2>3, TypesMake, TypesStay
    <2>11. QED BY <1>1, <2>5, <2>6, <2>7, <2>8, <2>9, <2>10 DEF OwnInv
  <1>9. QED BY <1>7, <1>8 DEF Accept

\* A slot that is taken is passed over.
LEMMA ScanKeeps ==
  ASSUME ConTypes, OwnInv, ScanBusy
  PROVE  ConTypes' /\ OwnInv' /\ AimKept
  <1>1. /\ listen.at = "scan" /\ listen.slot \in Slots
        /\ UNCHANGED <<dead, writer, regs, files, peer, strange, others, con, left, spoke, lines,
                       serve, fan, strayed, verbose>>
        /\ listen' = [listen EXCEPT !.slot = @ + 1]
    BY DEF ScanBusy, Listens, cliVars, registryVars
  <1>2. /\ listen'.at = "scan" /\ listen'.fd = listen.fd /\ listen'.client = listen.client
        /\ ListenTyped'
    <2>1. listen.slot + 1 \in 1 .. NumSlots + 1
      BY <1>1, ConsoleAssumption DEF Slots
    <2>2. QED BY <1>1, <2>1, TypesAre DEF ListenTyped
  <1>3. ListenerHas'
    BY <1>1, <1>2 DEF OwnInv, ListenerHas
  <1>4. SlotsTaken'
    BY <1>1, <1>2 DEF OwnInv, SlotsTaken, Filling
  <1>5. ConsolesHave'
    BY <1>1, ConsolesKept
  <1>6. FilesPlaced'
    BY <1>1, <1>2 DEF OwnInv, FilesPlaced, InHand, Serving, HasP0, HasP1
  <1>7. AimKept
    BY <1>1, <1>2 DEF AimKept, Aimed, Filling
  <1>8. ConTypes'
    BY <1>1, <1>2, TypesMake, TypesStay
  <1>9. QED BY <1>1, <1>3, <1>4, <1>5, <1>6, <1>7, <1>8 DEF OwnInv

\* The listener closes the client it has in hand and begins anew.
LEMMA DropKeeps ==
  ASSUME ConTypes, OwnInv, NEW c \in Clients, listen.client = c,
         listen.at = "scan" \/ listen.at = "giveup",
         Close(listen.fd, Conn(c)), peer' = [peer EXCEPT ![c] = "gone"], listen' = Listening,
         \/ listen.at = "scan" /\ con' = con
         \/ listen.at = "giveup" /\ con' = [con EXCEPT ![listen.slot].fd = NoFd],
         lines' \subseteq Clients, dead' \in BOOLEAN,
         UNCHANGED <<writer, regs, others, left, spoke, serve, fan, strayed, verbose>>
  PROVE  ConTypes' /\ OwnInv' /\ AimKept
  <1>1. /\ peer[c] = "accepted" /\ listen.fd \in Fds /\ files[listen.fd] = Conn(c)
        /\ \A x \in Slots : serve[x].client # c
        /\ InHand(c) /\ \A d \in Clients : InHand(d) => d = c
        /\ ~HasPair(c)
    BY DEF OwnInv, ListenerHas, InHand, HasPair
  <1>2. /\ strange' = strange /\ FilesTyped'
        /\ \A m \in Fds : files'[m] = IF m = listen.fd THEN Free ELSE files[m]
    BY <1>1, CloseIs DEF FilesTyped
  <1>3. /\ listen'.at = "poll" /\ listen'.slot = 1 /\ listen'.fd = NoFd
        /\ listen'.client = NoClient /\ ListenTyped'
    BY Numerals DEF Listening, ListenTyped
  <1>4. /\ peer' \in [Clients -> {"away", "queued", "accepted", "gone"}]
        /\ peer'[c] = "gone" /\ \A d \in Clients \ {c} : peer'[d] = peer[d]
    BY DEF ConTypes
  <1>5. /\ ConTyped'
        /\ \A x \in Slots : serve[x].at # "none" => con'[x] = con[x]
        /\ \A x \in Slots : con'[x].fd \in Fds <=> serve[x].at # "none"
    <2>1. CASE listen.at = "scan" /\ con' = con
      <3>1. ConTyped'
        BY <2>1, TypesStay
      <3>2. QED BY <2>1, <3>1 DEF OwnInv, SlotsTaken, Filling
    <2>2. CASE listen.at = "giveup" /\ con' = [con EXCEPT ![listen.slot].fd = NoFd]
      <3>1. listen.slot \in Slots /\ serve[listen.slot].at = "none"
        BY <2>2 DEF OwnInv, ListenerHas
      <3>2. /\ ConTyped' /\ DOMAIN con = Slots
            /\ \A y \in Slots : con'[y].fd = IF y = listen.slot THEN NoFd ELSE con[y].fd
        <4>1. PICK x \in Slots : x = listen.slot
          BY <3>1
        <4>2. con' = [con EXCEPT ![x].fd = NoFd]
          BY <2>2, <4>1
        <4>3. /\ ConTyped'
              /\ \A y \in Slots : con'[y].fd = IF y = x THEN NoFd ELSE con[y].fd
          BY <4>2, SetFdIs DEF ConTyped
        <4>4. DOMAIN con = Slots
          BY DEF ConTypes
        <4>5. QED BY <4>1, <4>3, <4>4
      <3>3. \A x \in Slots : x # listen.slot => con'[x] = con[x]
        BY <2>2, <3>1, <3>2
      <3>4. QED BY <2>2, <3>1, <3>2, <3>3, Numerals DEF OwnInv, SlotsTaken, Filling
    <2>3. QED BY <2>1, <2>2
  <1>6. RestTyped'
    BY <1>2, <1>4, RestStays DEF ConTypes
  <1>7. \A x \in Slots : serve[x].at # "none" => serve[x].client \in Clients
    BY ServesClient
  <1>8. ListenerHas'
    BY <1>3 DEF ListenerHas
  <1>9. SlotsTaken'
    BY <1>3, <1>5 DEF SlotsTaken, Filling
  <1>10. ConsolesHave'
    <2>1. ASSUME NEW x \in Slots, NEW n \in Fds, serve[x].at # "none",
                 files[n] \in {Conn(serve[x].client), P0(serve[x].client), P1(serve[x].client)}
          PROVE  files'[n] = files[n]
      <3>1. serve[x].client # c
        BY <1>1
      <3>2. n # listen.fd
        BY <1>1, <2>1, <3>1, Files
      <3>3. QED BY <1>2, <3>2
    <2>2. QED BY <1>1, <1>4, <1>5, <1>7, <2>1, ConsolesKept
  <1>11. FilesPlaced'
    <2>1. ASSUME NEW n \in Fds, NEW d \in Clients
          PROVE  /\ files'[n] = Conn(d) => files[n] = Conn(d) /\ ~(InHand(d) /\ listen.fd = n)
                 /\ files'[n] = P0(d) => files[n] = P0(d) /\ ~HasPair(d)
                 /\ files'[n] = P1(d) => files[n] = P1(d) /\ ~HasPair(d)
      BY <1>1, <1>2, Files DEF HasPair
    <2>2. QED BY <1>5, <2>1, PlacedKept
  <1>12. AimKept
    BY <1>3, <1>4 DEF AimKept, Aimed, Filling
  <1>13. ConTypes'
    BY <1>2, <1>3, <1>5, <1>6, TypesMake, TypesStay
  <1>14. QED BY <1>2, <1>8, <1>9, <1>10, <1>11, <1>12, <1>13 DEF OwnInv

\* There is no slot or no pair for the client.
LEMMA RefusedKeeps ==
  ASSUME ConTypes, OwnInv, ScanFull \/ PairFails
  PROVE  ConTypes' /\ OwnInv' /\ AimKept
  <1>1. Refuse /\ listen.at = "scan"
    BY DEF ScanFull, PairFails, FreeSlot, Listens
  <1>2. PICK c \in Clients : c = listen.client
    BY <1>1 DEF OwnInv, ListenerHas
  <1>3. con' = con
    <2>1. CASE ScanFull
      BY <2>1 DEF ScanFull
    <2>2. CASE PairFails
      <3>1. listen.slot \in Slots /\ con' = [con EXCEPT ![listen.slot].fd = NoFd]
        BY <2>2 DEF PairFails, FreeSlot
      <3>2. con[listen.slot].fd = NoFd
        BY <2>2, <3>1, Numerals DEF PairFails, FreeSlot, ConTypes
      <3>3. con[listen.slot] \in [fd : Fds \cup {NoFd}, p0 : Fds \cup {0}, p1 : Fds \cup {0}]
        BY <3>1 DEF ConTypes
      <3>4. [con[listen.slot] EXCEPT !.fd = NoFd] = con[listen.slot]
        BY <3>2, <3>3
      <3>5. QED BY <3>1, <3>4 DEF ConTypes
    <2>3. QED BY <2>1, <2>2
  <1>4. /\ Close(listen.fd, Conn(c)) /\ peer' = [peer EXCEPT ![c] = "gone"] /\ listen' = Listening
        /\ Tell(c)
        /\ UNCHANGED <<writer, regs, others, left, spoke, lines, serve, fan, strayed, verbose>>
    BY <1>1, <1>2 DEF Refuse, registryVars
  <1>5. lines' \subseteq Clients
    BY <1>4 DEF ConTypes
  <1>6. dead' \in BOOLEAN
    BY <1>4, TellIs
  <1>7. QED BY <1>1, <1>2, <1>3, <1>4, <1>5, <1>6, DropKeeps

\* No thread was started for the client.
LEMMA GiveUpKeeps ==
  ASSUME ConTypes, OwnInv, GiveUp
  PROVE  ConTypes' /\ OwnInv' /\ AimKept
  <1>1. listen.at = "giveup"
    BY DEF GiveUp, Listens
  <1>2. PICK c \in Clients : c = listen.client
    BY <1>1 DEF OwnInv, ListenerHas
  <1>3. /\ con' = [con EXCEPT ![listen.slot].fd = NoFd]
        /\ Close(listen.fd, Conn(c)) /\ peer' = [peer EXCEPT ![c] = "gone"] /\ listen' = Listening
        /\ lines' = lines \ {c}
        /\ UNCHANGED <<dead, writer, regs, others, left, spoke, serve, fan, strayed, verbose>>
    BY <1>2 DEF GiveUp, cliVars, registryVars
  <1>4. lines' \subseteq Clients /\ dead' \in BOOLEAN
    BY <1>3 DEF ConTypes
  <1>5. QED BY <1>1, <1>2, <1>3, <1>4, DropKeeps

\* Two free numbers are two different ones.
LEMMA TwoFree ==
  ASSUME ConTypes, Cardinality(FreeFds) >= 2
  PROVE  \E a, b \in Fds : /\ a # b /\ files[a] = Free /\ files[b] = Free
                           /\ a = NewFd /\ b = Lowest(FreeFds \ {a})
  <1>1. FreeFds \subseteq Fds /\ IsFiniteSet(FreeFds)
    <2>1. IsFiniteSet(Fds)
      BY ConsoleAssumption, FS_Interval DEF Fds
    <2>2. FreeFds \subseteq Fds
      BY DEF FreeFds
    <2>3. QED BY <2>1, <2>2, FS_Subset
  <1>2. FreeFds # {}
    BY FS_EmptySet
  <1>3. PICK a \in FreeFds : a = NewFd
    BY <1>1, <1>2, LowestIs DEF NewFd
  <1>4. FreeFds \ {a} # {}
    <2>1. SUFFICES ASSUME FreeFds \ {a} = {} PROVE FALSE
      OBVIOUS
    <2>2. FreeFds = {a}
      BY <1>3, <2>1
    <2>3. Cardinality(FreeFds) = 1
      BY <2>2, FS_Singleton
    <2>4. QED BY <2>3
  <1>5. Lowest(FreeFds \ {a}) \in FreeFds \ {a}
    BY <1>1, <1>4, LowestIs
  <1>6. QED BY <1>1, <1>3, <1>5 DEF FreeFds

\* socketpair.
LEMMA PairKeeps ==
  ASSUME ConTypes, OwnInv, MakePair
  PROVE  ConTypes' /\ OwnInv' /\ AimKept
  <1>1. /\ listen.at = "scan" /\ listen.slot \in Slots /\ con[listen.slot].fd < 0
        /\ Cardinality(FreeFds) >= 2
        /\ listen' = [listen EXCEPT !.at = "take"]
        /\ UNCHANGED <<dead, writer, regs, strange, others, peer, left, spoke, lines, serve, fan,
                       strayed, verbose>>
    BY DEF MakePair, FreeSlot, Listens, cliVars, registryVars
  <1>2. PICK s \in Slots : s = listen.slot
    BY <1>1
  <1>3. PICK c \in Clients : c = listen.client
    BY <1>1 DEF OwnInv, ListenerHas
  <1>4. PICK a \in Fds, b \in Fds : /\ a # b /\ files[a] = Free /\ files[b] = Free
                                    /\ a = NewFd /\ b = Lowest(FreeFds \ {a})
    BY <1>1, TwoFree
  <1>5. /\ files' = [files EXCEPT ![a] = P0(c), ![b] = P1(c)]
        /\ con' = [con EXCEPT ![s].p0 = a, ![s].p1 = b]
    BY <1>2, <1>3, <1>4 DEF MakePair
  <1>6. /\ FilesTyped'
        /\ \A m \in Fds : files'[m] = IF m = a THEN P0(c) ELSE IF m = b THEN P1(c) ELSE files[m]
    BY <1>4, <1>5, FileTypes, TypesAre DEF FilesTyped
  <1>7. /\ ConTyped'
        /\ con'[s].fd = con[s].fd /\ con'[s].p0 = a /\ con'[s].p1 = b
        /\ \A y \in Slots \ {s} : con'[y] = con[y]
    <2>1. con \in [Slots -> [fd : Fds \cup {NoFd}, p0 : Fds \cup {0}, p1 : Fds \cup {0}]]
      BY DEF ConTypes
    <2>2. QED BY <1>5, <2>1 DEF ConTyped
  <1>8. /\ listen'.at = "take" /\ listen'.slot = s /\ listen'.fd = listen.fd /\ listen'.client = c
        /\ ListenTyped'
    BY <1>1, <1>2, <1>3, TypesAre DEF ListenTyped
  <1>9. serve[s].at = "none" /\ \A x \in Slots : ~Filling(x)
    BY <1>1, <1>2, Numerals DEF OwnInv, SlotsTaken, Filling, Fds
  <1>10. /\ InHand(c) /\ \A d \in Clients : InHand(d) => d = c
         /\ \A d \in Clients : ~HasPair(d)
         /\ InHand(c)' /\ HasPair(c)'
    BY <1>1, <1>3, <1>8 DEF InHand, HasPair
  <1>11. \A m \in Fds : files[m] # Free => files'[m] = files[m]
    BY <1>4, <1>6
  <1>12. ListenerHas'
    <2>1. /\ listen.fd \in Fds /\ files[listen.fd] = Conn(c) /\ peer[c] = "accepted"
          /\ \A x \in Slots : serve[x].client # c
      BY <1>1, <1>3 DEF OwnInv, ListenerHas
    <2>2. files'[listen.fd] = Conn(c)
      BY <1>11, <2>1, Files
    <2>3. files'[a] = P0(c) /\ files'[b] = P1(c)
      BY <1>4, <1>6
    <2>4. QED BY <1>1, <1>7, <1>8, <1>9, <2>1, <2>2, <2>3 DEF ListenerHas
  <1>13. SlotsTaken'
    BY <1>1, <1>7, <1>8, <1>9 DEF OwnInv, SlotsTaken, Filling
  <1>14. ConsolesHave'
    <2>1. ASSUME NEW x \in Slots, NEW n \in Fds, serve[x].at # "none",
                 files[n] \in {Conn(serve[x].client), P0(serve[x].client), P1(serve[x].client)}
          PROVE  files'[n] = files[n]
      BY <1>11, <2>1, Files
    <2>2. QED BY <1>1, <1>7, <1>9, <2>1, ConsolesKept
  <1>15. FilesPlaced'
    <2>1. ASSUME NEW n \in Fds, NEW d \in Clients
          PROVE  /\ files'[n] = Conn(d) => \/ InHand(d)' /\ listen'.fd = n
                                           \/ files[n] = Conn(d) /\ ~(InHand(d) /\ listen.fd = n)
                 /\ files'[n] = P0(d) => \/ HasPair(d)' /\ con'[s].p0 = n
                                         \/ files[n] = P0(d) /\ ~HasPair(d)
                 /\ files'[n] = P1(d) => \/ HasPair(d)' /\ con'[s].p1 = n
                                         \/ files[n] = P1(d) /\ ~HasPair(d)
      BY <1>6, <1>7, <1>8, <1>10, Files
    <2>2. QED BY <1>1, <1>7, <1>8, <1>9, <2>1, PlacedKept
  <1>16. AimKept
    BY <1>1, <1>9 DEF AimKept, Aimed
  <1>17. RestTyped'
    BY <1>1, TypesStay
  <1>18. ConTypes'
    BY <1>1, <1>6, <1>7, <1>8, <1>17, TypesMake, TypesStay
  <1>19. QED BY <1>1, <1>12, <1>13, <1>14, <1>15, <1>16, <1>18 DEF OwnInv

\* The slot is taken.
LEMMA TakeKeeps ==
  ASSUME ConTypes, OwnInv, TakeSlot
  PROVE  ConTypes' /\ OwnInv' /\ AimKept
  <1>1. /\ listen.at = "take"
        /\ listen' = [listen EXCEPT !.at = "spawn"]
        /\ UNCHANGED <<dead, writer, regs, files, strange, others, peer, left, spoke, lines, serve,
                       fan, strayed, verbose>>
    BY DEF TakeSlot, Listens, cliVars, registryVars
  <1>2. PICK s \in Slots : s = listen.slot /\ serve[s].at = "none"
    BY <1>1 DEF OwnInv, ListenerHas
  <1>3. PICK f \in Fds : f = listen.fd
    BY <1>1 DEF OwnInv, ListenerHas
  <1>4. /\ ConTyped'
        /\ \A y \in Slots : /\ con'[y].p0 = con[y].p0 /\ con'[y].p1 = con[y].p1
                            /\ con'[y].fd = IF y = s THEN f ELSE con[y].fd
    <2>1. con' = [con EXCEPT ![s].fd = f]
      BY <1>2, <1>3 DEF TakeSlot
    <2>2. QED BY <2>1, SetFdIs DEF ConTyped
  <1>5. \A y \in Slots \ {s} : con'[y] = con[y]
    <2>1. con' = [con EXCEPT ![s].fd = f] /\ DOMAIN con = Slots
      BY <1>2, <1>3 DEF TakeSlot, ConTypes
    <2>2. QED BY <2>1
  <1>6. /\ listen'.at = "spawn" /\ listen'.slot = s /\ listen'.fd = f
        /\ listen'.client = listen.client /\ ListenTyped'
    BY <1>1, <1>2, <1>3, TypesAre DEF ListenTyped
  <1>7. /\ \A d \in Clients : (InHand(d)' <=> InHand(d)) /\ (HasPair(d)' <=> HasPair(d))
        /\ \A x \in Slots : ~Filling(x) /\ (Filling(x)' <=> x = s)
    BY <1>1, <1>2, <1>6 DEF InHand, HasPair, Filling
  <1>8. ListenerHas'
    BY <1>1, <1>2, <1>3, <1>4, <1>6 DEF OwnInv, ListenerHas
  <1>9. SlotsTaken'
    BY <1>1, <1>2, <1>4, <1>7 DEF OwnInv, SlotsTaken
  <1>10. ConsolesHave'
    BY <1>1, <1>2, <1>5, ConsolesKept
  <1>11. FilesPlaced'
    <2>1. ASSUME NEW n \in Fds, NEW d \in Clients
          PROVE  /\ files'[n] = Conn(d) => \/ InHand(d)' /\ listen'.fd = n
                                           \/ files[n] = Conn(d) /\ ~(InHand(d) /\ listen.fd = n)
                 /\ files'[n] = P0(d) => \/ HasPair(d)' /\ con'[s].p0 = n
                                         \/ files[n] = P0(d) /\ ~(HasPair(d) /\ con[s].p0 = n)
                 /\ files'[n] = P1(d) => \/ HasPair(d)' /\ con'[s].p1 = n
                                         \/ files[n] = P1(d) /\ ~(HasPair(d) /\ con[s].p1 = n)
      BY <1>1, <1>3, <1>4, <1>6, <1>7
    <2>2. QED BY <1>1, <1>2, <1>5, <1>6, <2>1, PlacedKept
  <1>12. AimKept
    BY <1>1, <1>7 DEF AimKept, Aimed
  <1>13. RestTyped'
    BY <1>1, TypesStay
  <1>14. ConTypes'
    BY <1>1, <1>4, <1>6, <1>13, TypesMake, TypesStay
  <1>15. QED BY <1>1, <1>8, <1>9, <1>10, <1>11, <1>12, <1>14 DEF OwnInv

\* The thread of the slot starts, and has what the listener had.
LEMMA SpawnKeeps ==
  ASSUME ConTypes, OwnInv, Spawn
  PROVE  ConTypes' /\ OwnInv' /\ AimKept
  <1>1. /\ listen.at = "spawn"
        /\ listen' = [listen EXCEPT !.at = "announce"]
        /\ UNCHANGED <<dead, writer, regs, files, strange, others, con, peer, left, spoke, lines,
                       fan, strayed, verbose>>
    BY DEF Spawn, Listens, cliVars, registryVars
  <1>2. PICK s \in Slots : s = listen.slot /\ serve[s].at = "none"
    BY <1>1 DEF OwnInv, ListenerHas
  <1>3. PICK c \in Clients : c = listen.client
    BY <1>1 DEF OwnInv, ListenerHas
  <1>4. serve' = [serve EXCEPT ![s] = [at |-> "greet", client |-> c, ev |-> {}]]
    BY <1>2, <1>3 DEF Spawn
  <1>5. /\ ServeTyped'
        /\ serve'[s].at = "greet" /\ serve'[s].client = c
        /\ \A y \in Slots \ {s} : serve'[y] = serve[y]
    <2>1. ServeTyped /\ "greet" \in Places
      BY TypesAre DEF Places
    <2>2. QED BY <1>4, <2>1 DEF ServeTyped
  <1>6. /\ listen'.at = "announce" /\ listen'.slot = s /\ ListenTyped'
    BY <1>1, <1>2, TypesAre DEF ListenTyped
  <1>7. /\ peer[c] = "accepted" /\ listen.fd \in Fds /\ files[listen.fd] = Conn(c)
        /\ \A x \in Slots : serve[x].client # c
        /\ con[s].p0 \in Fds /\ files[con[s].p0] = P0(c)
        /\ con[s].p1 \in Fds /\ files[con[s].p1] = P1(c)
        /\ con[s].fd = listen.fd
    BY <1>1, <1>2, <1>3 DEF OwnInv, ListenerHas
  <1>8. /\ \A x \in Slots : Filling(x) <=> x = s
        /\ \A x \in Slots : ~Filling(x)'
        /\ \A d \in Clients : ~InHand(d)' /\ ~HasPair(d)' /\ (InHand(d) <=> d = c)
    BY <1>1, <1>2, <1>3, <1>6 DEF Filling, InHand, HasPair
  <1>9. /\ Serving(s)' /\ HasP0(s)' /\ HasP1(s)'
        /\ \A x \in Slots \ {s} : /\ Serving(x)' <=> Serving(x)
                                  /\ HasP0(x)' <=> HasP0(x)
                                  /\ HasP1(x)' <=> HasP1(x)
        /\ ~Serving(s) /\ ~HasP0(s) /\ ~HasP1(s)
    BY <1>2, <1>5 DEF Serving, HasP0, HasP1
  <1>10. ListenerHas'
    BY <1>6 DEF ListenerHas
  <1>11. SlotsTaken'
    BY <1>1, <1>5, <1>7, <1>8 DEF OwnInv, SlotsTaken
  <1>12. ConsolesHave'
    <2>1. SUFFICES ASSUME NEW x \in Slots
          PROVE  /\ serve'[x].at = "none" <=> serve'[x].client = NoClient
                 /\ serve'[x].at # "none" =>
                      /\ peer[serve'[x].client] = IF Serving(x)' THEN "accepted" ELSE "gone"
                      /\ \A y \in Slots : serve'[y].client = serve'[x].client => y = x
                 /\ Serving(x)' => files[con[x].fd] = Conn(serve'[x].client)
                 /\ HasP0(x)' => con[x].p0 \in Fds /\ files[con[x].p0] = P0(serve'[x].client)
                 /\ HasP1(x)' => con[x].p1 \in Fds /\ files[con[x].p1] = P1(serve'[x].client)
      BY <1>1 DEF ConsolesHave
    <2>2. CASE x = s
      BY <1>5, <1>7, <1>9, <2>2, ConsoleAssumption
    <2>3. CASE x # s
      BY <1>5, <1>7, <1>9, <2>3 DEF OwnInv, ConsolesHave
    <2>4. QED BY <2>2, <2>3
  <1>13. FilesPlaced'
    <2>1. SUFFICES ASSUME NEW n \in Fds, NEW d \in Clients
          PROVE  /\ files[n] = Conn(d) =>
                      \E x \in Slots : Serving(x)' /\ serve'[x].client = d /\ con[x].fd = n
                 /\ files[n] = P0(d) =>
                      \E x \in Slots : HasP0(x)' /\ serve'[x].client = d /\ con[x].p0 = n
                 /\ files[n] = P1(d) =>
                      \E x \in Slots : HasP1(x)' /\ serve'[x].client = d /\ con[x].p1 = n
      BY <1>1 DEF FilesPlaced
    <2>2. ASSUME files[n] = Conn(d)
          PROVE  \E x \in Slots : Serving(x)' /\ serve'[x].client = d /\ con[x].fd = n
      <3>1. CASE InHand(d) /\ listen.fd = n
        BY <1>5, <1>7, <1>8, <1>9, <3>1
      <3>2. CASE \E x \in Slots : Serving(x) /\ serve[x].client = d /\ con[x].fd = n
        BY <1>5, <1>9, <3>2
      <3>3. QED BY <2>2, <3>1, <3>2 DEF OwnInv, FilesPlaced
    <2>3. ASSUME files[n] = P0(d)
          PROVE  \E x \in Slots : HasP0(x)' /\ serve'[x].client = d /\ con[x].p0 = n
      <3>1. CASE InHand(d) /\ con[listen.slot].p0 = n
        BY <1>2, <1>5, <1>8, <1>9, <3>1
      <3>2. CASE \E x \in Slots : HasP0(x) /\ serve[x].client = d /\ con[x].p0 = n
        BY <1>5, <1>9, <3>2
      <3>3. QED BY <2>3, <3>1, <3>2 DEF OwnInv, FilesPlaced
    <2>4. ASSUME files[n] = P1(d)
          PROVE  \E x \in Slots : HasP1(x)' /\ serve'[x].client = d /\ con[x].p1 = n
      <3>1. CASE InHand(d) /\ con[listen.slot].p1 = n
        BY <1>2, <1>5, <1>8, <1>9, <3>1
      <3>2. CASE \E x \in Slots : HasP1(x) /\ serve[x].client = d /\ con[x].p1 = n
        BY <1>5, <1>9, <3>2
      <3>3. QED BY <2>4, <3>1, <3>2 DEF OwnInv, FilesPlaced
    <2>5. QED BY <2>2, <2>3, <2>4
  <1>14. AimKept
    <2>1. SUFFICES ASSUME NEW x \in Slots, NEW d \in Clients, Aimed(x, d)
                   PROVE  peer[d] = "gone" \/ serve'[x].client = d
      BY <1>1 DEF AimKept, Aimed
    <2>2. CASE x = s
      BY <1>3, <1>5, <1>2, <1>8, <2>1, <2>2, ConsoleAssumption DEF Aimed, OwnInv, ConsolesHave
    <2>3. CASE x # s
      BY <1>5, <1>8, <2>1, <2>3 DEF Aimed
    <2>4. QED BY <2>2, <2>3
  <1>15. RestTyped'
    BY <1>1, TypesStay
  <1>16. ConTypes'
    BY <1>1, <1>5, <1>6, <1>15, TypesMake, TypesStay
  <1>17. QED BY <1>1, <1>10, <1>11, <1>12, <1>13, <1>14, <1>16 DEF OwnInv

\* No thread is started: the pair is closed.
LEMMA SpawnFailsKeeps ==
  ASSUME ConTypes, OwnInv, SpawnFails
  PROVE  ConTypes' /\ OwnInv' /\ AimKept
  <1>1. /\ listen.at = "spawn"
        /\ listen' = [listen EXCEPT !.at = "giveup"]
        /\ UNCHANGED <<dead, writer, regs, others, con, peer, left, spoke, lines, serve, fan,
                       strayed, verbose>>
    BY DEF SpawnFails, Listens, cliVars, registryVars
  <1>2. PICK s \in Slots : s = listen.slot /\ serve[s].at = "none"
    BY <1>1 DEF OwnInv, ListenerHas
  <1>3. PICK c \in Clients : c = listen.client
    BY <1>1 DEF OwnInv, ListenerHas
  <1>4. /\ peer[c] = "accepted" /\ listen.fd \in Fds /\ files[listen.fd] = Conn(c)
        /\ \A x \in Slots : serve[x].client # c
        /\ con[s].p0 \in Fds /\ files[con[s].p0] = P0(c)
        /\ con[s].p1 \in Fds /\ files[con[s].p1] = P1(c)
        /\ con[s].fd = listen.fd
    BY <1>1, <1>2, <1>3 DEF OwnInv, ListenerHas
  <1>5. PICK a \in Fds, b \in Fds : a = con[s].p0 /\ b = con[s].p1
    BY <1>4
  <1>6. /\ files' = [n \in Fds |-> IF n \in {a, b} THEN Free ELSE files[n]]
        /\ strange' = (strange \/ FileAt(a) # P0(c) \/ FileAt(b) # P1(c))
    BY <1>2, <1>3, <1>5 DEF SpawnFails
  <1>7. strange' = strange
    <2>1. FileAt(a) = P0(c) /\ FileAt(b) = P1(c)
      BY <1>4, <1>5 DEF FileAt
    <2>2. strange \in BOOLEAN
      BY DEF ConTypes
    <2>3. QED BY <1>6, <2>1, <2>2
  <1>8. /\ FilesTyped'
        /\ \A m \in Fds : files'[m] = IF m \in {a, b} THEN Free ELSE files[m]
    BY <1>6, TypesAre DEF FilesTyped
  <1>9. /\ listen'.at = "giveup" /\ listen'.slot = s /\ listen'.fd = listen.fd
        /\ listen'.client = c /\ ListenTyped'
    BY <1>1, <1>2, <1>3, TypesAre DEF ListenTyped
  <1>10. /\ \A d \in Clients : (InHand(d) <=> d = c) /\ (InHand(d)' <=> InHand(d))
                               /\ (HasPair(d) <=> d = c)
         /\ \A x \in Slots : Filling(x)' <=> Filling(x)
    BY <1>1, <1>2, <1>3, <1>9 DEF InHand, HasPair, Filling
  <1>11. ListenerHas'
    <2>1. listen.fd \notin {a, b}
      BY <1>4, <1>5, Files
    <2>2. files'[listen.fd] = Conn(c)
      BY <1>4, <1>8, <2>1
    <2>3. QED BY <1>1, <1>2, <1>4, <1>9, <2>2 DEF ListenerHas
  <1>12. SlotsTaken'
    BY <1>1, <1>10 DEF OwnInv, SlotsTaken
  <1>13. ConsolesHave'
    <2>1. ASSUME NEW x \in Slots, NEW n \in Fds, serve[x].at # "none",
                 files[n] \in {Conn(serve[x].client), P0(serve[x].client), P1(serve[x].client)}
          PROVE  files'[n] = files[n]
      <3>1. n \notin {a, b}
        BY <1>4, <1>5, <2>1, Files
      <3>2. QED BY <1>8, <3>1
    <2>2. QED BY <1>1, <2>1, ConsolesKept
  <1>14. FilesPlaced'
    <2>1. ASSUME NEW n \in Fds, NEW d \in Clients
          PROVE  /\ files'[n] = Conn(d) => \/ InHand(d)' /\ listen'.fd = n
                                           \/ files[n] = Conn(d) /\ ~(InHand(d) /\ listen.fd = n)
                 /\ files'[n] = P0(d) => files[n] = P0(d) /\ ~(HasPair(d) /\ con[s].p0 = n)
                 /\ files'[n] = P1(d) => files[n] = P1(d) /\ ~(HasPair(d) /\ con[s].p1 = n)
      BY <1>5, <1>8, <1>9, <1>10, Files
    <2>2. QED BY <1>1, <1>2, <2>1, PlacedKept
  <1>15. AimKept
    BY <1>1, <1>3, <1>9, <1>10 DEF AimKept, Aimed
  <1>16. RestTyped'
    BY <1>1, <1>7, TypesStay
  <1>17. ConTypes'
    BY <1>1, <1>8, <1>9, <1>16, TypesMake, TypesStay
  <1>18. QED BY <1>7, <1>11, <1>12, <1>13, <1>14, <1>15, <1>17 DEF OwnInv

\* The new console is announced.
LEMMA AnnounceKeeps ==
  ASSUME ConTypes, OwnInv, Announce
  PROVE  ConTypes' /\ OwnInv' /\ AimKept
  <1>1. /\ listen.at = "announce" /\ listen' = Listening
        /\ UNCHANGED <<dead, writer, regs, files, strange, others, con, peer, left, spoke, lines,
                       serve, strayed, verbose>>
    BY DEF Announce, Listens, cliVars, registryVars
  <1>2. /\ listen'.at = "poll" /\ listen'.slot = 1 /\ listen'.fd = NoFd
        /\ listen'.client = NoClient /\ ListenTyped'
    BY <1>1, Numerals DEF Listening, ListenTyped
  <1>3. FanTyped'
    <2>1. fan' = fan \/ fan' = [fan EXCEPT ![Listener] = [@ EXCEPT !.slot = 1]]
      BY DEF Announce, ConTypes
    <2>2. FanTyped /\ 1 \in 0 .. NumSlots + 1
      BY TypesAre, Numerals
    <2>3. QED BY <2>1, <2>2 DEF FanTyped
  <1>4. ListenerHas'
    BY <1>2 DEF ListenerHas
  <1>5. SlotsTaken'
    BY <1>1, <1>2 DEF OwnInv, SlotsTaken, Filling
  <1>6. ConsolesHave'
    BY <1>1, ConsolesKept
  <1>7. FilesPlaced'
    BY <1>1, <1>2 DEF OwnInv, FilesPlaced, InHand, Serving, HasP0, HasP1
  <1>8. AimKept
    BY <1>1, <1>2 DEF AimKept, Aimed, Filling
  <1>9. RestTyped'
    BY <1>1, TypesStay
  <1>10. ConTypes'
    BY <1>1, <1>2, <1>3, <1>9, TypesMake, TypesStay
  <1>11. QED BY <1>1, <1>4, <1>5, <1>6, <1>7, <1>8, <1>10 DEF OwnInv

----------------------------------------------------------------------------
(* The end of a console.                                                   *)

LEMMA CloserKeeps ==
  ASSUME ConTypes, OwnInv, NEW x \in Slots, NEW c \in Clients, serve[x].client = c,
         NEW n \in Fds, NEW to \in Places, Move(x, to), Close(n, files[n]),
         \/ /\ serve[x].at = "closefd" /\ to = "closep0" /\ n = con[x].fd
            /\ peer' = [peer EXCEPT ![c] = "gone"]
         \/ serve[x].at = "closep0" /\ to = "closep1" /\ n = con[x].p0 /\ peer' = peer
         \/ serve[x].at = "closep1" /\ to = "clear" /\ n = con[x].p1 /\ peer' = peer,
         lines' \subseteq Clients,
         UNCHANGED <<dead, writer, regs, con, others, left, spoke, listen, fan, strayed, verbose>>
  PROVE  ConTypes' /\ OwnInv' /\ AimKept
  <1>1. /\ strange' = strange /\ FilesTyped'
        /\ \A m \in Fds : files'[m] = IF m = n THEN Free ELSE files[m]
    BY CloseIs DEF FilesTyped
  <1>2. /\ ServeTyped'
        /\ \A y \in Slots : /\ serve'[y].client = serve[y].client
                            /\ serve'[y].at = IF y = x THEN to ELSE serve[y].at
    BY MoveIs DEF ServeTyped
  <1>3. /\ peer' \in [Clients -> {"away", "queued", "accepted", "gone"}]
        /\ \A d \in Clients \ {c} : peer'[d] = peer[d]
        /\ peer'[c] = "gone"
    BY DEF ConTypes, OwnInv, ConsolesHave, Serving
  <1>4. /\ serve[x].at # "none"
        /\ con[x].fd \in Fds
        /\ Serving(x) => serve[x].at = "closefd" /\ files[con[x].fd] = Conn(c)
        /\ HasP0(x) => con[x].p0 \in Fds /\ files[con[x].p0] = P0(c)
        /\ HasP1(x) => con[x].p1 \in Fds /\ files[con[x].p1] = P1(c)
        /\ \A y \in Slots : serve[y].client = c => y = x
    BY DEF OwnInv, ConsolesHave, SlotsTaken, Serving, HasP0, HasP1
  <1>5. /\ serve[x].at = "closefd" => Serving(x) /\ HasP0(x) /\ HasP1(x)
        /\ serve[x].at = "closep0" => ~Serving(x) /\ HasP0(x) /\ HasP1(x)
        /\ serve[x].at = "closep1" => ~Serving(x) /\ ~HasP0(x) /\ HasP1(x)
        /\ ~Serving(x)' /\ (HasP0(x)' <=> to = "closep0")
        /\ HasP1(x)' <=> to \in {"closep0", "closep1"}
    BY <1>2 DEF Serving, HasP0, HasP1
  <1>6. files[n] \in {Conn(c), P0(c), P1(c)}
    BY <1>4, <1>5
  <1>7. \A y \in Slots \ {x} : /\ Serving(y)' <=> Serving(y)
                               /\ HasP0(y)' <=> HasP0(y)
                               /\ HasP1(y)' <=> HasP1(y)
    BY <1>2 DEF Serving, HasP0, HasP1
  <1>8. \A m \in Fds, d \in Clients :
          d # c /\ files[m] \in {Conn(d), P0(d), P1(d)} => files'[m] = files[m]
    BY <1>1, <1>6, Files
  <1>9. listen.at \in {"scan", "take", "spawn", "giveup"} => listen.client \in Clients \ {c}
    BY DEF OwnInv, ListenerHas
  <1>10. ListenerHas'
    <2>1. listen.at \in {"scan", "take", "spawn", "giveup"} =>
            /\ listen.client \in Clients /\ peer'[listen.client] = "accepted"
            /\ listen.fd \in Fds /\ files'[listen.fd] = Conn(listen.client)
            /\ \A y \in Slots : serve'[y].client # listen.client
      BY <1>2, <1>3, <1>8, <1>9 DEF OwnInv, ListenerHas
    <2>2. listen.at \in {"take", "spawn"} =>
            /\ con[listen.slot].p0 \in Fds /\ files'[con[listen.slot].p0] = P0(listen.client)
            /\ con[listen.slot].p1 \in Fds /\ files'[con[listen.slot].p1] = P1(listen.client)
      BY <1>8, <1>9 DEF OwnInv, ListenerHas
    <2>3. listen.at \in {"take", "spawn", "giveup"} =>
            listen.slot \in Slots /\ serve'[listen.slot].at = "none"
      BY <1>2, <1>4 DEF OwnInv, ListenerHas
    <2>4. QED BY <2>1, <2>2, <2>3 DEF OwnInv, ListenerHas
  <1>11. SlotsTaken'
    BY <1>2, <1>4 DEF OwnInv, SlotsTaken, Filling
  <1>12. ConsolesHave'
    <2>1. SUFFICES ASSUME NEW y \in Slots
          PROVE  /\ serve'[y].at = "none" <=> serve'[y].client = NoClient
                 /\ serve'[y].at # "none" =>
                      /\ peer'[serve'[y].client] = IF Serving(y)' THEN "accepted" ELSE "gone"
                      /\ \A z \in Slots : serve'[z].client = serve'[y].client => z = y
                 /\ Serving(y)' => files'[con[y].fd] = Conn(serve'[y].client)
                 /\ HasP0(y)' => con[y].p0 \in Fds /\ files'[con[y].p0] = P0(serve'[y].client)
                 /\ HasP1(y)' => con[y].p1 \in Fds /\ files'[con[y].p1] = P1(serve'[y].client)
      BY DEF ConsolesHave
    <2>2. CASE y = x
      <3>1. /\ HasP0(x)' => con[x].p0 \in Fds /\ files'[con[x].p0] = P0(c)
            /\ HasP1(x)' => con[x].p1 \in Fds /\ files'[con[x].p1] = P1(c)
        BY <1>1, <1>4, <1>5, Files
      <3>2. to # "none"
        OBVIOUS
      <3>3. QED BY <1>2, <1>3, <1>4, <1>5, <2>2, <3>1, <3>2, ConsoleAssumption
    <2>3. CASE y # x /\ serve[y].at = "none"
      BY <1>2, <1>7, <2>3 DEF OwnInv, ConsolesHave, Serving, HasP0, HasP1
    <2>4. CASE y # x /\ serve[y].at # "none"
      <3>1. PICK d \in Clients : d = serve[y].client
        BY <2>4, ServesClient
      <3>2. d # c /\ con[y].fd \in Fds
        BY <1>4, <2>4, <3>1 DEF OwnInv, SlotsTaken
      <3>3. /\ peer[d] = IF Serving(y) THEN "accepted" ELSE "gone"
            /\ \A z \in Slots : serve[z].client = d => z = y
            /\ Serving(y) => files[con[y].fd] = Conn(d)
            /\ HasP0(y) => con[y].p0 \in Fds /\ files[con[y].p0] = P0(d)
            /\ HasP1(y) => con[y].p1 \in Fds /\ files[con[y].p1] = P1(d)
        BY <2>4, <3>1 DEF OwnInv, ConsolesHave
      <3>4. QED BY <1>2, <1>3, <1>7, <1>8, <2>4, <3>1, <3>2, <3>3, ConsoleAssumption
    <2>5. QED BY <2>2, <2>3, <2>4
  <1>13. FilesPlaced'
    <2>1. SUFFICES ASSUME NEW m \in Fds, NEW d \in Clients, m # n
          PROVE  /\ files[m] = Conn(d) =>
                      \/ InHand(d) /\ listen.fd = m
                      \/ \E y \in Slots : Serving(y)' /\ serve[y].client = d /\ con[y].fd = m
                 /\ files[m] = P0(d) =>
                      \/ HasPair(d) /\ con[listen.slot].p0 = m
                      \/ \E y \in Slots : HasP0(y)' /\ serve[y].client = d /\ con[y].p0 = m
                 /\ files[m] = P1(d) =>
                      \/ HasPair(d) /\ con[listen.slot].p1 = m
                      \/ \E y \in Slots : HasP1(y)' /\ serve[y].client = d /\ con[y].p1 = m
      BY <1>1, <1>2, Files DEF FilesPlaced, InHand, HasPair
    <2>2. ASSUME files[m] = Conn(d), ~(InHand(d) /\ listen.fd = m)
          PROVE  \E y \in Slots : Serving(y)' /\ serve[y].client = d /\ con[y].fd = m
      <3>1. PICK y \in Slots : Serving(y) /\ serve[y].client = d /\ con[y].fd = m
        BY <2>2 DEF OwnInv, FilesPlaced
      <3>2. y # x
        BY <1>4, <2>1, <3>1
      <3>3. QED BY <1>7, <3>1, <3>2
    <2>3. ASSUME files[m] = P0(d), ~(HasPair(d) /\ con[listen.slot].p0 = m)
          PROVE  \E y \in Slots : HasP0(y)' /\ serve[y].client = d /\ con[y].p0 = m
      <3>1. PICK y \in Slots : HasP0(y) /\ serve[y].client = d /\ con[y].p0 = m
        BY <2>3 DEF OwnInv, FilesPlaced, HasPair
      <3>2. CASE y = x
        BY <1>5, <2>1, <3>1, <3>2
      <3>3. CASE y # x
        BY <1>7, <3>1, <3>3
      <3>4. QED BY <3>2, <3>3
    <2>4. ASSUME files[m] = P1(d), ~(HasPair(d) /\ con[listen.slot].p1 = m)
          PROVE  \E y \in Slots : HasP1(y)' /\ serve[y].client = d /\ con[y].p1 = m
      <3>1. PICK y \in Slots : HasP1(y) /\ serve[y].client = d /\ con[y].p1 = m
        BY <2>4 DEF OwnInv, FilesPlaced, HasPair
      <3>2. CASE y = x
        BY <1>5, <2>1, <3>1, <3>2
      <3>3. CASE y # x
        BY <1>7, <3>1, <3>3
      <3>4. QED BY <3>2, <3>3
    <2>5. QED BY <2>2, <2>3, <2>4
  <1>14. AimKept
    BY <1>2, <1>3 DEF AimKept, Aimed, Filling
  <1>15. RestTyped'
    BY <1>1, <1>3, RestStays DEF ConTypes
  <1>16. ConTypes'
    BY <1>1, <1>2, <1>15, TypesMake, TypesStay
  <1>17. QED BY <1>1, <1>10, <1>11, <1>12, <1>13, <1>14, <1>16 DEF OwnInv

\* The client's number and the two ends of the pair are closed.
LEMMA ClosersKeep ==
  ASSUME ConTypes, OwnInv, NEW x \in Slots, CloseFd(x) \/ CloseP0(x) \/ CloseP1(x)
  PROVE  ConTypes' /\ OwnInv' /\ AimKept
  <1>1. serve[x].at \in {"closefd", "closep0", "closep1"}
    BY DEF CloseFd, CloseP0, CloseP1, At
  <1>2. PICK c \in Clients : c = serve[x].client
    BY <1>1, ServesClient
  <1>3. UNCHANGED <<dead, writer, regs, con, others, left, spoke, listen, fan, strayed, verbose>>
    BY DEF CloseFd, CloseP0, CloseP1, cliVars, registryVars
  <1>4. lines' \subseteq Clients
    BY DEF CloseFd, CloseP0, CloseP1, ConTypes
  <1>5. CASE CloseFd(x)
    <2>1. PICK n \in Fds : n = con[x].fd /\ files[n] = Conn(c)
      BY <1>2, <1>5 DEF CloseFd, At, OwnInv, ConsolesHave, SlotsTaken, Serving
    <2>2. /\ serve[x].at = "closefd" /\ Move(x, "closep0") /\ Close(n, files[n])
          /\ peer' = [peer EXCEPT ![c] = "gone"] /\ "closep0" \in Places
      BY <1>2, <1>5, <2>1 DEF CloseFd, At, Places
    <2>3. QED BY <1>2, <1>3, <1>4, <2>1, <2>2, CloserKeeps
  <1>6. CASE CloseP0(x)
    <2>1. PICK n \in Fds : n = con[x].p0 /\ files[n] = P0(c)
      BY <1>2, <1>6 DEF CloseP0, At, OwnInv, ConsolesHave, HasP0
    <2>2. /\ serve[x].at = "closep0" /\ Move(x, "closep1") /\ Close(n, files[n])
          /\ peer' = peer /\ "closep1" \in Places
      BY <1>2, <1>6, <2>1 DEF CloseP0, At, Places
    <2>3. QED BY <1>2, <1>3, <1>4, <2>1, <2>2, CloserKeeps
  <1>7. CASE CloseP1(x)
    <2>1. PICK n \in Fds : n = con[x].p1 /\ files[n] = P1(c)
      BY <1>2, <1>7 DEF CloseP1, At, OwnInv, ConsolesHave, HasP1
    <2>2. /\ serve[x].at = "closep1" /\ Move(x, "clear") /\ Close(n, files[n])
          /\ peer' = peer /\ "clear" \in Places
      BY <1>2, <1>7, <2>1 DEF CloseP1, At, Places
    <2>3. QED BY <1>2, <1>3, <1>4, <2>1, <2>2, CloserKeeps
  <1>8. QED BY <1>5, <1>6, <1>7

\* The slot is free again.
LEMMA ClearKeeps ==
  ASSUME ConTypes, OwnInv, NEW x \in Slots, ClearSlot(x)
  PROVE  ConTypes' /\ OwnInv' /\ AimKept
  <1>1. /\ serve[x].at = "clear"
        /\ con' = [con EXCEPT ![x].fd = NoFd]
        /\ serve' = [serve EXCEPT ![x] = [at |-> "none", client |-> NoClient, ev |-> {}]]
        /\ UNCHANGED <<dead, writer, regs, files, strange, others, peer, left, spoke, lines, listen,
                       fan, strayed, verbose>>
    BY DEF ClearSlot, At, cliVars, registryVars
  <1>2. PICK c \in Clients : c = serve[x].client
    BY <1>1, ServesClient
  <1>3. /\ ConTyped'
        /\ \A y \in Slots : /\ con'[y].p0 = con[y].p0 /\ con'[y].p1 = con[y].p1
                            /\ con'[y].fd = IF y = x THEN NoFd ELSE con[y].fd
    BY <1>1, SetFdIs DEF ConTyped
  <1>4. /\ ServeTyped'
        /\ serve'[x].at = "none" /\ serve'[x].client = NoClient
        /\ \A y \in Slots \ {x} : serve'[y] = serve[y]
    <2>1. ServeTyped /\ "none" \in Places
      BY TypesAre DEF Places
    <2>2. QED BY <1>1, <2>1 DEF ServeTyped
  <1>5. /\ peer[c] = "gone"
        /\ ~Serving(x) /\ ~HasP0(x) /\ ~HasP1(x) /\ ~Serving(x)' /\ ~HasP0(x)' /\ ~HasP1(x)'
    BY <1>1, <1>2, <1>4 DEF OwnInv, ConsolesHave, Serving, HasP0, HasP1
  <1>6. \A y \in Slots \ {x} : /\ Serving(y)' <=> Serving(y)
                               /\ HasP0(y)' <=> HasP0(y)
                               /\ HasP1(y)' <=> HasP1(y)
    BY <1>4 DEF Serving, HasP0, HasP1
  <1>7. listen.at \in {"take", "spawn", "giveup"} => listen.slot \in Slots \ {x}
    BY <1>1 DEF OwnInv, ListenerHas
  <1>8. ListenerHas'
    <2>1. listen.at \in {"scan", "take", "spawn", "giveup"} =>
            \A y \in Slots : serve'[y].client # listen.client
      BY <1>4, ConsoleAssumption DEF OwnInv, ListenerHas
    <2>2. listen.at \in {"take", "spawn", "giveup"} => serve'[listen.slot].at = "none"
      BY <1>4, <1>7 DEF OwnInv, ListenerHas
    <2>3. QED BY <1>1, <1>3, <1>7, <2>1, <2>2 DEF OwnInv, ListenerHas
  <1>9. SlotsTaken'
    BY <1>1, <1>3, <1>4, <1>7, Numerals DEF OwnInv, SlotsTaken, Filling
  <1>10. ConsolesHave'
    <2>1. SUFFICES ASSUME NEW y \in Slots
          PROVE  /\ serve'[y].at = "none" <=> serve'[y].client = NoClient
                 /\ serve'[y].at # "none" =>
                      /\ peer[serve'[y].client] = IF Serving(y)' THEN "accepted" ELSE "gone"
                      /\ \A z \in Slots : serve'[z].client = serve'[y].client => z = y
                 /\ Serving(y)' => files[con'[y].fd] = Conn(serve'[y].client)
                 /\ HasP0(y)' => con'[y].p0 \in Fds /\ files[con'[y].p0] = P0(serve'[y].client)
                 /\ HasP1(y)' => con'[y].p1 \in Fds /\ files[con'[y].p1] = P1(serve'[y].client)
      BY <1>1 DEF ConsolesHave
    <2>2. CASE y = x
      BY <1>4, <1>5, <2>2
    <2>3. CASE y # x
      BY <1>3, <1>4, <1>6, <2>3 DEF OwnInv, ConsolesHave
    <2>4. QED BY <2>2, <2>3
  <1>11. FilesPlaced'
    <2>1. SUFFICES ASSUME NEW m \in Fds, NEW d \in Clients
          PROVE  /\ files[m] = Conn(d) =>
                      \/ InHand(d) /\ listen.fd = m
                      \/ \E y \in Slots : Serving(y)' /\ serve'[y].client = d /\ con'[y].fd = m
                 /\ files[m] = P0(d) =>
                      \/ HasPair(d) /\ con[listen.slot].p0 = m
                      \/ \E y \in Slots : HasP0(y)' /\ serve'[y].client = d /\ con'[y].p0 = m
                 /\ files[m] = P1(d) =>
                      \/ HasPair(d) /\ con[listen.slot].p1 = m
                      \/ \E y \in Slots : HasP1(y)' /\ serve'[y].client = d /\ con'[y].p1 = m
      BY <1>1, <1>3, <1>7 DEF FilesPlaced, InHand, HasPair
    <2>2. ASSUME files[m] = Conn(d), ~(InHand(d) /\ listen.fd = m)
          PROVE  \E y \in Slots : Serving(y)' /\ serve'[y].client = d /\ con'[y].fd = m
      <3>1. PICK y \in Slots : Serving(y) /\ serve[y].client = d /\ con[y].fd = m
        BY <2>2 DEF OwnInv, FilesPlaced
      <3>2. QED BY <1>3, <1>4, <1>5, <1>6, <3>1
    <2>3. ASSUME files[m] = P0(d), ~(HasPair(d) /\ con[listen.slot].p0 = m)
          PROVE  \E y \in Slots : HasP0(y)' /\ serve'[y].client = d /\ con'[y].p0 = m
      <3>1. PICK y \in Slots : HasP0(y) /\ serve[y].client = d /\ con[y].p0 = m
        BY <2>3 DEF OwnInv, FilesPlaced, HasPair
      <3>2. QED BY <1>3, <1>4, <1>5, <1>6, <3>1
    <2>4. ASSUME files[m] = P1(d), ~(HasPair(d) /\ con[listen.slot].p1 = m)
          PROVE  \E y \in Slots : HasP1(y)' /\ serve'[y].client = d /\ con'[y].p1 = m
      <3>1. PICK y \in Slots : HasP1(y) /\ serve[y].client = d /\ con[y].p1 = m
        BY <2>4 DEF OwnInv, FilesPlaced, HasPair
      <3>2. QED BY <1>3, <1>4, <1>5, <1>6, <3>1
    <2>5. QED BY <2>2, <2>3, <2>4
  <1>12. AimKept
    <2>1. SUFFICES ASSUME NEW y \in Slots, NEW d \in Clients, serve[y].client = d
                   PROVE  peer[d] = "gone" \/ serve'[y].client = d
      BY <1>1 DEF AimKept, Aimed, Filling
    <2>2. QED BY <1>2, <1>4, <1>5, <2>1
  <1>13. RestTyped'
    BY <1>1, TypesStay
  <1>14. ConTypes'
    BY <1>1, <1>3, <1>4, <1>13, TypesMake, TypesStay
  <1>15. QED BY <1>1, <1>8, <1>9, <1>10, <1>11, <1>12, <1>14 DEF OwnInv

----------------------------------------------------------------------------
(* Lines, and the registry.                                                *)

\* The announcing threads change nothing but what they announce.
LEMMA FansKeep ==
  ASSUME ConTypes, OwnInv, LinesAimed, NEW w \in Announcers, FanStep(w)
  PROVE  ConTypes' /\ OwnInv' /\ AimKept
  <1>1. UNCHANGED <<writer, regs, files, strange, others, con, peer, left, spoke, listen, serve,
                    verbose>>
    BY DEF FanStep, FanTest, FanWrite, cliVars, registryVars
  <1>2. fan[w] \in [slot : 0 .. NumSlots + 1, write : BOOLEAN, to : Clients \cup {NoClient}]
    BY DEF ConTypes
  <1>3. CASE FanTest(w)
    <2>1. UNCHANGED <<dead, lines, strayed>>
      BY <1>3 DEF FanTest, cliVars
    <2>2. RestTyped'
      BY <1>1, <2>1, TypesStay
    <2>3. PICK x \in 0 .. NumSlots + 1 : x = fan[w].slot
      BY <1>2
    <2>4. PICK f : /\ fan' = [fan EXCEPT ![w] = f]
                   /\ f = IF x \notin Slots THEN Silent
                          ELSE IF ~Mute /\ con[x].fd > -1
                          THEN [fan[w] EXCEPT !.write = TRUE, !.to = Occupant(x)]
                          ELSE [fan[w] EXCEPT !.slot = x + 1]
      BY <1>3, <2>3 DEF FanTest, ConTypes
    <2>5. f \in [slot : 0 .. NumSlots + 1, write : BOOLEAN, to : Clients \cup {NoClient}]
      <3>1. CASE x \notin Slots
        BY <2>4, <3>1, ConsoleAssumption DEF Silent
      <3>2. CASE x \in Slots /\ ~Mute /\ con[x].fd > -1
        <4>1. Occupant(x) \in Clients \cup {NoClient}
          BY <3>2 DEF Occupant, ConTypes
        <4>2. f = [fan[w] EXCEPT !.write = TRUE, !.to = Occupant(x)]
          BY <2>4, <3>2
        <4>3. QED BY <1>2, <4>1, <4>2
      <3>3. CASE x \in Slots /\ ~(~Mute /\ con[x].fd > -1)
        <4>1. x + 1 \in 0 .. NumSlots + 1
          BY <3>3, ConsoleAssumption DEF Slots
        <4>2. f = [fan[w] EXCEPT !.slot = x + 1]
          BY <2>4, <3>3
        <4>3. QED BY <1>2, <4>1, <4>2
      <3>4. QED BY <3>1, <3>2, <3>3
    <2>6. FanTyped'
      BY <2>4, <2>5, TypesAre DEF FanTyped
    <2>7. QED BY <1>1, <2>2, <2>6, StageStays, NothingHappens, TypesMake, TypesStay
  <1>4. CASE FanWrite(w)
    <2>1. PICK x \in Slots : x = fan[w].slot
      BY <1>4 DEF FanWrite, LinesAimed
    <2>2. PICK f \in {Free, Other} \cup (Kinds \X Clients) : f = FileAt(con[x].p1)
      BY <2>1 DEF FileAt, ConTypes
    <2>3. /\ dead' = Broken(f)
          /\ lines' = IF f[1] = "p1" THEN lines \cup {f[2]} ELSE lines
      BY <1>4, <2>1, <2>2 DEF FanWrite
    <2>4. dead' \in BOOLEAN
      <3>1. Broken(f) \in BOOLEAN
        BY Zenon DEF Broken
      <3>2. QED BY <2>3, <3>1
    <2>5. lines' \subseteq Clients
      <3>1. f[1] = "p1" => f[2] \in Clients
        BY DEF Free, Other
      <3>2. QED BY <2>3, <3>1 DEF ConTypes
    <2>6. strayed' \in BOOLEAN
      <3>1. PICK b : strayed' = (strayed \/ b)
        BY <1>4 DEF FanWrite
      <3>2. QED BY <3>1, Zenon
    <2>7. RestTyped'
      BY <1>1, <2>4, <2>5, <2>6, RestStays DEF ConTypes
    <2>8. FanTyped'
      <3>1. fan' = [fan EXCEPT ![w].slot = @ + 1, ![w].write = FALSE, ![w].to = NoClient]
        BY <1>4 DEF FanWrite
      <3>2. x + 1 \in 0 .. NumSlots + 1
        BY ConsoleAssumption DEF Slots
      <3>3. FanTyped /\ fan[w].slot = x
        BY <2>1, TypesAre
      <3>4. QED BY <3>1, <3>2, <3>3 DEF FanTyped
    <2>9. QED BY <1>1, <2>7, <2>8, StageStays, NothingHappens, TypesMake, TypesStay
  <1>5. QED BY <1>3, <1>4 DEF FanStep

\* Steps of the registry.
LEMMA RegistrarsKeep ==
  ASSUME ConTypes, OwnInv, NEW t \in Threads, Caller(t) \/ Registrar(t), Rest
  PROVE  ConTypes' /\ OwnInv' /\ AimKept
  <1>1. UNCHANGED <<files, strange, others, con, peer, left, spoke, lines, listen, serve, fan,
                    strayed, verbose>>
    BY DEF Rest, conVars
  <1>2. writer' \in Threads \cup {NoThread}
    BY DEF Caller, Registrar, FindIt, Unknown, Handled, RegisterIt, UnregisterIt, Register,
           Unregister, UnregisterRefused, Unlock, ConTypes
  <1>3. regs' \in 0 .. MaxRegs
    <2>1. regs' = regs \/ (regs < MaxRegs /\ regs' = regs + 1)
      BY DEF Caller, Registrar, FindIt, Unknown, Handled, RegisterIt, UnregisterIt, Register,
             Unregister, UnregisterRefused, Call
    <2>2. regs \in 0 .. MaxRegs /\ MaxRegs \in Nat
      BY CliAssumption DEF ConTypes
    <2>3. QED BY <2>1, <2>2
  <1>4. dead' \in BOOLEAN
    <2>1. dead' = dead \/ dead' \in BOOLEAN
      BY DEF Caller, Registrar, FindIt, Unknown, Handled, RegisterIt, UnregisterIt, Register,
             Unregister, UnregisterRefused
    <2>2. QED BY <2>1 DEF ConTypes
  <1>5. RestTyped'
    BY <1>1, <1>2, <1>3, <1>4, RestStays DEF ConTypes
  <1>6. QED BY <1>1, <1>5, StageStays, NothingHappens, TypesMake, TypesStay

----------------------------------------------------------------------------
(* The invariant holds.                                                    *)

LEMMA ConInit ==
  ASSUME Init
  PROVE  ConInv /\ RegistryInv
  <1>1. /\ walks \in Walks /\ registry = <<>> /\ writer = NoThread
        /\ inuse = [e \in Entries |-> 0] /\ call = [t \in Threads |-> Idle]
        /\ late = {} /\ dead = FALSE /\ regs = 0 /\ verbose \in BOOLEAN
        /\ files = [n \in Fds |-> Free] /\ strange = FALSE
        /\ others = "away"
        /\ con = [x \in Slots |-> [fd |-> NoFd, p0 |-> 0, p1 |-> 0]]
        /\ peer = [c \in Clients |-> "away"]
        /\ left = {} /\ spoke = {} /\ lines = {}
        /\ listen = [at |-> "poll", slot |-> 1, fd |-> NoFd, client |-> NoClient]
        /\ serve = [x \in Slots |-> [at |-> "none", client |-> NoClient, ev |-> {}]]
        /\ fan = [w \in Announcers |-> Silent] /\ strayed = FALSE
    BY DEF Init, InitWith, CliInit
  <1>2. RegistryInv
    <2>1. RegistryTypes
      <3>1. Idle \in [at : {"idle", "find", "unknown", "handler", "register", "unlist"},
                      cmd : Commands \cup {<<>>}, entry : Entries \cup {NoEntry}]
        BY DEF Idle
      <3>2. registry \in Seq(Entries) /\ inuse \in [Entries -> Nat]
        BY <1>1
      <3>3. walks \in BOOLEAN
        BY <1>1, CliAssumption
      <3>4. QED BY <1>1, <3>1, <3>2, <3>3 DEF RegistryTypes
    <2>2. \A t \in Threads : call[t].at = "idle"
      BY <1>1 DEF Idle
    <2>3. InUseCounted
      <3>1. \A e \in Entries : Handling(e) = {}
        BY <2>2 DEF Handling
      <3>2. QED BY <1>1, <3>1, FS_EmptySet DEF InUseCounted
    <2>4. InOrder(registry) /\ PlainsFirst(registry)
      <3>1. DOMAIN registry = {}
        BY <1>1
      <3>2. QED BY <3>1 DEF InOrder, PlainsFirst
    <2>5. QED
      BY <2>1, <2>2, <2>3, <2>4 DEF RegistryInv, CallsHaveEntries, HandledIsListed, LateAreKnown
  <1>3. ConTypes
    <2>1. RestTyped
      <3>1. strange \in BOOLEAN /\ strayed \in BOOLEAN /\ dead \in BOOLEAN /\ verbose \in BOOLEAN
        BY <1>1, Zenon
      <3>2. regs \in 0 .. MaxRegs
        BY <1>1, CliAssumption
      <3>3. peer \in [Clients -> {"away", "queued", "accepted", "gone"}]
        BY <1>1
      <3>4. QED BY <1>1, <3>1, <3>2, <3>3 DEF RestTyped
    <2>2. FilesTyped /\ ConTyped /\ ListenTyped /\ ServeTyped /\ FanTyped
      BY <1>1, Numerals, ConsoleAssumption
      DEF FilesTyped, ConTyped, ListenTyped, ServeTyped, FanTyped, Silent, Places
    <2>3. QED BY <2>1, <2>2, TypesAre
  <1>4. OwnInv
    <2>1. \A x \in Slots : /\ serve[x].at = "none" /\ serve[x].client = NoClient
                           /\ con[x].fd = NoFd /\ ~Serving(x) /\ ~HasP0(x) /\ ~HasP1(x)
      BY <1>1 DEF Serving, HasP0, HasP1
    <2>2. listen.at = "poll" /\ \A n \in Fds : files[n] = Free
      BY <1>1
    <2>3. FilesPlaced
      BY <2>2, Files DEF FilesPlaced
    <2>4. QED
      BY <1>1, <2>1, <2>2, <2>3, Numerals
      DEF OwnInv, ListenerHas, SlotsTaken, ConsolesHave, Filling
  <1>5. LinesAimed /\ FirstAnnounces
    BY <1>1 DEF LinesAimed, FirstAnnounces, Silent
  <1>6. QED BY <1>1, <1>2, <1>3, <1>4, <1>5 DEF ConInv

\* The threads that execute commands.
LEMMA Callers ==
  Slots \subseteq Threads /\ Registrars \subseteq Threads
  BY ConsoleAssumption

\* The registry's invariant is kept.
LEMMA RegistryStep ==
  ASSUME RegistryInv, [Next]_vars
  PROVE  RegistryInv'
  <1>1. CASE UNCHANGED vars
    BY <1>1, RegistryUntouched DEF vars, cliVars
  <1>2. ASSUME NEW t \in Threads, Caller(t) \/ Registrar(t)
        PROVE  RegistryInv'
    BY <1>2, CallersKeep
  <1>3. CASE ListenerStep
    <2>1. UNCHANGED <<registryVars, call>>
      BY <1>3 DEF ListenerStep, Accept, ScanBusy, ScanFull, MakePair, PairFails, Refuse, TakeSlot,
                  Spawn, SpawnFails, GiveUp, Announce, cliVars
    <2>2. QED BY <2>1, RegistryUntouched
  <1>4. ASSUME NEW x \in Slots, ConsoleStep(x) \/ Poll(x)
        PROVE  RegistryInv'
    <2>1. CASE ClientSpeaks(x)
      <3>1. PICK cmd \in Commands : Execute(x, cmd)
        BY <2>1 DEF ClientSpeaks
      <3>2. QED BY <3>1, Callers, ExecuteKeeps
    <2>2. CASE Caller(x)
      BY <1>2, <2>2, Callers
    <2>3. CASE ~ClientSpeaks(x) /\ ~Caller(x)
      <3>1. UNCHANGED <<registryVars, call>>
        BY <1>4, <2>3 DEF ConsoleStep, Greet, ClientLeft, NoInput, CommandDone, Forward, End,
                          CloseFd, CloseP0, CloseP1, ClearSlot, Poll, cliVars
      <3>2. QED BY <3>1, RegistryUntouched
    <2>4. QED BY <2>1, <2>2, <2>3
  <1>5. ASSUME NEW w \in Announcers, FanStep(w)
        PROVE  RegistryInv'
    <2>1. UNCHANGED <<registryVars, call>>
      BY <1>5 DEF FanStep, FanTest, FanWrite, cliVars
    <2>2. QED BY <2>1, RegistryUntouched
  <1>6. ASSUME NEW c \in Clients, Connect(c) \/ Hangup(c)
        PROVE  RegistryInv'
    <2>1. UNCHANGED <<registryVars, call>>
      BY <1>6 DEF Connect, Hangup, cliVars
    <2>2. QED BY <2>1, RegistryUntouched
  <1>7. CASE OtherOpens \/ OtherCloses
    <2>1. UNCHANGED <<registryVars, call>>
      BY <1>7 DEF OtherOpens, OtherCloses, cliVars
    <2>2. QED BY <2>1, RegistryUntouched
  <1>8. QED
    BY <1>1, <1>2, <1>3, <1>4, <1>5, <1>6, <1>7, Callers DEF Next

LEMMA RegistryHolds == Spec => []RegistryInv
  <1>1. Init => RegistryInv
    BY ConInit
  <1>2. RegistryInv /\ [Next]_vars => RegistryInv'
    BY RegistryStep
  <1>3. QED BY <1>1, <1>2, PTL DEF Spec

\* The use counts of the registry are exact, and an entry that is being executed stays
\* listed unless its removal had begun when it was found (spd_cli_command_full,
\* spd_cli_unregister).
THEOREM HandlersAreCounted == Spec => []HandlersCounted
  <1>1. RegistryInv => HandlersCounted
    BY DEF RegistryInv, InUseCounted, Handling, HandledIsListed, HandlersCounted
  <1>2. QED BY <1>1, RegistryHolds, PTL

\* Whoever types the words of a registered command gets it, whatever patterns there are
\* and in whatever order entries came and went (find_cli, __spd_cli_insert).
THEOREM ListedAlwaysFound == Spec => []ListedIsFound
  <1>1. ASSUME RegistryInv PROVE ListedIsFound
    <2>1. SUFFICES ASSUME walks, NEW e \in Range(registry),
                          \A i \in DOMAIN Pattern[e] : Pattern[e][i].kind = "word"
                   PROVE  FindCli(registry, Pattern[e], 0) = e
      BY DEF ListedIsFound
    <2>2. registry \in Seq(Entries) /\ PlainsFirst(registry)
      BY <1>1, <2>1 DEF RegistryInv, RegistryTypes
    <2>3. IsPlain(e)
      BY <2>1 DEF IsPlain
    <2>4. QED BY <2>1, <2>2, <2>3, OrderFinds
  <1>2. QED BY <1>1, RegistryHolds, PTL

\* Every step keeps the files with their owners.
LEMMA OwnStep ==
  ASSUME ConTypes, OwnInv, LinesAimed, [Next]_vars
  PROVE  ConTypes' /\ OwnInv' /\ AimKept
  <1>1. CASE UNCHANGED vars
    <2>1. UNCHANGED <<files, strange, others, con, peer, left, spoke, lines, listen, serve, fan,
                      strayed, verbose, dead, writer, regs>>
      BY <1>1 DEF vars, cliVars, conVars, registryVars
    <2>2. RestTyped'
      BY <2>1, TypesStay
    <2>3. QED BY <2>1, <2>2, StageStays, NothingHappens, TypesMake, TypesStay
  <1>2. CASE ListenerStep
    BY <1>2, AcceptKeeps, ScanKeeps, RefusedKeeps, PairKeeps, TakeKeeps, SpawnKeeps,
       SpawnFailsKeeps, GiveUpKeeps, AnnounceKeeps DEF ListenerStep
  <1>3. ASSUME NEW x \in Slots, ConsoleStep(x) \/ Poll(x)
        PROVE  ConTypes' /\ OwnInv' /\ AimKept
    <2>1. CASE Caller(x) /\ Rest
      BY <2>1, Callers, RegistrarsKeep
    <2>2. QED BY <1>3, <2>1, ServingKeeps, ClosersKeep, ClearKeeps DEF ConsoleStep
  <1>4. ASSUME NEW w \in Announcers, FanStep(w)
        PROVE  ConTypes' /\ OwnInv' /\ AimKept
    BY <1>4, FansKeep
  <1>5. ASSUME NEW t \in Registrars, (Caller(t) \/ Registrar(t)) /\ Rest
        PROVE  ConTypes' /\ OwnInv' /\ AimKept
    BY <1>5, Callers, RegistrarsKeep
  <1>6. ASSUME NEW c \in Clients, Connect(c) \/ Hangup(c)
        PROVE  ConTypes' /\ OwnInv' /\ AimKept
    BY <1>6, ClientsKeep
  <1>7. CASE OtherOpens \/ OtherCloses
    BY <1>7, OthersKeep
  <1>8. QED BY <1>1, <1>2, <1>3, <1>4, <1>5, <1>6, <1>7 DEF Next

\* What is about to be written is still aimed well when nobody takes aim anew.
LEMMA LinesKept ==
  ASSUME LinesAimed, FirstAnnounces, AimKept,
         \A w \in Announcers : fan'[w].write =>
           fan[w].write /\ fan'[w].slot = fan[w].slot /\ fan'[w].to = fan[w].to
  PROVE  LinesAimed'
  BY DEF LinesAimed, AimKept

\* A line is written to the pair of the console it was meant for.
LEMMA LineArrives ==
  ASSUME ConInv, NEW w \in Announcers, FanWrite(w)
  PROVE  ~strayed'
  <1>1. /\ fan[w].write
        /\ strayed' = (strayed \/ (/\ fan[w].to # NoClient /\ IsOpen(Conn(fan[w].to))
                                   /\ listen.at # "giveup"
                                   /\ FileAt(con[fan[w].slot].p1) # P1(fan[w].to)))
    BY DEF FanWrite
  <1>2. SUFFICES ASSUME fan[w].to # NoClient, IsOpen(Conn(fan[w].to)), listen.at # "giveup"
                 PROVE  FileAt(con[fan[w].slot].p1) = P1(fan[w].to)
    BY <1>1 DEF ConInv
  <1>3. PICK c \in Clients : c = fan[w].to
    BY <1>2 DEF ConInv, ConTypes
  <1>4. PICK x \in Slots : x = fan[w].slot /\ Aimed(x, c)
    BY <1>1, <1>3 DEF ConInv, LinesAimed
  <1>5. PICK n \in Fds : files[n] = Conn(c)
    BY <1>2, <1>3 DEF IsOpen
  <1>6. InHand(c) \/ \E y \in Slots : Serving(y) /\ serve[y].client = c
    BY <1>5 DEF ConInv, OwnInv, FilesPlaced
  <1>7. \A y \in Slots : Serving(y) => serve[y].at # "none"
    BY DEF Serving
  <1>8. peer[c] = "accepted"
    BY <1>6, <1>7 DEF ConInv, OwnInv, ListenerHas, ConsolesHave, InHand
  <1>9. CASE serve[x].client = c
    <2>1. \A y \in Slots : serve[y].client = c => y = x
      BY <1>9, ConsoleAssumption DEF ConInv, OwnInv, ConsolesHave
    <2>2. ~InHand(c)
      BY <1>9 DEF ConInv, OwnInv, ListenerHas, InHand
    <2>3. Serving(x)
      BY <1>6, <2>1, <2>2
    <2>4. con[x].p1 \in Fds /\ files[con[x].p1] = P1(c)
      BY <1>9, <2>3 DEF ConInv, OwnInv, ConsolesHave, HasP1, HasP0
    <2>5. QED BY <1>3, <1>4, <2>4 DEF FileAt
  <1>10. CASE Filling(x) /\ listen.client = c
    <2>1. listen.at = "spawn" /\ listen.slot = x
      BY <1>2, <1>10 DEF Filling
    <2>2. con[x].p1 \in Fds /\ files[con[x].p1] = P1(c)
      BY <1>10, <2>1 DEF ConInv, OwnInv, ListenerHas
    <2>3. QED BY <1>3, <1>4, <2>2 DEF FileAt
  <1>11. QED BY <1>4, <1>8, <1>9, <1>10 DEF Aimed

\* Every step keeps the lines aimed.
LEMMA LinesStep ==
  ASSUME ConInv, AimKept, [Next]_vars
  PROVE  LinesAimed' /\ FirstAnnounces' /\ ~strayed'
  <1>1. /\ ConTypes /\ OwnInv /\ LinesAimed /\ FirstAnnounces /\ ~strayed
        /\ FanTyped /\ Listener \in Announcers /\ Slots \subseteq Announcers
        /\ Silent.slot = 0 /\ Silent.write = FALSE
    BY TypesAre DEF ConInv, Announcers, Silent
  <1>2. CASE fan' = fan /\ strayed' = strayed
             /\ (listen'.at = "poll" \/ listen.at # "poll" \/ fan[Listener] = Silent)
    BY <1>1, <1>2, LinesKept DEF FirstAnnounces
  <1>3. CASE UNCHANGED vars
    <2>1. UNCHANGED <<listen, fan, strayed>>
      BY <1>3 DEF vars, conVars
    <2>2. QED BY <1>2, <2>1, <1>1 DEF FirstAnnounces
  <1>4. CASE ListenerStep
    <2>1. CASE Announce
      <3>1. listen.at = "announce" /\ listen'.at = "poll" /\ strayed' = strayed
        BY <2>1 DEF Announce, Listens, Listening
      <3>2. fan[Listener] = Silent
        BY <1>1, <3>1 DEF FirstAnnounces
      <3>3. fan' = fan \/ fan' = [fan EXCEPT ![Listener] = [@ EXCEPT !.slot = 1]]
        BY <2>1 DEF Announce, ConTypes, ConInv
      <3>4. \A w \in Announcers : fan'[w].write =>
              fan[w].write /\ fan'[w].slot = fan[w].slot /\ fan'[w].to = fan[w].to
        BY <1>1, <3>2, <3>3 DEF FanTyped
      <3>5. QED BY <1>1, <3>1, <3>4, LinesKept DEF FirstAnnounces
    <2>2. CASE ~Announce
      <3>1. /\ fan' = fan /\ strayed' = strayed
            /\ listen'.at = "poll" \/ listen.at # "poll" \/ fan[Listener] = Silent
        BY <1>4, <2>2 DEF ListenerStep, Accept, ScanBusy, ScanFull, MakePair, PairFails, FreeSlot,
                          Refuse, TakeSlot, Spawn, SpawnFails, GiveUp, Listens
      <3>2. QED BY <1>2, <3>1
    <2>3. QED BY <2>1, <2>2
  <1>5. ASSUME NEW x \in Slots, ConsoleStep(x) \/ Poll(x)
        PROVE  LinesAimed' /\ FirstAnnounces' /\ ~strayed'
    <2>1. CASE End(x)
      <3>1. /\ fan[x] = Silent /\ listen' = listen /\ strayed' = strayed
            /\ fan' = fan \/ fan' = [fan EXCEPT ![x].slot = 1]
        BY <2>1 DEF End, At
      <3>2. \A w \in Announcers : fan'[w].write =>
              fan[w].write /\ fan'[w].slot = fan[w].slot /\ fan'[w].to = fan[w].to
        BY <1>1, <3>1 DEF FanTyped
      <3>3. fan'[Listener] = fan[Listener]
        BY <1>1, <3>1, ConsoleAssumption DEF FanTyped
      <3>4. QED BY <1>1, <3>1, <3>2, <3>3, LinesKept DEF FirstAnnounces
    <2>2. CASE ~End(x)
      <3>1. fan' = fan /\ strayed' = strayed /\ listen' = listen
        BY <1>5, <2>2 DEF ConsoleStep, Greet, ClientLeft, ClientSpeaks, NoInput, CommandDone,
                          Forward, CloseFd, CloseP0, CloseP1, ClearSlot, Poll, Rest, conVars
      <3>2. QED BY <1>1, <1>2, <3>1 DEF FirstAnnounces
    <2>3. QED BY <2>1, <2>2
  <1>6. ASSUME NEW w \in Announcers, FanTest(w)
        PROVE  LinesAimed' /\ FirstAnnounces' /\ ~strayed'
    <2>1. PICK x : x = fan[w].slot
      OBVIOUS
    <2>2. /\ fan[w].slot > 0 /\ ~fan[w].write
          /\ UNCHANGED <<listen, strayed, con, serve, peer>>
          /\ fan' = [fan EXCEPT ![w] =
               IF x \notin Slots THEN Silent
               ELSE IF ~Mute /\ con[x].fd > -1
               THEN [@ EXCEPT !.write = TRUE, !.to = Occupant(x)]
               ELSE [@ EXCEPT !.slot = x + 1]]
      BY <1>6, <2>1 DEF FanTest
    <2>3. \A v \in Announcers \ {w} : fan'[v] = fan[v]
      BY <1>1, <2>2 DEF FanTyped
    <2>4. fan'[w].write => /\ x \in Slots /\ con[x].fd > -1
                           /\ fan'[w].slot = x /\ fan'[w].to = Occupant(x)
      BY <1>1, <2>1, <2>2 DEF FanTyped
    <2>5. ASSUME fan'[w].write, fan'[w].to \in Clients
          PROVE  Aimed(x, fan'[w].to)
      <3>1. con[x].fd \in Fds
        <4>1. x \in Slots /\ con[x].fd > -1
          BY <2>4, <2>5
        <4>2. con[x].fd \in Fds \cup {NoFd}
          BY <4>1 DEF ConInv, ConTypes
        <4>3. QED BY <4>1, <4>2 DEF NoFd
      <3>2. serve[x].at # "none" \/ Filling(x)
        BY <2>4, <2>5, <3>1 DEF ConInv, OwnInv, SlotsTaken
      <3>3. QED BY <2>4, <2>5, <3>2 DEF Aimed, Occupant, Filling
    <2>6. LinesAimed'
      BY <1>1, <2>2, <2>3, <2>4, <2>5 DEF LinesAimed, Aimed, Filling
    <2>7. FirstAnnounces'
      BY <1>1, <2>2, <2>3 DEF FirstAnnounces
    <2>8. QED BY <1>1, <2>2, <2>6, <2>7
  <1>7. ASSUME NEW w \in Announcers, FanWrite(w)
        PROVE  LinesAimed' /\ FirstAnnounces' /\ ~strayed'
    <2>1. /\ fan[w].write /\ listen' = listen
          /\ fan' = [fan EXCEPT ![w].slot = @ + 1, ![w].write = FALSE, ![w].to = NoClient]
      BY <1>7 DEF FanWrite
    <2>2. /\ \A v \in Announcers \ {w} : fan'[v] = fan[v]
          /\ fan'[w].write = FALSE
      BY <1>1, <2>1 DEF FanTyped
    <2>3. LinesAimed'
      BY <1>1, <2>2, LinesKept
    <2>4. FirstAnnounces'
      BY <1>1, <2>1, <2>2 DEF FirstAnnounces
    <2>5. QED BY <1>7, <2>3, <2>4, LineArrives
  <1>8. ASSUME NEW t \in Registrars, Rest
        PROVE  LinesAimed' /\ FirstAnnounces' /\ ~strayed'
    <2>1. UNCHANGED <<listen, fan, strayed>>
      BY <1>8 DEF Rest, conVars
    <2>2. QED BY <1>1, <1>2, <2>1 DEF FirstAnnounces
  <1>9. ASSUME NEW c \in Clients, Connect(c) \/ Hangup(c)
        PROVE  LinesAimed' /\ FirstAnnounces' /\ ~strayed'
    <2>1. UNCHANGED <<listen, fan, strayed>>
      BY <1>9 DEF Connect, Hangup
    <2>2. QED BY <1>1, <1>2, <2>1 DEF FirstAnnounces
  <1>10. CASE OtherOpens \/ OtherCloses
    <2>1. UNCHANGED <<listen, fan, strayed>>
      BY <1>10 DEF OtherOpens, OtherCloses
    <2>2. QED BY <1>1, <1>2, <2>1 DEF FirstAnnounces
  <1>11. QED
    BY <1>3, <1>4, <1>5, <1>6, <1>7, <1>8, <1>9, <1>10 DEF Next, FanStep

LEMMA ConHolds == Spec => []ConInv
  <1>1. Init => ConInv
    BY ConInit
  <1>2. ASSUME ConInv, [Next]_vars PROVE ConInv'
    <2>1. ConTypes' /\ OwnInv' /\ AimKept
      BY <1>2, OwnStep DEF ConInv
    <2>2. LinesAimed' /\ FirstAnnounces' /\ ~strayed'
      BY <1>2, <2>1, LinesStep
    <2>3. QED BY <2>1, <2>2 DEF ConInv
  <1>3. QED BY <1>1, <1>2, PTL DEF Spec

\* Nobody closes another's file, the three numbers in a slot are its client's until its
\* thread closes them, no client has two slots, and no file and no slot is left to nobody
\* (listener_thread, netconsole_thread).
THEOREM FilesAlwaysOwned == Spec => []FilesOwned
  <1>1. ASSUME ConInv, RegistryInv PROVE FilesOwned
    <2>1. TypeOK
      <3>1. CliTypeOK
        BY <1>1 DEF ConInv, ConTypes, RegistryInv, RegistryTypes, CliTypeOK
      <3>2. QED BY <1>1, <3>1 DEF ConInv, ConTypes, TypeOK
    <2>2. ASSUME NEW x \in Slots, Serving(x)
          PROVE  LET c == serve[x].client IN
                 /\ files[con[x].fd] = Conn(c)
                 /\ files[con[x].p0] = P0(c) /\ files[con[x].p1] = P1(c)
                 /\ \A y \in Slots \ {x} : serve[y].client # c
      BY <1>1, <2>2 DEF ConInv, OwnInv, ConsolesHave, HasP0, HasP1, Serving
    <2>3. ASSUME NEW x \in Slots, con[x].fd >= 0
          PROVE  \/ serve[x].at # "none"
                 \/ listen.slot = x /\ listen.at \in {"take", "spawn", "giveup"}
      <3>1. con[x].fd \in Fds
        BY <1>1, <2>3, Numerals DEF ConInv, ConTypes
      <3>2. QED BY <1>1, <3>1 DEF ConInv, OwnInv, SlotsTaken, Filling
    <2>4. ASSUME NEW n \in Fds, files[n][1] \in Kinds
          PROVE  Held(files[n][2])
      <3>1. files[n] \in Kinds \X Clients
        BY <1>1, <2>4 DEF ConInv, ConTypes, Free, Other, Kinds
      <3>2. PICK c \in Clients : files[n] \in {Conn(c), P0(c), P1(c)}
        BY <3>1, FileForms
      <3>3. files[n][2] = c
        BY <3>2, FileTypes
      <3>4. InHand(c) \/ \E x \in Slots : serve[x].client = c
        BY <1>1, <3>2 DEF ConInv, OwnInv, FilesPlaced
      <3>5. QED BY <3>3, <3>4 DEF InHand, Held
    <2>5. ~strange
      BY <1>1 DEF ConInv, OwnInv
    <2>6. QED BY <2>1, <2>2, <2>3, <2>4, <2>5 DEF FilesOwned
  <1>2. QED BY <1>1, ConHolds, RegistryHolds, PTL

\* A line meant for a console goes to that console's pair and to no other file, whenever
\* the console is not being closed, though the fan-out takes no lock
\* (spd_network_puts_mutable).
THEOREM LinesAlwaysStayHome == Spec => []LinesStayHome
  <1>1. ConInv => LinesStayHome
    BY DEF ConInv, LinesStayHome
  <1>2. QED BY <1>1, ConHolds, PTL
=============================================================================

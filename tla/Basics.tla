------------------------------- MODULE Basics -------------------------------
(***************************************************************************)
(* Lemmas about numbers and sequences that the proofs share: least and     *)
(* greatest elements, which take the place of induction where a proof      *)
(* needs a first or a last one, and the elements of a sequence into which  *)
(* one was put or out of which one was taken.                              *)
(***************************************************************************)
EXTENDS Integers, Sequences, SequencesExt, FiniteSetsExt, WellFoundedInduction,
        SequenceTheorems, TLAPS

----------------------------------------------------------------------------
(* Least and greatest numbers.                                             *)

\* A set of natural numbers that is not empty has a least element.
LEMMA LeastNumber ==
  ASSUME NEW T, T \subseteq Nat, T # {}
  PROVE  \E x \in T : \A y \in T : x <= y
  <1> DEFINE R == OpToRel(<, Nat)
  <1>1. IsWellFoundedOn(R, Nat)
    BY NatLessThanWellFounded
  <1>2. \A x, y \in Nat : x < y => <<x, y>> \in R
    BY DEF OpToRel
  <1> HIDE DEF R
  <1>3. PICK x \in T : \A y \in T : ~ (<<y, x>> \in R)
    BY <1>1, WFMin
  <1>4. ASSUME NEW y \in T PROVE x <= y
    <2>1. x \in Nat /\ y \in Nat
      OBVIOUS
    <2>2. ~ (y < x)
      <3>1. <<y, x>> \notin R
        BY <1>3
      <3>2. QED BY <2>1, <3>1, <1>2
    <2>3. QED BY <2>1, <2>2
  <1>5. QED BY <1>4

\* Of some of the first n numbers, one is the greatest.
LEMMA GreatestNumber ==
  ASSUME NEW n \in Nat, NEW W, W \subseteq 1 .. n, W # {}
  PROVE  \E x \in W : \A y \in W : y <= x
  <1> DEFINE T == {n - i : i \in W}
  <1>1. T # {}
    OBVIOUS
  <1>2. T \subseteq Nat
    <2>1. \A i \in 1 .. n : n - i \in Nat
      OBVIOUS
    <2>2. QED BY <2>1
  <1>3. PICK t \in T : \A u \in T : t <= u
    <2> HIDE DEF T
    <2> QED BY <1>1, <1>2, LeastNumber
  <1>4. PICK x \in W : t = n - x
    OBVIOUS
  <1>5. ASSUME NEW y \in W PROVE y <= x
    <2>1. n - x <= n - y
      BY <1>3, <1>4
    <2>2. x \in Int /\ y \in Int
      OBVIOUS
    <2>3. QED BY <2>1, <2>2
  <1>6. QED BY <1>5

\* Min of numbers is the least of them.
LEMMA MinIsLeast ==
  ASSUME NEW S, S \subseteq Nat, S # {}
  PROVE  Min(S) \in S /\ \A y \in S : Min(S) <= y
  <1>1. \E x \in S : \A y \in S : x <= y
    BY LeastNumber
  <1>2. QED BY <1>1 DEF Min

\* Max of some of the numbers up to n is the greatest of them.
LEMMA MaxIsGreatest ==
  ASSUME NEW n \in Nat, NEW S, S \subseteq 0 .. n, S # {}
  PROVE  Max(S) \in S /\ \A y \in S : y <= Max(S)
  <1>1. PICK W \in SUBSET (1 .. n + 1) : W = {i + 1 : i \in S}
    <2>1. {i + 1 : i \in S} \subseteq 1 .. n + 1
      OBVIOUS
    <2>2. QED BY <2>1
  <1>2. PICK w \in W : \A v \in W : v <= w
    <2>1. W # {}
      BY <1>1
    <2>2. n + 1 \in Nat
      OBVIOUS
    <2>3. QED BY <2>1, <2>2, GreatestNumber
  <1>3. PICK x \in S : w = x + 1
    BY <1>1
  <1>4. ASSUME NEW y \in S PROVE x >= y
    <2>1. y + 1 \in W
      BY <1>1
    <2>2. y + 1 <= x + 1
      BY <1>2, <1>3, <2>1
    <2>3. x \in Int /\ y \in Int
      OBVIOUS
    <2>4. QED BY <2>2, <2>3
  <1>5. Max(S) \in S /\ \A y \in S : Max(S) >= y
    BY <1>4 DEF Max
  <1>6. QED
    <2>1. ASSUME NEW y \in S PROVE y <= Max(S)
      <3>1. Max(S) >= y /\ Max(S) \in 0 .. n /\ y \in 0 .. n
        BY <1>5
      <3>2. QED BY <3>1
    <2>2. QED BY <1>5, <2>1

\* Min of two numbers.
LEMMA MinOfTwo ==
  ASSUME NEW a \in Nat, NEW b \in Nat
  PROVE  /\ Min({a, b}) \in Nat
         /\ Min({a, b}) <= a /\ Min({a, b}) <= b
         /\ \A c \in Nat : c <= a /\ c <= b => c <= Min({a, b})
  <1>1. Min({a, b}) \in {a, b} /\ \A y \in {a, b} : Min({a, b}) <= y
    <2>1. {a, b} \subseteq Nat /\ {a, b} # {}
      OBVIOUS
    <2>2. QED BY ONLY <2>1, MinIsLeast
  <1>2. QED BY <1>1

----------------------------------------------------------------------------
(* Sequences.                                                              *)

\* What is left of a sequence without its i-th element.
LEMMA RemovedAt ==
  ASSUME NEW S, NEW s \in Seq(S), NEW i \in 1 .. Len(s)
  PROVE  /\ RemoveAt(s, i) \in Seq(S)
         /\ Len(RemoveAt(s, i)) = Len(s) - 1
         /\ \A j \in 1 .. Len(s) - 1 : RemoveAt(s, i)[j] = s[IF j < i THEN j ELSE j + 1]
  <1> DEFINE a == SubSeq(s, 1, i - 1)
             b == SubSeq(s, i + 1, Len(s))
  <1>1. Len(s) \in Nat /\ i \in Nat
    BY LenProperties
  <1>2. /\ a \in Seq(S) /\ Len(a) = i - 1
        /\ \A j \in 1 .. i - 1 : a[j] = s[j]
    BY <1>1
  <1>3. /\ b \in Seq(S) /\ Len(b) = Len(s) - i
        /\ \A j \in 1 .. Len(s) - i : b[j] = s[i + j]
    BY <1>1
  <1> HIDE DEF a, b
  <1>4. /\ a \o b \in Seq(S) /\ Len(a \o b) = Len(s) - 1
    <2>1. a \o b \in Seq(S) /\ Len(a \o b) = Len(a) + Len(b)
      BY <1>2, <1>3, ConcatProperties
    <2>2. QED BY <1>1, <1>2, <1>3, <2>1
  <1>5. ASSUME NEW j \in 1 .. Len(s) - 1
        PROVE  (a \o b)[j] = s[IF j < i THEN j ELSE j + 1]
    <2>1. (a \o b)[j] = IF j <= Len(a) THEN a[j] ELSE b[j - Len(a)]
      BY <1>1, <1>2, <1>3, ConcatProperties
    <2>2. CASE j < i
      BY <1>1, <1>2, <2>1, <2>2
    <2>3. CASE ~(j < i)
      <3>1. j - Len(a) = j - i + 1 /\ j - i + 1 \in 1 .. Len(s) - i /\ ~(j <= Len(a))
        BY <1>1, <1>2, <2>3
      <3>2. b[j - i + 1] = s[i + (j - i + 1)] /\ i + (j - i + 1) = j + 1
        BY <1>1, <1>3, <3>1
      <3>3. QED BY <2>1, <2>3, <3>1, <3>2
    <2>4. QED BY <2>2, <2>3
  <1>6. RemoveAt(s, i) = a \o b
    BY DEF RemoveAt, a, b
  <1>7. QED BY <1>4, <1>5, <1>6

\* A sequence with another element at place i.
LEMMA ReplacedAt ==
  ASSUME NEW S, NEW s \in Seq(S), NEW i \in 1 .. Len(s), NEW e \in S,
         NEW t, t = [s EXCEPT ![i] = e]
  PROVE  /\ t \in Seq(S)
         /\ Len(t) = Len(s)
         /\ \A j \in 1 .. Len(s) : t[j] = IF j = i THEN e ELSE s[j]
  BY ExceptSeq

\* A sequence with an element put in at place i.
LEMMA InsertedAt ==
  ASSUME NEW S, NEW s \in Seq(S), NEW e \in S, NEW i \in 1 .. Len(s) + 1
  PROVE  /\ InsertAt(s, i, e) \in Seq(S)
         /\ Len(InsertAt(s, i, e)) = Len(s) + 1
         /\ \A j \in 1 .. Len(s) + 1 :
              InsertAt(s, i, e)[j] = IF j < i THEN s[j] ELSE IF j = i THEN e ELSE s[j - 1]
  <1> DEFINE a == SubSeq(s, 1, i - 1)
             b == SubSeq(s, i, Len(s))
             c == a \o <<e>>
  <1>1. Len(s) \in Nat /\ i \in Nat
    BY LenProperties
  <1>2. /\ a \in Seq(S) /\ Len(a) = i - 1
        /\ \A j \in 1 .. i - 1 : a[j] = s[j]
    BY <1>1
  <1>3. /\ b \in Seq(S) /\ Len(b) = Len(s) - i + 1
        /\ \A j \in 1 .. Len(s) - i + 1 : b[j] = s[i + j - 1]
    BY <1>1
  <1>4. InsertAt(s, i, e) = c \o b
    BY DEF InsertAt
  <1> HIDE DEF a, b, c
  <1>5. /\ c \in Seq(S) /\ Len(c) = i
        /\ \A j \in 1 .. i : c[j] = IF j < i THEN s[j] ELSE e
    <2>1. <<e>> \in Seq(S) /\ Len(<<e>>) = 1 /\ <<e>>[1] = e
      OBVIOUS
    <2>2. c \in Seq(S) /\ Len(c) = i
      BY <1>1, <1>2, <2>1, ConcatProperties DEF c
    <2>3. \A j \in 1 .. i : c[j] = IF j <= Len(a) THEN a[j] ELSE <<e>>[j - Len(a)]
      BY <1>1, <1>2, <2>1, ConcatProperties DEF c
    <2>4. ASSUME NEW j \in 1 .. i PROVE c[j] = IF j < i THEN s[j] ELSE e
      <3>1. CASE j < i
        BY <1>1, <1>2, <2>3, <3>1
      <3>2. CASE j = i
        <4>1. ~(j <= Len(a)) /\ j - Len(a) = 1
          BY <1>1, <1>2, <3>2
        <4>2. c[j] = <<e>>[j - Len(a)]
          BY <2>3, <4>1
        <4>3. <<e>>[j - Len(a)] = e
          BY ONLY <2>1, <4>1
        <4>4. QED BY <3>2, <4>2, <4>3
      <3>3. QED BY <1>1, <3>1, <3>2
    <2>5. QED BY <2>2, <2>4
  <1>6. c \o b \in Seq(S) /\ Len(c \o b) = Len(s) + 1
    <2>1. c \o b \in Seq(S) /\ Len(c \o b) = Len(c) + Len(b)
      BY <1>3, <1>5, ConcatProperties
    <2>2. QED BY <1>1, <1>3, <1>5, <2>1
  <1>7. ASSUME NEW j \in 1 .. Len(s) + 1
        PROVE  (c \o b)[j] = IF j < i THEN s[j] ELSE IF j = i THEN e ELSE s[j - 1]
    <2>1. (c \o b)[j] = IF j <= Len(c) THEN c[j] ELSE b[j - Len(c)]
      BY <1>1, <1>3, <1>5, ConcatProperties
    <2>2. CASE j <= i
      BY <1>1, <1>5, <2>1, <2>2
    <2>3. CASE ~(j <= i)
      <3>1. j - Len(c) = j - i /\ j - i \in 1 .. Len(s) - i + 1 /\ ~(j <= Len(c))
        BY <1>1, <1>5, <2>3
      <3>2. b[j - i] = s[i + (j - i) - 1] /\ i + (j - i) - 1 = j - 1
        BY <1>1, <1>3, <3>1
      <3>3. QED BY <1>1, <2>1, <2>3, <3>1, <3>2
    <2>4. QED BY <2>2, <2>3
  <1>8. QED BY <1>4, <1>6, <1>7


----------------------------------------------------------------------------
(* The concatenation of the sequences g[1], ..., g[n].                     *)

Joins(f, g, n) ==
  f = [k \in 0 .. n |-> IF k = 0 THEN <<>> ELSE f[k - 1] \o g[k]]

\* They have no element in common, and none twice.
Apart(g, n) ==
  \A k, l \in 1 .. n : \A i \in 1 .. Len(g[k]), j \in 1 .. Len(g[l]) :
    g[k][i] = g[l][j] => k = l /\ i = j

\* The equation that defines the concatenation has a solution.
LEMMA JoiningEnds ==
  ASSUME NEW g, NEW n \in Nat
  PROVE  \E f : Joins(f, g, n)
  <1> DEFINE Bad == {m \in 0 .. n : ~ \E f : Joins(f, g, m)}
  <1>1. ASSUME Bad # {} PROVE FALSE
    <2>1. Bad \subseteq Nat
      OBVIOUS
    <2> HIDE DEF Bad
    <2>2. PICK m \in Bad : \A k \in Bad : m <= k
      BY <1>1, <2>1, LeastNumber
    <2> USE DEF Bad
    <2>3. m \in 0 .. n /\ ~ \E f : Joins(f, g, m)
      BY <2>2
    <2>4. m # 0
      <3>1. Joins([k \in 0 .. 0 |-> <<>>], g, 0)
        BY DEF Joins
      <3>2. QED BY <2>3, <3>1
    <2>5. m - 1 \in 0 .. n /\ m - 1 \notin Bad
      <3>1. m \in Nat /\ m - 1 \in 0 .. n /\ ~(m <= m - 1)
        BY <2>3, <2>4
      <3>2. QED BY <2>2, <3>1
    <2>6. PICK f : Joins(f, g, m - 1)
      BY <2>5
    <2> DEFINE h == [k \in 0 .. m |-> IF k = m THEN f[m - 1] \o g[m] ELSE f[k]]
    <2>7. Joins(h, g, m)
      <3>1. ASSUME NEW k \in 0 .. m
            PROVE  h[k] = IF k = 0 THEN <<>> ELSE h[k - 1] \o g[k]
        <4>1. CASE k = m
          <5>1. h[k] = f[m - 1] \o g[m]
            BY <4>1
          <5>2. h[k - 1] = f[k - 1]
            BY <2>3, <2>4, <4>1
          <5>3. QED BY <2>4, <4>1, <5>1, <5>2
        <4>2. CASE k # m
          <5>1. k \in 0 .. m - 1 /\ h[k] = f[k]
            BY <2>3, <4>2
          <5>2. k # 0 => k - 1 \in 0 .. m /\ k - 1 # m
            BY <2>3, <4>2
          <5>3. k # 0 => h[k - 1] = f[k - 1]
            BY <5>2
          <5>4. f[k] = IF k = 0 THEN <<>> ELSE f[k - 1] \o g[k]
            BY <2>6, <5>1 DEF Joins
          <5>5. QED BY <5>1, <5>3, <5>4
        <4>3. QED BY <4>1, <4>2
      <3>2. h = [k \in 0 .. m |-> h[k]]
        OBVIOUS
      <3> HIDE DEF h
      <3>3. QED BY <3>1, <3>2 DEF Joins
    <2>8. QED BY <2>3, <2>7
  <1>2. n \in 0 .. n
    OBVIOUS
  <1>3. QED BY <1>1, <1>2

\* It has the elements of all, and each once if they are apart.
LEMMA JoinedIs ==
  ASSUME NEW S, NEW n \in Nat, NEW g, NEW f, Joins(f, g, n),
         \A k \in 1 .. n : g[k] \in Seq(S), Apart(g, n)
  PROVE  /\ f[n] \in Seq(S)
         /\ \A e : (\E i \in 1 .. Len(f[n]) : f[n][i] = e)
                     <=> \E k \in 1 .. n : \E j \in 1 .. Len(g[k]) : g[k][j] = e
         /\ \A i, j \in 1 .. Len(f[n]) : f[n][i] = f[n][j] => i = j
  <1> DEFINE Good(m) ==
               /\ f[m] \in Seq(S)
               /\ \A e : (\E i \in 1 .. Len(f[m]) : f[m][i] = e)
                           <=> \E k \in 1 .. m : \E j \in 1 .. Len(g[k]) : g[k][j] = e
               /\ \A i, j \in 1 .. Len(f[m]) : f[m][i] = f[m][j] => i = j
             Bad == {m \in 0 .. n : ~Good(m)}
  <1>1. Good(0)
    <2>1. f[0] = <<>>
      BY DEF Joins
    <2>2. QED BY <2>1
  <1>2. ASSUME NEW m \in 1 .. n, Good(m - 1)
        PROVE  Good(m)
    <2>1. f[m] = f[m - 1] \o g[m]
      <3>1. m \in 0 .. n /\ m # 0
        OBVIOUS
      <3>2. QED BY <3>1 DEF Joins
    <2>2. PICK a \in Seq(S) : a = f[m - 1]
      BY <1>2
    <2>3. PICK b \in Seq(S) : b = g[m]
      OBVIOUS
    <2>4. PICK c \in Seq(S) :
            /\ c = f[m]
            /\ Len(c) = Len(a) + Len(b)
            /\ \A i \in 1 .. Len(a) : c[i] = a[i]
            /\ \A i \in 1 .. Len(c) : ~(i <= Len(a)) => c[i] = b[i - Len(a)]
            /\ \A i \in 1 .. Len(b) : c[Len(a) + i] = b[i]
      <3>1. a \o b \in Seq(S) /\ Len(a \o b) = Len(a) + Len(b) /\ Len(a) \in Nat /\ Len(b) \in Nat
        OBVIOUS
      <3>2. \A i \in 1 .. Len(a) + Len(b) : (a \o b)[i] = IF i <= Len(a) THEN a[i] ELSE b[i - Len(a)]
        BY ConcatProperties
      <3>3. \A i \in 1 .. Len(b) : (a \o b)[Len(a) + i] = b[i]
        <4>1. ASSUME NEW i \in 1 .. Len(b)
              PROVE  Len(a) + i \in 1 .. Len(a) + Len(b) /\ ~(Len(a) + i <= Len(a)) /\ (Len(a) + i) - Len(a) = i
          BY <3>1
        <4>2. QED BY <3>2, <4>1
      <3>4. f[m] = a \o b
        BY <2>1, <2>2, <2>3
      <3>5. /\ \A i \in 1 .. Len(a) : (a \o b)[i] = a[i]
            /\ \A i \in 1 .. Len(a \o b) : ~(i <= Len(a)) => (a \o b)[i] = b[i - Len(a)]
        BY <3>1, <3>2
      <3> HIDE DEF Good
      <3>6. QED BY <3>1, <3>3, <3>4, <3>5
    <2>5. Len(a) \in Nat /\ Len(b) \in Nat
      OBVIOUS
    <2>6. /\ \A e : (\E i \in 1 .. Len(a) : a[i] = e)
                      <=> \E k \in 1 .. m - 1 : \E j \in 1 .. Len(g[k]) : g[k][j] = e
          /\ \A i, j \in 1 .. Len(a) : a[i] = a[j] => i = j
      BY <1>2, <2>2
    <2>7. 1 .. m = (1 .. m - 1) \cup {m}
      OBVIOUS
    <2>8. ASSUME NEW e
          PROVE  (\E i \in 1 .. Len(c) : c[i] = e)
                   <=> \E k \in 1 .. m : \E j \in 1 .. Len(g[k]) : g[k][j] = e
      <3>1. (\E i \in 1 .. Len(c) : c[i] = e)
              <=> (\E i \in 1 .. Len(a) : a[i] = e) \/ (\E i \in 1 .. Len(b) : b[i] = e)
        <4>1. ASSUME NEW i \in 1 .. Len(c), c[i] = e
              PROVE  (\E x \in 1 .. Len(a) : a[x] = e) \/ (\E x \in 1 .. Len(b) : b[x] = e)
          <5>1. CASE i <= Len(a)
            <6>1. i \in 1 .. Len(a) /\ a[i] = e
              BY <2>4, <2>5, <4>1, <5>1
            <6>2. QED BY <6>1
          <5>2. CASE ~(i <= Len(a))
            <6>1. i - Len(a) \in 1 .. Len(b) /\ b[i - Len(a)] = e
              BY <2>4, <2>5, <4>1, <5>2
            <6>2. QED BY <6>1
          <5>3. QED BY <5>1, <5>2
        <4>2. ASSUME NEW i \in 1 .. Len(a), a[i] = e
              PROVE  \E x \in 1 .. Len(c) : c[x] = e
          <5>1. i \in 1 .. Len(c) /\ c[i] = e
            BY <2>4, <2>5, <4>2
          <5>2. QED BY <5>1
        <4>3. ASSUME NEW i \in 1 .. Len(b), b[i] = e
              PROVE  \E x \in 1 .. Len(c) : c[x] = e
          <5>1. Len(a) + i \in 1 .. Len(c) /\ c[Len(a) + i] = e
            BY <2>4, <2>5, <4>3
          <5>2. QED BY <5>1
        <4>4. QED BY <4>1, <4>2, <4>3
      <3>2. (\E k \in 1 .. m : \E j \in 1 .. Len(g[k]) : g[k][j] = e)
              <=> \/ \E k \in 1 .. m - 1 : \E j \in 1 .. Len(g[k]) : g[k][j] = e
                  \/ \E j \in 1 .. Len(b) : b[j] = e
        BY <2>3, <2>7
      <3>3. QED BY <2>6, <3>1, <3>2
    <2>9. ASSUME NEW i \in 1 .. Len(c), NEW j \in 1 .. Len(c), c[i] = c[j]
          PROVE  i = j
      <3>1. ASSUME NEW x \in 1 .. Len(c), NEW y \in 1 .. Len(c), x <= Len(a), ~(y <= Len(a))
            PROVE  c[x] # c[y]
        <4>1. x \in 1 .. Len(a) /\ y - Len(a) \in 1 .. Len(b) /\ c[x] = a[x] /\ c[y] = b[y - Len(a)]
          BY <2>4, <2>5, <3>1
        <4>2. PICK k \in 1 .. m - 1 : \E z \in 1 .. Len(g[k]) : g[k][z] = c[x]
          BY <2>6, <4>1
        <4>3. PICK z \in 1 .. Len(g[k]) : g[k][z] = c[x]
          BY <4>2
        <4>4. k \in 1 .. n /\ k # m
          OBVIOUS
        <4>5. y - Len(a) \in 1 .. Len(g[m]) /\ g[m][y - Len(a)] = c[y]
          BY <2>3, <4>1
        <4>6. QED BY <4>3, <4>4, <4>5 DEF Apart
      <3>2. CASE i <= Len(a) /\ j <= Len(a)
        BY <2>4, <2>5, <2>6, <2>9, <3>2
      <3>3. CASE ~(i <= Len(a)) /\ ~(j <= Len(a))
        <4>1. /\ i - Len(a) \in 1 .. Len(g[m]) /\ j - Len(a) \in 1 .. Len(g[m])
              /\ g[m][i - Len(a)] = c[i] /\ g[m][j - Len(a)] = c[j]
          BY <2>3, <2>4, <2>5, <3>3
        <4>2. i - Len(a) = j - Len(a)
          <5>1. g[m][i - Len(a)] = g[m][j - Len(a)]
            BY <2>9, <4>1
          <5>2. \A x, y \in 1 .. Len(g[m]) : g[m][x] = g[m][y] => x = y
            BY DEF Apart
          <5>3. QED BY <4>1, <5>1, <5>2
        <4>3. QED BY <2>4, <2>5, <4>2
      <3>4. QED BY <2>9, <3>1, <3>2, <3>3
    <2> HIDE DEF Good
    <2>10. c \in Seq(S) /\ f[m] = c
      BY <2>4
    <2> USE DEF Good
    <2>11. QED BY <2>8, <2>9, <2>10
  <1>3. Bad = {}
    <2>1. SUFFICES ASSUME Bad # {} PROVE FALSE
      OBVIOUS
    <2>2. Bad \subseteq Nat
      OBVIOUS
    <2>3. \A m : m \in Bad <=> m \in 0 .. n /\ ~Good(m)
      OBVIOUS
    <2> HIDE DEF Bad, Good
    <2>4. PICK m \in Bad : \A k \in Bad : m <= k
      BY <2>1, <2>2, LeastNumber
    <2>5. m \in 0 .. n /\ ~Good(m)
      BY <2>3, <2>4
    <2>6. m # 0
      BY <1>1, <2>5
    <2>7. m \in 1 .. n /\ m - 1 \in 0 .. n /\ ~(m <= m - 1)
      BY <2>5, <2>6
    <2>8. Good(m - 1)
      BY <2>3, <2>4, <2>7
    <2>9. QED BY <1>2, <2>5, <2>7, <2>8
  <1>4. Good(n)
    <2>1. n \in 0 .. n
      OBVIOUS
    <2> HIDE DEF Good
    <2>2. QED BY <1>3, <2>1
  <1>5. QED BY <1>4
=============================================================================

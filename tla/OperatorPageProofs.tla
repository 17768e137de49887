------------------------- MODULE OperatorPageProofs -------------------------
(***************************************************************************)
(* What OperatorPage keeps, for any cluster, any search and any number of  *)
(* things the user and the cluster do.  Of the scores it is used that they *)
(* are numbers, and there whenever a word is; of the order the search puts *)
(* the rows in, that it is total, and has those that run first.            *)
(***************************************************************************)
EXTENDS OperatorPage, FiniteSetTheorems, WellFoundedInduction, TLAPS

----------------------------------------------------------------------------
(* Sequences whose elements are of no one set.                             *)

IsSeq(s) == s \in Seq(Range(s))

LEMMA SeqAppended ==
  ASSUME NEW s, IsSeq(s), NEW e
  PROVE  IsSeq(Append(s, e)) /\ Range(Append(s, e)) \subseteq Range(s) \cup {e}
<1>. DEFINE S == Range(s) \cup {e}  t == Append(s, e)
<1>1. s \in Seq(S)
  <2>1. s \in Seq(Range(s))
    BY DEF IsSeq
  <2>. QED BY <2>1
<1>2. t \in Seq(S)
  <2>. HIDE DEF S
  <2>1. e \in S
    BY DEF S
  <2>. QED BY <1>1, <2>1
<1>. HIDE DEF t, S
<1>3. Range(t) \subseteq S
  BY <1>2 DEF Range
<1>4. t \in Seq(Range(t))
  BY <1>2 DEF Range
<1>. QED BY <1>3, <1>4 DEF IsSeq, S, t

LEMMA SeqRemoved ==
  ASSUME NEW s, IsSeq(s), NEW k \in DOMAIN s
  PROVE  IsSeq(RemoveAt(s, k)) /\ Range(RemoveAt(s, k)) \subseteq Range(s)
<1>. DEFINE S == Range(s)  t == RemoveAt(s, k)
<1>1. s \in Seq(S)
  BY DEF IsSeq
<1>. HIDE DEF S
<1>2. t \in Seq(S)
  <2>1. k \in 1 .. Len(s)
    BY <1>1
  <2>2. SubSeq(s, 1, k - 1) \in Seq(S) /\ SubSeq(s, k + 1, Len(s)) \in Seq(S)
    BY <1>1, <2>1
  <2>. QED BY <2>2 DEF RemoveAt
<1>. HIDE DEF t
<1>3. Range(t) \subseteq S
  BY <1>2 DEF Range
<1>4. t \in Seq(Range(t))
  BY <1>2 DEF Range
<1>. QED BY <1>3, <1>4 DEF IsSeq, S, t

LEMMA SeqReplaced ==
  ASSUME NEW s, IsSeq(s), NEW k \in DOMAIN s, NEW e
  PROVE  IsSeq([s EXCEPT ![k] = e]) /\ Range([s EXCEPT ![k] = e]) \subseteq Range(s) \cup {e}
<1>. DEFINE t == [s EXCEPT ![k] = e]
<1>1. s \in Seq(Range(s))
  BY DEF IsSeq
<1>2. PICK n \in Nat : DOMAIN s = 1 .. n
  BY <1>1
<1>3. DOMAIN t = 1 .. n
  BY <1>2
<1>4. t = [i \in 1 .. n |-> t[i]]
  BY <1>2
<1>5. \A i \in 1 .. n : t[i] \in Range(t)
  BY <1>3 DEF Range
<1>6. \A i \in 1 .. n : t[i] = IF i = k THEN e ELSE s[i]
  BY <1>2
<1>. HIDE DEF t
<1>7. t \in Seq(Range(t))
  BY <1>4, <1>5
<1>8. Range(t) \subseteq Range(s) \cup {e}
  BY <1>2, <1>3, <1>6 DEF Range
<1>. QED BY <1>7, <1>8 DEF IsSeq, t

----------------------------------------------------------------------------
(* Lists of all that is in a set.                                          *)

\* For any two that differ the pairs say which is the first.
Orders(before, S) ==
  /\ \A x \in S : <<x, x>> \notin before
  /\ \A x, y \in S : x # y => <<x, y>> \in before \/ <<y, x>> \in before
  /\ \A x, y, z \in S : <<x, y>> \in before /\ <<y, z>> \in before => <<x, z>> \in before

\* How many are before one says which it is.
LEMMA Counted ==
  ASSUME NEW S, IsFiniteSet(S), NEW before, Orders(before, S)
  PROVE  \E place \in Bijection(S, 1 .. Cardinality(S)) :
           \A x, y \in S : <<x, y>> \in before => place[x] < place[y]
<1>. DEFINE Before(x) == {y \in S : <<y, x>> \in before}
            n == Cardinality(S)
            place == [x \in S |-> Cardinality(Before(x)) + 1]
<1>1. n \in Nat
  BY FS_CardinalityType
<1>2. ASSUME NEW x \in S
      PROVE  /\ IsFiniteSet(Before(x)) /\ Cardinality(Before(x)) \in Nat
             /\ Cardinality(Before(x)) < n
  <2>1. Before(x) \in SUBSET S /\ x \notin Before(x)
    BY DEF Orders
  <2>. HIDE DEF Before
  <2>2. IsFiniteSet(Before(x)) /\ Cardinality(Before(x)) <= n /\ (n = Cardinality(Before(x)) => S = Before(x))
    BY <2>1, FS_Subset
  <2>3. Cardinality(Before(x)) \in Nat
    BY <2>2, FS_CardinalityType
  <2>. QED BY <1>1, <2>1, <2>2, <2>3
<1>3. ASSUME NEW x \in S, NEW y \in S, <<x, y>> \in before
      PROVE  Cardinality(Before(x)) < Cardinality(Before(y))
  <2>1. Before(x) \in SUBSET Before(y) /\ x \in Before(y) /\ x \notin Before(x)
    BY <1>3 DEF Orders
  <2>. HIDE DEF Before
  <2>2. Cardinality(Before(x)) <= Cardinality(Before(y))
        /\ (Cardinality(Before(y)) = Cardinality(Before(x)) => Before(y) = Before(x))
    BY <1>2, <2>1, FS_Subset
  <2>. QED BY <1>2, <2>1, <2>2
<1>. HIDE DEF Before
<1>4. place \in [S -> 1 .. n]
  <2>. HIDE DEF n
  <2>. QED BY <1>1, <1>2
<1>5. \A x, y \in S : <<x, y>> \in before => place[x] < place[y]
  BY <1>2, <1>3
<1>6. \A x, y \in S : place[x] = place[y] => x = y
  <2>1. \A x \in S : place[x] \in Int
    BY <1>2
  <2>. SUFFICES ASSUME NEW x \in S, NEW y \in S, x # y PROVE place[x] # place[y]
    OBVIOUS
  <2>2. <<x, y>> \in before \/ <<y, x>> \in before
    BY DEF Orders
  <2>. HIDE DEF place
  <2>. QED BY <1>5, <2>1, <2>2
<1>7. place \in Injection(S, 1 .. n)
  <2>. HIDE DEF place, n
  <2>. QED BY <1>4, <1>6 DEF Injection, IsInjective
<1>8. IsFiniteSet(1 .. n) /\ Cardinality(1 .. n) = n
  <2>. HIDE DEF n
  <2>. QED BY <1>1, FS_Interval
<1>9. place \in Surjection(S, 1 .. n)
  <2>. HIDE DEF place
  <2>. QED BY <1>7, <1>8, FS_Injection
<1>10. place \in Bijection(S, 1 .. n)
  <2>. HIDE DEF place
  <2>. QED BY <1>7, <1>9 DEF Bijection
<1>. HIDE DEF place
<1>. QED BY <1>5, <1>10

\* There is a list of them in order, and in any such list each is once.
LEMMA Ordered ==
  ASSUME NEW S, IsFiniteSet(S), NEW before, Orders(before, S)
  PROVE  /\ \E s \in AllOf(S) : \A i, j \in DOMAIN s : i < j => <<s[i], s[j]>> \in before
         /\ \A s \in AllOf(S) : (\A i, j \in DOMAIN s : i < j => <<s[i], s[j]>> \in before) =>
              /\ s \in Seq(S) /\ Range(s) = S
              /\ \A i, j \in DOMAIN s : s[i] = s[j] => i = j
<1>. DEFINE n == Cardinality(S)
<1>1. n \in Nat
  BY FS_CardinalityType
<1>2. \E s \in AllOf(S) : \A i, j \in DOMAIN s : i < j => <<s[i], s[j]>> \in before
  <2>1. PICK place \in Bijection(S, 1 .. n) : \A x, y \in S : <<x, y>> \in before => place[x] < place[y]
    BY Counted
  <2>2. /\ place \in [S -> 1 .. n] /\ \A k \in 1 .. n : \E x \in S : place[x] = k
    BY <2>1 DEF Bijection, Surjection, Injection
  <2>. DEFINE s == [k \in 1 .. n |-> CHOOSE x \in S : place[x] = k]
  <2>3. \A k \in 1 .. n : s[k] \in S /\ place[s[k]] = k
    BY <2>2
  <2>4. s \in AllOf(S) /\ DOMAIN s = 1 .. n
    BY <2>3 DEF AllOf
  <2>. HIDE DEF s, n
  <2>5. ASSUME NEW i \in 1 .. n, NEW j \in 1 .. n, i < j
        PROVE  <<s[i], s[j]>> \in before
    <3>1. s[i] # s[j] /\ ~(place[s[j]] < place[s[i]])
      BY <1>1, <2>3, <2>5
    <3>. QED BY <2>1, <2>3, <3>1 DEF Orders
  <2>. QED BY <2>4, <2>5
<1>3. ASSUME NEW s \in AllOf(S), \A i, j \in DOMAIN s : i < j => <<s[i], s[j]>> \in before
      PROVE  /\ s \in Seq(S) /\ Range(s) = S
             /\ \A i, j \in DOMAIN s : s[i] = s[j] => i = j
  <2>1. s \in [1 .. n -> S] /\ DOMAIN s = 1 .. n
    BY DEF AllOf
  <2>. HIDE DEF n
  <2>2. \A i, j \in 1 .. n : s[i] = s[j] => i = j
    <3>. SUFFICES ASSUME NEW i \in 1 .. n, NEW j \in 1 .. n, i < j PROVE s[i] # s[j]
      BY <1>1
    <3>1. <<s[i], s[j]>> \in before /\ s[i] \in S
      BY <1>3, <2>1
    <3>. QED BY <3>1 DEF Orders
  <2>3. s \in Injection(1 .. n, S)
    BY <2>1, <2>2 DEF Injection, IsInjective
  <2>4. IsFiniteSet(1 .. n) /\ Cardinality(1 .. n) = n
    BY <1>1, FS_Interval
  <2>5. s \in Surjection(1 .. n, S)
    BY <2>3, <2>4, FS_Injection DEF n
  <2>6. Range(s) = S
    BY <2>1, <2>5 DEF Surjection, Range
  <2>. QED BY <1>1, <2>1, <2>2, <2>6
<1>. QED BY <1>2, <1>3

\* A set of numbers that is finite has a greatest one.
LEMMA Greatest ==
  ASSUME NEW S \in SUBSET Int, IsFiniteSet(S), S # {}
  PROVE  Max(S) \in S
<1>. DEFINE before == {xy \in S \X S : xy[1] < xy[2]}
            n == Cardinality(S)
<1>1. Orders(before, S)
  BY DEF Orders
<1>2. n \in Nat /\ n # 0
  BY FS_CardinalityType, FS_EmptySet
<1>3. PICK place \in Bijection(S, 1 .. n) : \A x, y \in S : <<x, y>> \in before => place[x] < place[y]
  <2>. HIDE DEF before
  <2>. QED BY <1>1, Counted
<1>4. place \in [S -> 1 .. n] /\ \E x \in S : place[x] = n
  BY <1>2, <1>3 DEF Bijection, Surjection, Injection
<1>5. PICK x \in S : place[x] = n
  BY <1>4
<1>6. \A y \in S : x >= y
  <2>. SUFFICES ASSUME NEW y \in S, x < y PROVE FALSE
    OBVIOUS
  <2>1. <<x, y>> \in before
    OBVIOUS
  <2>. HIDE DEF before, n
  <2>. QED BY <1>2, <1>3, <1>4, <1>5, <2>1
<1>. QED BY <1>6 DEF Max

(* Induction, over the letters of a word and the words of a search.        *)

\* Of the numbers of a set one is the least.
LEMMA Earliest ==
  ASSUME NEW T \in SUBSET Nat, T # {}
  PROVE  \E x \in T : \A y \in T : x <= y
<1>. DEFINE R == OpToRel(<, Nat)
<1>1. PICK x \in T : \A y \in T : ~ (<<y, x>> \in R)
  BY NatLessThanWellFounded, WFMin
<1>2. ASSUME NEW y \in T, y < x
      PROVE  FALSE
  <2>1. <<y, x>> \in R
    BY <1>2 DEF OpToRel
  <2>. QED BY <1>1, <2>1
<1>. QED BY <1>2

\* A function of 0 .. n can be had by saying what it is at 0, and at i by what it is before.
Recurs(f, n, S, c, G) == f \in [0 .. n -> S] /\ f[0] = c /\ \A i \in 1 .. n : f[i] = G[i][f[i - 1]]

LEMMA ByRecursion ==
  ASSUME NEW n \in Nat, NEW S, NEW c \in S, NEW G \in [1 .. n -> [S -> S]]
  PROVE  \E f : Recurs(f, n, S, c, G)
<1>. DEFINE Upto(m, f) == f[0] = c /\ \A i \in 1 .. m : f[i] = G[i][f[i - 1]]
            T == {m \in 0 .. n : ~ \E f \in [0 .. m -> S] : Upto(m, f)}
<1>1. T = {}
  <2>. SUFFICES ASSUME T # {} PROVE FALSE
    OBVIOUS
  <2>0. T \in SUBSET Nat
    OBVIOUS
  <2>1. PICK m \in T : \A y \in T : m <= y
    BY <2>0, Earliest, Zenon
  <2>2. m # 0
    <3>1. Upto(0, [i \in 0 .. 0 |-> c]) /\ [i \in 0 .. 0 |-> c] \in [0 .. 0 -> S]
      OBVIOUS
    <3>. QED BY <3>1
  <2>3. m \in 1 .. n /\ m - 1 \in 0 .. n
    BY <2>2
  <2>8. m - 1 \notin T
    <3>. HIDE DEF T
    <3>. QED BY <2>1, <2>3
  <2>4. PICK f \in [0 .. m - 1 -> S] : Upto(m - 1, f)
    BY <2>3, <2>8
  <2>. DEFINE g == [i \in 0 .. m |-> IF i = m THEN G[m][f[m - 1]] ELSE f[i]]
  <2>5. G[m][f[m - 1]] \in S
    <3>1. m \in 1 .. n /\ f[m - 1] \in S
      BY <2>2
    <3>. QED BY <3>1
  <2>6. g \in [0 .. m -> S]
    BY <2>5
  <2>7. Upto(m, g)
    BY <2>2, <2>4
  <2>. QED BY <2>1, <2>6, <2>7
<1>2. n \notin T
  BY <1>1
<1>3. PICK f \in [0 .. n -> S] : Upto(n, f)
  BY <1>2
<1>. QED BY <1>3 DEF Recurs

----------------------------------------------------------------------------
LEMMA First ==
  ASSUME NEW T \in SUBSET Nat, T # {}
  PROVE  Min(T) \in T /\ \A y \in T : Min(T) <= y
<1>1. \E x \in T : \A y \in T : x <= y
  BY Earliest
<1>. QED BY <1>1 DEF Min

----------------------------------------------------------------------------
(* Finding the letters of a word.                                          *)

Letters == Seq(Letter)
Match   == {NoMatch} \cup [score : Int, from : Nat \ {0}, run : Nat]

\* A letter found is where one of the places is, and at none after another of them.
LEMMA LetterFound ==
  ASSUME NEW word \in Letters, NEW text \in Letters, NEW start \in 1 .. Len(text), text[start] = word[1],
         NEW i \in 1 .. Len(word), NEW m \in Match
  PROVE  LET places == IF i = 1 THEN {start} ELSE Places(text, word[i], m.from)
             next   == AlignLetter(word, text, start, i, m) IN
         /\ next \in Match
         /\ m = NoMatch \/ places = {} => next = NoMatch
         /\ m # NoMatch /\ places # {} =>
              /\ next.from - 1 \in places /\ text[next.from - 1] = word[i] /\ next.from >= 2
              /\ i > 1 => next.from - 1 >= m.from
              /\ \A at \in places : next.from - 1 <= at
<1>. DEFINE places == IF i = 1 THEN {start} ELSE Places(text, word[i], m.from)
            next   == AlignLetter(word, text, start, i, m)
            at     == Min(places)
            run    == IF at = m.from /\ m.from > 1 THEN m.run + 1 ELSE 0
            bonus  == IF StartsWord(text, at) THEN 8 ELSE 0
            score  == m.score + 10 + 6 * run - Least(at - m.from, 12) + bonus
<1>1. Len(text) \in Nat /\ m.from \in Nat /\ m.run \in Nat /\ m.score \in Int /\ (m # NoMatch => m.from >= 1)
  BY DEF Letters, Match, NoMatch
<1>2. next = IF m = NoMatch \/ places = {} THEN NoMatch ELSE [score |-> score, from |-> at + 1, run |-> run]
  BY DEF AlignLetter
<1>. HIDE DEF next
<1>3. NoMatch \in Match
  BY DEF Match
<1>4. CASE m = NoMatch \/ places = {}
  <2>. HIDE DEF places, score
  <2>1. next = NoMatch
    BY <1>2, <1>4
  <2>. QED BY <1>3, <1>4, <2>1 DEF next, places
<1>5. CASE m # NoMatch /\ places # {}
  <2>1. places \in SUBSET Nat /\ \A p \in places : text[p] = word[i] /\ (i > 1 => p >= m.from)
    BY <1>1 DEF Places
  <2>2. \A p \in places : p >= 1
    <3>1. CASE i = 1
      BY <3>1
    <3>2. CASE i # 1
      <4>1. \A p \in Places(text, word[i], m.from) : p \in m.from .. Len(text)
        BY DEF Places
      <4>2. places = Places(text, word[i], m.from)
        BY <3>2
      <4>. HIDE DEF places
      <4>. QED BY <1>1, <1>5, <4>1, <4>2
    <3>. QED BY <3>1, <3>2
  <2>. HIDE DEF places
  <2>3. at \in places /\ \A p \in places : at <= p
    BY <1>5, <2>1, First
  <2>4. at \in Nat /\ at >= 1
    BY <2>1, <2>2, <2>3
  <2>. HIDE DEF at
  <2>5. run \in Nat /\ bonus \in Int
    <3>1. run \in Nat
      BY <1>1
    <3>2. bonus = 8 \/ bonus = 0
      BY Zenon
    <3>. QED BY <3>1, <3>2
  <2>6. score \in Int
    <3>1. Least(at - m.from, 12) \in Int
      BY <1>1, <2>4 DEF Least
    <3>. HIDE DEF run, bonus
    <3>. QED BY <1>1, <2>4, <2>5, <3>1
  <2>. HIDE DEF score, run
  <2>7. next = [score |-> score, from |-> at + 1, run |-> run]
    BY <1>2, <1>5
  <2>8. next \in Match /\ next.from - 1 = at
    BY <2>4, <2>5, <2>6, <2>7 DEF Match
  <2>9. /\ next.from - 1 \in places /\ text[next.from - 1] = word[i] /\ next.from >= 2
        /\ i > 1 => next.from - 1 >= m.from
        /\ \A p \in places : next.from - 1 <= p
    BY <2>1, <2>3, <2>4, <2>7, <2>8
  <2>. QED BY <1>5, <2>8, <2>9 DEF next, places
<1>. QED BY <1>4, <1>5

\* The letters, one after the other.
LEMMA Aligned ==
  ASSUME NEW word \in Letters, NEW text \in Letters, NEW start \in 1 .. Len(text), text[start] = word[1]
  PROVE  \E m \in [0 .. Len(word) -> Match] :
           /\ m[0] = Unmatched /\ Align(word, text, start) = m[Len(word)]
           /\ \A i \in 1 .. Len(word) : m[i] = AlignLetter(word, text, start, i, m[i - 1])
<1>. DEFINE n == Len(word)
            Step(i, x) == AlignLetter(word, text, start, i, x)
            G == [i \in 1 .. n |-> [x \in Match |-> Step(i, x)]]
            IsLoop(at) == at = [i \in 0 .. n |-> IF i = 0 THEN Unmatched ELSE Step(i, at[i - 1])]
<1>1. n \in Nat /\ Unmatched \in Match
  BY DEF Letters, Unmatched, NoMatch, Match
<1>2. \A i \in 1 .. n, x \in Match : Step(i, x) \in Match
  BY LetterFound
<1>. HIDE DEF Step
<1>3. G \in [1 .. n -> [Match -> Match]] /\ \A i \in 1 .. n, x \in Match : G[i][x] = Step(i, x)
  BY <1>2
<1>. HIDE DEF G, n
<1>4. PICK f : Recurs(f, n, Match, Unmatched, G)
  BY <1>1, <1>3, ByRecursion
<1>5. f \in [0 .. n -> Match] /\ f[0] = Unmatched /\ \A i \in 1 .. n : f[i] = G[i][f[i - 1]]
  BY <1>4 DEF Recurs
<1>6. \A i \in 1 .. n : f[i - 1] \in Match /\ f[i] = Step(i, f[i - 1])
  <2>1. \A i \in 1 .. n : i - 1 \in 0 .. n
    BY <1>1
  <2>. QED BY <1>3, <1>5, <2>1
<1>7. IsLoop(f)
  <2>1. DOMAIN f = 0 .. n /\ f = [i \in 0 .. n |-> f[i]]
    BY <1>5
  <2>2. \A i \in 0 .. n : f[i] = IF i = 0 THEN Unmatched ELSE Step(i, f[i - 1])
    BY <1>1, <1>5, <1>6
  <2>. QED BY <2>1, <2>2
<1>. DEFINE at == CHOOSE x : IsLoop(x)
<1>8. IsLoop(at)
  <2>. HIDE DEF IsLoop
  <2>. QED BY <1>7
<1>9. Align(word, text, start) = at[n]
  BY DEF Align, Step, n
<1>. HIDE DEF at
<1>10. at[0] = Unmatched /\ \A i \in 1 .. n : at[i] = Step(i, at[i - 1])
  BY <1>1, <1>8
<1>. DEFINE T == {i \in 0 .. n : at[i] \notin Match}
<1>11. T = {}
  <2>. SUFFICES ASSUME T # {} PROVE FALSE
    OBVIOUS
  <2>1. PICK i \in T : \A j \in T : i <= j
    <3>1. T \in SUBSET Nat
      BY <1>1
    <3>. HIDE DEF T
    <3>. QED BY <3>1, Earliest
  <2>2. i \in 1 .. n /\ i - 1 \in 0 .. n
    BY <1>1, <1>10
  <2>3. i - 1 \notin T
    <3>. HIDE DEF T
    <3>. QED BY <2>1, <2>2
  <2>. QED BY <1>2, <1>10, <2>2, <2>3
<1>12. at \in [0 .. n -> Match]
  <2>1. \A i \in 0 .. n : at[i] \in Match
    BY <1>11
  <2>2. DOMAIN at = 0 .. n /\ at = [i \in 0 .. n |-> at[i]]
    BY <1>8
  <2>. QED BY <2>1, <2>2
<1>. QED BY <1>9, <1>10, <1>12 DEF Step, n

\* What is aligned spells the word, and no letter of it is found later than it could be.
LEMMA AlignedSpells ==
  ASSUME NEW word \in Letters, word # <<>>, NEW text \in Letters,
         NEW start \in 1 .. Len(text), text[start] = word[1]
  PROVE  /\ Align(word, text, start) \in Match
         /\ Align(word, text, start) # NoMatch => Spells(word, text)
         /\ \A f \in [DOMAIN word -> DOMAIN text] :
              /\ f[1] = start /\ \A i \in DOMAIN word : text[f[i]] = word[i]
              /\ \A i, j \in DOMAIN word : i < j => f[i] < f[j]
              => Align(word, text, start) # NoMatch
<1>. DEFINE n == Len(word)
<1>1. n \in Nat /\ n >= 1 /\ DOMAIN word = 1 .. n /\ Len(text) \in Nat /\ DOMAIN text = 1 .. Len(text)
  BY DEF Letters
<1>2. PICK m \in [0 .. n -> Match] :
        /\ m[0] = Unmatched /\ Align(word, text, start) = m[n]
        /\ \A i \in 1 .. n : m[i] = AlignLetter(word, text, start, i, m[i - 1])
  BY Aligned
<1>. DEFINE places(i) == IF i = 1 THEN {start} ELSE Places(text, word[i], m[i - 1].from)
            at(i) == m[i].from - 1
<1>3. \A i \in 1 .. n : i - 1 \in 0 .. n /\ m[i - 1] \in Match /\ m[i] \in Match
  BY <1>1, <1>2
<1>4. \A i \in 1 .. n :
        /\ m[i - 1] = NoMatch \/ places(i) = {} => m[i] = NoMatch
        /\ m[i - 1] # NoMatch /\ places(i) # {} =>
             /\ at(i) \in places(i) /\ text[at(i)] = word[i] /\ m[i].from >= 2
             /\ i > 1 => at(i) >= m[i - 1].from
             /\ \A k \in places(i) : at(i) <= k
  <2>. TAKE i \in 1 .. n
  <2>. DEFINE before == m[i - 1]
  <2>1. before \in Match /\ m[i] = AlignLetter(word, text, start, i, before)
    BY <1>2, <1>3
  <2>2. places(i) = IF i = 1 THEN {start} ELSE Places(text, word[i], before.from)
    OBVIOUS
  <2>. HIDE DEF before, places
  <2>3. /\ before = NoMatch \/ places(i) = {} => m[i] = NoMatch
        /\ before # NoMatch /\ places(i) # {} =>
             /\ at(i) \in places(i) /\ text[at(i)] = word[i] /\ m[i].from >= 2
             /\ i > 1 => at(i) >= before.from
             /\ \A k \in places(i) : at(i) <= k
    BY <2>1, <2>2, LetterFound
  <2>. QED BY <2>3 DEF before
<1>5. \A i \in 1 .. n : places(i) \subseteq 1 .. Len(text) \/ m[i - 1] = NoMatch
  <2>. SUFFICES ASSUME NEW i \in 1 .. n, m[i - 1] # NoMatch, NEW k \in places(i) PROVE k \in 1 .. Len(text)
    OBVIOUS
  <2>1. m[i - 1].from \in Nat /\ m[i - 1].from >= 1
    BY <1>3 DEF Match
  <2>. QED BY <1>1, <2>1 DEF Places
<1>. HIDE DEF places
<1>6. \A i \in 0 .. n : m[i].from \in Nat
  BY <1>2 DEF Match, NoMatch
<1>7. ASSUME m[n] # NoMatch
      PROVE  Spells(word, text)
  <2>. DEFINE T == {i \in 0 .. n : m[n - i] = NoMatch}
  <2>1. T = {}
    <3>. SUFFICES ASSUME T # {} PROVE FALSE
      OBVIOUS
    <3>1. PICK i \in T : \A j \in T : i <= j
      <4>1. T \in SUBSET Nat
        BY <1>1
      <4>. HIDE DEF T
      <4>. QED BY <4>1, Earliest
    <3>2. i \in 1 .. n /\ i - 1 \in 0 .. n /\ n - i + 1 \in 1 .. n
      <4>1. i # 0
        BY <1>1, <1>7
      <4>. QED BY <1>1, <4>1
    <3>3. i - 1 \notin T
      <4>. HIDE DEF T
      <4>. QED BY <3>1, <3>2
    <3>4. m[n - i + 1] # NoMatch
      <4>1. n - (i - 1) = n - i + 1
        BY <1>1, <3>2
      <4>. QED BY <3>2, <3>3, <4>1
    <3>5. m[n - i] = NoMatch /\ (n - i + 1) - 1 = n - i
      BY <1>1, <3>2
    <3>. QED BY <1>4, <3>2, <3>4, <3>5
  <2>2. ASSUME NEW i \in 0 .. n PROVE m[i] # NoMatch
    <3>1. n - i \in 0 .. n /\ n - (n - i) = i
      BY <1>1
    <3>. QED BY <2>1, <3>1
  <2>. HIDE DEF T
  <2>3. \A i \in 1 .. n : /\ at(i) \in 1 .. Len(text) /\ text[at(i)] = word[i]
                          /\ i > 1 => at(i) > at(i - 1)
    <3>. TAKE i \in 1 .. n
    <3>1. m[i] # NoMatch /\ m[i - 1] # NoMatch
      BY <1>3, <2>2
    <3>2. places(i) # {}
      BY <1>4, <3>1
    <3>3. m[i].from \in Nat /\ m[i - 1].from \in Nat
      BY <1>3, <1>6
    <3>. QED BY <1>4, <1>5, <3>1, <3>2, <3>3
  <2>. DEFINE f == [i \in 1 .. n |-> at(i)]
  <2>4. f \in [1 .. n -> 1 .. Len(text)] /\ \A i \in 1 .. n : text[f[i]] = word[i] /\ (i > 1 => f[i] > f[i - 1])
    BY <1>3, <2>3
  <2>. HIDE DEF f, at
  <2>5. \A i, j \in 1 .. n : i < j => f[i] < f[j]
    <3>. SUFFICES ASSUME NEW i \in 1 .. n, \E j \in 1 .. n : i < j /\ ~(f[i] < f[j]) PROVE FALSE
      OBVIOUS
    <3>. DEFINE U == {j \in 1 .. n : i < j /\ ~(f[i] < f[j])}
    <3>1. PICK j \in U : \A k \in U : j <= k
      <4>1. U \in SUBSET Nat /\ U # {}
        BY <1>1
      <4>. HIDE DEF U
      <4>. QED BY <4>1, Earliest
    <3>2. j \in 1 .. n /\ i < j /\ j - 1 \in 1 .. n /\ j > 1 /\ f[j] > f[j - 1]
      BY <1>1, <2>4
    <3>3. j - 1 \notin U
      <4>. HIDE DEF U
      <4>. QED BY <1>1, <3>1, <3>2
    <3>4. i = j - 1 \/ f[i] < f[j - 1]
      BY <3>2, <3>3
    <3>5. f[i] \in Int /\ f[j] \in Int /\ f[j - 1] \in Int
      <4>1. \A k \in 1 .. n : f[k] \in 1 .. Len(text)
        BY <2>4
      <4>2. \A k \in 1 .. n : f[k] \in Int
        BY <1>1, <4>1
      <4>. HIDE DEF n
      <4>. QED BY <3>2, <4>2
    <3>. QED BY <3>2, <3>4, <3>5
  <2>. QED BY <1>1, <2>4, <2>5 DEF Spells
<1>8. ASSUME NEW f \in [1 .. n -> 1 .. Len(text)], f[1] = start,
             \A i \in 1 .. n : text[f[i]] = word[i], \A i, j \in 1 .. n : i < j => f[i] < f[j]
      PROVE  m[n] # NoMatch
  <2>. DEFINE T == {i \in 1 .. n : ~(m[i] # NoMatch /\ m[i].from <= f[i] + 1)}
  <2>1. T = {}
    <3>. SUFFICES ASSUME T # {} PROVE FALSE
      OBVIOUS
    <3>1. PICK i \in T : \A j \in T : i <= j
      <4>1. T \in SUBSET Nat
        BY <1>1
      <4>. HIDE DEF T
      <4>. QED BY <4>1, Earliest
    <3>2. i \in 1 .. n
      OBVIOUS
    <3>3. m[i - 1] # NoMatch /\ f[i] \in places(i)
      <4>1. CASE i = 1
        BY <1>2, <1>8, <4>1 DEF places, Unmatched, NoMatch
      <4>2. CASE i # 1
        <5>1. i - 1 \in 1 .. n /\ i - 1 < i
          BY <1>1, <3>2, <4>2
        <5>2. i - 1 \notin T
          <6>. HIDE DEF T
          <6>. QED BY <3>1, <3>2, <5>1
        <5>3. m[i - 1] # NoMatch /\ m[i - 1].from <= f[i - 1] + 1
          BY <5>1, <5>2
        <5>4. f[i - 1] < f[i] /\ f[i] \in 1 .. Len(text) /\ f[i - 1] \in Int /\ text[f[i]] = word[i]
          <6>1. \A k \in 1 .. n : f[k] \in 1 .. Len(text)
            BY <1>8
          <6>2. \A k \in 1 .. n : f[k] \in Int
            BY <1>1, <6>1
          <6>3. f[i - 1] < f[i] /\ text[f[i]] = word[i]
            <7>. HIDE DEF n
            <7>. QED BY <1>8, <3>2, <5>1
          <6>. HIDE DEF n
          <6>. QED BY <3>2, <5>1, <6>1, <6>2, <6>3
        <5>5. m[i - 1].from \in Nat
          BY <1>3, <1>6, <3>2
        <5>6. f[i] \in m[i - 1].from .. Len(text)
          BY <1>1, <5>3, <5>4, <5>5
        <5>. QED BY <4>2, <5>3, <5>4, <5>6 DEF places, Places
      <4>. QED BY <4>1, <4>2
    <3>4. at(i) <= f[i] /\ m[i].from >= 2
      BY <1>4, <3>2, <3>3
    <3>5. m[i] # NoMatch
      BY <3>4 DEF NoMatch
    <3>6. m[i].from \in Nat /\ f[i] \in Int
      BY <1>1, <1>6, <1>8, <3>2
    <3>. QED BY <3>4, <3>5, <3>6
  <2>. QED BY <1>1, <2>1
<1>9. m[n] \in Match
  BY <1>1, <1>3
<1>. QED BY <1>1, <1>2, <1>7, <1>8, <1>9

\* A word is found where it is spelled, whichever of its letters are taken first.
LEMMA FuzzyFinds ==
  ASSUME NEW word \in Letters \ {<<>>}, NEW text \in Letters
  PROVE  /\ Fuzzy(word, text) \subseteq Int /\ IsFiniteSet(Fuzzy(word, text))
         /\ Fuzzy(word, text) # {} <=> Spells(word, text)
<1>. DEFINE starts == Places(text, Head(word), 1)
            found  == {Align(word, text, at) : at \in starts} \ {NoMatch}
<1>1. /\ Head(word) = word[1] /\ 1 \in DOMAIN word /\ Len(text) \in Nat
      /\ DOMAIN text = 1 .. Len(text) /\ DOMAIN word \subseteq Nat /\ \A i \in DOMAIN word : i >= 1
  BY DEF Letters
<1>2. starts = {at \in 1 .. Len(text) : text[at] = word[1]}
  BY <1>1 DEF Places
<1>3. \A at \in starts : /\ Align(word, text, at) \in Match
                         /\ Align(word, text, at) # NoMatch => Spells(word, text)
  BY <1>2, AlignedSpells
<1>4. Fuzzy(word, text) = {m.score : m \in found}
  BY DEF Fuzzy
<1>5. IsFiniteSet(starts)
  <2>. HIDE DEF starts
  <2>1. IsFiniteSet(1 .. Len(text))
    BY <1>1, FS_Interval
  <2>2. starts \in SUBSET (1 .. Len(text))
    BY <1>2
  <2>. QED BY <2>1, <2>2, FS_Subset
<1>. HIDE DEF starts
<1>6. Fuzzy(word, text) \subseteq Int /\ IsFiniteSet(Fuzzy(word, text))
  <2>. DEFINE hits == {at \in starts : Align(word, text, at) # NoMatch}
              g == [at \in hits |-> Align(word, text, at).score]
  <2>1. \A at \in hits : Align(word, text, at).score \in Int
    BY <1>3 DEF Match
  <2>2. Fuzzy(word, text) = {Align(word, text, at).score : at \in hits}
    BY <1>4
  <2>3. g \in Surjection(hits, Fuzzy(word, text))
    BY <2>2 DEF Surjection
  <2>4. IsFiniteSet(hits)
    BY <1>5, FS_Subset
  <2>. HIDE DEF g, hits
  <2>. QED BY <2>1, <2>2, <2>3, <2>4, FS_Surjection
<1>7. ASSUME Spells(word, text) PROVE Fuzzy(word, text) # {}
  <2>1. PICK f \in [DOMAIN word -> DOMAIN text] :
          /\ \A i \in DOMAIN word : text[f[i]] = word[i]
          /\ \A i, j \in DOMAIN word : i < j => f[i] < f[j]
    BY <1>7 DEF Spells
  <2>2. f[1] \in 1 .. Len(text) /\ text[f[1]] = word[1]
    BY <1>1, <2>1
  <2>3. Align(word, text, f[1]) # NoMatch
    BY <2>1, <2>2, AlignedSpells
  <2>4. f[1] \in starts
    BY <1>2, <2>2
  <2>5. Align(word, text, f[1]) \in found
    BY <2>3, <2>4
  <2>. HIDE DEF found
  <2>. QED BY <1>4, <2>5
<1>8. ASSUME Fuzzy(word, text) # {} PROVE Spells(word, text)
  BY <1>3, <1>4, <1>8
<1>. QED BY <1>6, <1>7, <1>8

----------------------------------------------------------------------------
(* Searching.                                                              *)

LEMMA TextsAreLetters ==
  ASSUME NEW p \in Pod, NEW n \in View
  PROVE  PodText(p, n) \in Letters /\ Labels[p] \subseteq Letters /\ IsFiniteSet(Labels[p])
<1>1. NsOf[p] \in Namespace /\ NsText \in [Namespace -> Letters] /\ NameText \in [Pod -> Letters]
  BY OperatorPageAssumption DEF Letters
<1>2. NsText[NsOf[p]] \in Letters /\ NameText[p] \in Letters /\ <<"/">> \in Letters
  <2>1. <<"/">> \in Letters
    BY OperatorPageAssumption DEF Letters
  <2>. QED BY <1>1, <2>1
<1>3. NsText[NsOf[p]] \o <<"/">> \o NameText[p] \in Letters
  <2>1. \A s, t \in Letters : s \o t \in Letters
    BY DEF Letters
  <2>2. NsText[NsOf[p]] \o <<"/">> \in Letters
    BY <1>2, <2>1
  <2>. QED BY <1>2, <2>1, <2>2
<1>. QED BY <1>2, <1>3, OperatorPageAssumption DEF PodText, Letters

\* A word scores for a pod whose name or a label of which spells it, and for no other.
LEMMA ScoresFind ==
  ASSUME NEW word \in Letters \ {<<>>}, NEW p \in Pod, NEW n \in View
  PROVE  /\ WordScores(word, p, n) \subseteq Int /\ IsFiniteSet(WordScores(word, p, n))
         /\ WordScores(word, p, n) # {} <=>
              \E text \in {PodText(p, n)} \cup Labels[p] : Spells(word, text)
<1>. DEFINE name == Fuzzy(word, PodText(p, n))
            twice == {2 * s : s \in name}
            labels == {Fuzzy(word, l) : l \in Labels[p]}
<1>1. WordScores(word, p, n) = twice \cup UNION labels
  BY DEF WordScores
<1>2. /\ name \subseteq Int /\ IsFiniteSet(name) /\ (name # {} <=> Spells(word, PodText(p, n)))
      /\ \A l \in Labels[p] : /\ Fuzzy(word, l) \subseteq Int /\ IsFiniteSet(Fuzzy(word, l))
                              /\ Fuzzy(word, l) # {} <=> Spells(word, l)
  BY TextsAreLetters, FuzzyFinds
<1>3. twice \subseteq Int /\ IsFiniteSet(twice)
  <2>. DEFINE g == [s \in name |-> 2 * s]
  <2>1. g \in Surjection(name, twice)
    BY DEF Surjection
  <2>2. twice \subseteq Int
    BY <1>2
  <2>. HIDE DEF g, name, twice
  <2>. QED BY <1>2, <2>1, <2>2, FS_Surjection
<1>4. IsFiniteSet(UNION labels)
  <2>. DEFINE g == [l \in Labels[p] |-> Fuzzy(word, l)]
  <2>1. g \in Surjection(Labels[p], labels)
    BY DEF Surjection
  <2>2. IsFiniteSet(Labels[p])
    BY TextsAreLetters
  <2>3. \A x \in labels : IsFiniteSet(x)
    BY <1>2
  <2>. HIDE DEF g, labels
  <2>4. IsFiniteSet(labels)
    BY <2>1, <2>2, FS_Surjection
  <2>. QED BY <2>3, <2>4, FS_UNION
<1>5. IsFiniteSet(twice \cup UNION labels)
  BY <1>3, <1>4, FS_Union
<1>6. UNION labels \subseteq Int
  BY <1>2
<1>7. twice # {} <=> name # {}
  OBVIOUS
<1>8. UNION labels # {} <=> \E l \in Labels[p] : Fuzzy(word, l) # {}
  OBVIOUS
<1>. HIDE DEF twice, labels, name
<1>. QED BY <1>1, <1>2, <1>3, <1>5, <1>6, <1>7, <1>8

\* What a search scores is a number, and a pod is found by all of its words or not at all.
LEMMA TotalRight ==
  ASSUME NEW q \in Query, NEW p \in Pod, NEW n \in View
  PROVE  /\ Total(q, p, n).score \in Int
         /\ Total(q, p, n).found <=>
              \A i \in DOMAIN Words[q] :
                \E text \in {PodText(p, n)} \cup Labels[p] : Spells(Words[q][i], text)
<1>. DEFINE best(i) == WordScores(Words[q][i], p, n)
            k == Len(Words[q])
            found == \A i \in DOMAIN Words[q] : best(i) # {}
            IsSum(f) == f = [i \in 0 .. k |-> IF i = 0 THEN 0 ELSE f[i - 1] + Max(best(i))]
            sum == CHOOSE f : IsSum(f)
<1>1. /\ Words[q] \in Seq(Letters \ {<<>>}) /\ k \in Nat /\ DOMAIN Words[q] = 1 .. k
      /\ \A i \in 1 .. k : Words[q][i] \in Letters \ {<<>>}
  BY OperatorPageAssumption DEF Letters
<1>2. \A i \in 1 .. k : /\ best(i) \subseteq Int /\ IsFiniteSet(best(i))
                        /\ best(i) # {} <=> \E text \in {PodText(p, n)} \cup Labels[p] : Spells(Words[q][i], text)
  BY <1>1, ScoresFind
<1>3. Total(q, p, n) = [found |-> found, score |-> IF found THEN sum[k] ELSE 0]
  BY DEF Total
<1>4. found <=> \A i \in DOMAIN Words[q] :
                  \E text \in {PodText(p, n)} \cup Labels[p] : Spells(Words[q][i], text)
  BY <1>1, <1>2
<1>5. ASSUME found PROVE sum[k] \in Int
  <2>1. \A i \in 1 .. k : best(i) # {} /\ best(i) \subseteq Int /\ IsFiniteSet(best(i))
    BY <1>1, <1>2, <1>5
  <2>. HIDE DEF best
  <2>2. \A i \in 1 .. k : Max(best(i)) \in Int
    BY <2>1, Greatest
  <2>. DEFINE G == [i \in 1 .. k |-> [x \in Int |-> x + Max(best(i))]]
  <2>3. G \in [1 .. k -> [Int -> Int]] /\ \A i \in 1 .. k, x \in Int : G[i][x] = x + Max(best(i))
    BY <2>2
  <2>. HIDE DEF G, k
  <2>4. PICK f : Recurs(f, k, Int, 0, G)
    <3>1. 0 \in Int /\ k \in Nat
      BY <1>1
    <3>. QED BY <2>3, <3>1, ByRecursion, Zenon
  <2>5. f \in [0 .. k -> Int] /\ f[0] = 0 /\ \A i \in 1 .. k : f[i] = G[i][f[i - 1]]
    BY <2>4 DEF Recurs
  <2>6. \A i \in 1 .. k : f[i - 1] \in Int /\ f[i] = f[i - 1] + Max(best(i))
    <3>1. \A i \in 1 .. k : i - 1 \in 0 .. k
      BY <1>1
    <3>. QED BY <2>3, <2>5, <3>1
  <2>7. IsSum(f)
    <3>1. DOMAIN f = 0 .. k /\ f = [i \in 0 .. k |-> f[i]]
      BY <2>5
    <3>2. \A i \in 0 .. k : f[i] = IF i = 0 THEN 0 ELSE f[i - 1] + Max(best(i))
      BY <1>1, <2>5, <2>6
    <3>. QED BY <3>1, <3>2
  <2>8. IsSum(sum)
    <3>. HIDE DEF IsSum
    <3>. QED BY <2>7
  <2>. HIDE DEF sum
  <2>9. sum[0] = 0 /\ \A i \in 1 .. k : sum[i] = sum[i - 1] + Max(best(i))
    BY <1>1, <2>8
  <2>. DEFINE T == {i \in 0 .. k : sum[i] \notin Int}
  <2>10. T = {}
    <3>. SUFFICES ASSUME T # {} PROVE FALSE
      OBVIOUS
    <3>1. PICK i \in T : \A j \in T : i <= j
      <4>1. T \in SUBSET Nat
        BY <1>1
      <4>. HIDE DEF T
      <4>. QED BY <4>1, Earliest
    <3>2. i \in 1 .. k /\ i - 1 \in 0 .. k
      BY <1>1, <2>9
    <3>3. i - 1 \notin T
      <4>. HIDE DEF T
      <4>. QED BY <3>1, <3>2
    <3>. QED BY <2>2, <2>9, <3>2, <3>3
  <2>. QED BY <1>1, <2>10
<1>. HIDE DEF found, sum, k
<1>. QED BY <1>3, <1>4, <1>5

\* A search finds the pods that spell every word of it.
LEMMA FoundIsSpelled == Found = Spelled
<1>1. ASSUME NEW x \in Query \X View \X Pod PROVE x \in Found <=> x \in Spelled
  <2>1. x[1] \in Query /\ x[2] \in View /\ x[3] \in Pod
    OBVIOUS
  <2>. QED BY <2>1, TotalRight DEF Found, Spelled
<1>. QED BY <1>1 DEF Found, Spelled

LEMMA RankRight ==
  ASSUME NEW T, NEW order \in Seq(T), Range(order) = T
  PROVE  \A x \in T : Rank(x, order) \in Nat /\ order[Rank(x, order)] = x
<1>. TAKE x \in T
<1>1. \E i \in DOMAIN order : order[i] = x
  BY DEF Range
<1>2. DOMAIN order \subseteq Nat
  OBVIOUS
<1>. QED BY <1>1, <1>2 DEF Rank

LEMMA InListOrder ==
  ASSUME NEW T, NEW order \in Seq(T), Range(order) = T
  PROVE  Orders(InOrder(order), T)
<1>1. \A x \in T : Rank(x, order) \in Nat /\ order[Rank(x, order)] = x
  BY RankRight
<1>2. \A x, y \in T : <<x, y>> \in InOrder(order) <=> Rank(x, order) < Rank(y, order)
  BY DEF InOrder
<1>3. \A x, y \in T : x # y => Rank(x, order) # Rank(y, order)
  BY <1>1, Zenon
<1>. QED BY <1>1, <1>2, <1>3 DEF Orders

\* Those that run come first, of them those that score most, of those the first by name.
LEMMA AheadOrders ==
  ASSUME NEW q \in Query, NEW n \in View, NEW S \in SUBSET Row
  PROVE  Orders({ab \in S \X S : <<q, n, ab[1], ab[2]>> \in Ahead}, S)
<1>. DEFINE before == {ab \in S \X S : <<q, n, ab[1], ab[2]>> \in Ahead}
            score(x) == Total(q, x.pod, n).score
            rank(x)  == Rank(x.pod, NameOrder(n))
<1>1. \A x \in S : x.pod \in Pod /\ x.running \in BOOLEAN /\ x \in Row
  BY DEF Row
<1>2. \A x \in S : score(x) \in Int
  BY <1>1, TotalRight
<1>3. \A x \in S : rank(x) \in Nat /\ NameOrder(n)[rank(x)] = x.pod
  <2>1. NameOrder(n) \in Seq(Pod) /\ Range(NameOrder(n)) = Pod
    BY OperatorPageAssumption DEF NameOrder
  <2>. QED BY <1>1, <2>1, RankRight
<1>4. \A x, y \in S : <<x, y>> \in before <=> Above(x, y, q, n)
  BY <1>1 DEF Ahead
<1>5. \A x, y \in S : Above(x, y, q, n) <=>
        IF x.running # y.running THEN x.running
        ELSE IF score(x) # score(y) THEN score(x) > score(y) ELSE rank(x) < rank(y)
  BY DEF Above
<1>. HIDE DEF score, rank, before
<1>6. \A x, y \in S : x.running = y.running /\ rank(x) = rank(y) => x = y
  <2>. TAKE x, y \in S
  <2>1. rank(x) = rank(y) => x.pod = y.pod
    BY <1>3
  <2>. QED BY <1>1, <2>1 DEF Row
<1>7. \A x \in S : <<x, x>> \notin before
  BY <1>2, <1>3, <1>4, <1>5
<1>8. ASSUME NEW x \in S, NEW y \in S, x # y PROVE <<x, y>> \in before \/ <<y, x>> \in before
  <2>1. score(x) \in Int /\ score(y) \in Int /\ rank(x) \in Nat /\ rank(y) \in Nat
    BY <1>2, <1>3
  <2>2. x.running = y.running => rank(x) # rank(y)
    BY <1>6, <1>8
  <2>3. x.running \in BOOLEAN /\ y.running \in BOOLEAN
    BY <1>1
  <2>4. Above(x, y, q, n) \/ Above(y, x, q, n)
    <3>1. CASE x.running # y.running
      BY <1>5, <2>3, <3>1
    <3>2. CASE x.running = y.running /\ score(x) # score(y)
      <4>1. score(x) > score(y) \/ score(y) > score(x)
        BY <2>1, <3>2
      <4>. QED BY <1>5, <3>2, <4>1
    <3>3. CASE x.running = y.running /\ score(x) = score(y)
      <4>1. rank(x) < rank(y) \/ rank(y) < rank(x)
        BY <2>1, <2>2, <3>3
      <4>. QED BY <1>5, <3>3, <4>1
    <3>. QED BY <3>1, <3>2, <3>3
  <2>. QED BY <1>4, <2>4
<1>9. ASSUME NEW x \in S, NEW y \in S, NEW z \in S, <<x, y>> \in before, <<y, z>> \in before
      PROVE  <<x, z>> \in before
  <2>1. /\ score(x) \in Int /\ score(y) \in Int /\ score(z) \in Int
        /\ rank(x) \in Nat /\ rank(y) \in Nat /\ rank(z) \in Nat
    BY <1>2, <1>3
  <2>2. x.running \in BOOLEAN /\ y.running \in BOOLEAN /\ z.running \in BOOLEAN
    BY <1>1
  <2>3. Above(x, y, q, n) /\ Above(y, z, q, n)
    BY <1>4, <1>9
  <2>. HIDE DEF Above
  <2>4. /\ IF x.running # y.running THEN x.running
           ELSE IF score(x) # score(y) THEN score(x) > score(y) ELSE rank(x) < rank(y)
        /\ IF y.running # z.running THEN y.running
           ELSE IF score(y) # score(z) THEN score(y) > score(z) ELSE rank(y) < rank(z)
    BY <1>5, <2>3
  <2>5. IF x.running # z.running THEN x.running
        ELSE IF score(x) # score(z) THEN score(x) > score(z) ELSE rank(x) < rank(z)
    BY <2>1, <2>2, <2>4
  <2>. QED BY <1>4, <1>5, <2>5
<1>. QED BY <1>7, <1>8, <1>9 DEF Orders, before

\* Every pod has one row at most.
Once(rows) == \A i, j \in DOMAIN rows : rows[i].pod = rows[j].pod => i = j

\* The rows a search leaves are those of the pods that spell it, each once, and those that
\* run before the others.
LEMMA SearchRight ==
  ASSUME NEW rows \in Seq(Row), Once(rows), NEW q \in Query, NEW n \in View
  PROVE  LET s == Search(rows, q, n) IN
         /\ s \in Seq(Row) /\ IsInjective(s) /\ Range(s) \subseteq Range(rows)
         /\ Words[q] # <<>> =>
              /\ Range(s) = {r \in Range(rows) : <<q, n, r.pod>> \in Found}
              /\ \A i, j \in DOMAIN s : i < j /\ s[j].running => s[i].running
<1>. DEFINE s == Search(rows, q, n)
            found == {r \in Range(rows) : <<q, n, r.pod>> \in Found}
            before == {ab \in found \X found : <<q, n, ab[1], ab[2]>> \in Ahead}
<1>1. CASE Words[q] = <<>>
  <2>1. s = rows
    BY <1>1 DEF Search
  <2>2. IsInjective(rows)
    BY DEF IsInjective, Once
  <2>. QED BY <1>1, <2>1, <2>2
<1>2. CASE Words[q] # <<>>
  <2>1. found \in SUBSET Row /\ IsFiniteSet(found)
    <3>1. PICK k \in Nat : DOMAIN rows = 1 .. k
      OBVIOUS
    <3>2. IsFiniteSet(1 .. k)
      BY FS_Interval
    <3>3. rows \in Surjection(1 .. k, Range(rows))
      BY <3>1 DEF Surjection, Range
    <3>4. IsFiniteSet(Range(rows))
      BY <3>2, <3>3, FS_Surjection
    <3>5. Range(rows) \subseteq Row
      BY DEF Range
    <3>. QED BY <3>4, <3>5, FS_Subset
  <2>2. Orders(before, found)
    <3>. HIDE DEF found
    <3>. QED BY <2>1, AheadOrders
  <2>3. s = CHOOSE t \in AllOf(found) : \A i, j \in DOMAIN t : i < j => <<q, n, t[i], t[j]>> \in Ahead
    BY <1>2 DEF Search
  <2>. HIDE DEF s, found
  <2>4. \A t \in AllOf(found) : (\A i, j \in DOMAIN t : i < j => <<q, n, t[i], t[j]>> \in Ahead)
                                 <=> \A i, j \in DOMAIN t : i < j => <<t[i], t[j]>> \in before
    BY DEF AllOf
  <2>. HIDE DEF before
  <2>5. \E t \in AllOf(found) : \A i, j \in DOMAIN t : i < j => <<t[i], t[j]>> \in before
    BY <2>1, <2>2, Ordered
  <2>6. s \in AllOf(found) /\ \A i, j \in DOMAIN s : i < j => <<q, n, s[i], s[j]>> \in Ahead
    BY <2>3, <2>4, <2>5
  <2>7. s \in Seq(found) /\ Range(s) = found /\ \A i, j \in DOMAIN s : s[i] = s[j] => i = j
    BY <2>1, <2>2, <2>4, <2>6, Ordered
  <2>8. s \in Seq(Row) /\ IsInjective(s)
    BY <2>1, <2>7 DEF IsInjective
  <2>9. ASSUME NEW i \in DOMAIN s, NEW j \in DOMAIN s, i < j, s[j].running PROVE s[i].running
    <3>1. <<q, n, s[i], s[j]>> \in Ahead /\ s[i] \in Row /\ s[j] \in Row
      BY <2>6, <2>8, <2>9
    <3>2. Above(s[i], s[j], q, n)
      BY <3>1 DEF Ahead
    <3>. QED BY <2>9, <3>1, <3>2 DEF Above, Row
  <2>. QED BY <1>2, <2>7, <2>8, <2>9 DEF found, s
<1>. QED BY <1>1, <1>2

----------------------------------------------------------------------------
(* What a capture is of.                                                   *)

LEMMA PodsFinite == IsFiniteSet(Pod)
<1>1. PodOrder \in Seq(Pod) /\ Range(PodOrder) = Pod
  BY OperatorPageAssumption
<1>2. PICK n \in Nat : DOMAIN PodOrder = 1 .. n
  BY <1>1
<1>3. PodOrder \in Surjection(1 .. n, Pod)
  BY <1>1, <1>2 DEF Surjection, Range
<1>4. IsFiniteSet(1 .. n)
  BY <1>2, FS_Interval
<1>. QED BY <1>3, <1>4, FS_Surjection

\* The namespaces of some pods are no more than the pods.
LEMMA SpacesFinite ==
  ASSUME NEW ps \in SUBSET Pod
  PROVE  IsFiniteSet(Spaces(ps)) /\ IsFiniteSet(ps) /\ Cardinality(ps) \in Nat /\ Cardinality(Spaces(ps)) \in Nat
<1>1. IsFiniteSet(ps)
  BY PodsFinite, FS_Subset
<1>2. [p \in ps |-> NsOf[p]] \in Surjection(ps, Spaces(ps))
  BY DEF Surjection, Spaces
<1>3. IsFiniteSet(Spaces(ps))
  BY <1>1, <1>2, FS_Surjection
<1>. QED BY <1>1, <1>3, FS_CardinalityType

\* The pods a capture, or what is asked for one, was said to be of: all of them are named,
\* there is room for all of them, and where they are in one namespace it is put there, and
\* in all of them otherwise.
Meant(o) ==
  /\ o.meant \subseteq Pod /\ o.names = {NameOf[p] : p \in o.meant}
  /\ o.max \in Nat /\ Cardinality(o.meant) <= o.max
  /\ Cardinality(Spaces(o.meant)) = 1 => ~o.wide /\ Spaces(o.meant) = {o.ns}
  /\ o.meant # {} /\ Cardinality(Spaces(o.meant)) # 1 => o.wide

LEMMA BodyMeant ==
  ASSUME picked \subseteq Pod
  PROVE  Meant(Body)
<1>. DEFINE meant == IF picked # {} THEN picked ELSE Matched(query, shown)
            wide  == Cardinality(Spaces(meant)) > 1 \/ (meant = {} /\ ns = NoNamespace)
            max   == Max({DefaultTargets, Cardinality(meant)})
<1>1. /\ Body.meant = meant /\ Body.names = {NameOf[p] : p \in meant} /\ Body.wide = wide
      /\ Body.max = max
      /\ ~wide /\ meant # {} => Body.ns = CHOOSE n \in Spaces(meant) : TRUE
  BY DEF Body
<1>2. meant \subseteq Pod
  BY DEF Matched, Running
<1>3. /\ Cardinality(meant) \in Nat /\ Cardinality(Spaces(meant)) \in Nat
      /\ IsFiniteSet(Spaces(meant))
  BY <1>2, SpacesFinite
<1>. HIDE DEF meant
<1>4. max \in Nat /\ Cardinality(meant) <= max
  <2>. DEFINE c == Cardinality(meant)  d == DefaultTargets
  <2>1. c \in Nat /\ d \in Nat
    BY <1>3, OperatorPageAssumption
  <2>. HIDE DEF c, d
  <2>2. Max({d, c}) \in {d, c} /\ \A y \in {d, c} : Max({d, c}) >= y
    <3>1. \E x \in {d, c} : \A y \in {d, c} : x >= y
      BY <2>1
    <3>. QED BY <3>1 DEF Max
  <2>. QED BY <2>1, <2>2 DEF c, d
<1>5. ASSUME Cardinality(Spaces(meant)) = 1
      PROVE  ~wide /\ Spaces(meant) = {Body.ns}
  <2>1. PICK n : Spaces(meant) = {n}
    BY <1>3, <1>5, FS_Singleton
  <2>2. meant # {}
    BY <2>1 DEF Spaces
  <2>3. ~wide
    BY <1>5, <2>2
  <2>. QED BY <1>1, <2>1, <2>2, <2>3
<1>6. ASSUME meant # {}, Cardinality(Spaces(meant)) # 1
      PROVE  wide
  <2>1. Spaces(meant) # {}
    BY <1>6 DEF Spaces
  <2>2. Cardinality(Spaces(meant)) # 0
    BY <1>3, <2>1, FS_EmptySet
  <2>. QED BY <1>3, <1>6, <2>2
<1>. QED BY <1>1, <1>2, <1>4, <1>5, <1>6 DEF Meant

\* The controller finds namesakes of what was meant only, and nothing but what was meant
\* when the namespace or the names leave nothing else to find.
LEMMA TargetsNamed ==
  ASSUME NEW o, Meant(o), o.meant # {}
  PROVE  Targets(o) \subseteq {p \in Selects[o.sel] : cluster.phase[p] = "running" /\ Namesake(o, p)}
<1>1. o.names = {NameOf[p] : p \in o.meant} /\ o.names # {}
  BY DEF Meant
<1>. QED BY <1>1 DEF Targets, Namesake

LEMMA TargetsMeant ==
  ASSUME NEW o, Meant(o), o.meant # {},
         \/ Cardinality(Spaces(o.meant)) = 1
         \/ \A p \in Pod : Namesake(o, p) => p \in o.meant
  PROVE  Targets(o) = {p \in o.meant : cluster.phase[p] = "running" /\ p \in Selects[o.sel]}
<1>. DEFINE of == {p \in Pod : /\ cluster.phase[p] = "running"
                               /\ o.wide \/ NsOf[p] = o.ns
                               /\ o.names = {} \/ NameOf[p] \in o.names
                               /\ p \in Selects[o.sel]}
            before(p) == {q \in of : Rank(q, PodOrder) < Rank(p, PodOrder)}
            run == {p \in o.meant : cluster.phase[p] = "running" /\ p \in Selects[o.sel]}
<1>1. Targets(o) = {p \in of : Cardinality(before(p)) < o.max}
  BY DEF Targets
<1>2. /\ o.meant \subseteq Pod /\ o.names = {NameOf[p] : p \in o.meant} /\ o.names # {}
      /\ o.max \in Nat /\ Cardinality(o.meant) <= o.max
  BY DEF Meant
<1>3. \A p, r \in Pod : NsOf[p] = NsOf[r] /\ NameOf[p] = NameOf[r] => p = r
  BY OperatorPageAssumption
<1>5. of = run
  <2>1. CASE Cardinality(Spaces(o.meant)) = 1
    <3>1. ~o.wide /\ \A p \in o.meant : NsOf[p] = o.ns
      BY <2>1 DEF Meant, Spaces
    <3>. QED BY <1>2, <1>3, <3>1
  <2>2. CASE Cardinality(Spaces(o.meant)) # 1
    <3>1. o.wide /\ \A p \in Pod : Namesake(o, p) => p \in o.meant
      BY <2>2 DEF Meant
    <3>2. \A p \in Pod : NameOf[p] \in o.names <=> p \in o.meant
      BY <1>2, <3>1 DEF Namesake
    <3>. QED BY <1>2, <3>1, <3>2
  <2>. QED BY <2>1, <2>2
<1>6. ASSUME NEW p \in of
      PROVE  Cardinality(before(p)) < o.max
  <2>. HIDE DEF of
  <2>1. p \in Pod /\ of \subseteq o.meant
    BY <1>2, <1>5
  <2>2. Rank(p, PodOrder) \in Nat
    <3>1. \E i \in DOMAIN PodOrder : PodOrder[i] = p
      BY <2>1, OperatorPageAssumption DEF Range
    <3>2. DOMAIN PodOrder \subseteq Nat
      BY OperatorPageAssumption
    <3>. QED BY <3>1, <3>2 DEF Rank
  <2>3. before(p) \subseteq o.meant /\ p \notin before(p) /\ p \in o.meant
    BY <2>1, <2>2
  <2>. HIDE DEF before
  <2>4. IsFiniteSet(o.meant)
    BY <1>2, SpacesFinite
  <2>5. Cardinality(before(p)) <= Cardinality(o.meant) /\ before(p) # o.meant
    BY <2>3, <2>4, FS_Subset
  <2>6. Cardinality(before(p)) # Cardinality(o.meant)
    BY <2>3, <2>4, <2>5, FS_Subset
  <2>7. Cardinality(before(p)) \in Nat /\ Cardinality(o.meant) \in Nat
    BY <2>3, <2>4, FS_Subset, FS_CardinalityType
  <2>. QED BY <1>2, <2>5, <2>6, <2>7
<1>. HIDE DEF of, before
<1>. QED BY <1>1, <1>5, <1>6

\* What the API answers has a row at most for every pod, and the Websharks there are.
LEMMA PodsOfRight ==
  ASSUME NEW c, c.phase \in [Pod -> {"running", "stopped", "gone"}], NEW n \in View, NEW sel \in Query
  PROVE  PodsOf(c, n, sel) \in Seq(Row) /\ Once(PodsOf(c, n, sel))
<1>. DEFINE there == {p \in Selects[sel] : c.phase[p] # "gone" /\ n \in {NoNamespace, NsOf[p]}}
            S == {[pod |-> p, running |-> c.phase[p] = "running"] : p \in there}
            s == PodsOf(c, n, sel)
<1>1. s = Listed(S, RowsInOrder)
  BY DEF PodsOf
<1>2. there \subseteq Pod
  BY OperatorPageAssumption
<1>3. S \in SUBSET Row /\ \A x, y \in S : x.pod = y.pod => x = y
  <2>1. ASSUME NEW x \in S
        PROVE  x \in Row /\ x = [pod |-> x.pod, running |-> c.phase[x.pod] = "running"]
    <3>1. PICK p \in there : x = [pod |-> p, running |-> c.phase[p] = "running"]
      OBVIOUS
    <3>2. p \in Pod /\ (c.phase[p] = "running") \in BOOLEAN
      BY <1>2
    <3>3. x.pod = p
      BY <3>1
    <3>. QED BY <3>1, <3>2, <3>3 DEF Row
  <2>. HIDE DEF S
  <2>2. ASSUME NEW x \in S, NEW y \in S, x.pod = y.pod PROVE x = y
    <3>1. /\ x = [pod |-> x.pod, running |-> c.phase[x.pod] = "running"]
          /\ y = [pod |-> y.pod, running |-> c.phase[y.pod] = "running"]
      BY <2>1
    <3>. QED BY <2>2, <3>1
  <2>. QED BY <2>1, <2>2
<1>4. IsFiniteSet(S)
  <2>. DEFINE g == [p \in there |-> [pod |-> p, running |-> c.phase[p] = "running"]]
  <2>1. g \in Surjection(there, S)
    BY DEF Surjection
  <2>2. IsFiniteSet(there)
    BY <1>2, PodsFinite, FS_Subset
  <2>. HIDE DEF g, there, S
  <2>. QED BY <2>1, <2>2, FS_Surjection
<1>. HIDE DEF S, s
<1>5. Orders(RowsInOrder, S)
  <2>1. Orders(InOrder(ListOrder), Pod)
    BY InListOrder, OperatorPageAssumption
  <2>2. \A x, y \in S : <<x, y>> \in RowsInOrder <=> <<x.pod, y.pod>> \in InOrder(ListOrder)
    BY <1>3 DEF RowsInOrder
  <2>3. \A x \in S : x.pod \in Pod
    BY <1>3 DEF Row
  <2>. QED BY <1>3, <2>1, <2>2, <2>3 DEF Orders
<1>6. s \in AllOf(S) /\ \A i, j \in DOMAIN s : i < j => <<s[i], s[j]>> \in RowsInOrder
  BY <1>1, <1>4, <1>5, Ordered DEF Listed
<1>7. s \in Seq(S) /\ \A i, j \in DOMAIN s : s[i] = s[j] => i = j
  BY <1>4, <1>5, <1>6, Ordered
<1>8. s \in Seq(Row)
  BY <1>3, <1>7
<1>9. \A i \in DOMAIN s : s[i] \in S
  BY <1>7
<1>. QED BY <1>3, <1>7, <1>8, <1>9 DEF Once, s

LEMMA SharksOfRight ==
  ASSUME NEW c, c.sharks \subseteq Range(Webshark)
  PROVE  SharksOf(c) \in Seq(Range(Webshark))
<1>. DEFINE S == c.sharks
            s == SharksOf(c)
<1>1. Webshark \in Seq(Range(Webshark))
  BY OperatorPageAssumption
<1>2. IsFiniteSet(S)
  <2>1. PICK k \in Nat : DOMAIN Webshark = 1 .. k
    BY <1>1
  <2>2. IsFiniteSet(1 .. k)
    BY FS_Interval
  <2>3. Webshark \in Surjection(1 .. k, Range(Webshark))
    BY <1>1, <2>1 DEF Surjection, Range
  <2>4. IsFiniteSet(Range(Webshark))
    BY <2>2, <2>3, FS_Surjection
  <2>. QED BY <2>4, FS_Subset
<1>3. Orders(SharksInOrder, S)
  <2>1. Orders(SharksInOrder, Range(Webshark))
    BY <1>1, InListOrder DEF SharksInOrder
  <2>. QED BY <2>1, Zenon DEF Orders
<1>4. s = Listed(S, SharksInOrder)
  BY DEF SharksOf
<1>. HIDE DEF S, s
<1>5. s \in AllOf(S) /\ \A i, j \in DOMAIN s : i < j => <<s[i], s[j]>> \in SharksInOrder
  BY <1>2, <1>3, <1>4, Ordered DEF Listed
<1>6. s \in Seq(S)
  BY <1>2, <1>3, <1>5, Ordered
<1>. QED BY <1>6 DEF S, s

----------------------------------------------------------------------------
(* The invariant.                                                          *)

\* A capture as the cluster has it, a cluster, and the clusters a read may tell of.
IsObject(o) ==
  /\ DOMAIN o = {"there", "paused", "capturing", "ns", "wide", "names", "sel", "max", "meant"}
  /\ o.there = TRUE /\ o.capturing \in BOOLEAN /\ o.paused \in BOOLEAN /\ o.ns \in Namespace
  /\ Meant(o)

IsCluster(c) ==
  /\ DOMAIN c = {"phase", "sharks", "objs"} /\ DOMAIN c.objs = Name
  /\ c.phase \in [Pod -> {"running", "stopped", "gone"}] /\ c.sharks \subseteq Range(Webshark)
  /\ \A n \in Name : c.objs[n] = NoCapture \/ IsObject(c.objs[n])

IsRead(r) ==
  /\ DOMAIN r = {"ns", "sel", "saw"} /\ r.ns \in View /\ r.sel \in Query
  /\ r = NoRequest \/ r.saw # {}
  /\ \A c \in r.saw : IsCluster(c)

IsWrite(w) ==
  /\ DOMAIN w = {"kind", "body", "done"}
  /\ w.kind = "create" => Meant(w.body) /\ w.body.ns \in Namespace
  /\ w.kind = "pause" => w.body.name \in Name /\ w.body.paused \in BOOLEAN
  /\ w.kind = "delete" => w.body.name \in Name

ClusterKept ==
  /\ IsCluster(cluster)
  /\ DOMAIN asked = Asked /\ \A k \in Asked : IsRead(asked[k])
  /\ IsSeq(writes) /\ \A w \in Range(writes) : IsWrite(w)

\* A card that is open is said to be, and one that is said to be shut is not open: what
\* has been painted is what the next painting goes by.
CardsKept ==
  /\ cards \in [Name -> [there : BOOLEAN, open : BOOLEAN, paused : BOOLEAN]]
  /\ folds \in [Name -> {"", "open", "shut"}]
  /\ \A n \in Name : cards[n].there =>
       /\ cards[n].open => folds[n] = "open"
       /\ folds[n] = "shut" => ~cards[n].open

Kept == picked \subseteq Pod /\ ClusterKept /\ CardsKept

\* What is chosen there is to choose from, or was.
Choosing ==
  /\ ns \in View /\ query \in Query /\ listed \in Query
  /\ sharks \in Seq(Range(Webshark))
  /\ webshark \in Range(sharks) \cup {NoWebshark} /\ (sharks # <<>> => webshark # NoWebshark)
  /\ all \in BOOLEAN /\ typing \in BOOLEAN /\ events \in 0 .. MaxEvents

\* The rows painted are what the search leaves of those there are, as the names read in some
\* namespace; and no pod is ticked that was listed as stopped.
Rows ==
  /\ pods \in Seq(Row) /\ Once(pods) /\ picked \cap Stopped(pods) = {}
  /\ \E n \in View : shown = Search(pods, query, n)
  /\ go.take \in 0 .. Cardinality(Pod)

LEMMA NoRequestRead == IsRead(NoRequest)
BY OperatorPageAssumption DEF IsRead, NoRequest, View

LEMMA SelectorIsQuery == ASSUME NEW q \in Query PROVE Selector(q) \in Query
BY OperatorPageAssumption DEF Selector

LEMMA InitKept == Init => Kept
<1>. SUFFICES ASSUME Init PROVE Kept
  OBVIOUS
<1>1. IsCluster(cluster)
  <2>1. PICK s \in Starts :
          cluster = [phase |-> s.phase, sharks |-> Range(Webshark), objs |-> [n \in Name |-> NoCapture]]
    BY DEF Init
  <2>2. s.phase \in [Pod -> {"running", "stopped", "gone"}]
    BY OperatorPageAssumption
  <2>. QED BY <2>1, <2>2 DEF IsCluster
<1>2. DOMAIN asked = Asked /\ \A k \in Asked : IsRead(asked[k])
  <2>1. \A k \in Asked : asked[k] = [ns |-> ns, sel |-> Blank, saw |-> {cluster}] \/ asked[k] = NoRequest
    BY DEF Init
  <2>2. IsRead([ns |-> ns, sel |-> Blank, saw |-> {cluster}]) /\ IsRead(NoRequest)
    <3>1. ns \in View /\ Blank \in Query
      <4>1. PICK t \in Starts : ns = t.ns
        BY DEF Init
      <4>. QED BY <4>1, OperatorPageAssumption DEF View
    <3>. QED BY <1>1, <3>1, NoRequestRead DEF IsRead
  <2>. QED BY <2>1, <2>2 DEF Init
<1>3. IsSeq(writes) /\ \A w \in Range(writes) : IsWrite(w)
  <2>1. writes = <<>>
    BY DEF Init
  <2>2. Range(<<>>) = {}
    BY DEF Range
  <2>3. <<>> \in Seq(Range(<<>>))
    BY <2>2
  <2>. QED BY <2>1, <2>2, <2>3 DEF IsSeq
<1>4. CardsKept
  BY DEF Init, CardsKept, NoCard
<1>5. picked = {}
  BY DEF Init
<1>. QED BY <1>1, <1>2, <1>3, <1>4, <1>5 DEF Kept, ClusterKept

\* Every read that is out may tell of the cluster there is now.
LEMMA Became ==
  ASSUME ClusterKept, NEW c, IsCluster(c), Becomes(c)
  PROVE  IsCluster(cluster') /\ DOMAIN asked' = Asked /\ \A k \in Asked : IsRead(asked'[k])
<1>1. cluster' = c /\ DOMAIN asked' = Asked
  BY DEF Becomes
<1>2. ASSUME NEW k \in Asked
      PROVE  IsRead(asked'[k])
  <2>1. CASE asked[k] = NoRequest
    BY <2>1, NoRequestRead DEF Becomes
  <2>2. CASE asked[k] # NoRequest
    <3>1. asked'[k] = [asked[k] EXCEPT !.saw = asked[k].saw \cup {c}]
      BY <2>2 DEF Becomes
    <3>2. /\ DOMAIN asked[k] = {"ns", "sel", "saw"} /\ \A d \in asked[k].saw : IsCluster(d)
          /\ asked[k].ns \in View /\ asked[k].sel \in Query
      BY DEF ClusterKept, IsRead
    <3>3. /\ DOMAIN asked'[k] = {"ns", "sel", "saw"} /\ asked'[k].saw = asked[k].saw \cup {c}
          /\ asked'[k].ns = asked[k].ns /\ asked'[k].sel = asked[k].sel
      BY <3>1, <3>2
    <3>. QED BY <3>2, <3>3 DEF IsRead
  <2>. QED BY <2>1, <2>2
<1>. QED BY <1>1, <1>2

LEMMA Reads ==
  ASSUME ClusterKept, Choosing, NEW n \in View, Refresh(n)
  PROVE  DOMAIN asked' = Asked /\ \A k \in Asked : IsRead(asked'[k])
<1>1. PICK k \in Asked : asked' = [asked EXCEPT ![k] = [ns |-> n, sel |-> Selector(query), saw |-> {cluster}]]
  BY DEF Refresh
<1>2. IsRead([ns |-> n, sel |-> Selector(query), saw |-> {cluster}])
  BY SelectorIsQuery DEF ClusterKept, Choosing, IsRead
<1>. QED BY <1>1, <1>2 DEF ClusterKept

LEMMA ReadEnds ==
  ASSUME ClusterKept, NEW k \in Asked, asked' = [asked EXCEPT ![k] = NoRequest]
  PROVE  DOMAIN asked' = Asked /\ \A j \in Asked : IsRead(asked'[j])
BY NoRequestRead DEF ClusterKept

\* One capture of the cluster is another's, or gone.
LEMMA ClusterWith ==
  ASSUME NEW c, IsCluster(c), NEW n \in Name, NEW o, o = NoCapture \/ IsObject(o)
  PROVE  IsCluster([c EXCEPT !.objs[n] = o])
<1>. DEFINE d == [c EXCEPT !.objs[n] = o]
<1>1. DOMAIN d = {"phase", "sharks", "objs"} /\ d.objs = [c.objs EXCEPT ![n] = o]
  BY DEF IsCluster
<1>2. /\ DOMAIN d.objs = Name /\ \A m \in Name : d.objs[m] = IF m = n THEN o ELSE c.objs[m]
      /\ d.phase = c.phase /\ d.sharks = c.sharks
  BY <1>1 DEF IsCluster
<1>. HIDE DEF d
<1>3. IsCluster(d)
  BY <1>1, <1>2 DEF IsCluster
<1>. QED BY <1>3 DEF d

LEMMA CreatedObject ==
  ASSUME NEW b, Meant(b), b.ns \in Namespace
  PROVE  IsObject(Created(b))
BY DEF Created, IsObject, Meant

LEMMA ChangedObject ==
  ASSUME NEW o, IsObject(o), NEW v \in BOOLEAN
  PROVE  IsObject([o EXCEPT !.paused = v]) /\ IsObject([o EXCEPT !.capturing = v])
BY DEF IsObject, Meant

----------------------------------------------------------------------------
(* Steps.                                                                  *)

Stays(n) ==
  cards[n].there /\ cards'[n].there /\ (cards[n].open \/ folds[n] = "shut") => cards'[n].open = cards[n].open

\* The cards are painted anew, of the captures of any cluster there has been.
LEMMA Painted ==
  ASSUME CardsKept, NEW c, IsCluster(c), PaintCaptures(c.objs)
  PROVE  CardsKept' /\ \A n \in Name : Stays(n)
<1>. DEFINE objs == c.objs
<1>1. /\ cards' = CardsOf(folds, objs)
      /\ folds' = IF \A n \in Name : objs[n] = NoCapture THEN folds
                  ELSE [n \in Name |-> IF objs[n] = NoCapture THEN ""
                                       ELSE IF Opens(folds, objs[n], n) THEN "open" ELSE folds[n]]
  BY DEF PaintCaptures
<1>2. \A n \in Name : objs[n] = NoCapture \/ IsObject(objs[n])
  BY DEF IsCluster
<1>. HIDE DEF objs
<1>3. \A n \in Name : IsObject(objs[n]) =>
        /\ Opens(folds, objs[n], n) \in BOOLEAN /\ objs[n].paused \in BOOLEAN
        /\ folds[n] # "" => Opens(folds, objs[n], n) = (folds[n] = "open")
  BY DEF Opens, IsObject
<1>4. DOMAIN cards' = Name /\ cards' \in [Name -> [there : BOOLEAN, open : BOOLEAN, paused : BOOLEAN]]
  BY <1>1, <1>2, <1>3 DEF CardsOf, NoCard
<1>5. \A n \in Name :
        \/ objs[n] = NoCapture /\ cards'[n].there = FALSE
        \/ IsObject(objs[n]) /\ objs[n] # NoCapture /\ cards'[n].open = Opens(folds, objs[n], n)
  <2>. TAKE n \in Name
  <2>1. CASE objs[n] = NoCapture
    BY <1>1, <2>1 DEF CardsOf, NoCard
  <2>2. CASE objs[n] # NoCapture
    BY <1>1, <1>2, <2>2 DEF CardsOf
  <2>. QED BY <2>1, <2>2
<1>6. \A n \in Name : objs[n] # NoCapture =>
        folds'[n] = IF Opens(folds, objs[n], n) THEN "open" ELSE folds[n]
  BY <1>1
<1>7. folds' \in [Name -> {"", "open", "shut"}]
  BY <1>1 DEF CardsKept
<1>8. ASSUME NEW n \in Name, cards'[n].there
      PROVE  /\ cards'[n].open => folds'[n] = "open"
             /\ folds'[n] = "shut" => ~cards'[n].open
  <2>1. /\ IsObject(objs[n]) /\ cards'[n].open = Opens(folds, objs[n], n)
        /\ folds'[n] = IF Opens(folds, objs[n], n) THEN "open" ELSE folds[n]
    BY <1>5, <1>6, <1>8
  <2>. QED BY <2>1
<1>9. ASSUME NEW n \in Name PROVE Stays(n)
  <2>. SUFFICES ASSUME cards[n].there, cards'[n].there, cards[n].open \/ folds[n] = "shut"
                PROVE  cards'[n].open = cards[n].open
    BY DEF Stays
  <2>1. cards[n].open \in BOOLEAN /\ (cards[n].open => folds[n] = "open") /\ (folds[n] = "shut" => ~cards[n].open)
    BY DEF CardsKept
  <2>2. cards'[n].open = Opens(folds, objs[n], n) /\ IsObject(objs[n])
    BY <1>5
  <2>3. CASE cards[n].open
    BY <1>3, <2>1, <2>2, <2>3
  <2>4. CASE folds[n] = "shut"
    BY <1>3, <2>1, <2>2, <2>4
  <2>. QED BY <2>3, <2>4
<1>. QED BY <1>4, <1>7, <1>8, <1>9 DEF CardsKept

LEMMA Folded ==
  ASSUME CardsKept, NEW n \in Name, Fold(n)
  PROVE  CardsKept' /\ \A m \in Name : m # n => cards'[m] = cards[m]
<1>1. /\ cards' = [cards EXCEPT ![n].open = ~cards[n].open]
      /\ folds' = [folds EXCEPT ![n] = IF cards[n].open THEN "shut" ELSE "open"]
  BY DEF Fold
<1>2. cards \in [Name -> [there : BOOLEAN, open : BOOLEAN, paused : BOOLEAN]]
      /\ folds \in [Name -> {"", "open", "shut"}]
  BY DEF CardsKept
<1>3. /\ cards' \in [Name -> [there : BOOLEAN, open : BOOLEAN, paused : BOOLEAN]]
      /\ cards'[n].open = ~cards[n].open
      /\ \A m \in Name : m # n => cards'[m] = cards[m]
  BY <1>1, <1>2
<1>4. /\ folds' \in [Name -> {"", "open", "shut"}]
      /\ folds'[n] = IF cards[n].open THEN "shut" ELSE "open"
      /\ \A m \in Name : m # n => folds'[m] = folds[m]
  BY <1>1, <1>2
<1>5. \A m \in Name : cards'[m].there =>
        /\ cards'[m].open => folds'[m] = "open"
        /\ folds'[m] = "shut" => ~cards'[m].open
  <2>. TAKE m \in Name
  <2>1. CASE m = n
    BY <1>3, <1>4, <2>1
  <2>2. CASE m # n
    BY <1>3, <1>4, <2>2 DEF CardsKept
  <2>. QED BY <2>1, <2>2
<1>. QED BY <1>3, <1>4, <1>5 DEF CardsKept

\* A write is asked for.
LEMMA WriteKept ==
  ASSUME Kept, NEW w, IsWrite(w), Write(w)
  PROVE  Kept'
<1>1. IsSeq(writes') /\ Range(writes') \subseteq Range(writes) \cup {w}
  BY SeqAppended DEF Kept, ClusterKept, Write
<1>2. UNCHANGED <<cluster, asked, picked, cards, folds>>
  BY DEF Write, userVars, cardVars
<1>3. ClusterKept'
  BY <1>1, <1>2 DEF Kept, ClusterKept, IsCluster, IsRead, IsWrite
<1>4. CardsKept'
  BY <1>2 DEF Kept, CardsKept
<1>. QED BY <1>2, <1>3, <1>4 DEF Kept

\* A capture is put in a namespace, or nowhere.
LEMMA BodySpace ==
  ASSUME picked \subseteq Pod, Choosing
  PROVE  Body.ns \in View
<1>. DEFINE meant == IF picked # {} THEN picked ELSE Matched(query, shown)
            wide  == Cardinality(Spaces(meant)) > 1 \/ (meant = {} /\ ns = NoNamespace)
<1>1. Body.ns = IF wide THEN (IF webshark # NoWebshark THEN WsOf[webshark]
                              ELSE IF meant = {} THEN NoNamespace ELSE CHOOSE n \in Spaces(meant) : TRUE)
                ELSE IF meant # {} THEN CHOOSE n \in Spaces(meant) : TRUE ELSE ns
  BY DEF Body
<1>2. meant \subseteq Pod
  BY DEF Matched, Running
<1>. HIDE DEF meant, wide
<1>3. meant # {} => (CHOOSE n \in Spaces(meant) : TRUE) \in Namespace
  <2>1. Spaces(meant) \subseteq Namespace /\ (meant # {} => Spaces(meant) # {})
    BY <1>2, OperatorPageAssumption DEF Spaces
  <2>. QED BY <2>1
<1>4. webshark # NoWebshark => WsOf[webshark] \in Namespace
  <2>. SUFFICES ASSUME webshark # NoWebshark PROVE WsOf[webshark] \in Namespace
    OBVIOUS
  <2>1. webshark \in Range(Webshark)
    BY DEF Choosing, Range
  <2>2. PICK i \in DOMAIN Webshark : Webshark[i] = webshark
    BY <2>1 DEF Range
  <2>. QED BY <2>2, OperatorPageAssumption
<1>. QED BY <1>1, <1>3, <1>4 DEF View, Choosing

LEMMA SubmitKept ==
  ASSUME Kept, Choosing, Submit \/ \E n \in Name : Pause(n) \/ Delete(n)
  PROVE  Kept'
<1>1. CASE Submit
  <2>1. IsWrite([kind |-> "create", body |-> Body, done |-> FALSE])
    <3>1. Meant(Body) /\ Body.ns \in View
      BY BodyMeant, BodySpace DEF Kept
    <3>2. Body.ns \in Namespace
      <4>1. Body.ns # NoNamespace
        BY <1>1 DEF Submit
      <4>. HIDE DEF Body
      <4>. QED BY <3>1, <4>1 DEF View
    <3>. HIDE DEF Body
    <3>. QED BY <3>1, <3>2 DEF IsWrite
  <2>. QED BY <1>1, <2>1, WriteKept DEF Submit
<1>2. ASSUME NEW n \in Name, Pause(n) PROVE Kept'
  <2>1. cards[n].paused \in BOOLEAN
    BY DEF Kept, CardsKept
  <2>2. IsWrite([kind |-> "pause", body |-> [name |-> n, paused |-> ~cards[n].paused], done |-> FALSE])
    BY <2>1 DEF IsWrite
  <2>. QED BY <1>2, <2>2, WriteKept DEF Pause
<1>3. ASSUME NEW n \in Name, Delete(n) PROVE Kept'
  <2>1. IsWrite([kind |-> "delete", body |-> [name |-> n], done |-> FALSE])
    BY DEF IsWrite
  <2>. QED BY <1>3, <2>1, WriteKept DEF Delete
<1>. QED BY <1>1, <1>2, <1>3

\* The server does what it is asked: a capture is made, paused or resumed, or deleted.
LEMMA CarryOutKept ==
  ASSUME Kept, NEW i \in DOMAIN writes, CarryOut(i)
  PROVE  Kept'
<1>. DEFINE w == writes[i]
<1>1. w \in Range(writes) /\ IsWrite(w) /\ IsCluster(cluster) /\ ClusterKept
  BY DEF Kept, ClusterKept, Range
<1>. DEFINE done == [w EXCEPT !.done = TRUE]
<1>2. IsSeq(writes') /\ \A x \in Range(writes') : IsWrite(x)
  <2>1. IsWrite(done)
    BY <1>1 DEF IsWrite
  <2>2. writes' = [writes EXCEPT ![i] = done]
    BY DEF CarryOut
  <2>3. IsSeq(writes)
    BY DEF Kept, ClusterKept
  <2>. HIDE DEF done
  <2>4. IsSeq(writes') /\ Range(writes') \subseteq Range(writes) \cup {done}
    BY <2>2, <2>3, SeqReplaced
  <2>. QED BY <2>1, <2>4 DEF Kept, ClusterKept
<1>3. PICK n, o :
        n \in Name /\ (o = NoCapture \/ IsObject(o)) /\ Becomes([cluster EXCEPT !.objs[n] = o])
  <2>1. CASE w.kind = "create"
    <3>1. PICK n \in Name : Becomes([cluster EXCEPT !.objs[n] = Created(w.body)])
      BY <2>1 DEF CarryOut
    <3>2. IsObject(Created(w.body))
      BY <1>1, <2>1, CreatedObject DEF IsWrite
    <3>. QED BY <3>1, <3>2
  <2>2. CASE w.kind = "pause"
    <3>. DEFINE n == w.body.name  v == w.body.paused  o == [cluster.objs[n] EXCEPT !.paused = v]
    <3>1. n \in Name /\ v \in BOOLEAN /\ cluster.objs[n] # NoCapture
      BY <1>1, <2>2 DEF IsWrite, CarryOut
    <3>2. IsObject(cluster.objs[n])
      BY <1>1, <3>1 DEF IsCluster
    <3>3. IsObject(o)
      BY <3>1, <3>2, ChangedObject
    <3>4. Becomes([cluster EXCEPT !.objs[n].paused = v])
      BY <2>2 DEF CarryOut
    <3>5. [cluster EXCEPT !.objs[n].paused = v] = [cluster EXCEPT !.objs[n] = o]
      OBVIOUS
    <3>. HIDE DEF o, n, v
    <3>. QED BY <3>1, <3>3, <3>4, <3>5
  <2>3. CASE w.kind = "delete"
    <3>1. w.body.name \in Name /\ Becomes([cluster EXCEPT !.objs[w.body.name] = NoCapture])
      BY <1>1, <2>3 DEF IsWrite, CarryOut
    <3>. QED BY <3>1
  <2>. QED BY <2>1, <2>2, <2>3 DEF CarryOut
<1>4. IsCluster([cluster EXCEPT !.objs[n] = o])
  BY <1>1, <1>3, ClusterWith
<1>5. IsCluster(cluster') /\ DOMAIN asked' = Asked /\ \A k \in Asked : IsRead(asked'[k])
  BY <1>1, <1>3, <1>4, Became
<1>6. UNCHANGED <<picked, cards, folds>>
  BY DEF CarryOut, userVars, cardVars
<1>7. CardsKept'
  BY <1>6 DEF Kept, CardsKept
<1>8. ClusterKept'
  BY <1>2, <1>5 DEF ClusterKept, IsRead, IsWrite, IsCluster
<1>. QED BY <1>6, <1>7, <1>8 DEF Kept

\* The cluster goes its own way, and its captures are of what they were.
LEMMA ChangesKept ==
  ASSUME Kept, Changes
  PROVE  Kept'
<1>1. ClusterKept /\ IsCluster(cluster)
  BY DEF Kept, ClusterKept
<1>2. PICK c : IsCluster(c) /\ Becomes(c)
  <2>1. ASSUME NEW p \in Pod, PodChanges(p) PROVE \E c : IsCluster(c) /\ Becomes(c)
    <3>1. PICK to \in {"running", "stopped", "gone"} : Becomes([cluster EXCEPT !.phase[p] = to])
      BY <2>1 DEF PodChanges
    <3>2. IsCluster([cluster EXCEPT !.phase[p] = to])
      BY <1>1, <3>1 DEF IsCluster
    <3>. QED BY <3>1, <3>2
  <2>2. ASSUME NEW w \in Range(Webshark), SharkChanges(w) PROVE \E c : IsCluster(c) /\ Becomes(c)
    <3>. DEFINE sh == IF w \in cluster.sharks THEN cluster.sharks \ {w} ELSE cluster.sharks \cup {w}
    <3>1. Becomes([cluster EXCEPT !.sharks = sh])
      BY <2>2 DEF SharkChanges
    <3>2. sh \subseteq Range(Webshark)
      BY <1>1 DEF IsCluster
    <3>. HIDE DEF sh
    <3>3. IsCluster([cluster EXCEPT !.sharks = sh])
      BY <1>1, <3>2 DEF IsCluster
    <3>. QED BY <3>1, <3>3
  <2>3. ASSUME NEW n \in Name, CaptureChanges(n) PROVE \E c : IsCluster(c) /\ Becomes(c)
    <3>. DEFINE v == ~cluster.objs[n].capturing  o == [cluster.objs[n] EXCEPT !.capturing = v]
    <3>1. IsObject(cluster.objs[n])
      BY <1>1, <2>3 DEF IsCluster, CaptureChanges
    <3>2. v \in BOOLEAN
      BY <3>1 DEF IsObject
    <3>3. IsObject(o)
      BY <3>1, <3>2, ChangedObject
    <3>4. Becomes([cluster EXCEPT !.objs[n] = o])
      BY <2>3 DEF CaptureChanges
    <3>. HIDE DEF o
    <3>5. IsCluster([cluster EXCEPT !.objs[n] = o])
      BY <1>1, <3>3, ClusterWith
    <3>. QED BY <3>4, <3>5
  <2>. QED BY <2>1, <2>2, <2>3 DEF Changes
<1>3. IsCluster(cluster') /\ DOMAIN asked' = Asked /\ \A k \in Asked : IsRead(asked'[k])
  BY <1>1, <1>2, Became
<1>4. UNCHANGED <<picked, cards, folds, writes>>
  BY DEF Changes, userVars, cardVars
<1>5. CardsKept'
  BY <1>4 DEF Kept, CardsKept
<1>6. ClusterKept'
  BY <1>1, <1>3, <1>4 DEF ClusterKept, IsRead, IsWrite, IsCluster
<1>. QED BY <1>4, <1>5, <1>6 DEF Kept

\* What neither paints the cards nor folds one, and changes nothing in the cluster.
LEMMA TicksKept ==
  ASSUME Kept, picked' \subseteq Pod, UNCHANGED <<cluster, writes, cardVars>>,
         DOMAIN asked' = Asked /\ \A k \in Asked : IsRead(asked'[k])
  PROVE  Kept'
<1>1. CardsKept'
  BY DEF Kept, CardsKept, cardVars
<1>2. ClusterKept'
  BY DEF Kept, ClusterKept, IsRead, IsWrite, IsCluster
<1>. QED BY <1>1, <1>2 DEF Kept

LEMMA ArrivesKept ==
  ASSUME Kept, NEW k \in Asked, RefreshArrives(k)
  PROVE  Kept' /\ \A n \in Name : Stays(n)
<1>1. asked' = [asked EXCEPT ![k] = NoRequest] /\ UNCHANGED <<cluster, writes>>
  BY DEF RefreshArrives
<1>2. picked' \subseteq Pod
  BY DEF RefreshArrives, PaintPods, Kept
<1>3. PICK c \in asked[k].saw : PaintCaptures(c.objs)
  BY DEF RefreshArrives
<1>4. IsCluster(c) /\ CardsKept
  BY DEF Kept, ClusterKept, IsRead
<1>5. CardsKept' /\ \A n \in Name : Stays(n)
  BY <1>3, <1>4, Painted
<1>6. DOMAIN asked' = Asked /\ \A j \in Asked : IsRead(asked'[j])
  BY <1>1, ReadEnds DEF Kept
<1>7. ClusterKept'
  BY <1>1, <1>6 DEF Kept, ClusterKept, IsRead, IsWrite, IsCluster
<1>. QED BY <1>2, <1>5, <1>7 DEF Kept

LEMMA OtherKept ==
  ASSUME Kept, Choosing,
         \/ Poll \/ Typed \/ TickAll \/ UNCHANGED vars
         \/ \E k \in Asked : RefreshFails(k)
         \/ \E q \in Query : Type(q)
         \/ \E n \in View : ChangeNamespace(n)
         \/ \E w \in Range(Webshark) : ChooseWebshark(w)
         \/ \E p \in Pod : Tick(p)
  PROVE  Kept'
<1>0. picked \subseteq Pod /\ ClusterKept /\ ns \in View
  BY DEF Kept, Choosing
<1>. DEFINE Asks == DOMAIN asked' = Asked /\ \A k \in Asked : IsRead(asked'[k])
<1>1. CASE Poll \/ Typed
  <2>1. Asks
    BY <1>0, <1>1, Reads DEF Poll, Typed
  <2>. QED BY <1>0, <1>1, <2>1, TicksKept DEF Poll, Typed, userVars
<1>2. CASE \E n \in View : ChangeNamespace(n)
  <2>1. Asks
    BY <1>0, <1>2, Reads DEF ChangeNamespace
  <2>2. picked' \subseteq Pod
    BY <1>2 DEF ChangeNamespace
  <2>. QED BY <1>2, <2>1, <2>2, TicksKept DEF ChangeNamespace
<1>3. CASE \E k \in Asked : RefreshFails(k)
  <2>1. Asks
    BY <1>0, <1>3, ReadEnds DEF RefreshFails
  <2>. QED BY <1>0, <1>3, <2>1, TicksKept DEF RefreshFails, userVars
<1>4. CASE UNCHANGED asked
  <2>1. Asks
    BY <1>0, <1>4 DEF ClusterKept, IsRead, IsCluster
  <2>2. CASE TickAll
    <3>1. picked' \subseteq Pod
      BY <1>0, <2>2 DEF TickAll, PaintPods, Running
    <3>. QED BY <2>1, <2>2, <3>1, TicksKept DEF TickAll
  <2>3. CASE \E q \in Query : Type(q)
    <3>1. picked' \subseteq Pod
      BY <1>0, <2>3 DEF Type, PaintPods
    <3>. QED BY <2>1, <2>3, <3>1, TicksKept DEF Type
  <2>4. CASE \E w \in Range(Webshark) : ChooseWebshark(w)
    BY <1>0, <2>1, <2>4, TicksKept DEF ChooseWebshark
  <2>5. CASE \E p \in Pod : Tick(p)
    <3>1. picked' \subseteq Pod
      BY <1>0, <2>5 DEF Tick
    <3>. QED BY <2>1, <2>5, <3>1, TicksKept DEF Tick
  <2>6. CASE UNCHANGED vars
    <3>1. UNCHANGED <<picked, cluster, writes, cardVars>>
      BY <2>6 DEF vars, userVars
    <3>. QED BY <1>0, <2>1, <3>1, TicksKept
  <2>7. CASE Poll \/ Typed
    BY <1>1, <2>7
  <2>8. CASE \/ \E n \in View : ChangeNamespace(n)
             \/ \E k \in Asked : RefreshFails(k)
    BY <1>2, <1>3, <2>8
  <2>. QED BY <2>2, <2>3, <2>4, <2>5, <2>6, <2>7, <2>8
<1>5. CASE \/ TickAll \/ UNCHANGED vars
           \/ \E q \in Query : Type(q)
           \/ \E w \in Range(Webshark) : ChooseWebshark(w)
           \/ \E p \in Pod : Tick(p)
  BY <1>4, <1>5 DEF TickAll, Type, ChooseWebshark, Tick, vars
<1>. QED BY <1>1, <1>2, <1>3, <1>5

LEMMA AnsweredKept ==
  ASSUME Kept, Choosing, NEW i \in DOMAIN writes, Answered(i) \/ Fails(i)
  PROVE  Kept'
<1>1. IsSeq(writes') /\ Range(writes') \subseteq Range(writes)
  BY SeqRemoved DEF Kept, ClusterKept, Answered, Fails
<1>2. DOMAIN asked' = Asked /\ \A k \in Asked : IsRead(asked'[k])
  <2>1. CASE Answered(i)
    <3>1. ns \in View /\ ClusterKept /\ Refresh(ns)
      BY <2>1 DEF Answered, Kept, Choosing
    <3>. QED BY <3>1, Reads
  <2>2. CASE Fails(i)
    BY <2>2 DEF Fails, Kept, ClusterKept, IsRead, IsCluster
  <2>. QED BY <2>1, <2>2
<1>3. UNCHANGED <<cluster, cards, folds>> /\ picked' \subseteq Pod
  BY DEF Answered, Fails, userVars, cardVars, Kept
<1>4. ClusterKept'
  BY <1>1, <1>2, <1>3 DEF Kept, ClusterKept, IsRead, IsWrite, IsCluster
<1>5. CardsKept'
  BY <1>3 DEF Kept, CardsKept
<1>. QED BY <1>3, <1>4, <1>5 DEF Kept

LEMMA FoldKept ==
  ASSUME Kept, NEW n \in Name, Fold(n)
  PROVE  Kept' /\ \A m \in Name : Stays(m) \/ Fold(m)
<1>1. CardsKept' /\ \A m \in Name : m # n => cards'[m] = cards[m]
  BY Folded DEF Kept
<1>2. UNCHANGED <<picked, cluster, writes, asked>>
  BY DEF Fold, userVars
<1>3. ClusterKept'
  BY <1>2 DEF Kept, ClusterKept, IsRead, IsWrite, IsCluster
<1>. QED BY <1>1, <1>2, <1>3 DEF Kept, Stays

LEMMA NextKept == Kept /\ Choosing /\ [Next]_vars => Kept'
<1>. SUFFICES ASSUME Kept, Choosing, [Next]_vars PROVE Kept'
  OBVIOUS
<1>1. CASE User
  BY <1>1, OtherKept, SubmitKept, FoldKept DEF User
<1>2. CASE \E k \in Asked : RefreshArrives(k) \/ RefreshFails(k)
  BY <1>2, ArrivesKept, OtherKept
<1>3. CASE \E i \in DOMAIN writes : CarryOut(i) \/ Answered(i) \/ Fails(i)
  BY <1>3, CarryOutKept, AnsweredKept
<1>4. CASE Changes
  BY <1>4, ChangesKept
<1>5. CASE Poll \/ Typed \/ UNCHANGED vars
  BY <1>5, OtherKept
<1>. QED BY <1>1, <1>2, <1>3, <1>4, <1>5 DEF Next

LEMMA InitChoosing == Init => Choosing
<1>. SUFFICES ASSUME Init PROVE Choosing
  OBVIOUS
<1>1. PICK s \in Starts : ns = s.ns
  BY DEF Init
<1>2. ns \in View
  BY <1>1, OperatorPageAssumption DEF View
<1>3. <<>> \in Seq(Range(Webshark))
  OBVIOUS
<1>4. Blank \in Query /\ 0 \in 0 .. MaxEvents
  BY OperatorPageAssumption
<1>. QED BY <1>2, <1>3, <1>4 DEF Init, Choosing

\* One of those listed is chosen while any is.
LEMMA ChosenIsListed ==
  ASSUME NEW ws \in Seq(Range(Webshark))
  PROVE  Chosen(ws) \in Range(ws) \cup {NoWebshark} /\ (ws # <<>> => Chosen(ws) # NoWebshark)
<1>1. NoWebshark \notin Range(Webshark)
  BY OperatorPageAssumption
<1>2. Range(ws) \subseteq Range(Webshark)
  <2>. DEFINE W == Range(Webshark)
  <2>. HIDE DEF W
  <2>1. ws \in Seq(W) => Range(ws) \subseteq W
    BY DEF Range
  <2>. QED BY <2>1 DEF W
<1>3. ws # <<>> => Head(ws) \in Range(ws)
  <2>. DEFINE W == Range(Webshark)
  <2>. HIDE DEF W
  <2>1. ws \in Seq(W) /\ ws # <<>> => 1 \in DOMAIN ws /\ Head(ws) = ws[1]
    OBVIOUS
  <2>. QED BY <2>1 DEF Range, W
<1>. QED BY <1>1, <1>2, <1>3 DEF Chosen

LEMMA ArrivesChoosing ==
  ASSUME Kept, Choosing, NEW k \in Asked, RefreshArrives(k)
  PROVE  Choosing'
<1>1. PICK c \in asked[k].saw : sharks' = SharksOf(c)
  BY DEF RefreshArrives
<1>2. IsCluster(c) /\ asked[k].sel \in Query
  BY DEF Kept, ClusterKept, IsRead
<1>3. sharks' \in Seq(Range(Webshark))
  BY <1>1, <1>2, SharksOfRight DEF IsCluster
<1>4. /\ listed' = asked[k].sel /\ all' = FALSE /\ webshark' = Chosen(sharks')
      /\ UNCHANGED <<ns, query, typing, events>>
  BY DEF RefreshArrives
<1>5. webshark' \in Range(sharks') \cup {NoWebshark} /\ (sharks' # <<>> => webshark' # NoWebshark)
  BY <1>3, <1>4, ChosenIsListed
<1>. QED BY <1>2, <1>3, <1>4, <1>5 DEF Choosing

\* What neither lists nor chooses anew.
LEMMA TypedChoosing ==
  ASSUME Choosing, UNCHANGED <<listed, sharks>>,
         ns' \in View, query' \in Query, all' \in BOOLEAN, typing' \in BOOLEAN, events' \in 0 .. MaxEvents,
         webshark' = webshark \/ webshark' \in Range(sharks)
  PROVE  Choosing'
<1>1. Range(sharks) \subseteq Range(Webshark) /\ NoWebshark \notin Range(Webshark)
  <2>. DEFINE W == Range(Webshark)
  <2>1. sharks \in Seq(W)
    BY DEF Choosing
  <2>. HIDE DEF W
  <2>2. Range(sharks) \subseteq W
    BY <2>1 DEF Range
  <2>. QED BY <2>2, OperatorPageAssumption DEF W
<1>2. webshark' \in Range(sharks) \cup {NoWebshark} /\ (sharks # <<>> => webshark' # NoWebshark)
  BY <1>1 DEF Choosing
<1>. QED BY <1>2 DEF Choosing

LEMMA NextChoosing == Kept /\ Choosing /\ [Next]_vars => Choosing'
<1>. SUFFICES ASSUME Kept, Choosing, [Next]_vars PROVE Choosing'
  OBVIOUS
<1>0. /\ ns \in View /\ query \in Query /\ all \in BOOLEAN /\ typing \in BOOLEAN
      /\ events \in 0 .. MaxEvents /\ MaxEvents \in Nat
  BY OperatorPageAssumption DEF Choosing
<1>1. Act => events' \in 0 .. MaxEvents
  BY <1>0 DEF Act
<1>2. CASE \E q \in Query : Type(q)
  <2>1. PICK q \in Query : Type(q)
    BY <1>2
  <2>2. typing' \in BOOLEAN
    BY <2>1, <1>0, Zenon DEF Type
  <2>. QED BY <2>1, <2>2, <1>0, <1>1, TypedChoosing DEF Type
<1>3. CASE \E n \in View : ChangeNamespace(n)
  BY <1>3, <1>0, <1>1, TypedChoosing DEF ChangeNamespace, listVars
<1>4. CASE \E w \in Range(Webshark) : ChooseWebshark(w)
  BY <1>4, <1>0, <1>1, TypedChoosing DEF ChooseWebshark, listVars
<1>5. CASE \E p \in Pod : Tick(p)
  BY <1>5, <1>0, <1>1, TypedChoosing DEF Tick, listVars
<1>6. CASE TickAll
  BY <1>6, <1>0, <1>1, TypedChoosing DEF TickAll, listVars
<1>7. CASE \E n \in Name : Fold(n)
  BY <1>7, <1>0, <1>1, TypedChoosing DEF Fold, userVars, listVars
<1>8. CASE Submit \/ \E n \in Name : Pause(n) \/ Delete(n)
  BY <1>8, <1>0, <1>1, TypedChoosing DEF Submit, Pause, Delete, Write, userVars, listVars
<1>9. CASE Typed
  BY <1>9, <1>0, TypedChoosing DEF Typed, userVars, listVars
<1>10. CASE Poll \/ \E k \in Asked : RefreshFails(k)
  BY <1>10, <1>0, TypedChoosing DEF Poll, RefreshFails, userVars, listVars
<1>11. CASE \E k \in Asked : RefreshArrives(k)
  BY <1>11, ArrivesChoosing
<1>12. CASE \E i \in DOMAIN writes : CarryOut(i) \/ Answered(i) \/ Fails(i)
  BY <1>12, <1>0, TypedChoosing DEF CarryOut, Answered, Fails, userVars, listVars
<1>13. CASE Changes
  BY <1>13, <1>0, <1>1, TypedChoosing DEF Changes, userVars, listVars
<1>14. CASE UNCHANGED vars
  BY <1>14, <1>0, TypedChoosing DEF vars, userVars, listVars
<1>. QED BY <1>2, <1>3, <1>4, <1>5, <1>6, <1>7, <1>8, <1>9, <1>10, <1>11, <1>12, <1>13, <1>14 DEF Next, User

LEMMA SpecKept == Spec => [](Kept /\ Choosing)
<1>1. Init => Kept /\ Choosing
  BY InitKept, InitChoosing
<1>2. Kept /\ Choosing /\ [Next]_vars => (Kept /\ Choosing)'
  BY NextKept, NextChoosing
<1>. QED BY <1>1, <1>2, PTL DEF Spec

\* A capture made of pods is of those of them that run and that the selector sent along
\* picks, when they are of one namespace or have their names to themselves; when not, of no
\* pod but of these names - whatever was typed, ticked and listed before it was asked for
\* and has become of the cluster since, for any pods, namespaces, searches and number of
\* targets by default (the form's submit, targets).
THEOREM SpecCapturesWhatWasMeant == Spec => []CapturesWhatWasMeant
<1>1. Kept => CapturesWhatWasMeant
  <2>. SUFFICES ASSUME Kept, NEW o \in Objects, o.meant # {}
                PROVE  LET running == {p \in Selects[o.sel] : cluster.phase[p] = "running"}
                       IN  /\ Targets(o) \subseteq {p \in running : Namesake(o, p)}
                           /\ \/ Cardinality(Spaces(o.meant)) = 1
                              \/ \A p \in Pod : Namesake(o, p) => p \in o.meant
                              => Targets(o) = o.meant \cap running
    BY DEF CapturesWhatWasMeant
  <2>1. Meant(o)
    BY DEF Objects, Kept, ClusterKept, IsCluster, IsObject
  <2>. QED BY <2>1, TargetsMeant, TargetsNamed
<1>. QED BY <1>1, SpecKept, PTL

\* No answer closes a card that is open or opens one the reader has closed, however old the
\* read it answers and whatever captures, folds and reads came in between (paintCaptures).
THEOREM SpecCardsStay == Spec => CardsStay
<1>1. ASSUME Kept, Choosing, [Next]_vars, NEW n \in Name
      PROVE  Stays(n) \/ Fold(n)
  <2>1. CASE UNCHANGED cards
    BY <2>1 DEF Stays
  <2>2. CASE \E k \in Asked : RefreshArrives(k)
    BY <1>1, <2>2, ArrivesKept
  <2>3. CASE \E m \in Name : Fold(m)
    BY <1>1, <2>3, FoldKept
  <2>4. \/ UNCHANGED cards
        \/ \E k \in Asked : RefreshArrives(k)
        \/ \E m \in Name : Fold(m)
    BY <1>1 DEF Next, User, Type, ChangeNamespace, ChooseWebshark, Tick, TickAll, Submit, Pause, Delete, Write,
                Poll, Typed, RefreshFails, CarryOut, Answered, Fails, Changes, vars, cardVars
  <2>. QED BY <2>1, <2>2, <2>3, <2>4
<1>2. Kept /\ Choosing /\ [Next]_vars =>
        [\A n \in Name :
           /\ cards[n].there /\ cards'[n].there /\ ~Fold(n)
           /\ cards[n].open \/ folds[n] = "shut"
           => cards'[n].open = cards[n].open]_vars
  BY <1>1 DEF Stays
<1>. QED BY <1>2, SpecKept, PTL DEF Spec, CardsStay

----------------------------------------------------------------------------
(* The rows.                                                               *)

\* The button says it takes pods there are.
LEMMA SaysPods ==
  ASSUME NEW pk \in SUBSET Pod, NEW rows, NEW q, NEW ws
  PROVE  Says(pk, rows, q, ws).take \in 0 .. Cardinality(Pod)
<1>1. \A S \in SUBSET Pod : Cardinality(S) \in 0 .. Cardinality(Pod)
  BY PodsFinite, FS_Subset, FS_CardinalityType
<1>2. Matched(q, rows) \in SUBSET Pod
  BY DEF Matched, Running
<1>3. Says(pk, rows, q, ws).take = IF pk # {} THEN Cardinality(pk) ELSE Cardinality(Matched(q, rows))
  BY DEF Says
<1>. QED BY <1>1, <1>2, <1>3

\* Rows painted are those the search leaves, and the ticks of pods that have stopped go.
LEMMA PaintedRows ==
  ASSUME NEW rows \in Seq(Row), Once(rows), NEW pk \in SUBSET Pod, NEW q \in Query, NEW ws, ns \in View,
         PaintPods(rows, pk, q, ws), pods' = rows, query' = q
  PROVE  Rows'
<1>1. picked' = pk \ Stopped(rows) /\ shown' = Search(rows, q, ns) /\ go' = Says(picked', shown', q, ws)
  BY DEF PaintPods
<1>2. PICK k : k = picked' /\ k \in SUBSET Pod
  BY <1>1
<1>3. PICK t : t = shown'
  OBVIOUS
<1>4. Says(k, t, q, ws).take \in 0 .. Cardinality(Pod)
  BY <1>2, SaysPods
<1>5. go'.take \in 0 .. Cardinality(Pod)
  BY <1>1, <1>2, <1>3, <1>4
<1>6. pods' \in Seq(Row) /\ Once(pods)' /\ picked' \cap Stopped(pods)' = {}
  BY <1>1 DEF Once, Stopped
<1>7. \E n \in View : shown' = Search(pods', query', n)
  BY <1>1
<1>. QED BY <1>5, <1>6, <1>7 DEF Rows, Search, Found, Ahead, AllOf

\* What leaves the rows as they are.
LEMMA RowsLeft ==
  ASSUME Rows, UNCHANGED <<pods, shown, query>>, picked' \cap Stopped(pods) = {},
         go'.take \in 0 .. Cardinality(Pod)
  PROVE  Rows'
BY DEF Rows, Once, Stopped

LEMMA InitRows == Init => Rows
<1>. SUFFICES ASSUME Init PROVE Rows
  OBVIOUS
<1>1. pods = <<>> /\ shown = <<>> /\ query = Blank /\ picked = {} /\ go.take = 0
  BY DEF Init
<1>2. Words[Blank] = <<>>
  BY OperatorPageAssumption
<1>3. NoNamespace \in View /\ shown = Search(pods, query, NoNamespace)
  BY <1>1, <1>2 DEF Search, View
<1>4. 0 \in 0 .. Cardinality(Pod)
  BY PodsFinite, FS_CardinalityType
<1>5. pods \in Seq(Row) /\ Once(pods)
  BY <1>1 DEF Once
<1>. QED BY <1>1, <1>3, <1>4, <1>5 DEF Rows

\* A row that is ticked runs, and its pod has no other.
LEMMA TickedRuns ==
  ASSUME Choosing, Rows, NEW p \in Running(shown)
  PROVE  p \in Pod /\ p \notin Stopped(pods)
<1>1. PICK n \in View : shown = Search(pods, query, n)
  BY DEF Rows
<1>2. Range(shown) \subseteq Range(pods)
  BY <1>1, SearchRight DEF Rows, Choosing
<1>3. PICK r \in Range(pods) : r.pod = p /\ r.running
  BY <1>2 DEF Running
<1>4. PICK i \in DOMAIN pods : pods[i] = r
  BY <1>3 DEF Range
<1>5. ASSUME NEW x \in Range(pods), x.pod = p PROVE x.running
  <2>1. PICK j \in DOMAIN pods : pods[j] = x
    BY DEF Range
  <2>2. i = j
    BY <1>3, <1>4, <1>5, <2>1 DEF Rows, Once
  <2>. QED BY <1>3, <1>4, <2>1, <2>2
<1>. QED BY <1>5 DEF Running, Stopped

LEMMA NextRows == Kept /\ Choosing /\ Rows /\ [Next]_vars => Rows'
<1>. SUFFICES ASSUME Kept, Choosing, Rows, [Next]_vars PROVE Rows'
  OBVIOUS
<1>0. /\ picked \subseteq Pod /\ ns \in View /\ query \in Query /\ pods \in Seq(Row) /\ Once(pods)
      /\ picked \cap Stopped(pods) = {} /\ go.take \in 0 .. Cardinality(Pod)
  BY DEF Kept, Choosing, Rows
<1>1. CASE \E k \in Asked : RefreshArrives(k)
  <2>1. PICK k \in Asked : RefreshArrives(k)
    BY <1>1
  <2>2. PICK c \in asked[k].saw : pods' = PodsOf(c, asked[k].ns, asked[k].sel)
    BY <2>1 DEF RefreshArrives
  <2>3. IsCluster(c) /\ asked[k].ns \in View /\ asked[k].sel \in Query
    BY DEF Kept, ClusterKept, IsRead
  <2>4. PICK rows : rows = pods' /\ rows \in Seq(Row) /\ Once(rows)
    BY <2>2, <2>3, PodsOfRight DEF IsCluster
  <2>5. PICK ws : ws = sharks'
    OBVIOUS
  <2>6. PaintPods(rows, picked, query, ws) /\ query' = query
    BY <2>1, <2>4, <2>5 DEF RefreshArrives
  <2>. QED BY <1>0, <2>4, <2>6, PaintedRows
<1>2. CASE \E q \in Query : Type(q)
  <2>1. PICK q \in Query : Type(q)
    BY <1>2
  <2>2. PaintPods(pods, picked, q, sharks) /\ query' = q /\ pods' = pods
    BY <2>1 DEF Type
  <2>. QED BY <1>0, <2>2, PaintedRows
<1>3. CASE TickAll
  <2>1. PICK pk : pk = IF all' THEN picked \cup Running(shown) ELSE picked \ Running(shown)
    OBVIOUS
  <2>2. PaintPods(pods, pk, query, sharks) /\ query' = query /\ pods' = pods
    BY <1>3, <2>1 DEF TickAll
  <2>3. pk \in SUBSET Pod
    BY <1>0, <2>1 DEF Running
  <2>. QED BY <1>0, <2>2, <2>3, PaintedRows
<1>4. CASE \E p \in Pod : Tick(p)
  <2>1. PICK p \in Pod : Tick(p)
    BY <1>4
  <2>2. p \in Pod /\ p \notin Stopped(pods)
    BY <2>1, TickedRuns DEF Tick
  <2>3. PICK k : k = picked' /\ k \in SUBSET Pod /\ k \cap Stopped(pods) = {}
    <3>1. picked' = IF p \in picked THEN picked \ {p} ELSE picked \cup {p}
      BY <2>1 DEF Tick
    <3>2. picked' \in SUBSET Pod /\ picked' \cap Stopped(pods) = {}
      BY <1>0, <2>2, <3>1
    <3>. QED BY <3>2
  <2>4. go' = Says(k, shown, query, sharks) /\ UNCHANGED <<pods, shown, query>>
    BY <2>1, <2>3 DEF Tick, listVars
  <2>5. go'.take \in 0 .. Cardinality(Pod)
    BY <2>3, <2>4, SaysPods
  <2>. QED BY <2>3, <2>4, <2>5, RowsLeft
<1>5. CASE \E w \in Range(Webshark) : ChooseWebshark(w)
  <2>1. go' = Says(picked, shown, query, sharks) /\ UNCHANGED <<pods, shown, query, picked>>
    BY <1>5 DEF ChooseWebshark, listVars
  <2>2. go'.take \in 0 .. Cardinality(Pod)
    BY <1>0, <2>1, SaysPods
  <2>. QED BY <1>0, <2>1, <2>2, RowsLeft
<1>6. CASE UNCHANGED <<pods, shown, query, go>> /\ picked' \in {picked, {}}
  <2>1. picked' \cap Stopped(pods) = {}
    BY <1>0, <1>6
  <2>. QED BY <1>0, <1>6, <2>1, RowsLeft
<1>7. CASE \/ Poll \/ Typed \/ UNCHANGED vars \/ Changes \/ Submit
           \/ \E n \in View : ChangeNamespace(n)
           \/ \E n \in Name : Pause(n) \/ Delete(n) \/ Fold(n)
           \/ \E k \in Asked : RefreshFails(k)
           \/ \E i \in DOMAIN writes : CarryOut(i) \/ Answered(i) \/ Fails(i)
  <2>1. UNCHANGED <<pods, shown, query, go>> /\ picked' \in {picked, {}}
    BY <1>7 DEF Poll, Typed, vars, Changes, Submit, Write, ChangeNamespace, Pause, Delete, Fold, RefreshFails,
                CarryOut, Answered, Fails, userVars, listVars
  <2>. QED BY <1>6, <2>1
<1>. QED BY <1>1, <1>2, <1>3, <1>4, <1>5, <1>7 DEF Next, User

LEMMA SpecRows == Spec => [](Kept /\ Choosing /\ Rows)
<1>1. Init => Rows
  BY InitRows
<1>2. Kept /\ Choosing /\ Rows /\ [Next]_vars => Rows'
  BY NextRows
<1>. QED BY <1>1, <1>2, SpecKept, PTL DEF Spec

\* The rows painted are the listed pods that have every word typed, in the name or in a
\* label, each once and those a capture can be of before the others, and no pod is ticked
\* that was listed as stopped - for any pods, names and labels, any words, any answers and
\* in whatever order they come (search, align, paintPods).  What the code looks for letter
\* by letter, taking each as early as it can be, is there whenever it is there at all.
THEOREM SpecShownIsFound == Spec => []ShownIsFound
<1>1. Kept /\ Choosing /\ Rows => ShownIsFound
  <2>. SUFFICES ASSUME Kept, Choosing, Rows PROVE ShownIsFound
    OBVIOUS
  <2>1. PICK n \in View : shown = Search(pods, query, n)
    BY DEF Rows
  <2>2. /\ shown \in Seq(Row) /\ IsInjective(shown)
        /\ Words[query] # <<>> =>
             /\ Range(shown) = {r \in Range(pods) : <<query, n, r.pod>> \in Spelled}
             /\ \A i, j \in DOMAIN shown : i < j /\ shown[j].running => shown[i].running
    BY <2>1, SearchRight, FoundIsSpelled DEF Rows, Choosing
  <2>3. Words[query] = <<>> => shown = pods
    BY <2>1 DEF Search
  <2>4. TypeOK
    <3>1. IsCluster(cluster) /\ \A k \in Asked : IsRead(asked[k])
      BY DEF Kept, ClusterKept
    <3>2. /\ cluster.phase \in [Pod -> {"running", "stopped", "gone"}] /\ cluster.sharks \subseteq Range(Webshark)
          /\ \A m \in Name : cluster.objs[m] # NoCapture => cluster.objs[m].ns \in Namespace
      BY <3>1 DEF IsCluster, IsObject
    <3>3. \A k \in Asked : asked[k] = NoRequest \/ asked[k].saw # {}
      BY <3>1 DEF IsRead
    <3>4. picked \subseteq Pod \ Stopped(pods)
      BY DEF Kept, Rows
    <3>. QED BY <2>2, <3>2, <3>3, <3>4 DEF TypeOK, Kept, CardsKept, Choosing, Rows
  <2>. QED BY <2>2, <2>3, <2>4 DEF ShownIsFound
<1>. QED BY <1>1, SpecRows, PTL

=============================================================================

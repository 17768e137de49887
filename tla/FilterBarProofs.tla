--------------------------- MODULE FilterBarProofs ---------------------------
(***************************************************************************)
(* What FilterBar keeps, for any words, filters and fields, and any number *)
(* of checks and completions under way: a list of field names opens only   *)
(* for what was asked last, frames are only ever filtered by what compiles *)
(* and is in the box, and what is quoted are the values of comparisons.    *)
(***************************************************************************)
EXTENDS FilterBar, SequenceTheorems, WellFoundedInduction, TLAPS

----------------------------------------------------------------------------
(* The operators.                                                          *)

LEMMA Removed ==
  ASSUME NEW S, NEW s \in Seq(S), NEW k \in DOMAIN s
  PROVE  RemoveAt(s, k) \in Seq(S)
<1>1. k \in 1 .. Len(s)
  OBVIOUS
<1>2. SubSeq(s, 1, k - 1) \in Seq(S) /\ SubSeq(s, k + 1, Len(s)) \in Seq(S)
  BY <1>1
<1>. QED BY <1>2 DEF RemoveAt

LEMMA FieldTyped == ASSUME NEW text \in Text PROVE FieldAt(text) \in Word \cup {NoWord}
<1>1. CASE text = <<>>
  BY <1>1 DEF FieldAt
<1>2. CASE text # <<>>
  <2>1. text[Len(text)] \in Pieces
    BY <1>2 DEF Text
  <2>. QED BY <2>1 DEF FieldAt, Last, Pieces
<1>. QED BY <1>1, <1>2

LEMMA CompletedTyped == ASSUME NEW text \in Text, NEW w \in Word PROVE Completed(text, w) \in Text
<1>1. Bare(w) \in Pieces
  BY DEF Bare, Pieces
<1>2. CASE FieldAt(text) = NoWord
  BY <1>1, <1>2 DEF Completed, Text
<1>3. CASE FieldAt(text) # NoWord
  <2>1. text # <<>>
    BY <1>3 DEF FieldAt
  <2>2. SubSeq(text, 1, Len(text) - 1) \in Seq(Pieces)
    BY <2>1 DEF Text
  <2>3. Front(text) \in Seq(Pieces)
    BY <2>2 DEF Front
  <2>. QED BY <1>1, <1>3, <2>3 DEF Completed, Text
<1>. QED BY <1>2, <1>3

LEMMA RequotedTyped == ASSUME NEW text \in Text, NEW takes PROVE Requoted(text, takes) \in Text
<1>. DEFINE quoted == {v[1] : v \in {u \in Found(text) : u[2] \in takes}}
            fixed  == [i \in DOMAIN text |-> IF i \in quoted THEN Str(text[i].v) ELSE text[i]]
<1>1. Requoted(text, takes) = fixed
  BY DEF Requoted
<1>. HIDE DEF quoted
<1>2. DOMAIN text = 1 .. Len(text) /\ Len(text) \in Nat /\ \A i \in DOMAIN text : text[i] \in Pieces
  BY DEF Text
<1>3. \A p \in Pieces : Str(p.v) \in Pieces
  BY DEF Str, Pieces
<1>4. \A i \in DOMAIN text : fixed[i] \in Pieces
  BY <1>2, <1>3
<1>5. fixed \in [1 .. Len(text) -> Pieces]
  BY <1>2, <1>4
<1>. HIDE DEF fixed
<1>6. fixed \in Seq(Pieces)
  BY <1>2, <1>5, SeqDef
<1>. QED BY <1>1, <1>6 DEF Text

LEMMA JobTyped ==
  ASSUME NEW who \in {"live", "pick", "filter"}, NEW text \in Text
  PROVE  Job(who, text) \in Jobs
BY DEF Job, Jobs

LEMMA EmptyText == <<>> \in Text /\ <<>> \in Seq(Word)
BY EmptySeq DEF Text

----------------------------------------------------------------------------
(* Induction, over the pieces of a text.                                   *)

\* Of the numbers of a set one is the least.
LEMMA Least ==
  ASSUME NEW T \in SUBSET Nat, T # {}
  PROVE  \E x \in T : \A y \in T : x <= y
<1>. DEFINE R == OpToRel(<, Nat)
<1>1. PICK x \in T : \A y \in T : ~ (<<y, x>> \in R)
  BY NatLessThanWellFounded, WFMin
<1>2. ASSUME NEW y \in T, y < x
      PROVE  FALSE
  <2>1. <<y, x>> \in R
    BY <1>2 DEF OpToRel
  <2>. QED BY <1>1, <2>1
<1>. QED BY <1>2

\* A function of 0 .. n can be had by saying what it is at 0, and at i by what it is before.
Recurs(f, n, S, c, G) == f \in [0 .. n -> S] /\ f[0] = c /\ \A i \in 1 .. n : f[i] = G[i][f[i - 1]]

LEMMA ByRecursion ==
  ASSUME NEW n \in Nat, NEW S, NEW c \in S, NEW G \in [1 .. n -> [S -> S]]
  PROVE  \E f : Recurs(f, n, S, c, G)
<1>. DEFINE Upto(m, f) == f[0] = c /\ \A i \in 1 .. m : f[i] = G[i][f[i - 1]]
            T == {m \in 0 .. n : ~ \E f \in [0 .. m -> S] : Upto(m, f)}
<1>1. T = {}
  <2>. SUFFICES ASSUME T # {} PROVE FALSE
    OBVIOUS
  <2>0. T \in SUBSET Nat
    OBVIOUS
  <2>1. PICK m \in T : \A y \in T : m <= y
    BY <2>0, Least, Zenon
  <2>2. m # 0
    <3>1. Upto(0, [i \in 0 .. 0 |-> c]) /\ [i \in 0 .. 0 |-> c] \in [0 .. 0 -> S]
      OBVIOUS
    <3>. QED BY <3>1
  <2>3. m \in 1 .. n /\ m - 1 \in 0 .. n
    BY <2>2
  <2>8. m - 1 \notin T
    <3>. HIDE DEF T
    <3>. QED BY <2>1, <2>3
  <2>4. PICK f \in [0 .. m - 1 -> S] : Upto(m - 1, f)
    BY <2>3, <2>8
  <2>. DEFINE g == [i \in 0 .. m |-> IF i = m THEN G[m][f[m - 1]] ELSE f[i]]
  <2>5. G[m][f[m - 1]] \in S
    <3>1. m \in 1 .. n /\ f[m - 1] \in S
      BY <2>2
    <3>. QED BY <3>1
  <2>6. g \in [0 .. m -> S]
    BY <2>5
  <2>7. Upto(m, g)
    BY <2>2, <2>4
  <2>. QED BY <2>1, <2>6, <2>7
<1>2. n \notin T
  BY <1>1
<1>3. PICK f \in [0 .. n -> S] : Upto(n, f)
  BY <1>2
<1>. QED BY <1>3 DEF Recurs

----------------------------------------------------------------------------
(* The values that are found.                                              *)

\* What requote knows as it goes.
Reading(text) == [field : Word \cup {NoWord}, many : BOOLEAN, found : SUBSET ((1 .. Len(text)) \X Word)]

LEMMA StepTyped ==
  ASSUME NEW text \in Text, NEW i \in 1 .. Len(text), NEW at \in Reading(text)
  PROVE  StepOver(text, i, at) \in Reading(text)
<1>1. \A k \in 1 .. Len(text) : text[k] \in Pieces
  BY DEF Text
<1>2. text[i] \in Pieces /\ (i > 1 => text[i - 1] \in Pieces)
  BY <1>1
<1>3. at.found \in SUBSET ((1 .. Len(text)) \X Word) /\ at.field \in Word \cup {NoWord}
  BY DEF Reading
<1>4. at.field # NoWord => at.found \cup {<<i, at.field>>} \in SUBSET ((1 .. Len(text)) \X Word)
  BY <1>3
<1>. QED BY <1>2, <1>3, <1>4 DEF StepOver, Reading, Pieces, Compare

\* The loop, piece after piece.
LEMMA Looped ==
  ASSUME NEW text \in Text
  PROVE  \E at \in [0 .. Len(text) -> Reading(text)] :
           /\ at[0] = NothingFound /\ \A i \in 1 .. Len(text) : at[i] = StepOver(text, i, at[i - 1])
           /\ Found(text) = at[Len(text)].found
<1>. DEFINE n == Len(text)
            S == Reading(text)
            G == [i \in 1 .. n |-> [x \in S |-> StepOver(text, i, x)]]
            IsLoop(at) == at = [i \in 0 .. n |-> IF i = 0 THEN NothingFound ELSE StepOver(text, i, at[i - 1])]
<1>1. n \in Nat /\ NothingFound \in S
  BY DEF Text, NothingFound, Reading
<1>2. G \in [1 .. n -> [S -> S]]
  BY StepTyped
<1>2a. PICK f : Recurs(f, n, S, NothingFound, G)
  <2>. HIDE DEF G, n, S
  <2>. QED BY <1>1, <1>2, ByRecursion
<1>3. f \in [0 .. n -> S] /\ f[0] = NothingFound /\ \A i \in 1 .. n : f[i] = G[i][f[i - 1]]
  <2>. HIDE DEF G, n, S
  <2>. QED BY <1>2a DEF Recurs
<1>4. \A i \in 1 .. n : f[i - 1] \in S /\ f[i] = StepOver(text, i, f[i - 1])
  <2>1. \A i \in 1 .. n : i - 1 \in 0 .. n /\ f[i - 1] \in S
    <3>. HIDE DEF S
    <3>. QED BY <1>1, <1>3
  <2>2. \A i \in 1 .. n, x \in S : G[i][x] = StepOver(text, i, x)
    <3>. HIDE DEF S
    <3>. QED OBVIOUS
  <2>. HIDE DEF S, G, n
  <2>. QED BY <1>3, <2>1, <2>2
<1>5. IsLoop(f)
  <2>. HIDE DEF S, G
  <2>1. DOMAIN f = 0 .. n /\ f = [i \in 0 .. n |-> f[i]]
    BY <1>3
  <2>2. \A i \in 0 .. n : f[i] = IF i = 0 THEN NothingFound ELSE StepOver(text, i, f[i - 1])
    BY <1>1, <1>3, <1>4
  <2>. QED BY <2>1, <2>2
<1>. DEFINE at == CHOOSE x : IsLoop(x)
<1>6. IsLoop(at)
  <2>. HIDE DEF IsLoop
  <2>. QED BY <1>5
<1>7. Found(text) = at[n].found
  BY DEF Found
<1>. HIDE DEF at
<1>8. at[0] = NothingFound /\ \A i \in 1 .. n : at[i] = StepOver(text, i, at[i - 1])
  <2>. HIDE DEF S
  <2>. QED BY <1>1, <1>6
<1>. DEFINE T == {i \in 0 .. n : at[i] \notin S}
<1>9. T = {}
  <2>. SUFFICES ASSUME T # {} PROVE FALSE
    OBVIOUS
  <2>. HIDE DEF S
  <2>1. PICK i \in T : \A j \in T : i <= j
    <3>1. T \in SUBSET Nat
      BY <1>1
    <3>. HIDE DEF T
    <3>. QED BY <3>1, Least
  <2>2. i \in 1 .. n /\ i - 1 \in 0 .. n
    BY <1>1, <1>8
  <2>3. i - 1 \notin T
    <3>. HIDE DEF T
    <3>. QED BY <2>1, <2>2
  <2>4. at[i - 1] \in S
    BY <2>2, <2>3
  <2>5. at[i] \in S
    BY <1>8, <2>2, <2>4, StepTyped DEF S
  <2>. QED BY <2>5
<1>10. at \in [0 .. n -> S]
  <2>1. \A i \in 0 .. n : at[i] \in S
    BY <1>9
  <2>. HIDE DEF S
  <2>. QED BY <1>1, <1>6, <2>1
<1>. QED BY <1>7, <1>8, <1>10

\* What the loop comes to: behind a comparison, or behind an "in" with nothing but bare
\* values, commas and braces that open between.
Reached(text) ==
  {v \in (DOMAIN text) \X Word :
    /\ text[v[1]].is = "bare"
    /\ \E k \in 2 .. v[1] - 1 :
         /\ text[k - 1] = Bare(v[2])
         /\ \/ text[k].is = "op" /\ k = v[1] - 1
            \/ text[k].is = "in" /\ \A m \in k + 1 .. v[1] - 1 : text[m].is \in {"bare", ",", "{"}}

\* At i, what a value would be compared against, b whether as one of a set.
Reach(text, i, f, b) ==
  \E k \in 2 .. i :
    /\ text[k - 1] = Bare(f)
    /\ \/ text[k].is = "op" /\ k = i /\ ~b
       \/ text[k].is = "in" /\ b /\ \A m \in k + 1 .. i : text[m].is \in {"bare", ",", "{"}

\* What the loop knows after i pieces.
Knows(text, i, at) ==
  /\ \A f \in Word, b \in BOOLEAN : Reach(text, i, f, b) <=> at.field = f /\ (at.many <=> b)
  /\ \A v \in (1 .. Len(text)) \X Word : v \in at.found <=> v[1] <= i /\ v \in Reached(text)

LEMMA ReachOn ==
  ASSUME NEW text \in Text, NEW i \in 1 .. Len(text), NEW f \in Word, NEW b \in BOOLEAN
  PROVE  Reach(text, i, f, b) <=>
           \/ /\ text[i].is \in Compare /\ i > 1 /\ text[i - 1] = Bare(f)
              /\ b <=> text[i].is = "in"
           \/ text[i].is \in {"bare", ",", "{"} /\ b /\ Reach(text, i - 1, f, b)
<1>1. \A k \in 1 .. Len(text) : text[k] \in Pieces
  BY DEF Text
<1>2. Len(text) \in Nat
  BY DEF Text
<1>3. ASSUME Reach(text, i, f, b)
      PROVE  \/ /\ text[i].is \in Compare /\ i > 1 /\ text[i - 1] = Bare(f)
                /\ b <=> text[i].is = "in"
             \/ text[i].is \in {"bare", ",", "{"} /\ b /\ Reach(text, i - 1, f, b)
  <2>1. PICK k \in 2 .. i :
          /\ text[k - 1] = Bare(f)
          /\ \/ text[k].is = "op" /\ k = i /\ ~b
             \/ text[k].is = "in" /\ b /\ \A m \in k + 1 .. i : text[m].is \in {"bare", ",", "{"}
    BY <1>3 DEF Reach
  <2>2. CASE k = i
    <3>1. CASE text[k].is = "op" /\ ~b
      BY <2>1, <2>2, <3>1 DEF Compare
    <3>2. CASE text[k].is = "in" /\ b
      <4>1. text[i].is = "in" /\ text[i - 1] = Bare(f) /\ i > 1
        <5>1. k \in 2 .. i /\ text[k - 1] = Bare(f) /\ text[k].is = "in"
          BY <2>1, <3>2
        <5>2. k = i /\ i > 1
          BY <1>2, <2>2, <5>1
        <5>. QED BY <5>1, <5>2
      <4>2. b <=> text[i].is = "in"
        BY <3>2, <4>1, Zenon
      <4>. QED BY <4>1, <4>2 DEF Compare
    <3>. QED BY <2>1, <3>1, <3>2
  <2>3. CASE k # i
    <3>1. k \in 2 .. i - 1 /\ i \in k + 1 .. i
      BY <1>2, <2>3
    <3>2. text[k].is = "in" /\ b /\ \A m \in k + 1 .. i - 1 : text[m].is \in {"bare", ",", "{"}
      <4>1. text[k].is = "in" /\ b /\ \A m \in k + 1 .. i : text[m].is \in {"bare", ",", "{"}
        BY <2>1, <2>3
      <4>2. k + 1 .. i - 1 \subseteq k + 1 .. i
        BY <1>2
      <4>. QED BY <4>1, <4>2
    <3>3. Reach(text, i - 1, f, b)
      BY <2>1, <3>1, <3>2 DEF Reach
    <3>4. text[i].is \in {"bare", ",", "{"}
      BY <2>1, <2>3, <3>1
    <3>. QED BY <3>2, <3>3, <3>4
  <2>. QED BY <2>2, <2>3
<1>4. ASSUME text[i].is \in Compare, i > 1, text[i - 1] = Bare(f), b <=> text[i].is = "in"
      PROVE  Reach(text, i, f, b)
  <2>1. i \in 2 .. i /\ i + 1 .. i = {}
    BY <1>2, <1>4
  <2>. QED BY <1>4, <2>1 DEF Reach, Compare
<1>5. ASSUME text[i].is \in {"bare", ",", "{"}, b, Reach(text, i - 1, f, b)
      PROVE  Reach(text, i, f, b)
  <2>1. PICK k \in 2 .. i - 1 :
          /\ text[k - 1] = Bare(f)
          /\ text[k].is = "in" /\ \A m \in k + 1 .. i - 1 : text[m].is \in {"bare", ",", "{"}
    BY <1>5 DEF Reach
  <2>2. k \in 2 .. i /\ \A m \in k + 1 .. i : m = i \/ m \in k + 1 .. i - 1
    BY <1>2
  <2>. QED BY <1>5, <2>1, <2>2 DEF Reach
<1>. QED BY <1>3, <1>4, <1>5

LEMMA ReachedAt ==
  ASSUME NEW text \in Text, NEW i \in 1 .. Len(text), NEW f \in Word
  PROVE  <<i, f>> \in Reached(text) <=>
           text[i].is = "bare" /\ \E b \in BOOLEAN : Reach(text, i - 1, f, b)
<1>. DEFINE v == <<i, f>>
<1>1. v \in (DOMAIN text) \X Word /\ v[1] = i /\ v[2] = f
  BY DEF Text
<1>2. v \in Reached(text) <=>
        /\ text[i].is = "bare"
        /\ \E k \in 2 .. i - 1 :
             /\ text[k - 1] = Bare(f)
             /\ \/ text[k].is = "op" /\ k = i - 1
                \/ text[k].is = "in" /\ \A m \in k + 1 .. i - 1 : text[m].is \in {"bare", ",", "{"}
  BY <1>1 DEF Reached
<1>3. (\E b \in BOOLEAN : Reach(text, i - 1, f, b)) <=>
        \E k \in 2 .. i - 1 :
             /\ text[k - 1] = Bare(f)
             /\ \/ text[k].is = "op" /\ k = i - 1
                \/ text[k].is = "in" /\ \A m \in k + 1 .. i - 1 : text[m].is \in {"bare", ",", "{"}
  BY DEF Reach
<1>. QED BY <1>2, <1>3

\* One piece more.
LEMMA KnowsMore ==
  ASSUME NEW text \in Text, NEW i \in 1 .. Len(text), NEW at \in Reading(text), Knows(text, i - 1, at)
  PROVE  Knows(text, i, StepOver(text, i, at))
<1>. DEFINE t == text[i]
            next == StepOver(text, i, at)
<1>0. Len(text) \in Nat
  BY DEF Text
<1>1. t \in Pieces /\ (i > 1 => text[i - 1] \in Pieces)
  BY <1>0 DEF Text
<1>2. next \in Reading(text)
  BY StepTyped
<1>3. ASSUME NEW f \in Word, NEW b \in BOOLEAN
      PROVE  Reach(text, i - 1, f, b) <=> at.field = f /\ (at.many <=> b)
  BY DEF Knows
<1>4. NoWord \notin Word
  BY FilterBarAssumption
<1>5. at.many \in BOOLEAN /\ at.field \in Word \cup {NoWord}
  BY DEF Reading
<1>6. ASSUME NEW f \in Word, NEW b \in BOOLEAN
      PROVE  Reach(text, i, f, b) <=> next.field = f /\ (next.many <=> b)
  <2>1. CASE t.is \in Compare
    <3>1. next.field = (IF i > 1 /\ text[i - 1].is = "bare" THEN text[i - 1].v ELSE NoWord)
          /\ (next.many <=> t.is = "in")
      BY <2>1 DEF StepOver, Reading
    <3>2. i > 1 => (text[i - 1] = Bare(f) <=> text[i - 1].is = "bare" /\ text[i - 1].v = f)
      <4>1. i > 1 => text[i - 1] = [is |-> text[i - 1].is, v |-> text[i - 1].v]
        BY <1>1 DEF Pieces
      <4>. QED BY <4>1 DEF Bare
    <3>3. t.is \notin {"bare", ",", "{"}
      BY <2>1 DEF Compare
    <3>4. Reach(text, i, f, b) <=> i > 1 /\ text[i - 1] = Bare(f) /\ (b <=> t.is = "in")
      BY <2>1, <3>3, ReachOn, Zenon
    <3>5. next.field = f <=> i > 1 /\ text[i - 1] = Bare(f)
      BY <1>4, <3>1, <3>2
    <3>. QED BY <3>1, <3>4, <3>5, Zenon
  <2>2. CASE t.is \notin Compare
    <3>1. Reach(text, i, f, b) <=>
            t.is \in {"bare", ",", "{"} /\ b /\ at.field = f /\ (at.many <=> b)
      <4>1. Reach(text, i, f, b) <=> t.is \in {"bare", ",", "{"} /\ b /\ Reach(text, i - 1, f, b)
        BY <2>2, ReachOn, Zenon
      <4>. QED BY <1>3, <4>1, Zenon
    <3>2. CASE at.field = NoWord \/ (at.many /\ t.is \in {"{", ","})
      <4>1. next = at
        BY <2>2, <3>2 DEF StepOver
      <4>. QED BY <1>4, <3>1, <3>2, <4>1
    <3>3. CASE ~(at.field = NoWord \/ (at.many /\ t.is \in {"{", ","}))
      <4>1. next.field = (IF at.many /\ t.is = "bare" THEN at.field ELSE NoWord) /\ next.many = at.many
        BY <2>2, <3>3 DEF StepOver
      <4>. QED BY <1>4, <1>5, <3>1, <3>3, <4>1
    <3>. QED BY <3>2, <3>3
  <2>. QED BY <2>1, <2>2
<1>7. ASSUME NEW v \in (1 .. Len(text)) \X Word
      PROVE  v \in next.found <=> v[1] <= i /\ v \in Reached(text)
  <2>1. v \in at.found <=> v[1] <= i - 1 /\ v \in Reached(text)
    BY DEF Knows
  <2>2. v = <<v[1], v[2]>> /\ v[1] \in 1 .. Len(text) /\ v[2] \in Word
    OBVIOUS
  <2>3. v[1] = i => (v \in Reached(text) <=> t.is = "bare" /\ v[2] = at.field)
    <3>1. <<i, v[2]>> \in Reached(text) <=> t.is = "bare" /\ \E b \in BOOLEAN : Reach(text, i - 1, v[2], b)
      BY <2>2, ReachedAt
    <3>2. (\E b \in BOOLEAN : Reach(text, i - 1, v[2], b)) <=> v[2] = at.field
      BY <1>3, <1>5, <2>2
    <3>. QED BY <2>2, <3>1, <3>2
  <2>4. next.found = IF t.is = "bare" /\ at.field # NoWord THEN at.found \cup {<<i, at.field>>} ELSE at.found
    BY DEF StepOver, Compare, Reading
  <2>5. v \in next.found <=> v \in at.found \/ (t.is = "bare" /\ v[2] = at.field /\ v[1] = i)
    BY <1>4, <2>2, <2>4
  <2>6. v[1] <= i <=> v[1] <= i - 1 \/ v[1] = i
    BY <1>0, <2>2
  <2>. QED BY <1>0, <2>1, <2>2, <2>3, <2>5, <2>6
<1>. QED BY <1>6, <1>7 DEF Knows

LEMMA FoundIsReached == ASSUME NEW text \in Text PROVE Found(text) = Reached(text)
<1>. DEFINE n == Len(text)
<1>0. n \in Nat
  BY DEF Text
<1>1. PICK at \in [0 .. n -> Reading(text)] :
           /\ at[0] = NothingFound /\ \A i \in 1 .. n : at[i] = StepOver(text, i, at[i - 1])
           /\ Found(text) = at[n].found
  BY Looped
<1>2. Knows(text, 0, at[0])
  <2>1. \A f \in Word, b \in BOOLEAN : ~Reach(text, 0, f, b)
    BY DEF Reach
  <2>2. \A v \in (1 .. n) \X Word : ~(v[1] <= 0)
    OBVIOUS
  <2>3. at[0].found = {} /\ at[0].field = NoWord
    BY <1>1 DEF NothingFound
  <2>. QED BY <2>1, <2>2, <2>3, FilterBarAssumption DEF Knows
<1>. DEFINE T == {i \in 0 .. n : ~Knows(text, i, at[i])}
<1>3. T = {}
  <2>. SUFFICES ASSUME T # {} PROVE FALSE
    OBVIOUS
  <2>1. PICK i \in T : \A j \in T : i <= j
    <3>1. T \in SUBSET Nat
      BY <1>0
    <3>. HIDE DEF T
    <3>. QED BY <3>1, Least
  <2>2. i \in 1 .. n /\ i - 1 \in 0 .. n
    BY <1>0, <1>2
  <2>3. i - 1 \notin T
    <3>. HIDE DEF T
    <3>. QED BY <2>1, <2>2
  <2>4. Knows(text, i - 1, at[i - 1])
    BY <2>2, <2>3
  <2>5. at[i - 1] \in Reading(text)
    BY <2>2
  <2>6. Knows(text, i, at[i])
    BY <1>1, <2>2, <2>4, <2>5, KnowsMore
  <2>. QED BY <2>6
<1>4. Knows(text, n, at[n])
  BY <1>0, <1>3
<1>5. Found(text) \subseteq (1 .. n) \X Word
  <2>1. at[n] \in Reading(text) /\ Found(text) = at[n].found
    BY <1>0, <1>1
  <2>2. at[n].found \in SUBSET ((1 .. Len(text)) \X Word)
    BY <2>1 DEF Reading
  <2>. QED BY <2>1, <2>2
<1>6. Reached(text) \subseteq (1 .. n) \X Word
  <2>1. DOMAIN text = 1 .. n
    BY DEF Text
  <2>2. Reached(text) \subseteq (DOMAIN text) \X Word
    BY DEF Reached
  <2>. QED BY <2>1, <2>2
<1>7. \A v \in (1 .. n) \X Word : v \in Found(text) <=> v \in Reached(text)
  BY <1>0, <1>1, <1>4 DEF Knows
<1>. QED BY <1>5, <1>6, <1>7

\* Those are values that are compared, and all of them but for the members of a set behind
\* a quoted one.
LEMMA ReachedAreCompared ==
  ASSUME NEW text \in Text
  PROVE  /\ Reached(text) \subseteq Compared(text)
         /\ \A v \in Compared(text) : v \in Reached(text) \/ BehindQuoted(text, v[1])
<1>1. ASSUME NEW v \in Reached(text)
      PROVE  v \in Compared(text)
  <2>1. v \in (DOMAIN text) \X Word /\ text[v[1]].is = "bare"
    BY DEF Reached
  <2>2. PICK k \in 2 .. v[1] - 1 :
         /\ text[k - 1] = Bare(v[2])
         /\ \/ text[k].is = "op" /\ k = v[1] - 1
            \/ text[k].is = "in" /\ \A m \in k + 1 .. v[1] - 1 : text[m].is \in {"bare", ",", "{"}
    BY DEF Reached
  <2>3. (text[k].is = "op" /\ k = v[1] - 1) \/ InSet(text, k, v[1])
    BY <2>2 DEF InSet
  <2>. QED BY <2>1, <2>2, <2>3 DEF Compared
<1>2. ASSUME NEW v \in Compared(text), ~BehindQuoted(text, v[1])
      PROVE  v \in Reached(text)
  <2>1. v \in (DOMAIN text) \X Word /\ text[v[1]].is = "bare"
    BY DEF Compared
  <2>2. PICK k \in 2 .. v[1] - 1 :
         /\ text[k - 1] = Bare(v[2])
         /\ (text[k].is = "op" /\ k = v[1] - 1) \/ InSet(text, k, v[1])
    BY DEF Compared
  <2>3. ASSUME InSet(text, k, v[1])
        PROVE  text[k].is = "in" /\ \A m \in k + 1 .. v[1] - 1 : text[m].is \in {"bare", ",", "{"}
    <3>1. \A m \in k + 1 .. v[1] - 1 : text[m].is # "string"
      BY <1>2, <2>3 DEF BehindQuoted
    <3>. QED BY <2>3, <3>1 DEF InSet
  <2>4. \/ text[k].is = "op" /\ k = v[1] - 1
        \/ text[k].is = "in" /\ \A m \in k + 1 .. v[1] - 1 : text[m].is \in {"bare", ",", "{"}
    BY <2>2, <2>3
  <2>. QED BY <2>1, <2>2, <2>4 DEF Reached
<1>. QED BY <1>1, <1>2

\* A text whose values are quoted has none of those left.
LEMMA QuotedOnce ==
  ASSUME NEW text \in Text, NEW takes, Requoted(text, takes) \in Text
  PROVE  Requoted(Requoted(text, takes), takes) = Requoted(text, takes)
<1>. DEFINE quoted(s) == {v[1] : v \in {u \in Found(s) : u[2] \in takes}}
            fixed == Requoted(text, takes)
<1>1. fixed = [i \in DOMAIN text |-> IF i \in quoted(text) THEN Str(text[i].v) ELSE text[i]]
  BY DEF Requoted
<1>2. DOMAIN text = 1 .. Len(text) /\ Len(text) \in Nat
  BY DEF Text
<1>3. DOMAIN fixed = 1 .. Len(text) /\ Len(fixed) = Len(text)
  <2>. HIDE DEF quoted
  <2>1. DOMAIN fixed = 1 .. Len(text)
    BY <1>1, <1>2
  <2>2. DOMAIN fixed = 1 .. Len(fixed) /\ Len(fixed) \in Nat
    BY DEF Text
  <2>. QED BY <1>2, <2>1, <2>2
<1>4. \A i \in 1 .. Len(text) : i \notin quoted(text) => fixed[i] = text[i]
  <2>. HIDE DEF quoted
  <2>. QED BY <1>1, <1>2
<1>5. \A i \in 1 .. Len(text) : i \in quoted(text) => fixed[i].is = "string"
  <2>. HIDE DEF quoted
  <2>. QED BY <1>1, <1>2 DEF Str
<1>. HIDE DEF fixed
<1>6. ASSUME NEW v \in Reached(fixed), v[2] \in takes
      PROVE  FALSE
  <2>1. /\ v = <<v[1], v[2]>> /\ v[1] \in 1 .. Len(text) /\ v[2] \in Word
        /\ fixed[v[1]].is = "bare"
    <3>1. v \in (DOMAIN fixed) \X Word /\ fixed[v[1]].is = "bare"
      BY DEF Reached
    <3>. QED BY <1>3, <3>1
  <2>2. PICK k \in 2 .. v[1] - 1 :
         /\ fixed[k - 1] = Bare(v[2])
         /\ \/ fixed[k].is = "op" /\ k = v[1] - 1
            \/ fixed[k].is = "in" /\ \A m \in k + 1 .. v[1] - 1 : fixed[m].is \in {"bare", ",", "{"}
    BY DEF Reached
  <2>3. \A m \in 1 .. Len(text) : fixed[m].is # "string" => fixed[m] = text[m]
    BY <1>4, <1>5
  <2>4. k \in 1 .. Len(text) /\ k - 1 \in 1 .. Len(text) /\ k + 1 .. v[1] - 1 \subseteq 1 .. Len(text)
    BY <1>2, <2>1
  <2>5. text[v[1]].is = "bare"
    BY <2>1, <2>3
  <2>6. text[k - 1] = Bare(v[2])
    <3>0. fixed[k - 1] = Bare(v[2])
      BY <2>2
    <3>1. fixed[k - 1].is # "string"
      BY <3>0 DEF Bare
    <3>. QED BY <2>2, <2>3, <2>4, <3>1
  <2>7. \/ text[k].is = "op" /\ k = v[1] - 1
        \/ text[k].is = "in" /\ \A m \in k + 1 .. v[1] - 1 : text[m].is \in {"bare", ",", "{"}
    <3>1. fixed[k].is # "string" /\ text[k] = fixed[k]
      BY <2>2, <2>3, <2>4
    <3>2. CASE fixed[k].is = "op" /\ k = v[1] - 1
      BY <3>1, <3>2
    <3>3. CASE fixed[k].is = "in" /\ \A m \in k + 1 .. v[1] - 1 : fixed[m].is \in {"bare", ",", "{"}
      <4>1. \A m \in k + 1 .. v[1] - 1 : fixed[m] = text[m]
        BY <2>3, <2>4, <3>3
      <4>. QED BY <3>1, <3>3, <4>1
    <3>. QED BY <2>2, <3>2, <3>3
  <2>8. v \in Reached(text)
    BY <1>2, <2>1, <2>2, <2>5, <2>6, <2>7 DEF Reached
  <2>9. v[1] \in quoted(text)
    BY <1>6, <2>8, FoundIsReached
  <2>. QED BY <1>5, <2>1, <2>9
<1>7. quoted(fixed) = {}
  <2>1. Found(fixed) = Reached(fixed)
    BY FoundIsReached DEF fixed
  <2>. QED BY <1>6, <2>1
<1>8. Requoted(fixed, takes) = [i \in DOMAIN fixed |-> fixed[i]]
  BY <1>7 DEF Requoted
<1>9. fixed = [i \in DOMAIN fixed |-> fixed[i]]
  BY <1>1, <1>3 DEF fixed
<1>. QED BY <1>8, <1>9 DEF fixed

----------------------------------------------------------------------------
(* The steps.                                                              *)

\* What closing, asking and settling leave of the list, and of the rest.
ListOK ==
  /\ timer \in BOOLEAN
  /\ asked \in Word \cup {NoWord} /\ wanted \in Word \cup {NoWord} /\ asked = wanted
  /\ comps \in Seq(Word)
  /\ items \in Seq(Word) /\ idx \in 0 .. Len(items)

BoxOK ==
  /\ bad \in BOOLEAN /\ draft \in BOOLEAN
  /\ box \in Text /\ filter \in Text

\* The type invariant, and that compAsked, which an answer is compared with, is what
\* was asked since the list was last closed.
IInv ==
  /\ ListOK /\ BoxOK
  /\ open \in BOOLEAN
  /\ jobs \in Seq(Jobs)
  /\ stringy \in [Word -> {"unasked", "asked", "string", "other"}]
  /\ acts \in 0 .. MaxActs

LEMMA Closed == ASSUME ListOK, CloseComplete PROVE ListOK'
<1>1. items' = <<>> /\ idx' = 0 /\ Len(items') = 0
  BY DEF CloseComplete
<1>2. items' \in Seq(Word) /\ idx' \in 0 .. Len(items')
  BY <1>1, EmptyText
<1>. QED BY <1>2 DEF ListOK, CloseComplete

LEMMA AskedFor == ASSUME ListOK, NEW f \in Word \cup {NoWord}, Complete(f) PROVE ListOK'
<1>1. CASE f = NoWord
  BY <1>1, Closed DEF Complete
<1>2. CASE f # NoWord
  BY <1>2 DEF Complete, ListOK
<1>. QED BY <1>1, <1>2

LEMMA Settled ==
  ASSUME ListOK, BoxOK, NEW j \in Jobs, NEW others \in Seq(Jobs), NEW ok \in BOOLEAN,
         NEW use \in Text, Settle(j, others, ok, use)
  PROVE  ListOK' /\ BoxOK' /\ jobs' \in Seq(Jobs)
<1>1. j.text \in Text
  BY DEF Jobs
<1>2. CASE j.who = "filter"
  <2>1. jobs' = others /\ UNCHANGED <<timer, listVars>>
    BY <1>2 DEF Settle
  <2>2. ListOK'
    BY <2>1 DEF ListOK, listVars
  <2>3. BoxOK'
    BY <1>2 DEF Settle, BoxOK
  <2>. QED BY <2>1, <2>2, <2>3
<1>3. CASE j.who # "filter"
  <2>1. jobs' = others /\ UNCHANGED <<box, draft, filter>>
    BY <1>3 DEF Settle, boxVars
  <2>2. bad' = IF box = j.text THEN ~ok ELSE bad
    BY <1>3, Zenon DEF Settle
  <2>3. bad' \in BOOLEAN
    BY <2>2, Zenon DEF BoxOK
  <2>4. ListOK'
    <3>1. CASE j.who = "live"
      BY <1>1, <1>3, <3>1, AskedFor, FieldTyped DEF Settle
    <3>2. CASE j.who # "live"
      <4>1. UNCHANGED <<timer, listVars>>
        BY <1>3, <3>2 DEF Settle
      <4>. QED BY <4>1 DEF ListOK, listVars
    <3>. QED BY <3>1, <3>2
  <2>. QED BY <2>1, <2>3, <2>4 DEF BoxOK
<1>. QED BY <1>2, <1>3

LEMMA Filtered ==
  ASSUME ListOK, BoxOK, NEW text \in Text, NEW others \in Seq(Jobs), Filter(text, others)
  PROVE  ListOK' /\ BoxOK' /\ jobs' \in Seq(Jobs)
<1>1. ListOK'
  BY Closed DEF Filter
<1>2. BoxOK'
  BY EmptyText DEF Filter, BoxOK
<1>3. Job("filter", text) \in Jobs
  BY JobTyped
<1>4. jobs' \in Seq(Jobs)
  BY <1>3 DEF Filter
<1>. QED BY <1>1, <1>2, <1>4

----------------------------------------------------------------------------
(* What the user does.                                                     *)

LEMMA ActsTyped == ASSUME acts \in 0 .. MaxActs, Acts PROVE acts' \in 0 .. MaxActs
BY FilterBarAssumption DEF Acts

LEMMA UserKeeps == ASSUME IInv, User PROVE IInv'
<1>. USE DEF IInv
<1>1. CASE \E text \in Typed : Type(text)
  <2>1. ListOK'
    BY <1>1 DEF Type, ListOK, listVars
  <2>2. BoxOK'
    BY <1>1, FilterBarAssumption DEF Type, BoxOK
  <2>. QED BY <1>1, <2>1, <2>2, ActsTyped DEF Type
<1>2. ASSUME NEW dir \in {1, -1}, Highlight(dir) PROVE IInv'
  <2>1. items \in Seq(Word) /\ idx \in 0 .. Len(items) /\ items # <<>>
    BY <1>2 DEF Highlight, ListOK
  <2>2. Len(items) \in Nat /\ Len(items) > 0
    BY <2>1
  <2>3. \A n \in Nat, x \in Int : n > 0 => x % n \in 0 .. n - 1
    OBVIOUS
  <2>4. (idx - 1 + dir + Len(items)) % Len(items) \in 0 .. Len(items) - 1
    BY <2>1, <2>2, <2>3
  <2>5. idx' \in 0 .. Len(items)
    BY <1>2, <2>2, <2>4 DEF Highlight
  <2>6. ListOK'
    BY <1>2, <2>5 DEF Highlight, ListOK
  <2>7. BoxOK'
    BY <1>2 DEF Highlight, BoxOK, boxVars
  <2>. QED BY <1>2, <2>6, <2>7, ActsTyped DEF Highlight
<1>3. ASSUME NEW i \in DOMAIN items, PickComplete(i) PROVE IInv'
  <2>1. items[i] \in Word
    BY DEF ListOK
  <2>2. box' \in Text
    BY <1>3, <2>1, CompletedTyped DEF PickComplete, BoxOK
  <2>3. BoxOK'
    BY <1>3, <2>2 DEF PickComplete, BoxOK
  <2>4. ListOK'
    BY <1>3, Closed DEF PickComplete
  <2>5. Job("pick", box') \in Jobs
    BY <2>2, JobTyped
  <2>6. jobs' \in Seq(Jobs)
    BY <1>3, <2>5 DEF PickComplete
  <2>. QED BY <1>3, <2>3, <2>4, <2>6, ActsTyped DEF PickComplete
<1>4. CASE Blur
  BY <1>4, Closed, ActsTyped DEF Blur, BoxOK, boxVars
<1>5. CASE Submit
  <2>1. box \in Text
    BY DEF BoxOK
  <2>. QED BY <1>5, <2>1, Filtered, ActsTyped DEF Submit
<1>6. CASE Clear
  BY <1>6, EmptyText, Filtered, ActsTyped DEF Clear
<1>7. ASSUME NEW text \in FieldText, FilterOnField(text) PROVE IInv'
  <2>1. text \in Text
    BY FilterBarAssumption
  <2>. QED BY <1>7, <2>1, Filtered, ActsTyped DEF FilterOnField
<1>8. CASE Back
  <2>1. BoxOK'
    BY <1>8, EmptyText DEF Back, BoxOK
  <2>. QED BY <1>8, <2>1, Closed, ActsTyped DEF Back
<1>9. ASSUME NEW want \in Linked, Open(want) PROVE IInv'
  <2>1. BoxOK'
    BY <1>9, FilterBarAssumption DEF Open, BoxOK
  <2>2. ListOK'
    BY <1>9 DEF Open, ListOK, listVars
  <2>. QED BY <1>9, <2>1, <2>2, ActsTyped DEF Open
<1>. QED BY <1>1, <1>2, <1>3, <1>4, <1>5, <1>6, <1>7, <1>8, <1>9 DEF User

----------------------------------------------------------------------------
(* The answers.                                                            *)

LEMMA AnswersKeep == ASSUME IInv, Answers PROVE IInv'
<1>. USE DEF IInv
<1>1. ASSUME NEW k \in DOMAIN jobs PROVE jobs[k] \in Jobs /\ RemoveAt(jobs, k) \in Seq(Jobs)
  BY Removed
<1>2. ASSUME NEW k \in DOMAIN jobs
      PROVE jobs[k].text \in Text /\ jobs[k].fixed \in Text
  BY <1>1 DEF Jobs
<1>3. ASSUME NEW k \in DOMAIN jobs, CheckOk(k) PROVE IInv'
  <2>1. Settle(jobs[k], RemoveAt(jobs, k), TRUE, jobs[k].text)
    BY <1>3 DEF CheckOk
  <2>2. ListOK' /\ BoxOK' /\ jobs' \in Seq(Jobs)
    BY <1>1, <1>2, <2>1, Settled
  <2>. QED BY <1>3, <2>2 DEF CheckOk
<1>4. ASSUME NEW k \in DOMAIN jobs, CheckNotOk(k) PROVE IInv'
  <2>1. CASE Found(jobs[k].text) = {}
    <3>1. Settle(jobs[k], RemoveAt(jobs, k), FALSE, jobs[k].text) /\ UNCHANGED stringy
      BY <1>4, <2>1 DEF CheckNotOk
    <3>2. ListOK' /\ BoxOK' /\ jobs' \in Seq(Jobs)
      BY <1>1, <1>2, <3>1, Settled
    <3>. QED BY <1>4, <3>1, <3>2 DEF CheckNotOk
  <2>2. CASE Found(jobs[k].text) # {}
    <3>1. jobs' = [jobs EXCEPT ![k] = [jobs[k] EXCEPT !.at = "types"]]
      BY <1>4, <2>2 DEF CheckNotOk, Goes
    <3>2. [jobs[k] EXCEPT !.at = "types"] \in Jobs
      BY <1>1 DEF Jobs
    <3>3. jobs' \in Seq(Jobs)
      BY <3>1, <3>2
    <3>4. stringy' \in [Word -> {"unasked", "asked", "string", "other"}]
      BY <1>4, <2>2 DEF CheckNotOk
    <3>5. UNCHANGED <<box, draft, bad, filter, timer, listVars>>
      BY <1>4, <2>2 DEF CheckNotOk, boxVars
    <3>6. ListOK' /\ BoxOK'
      BY <3>5 DEF ListOK, BoxOK, listVars, boxVars
    <3>. QED BY <1>4, <3>3, <3>4, <3>6 DEF CheckNotOk
  <2>. QED BY <2>1, <2>2
<1>5. ASSUME NEW k \in DOMAIN jobs, Requotes(k) PROVE IInv'
  <2>. DEFINE fixed == Requoted(jobs[k].text, {w \in Word : stringy[w] = "string"})
  <2>1. fixed \in Text
    BY <1>2, RequotedTyped
  <2>2. CASE fixed = jobs[k].text
    <3>1. Settle(jobs[k], RemoveAt(jobs, k), FALSE, jobs[k].text)
      BY <1>5, <2>2 DEF Requotes
    <3>2. ListOK' /\ BoxOK' /\ jobs' \in Seq(Jobs)
      BY <1>1, <1>2, <3>1, Settled
    <3>. QED BY <1>5, <3>2 DEF Requotes
  <2>3. CASE fixed # jobs[k].text
    <3>1. jobs' = [jobs EXCEPT ![k] = [jobs[k] EXCEPT !.at = "retry", !.fixed = fixed]]
      BY <1>5, <2>3 DEF Requotes, Goes
    <3>2. [jobs[k] EXCEPT !.at = "retry", !.fixed = fixed] \in Jobs
      BY <1>1, <2>1 DEF Jobs
    <3>. HIDE DEF fixed
    <3>3. jobs' \in Seq(Jobs)
      BY <3>1, <3>2
    <3>. USE DEF fixed
    <3>4. UNCHANGED <<box, draft, bad, filter, timer, listVars>>
      BY <1>5, <2>3 DEF Requotes, boxVars
    <3>5. ListOK' /\ BoxOK'
      BY <3>4 DEF ListOK, BoxOK, listVars, boxVars
    <3>. QED BY <1>5, <3>3, <3>5 DEF Requotes
  <2>. QED BY <2>2, <2>3
<1>6. ASSUME NEW k \in DOMAIN jobs, Retry(k) PROVE IInv'
  <2>1. CASE Settle(jobs[k], RemoveAt(jobs, k), TRUE, jobs[k].fixed)
    <3>1. ListOK' /\ BoxOK' /\ jobs' \in Seq(Jobs)
      BY <1>1, <1>2, <2>1, Settled
    <3>. QED BY <1>6, <3>1 DEF Retry
  <2>2. CASE Settle(jobs[k], RemoveAt(jobs, k), FALSE, jobs[k].text)
    <3>1. ListOK' /\ BoxOK' /\ jobs' \in Seq(Jobs)
      BY <1>1, <1>2, <2>2, Settled
    <3>. QED BY <1>6, <3>1 DEF Retry
  <2>. QED BY <1>6, <2>1, <2>2 DEF Retry
<1>7. ASSUME NEW k \in DOMAIN comps, CompArrives(k) PROVE IInv'
  <2>1. comps[k] \in Word /\ comps' \in Seq(Word)
    BY <1>7, Removed DEF CompArrives, ListOK
  <2>2. items' \in Seq(Word) /\ idx' \in 0 .. Len(items')
    <3>1. CASE comps[k] = asked
      <4>1. items' = Offers[asked] /\ idx' = 0
        BY <1>7, <3>1 DEF CompArrives
      <4>2. Offers[asked] \in Seq(Word)
        BY <2>1, <3>1, FilterBarAssumption
      <4>. QED BY <4>1, <4>2
    <3>2. CASE comps[k] # asked
      BY <1>7, <3>2 DEF CompArrives, ListOK
    <3>. QED BY <3>1, <3>2
  <2>3. ListOK' /\ BoxOK'
    BY <1>7, <2>1, <2>2 DEF CompArrives, ListOK, BoxOK, boxVars
  <2>. QED BY <1>7, <2>3 DEF CompArrives
<1>8. ASSUME NEW k \in DOMAIN comps, CompFails(k) PROVE IInv'
  <2>1. comps' \in Seq(Word)
    BY <1>8, Removed DEF CompFails, ListOK
  <2>2. ListOK' /\ BoxOK'
    BY <1>8, <2>1 DEF CompFails, ListOK, BoxOK, boxVars
  <2>. QED BY <1>8, <2>2 DEF CompFails
<1>9. ASSUME NEW w \in Word, TypeArrives(w) PROVE IInv'
  <2>1. ListOK' /\ BoxOK'
    BY <1>9 DEF TypeArrives, ListOK, BoxOK, listVars, boxVars
  <2>2. stringy' \in [Word -> {"unasked", "asked", "string", "other"}]
    BY <1>9 DEF TypeArrives
  <2>. QED BY <1>9, <2>1, <2>2 DEF TypeArrives
<1>10. CASE TimerFires
  <2>1. CASE box = <<>>
    <3>1. ListOK' /\ BoxOK'
      BY <1>10, <2>1, Closed DEF TimerFires, BoxOK, boxVars
    <3>. QED BY <1>10, <2>1, <3>1 DEF TimerFires
  <2>2. CASE box # <<>>
    <3>1. ListOK' /\ BoxOK'
      BY <1>10, <2>2 DEF TimerFires, ListOK, BoxOK, listVars, boxVars
    <3>2. Job("live", box) \in Jobs
      BY JobTyped DEF BoxOK
    <3>3. jobs' \in Seq(Jobs)
      BY <1>10, <2>2, <3>2 DEF TimerFires
    <3>. QED BY <1>10, <2>2, <3>1, <3>3 DEF TimerFires
  <2>. QED BY <2>1, <2>2
<1>. QED BY <1>3, <1>4, <1>5, <1>6, <1>7, <1>8, <1>9, <1>10 DEF Answers

----------------------------------------------------------------------------
(* The theorems.                                                           *)

LEMMA StartsWell == Init => IInv
<1>. SUFFICES ASSUME Init PROVE IInv
  OBVIOUS
<1>1. box \in Text /\ filter \in Text /\ jobs \in Seq(Jobs) /\ comps \in Seq(Word)
  BY FilterBarAssumption, EmptyText, EmptySeq DEF Init
<1>2. items \in Seq(Word) /\ idx \in 0 .. Len(items)
  <2>1. Len(items) = 0
    BY DEF Init
  <2>. QED BY <2>1, EmptyText DEF Init
<1>3. acts \in 0 .. MaxActs
  BY FilterBarAssumption DEF Init
<1>. QED BY <1>1, <1>2, <1>3 DEF Init, IInv, ListOK, BoxOK

LEMMA StepsWell == IInv /\ [Next]_vars => IInv'
<1>. SUFFICES ASSUME IInv, [Next]_vars PROVE IInv'
  OBVIOUS
<1>1. CASE Answers
  BY <1>1, AnswersKeep
<1>2. CASE User
  BY <1>2, UserKeeps
<1>3. CASE UNCHANGED vars
  BY <1>3 DEF vars, boxVars, listVars, IInv, ListOK, BoxOK
<1>. QED BY <1>1, <1>2, <1>3 DEF Next

\* The invariant the rest follows from: every piece of state has its type, and the
\* field an answer is compared with (compAsked) is the one asked for since the list
\* was last closed.
THEOREM FilterBarInvariance == Spec => []IInv
<1>. QED BY StartsWell, StepsWell, PTL DEF Spec

\* The one highlighted is one of those offered, whatever list came over which, and the
\* box, the filter and what is being checked are texts (complete, moveComplete).
THEOREM FilterBarTypes == Spec => []TypeOK
<1>1. IInv => TypeOK
  BY DEF IInv, ListOK, BoxOK, TypeOK
<1>. QED BY <1>1, FilterBarInvariance, PTL

LEMMA StepOpens == IInv /\ [Next]_vars => [items' \notin {items, <<>>} => wanted # NoWord /\ items' = Offers[wanted]]_vars
<1>. SUFFICES ASSUME IInv, Next, items' \notin {items, <<>>}
              PROVE  wanted # NoWord /\ items' = Offers[wanted]
  BY DEF vars, boxVars, listVars
<1>. USE DEF CloseComplete, Complete, Settle, Filter, listVars
<1>1. ASSUME NEW k \in DOMAIN jobs PROVE ~(CheckOk(k) \/ CheckNotOk(k) \/ Requotes(k) \/ Retry(k))
  <2>1. ASSUME NEW j, NEW others, NEW ok, NEW use, Settle(j, others, ok, use) PROVE FALSE
    BY <2>1
  <2>. HIDE DEF Settle
  <2>2. ~CheckOk(k)
    BY <2>1 DEF CheckOk
  <2>3. ~CheckNotOk(k)
    BY <2>1 DEF CheckNotOk
  <2>4. ~Requotes(k)
    BY <2>1 DEF Requotes
  <2>5. ~Retry(k)
    BY <2>1 DEF Retry
  <2>. QED BY <2>2, <2>3, <2>4, <2>5
<1>2. ASSUME NEW w \in Word PROVE ~TypeArrives(w)
  BY DEF TypeArrives
<1>3. ~TimerFires
  BY DEF TimerFires
<1>4. ASSUME NEW k \in DOMAIN comps PROVE ~CompFails(k)
  BY DEF CompFails
<1>5. ~User
  <2>1. ~\E text \in Typed : Type(text)
    BY DEF Type
  <2>2. ~\E dir \in {1, -1} : Highlight(dir)
    BY DEF Highlight
  <2>3. ~\E i \in DOMAIN items : PickComplete(i)
    BY DEF PickComplete
  <2>4. ~Blur /\ ~Back /\ ~\E want \in Linked : Open(want)
    BY DEF Blur, Back, Open
  <2>5. ~Submit /\ ~Clear /\ ~\E text \in FieldText : FilterOnField(text)
    BY DEF Submit, Clear, FilterOnField
  <2>. QED BY <2>1, <2>2, <2>3, <2>4, <2>5 DEF User
<1>6. PICK k \in DOMAIN comps : CompArrives(k)
  BY <1>1, <1>2, <1>3, <1>4, <1>5 DEF Next, Answers
<1>7. comps[k] = asked /\ items' = Offers[asked]
  BY <1>6 DEF CompArrives
<1>8. comps[k] \in Word /\ asked = wanted
  BY DEF IInv, ListOK
<1>. QED BY <1>7, <1>8, FilterBarAssumption

\* A list of field names opens on the answer for what was asked last, and never on what
\* was asked before it was closed (complete, closeComplete), however the answers come.
THEOREM OffersAreCurrent == Spec => OpensForLastAsked
<1>. QED BY FilterBarInvariance, StepOpens, PTL DEF Spec, OpensForLastAsked

LEMMA StepFilters ==
  IInv /\ [Next]_vars =>
    [filter' # filter =>
       \/ box' = filter' /\ (filter' = <<>> \/ filter' \in Accepts)
       \/ \E want \in Linked : Open(want)]_vars
<1>. SUFFICES ASSUME IInv, Next, filter' # filter, ~\E want \in Linked : Open(want)
              PROVE  box' = filter' /\ (filter' = <<>> \/ filter' \in Accepts)
  BY DEF vars
<1>0. \A j, others, use : ~Settle(j, others, FALSE, use)
  BY DEF Settle
<1>1. \A j, others, use : Settle(j, others, TRUE, use) => box' = use /\ filter' = use
  BY DEF Settle
<1>2. ASSUME NEW k \in DOMAIN jobs, CheckOk(k) PROVE box' = filter' /\ filter' \in Accepts
  <2>1. Settle(jobs[k], RemoveAt(jobs, k), TRUE, jobs[k].text) /\ jobs[k].text \in Accepts
    BY <1>2 DEF CheckOk
  <2>. QED BY <1>1, <2>1
<1>3. ASSUME NEW k \in DOMAIN jobs PROVE ~CheckNotOk(k)
  BY <1>0 DEF CheckNotOk
<1>4. ASSUME NEW k \in DOMAIN jobs PROVE ~Requotes(k)
  BY <1>0 DEF Requotes
<1>5. ASSUME NEW k \in DOMAIN jobs, Retry(k) PROVE box' = filter' /\ filter' \in Accepts
  <2>1. ~Settle(jobs[k], RemoveAt(jobs, k), FALSE, jobs[k].text)
    BY <1>0
  <2>2. Settle(jobs[k], RemoveAt(jobs, k), TRUE, jobs[k].fixed) /\ jobs[k].fixed \in Accepts
    BY <1>5, <2>1 DEF Retry
  <2>. QED BY <1>1, <2>2
<1>6. CASE TimerFires \/ (\E w \in Word : TypeArrives(w)) \/ (\E k \in DOMAIN comps : CompArrives(k) \/ CompFails(k))
  BY <1>6 DEF TimerFires, TypeArrives, CompArrives, CompFails
<1>7. CASE User
  <2>1. ASSUME NEW text, NEW others, Filter(text, others) PROVE box' = filter' /\ filter' = <<>>
    BY <2>1 DEF Filter
  <2>2. Submit \/ Clear \/ \E text \in FieldText : FilterOnField(text)
    BY <1>7 DEF User, Type, Highlight, PickComplete, Blur, Back
  <2>. QED BY <2>1, <2>2 DEF Submit, Clear, FilterOnField
<1>. QED BY <1>2, <1>3, <1>4, <1>5, <1>6, <1>7 DEF Next, Answers

\* What frames come to be filtered by is nothing or a text that compiles, and the box then
\* reads it (filter, compile), whatever is typed while the check is out - or what a capture
\* is opened with (openCapture).
THEOREM FilterIsWritten == Spec => FiltersOnWhatCompiled
<1>. QED BY FilterBarInvariance, StepFilters, PTL DEF Spec, FiltersOnWhatCompiled

\* A job that is taken out leaves the others.
LEMMA OthersStay ==
  ASSUME NEW S, NEW s \in Seq(S), NEW k \in DOMAIN s, NEW i \in DOMAIN s, i # k
  PROVE  \E j \in DOMAIN RemoveAt(s, k) : RemoveAt(s, k)[j] = s[i]
<1>. DEFINE front == SubSeq(s, 1, k - 1)  back == SubSeq(s, k + 1, Len(s))
<1>1. front \in Seq(S) /\ back \in Seq(S) /\ Len(front) = k - 1 /\ Len(back) = Len(s) - k
  OBVIOUS
<1>2. \A x \in 1 .. k - 1 : front[x] = s[x]
  OBVIOUS
<1>3. \A x \in 1 .. Len(s) - k : back[x] = s[k + x]
  OBVIOUS
<1>4. RemoveAt(s, k) = front \o back
  BY DEF RemoveAt
<1>5. k \in 1 .. Len(s) /\ i \in 1 .. Len(s) /\ Len(s) \in Nat
  OBVIOUS
<1>. HIDE DEF front, back
<1>6. DOMAIN (front \o back) = 1 .. Len(s) - 1
  <2>1. front \o back \in Seq(S) /\ Len(front \o back) = Len(front) + Len(back)
    BY <1>1
  <2>2. Len(front) + Len(back) = Len(s) - 1
    BY <1>1, <1>5
  <2>. QED BY <2>1, <2>2
<1>7. \A x \in 1 .. Len(s) - 1 : (front \o back)[x] = IF x <= k - 1 THEN front[x] ELSE back[x - (k - 1)]
  <2>1. \A x \in 1 .. Len(front) + Len(back) :
          (front \o back)[x] = IF x <= Len(front) THEN front[x] ELSE back[x - Len(front)]
    BY <1>1
  <2>. QED BY <1>1, <1>5, <2>1
<1>8. CASE i < k
  <2>1. i \in 1 .. Len(s) - 1 /\ i <= k - 1 /\ i \in 1 .. k - 1
    BY <1>5, <1>8
  <2>2. (front \o back)[i] = s[i]
    BY <1>2, <1>7, <2>1
  <2>. QED BY <1>4, <1>6, <2>1, <2>2
<1>9. CASE i > k
  <2>1. i - 1 \in 1 .. Len(s) - 1 /\ ~(i - 1 <= k - 1) /\ i - 1 - (k - 1) = i - k /\ i - k \in 1 .. Len(s) - k
    BY <1>5, <1>9
  <2>2. (front \o back)[i - 1] = back[i - k]
    BY <1>7, <2>1
  <2>3. back[i - k] = s[i]
    <3>1. back[i - k] = s[k + (i - k)]
      BY <1>3, <2>1
    <3>. QED BY <1>5, <3>1
  <2>. QED BY <1>4, <1>6, <2>1, <2>2, <2>3
<1>. QED BY <1>5, <1>8, <1>9

Filtering(t) == \E k \in DOMAIN jobs : jobs[k].who = "filter" /\ jobs[k].text = t

LEMMA FilteringOn ==
  ASSUME IInv, NEW t
  PROVE  /\ \A k \in DOMAIN jobs :
              jobs' = RemoveAt(jobs, k) /\ Filtering(t) =>
                Filtering(t)' \/ (jobs[k].who = "filter" /\ jobs[k].text = t)
         /\ \A k \in DOMAIN jobs, j \in Jobs :
              jobs' = [jobs EXCEPT ![k] = j] /\ j.who = jobs[k].who /\ j.text = jobs[k].text /\ Filtering(t) =>
                Filtering(t)'
         /\ \A j \in Jobs :
              jobs' = Append(jobs, j) => (Filtering(t) => Filtering(t)') /\ (j.who = "filter" /\ j.text = t => Filtering(t)')
         /\ jobs' = jobs /\ Filtering(t) => Filtering(t)'
<1>1. jobs \in Seq(Jobs)
  BY DEF IInv
<1>2. ASSUME NEW k \in DOMAIN jobs, jobs' = RemoveAt(jobs, k), Filtering(t), ~(jobs[k].who = "filter" /\ jobs[k].text = t)
      PROVE  Filtering(t)'
  <2>1. PICK i \in DOMAIN jobs : jobs[i].who = "filter" /\ jobs[i].text = t
    BY <1>2 DEF Filtering
  <2>2. \E j \in DOMAIN RemoveAt(jobs, k) : RemoveAt(jobs, k)[j] = jobs[i]
    BY <1>1, <1>2, <2>1, OthersStay
  <2>. QED BY <1>2, <2>1, <2>2 DEF Filtering
<1>3. ASSUME NEW k \in DOMAIN jobs, NEW j \in Jobs, jobs' = [jobs EXCEPT ![k] = j],
             j.who = jobs[k].who, j.text = jobs[k].text, Filtering(t)
      PROVE  Filtering(t)'
  BY <1>1, <1>3 DEF Filtering
<1>4. ASSUME NEW j \in Jobs, jobs' = Append(jobs, j)
      PROVE  (Filtering(t) => Filtering(t)') /\ (j.who = "filter" /\ j.text = t => Filtering(t)')
  <2>1. DOMAIN jobs = 1 .. Len(jobs) /\ DOMAIN jobs' = 1 .. Len(jobs) + 1 /\ Len(jobs) \in Nat
    BY <1>1, <1>4
  <2>2. \A i \in 1 .. Len(jobs) : i \in 1 .. Len(jobs) + 1 /\ jobs'[i] = jobs[i]
    BY <1>1, <1>4
  <2>3. Len(jobs) + 1 \in 1 .. Len(jobs) + 1 /\ jobs'[Len(jobs) + 1] = j
    BY <1>1, <1>4
  <2>. QED BY <2>1, <2>2, <2>3 DEF Filtering
<1>5. jobs' = jobs /\ Filtering(t) => Filtering(t)'
  BY DEF Filtering
<1>. QED BY <1>2, <1>3, <1>4, <1>5

BoxSays == open /\ ~draft => box = filter \/ Filtering(box)

LEMMA FilterSays ==
  ASSUME IInv, NEW text \in Text, Filter(text, jobs)
  PROVE  BoxSays'
<1>1. box' = text
  BY DEF Filter
<1>2. CASE text = <<>>
  BY <1>1, <1>2 DEF Filter, BoxSays
<1>3. CASE text # <<>>
  <2>1. jobs' = Append(jobs, Job("filter", text)) /\ Job("filter", text) \in Jobs
    BY <1>3, JobTyped DEF Filter
  <2>2. Job("filter", text).who = "filter" /\ Job("filter", text).text = box'
    BY <1>1 DEF Job
  <2>3. Filtering(text)'
    BY <1>1, <2>1, <2>2, FilteringOn
  <2>. QED BY <1>1, <2>3 DEF BoxSays, Filtering
<1>. QED BY <1>2, <1>3

LEMMA SettleSays ==
  ASSUME IInv, BoxSays, NEW k \in DOMAIN jobs, NEW ok \in BOOLEAN, NEW use, UNCHANGED open,
         Settle(jobs[k], RemoveAt(jobs, k), ok, use)
  PROVE  BoxSays'
<1>1. jobs' = RemoveAt(jobs, k)
  BY DEF Settle
<1>2. CASE jobs[k].who = "filter" /\ ok
  BY <1>2 DEF Settle, BoxSays
<1>3. CASE jobs[k].who = "filter" /\ ~ok
  <2>1. box' = box /\ filter' = filter /\ (draft' <=> draft \/ box = jobs[k].text)
    BY <1>3 DEF Settle
  <2>2. Filtering(box) => Filtering(box)' \/ jobs[k].text = box
    BY <1>1, <2>1, FilteringOn
  <2>. QED BY <2>1, <2>2 DEF BoxSays
<1>4. CASE jobs[k].who # "filter"
  <2>1. box' = box /\ filter' = filter /\ draft' = draft
    BY <1>4 DEF Settle, boxVars
  <2>2. Filtering(box) => Filtering(box)'
    BY <1>1, <1>4, <2>1, FilteringOn
  <2>. QED BY <2>1, <2>2 DEF BoxSays
<1>. QED BY <1>2, <1>3, <1>4

LEMMA StepSays == IInv /\ BoxSays /\ [Next]_vars => BoxSays'
<1>. SUFFICES ASSUME IInv, BoxSays, [Next]_vars PROVE BoxSays'
  OBVIOUS
<1>0. ASSUME NEW k \in DOMAIN jobs PROVE jobs[k] \in Jobs
  BY DEF IInv
\* Neither the box nor what is being compiled to be filtered on is touched.
<1>1. ASSUME UNCHANGED <<open, boxVars, filter>>, Filtering(box) => Filtering(box)' PROVE BoxSays'
  BY <1>1 DEF BoxSays, boxVars
<1>2. ASSUME UNCHANGED jobs, UNCHANGED box PROVE Filtering(box) => Filtering(box)'
  BY <1>2 DEF Filtering
<1>3. ASSUME NEW k \in DOMAIN jobs, NEW j \in Jobs, jobs' = [jobs EXCEPT ![k] = j],
             j.who = jobs[k].who, j.text = jobs[k].text, UNCHANGED <<open, boxVars, filter>>
      PROVE  BoxSays'
  <2>1. box' = box
    BY <1>3 DEF boxVars
  <2>2. Filtering(box) => Filtering(box)'
    BY <1>3, <2>1, FilteringOn
  <2>. QED BY <1>1, <1>3, <2>2
<1>4. ASSUME NEW k \in DOMAIN jobs, CheckOk(k) PROVE BoxSays'
  BY <1>4, SettleSays DEF CheckOk
<1>5. ASSUME NEW k \in DOMAIN jobs, CheckNotOk(k) PROVE BoxSays'
  <2>1. CASE Found(jobs[k].text) = {}
    BY <1>5, <2>1, SettleSays DEF CheckNotOk
  <2>2. CASE Found(jobs[k].text) # {}
    <3>. DEFINE j == [jobs[k] EXCEPT !.at = "types"]
    <3>1. j \in Jobs /\ j.who = jobs[k].who /\ j.text = jobs[k].text
      BY <1>0 DEF Jobs
    <3>2. jobs' = [jobs EXCEPT ![k] = j] /\ UNCHANGED <<open, boxVars, filter>>
      BY <1>5, <2>2 DEF CheckNotOk, Goes
    <3>. HIDE DEF j
    <3>. QED BY <1>3, <3>1, <3>2
  <2>. QED BY <2>1, <2>2
<1>6. ASSUME NEW k \in DOMAIN jobs, Requotes(k) PROVE BoxSays'
  <2>. DEFINE fixed == Requoted(jobs[k].text, {w \in Word : stringy[w] = "string"})
  <2>1. CASE fixed = jobs[k].text
    BY <1>6, <2>1, SettleSays DEF Requotes
  <2>2. CASE fixed # jobs[k].text
    <3>. DEFINE j == [jobs[k] EXCEPT !.at = "retry", !.fixed = fixed]
    <3>1. fixed \in Text
      BY <1>0, RequotedTyped DEF Jobs
    <3>2. jobs' = [jobs EXCEPT ![k] = j] /\ UNCHANGED <<open, boxVars, filter>>
      BY <1>6, <2>2 DEF Requotes, Goes
    <3>. HIDE DEF fixed
    <3>3. j \in Jobs /\ j.who = jobs[k].who /\ j.text = jobs[k].text
      BY <1>0, <3>1 DEF Jobs
    <3>. HIDE DEF j
    <3>. QED BY <1>3, <3>2, <3>3
  <2>. QED BY <2>1, <2>2
<1>7. ASSUME NEW k \in DOMAIN jobs, Retry(k) PROVE BoxSays'
  BY <1>7, SettleSays DEF Retry
<1>8. CASE (\E w \in Word : TypeArrives(w)) \/ (\E k \in DOMAIN comps : CompArrives(k) \/ CompFails(k))
           \/ (\E dir \in {1, -1} : Highlight(dir)) \/ Blur \/ UNCHANGED vars
  BY <1>1, <1>2, <1>8 DEF TypeArrives, CompArrives, CompFails, Highlight, Blur, vars, boxVars
<1>9. CASE TimerFires
  <2>1. CASE box = <<>>
    BY <1>1, <1>2, <1>9, <2>1 DEF TimerFires, boxVars
  <2>2. CASE box # <<>>
    <3>1. Job("live", box) \in Jobs /\ jobs' = Append(jobs, Job("live", box)) /\ UNCHANGED <<open, boxVars, filter>>
      BY <1>9, <2>2, JobTyped DEF TimerFires, IInv, BoxOK
    <3>2. box' = box
      BY <3>1 DEF boxVars
    <3>3. Filtering(box) => Filtering(box)'
      BY <3>1, <3>2, FilteringOn
    <3>. QED BY <1>1, <3>1, <3>3
  <2>. QED BY <2>1, <2>2
<1>10. CASE \/ \E text \in Typed : Type(text)
            \/ \E i \in DOMAIN items : PickComplete(i)
            \/ Back
            \/ \E want \in Linked : Open(want)
  BY <1>10 DEF Type, PickComplete, Back, Open, BoxSays
<1>11. CASE Submit \/ Clear \/ \E text \in FieldText : FilterOnField(text)
  BY <1>11, EmptyText, FilterBarAssumption, FilterSays DEF Submit, Clear, FilterOnField, IInv, BoxOK
<1>. QED BY <1>4, <1>5, <1>6, <1>7, <1>8, <1>9, <1>10, <1>11 DEF Next, Answers, User

\* The box says what is filtered on or what is being compiled to be, unless it was typed in
\* since or what it says was refused - for any texts, links and number of checks under way
\* (filter, pickComplete, openCapture).
THEOREM SpecBoxIsFilter == Spec => []BoxIsFilter
<1>1. Init => BoxSays
  BY DEF Init, BoxSays
<1>2. BoxSays => BoxIsFilter
  BY DEF BoxSays, BoxIsFilter, Filtering
<1>. QED BY <1>1, <1>2, StepSays, FilterBarInvariance, PTL DEF Spec

\* Of any text at all, the values found are ones that stand where a comparison's value or a
\* set's members stand, and all of those that are not behind a quoted member of their set;
\* quoting twice is quoting once, whichever of the fields take a string (requote).
THEOREM SpecQuotes == Spec => []QuotesWhatIsCompared
<1>1. IInv => QuotesWhatIsCompared
  <2>. SUFFICES ASSUME IInv PROVE QuotesWhatIsCompared
    OBVIOUS
  <2>1. box \in Text
    BY DEF IInv, BoxOK
  <2>2. \A takes : Requoted(Requoted(box, takes), takes) = Requoted(box, takes)
    BY <2>1, RequotedTyped, QuotedOnce
  <2>. QED BY <2>1, <2>2, FoundIsReached, ReachedAreCompared DEF QuotesWhatIsCompared
<1>. QED BY <1>1, FilterBarInvariance, PTL
=============================================================================

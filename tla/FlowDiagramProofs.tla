-------------------------- MODULE FlowDiagramProofs --------------------------
(***************************************************************************)
(* What FlowDiagram keeps, for any captures, filters and spellings, and    *)
(* any number of pages, hides and filters under way.                       *)
(***************************************************************************)
EXTENDS FlowDiagram, SequenceTheorems, FiniteSetTheorems, TLAPS

----------------------------------------------------------------------------
(* Numbers in order, and sequences made of others.                         *)

\* How many numbers of a set are before one of them says which it is.
LEMMA Places ==
  ASSUME NEW is \in SUBSET Nat, IsFiniteSet(is)
  PROVE  /\ Cardinality(is) \in Nat
         /\ \A i, j \in is : i < j => Cardinality({k \in is : k < i}) < Cardinality({k \in is : k < j})
         /\ \A n \in 1 .. Cardinality(is) : \E i \in is : Cardinality({k \in is : k < i}) = n - 1
<1>. DEFINE Before(i) == {k \in is : k < i}
            n == Cardinality(is)
            Spot == [i \in is |-> Cardinality(Before(i)) + 1]
<1>1. n \in Nat
  BY FS_CardinalityType
<1>2. ASSUME NEW i \in is
      PROVE  /\ IsFiniteSet(Before(i)) /\ Cardinality(Before(i)) \in Nat
             /\ Cardinality(Before(i)) < n
  <2>1. Before(i) \in SUBSET is /\ i \notin Before(i)
    OBVIOUS
  <2>2. IsFiniteSet(Before(i)) /\ Cardinality(Before(i)) <= n /\ (n = Cardinality(Before(i)) => is = Before(i))
    <3>. HIDE DEF Before
    <3>. QED BY <2>1, FS_Subset
  <2>3. Cardinality(Before(i)) \in Nat
    <3>. HIDE DEF Before
    <3>. QED BY <2>2, FS_CardinalityType
  <2>. QED BY <1>1, <2>1, <2>2, <2>3
<1>3. ASSUME NEW i \in is, NEW j \in is, i < j
      PROVE  Cardinality(Before(i)) < Cardinality(Before(j))
  <2>1. Before(i) \in SUBSET Before(j) /\ i \in Before(j) /\ i \notin Before(i)
    <3>1. i \in Nat /\ j \in Nat /\ \A k \in is : k \in Nat
      OBVIOUS
    <3>2. \A k \in is : k < i => k < j
      BY <1>3, <3>1
    <3>3. Before(i) \in SUBSET Before(j)
      BY <3>2, Zenon
    <3>4. i \in Before(j)
      BY <1>3
    <3>5. i \notin Before(i)
      BY <3>1
    <3>. QED BY <3>3, <3>4, <3>5
  <2>. HIDE DEF Before
  <2>2. Cardinality(Before(i)) <= Cardinality(Before(j))
        /\ (Cardinality(Before(j)) = Cardinality(Before(i)) => Before(j) = Before(i))
    BY <1>2, <2>1, FS_Subset
  <2>. QED BY <1>2, <2>1, <2>2
<1>4. Spot \in [is -> 1 .. n]
  <2>. HIDE DEF Before, n
  <2>. QED BY <1>1, <1>2
<1>5. \A i, j \in is : Spot[i] = Spot[j] => i = j
  <2>. SUFFICES ASSUME NEW i \in is, NEW j \in is, Spot[i] = Spot[j] PROVE i = j
    OBVIOUS
  <2>. HIDE DEF Before
  <2>1. Cardinality(Before(i)) = Cardinality(Before(j))
    BY <1>2
  <2>2. i \in Nat /\ j \in Nat
    OBVIOUS
  <2>. QED BY <1>2, <1>3, <2>1, <2>2
<1>6. Spot \in Injection(is, 1 .. n)
  <2>. HIDE DEF Spot, n
  <2>. QED BY <1>4, <1>5 DEF Injection, IsInjective
<1>7. IsFiniteSet(1 .. n) /\ Cardinality(1 .. n) = n
  <2>. HIDE DEF n
  <2>. QED BY <1>1, FS_Interval
<1>8. Spot \in Surjection(is, 1 .. n)
  <2>. HIDE DEF Spot
  <2>. QED BY <1>6, <1>7, FS_Injection
<1>9. ASSUME NEW m \in 1 .. n
      PROVE  \E i \in is : Cardinality(Before(i)) = m - 1
  <2>1. PICK i \in is : Spot[i] = m
    <3>. HIDE DEF Spot, n
    <3>. QED BY <1>8 DEF Surjection
  <2>. HIDE DEF Before
  <2>. QED BY <1>1, <1>2, <2>1
<1>. QED BY <1>1, <1>3, <1>9

\* Every number is there, once, and they are in order.
LEMMA Ordered ==
  ASSUME NEW is \in SUBSET Nat, IsFiniteSet(is)
  PROVE  LET n == Cardinality(is) IN
         /\ n \in Nat /\ InOrder(is) \in [1 .. n -> is]
         /\ \A i \in is : \E k \in 1 .. n : InOrder(is)[k] = i
         /\ \A k, m \in 1 .. n : InOrder(is)[k] = InOrder(is)[m] => k = m
         /\ \A k \in 1 .. n : Cardinality({j \in is : j < InOrder(is)[k]}) = k - 1
<1>. DEFINE Before(i) == {k \in is : k < i}
            n == Cardinality(is)
            s == InOrder(is)
<1>1. n \in Nat
  BY Places
<1>2. s = [k \in 1 .. n |-> CHOOSE i \in is : Cardinality(Before(i)) = k - 1]
  BY DEF InOrder
<1>. HIDE DEF s
<1>3. \A k \in 1 .. n : s[k] \in is /\ Cardinality(Before(s[k])) = k - 1
  <2>. TAKE k \in 1 .. n
  <2>1. \E i \in is : Cardinality(Before(i)) = k - 1
    BY Places
  <2>. HIDE DEF Before, n
  <2>. QED BY <1>2, <2>1
<1>4. DOMAIN s = 1 .. n /\ s \in [1 .. n -> is]
  <2>. HIDE DEF Before, n
  <2>. QED BY <1>2, <1>3
<1>5. ASSUME NEW i \in is
      PROVE  \E k \in 1 .. n : s[k] = i
  <2>. DEFINE k == Cardinality(Before(i)) + 1
  <2>1. Before(i) \in SUBSET is /\ i \notin Before(i) /\ i \in is
    OBVIOUS
  <2>2. k \in 1 .. n
    <3>. HIDE DEF Before
    <3>1. IsFiniteSet(Before(i)) /\ Cardinality(Before(i)) <= n /\ (n = Cardinality(Before(i)) => is = Before(i))
      BY <2>1, FS_Subset
    <3>2. Cardinality(Before(i)) \in Nat
      BY <3>1, FS_CardinalityType
    <3>. QED BY <1>1, <2>1, <3>1, <3>2
  <2>3. s[k] \in is /\ Cardinality(Before(s[k])) = Cardinality(Before(i))
    <3>1. s[k] \in is /\ Cardinality(Before(s[k])) = k - 1
      BY <1>3, <2>2
    <3>2. Cardinality(Before(i)) \in Nat
      BY <2>1, FS_Subset, FS_CardinalityType
    <3>. HIDE DEF Before
    <3>. QED BY <3>1, <3>2
  <2>4. s[k] = i
    <3>1. \A a, b \in is : a < b => Cardinality(Before(a)) < Cardinality(Before(b))
      BY Places
    <3>2. \A a \in is : Cardinality(Before(a)) \in Nat
      <4>1. \A a \in is : Before(a) \in SUBSET is
        OBVIOUS
      <4>. HIDE DEF Before
      <4>. QED BY <4>1, FS_Subset, FS_CardinalityType
    <3>. HIDE DEF Before, k
    <3>3. s[k] \in Nat /\ i \in Nat
      BY <2>3
    <3>4. ~(s[k] < i)
      <4>1. s[k] < i => Cardinality(Before(s[k])) < Cardinality(Before(i))
        BY <2>3, <3>1
      <4>. QED BY <2>3, <3>2, <4>1
    <3>5. ~(i < s[k])
      <4>1. i < s[k] => Cardinality(Before(i)) < Cardinality(Before(s[k]))
        BY <2>3, <3>1
      <4>. QED BY <2>3, <3>2, <4>1
    <3>. QED BY <3>3, <3>4, <3>5
  <2>. QED BY <2>2, <2>4
<1>6. \A k, m \in 1 .. n : s[k] = s[m] => k = m
  <2>. HIDE DEF Before
  <2>. QED BY <1>1, <1>3
<1>. QED BY <1>1, <1>3, <1>4, <1>5, <1>6 DEF s
\* The first numbers, in order, are themselves.
LEMMA AllInOrder == ASSUME NEW n \in Nat PROVE InOrder(1 .. n) = [k \in 1 .. n |-> k]
<1>1. 1 .. n \in SUBSET Nat /\ IsFiniteSet(1 .. n) /\ Cardinality(1 .. n) = n
  BY FS_Interval
<1>2. ASSUME NEW k \in 1 .. n
      PROVE  Cardinality({j \in 1 .. n : j < k}) = k - 1
  <2>1. {j \in 1 .. n : j < k} = 1 .. k - 1
    OBVIOUS
  <2>2. 1 \in Int /\ k - 1 \in Int /\ k - 1 \in Nat
    OBVIOUS
  <2>3. Cardinality(1 .. k - 1) = IF 1 > k - 1 THEN 0 ELSE (k - 1) - 1 + 1
    BY <2>2, FS_Interval
  <2>. QED BY <2>1, <2>2, <2>3
<1>. DEFINE s == InOrder(1 .. n)
<1>3. s \in [1 .. n -> 1 .. n] /\ \A k \in 1 .. n : Cardinality({j \in 1 .. n : j < s[k]}) = k - 1
  BY <1>1, Ordered
<1>. HIDE DEF s
<1>4. \A k \in 1 .. n : s[k] = k
  <2>. TAKE k \in 1 .. n
  <2>1. s[k] \in 1 .. n
    BY <1>3
  <2>2. Cardinality({j \in 1 .. n : j < s[k]}) = s[k] - 1
    BY <1>2, <2>1
  <2>. QED BY <1>3, <2>1, <2>2
<1>. QED BY <1>3, <1>4 DEF s

\* What of a sequence is at some of its places: nothing else, and nothing twice that was
\* not there twice.
LEMMA PickedOut ==
  ASSUME NEW S, NEW s \in Seq(S), NEW is \in SUBSET DOMAIN s
  PROVE  /\ At(s, is) \in Seq({s[i] : i \in is}) /\ At(s, is) \in Seq(S)
         /\ Len(At(s, is)) = Cardinality(is) /\ IsFiniteSet(is)
         /\ Range(At(s, is)) = {s[i] : i \in is}
         /\ (\A i, j \in is : s[i] = s[j] => i = j) => IsInjective(At(s, is))
<1>. DEFINE n == Cardinality(is)
            o == InOrder(is)
            t == At(s, is)
            T == {s[i] : i \in is}
<1>1. IsFiniteSet(is) /\ is \in SUBSET Nat
  <2>1. DOMAIN s = 1 .. Len(s) /\ Len(s) \in Nat
    OBVIOUS
  <2>2. IsFiniteSet(1 .. Len(s))
    BY <2>1, FS_Interval
  <2>. QED BY <2>1, <2>2, FS_Subset
<1>2. /\ n \in Nat /\ o \in [1 .. n -> is]
      /\ \A i \in is : \E k \in 1 .. n : o[k] = i
      /\ \A k, m \in 1 .. n : o[k] = o[m] => k = m
  BY <1>1, Ordered
<1>3. t = [k \in DOMAIN o |-> s[o[k]]]
  BY DEF At
<1>. HIDE DEF o, n, t
<1>4. t = [k \in 1 .. n |-> s[o[k]]] /\ \A k \in 1 .. n : o[k] \in is
  BY <1>2, <1>3
<1>5. t \in [1 .. n -> T]
  BY <1>4
<1>6. T \subseteq S
  OBVIOUS
<1>. HIDE DEF T
<1>7. t \in Seq(T) /\ Len(t) = n
  BY <1>2, <1>5
<1>8. t \in Seq(S)
  <2>1. t \in [1 .. n -> S]
    BY <1>5, <1>6
  <2>. QED BY <1>2, <2>1
<1>9. Range(t) = T
  <2>1. \A i \in is : \E k \in 1 .. n : t[k] = s[i]
    BY <1>2, <1>4
  <2>2. DOMAIN t = 1 .. n /\ \A k \in DOMAIN t : t[k] \in T
    BY <1>5
  <2>. QED BY <2>1, <2>2 DEF Range, T
<1>10. ASSUME \A i, j \in is : s[i] = s[j] => i = j
       PROVE  IsInjective(t)
  <2>1. DOMAIN t = 1 .. n /\ \A k \in 1 .. n : t[k] = s[o[k]]
    BY <1>4
  <2>2. ASSUME NEW k \in 1 .. n, NEW m \in 1 .. n, t[k] = t[m] PROVE k = m
    <3>1. s[o[k]] = s[o[m]] /\ o[k] \in is /\ o[m] \in is
      BY <1>4, <2>1, <2>2
    <3>2. o[k] = o[m]
      BY <1>10, <3>1
    <3>. QED BY <1>2, <3>2
  <2>. QED BY <2>1, <2>2 DEF IsInjective
<1>. QED BY <1>1, <1>7, <1>8, <1>9, <1>10 DEF t, n, T

LEMMA AllPickedOut == ASSUME NEW S, NEW s \in Seq(S) PROVE At(s, DOMAIN s) = s
<1>1. DOMAIN s = 1 .. Len(s) /\ Len(s) \in Nat /\ s = [k \in 1 .. Len(s) |-> s[k]]
  OBVIOUS
<1>2. InOrder(DOMAIN s) = [k \in 1 .. Len(s) |-> k]
  BY <1>1, AllInOrder
<1>. QED BY <1>1, <1>2 DEF At

LEMMA NonePickedOut == ASSUME NEW s PROVE At(s, {}) = <<>>
<1>1. Cardinality({}) = 0
  BY FS_EmptySet
<1>2. DOMAIN InOrder({}) = {}
  BY <1>1 DEF InOrder
<1>. QED BY <1>2 DEF At

\* Two sequences that have nothing in common and nothing twice, one behind the other.
LEMMA Behind ==
  ASSUME NEW S, NEW s \in Seq(S), NEW t \in Seq(S)
  PROVE  /\ s \o t \in Seq(S) /\ Range(s \o t) = Range(s) \cup Range(t)
         /\ IsInjective(s) /\ IsInjective(t) /\ Range(s) \cap Range(t) = {} => IsInjective(s \o t)
         /\ IsPrefix(s, s \o t)
<1>. DEFINE u == s \o t
<1>1. /\ u \in Seq(S) /\ Len(u) = Len(s) + Len(t) /\ Len(s) \in Nat /\ Len(t) \in Nat
      /\ DOMAIN s = 1 .. Len(s) /\ DOMAIN t = 1 .. Len(t) /\ DOMAIN u = 1 .. Len(s) + Len(t)
      /\ \A i \in 1 .. Len(s) : u[i] = s[i]
      /\ \A i \in Len(s) + 1 .. Len(s) + Len(t) : u[i] = t[i - Len(s)] /\ i - Len(s) \in 1 .. Len(t)
  OBVIOUS
<1>2. \A i \in 1 .. Len(t) : u[Len(s) + i] = t[i] /\ Len(s) + i \in DOMAIN u
  OBVIOUS
<1>. HIDE DEF u
<1>3. \A i \in DOMAIN u : i \in 1 .. Len(s) \/ i \in Len(s) + 1 .. Len(s) + Len(t)
  BY <1>1
<1>4. Range(u) = Range(s) \cup Range(t)
  <2>1. \A i \in DOMAIN u : u[i] \in Range(s) \cup Range(t)
    BY <1>1, <1>3 DEF Range
  <2>2. \A i \in DOMAIN s : i \in DOMAIN u /\ u[i] = s[i]
    BY <1>1
  <2>3. \A i \in DOMAIN t : u[Len(s) + i] = t[i] /\ Len(s) + i \in DOMAIN u
    BY <1>1, <1>2
  <2>. QED BY <2>1, <2>2, <2>3 DEF Range
<1>5. ASSUME IsInjective(s), IsInjective(t), Range(s) \cap Range(t) = {}
      PROVE  IsInjective(u)
  <2>. SUFFICES ASSUME NEW i \in DOMAIN u, NEW j \in DOMAIN u, u[i] = u[j] PROVE i = j
    BY DEF IsInjective
  <2>1. CASE i \in 1 .. Len(s) /\ j \in 1 .. Len(s)
    BY <1>1, <1>5, <2>1 DEF IsInjective
  <2>2. CASE i \in Len(s) + 1 .. Len(s) + Len(t) /\ j \in Len(s) + 1 .. Len(s) + Len(t)
    <3>1. i - Len(s) = j - Len(s)
      BY <1>1, <1>5, <2>2 DEF IsInjective
    <3>. QED BY <1>1, <2>2, <3>1
  <2>3. \A a \in 1 .. Len(s), b \in Len(s) + 1 .. Len(s) + Len(t) : u[a] # u[b]
    <3>1. \A a \in 1 .. Len(s) : u[a] \in Range(s)
      BY <1>1 DEF Range
    <3>2. \A b \in Len(s) + 1 .. Len(s) + Len(t) : u[b] \in Range(t)
      BY <1>1 DEF Range
    <3>. QED BY <1>5, <3>1, <3>2
  <2>. QED BY <1>3, <2>1, <2>2, <2>3
<1>6. IsPrefix(s, u)
  <2>1. Len(s) <= Len(u)
    BY <1>1
  <2>2. SubSeq(s, 1, Len(s)) = s
    OBVIOUS
  <2>3. SubSeq(u, 1, Len(s)) = s
    <3>1. SubSeq(u, 1, Len(s)) = [i \in 1 .. Len(s) |-> u[i]]
      BY <1>1
    <3>2. s = [i \in 1 .. Len(s) |-> s[i]]
      BY <1>1
    <3>. QED BY <1>1, <3>1, <3>2
  <2>. QED BY <2>1, <2>2, <2>3 DEF IsPrefix
<1>. QED BY <1>1, <1>4, <1>5, <1>6 DEF u

\* A sequence with one more in it, and with one less.
LEMMA OneMore ==
  ASSUME NEW s, s \in Seq(Range(s)), NEW e
  PROVE  Append(s, e) \in Seq(Range(Append(s, e))) /\ Range(Append(s, e)) = Range(s) \cup {e}
<1>. DEFINE S == Range(s) \cup {e}
            t == Append(s, e)
<1>1. s \in Seq(S) /\ e \in S
  BY SeqMonotonic
<1>2. t \in Seq(S) /\ Len(t) = Len(s) + 1 /\ Len(s) \in Nat /\ DOMAIN s = 1 .. Len(s)
      /\ DOMAIN t = 1 .. Len(s) + 1 /\ t[Len(s) + 1] = e /\ \A i \in 1 .. Len(s) : t[i] = s[i]
  BY <1>1
<1>3. Range(t) = S
  <2>1. \A i \in DOMAIN t : t[i] \in S
    BY <1>2
  <2>2. \A i \in DOMAIN s : i \in DOMAIN t /\ t[i] = s[i]
    BY <1>2
  <2>3. Len(s) + 1 \in DOMAIN t /\ t[Len(s) + 1] = e
    BY <1>2
  <2>. HIDE DEF t
  <2>. QED BY <2>1, <2>2, <2>3 DEF Range
<1>. QED BY <1>2, <1>3

LEMMA OneLess ==
  ASSUME NEW s, s \in Seq(Range(s)), NEW k \in DOMAIN s
  PROVE  RemoveAt(s, k) \in Seq(Range(RemoveAt(s, k))) /\ Range(RemoveAt(s, k)) \subseteq Range(s)
<1>. DEFINE S == Range(s)
            t == RemoveAt(s, k)
<1>1. s \in Seq(S) /\ DOMAIN s = 1 .. Len(s) /\ Len(s) \in Nat /\ k \in 1 .. Len(s)
  OBVIOUS
<1>. HIDE DEF S
<1>2. SubSeq(s, 1, k - 1) \in Seq(S) /\ SubSeq(s, k + 1, Len(s)) \in Seq(S)
  BY <1>1
<1>3. t \in Seq(S)
  BY <1>2 DEF RemoveAt
<1>. HIDE DEF t
<1>4. DOMAIN t = 1 .. Len(t) /\ Len(t) \in Nat /\ \A i \in DOMAIN t : t[i] \in S
  BY <1>3
<1>5. Range(t) \subseteq S
  BY <1>4 DEF Range
<1>6. t \in Seq(Range(t))
  <2>1. \A i \in 1 .. Len(t) : t[i] \in Range(t)
    BY <1>4 DEF Range
  <2>2. t = [i \in 1 .. Len(t) |-> t[i]]
    BY <1>3
  <2>. QED BY <1>4, <2>1, <2>2
<1>. QED BY <1>5, <1>6 DEF S, t

\* One more, put anywhere, and never twice.
LEMMA Inserted ==
  ASSUME NEW S, NEW t \in Seq(S), NEW i \in 1 .. Len(t) + 1, NEW e \in S
  PROVE  LET u == InsertAt(t, i, e) IN
         /\ u \in Seq(S) /\ Range(u) = Range(t) \cup {e}
         /\ IsInjective(t) /\ e \notin Range(t) => IsInjective(u)
<1>. DEFINE u == InsertAt(t, i, e)
            n == Len(t)
<1>1. n \in Nat /\ i \in Nat /\ 1 <= i /\ i <= n + 1 /\ DOMAIN t = 1 .. n
  OBVIOUS
<1>2. /\ SubSeq(t, 1, i - 1) \in Seq(S) /\ Len(SubSeq(t, 1, i - 1)) = i - 1
      /\ \A k \in 1 .. i - 1 : SubSeq(t, 1, i - 1)[k] = t[k]
  BY <1>1
<1>3. /\ SubSeq(t, i, n) \in Seq(S) /\ Len(SubSeq(t, i, n)) = n - i + 1
      /\ \A k \in 1 .. n - i + 1 : SubSeq(t, i, n)[k] = t[k + i - 1]
  BY <1>1
<1>4. /\ u \in Seq(S) /\ Len(u) = n + 1 /\ DOMAIN u = 1 .. n + 1 /\ u[i] = e
      /\ \A k \in 1 .. n : k < i => u[k] = t[k]
      /\ \A k \in 1 .. n : k >= i => u[k + 1] = t[k]
  <2>. DEFINE a == SubSeq(t, 1, i - 1)
              b == SubSeq(t, i, n)
  <2>1. u = a \o <<e>> \o b
    BY DEF InsertAt
  <2>. HIDE DEF a, b, u, n
  <2>2. a \in Seq(S) /\ Len(a) = i - 1 /\ b \in Seq(S) /\ Len(b) = n - i + 1
        /\ (\A k \in 1 .. i - 1 : a[k] = t[k]) /\ \A k \in 1 .. n - i + 1 : b[k] = t[k + i - 1]
    BY <1>2, <1>3 DEF a, b
  <2>3. u \in Seq(S) /\ Len(u) = n + 1 /\ DOMAIN u = 1 .. n + 1
    BY <1>1, <2>1, <2>2
  <2>4. u[i] = e
    BY <1>1, <2>1, <2>2
  <2>5. \A k \in 1 .. n : k < i => u[k] = t[k]
    BY <1>1, <2>1, <2>2
  <2>6. \A k \in 1 .. n : k >= i => u[k + 1] = t[k]
    <3>. SUFFICES ASSUME NEW k \in 1 .. n, k >= i PROVE u[k + 1] = t[k]
      OBVIOUS
    <3>1. u[k + 1] = b[k + 1 - i]
      BY <1>1, <2>1, <2>2
    <3>2. k + 1 - i \in 1 .. n - i + 1 /\ k + 1 - i + i - 1 = k
      BY <1>1
    <3>. QED BY <2>2, <3>1, <3>2
  <2>. QED BY <2>3, <2>4, <2>5, <2>6
<1>. HIDE DEF u, n
<1>5. \A k \in 1 .. n + 1 : k = i \/ (k < i /\ k \in 1 .. n) \/ (k > i /\ k - 1 \in 1 .. n /\ k - 1 >= i)
  BY <1>1
<1>6. \A k \in 1 .. n + 1 : k > i => u[k] = t[k - 1]
  <2>. SUFFICES ASSUME NEW k \in 1 .. n + 1, k > i PROVE u[k] = t[k - 1]
    OBVIOUS
  <2>1. k - 1 \in 1 .. n /\ k - 1 >= i /\ (k - 1) + 1 = k
    BY <1>1
  <2>. QED BY <1>4, <2>1
<1>7. Range(u) = Range(t) \cup {e}
  <2>1. \A k \in DOMAIN u : u[k] \in Range(t) \cup {e}
    BY <1>1, <1>4, <1>5, <1>6 DEF Range
  <2>2. \A k \in DOMAIN t : t[k] \in Range(u)
    <3>. TAKE k \in DOMAIN t
    <3>1. CASE k < i
      BY <1>1, <1>4, <3>1 DEF Range
    <3>2. CASE k >= i
      <4>1. k + 1 \in DOMAIN u /\ u[k + 1] = t[k]
        BY <1>1, <1>4, <3>2
      <4>. QED BY <4>1 DEF Range
    <3>. QED BY <1>1, <3>1, <3>2
  <2>3. e \in Range(u)
    BY <1>1, <1>4 DEF Range
  <2>. QED BY <2>1, <2>2, <2>3 DEF Range
<1>8. ASSUME IsInjective(t), e \notin Range(t) PROVE IsInjective(u)
  <2>1. \A k, m \in 1 .. n : t[k] = t[m] => k = m
    BY <1>1, <1>8 DEF IsInjective
  <2>2. \A k \in 1 .. n : t[k] # e
    BY <1>1, <1>8 DEF Range
  <2>. SUFFICES ASSUME NEW k \in 1 .. n + 1, NEW m \in 1 .. n + 1, u[k] = u[m] PROVE k = m
    BY <1>4 DEF IsInjective
  <2>. DEFINE o(x) == IF x < i THEN x ELSE x - 1
  <2>3. \A x \in 1 .. n + 1 : x # i => o(x) \in 1 .. n /\ u[x] = t[o(x)]
    BY <1>1, <1>4, <1>5, <1>6
  <2>4. CASE k = i \/ m = i
    BY <1>4, <2>2, <2>3, <2>4
  <2>5. CASE k # i /\ m # i
    <3>1. o(k) = o(m)
      <4>1. o(k) \in 1 .. n /\ o(m) \in 1 .. n /\ t[o(k)] = t[o(m)]
        BY <2>3, <2>5
      <4>. HIDE DEF o
      <4>. QED BY <2>1, <4>1
    <3>. QED BY <1>1, <2>5, <3>1
  <2>. QED BY <2>4, <2>5
<1>. QED BY <1>4, <1>7, <1>8 DEF u

----------------------------------------------------------------------------
(* The rows of a page, and the lanes of them.                              *)

LEMMA RowsThere ==
  ASSUME NEW c \in Capture, NEW fs, NEW p \in Nat
  PROVE  PageRows(c, fs, p) \in Seq(DOMAIN Frames[c])
<1>. DEFINE D == DOMAIN Frames[c]
            is == {n \in D : \A t \in fs : ~Finds(t, c, n)}
            rows == View(c, fs)
            last == IF Len(rows) < (p + 1) * PAGE THEN Len(rows) ELSE (p + 1) * PAGE
<1>1. PICK n \in Nat : D = 1 .. n
  <2>1. Frames[c] \in Seq(Range(Frames[c]))
    BY FlowAssumption
  <2>. QED BY <2>1
<1>2. IsFiniteSet(is) /\ is \in SUBSET Nat /\ is \subseteq D
  <2>1. IsFiniteSet(1 .. n)
    BY FS_Interval
  <2>. QED BY <1>1, <2>1, FS_Subset
<1>3. rows \in Seq(D) /\ Len(rows) \in Nat /\ DOMAIN rows = 1 .. Len(rows)
  <2>1. InOrder(is) \in [1 .. Cardinality(is) -> is] /\ Cardinality(is) \in Nat
    BY <1>2, Ordered
  <2>2. rows = InOrder(is)
    BY DEF View
  <2>3. InOrder(is) \in [1 .. Cardinality(is) -> D]
    BY <1>2, <2>1
  <2>. HIDE DEF is, rows, D
  <2>. QED BY <2>1, <2>2, <2>3
<1>4. PageRows(c, fs, p) = [i \in 1 .. last - p * PAGE |-> rows[p * PAGE + i]]
  BY DEF PageRows
<1>5. p * PAGE \in Nat /\ (p + 1) * PAGE \in Nat
  BY FlowAssumption
<1>. HIDE DEF rows, D
<1>6. last \in Nat /\ last <= Len(rows)
  BY <1>3, <1>5
<1>. HIDE DEF last
<1>7. \A i \in 1 .. last - p * PAGE : rows[p * PAGE + i] \in D
  <2>. TAKE i \in 1 .. last - p * PAGE
  <2>1. p * PAGE + i \in 1 .. Len(rows)
    BY <1>3, <1>5, <1>6
  <2>. QED BY <1>3, <2>1
<1>8. \E m \in Nat : 1 .. last - p * PAGE = 1 .. m
  <2>1. CASE last - p * PAGE \in Nat
    BY <2>1
  <2>2. CASE last - p * PAGE \notin Nat
    <3>1. 1 .. last - p * PAGE = 1 .. 0
      BY <1>5, <1>6, <2>2
    <3>. QED BY <3>1
  <2>. QED BY <2>1, <2>2
<1>. QED
  <2>1. PICK m \in Nat : 1 .. last - p * PAGE = 1 .. m
    BY <1>8
  <2>2. PageRows(c, fs, p) \in [1 .. m -> D]
    BY <1>4, <1>7, <2>1
  <2>. QED BY <2>2, SeqDef DEF D

\* Of the places where something is, one is first.
LEMMA FirstOf ==
  ASSUME NEW n \in Nat, NEW is \in SUBSET (1 .. n), is # {}
  PROVE  \E i \in is : \A j \in 1 .. i - 1 : j \notin is
<1>1. IsFiniteSet(is) /\ is \in SUBSET Nat
  <2>1. IsFiniteSet(1 .. n)
    BY FS_Interval
  <2>2. IsFiniteSet(is)
    BY <2>1, FS_Subset
  <2>3. \A i \in is : i \in Nat
    OBVIOUS
  <2>. QED BY <2>2, <2>3
<1>2. Cardinality(is) \in Nat /\ Cardinality(is) # 0
  BY <1>1, FS_EmptySet, FS_CardinalityType
<1>3. PICK i \in is : Cardinality({k \in is : k < i}) = 1 - 1
  <2>1. 1 \in 1 .. Cardinality(is)
    BY <1>2
  <2>2. \A n0 \in 1 .. Cardinality(is) : \E i \in is : Cardinality({k \in is : k < i}) = n0 - 1
    BY <1>1, Places
  <2>. QED BY <2>1, <2>2, Zenon
<1>4. {k \in is : k < i} = {}
  <2>. DEFINE B == {k \in is : k < i}
  <2>1. B \in SUBSET is /\ Cardinality(B) = 0
    BY <1>3
  <2>. HIDE DEF B
  <2>2. B = {}
    BY <1>1, <2>1, FS_Subset, FS_EmptySet
  <2>. QED BY <2>2 DEF B
<1>5. \A j \in 1 .. i - 1 : j \notin is
  <2>1. \A k \in is : ~(k < i)
    BY <1>4
  <2>. QED BY <2>1
<1>. QED BY <1>5

\* nodes: the lanes there were, as they were, and behind them one for each end of a row
\* that had none.
LEMMA AddedRight ==
  ASSUME NEW c \in Capture, NEW rows \in Seq(DOMAIN Frames[c]),
         nodes \in Seq(Address), IsInjective(nodes)
  PROVE  /\ Added(c, rows) \in Seq(Address) /\ IsInjective(Added(c, rows))
         /\ Range(nodes) \subseteq Range(Added(c, rows))
         /\ \A n \in Range(rows) : Ends(c, n) \subseteq Range(Added(c, rows))
<1>. DEFINE A == Address \cup {NoAddress}
            as == [i \in 1 .. 2 * Len(rows) |->
                     IF i % 2 = 1 THEN Frames[c][rows[(i + 1) \div 2]].src ELSE Frames[c][rows[i \div 2]].dst]
            new == {i \in DOMAIN as : /\ as[i] \notin Range(nodes) \cup {NoAddress}
                                      /\ \A j \in 1 .. i - 1 : as[j] # as[i]}
            m == Len(rows)
<1>1. m \in Nat /\ DOMAIN rows = 1 .. m /\ \A k \in 1 .. m : rows[k] \in DOMAIN Frames[c]
  OBVIOUS
<1>2. \A n \in DOMAIN Frames[c] : Frames[c][n].src \in A /\ Frames[c][n].dst \in A
  BY FlowAssumption
<1>3. \A i \in 1 .. 2 * m : (i % 2 = 1 => (i + 1) \div 2 \in 1 .. m) /\ (i % 2 # 1 => i \div 2 \in 1 .. m)
  BY <1>1
<1>4. DOMAIN as = 1 .. 2 * m /\ \A i \in 1 .. 2 * m : as[i] \in A
  <2>. HIDE DEF A
  <2>. QED BY <1>1, <1>2, <1>3
<1>5. \A k \in 1 .. m : /\ 2 * k - 1 \in 1 .. 2 * m /\ as[2 * k - 1] = Frames[c][rows[k]].src
                        /\ 2 * k \in 1 .. 2 * m /\ as[2 * k] = Frames[c][rows[k]].dst
  <2>. TAKE k \in 1 .. m
  <2>1. 2 * k - 1 \in 1 .. 2 * m /\ 2 * k \in 1 .. 2 * m
    BY <1>1
  <2>2. (2 * k - 1) % 2 = 1 /\ ((2 * k - 1) + 1) \div 2 = k /\ (2 * k) % 2 = 0 /\ (2 * k) \div 2 = k
    BY <1>1
  <2>. QED BY <1>4, <2>1, <2>2
<1>6. as \in Seq(A)
  <2>1. as = [i \in 1 .. 2 * m |-> as[i]]
    OBVIOUS
  <2>. HIDE DEF A, as, m
  <2>2. PICK n \in Nat : n = 2 * m
    BY <1>1
  <2>3. as \in [1 .. n -> A]
    BY <1>4, <2>1, <2>2
  <2>. QED BY <2>2, <2>3, SeqDef
<1>. DEFINE t == At(as, new)
            T == {as[i] : i \in new}
<1>7. Added(c, rows) = nodes \o t
  BY DEF Added
<1>. HIDE DEF as, A
<1>8. new \in SUBSET DOMAIN as
  OBVIOUS
<1>9. \A i, j \in new : as[i] = as[j] => i = j
  <2>. SUFFICES ASSUME NEW i \in new, NEW j \in new, as[i] = as[j] PROVE i = j
    OBVIOUS
  <2>1. i \in 1 .. 2 * m /\ j \in 1 .. 2 * m
    BY <1>4
  <2>2. ~(i < j)
    <3>1. i < j => i \in 1 .. j - 1
      BY <2>1
    <3>. QED BY <3>1
  <2>3. ~(j < i)
    <3>1. j < i => j \in 1 .. i - 1
      BY <2>1
    <3>. QED BY <3>1
  <2>. QED BY <1>1, <2>1, <2>2, <2>3
<1>10. T \subseteq Address /\ \A v \in T : v \notin Range(nodes)
  BY <1>4, <1>8 DEF A
<1>11. t \in Seq(Address) /\ IsInjective(t) /\ Range(t) = T
  <2>. HIDE DEF new
  <2>1. /\ At(as, new) \in Seq({as[i] : i \in new}) /\ Range(At(as, new)) = {as[i] : i \in new}
        /\ (\A i, j \in new : as[i] = as[j] => i = j) => IsInjective(At(as, new))
    <3>. HIDE DEF t, T
    <3>. QED BY <1>6, <1>8, PickedOut
  <2>2. t \in Seq(T) /\ Range(t) = T /\ IsInjective(t)
    BY <1>9, <2>1
  <2>. HIDE DEF t, T
  <2>. QED BY <1>10, <2>2, SeqMonotonic
<1>12. ASSUME NEW i \in 1 .. 2 * m, as[i] # NoAddress
       PROVE  as[i] \in Range(nodes) \cup T
  <2>. DEFINE is == {j \in 1 .. 2 * m : as[j] = as[i]}
  <2>1. is \in SUBSET (1 .. 2 * m) /\ is # {} /\ 2 * m \in Nat
    <3>1. i \in is /\ is \subseteq 1 .. 2 * m
      OBVIOUS
    <3>2. 2 * m \in Nat
      BY <1>1
    <3>. HIDE DEF is
    <3>. QED BY <3>1, <3>2
  <2>2. PICK j \in is : \A k \in 1 .. j - 1 : k \notin is
    <3>. HIDE DEF is
    <3>. QED BY <2>1, FirstOf
  <2>3. j \in 1 .. 2 * m /\ as[j] = as[i]
    OBVIOUS
  <2>4. \A k \in 1 .. j - 1 : k \in 1 .. 2 * m
    BY <1>1, <2>3
  <2>5. \A k \in 1 .. j - 1 : as[k] # as[j]
    BY <2>2, <2>3, <2>4
  <2>6. as[i] \notin Range(nodes) => j \in new
    BY <1>4, <1>12, <2>3, <2>5
  <2>. QED BY <2>3, <2>6
<1>. HIDE DEF t, T
<1>13. /\ nodes \o t \in Seq(Address) /\ Range(nodes \o t) = Range(nodes) \cup T
       /\ IsInjective(nodes \o t)
  <2>1. Range(nodes) \cap Range(t) = {}
    BY <1>10, <1>11
  <2>. QED BY <1>11, <2>1, Behind
<1>14. ASSUME NEW n \in Range(rows)
       PROVE  Ends(c, n) \subseteq Range(nodes) \cup T
  <2>1. PICK k \in 1 .. m : rows[k] = n
    BY <1>1 DEF Range
  <2>2. Frames[c][n].src # NoAddress => Frames[c][n].src \in Range(nodes) \cup T
    BY <1>5, <1>12, <2>1
  <2>3. Frames[c][n].dst # NoAddress => Frames[c][n].dst \in Range(nodes) \cup T
    BY <1>5, <1>12, <2>1
  <2>. QED BY <2>2, <2>3 DEF Ends
<1>. QED BY <1>7, <1>13, <1>14

\* arrange: the same lanes, those that were put somewhere first and in that order.
LEMMA ArrangeRight ==
  ASSUME NEW ns \in Seq(Address), IsInjective(ns), order \in Seq(Address), IsInjective(order)
  PROVE  /\ Arrange(ns) \in Seq(Address) /\ IsInjective(Arrange(ns)) /\ Range(Arrange(ns)) = Range(ns)
         /\ IsPrefix(At(order, {i \in DOMAIN order : order[i] \in Range(ns)}), Arrange(ns))
<1>. DEFINE put == {i \in DOMAIN order : order[i] \in Range(ns)}
            free == {i \in DOMAIN ns : ns[i] \notin Range(order)}
            s == At(order, put)
            t == At(ns, free)
<1>1. /\ s \in Seq(Address) /\ Range(s) = {order[i] : i \in put} /\ IsInjective(s)
  <2>1. put \in SUBSET DOMAIN order /\ \A i, j \in put : order[i] = order[j] => i = j
    BY DEF IsInjective
  <2>. HIDE DEF put
  <2>. QED BY <2>1, PickedOut
<1>2. /\ t \in Seq(Address) /\ Range(t) = {ns[i] : i \in free} /\ IsInjective(t)
  <2>1. free \in SUBSET DOMAIN ns /\ \A i, j \in free : ns[i] = ns[j] => i = j
    BY DEF IsInjective
  <2>. HIDE DEF free
  <2>. QED BY <2>1, PickedOut
<1>3. CASE order = <<>>
  <2>1. put = {} /\ Arrange(ns) = ns
    BY <1>3 DEF Arrange
  <2>2. s = <<>>
    BY <2>1, NonePickedOut
  <2>3. <<>> \o ns = ns
    OBVIOUS
  <2>4. IsPrefix(<<>>, <<>> \o ns)
    <3>1. <<>> \in Seq(Address)
      OBVIOUS
    <3>. QED BY <3>1, Behind
  <2>. QED BY <2>1, <2>2, <2>3, <2>4
<1>4. CASE order # <<>>
  <2>1. Arrange(ns) = s \o t
    BY <1>4 DEF Arrange
  <2>2. Range(s) \cap Range(t) = {}
    BY <1>1, <1>2 DEF Range
  <2>3. Range(s) \cup Range(t) = Range(ns)
    <3>1. \A i \in DOMAIN ns : ns[i] \in Range(s) \cup Range(t)
      <4>. TAKE i \in DOMAIN ns
      <4>1. CASE ns[i] \in Range(order)
        <5>1. PICK j \in DOMAIN order : order[j] = ns[i]
          BY <4>1 DEF Range
        <5>2. j \in put
          BY <5>1 DEF Range
        <5>. QED BY <1>1, <5>1, <5>2
      <4>2. CASE ns[i] \notin Range(order)
        BY <1>2, <4>2
      <4>. QED BY <4>1, <4>2
    <3>2. \A i \in put : order[i] \in Range(ns)
      OBVIOUS
    <3>3. \A i \in free : ns[i] \in Range(ns)
      BY DEF Range
    <3>. QED BY <1>1, <1>2, <3>1, <3>2, <3>3 DEF Range
  <2>. HIDE DEF s, t
  <2>4. /\ s \o t \in Seq(Address) /\ Range(s \o t) = Range(s) \cup Range(t)
        /\ IsInjective(s \o t) /\ IsPrefix(s, s \o t)
    BY <1>1, <1>2, <2>2, Behind
  <2>. QED BY <2>1, <2>3, <2>4 DEF s
<1>. QED BY <1>3, <1>4

----------------------------------------------------------------------------
(* The lanes.                                                              *)

\* A page asked for is one there is a place for, of a capture that was open.
Asked ==
  /\ net \in Seq(Range(net))
  /\ \A r \in Range(net) : r.of \in Capture /\ r.page \in 0 .. MaxPage

\* Places have been given to lanes there were, one to each.
Lanes == LanesRight /\ IsInjective(order) /\ Asked

\* A term found for a hide is only ever one more to ask sharkd about: what is shown
\* stands until the answer.
LEMMA HideWaits ==
  /\ \A j, t : HideBy(j, t) => UNCHANGED viewVars
  /\ \A j : HidesByGuess(j) => UNCHANGED viewVars
  /\ \A k, j, hit, at : GoesOn(k, j, hit, at) => UNCHANGED viewVars
<1>1. ASSUME NEW j, NEW t, HideBy(j, t) PROVE UNCHANGED viewVars
  <2>1. filter \cup {t} # {}
    OBVIOUS
  <2>. QED BY <1>1, <2>1 DEF HideBy, Filter
<1>2. ASSUME NEW j, HidesByGuess(j) PROVE UNCHANGED viewVars
  <2>1. CASE Kind[j.addr] = "name"
    BY <1>2, <2>1 DEF HidesByGuess
  <2>2. CASE Kind[j.addr] # "name"
    <3>1. PICK t : HideBy(j, t)
      BY <1>2, <2>2 DEF HidesByGuess
    <3>. QED BY <1>1, <3>1
  <2>. QED BY <2>1, <2>2
<1>3. ASSUME NEW k, NEW j, NEW hit, NEW at, GoesOn(k, j, hit, at) PROVE UNCHANGED viewVars
  <2>1. CASE After(hit, at) = "one"
    <3>1. PICK i, t : HideBy(i, t)
      BY <1>3, <2>1 DEF GoesOn
    <3>. QED BY <1>1, <3>1
  <2>2. CASE After(hit, at) # "one"
    BY <1>3, <2>2 DEF GoesOn
  <2>. QED BY <2>1, <2>2
<1>. QED BY <1>1, <1>2, <1>3

\* What the answers to a hide leave alone.
LEMMA AnswersKeepView ==
  ASSUME NEW k, FrameArrives(k) \/ FrameFails(k) \/ Compiles(k) \/ CompilesNot(k)
  PROVE  UNCHANGED <<file, filter, pages, nodes, order, drag, net, acts>>
<1>1. CASE FrameArrives(k)
  <2>1. UNCHANGED viewVars
    <3>. DEFINE hs == Holders(hides[k].of, hides[k].num, hides[k].addr)
                f == Holder(hides[k].of, hides[k].num, hides[k].addr)
    <3>1. CASE hs = {}
      <4>1. HidesByGuess(hides[k])
        BY <1>1, <3>1 DEF FrameArrives
      <4>. QED BY <4>1, HideWaits
    <3>2. CASE hs # {}
      <4>1. GoesOn(k, hides[k], [name |-> f.name, value |-> f.value], "")
        BY <1>1, <3>2 DEF FrameArrives
      <4>. HIDE DEF f
      <4>. QED BY <4>1, HideWaits
    <3>. QED BY <3>1, <3>2
  <2>. QED BY <1>1, <2>1 DEF FrameArrives, viewVars
<1>2. CASE FrameFails(k)
  <2>1. PICK j : HidesByGuess(j)
    BY <1>2 DEF FrameFails
  <2>2. UNCHANGED viewVars
    BY <2>1, HideWaits
  <2>. QED BY <1>2, <2>2 DEF FrameFails, viewVars
<1>3. CASE Compiles(k)
  <2>1. PICK j, t : HideBy(j, t)
    BY <1>3 DEF Compiles
  <2>2. UNCHANGED viewVars
    BY <2>1, HideWaits
  <2>. QED BY <1>3, <2>2 DEF Compiles, viewVars
<1>4. CASE CompilesNot(k)
  <2>1. PICK j : GoesOn(k, j, hides[k].hit, hides[k].at)
    BY <1>4 DEF CompilesNot
  <2>2. UNCHANGED viewVars
    BY <2>1, HideWaits
  <2>. QED BY <1>4, <2>2 DEF CompilesNot, viewVars
<1>. QED BY <1>1, <1>2, <1>3, <1>4

\* A view that starts over has no lanes, and nothing that wants one.
LEMMA NoLanes ==
  ASSUME Lanes, nodes' = <<>>, order' \in {order, <<>>}, file' \in Capture, drag' = drag,
         acts' \in 0 .. MaxActs,
         pages' = Blank \/ pages' = [Blank EXCEPT ![0] = Pending]
  PROVE  LanesRight' /\ IsInjective(order')
<1>1. DOMAIN pages' = 0 .. MaxPage /\ \A p \in DOMAIN pages' : pages'[p].rows = <<>>
  <2>1. Absent.rows = <<>> /\ Pending.rows = <<>>
    BY DEF Absent, Pending
  <2>. DEFINE A == Absent
              P == Pending
  <2>. HIDE DEF A, P
  <2>2. Blank = [p \in 0 .. MaxPage |-> A]
    BY DEF Blank, A
  <2>3. CASE pages' = Blank
    BY <2>1, <2>2, <2>3 DEF A
  <2>4. CASE pages' = [Blank EXCEPT ![0] = Pending]
    <3>1. pages' = [p \in 0 .. MaxPage |-> IF p = 0 THEN P ELSE A]
      BY <2>2, <2>4 DEF P
    <3>. QED BY <2>1, <3>1 DEF A, P
  <2>. QED BY <2>3, <2>4
<1>2. TypeOK'
  <2>1. <<>> \in Seq(Address) /\ order \in Seq(Address) /\ drag \in Address \cup {NoAddress}
    BY DEF Lanes, LanesRight, TypeOK
  <2>2. order' \in Seq(Address) /\ nodes' \in Seq(Address)
    BY <2>1
  <2>. QED BY <1>1, <2>1, <2>2 DEF TypeOK
<1>3. Range(<<>>) = {} /\ IsInjective(<<>>)
  BY DEF Range, IsInjective
<1>4. \A p \in DOMAIN pages' : \A n \in Range(pages'[p].rows) : Ends(pages'[p].of, n) \subseteq Range(nodes')
  BY <1>1, <1>3
<1>5. IsPrefix(At(order', {i \in DOMAIN order' : order'[i] \in Range(nodes')}), nodes')
  <2>1. {i \in DOMAIN order' : order'[i] \in Range(nodes')} = {}
    BY <1>3
  <2>2. IsPrefix(<<>>, <<>>)
    <3>1. <<>> \in Seq(Address) /\ <<>> \o <<>> = <<>>
      OBVIOUS
    <3>2. IsPrefix(<<>>, <<>> \o <<>>)
      BY <3>1, Behind
    <3>. QED BY <3>1, <3>2
  <2>. QED BY <2>1, <2>2, NonePickedOut
<1>6. IsInjective(nodes') /\ IsInjective(order')
  BY <1>3 DEF Lanes
<1>. QED BY <1>2, <1>4, <1>5, <1>6 DEF LanesRight

LEMMA RefilterKeeps ==
  ASSUME Lanes, NEW fs, Refilter(fs), UNCHANGED <<file, order, drag>>, acts' \in 0 .. MaxActs
  PROVE  Lanes'
<1>1. LanesRight' /\ IsInjective(order')
  BY NoLanes DEF Refilter, Lanes, LanesRight, TypeOK
<1>2. Asked'
  <2>. DEFINE r == PageReq(fs, 0)
  <2>1. r.of \in Capture /\ r.page \in 0 .. MaxPage
    BY FlowAssumption DEF PageReq, Lanes, LanesRight, TypeOK
  <2>2. net' = Append(net, r)
    BY DEF Refilter
  <2>. HIDE DEF r
  <2>3. net' \in Seq(Range(net')) /\ Range(net') = Range(net) \cup {r}
    BY <2>2, OneMore DEF Lanes, Asked
  <2>. QED BY <2>1, <2>3 DEF Lanes, Asked
<1>. QED BY <1>1, <1>2 DEF Lanes

\* Pages of which fewer are there want no more lanes.
LEMMA FewerRows ==
  ASSUME Lanes, UNCHANGED <<file, nodes, order, drag, acts>>,
         NEW p \in 0 .. MaxPage, NEW x, x.rows = <<>>, pages' = [pages EXCEPT ![p] = x]
  PROVE  LanesRight' /\ IsInjective(order')
<1>1. DOMAIN pages' = 0 .. MaxPage /\ \A q \in DOMAIN pages' : pages'[q] = pages[q] \/ pages'[q] = x
  BY DEF Lanes, LanesRight, TypeOK
<1>2. Range(<<>>) = {}
  BY DEF Range
<1>3. \A q \in DOMAIN pages' : \A n \in Range(pages'[q].rows) : Ends(pages'[q].of, n) \subseteq Range(nodes')
  BY <1>1, <1>2 DEF Lanes, LanesRight, TypeOK
<1>4. IsPrefix(At(order', {i \in DOMAIN order' : order'[i] \in Range(nodes')}), nodes')
  BY DEF Lanes, LanesRight
<1>. QED BY <1>1, <1>3, <1>4 DEF Lanes, LanesRight, TypeOK

\* The rows of a page have their lanes, and those that were put somewhere theirs.
LEMMA PageKeeps ==
  ASSUME Lanes, NEW k \in DOMAIN net, PageArrives(k)
  PROVE  Lanes'
<1>. DEFINE r == net[k]
            rows == PageRows(r.of, r.over, r.page)
            ns == Added(r.of, rows)
<1>1. r \in Range(net) /\ r.of \in Capture /\ r.page \in 0 .. MaxPage
  BY DEF Lanes, Asked, Range
<1>2. rows \in Seq(DOMAIN Frames[r.of])
  BY <1>1, RowsThere
<1>3. /\ pages' = [pages EXCEPT ![r.page] = [is |-> "rows", of |-> r.of, rows |-> rows]]
      /\ nodes' = Nodes(r.of, rows) /\ net' = RemoveAt(net, k)
      /\ UNCHANGED <<file, order, drag, acts>>
  BY DEF PageArrives
<1>. HIDE DEF r, rows
<1>4. /\ nodes \in Seq(Address) /\ IsInjective(nodes) /\ order \in Seq(Address) /\ IsInjective(order)
      /\ IsPrefix(At(order, {i \in DOMAIN order : order[i] \in Range(nodes)}), nodes)
  BY DEF Lanes, LanesRight, TypeOK
<1>5. /\ ns \in Seq(Address) /\ IsInjective(ns) /\ Range(nodes) \subseteq Range(ns)
      /\ \A n \in Range(rows) : Ends(r.of, n) \subseteq Range(ns)
  BY <1>1, <1>2, <1>4, AddedRight
<1>. HIDE DEF ns
<1>6. /\ nodes' \in Seq(Address) /\ IsInjective(nodes') /\ Range(nodes') = Range(ns)
      /\ IsPrefix(At(order, {i \in DOMAIN order : order[i] \in Range(nodes')}), nodes')
  <2>1. CASE ns = nodes
    BY <1>3, <1>4, <2>1 DEF Nodes, ns
  <2>2. CASE ns # nodes
    <3>1. nodes' = Arrange(ns)
      BY <1>3, <2>2 DEF Nodes, ns
    <3>. QED BY <1>4, <1>5, <3>1, ArrangeRight
  <2>. QED BY <2>1, <2>2
<1>7. DOMAIN pages' = 0 .. MaxPage /\ DOMAIN pages = 0 .. MaxPage
  BY <1>3 DEF Lanes, LanesRight, TypeOK
<1>8. ASSUME NEW p \in DOMAIN pages', NEW n \in Range(pages'[p].rows)
      PROVE  Ends(pages'[p].of, n) \subseteq Range(nodes')
  <2>1. CASE p = r.page
    <3>1. pages'[p].of = r.of /\ pages'[p].rows = rows
      BY <1>3, <1>7, <2>1
    <3>. QED BY <1>5, <1>6, <1>8, <3>1
  <2>2. CASE p # r.page
    <3>1. pages'[p] = pages[p] /\ p \in DOMAIN pages
      BY <1>3, <1>7, <2>2
    <3>2. Ends(pages[p].of, n) \subseteq Range(nodes)
      BY <1>8, <3>1 DEF Lanes, LanesRight
    <3>. QED BY <1>5, <1>6, <3>1, <3>2
  <2>. QED BY <2>1, <2>2
<1>9. TypeOK'
  BY <1>3, <1>6, <1>7 DEF Lanes, LanesRight, TypeOK
<1>10. Asked'
  BY <1>3, OneLess DEF Lanes, Asked
<1>. QED BY <1>3, <1>4, <1>6, <1>8, <1>9, <1>10 DEF Lanes, LanesRight

\* place: the lane that is held goes where it is held, and they are all where they were
\* put then.
LEMMA PlaceKeeps ==
  ASSUME Lanes, NEW to \in DOMAIN nodes, Place(to)
  PROVE  Lanes'
<1>. DEFINE is == {i \in DOMAIN nodes : nodes[i] # drag}
            t == At(nodes, is)
<1>1. /\ nodes \in Seq(Address) /\ IsInjective(nodes) /\ drag \in Range(nodes)
      /\ nodes' = InsertAt(t, to, drag) /\ order' = nodes'
      /\ acts' \in 0 .. MaxActs /\ UNCHANGED <<file, pages, drag, net>>
  BY FlowAssumption DEF Place, Acts, Lanes, LanesRight, TypeOK
<1>2. drag \in Address /\ DOMAIN nodes = 1 .. Len(nodes) /\ Len(nodes) \in Nat
  BY <1>1 DEF Range
<1>3. PICK d \in DOMAIN nodes : nodes[d] = drag
  BY <1>1 DEF Range
<1>4. is = DOMAIN nodes \ {d} /\ is \in SUBSET DOMAIN nodes
  BY <1>1, <1>3 DEF IsInjective
<1>5. Cardinality(is) = Len(nodes) - 1
  <2>1. IsFiniteSet(1 .. Len(nodes)) /\ Cardinality(1 .. Len(nodes)) = Len(nodes)
    <3>1. 1 \in Int /\ Len(nodes) \in Int
      BY <1>2
    <3>2. /\ IsFiniteSet(1 .. Len(nodes))
          /\ Cardinality(1 .. Len(nodes)) = IF 1 > Len(nodes) THEN 0 ELSE Len(nodes) - 1 + 1
      BY <3>1, FS_Interval
    <3>. QED BY <1>2, <3>2
  <2>2. Cardinality((1 .. Len(nodes)) \ {d}) = Cardinality(1 .. Len(nodes)) - 1
    BY <1>2, <2>1, FS_RemoveElement
  <2>. QED BY <1>2, <1>4, <2>1, <2>2
<1>6. /\ t \in Seq(Address) /\ Len(t) = Len(nodes) - 1 /\ Range(t) = {nodes[i] : i \in is}
      /\ IsInjective(t)
  <2>1. \A i, j \in is : nodes[i] = nodes[j] => i = j
    BY <1>1, <1>4 DEF IsInjective
  <2>2. /\ At(nodes, is) \in Seq(Address) /\ Len(At(nodes, is)) = Cardinality(is)
        /\ Range(At(nodes, is)) = {nodes[i] : i \in is}
        /\ (\A i, j \in is : nodes[i] = nodes[j] => i = j) => IsInjective(At(nodes, is))
    <3>. HIDE DEF is
    <3>. QED BY <1>1, <1>4, PickedOut
  <2>. QED BY <1>5, <2>1, <2>2
<1>7. drag \notin Range(t) /\ Range(t) \cup {drag} = Range(nodes)
  BY <1>3, <1>4, <1>6 DEF Range
<1>. HIDE DEF is, t
<1>8. to \in 1 .. Len(t) + 1
  BY <1>2, <1>6
<1>9. nodes' \in Seq(Address) /\ Range(nodes') = Range(nodes) /\ IsInjective(nodes')
  <2>1. LET u == InsertAt(t, to, drag) IN
        /\ u \in Seq(Address) /\ Range(u) = Range(t) \cup {drag}
        /\ IsInjective(t) /\ drag \notin Range(t) => IsInjective(u)
    BY <1>2, <1>6, <1>8, Inserted
  <2>. QED BY <1>1, <1>6, <1>7, <2>1
<1>10. IsPrefix(At(order', {i \in DOMAIN order' : order'[i] \in Range(nodes')}), nodes')
  <2>. DEFINE ns == nodes'
  <2>1. {i \in DOMAIN ns : ns[i] \in Range(ns)} = DOMAIN ns
    BY DEF Range
  <2>2. At(ns, DOMAIN ns) = ns
    BY <1>9, AllPickedOut
  <2>3. IsPrefix(ns, ns)
    <3>. HIDE DEF ns
    <3>1. <<>> \in Seq(Address) /\ ns \in Seq(Address)
      BY <1>9 DEF ns
    <3>2. ns \o <<>> = ns
      BY <3>1
    <3>. QED BY <3>1, <3>2, Behind
  <2>. QED BY <1>1, <2>1, <2>2, <2>3
<1>11. TypeOK'
  BY <1>1, <1>9 DEF Lanes, LanesRight, TypeOK
<1>12. \A p \in DOMAIN pages' : \A n \in Range(pages'[p].rows) : Ends(pages'[p].of, n) \subseteq Range(nodes')
  BY <1>1, <1>9 DEF Lanes, LanesRight
<1>13. Asked'
  BY <1>1 DEF Lanes, Asked
<1>. QED BY <1>1, <1>9, <1>10, <1>11, <1>12, <1>13 DEF Lanes, LanesRight

\* What touches neither the pages nor the lanes.
LEMMA StillLanes ==
  ASSUME Lanes, UNCHANGED <<pages, nodes, order, net>>,
         file' \in Capture, drag' \in Address \cup {NoAddress}, acts' \in 0 .. MaxActs
  PROVE  Lanes'
<1>1. TypeOK'
  BY DEF Lanes, LanesRight, TypeOK
<1>2. Asked'
  BY DEF Lanes, Asked
<1>. QED BY <1>1, <1>2 DEF Lanes, LanesRight

LEMMA InitLanes == Init => Lanes
<1>. SUFFICES ASSUME Init PROVE Lanes
  OBVIOUS
<1>1. Range(<<>>) = {} /\ IsInjective(<<>>) /\ <<>> \in Seq(Address) /\ <<>> \in Seq({})
  BY DEF Range, IsInjective
<1>2. DOMAIN pages = 0 .. MaxPage /\ \A p \in DOMAIN pages : pages[p].rows = <<>>
  BY DEF Init, Blank, Absent
<1>3. TypeOK
  BY FlowAssumption, <1>1, <1>2 DEF Init, TypeOK
<1>4. IsPrefix(At(order, {i \in DOMAIN order : order[i] \in Range(nodes)}), nodes)
  <2>1. {i \in DOMAIN order : order[i] \in Range(nodes)} = {} /\ nodes = <<>>
    BY <1>1 DEF Init
  <2>2. <<>> \o <<>> = <<>>
    OBVIOUS
  <2>3. IsPrefix(<<>>, <<>> \o <<>>)
    BY <1>1, Behind
  <2>. QED BY <2>1, <2>2, <2>3, NonePickedOut
<1>5. \A p \in DOMAIN pages : \A n \in Range(pages[p].rows) : Ends(pages[p].of, n) \subseteq Range(nodes)
  BY <1>1, <1>2
<1>6. Asked
  BY <1>1 DEF Init, Asked
<1>. QED BY <1>1, <1>3, <1>4, <1>5, <1>6 DEF Init, Lanes, LanesRight

LEMMA NextLanes == Lanes /\ [Next]_vars => Lanes'
<1>. SUFFICES ASSUME Lanes, [Next]_vars PROVE Lanes'
  OBVIOUS
<1>0. file \in Capture /\ drag \in Address \cup {NoAddress} /\ acts \in 0 .. MaxActs
      /\ MaxActs \in Nat /\ (Acts => acts' \in 0 .. MaxActs)
  BY FlowAssumption DEF Lanes, LanesRight, TypeOK, Acts
<1>1. ASSUME NEW k \in DOMAIN net, PageFails(k) PROVE Lanes'
  <2>1. net[k].page \in 0 .. MaxPage /\ Absent.rows = <<>>
    BY DEF Lanes, Asked, Range, Absent
  <2>2. LanesRight' /\ IsInjective(order')
    BY <1>1, <2>1, FewerRows DEF PageFails
  <2>3. Asked'
    BY <1>1, OneLess DEF PageFails, Lanes, Asked
  <2>. QED BY <2>2, <2>3 DEF Lanes
<1>2. ASSUME NEW k \in DOMAIN hides, FrameArrives(k) \/ FrameFails(k) \/ Compiles(k) \/ CompilesNot(k)
      PROVE  Lanes'
  BY <1>0, <1>2, AnswersKeepView, StillLanes
<1>3. ASSUME NEW k \in DOMAIN checks, Filters(k) PROVE Lanes'
  BY <1>0, <1>3, RefilterKeeps DEF Filters
<1>4. ASSUME NEW k \in DOMAIN checks, FiltersNot(k) PROVE Lanes'
  BY <1>0, <1>4, StillLanes DEF FiltersNot
<1>5. ASSUME NEW c \in Capture, Open(c) PROVE Lanes'
  <2>1. Asked'
    BY <1>5 DEF Open, Lanes, Asked
  <2>2. LanesRight' /\ IsInjective(order')
    BY <1>0, <1>5, NoLanes DEF Open, Rewind
  <2>. QED BY <2>1, <2>2 DEF Lanes
<1>6. ASSUME NEW p \in 0 .. MaxPage, FetchPage(p) PROVE Lanes'
  <2>. DEFINE r == PageReq(filter, p)
  <2>1. Pending.rows = <<>>
    BY DEF Pending, Absent
  <2>2. LanesRight' /\ IsInjective(order')
    BY <1>6, <2>1, FewerRows DEF FetchPage
  <2>3. r.of \in Capture /\ r.page \in 0 .. MaxPage
    BY <1>0 DEF PageReq
  <2>4. net' = Append(net, r)
    BY <1>6 DEF FetchPage
  <2>. HIDE DEF r
  <2>5. net' \in Seq(Range(net')) /\ Range(net') = Range(net) \cup {r}
    BY <2>4, OneMore DEF Lanes, Asked
  <2>6. Asked'
    BY <2>3, <2>5 DEF Lanes, Asked
  <2>. QED BY <2>2, <2>6 DEF Lanes
<1>7. ASSUME NEW a \in Address, Drag(a) PROVE Lanes'
  BY <1>0, <1>7, StillLanes DEF Drag
<1>8. ASSUME NEW a \in Address, Hide(a) PROVE Lanes'
  <2>. DEFINE j == [NoHide EXCEPT !.addr = a]
  <2>1. UNCHANGED viewVars
    <3>1. CASE Using(a) = {}
      <4>1. HidesByGuess(j)
        BY <1>8, <3>1 DEF Hide
      <4>. HIDE DEF j
      <4>. QED BY <4>1, HideWaits
    <3>2. CASE Using(a) # {}
      BY <1>8, <3>2 DEF Hide
    <3>. QED BY <3>1, <3>2
  <2>. QED BY <1>0, <1>8, <2>1, StillLanes DEF Hide, viewVars
<1>9. CASE Dropped
  BY <1>0, <1>9, StillLanes DEF Dropped
<1>10. ASSUME NEW fs \in SUBSET filter, Edit(fs) PROVE Lanes'
  <2>1. CASE fs = {}
    BY <1>0, <1>10, <2>1, RefilterKeeps DEF Edit, Filter
  <2>2. CASE fs # {}
    BY <1>0, <1>10, <2>2, StillLanes DEF Edit, Filter, viewVars
  <2>. QED BY <2>1, <2>2
<1>11. CASE UNCHANGED vars
  BY <1>0, <1>11, StillLanes DEF vars
<1>. QED BY <1>1, <1>2, <1>3, <1>4, <1>5, <1>6, <1>7, <1>8, <1>9, <1>10, <1>11, PageKeeps, PlaceKeeps
     DEF Next, Answers, User

\* nodes, arrange and place: every row that is drawn has a lane for each of its ends, none
\* has two, and of the lanes there were on screen when one was last moved those that are
\* there stay in the order they had then and before all others, whatever pages and filters
\* come in between; a lane that was not on screen then has no place to come back to.
THEOREM SpecLanesRight == Spec => []LanesRight
<1>1. Lanes => LanesRight
  BY DEF Lanes
<1>. QED BY <1>1, InitLanes, NextLanes, PTL DEF Spec

----------------------------------------------------------------------------
(* What a hide looks for.                                                  *)

\* What sharkd has of a frame, as FlowAssumption says it.
LEMMA FrameFacts ==
  ASSUME NEW c \in Capture, NEW n \in DOMAIN Frames[c]
  PROVE  /\ \A g \in Range(Frames[c][n].fields) :
              /\ g.name \in Fields /\ g.value \in Address /\ <<g.name, g.value>> \in Frames[c][n].has
              /\ Both[g.name] \in Fields => <<Both[g.name], g.value>> \in Frames[c][n].has
              /\ Frames[c][n].net /\ Kind[g.value] = "mac" =>
                   ({g.value} \cup g.shows) \cap Ends(c, n) = {}
              /\ ~(Frames[c][n].net /\ Kind[g.value] = "mac") => IsOf(c, n, g.value)
         /\ \A f, v : <<f, v>> \in Frames[c][n].has =>
              v \in Frames[c][n].carries \/ \E g \in Range(Frames[c][n].fields) : g.value = v
         /\ Frames[c][n].carries \subseteq Address
<1>. DEFINE fr == Frames[c][n]
            shown == {fr.src, fr.dst}
<1>1. /\ fr.carries \subseteq Address
      /\ \A j \in DOMAIN fr.fields :
           LET g == fr.fields[j] IN
           /\ g.name \in Fields /\ g.value \in Address /\ g.shows \subseteq Address
           /\ <<g.name, g.value>> \in fr.has
           /\ Both[g.name] \in Fields => <<Both[g.name], g.value>> \in fr.has
           /\ IF fr.net /\ Kind[g.value] = "mac"
              THEN ({g.value} \cup g.shows) \cap shown = {}
              ELSE g.value \in fr.carries \/ ({g.value} \cup g.shows) \cap shown # {}
      /\ \A x \in fr.has : x[2] \in fr.carries \/ \E j \in DOMAIN fr.fields : fr.fields[j].value = x[2]
  BY FlowAssumption
<1>2. Ends(c, n) = shown \ {NoAddress} /\ NoAddress \notin Address
  BY FlowAssumption DEF Ends
<1>3. ASSUME NEW g \in Range(fr.fields)
      PROVE  /\ g.name \in Fields /\ g.value \in Address /\ <<g.name, g.value>> \in fr.has
             /\ Both[g.name] \in Fields => <<Both[g.name], g.value>> \in fr.has
             /\ fr.net /\ Kind[g.value] = "mac" => ({g.value} \cup g.shows) \cap Ends(c, n) = {}
             /\ ~(fr.net /\ Kind[g.value] = "mac") => IsOf(c, n, g.value)
  <2>1. PICK j \in DOMAIN fr.fields : fr.fields[j] = g
    BY DEF Range
  <2>. HIDE DEF shown
  <2>2. /\ g.name \in Fields /\ g.value \in Address /\ g.shows \subseteq Address
        /\ <<g.name, g.value>> \in fr.has
        /\ Both[g.name] \in Fields => <<Both[g.name], g.value>> \in fr.has
    BY <1>1, <2>1
  <2>3. IF fr.net /\ Kind[g.value] = "mac"
        THEN ({g.value} \cup g.shows) \cap shown = {}
        ELSE g.value \in fr.carries \/ ({g.value} \cup g.shows) \cap shown # {}
    BY <1>1, <2>1
  <2>4. ({g.value} \cup g.shows) \cap Ends(c, n) = ({g.value} \cup g.shows) \cap shown
    BY <1>2, <2>2
  <2>. QED BY <2>2, <2>3, <2>4 DEF IsOf
<1>4. ASSUME NEW f, NEW v, <<f, v>> \in fr.has
      PROVE  v \in fr.carries \/ \E g \in Range(fr.fields) : g.value = v
  <2>1. <<f, v>>[2] = v
    OBVIOUS
  <2>2. v \in fr.carries \/ \E j \in DOMAIN fr.fields : fr.fields[j].value = v
    BY <1>1, <1>4, <2>1
  <2>. QED BY <2>2 DEF Range
<1>. QED BY <1>1, <1>3, <1>4

\* A term fits a hide when it finds what the lane draws from the field that was found,
\* and nothing that has nothing of the address.
Fits(j, t) ==
  \A c \in Capture : \A n \in DOMAIN Frames[c] :
    /\ Held(j, c, n) => Finds(t, c, n)
    /\ Finds(t, c, n) => \E v \in Address : StandsFor(j.addr, v) /\ IsOf(c, n, v)

\* linkOnly: a term for what the address stands for finds only frames that have it, and
\* with the names of the field that was found those that have it there.
LEMMA TermFits ==
  ASSUME NEW j, NEW names, NEW v \in Address, StandsFor(j.addr, v),
         \A c \in Capture : \A n \in DOMAIN Frames[c] : \A g \in Range(Frames[c][n].fields) :
           /\ g.value = j.hit.value
           /\ g.name \in {j.hit.name} \cup (IF j.lost THEN {} ELSE {Other[j.hit.name]})
           => v = j.hit.value /\ (g.name \in names \/ Both[g.name] \in names \cap Fields)
  PROVE  Fits(j, Term(names, v, Kind[v] = "mac"))
<1>. PICK t : t = Term(names, v, Kind[v] = "mac")
  OBVIOUS
<1>1. t.names = names /\ t.value = v /\ (t.link <=> Kind[v] = "mac")
  BY DEF Term
<1>2. ASSUME NEW c \in Capture, NEW n \in DOMAIN Frames[c]
      PROVE  /\ Held(j, c, n) => Finds(t, c, n)
             /\ Finds(t, c, n) => \E w \in Address : StandsFor(j.addr, w) /\ IsOf(c, n, w)
  <2>1. ASSUME Held(j, c, n) PROVE Finds(t, c, n)
    <3>1. PICK g \in Range(Frames[c][n].fields) :
            /\ g.value = j.hit.value /\ j.addr \in {g.value} \cup g.shows /\ j.addr \in Ends(c, n)
            /\ g.name \in {j.hit.name} \cup (IF j.lost THEN {} ELSE {Other[j.hit.name]})
      BY <2>1 DEF Held
    <3>2. v = g.value /\ (g.name \in names \/ Both[g.name] \in names \cap Fields)
      BY <3>1
    <3>3. \E f \in names : <<f, v>> \in Frames[c][n].has
      BY <3>2, FrameFacts
    <3>4. Kind[v] = "mac" => ~Frames[c][n].net
      BY <3>1, <3>2, FrameFacts
    <3>. QED BY <1>1, <3>3, <3>4 DEF Finds
  <2>2. ASSUME Finds(t, c, n) PROVE \E w \in Address : StandsFor(j.addr, w) /\ IsOf(c, n, w)
    <3>1. PICK f \in names : <<f, v>> \in Frames[c][n].has
      BY <1>1, <2>2 DEF Finds
    <3>2. Kind[v] = "mac" => ~Frames[c][n].net
      BY <1>1, <2>2 DEF Finds
    <3>3. IsOf(c, n, v)
      <4>1. CASE v \in Frames[c][n].carries
        BY <4>1 DEF IsOf
      <4>2. CASE v \notin Frames[c][n].carries
        <5>1. PICK g \in Range(Frames[c][n].fields) : g.value = v
          BY <3>1, <4>2, FrameFacts
        <5>. QED BY <3>2, <5>1, FrameFacts
      <4>. QED BY <4>1, <4>2
    <3>. QED BY <3>3
  <2>. QED BY <2>1, <2>2
<1>. QED BY <1>2 DEF Fits

\* A search knows its lane and, once its frame has been answered, a field that holds or
\* shows it; the other end's name is the last to be tried.
Searching(j) ==
  /\ j = [addr |-> j.addr, of |-> j.of, num |-> j.num, at |-> j.at, hit |-> j.hit, lost |-> j.lost]
  /\ j.of \in Capture /\ j.addr \in Address
  /\ j.at = "frame" => j.hit = NoHit
  /\ j.at # "frame" =>
       j.hit.name \in Fields /\ j.hit.value \in Address /\ StandsFor(j.addr, j.hit.value)

Searches == hides \in Seq(Range(hides)) /\ \A j \in Range(hides) : Searching(j)

\* What is being checked for a hide has in it a term that fits.
Aims(q) == q.hide.addr # NoAddress => q.term \in q.text /\ Fits(q.hide, q.term)

Aimed == checks \in Seq(Range(checks)) /\ \A q \in Range(checks) : Aims(q)

Hiding == Lanes /\ Searches /\ Aimed

\* A hide or a term is the same whatever step is taken.
LEMMA Rigid ==
  /\ \A q : Aims(q)' <=> Aims(q)
  /\ \A j : Searching(j)' <=> Searching(j)
BY DEF Aims, Fits, Held, Finds, StandsFor, IsOf, Ends, Searching, NoHit

LEMMA OneChanged ==
  ASSUME NEW s, s \in Seq(Range(s)), NEW k \in DOMAIN s, NEW e
  PROVE  LET t == [s EXCEPT ![k] = e] IN
         t \in Seq(Range(t)) /\ Range(t) \subseteq Range(s) \cup {e}
<1>. DEFINE t == [s EXCEPT ![k] = e]
<1>1. DOMAIN s = 1 .. Len(s) /\ Len(s) \in Nat /\ s = [i \in 1 .. Len(s) |-> s[i]]
  OBVIOUS
<1>2. t = [i \in 1 .. Len(s) |-> IF i = k THEN e ELSE s[i]]
  BY <1>1
<1>. HIDE DEF t
<1>3. \A i \in 1 .. Len(s) : t[i] \in Range(s) \cup {e}
  BY <1>1, <1>2 DEF Range
<1>4. DOMAIN t = 1 .. Len(s) /\ t = [i \in 1 .. Len(s) |-> t[i]]
  BY <1>2
<1>5. Range(t) \subseteq Range(s) \cup {e}
  BY <1>3, <1>4 DEF Range
<1>6. t \in Seq(Range(t))
  <2>1. \A i \in 1 .. Len(s) : t[i] \in Range(t)
    BY <1>4 DEF Range
  <2>. DEFINE n == Len(s)
  <2>2. t \in [1 .. n -> Range(t)] /\ n \in Nat
    BY <1>1, <1>4, <2>1
  <2>. HIDE DEF n
  <2>. QED BY <2>2, SeqDef
<1>. QED BY <1>5, <1>6 DEF t

\* hide: the term is put to whatever filter there is now.
LEMMA TermAims ==
  ASSUME Aimed, NEW j, NEW t, HideBy(j, t), Fits(j, t)
  PROVE  Aimed' /\ UNCHANGED viewVars
<1>0. PICK q : q = [hide |-> j, term |-> t, text |-> filter \cup {t}]
  OBVIOUS
<1>1. filter \cup {t} # {}
  OBVIOUS
<1>2. checks' = Append(checks, q) /\ UNCHANGED viewVars
  BY <1>0, <1>1 DEF HideBy, Filter
<1>3. q.hide = j /\ q.term = t /\ t \in q.text
  BY <1>0
<1>4. Aims(q)
  BY <1>3 DEF Aims
<1>5. checks' \in Seq(Range(checks')) /\ Range(checks') = Range(checks) \cup {q}
  BY <1>2, OneMore DEF Aimed
<1>. QED BY <1>2, <1>4, <1>5, Rigid DEF Aimed

\* guess: where no field was found nothing is held by one, and the lane is its own address.
LEMMA GuessAims ==
  ASSUME Aimed, NEW j, HidesByGuess(j), j.addr \in Address, j.hit = NoHit
  PROVE  Aimed' /\ UNCHANGED viewVars
<1>1. CASE Kind[j.addr] = "name"
  <2>1. UNCHANGED <<checks, viewVars>>
    BY <1>1 DEF HidesByGuess
  <2>. QED BY <2>1, Rigid DEF Aimed
<1>2. CASE Kind[j.addr] # "name"
  <2>. DEFINE t == Term({Guess[Kind[j.addr]]}, j.addr, Kind[j.addr] = "mac")
  <2>1. HideBy(j, t)
    BY <1>2 DEF HidesByGuess
  <2>2. StandsFor(j.addr, j.addr)
    BY DEF StandsFor
  <2>3. j.hit.value \notin Address
    BY FlowAssumption DEF NoHit
  <2>3a. ASSUME NEW c \in Capture, NEW n \in DOMAIN Frames[c], NEW g \in Range(Frames[c][n].fields)
         PROVE  g.value # j.hit.value
    <3>1. g.value \in Address
      BY FrameFacts
    <3>. QED BY <2>3, <3>1
  <2>4. Fits(j, t)
    BY <2>2, <2>3a, TermFits
  <2>. HIDE DEF t
  <2>. QED BY <2>1, <2>4, TermAims
<1>. QED BY <1>1, <1>2

\* ends: a spelling is passed over when sharkd has no such field, or the answer is lost, so
\* what is tried in the end names the field that was found and, with no answer lost, the
\* other end's where there is one.
LEMMA SearchGoesOn ==
  ASSUME Aimed, Searches, NEW k \in DOMAIN hides, NEW j, NEW hit, NEW at, GoesOn(k, j, hit, at),
         j = [addr |-> j.addr, of |-> j.of, num |-> j.num, at |-> j.at, hit |-> j.hit, lost |-> j.lost],
         j.of \in Capture, j.addr \in Address,
         hit.name \in Fields, hit.value \in Address, StandsFor(j.addr, hit.value),
         at \in {"", "both", "other"},
         at = "other" => j.lost \/ Other[hit.name] \notin Fields
  PROVE  Aimed' /\ Searches' /\ UNCHANGED viewVars
<1>. DEFINE next == After(hit, at)
<1>0. PICK addr, of, num, was, had, lost :
        j = [addr |-> addr, of |-> of, num |-> num, at |-> was, hit |-> had, lost |-> lost]
  OBVIOUS
<1>00. j.addr = addr /\ j.of = of /\ j.num = num /\ j.at = was /\ (j.lost = lost)
  BY <1>0
<1>1. CASE next = "one"
  <2>1. PICK i : i = [j EXCEPT !.hit = hit]
    OBVIOUS
  <2>2. i = [addr |-> addr, of |-> of, num |-> num, at |-> was, hit |-> hit, lost |-> lost]
    BY <1>0, <2>1
  <2>3. i.addr = j.addr /\ i.hit = hit /\ i.lost = j.lost
    BY <1>00, <2>2
  <2>. DEFINE t == TermOf({hit.name}, hit.value)
  <2>4. HideBy(i, t) /\ hides' = RemoveAt(hides, k)
    BY <1>1, <2>1 DEF GoesOn
  <2>5. j.lost \/ Other[hit.name] \notin Fields
    BY <1>1, FlowAssumption DEF After
  <2>6. ASSUME NEW c \in Capture, NEW n \in DOMAIN Frames[c], NEW g \in Range(Frames[c][n].fields),
               g.name \in {hit.name} \cup (IF j.lost THEN {} ELSE {Other[hit.name]})
        PROVE  g.name \in {hit.name}
    <3>1. g.name \in Fields
      BY FrameFacts
    <3>. QED BY <2>5, <2>6, <3>1
  <2>7. Fits(i, t)
    BY <2>3, <2>6, TermFits DEF TermOf
  <2>. HIDE DEF t
  <2>8. Aimed' /\ UNCHANGED viewVars
    BY <2>4, <2>7, TermAims
  <2>9. hides' \in Seq(Range(hides')) /\ Range(hides') \subseteq Range(hides)
    BY <2>4, OneLess DEF Searches
  <2>. QED BY <2>8, <2>9, Rigid DEF Searches
<1>2. CASE next # "one"
  <2>1. PICK i : i = [j EXCEPT !.at = next, !.hit = hit]
    OBVIOUS
  <2>2. hides' = [hides EXCEPT ![k] = i] /\ UNCHANGED <<checks, viewVars>>
    BY <1>2, <2>1 DEF GoesOn, viewVars
  <2>3. next \in {"both", "other", "one"}
    BY DEF After
  <2>. HIDE DEF next
  <2>4. i = [addr |-> addr, of |-> of, num |-> num, at |-> next, hit |-> hit, lost |-> lost]
    <3>1. [j EXCEPT !.at = next, !.hit = hit] = [[j EXCEPT !.at = next] EXCEPT !.hit = hit]
      OBVIOUS
    <3>2. PICK b : b = [j EXCEPT !.at = next]
      OBVIOUS
    <3>3. b = [addr |-> addr, of |-> of, num |-> num, at |-> next, hit |-> had, lost |-> lost]
      BY <1>0, <3>2
    <3>4. i = [b EXCEPT !.hit = hit]
      BY <2>1, <3>1, <3>2, Zenon
    <3>. QED BY <3>3, <3>4
  <2>5. /\ i.addr = addr /\ i.of = of /\ i.num = num /\ i.at = next /\ i.hit = hit /\ i.lost = lost
    BY <2>4
  <2>6. Searching(i)
    <3>1. i = [addr |-> i.addr, of |-> i.of, num |-> i.num, at |-> i.at, hit |-> i.hit, lost |-> i.lost]
      BY <2>4, <2>5
    <3>2. next # "frame"
      BY <2>3
    <3>. QED BY <1>00, <2>5, <3>1, <3>2 DEF Searching
  <2>7. hides' \in Seq(Range(hides')) /\ Range(hides') \subseteq Range(hides) \cup {i}
    BY <2>2, OneChanged DEF Searches
  <2>8. Searches'
    BY <2>6, <2>7, Rigid DEF Searches
  <2>9. Aimed'
    BY <2>2, Rigid DEF Aimed
  <2>. QED BY <2>2, <2>8, <2>9
<1>. QED BY <1>1, <1>2

\* What asks for no term leaves the searches as they are, and so does an answer to one of
\* the checks.
LEMMA StillAimed ==
  ASSUME Aimed, UNCHANGED checks \/ \E k \in DOMAIN checks : checks' = RemoveAt(checks, k)
  PROVE  Aimed'
<1>1. checks' \in Seq(Range(checks')) /\ Range(checks') \subseteq Range(checks)
  BY OneLess DEF Aimed
<1>. QED BY <1>1, Rigid DEF Aimed

LEMMA StillSearches ==
  ASSUME Searches, UNCHANGED hides \/ \E k \in DOMAIN hides : hides' = RemoveAt(hides, k)
  PROVE  Searches'
<1>1. hides' \in Seq(Range(hides')) /\ Range(hides') \subseteq Range(hides)
  BY OneLess DEF Searches
<1>. QED BY <1>1, Rigid DEF Searches

\* holder: the field found is one of the frame's, and the lane's label may stand for it.
LEMMA HolderHolds ==
  ASSUME NEW c \in Capture, NEW n \in DOMAIN Frames[c], NEW addr, Holders(c, n, addr) # {}
  PROVE  LET f == Holder(c, n, addr) IN
         f.name \in Fields /\ f.value \in Address /\ StandsFor(addr, f.value)
<1>. PICK fs : fs = Frames[c][n].fields
  OBVIOUS
<1>. DEFINE is == Holders(c, n, addr)
<1>1. fs \in Seq(Range(fs))
  BY FlowAssumption
<1>2. PICK m \in Nat : DOMAIN fs = 1 .. m
  BY <1>1
<1>3. is \in SUBSET (1 .. m)
  BY <1>2 DEF Holders
<1>4. \A i \in is : fs[i] \in Range(fs) /\ addr \in {fs[i].value} \cup fs[i].shows
  BY DEF Holders, Range
<1>5. Holder(c, n, addr) = fs[CHOOSE i \in is : \A j \in is : i <= j]
  BY DEF Holder
<1>. HIDE DEF is
<1>6. PICK i \in is : \A j \in 1 .. i - 1 : j \notin is
  BY <1>3, FirstOf DEF is
<1>7. \A j \in is : i <= j
  BY <1>3, <1>6
<1>8. (CHOOSE x \in is : \A j \in is : x <= j) \in is
  BY <1>7
<1>9. PICK x \in is : Holder(c, n, addr) = fs[x]
  BY <1>5, <1>8
<1>10. fs[x].name \in Fields /\ fs[x].value \in Address
  BY <1>4, FrameFacts
<1>11. StandsFor(addr, fs[x].value)
  BY <1>4 DEF StandsFor
<1>. QED BY <1>9, <1>10, <1>11

LEMMA AnswersAim ==
  ASSUME Searches, Aimed, NEW k \in DOMAIN hides,
         FrameArrives(k) \/ FrameFails(k) \/ Compiles(k) \/ CompilesNot(k)
  PROVE  Aimed' /\ Searches'
<1>1. PICK j : j = hides[k]
  OBVIOUS
<1>2. Searching(j)
  BY <1>1 DEF Searches, Range
<1>3. /\ j = [addr |-> j.addr, of |-> j.of, num |-> j.num, at |-> j.at, hit |-> j.hit, lost |-> j.lost]
      /\ j.of \in Capture /\ j.addr \in Address
  BY <1>2 DEF Searching
<1>4. j.at \in {"both", "other"} =>
        j.hit.name \in Fields /\ j.hit.value \in Address /\ StandsFor(j.addr, j.hit.value)
  BY <1>2 DEF Searching
<1>5. CASE FrameArrives(k)
  <2>1. j.at = "frame" /\ j.hit = NoHit /\ j.num \in DOMAIN Frames[j.of]
    BY <1>1, <1>2, <1>5 DEF FrameArrives, Searching
  <2>2. CASE Holders(j.of, j.num, j.addr) = {}
    <3>1. HidesByGuess(j) /\ hides' = RemoveAt(hides, k)
      BY <1>1, <1>5, <2>2 DEF FrameArrives
    <3>. QED BY <1>3, <2>1, <3>1, GuessAims, StillSearches
  <2>3. CASE Holders(j.of, j.num, j.addr) # {}
    <3>1. PICK f : f = Holder(j.of, j.num, j.addr)
      OBVIOUS
    <3>2. PICK hit : hit = [name |-> f.name, value |-> f.value]
      OBVIOUS
    <3>3. GoesOn(k, j, hit, "")
      BY <1>1, <1>5, <2>3, <3>1, <3>2 DEF FrameArrives
    <3>4. hit.name \in Fields /\ hit.value \in Address /\ StandsFor(j.addr, hit.value)
      BY <1>3, <2>1, <2>3, <3>1, <3>2, HolderHolds
    <3>. QED BY <1>3, <3>3, <3>4, SearchGoesOn
  <2>. QED BY <2>2, <2>3
<1>6. CASE FrameFails(k)
  <2>1. HidesByGuess(j) /\ hides' = RemoveAt(hides, k) /\ j.hit = NoHit
    BY <1>1, <1>2, <1>6 DEF FrameFails, Searching
  <2>. QED BY <1>3, <2>1, GuessAims, StillSearches
<1>7. CASE Compiles(k)
  <2>. DEFINE names == Spelt(j.hit, j.at)
              t == TermOf(names, j.hit.value)
  <2>1. /\ j.at \in {"both", "other"} /\ Tries(j.hit, j.at) \in Fields
        /\ HideBy(j, t) /\ hides' = RemoveAt(hides, k)
    BY <1>1, <1>7 DEF Compiles
  <2>2. ASSUME NEW f \in Fields, f \in {j.hit.name} \cup (IF j.lost THEN {} ELSE {Other[j.hit.name]})
        PROVE  f \in names \/ Both[f] \in names \cap Fields
    <3>1. f = j.hit.name \/ f = Other[j.hit.name]
      BY <2>2
    <3>2. CASE j.at = "both"
      <4>1. names = {Both[j.hit.name]} /\ Both[j.hit.name] \in Fields
        BY <2>1, <3>2 DEF Spelt, Tries
      <4>2. Both[f] = Both[j.hit.name]
        BY <1>4, <2>1, <3>1, FlowAssumption
      <4>. QED BY <4>1, <4>2
    <3>3. CASE j.at = "other"
      BY <3>1, <3>3 DEF Spelt
    <3>. QED BY <2>1, <3>2, <3>3
  <2>. HIDE DEF names
  <2>3. \A c \in Capture : \A n \in DOMAIN Frames[c] : \A g \in Range(Frames[c][n].fields) :
          g.name \in {j.hit.name} \cup (IF j.lost THEN {} ELSE {Other[j.hit.name]}) =>
            g.name \in names \/ Both[g.name] \in names \cap Fields
    BY <2>2, FrameFacts
  <2>4. Fits(j, t)
    BY <1>4, <2>1, <2>3, TermFits DEF TermOf
  <2>. HIDE DEF t
  <2>. QED BY <2>1, <2>4, TermAims, StillSearches
<1>8. CASE CompilesNot(k)
  <2>0. j.at \in {"both", "other"}
    BY <1>1, <1>8 DEF CompilesNot
  <2>1. CASE Tries(j.hit, j.at) \notin Fields /\ GoesOn(k, j, j.hit, j.at)
    <3>1. j.at = "other" => Other[j.hit.name] \notin Fields
      BY <2>1 DEF Tries
    <3>. QED BY <1>3, <1>4, <2>0, <2>1, <3>1, SearchGoesOn
  <2>2. CASE GoesOn(k, [j EXCEPT !.lost = TRUE], j.hit, j.at)
    <3>1. PICK i : i = [j EXCEPT !.lost = TRUE]
      OBVIOUS
    <3>2. i = [addr |-> j.addr, of |-> j.of, num |-> j.num, at |-> j.at, hit |-> j.hit, lost |-> TRUE]
      BY <1>3, <3>1
    <3>3. /\ i = [addr |-> i.addr, of |-> i.of, num |-> i.num, at |-> i.at, hit |-> i.hit, lost |-> i.lost]
          /\ i.addr = j.addr /\ i.of = j.of /\ i.lost
      BY <3>2
    <3>4. GoesOn(k, i, j.hit, j.at)
      BY <2>2, <3>1
    <3>. QED BY <1>3, <1>4, <2>0, <3>3, <3>4, SearchGoesOn
  <2>. QED BY <1>1, <1>8, <2>1, <2>2 DEF CompilesNot
<1>. QED BY <1>5, <1>6, <1>7, <1>8

LEMMA HideSearches ==
  ASSUME Hiding, NEW a \in Address, Hide(a)
  PROVE  Aimed' /\ Searches'
<1>1. PICK j : j = [NoHide EXCEPT !.addr = a]
  OBVIOUS
<1>2. j = [addr |-> a, of |-> file, num |-> 0, at |-> "frame", hit |-> NoHit, lost |-> FALSE]
  BY <1>1 DEF NoHide
<1>3. CASE Using(a) = {}
  <2>1. HidesByGuess(j) /\ UNCHANGED hides
    BY <1>1, <1>3 DEF Hide
  <2>2. j.addr = a /\ j.hit = NoHit
    BY <1>2
  <2>. QED BY <2>1, <2>2, GuessAims, StillSearches DEF Hiding
<1>4. CASE Using(a) # {}
  <2>1. PICK u \in Using(a) : hides' = Append(hides, [j EXCEPT !.num = u[2]])
    BY <1>1, <1>4 DEF Hide
  <2>2. UNCHANGED checks
    BY <1>4 DEF Hide
  <2>3. PICK i : i = [j EXCEPT !.num = u[2]]
    OBVIOUS
  <2>4. i = [addr |-> a, of |-> file, num |-> u[2], at |-> "frame", hit |-> NoHit, lost |-> FALSE]
    BY <1>2, <2>3
  <2>5. Searching(i)
    BY <2>4 DEF Searching, Hiding, Lanes, LanesRight, TypeOK
  <2>6. hides' \in Seq(Range(hides')) /\ Range(hides') = Range(hides) \cup {i}
    BY <2>1, <2>3, OneMore DEF Searches, Hiding
  <2>7. Searches'
    BY <2>5, <2>6, Rigid DEF Searches, Hiding
  <2>. QED BY <2>2, <2>7, StillAimed DEF Hiding
<1>. QED BY <1>3, <1>4

LEMMA EditAims ==
  ASSUME Hiding, NEW fs, Edit(fs)
  PROVE  Aimed' /\ Searches'
<1>1. Searches'
  BY StillSearches DEF Edit, Hiding
<1>2. CASE fs = {}
  BY <1>1, <1>2, StillAimed DEF Edit, Filter, Hiding
<1>3. CASE fs # {}
  <2>1. PICK q : q = [hide |-> NoHide, term |-> NoTerm, text |-> fs]
    OBVIOUS
  <2>2. checks' = Append(checks, q)
    BY <1>3, <2>1 DEF Edit, Filter
  <2>3. Aims(q)
    BY <2>1 DEF NoHide, Aims
  <2>4. checks' \in Seq(Range(checks')) /\ Range(checks') = Range(checks) \cup {q}
    BY <2>2, OneMore DEF Aimed, Hiding
  <2>. QED BY <1>1, <2>3, <2>4, Rigid DEF Aimed, Hiding
<1>. QED BY <1>2, <1>3

LEMMA InitHiding == Init => Hiding
<1>. SUFFICES ASSUME Init PROVE Hiding
  OBVIOUS
<1>1. Range(<<>>) = {} /\ <<>> \in Seq({})
  BY DEF Range
<1>2. Searches /\ Aimed
  BY <1>1 DEF Init, Searches, Aimed
<1>. QED BY <1>2, InitLanes DEF Hiding

LEMMA NextHiding == Hiding /\ [Next]_vars => Hiding'
<1>. SUFFICES ASSUME Hiding, [Next]_vars PROVE Hiding'
  OBVIOUS
<1>1. Lanes'
  BY NextLanes DEF Hiding
<1>2. ASSUME UNCHANGED hides, UNCHANGED checks \/ \E k \in DOMAIN checks : checks' = RemoveAt(checks, k)
      PROVE  Aimed' /\ Searches'
  BY <1>2, StillAimed, StillSearches DEF Hiding
<1>3. ASSUME NEW k \in DOMAIN net, PageArrives(k) \/ PageFails(k) PROVE Aimed' /\ Searches'
  BY <1>2, <1>3 DEF PageArrives, PageFails
<1>4. ASSUME NEW k \in DOMAIN hides, FrameArrives(k) \/ FrameFails(k) \/ Compiles(k) \/ CompilesNot(k)
      PROVE  Aimed' /\ Searches'
  BY <1>4, AnswersAim DEF Hiding
<1>5. ASSUME NEW k \in DOMAIN checks, Filters(k) \/ FiltersNot(k) PROVE Aimed' /\ Searches'
  BY <1>2, <1>5 DEF Filters, FiltersNot
<1>6. ASSUME (\E c \in Capture : Open(c)) \/ (\E p \in 0 .. MaxPage : FetchPage(p))
             \/ (\E a \in Address : Drag(a)) \/ (\E to \in DOMAIN nodes : Place(to))
             \/ Dropped \/ UNCHANGED vars
      PROVE  Aimed' /\ Searches'
  BY <1>2, <1>6 DEF Open, FetchPage, Drag, Place, Dropped, vars
<1>7. ASSUME NEW a \in Address, Hide(a) PROVE Aimed' /\ Searches'
  BY <1>7, HideSearches
<1>8. ASSUME NEW fs \in SUBSET filter, Edit(fs) PROVE Aimed' /\ Searches'
  BY <1>8, EditAims
<1>9. Aimed' /\ Searches'
  BY <1>3, <1>4, <1>5, <1>6, <1>7, <1>8 DEF Next, Answers, User
<1>. QED BY <1>1, <1>9 DEF Hiding

\* The rows a filter leaves are those none of its terms finds.
LEMMA ViewIsWhatIsLeft ==
  ASSUME NEW c \in Capture, NEW fs
  PROVE  Range(View(c, fs)) = {n \in DOMAIN Frames[c] : \A t \in fs : ~Finds(t, c, n)}
<1>. DEFINE is == {n \in DOMAIN Frames[c] : \A t \in fs : ~Finds(t, c, n)}
<1>1. PICK m \in Nat : DOMAIN Frames[c] = 1 .. m
  <2>1. Frames[c] \in Seq(Range(Frames[c]))
    BY FlowAssumption
  <2>. QED BY <2>1
<1>2. IsFiniteSet(is) /\ is \in SUBSET Nat
  <2>1. IsFiniteSet(1 .. m)
    BY FS_Interval
  <2>. QED BY <1>1, <2>1, FS_Subset
<1>3. View(c, fs) = InOrder(is)
  BY DEF View
<1>. HIDE DEF is
<1>4. /\ InOrder(is) \in [1 .. Cardinality(is) -> is]
      /\ \A i \in is : \E k \in 1 .. Cardinality(is) : InOrder(is)[k] = i
  BY <1>2, Ordered
<1>5. Range(InOrder(is)) = is
  <2>. DEFINE o == InOrder(is)
              N == Cardinality(is)
  <2>1. o \in [1 .. N -> is] /\ \A i \in is : \E k \in 1 .. N : o[k] = i
    BY <1>4
  <2>. HIDE DEF o, N
  <2>2. Range(o) = is
    BY <2>1 DEF Range
  <2>. QED BY <2>2 DEF o
<1>. QED BY <1>3, <1>5 DEF is

\* hide, addrTerm, ends and filter: the filter a lane's x asked for leaves no frame in view
\* that the lane draws from the field its address was found in, at either end of it where no
\* answer about the names was lost, and its term finds no frame that has nothing of the
\* address - however many questions it takes, whatever of them is lost, and whatever pages,
\* lanes, filters, captures and other hides come in between.  What is assumed is what
\* filters find of a dissection and what columns show of it, and nothing of how the page
\* goes about naming fields (FlowAssumption).
THEOREM SpecHidesItsLane == Spec => HidesItsLane
<1>. DEFINE Right(k) == LET j == checks[k].hide
                            t == checks[k].term
                        IN  j.addr # NoAddress /\ Filters(k) =>
                              /\ \A n \in Range(View(file, filter')) : ~Held(j, file, n)
                              /\ \A n \in DOMAIN Frames[file] :
                                   Finds(t, file, n) => \E v \in Address : StandsFor(j.addr, v) /\ IsOf(file, n, v)
<1>1. ASSUME Hiding PROVE \A k \in DOMAIN checks : Right(k)
  <2>. SUFFICES ASSUME NEW k \in DOMAIN checks, checks[k].hide.addr # NoAddress, Filters(k)
                PROVE  /\ \A n \in Range(View(file, filter')) : ~Held(checks[k].hide, file, n)
                       /\ \A n \in DOMAIN Frames[file] :
                            Finds(checks[k].term, file, n) =>
                              \E v \in Address : StandsFor(checks[k].hide.addr, v) /\ IsOf(file, n, v)
    OBVIOUS
  <2>1. PICK q : q = checks[k]
    OBVIOUS
  <2>2. q.term \in q.text /\ Fits(q.hide, q.term)
    BY <1>1, <2>1 DEF Hiding, Aimed, Aims, Range
  <2>3. file \in Capture
    BY <1>1 DEF Hiding, Lanes, LanesRight, TypeOK
  <2>4. filter' = q.text
    BY <2>1 DEF Filters, Refilter
  <2>5. \A n \in Range(View(file, filter')) : n \in DOMAIN Frames[file] /\ ~Finds(q.term, file, n)
    BY <2>2, <2>3, <2>4, ViewIsWhatIsLeft
  <2>. QED BY <2>1, <2>2, <2>3, <2>5 DEF Fits
<1>2. Hiding => \A k \in DOMAIN checks : Right(k)
  BY <1>1
<1>. HIDE DEF Right
<1>3. HidesItsLane <=> [][\A k \in DOMAIN checks : Right(k)]_vars
  BY DEF HidesItsLane, Right
<1>. QED BY <1>2, <1>3, InitHiding, NextHiding, PTL DEF Spec
=============================================================================

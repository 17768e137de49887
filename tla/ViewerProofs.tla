---------------------------- MODULE ViewerProofs ----------------------------
(***************************************************************************)
(* What Viewer keeps, for any captures, filters and sizes of a page, any   *)
(* number of requests in flight and of things the user does.               *)
(***************************************************************************)
EXTENDS Viewer, SequenceTheorems, WellFoundedInduction, TLAPS

----------------------------------------------------------------------------
(* Sequences, and pages.                                                   *)

LEMMA RangeOf ==
  ASSUME NEW S, NEW s \in Seq(S)
  PROVE  /\ Range(s) = {s[i] : i \in 1 .. Len(s)} /\ Range(s) \subseteq S
         /\ s = <<>> <=> Range(s) = {}
<1>1. DOMAIN s = 1 .. Len(s) /\ Len(s) \in Nat /\ \A i \in 1 .. Len(s) : s[i] \in S
  OBVIOUS
<1>2. Range(s) = {s[i] : i \in 1 .. Len(s)} /\ Range(s) \subseteq S
  BY <1>1 DEF Range
<1>3. ASSUME s # <<>> PROVE Range(s) # {}
  <2>1. 1 \in 1 .. Len(s)
    BY <1>3
  <2>. QED BY <2>1, <1>2
<1>4. ASSUME s = <<>> PROVE Range(s) = {}
  <2>1. 1 .. Len(s) = {}
    BY <1>4
  <2>. QED BY <2>1, <1>2
<1>. QED BY <1>2, <1>3, <1>4

LEMMA RangeOfAppended ==
  ASSUME NEW S, NEW s \in Seq(S), NEW e \in S
  PROVE  Append(s, e) \in Seq(S) /\ Range(Append(s, e)) = Range(s) \cup {e}
<1>1. Append(s, e) \in Seq(S) /\ Len(Append(s, e)) = Len(s) + 1 /\ Len(s) \in Nat
  OBVIOUS
<1>2. \A i \in 1 .. Len(s) + 1 : Append(s, e)[i] = IF i <= Len(s) THEN s[i] ELSE e
  OBVIOUS
<1>3. DOMAIN Append(s, e) = 1 .. Len(s) + 1 /\ DOMAIN s = 1 .. Len(s)
  OBVIOUS
<1>4. \A x : x \in Range(s) \cup {e} => x \in Range(Append(s, e))
  <2>. TAKE x
  <2>. HAVE x \in Range(s) \cup {e}
  <2>1. CASE x = e
    <3>1. Len(s) + 1 \in 1 .. Len(s) + 1 /\ Append(s, e)[Len(s) + 1] = x
      BY <2>1, <1>1, <1>2
    <3>. QED BY <3>1, <1>3 DEF Range
  <2>2. CASE x \in Range(s)
    <3>1. PICK i \in 1 .. Len(s) : x = s[i]
      BY <2>2, <1>3 DEF Range
    <3>. QED BY <3>1, <1>1, <1>2, <1>3 DEF Range
  <2>. QED BY <2>1, <2>2
<1>5. \A x : x \in Range(Append(s, e)) => x \in Range(s) \cup {e}
  <2>. TAKE x
  <2>. HAVE x \in Range(Append(s, e))
  <2>1. PICK i \in 1 .. Len(s) + 1 : x = Append(s, e)[i]
    BY <1>3 DEF Range
  <2>2. CASE i <= Len(s)
    BY <2>1, <2>2, <1>1, <1>2, <1>3 DEF Range
  <2>3. CASE ~(i <= Len(s))
    BY <2>1, <2>3, <1>2
  <2>. QED BY <2>2, <2>3
<1>. QED BY <1>1, <1>4, <1>5

LEMMA RangeOfJoined ==
  ASSUME NEW S, NEW s \in Seq(S), NEW t \in Seq(S)
  PROVE  s \o t \in Seq(S) /\ Range(s \o t) = Range(s) \cup Range(t)
<1>1. s \o t \in Seq(S) /\ Len(s \o t) = Len(s) + Len(t) /\ Len(s) \in Nat /\ Len(t) \in Nat
  OBVIOUS
<1>2. \A i \in 1 .. Len(s) + Len(t) : (s \o t)[i] = IF i <= Len(s) THEN s[i] ELSE t[i - Len(s)]
  OBVIOUS
<1>3. DOMAIN (s \o t) = 1 .. Len(s) + Len(t) /\ DOMAIN s = 1 .. Len(s) /\ DOMAIN t = 1 .. Len(t)
  OBVIOUS
<1>4. \A i \in 1 .. Len(s) : i \in 1 .. Len(s) + Len(t) /\ (s \o t)[i] = s[i]
  BY <1>1, <1>2
<1>5. \A i \in 1 .. Len(t) : i + Len(s) \in 1 .. Len(s) + Len(t) /\ (s \o t)[i + Len(s)] = t[i]
  BY <1>1, <1>2
<1>6. \A i \in 1 .. Len(s) + Len(t) :
        \/ i \in 1 .. Len(s) /\ (s \o t)[i] = s[i]
        \/ i - Len(s) \in 1 .. Len(t) /\ (s \o t)[i] = t[i - Len(s)]
  BY <1>1, <1>2
<1>7. \A x \in Range(s \o t) : x \in Range(s) \cup Range(t)
  BY <1>3, <1>6 DEF Range
<1>8. \A x \in Range(s) : x \in Range(s \o t)
  BY <1>3, <1>4 DEF Range
<1>9. \A x \in Range(t) : x \in Range(s \o t)
  BY <1>3, <1>5 DEF Range
<1>. QED BY <1>1, <1>7, <1>8, <1>9

\* An answered request is gone, and no other is.
LEMMA RangeOfRemoved ==
  ASSUME NEW S, NEW s \in Seq(S), NEW k \in 1 .. Len(s)
  PROVE  /\ RemoveAt(s, k) \in Seq(S) /\ Len(RemoveAt(s, k)) = Len(s) - 1
         /\ Range(RemoveAt(s, k)) \subseteq Range(s)
         /\ Range(s) \subseteq Range(RemoveAt(s, k)) \cup {s[k]}
<1>. DEFINE front == SubSeq(s, 1, k - 1)  back == SubSeq(s, k + 1, Len(s))
<1>1. front \in Seq(S) /\ back \in Seq(S) /\ Len(front) = k - 1 /\ Len(back) = Len(s) - k
  OBVIOUS
<1>2. \A i \in 1 .. k - 1 : front[i] = s[i]
  OBVIOUS
<1>3. \A i \in 1 .. Len(s) - k : back[i] = s[k + i]
  OBVIOUS
<1>4. RemoveAt(s, k) = front \o back
  BY DEF RemoveAt
<1>5. DOMAIN front = 1 .. k - 1 /\ DOMAIN back = 1 .. Len(s) - k /\ DOMAIN s = 1 .. Len(s)
  BY <1>1
<1>. HIDE DEF front, back
<1>6. Range(front) \subseteq Range(s) /\ Range(back) \subseteq Range(s)
  <2>1. \A i \in 1 .. k - 1 : i \in 1 .. Len(s)
    OBVIOUS
  <2>2. \A i \in 1 .. Len(s) - k : k + i \in 1 .. Len(s)
    OBVIOUS
  <2>. QED BY <2>1, <2>2, <1>2, <1>3, <1>5 DEF Range
<1>7. Range(s) \subseteq Range(front) \cup Range(back) \cup {s[k]}
  <2>. SUFFICES ASSUME NEW i \in 1 .. Len(s), i # k
                PROVE  s[i] \in Range(front) \cup Range(back)
    BY <1>5 DEF Range
  <2>1. CASE i < k
    BY <2>1, <1>2, <1>5 DEF Range
  <2>2. CASE i > k
    <3>1. i - k \in 1 .. Len(s) - k /\ back[i - k] = s[i]
      BY <2>2, <1>3
    <3>. QED BY <3>1, <1>5 DEF Range
  <2>. QED BY <2>1, <2>2
<1>8. front \o back \in Seq(S) /\ Range(front \o back) = Range(front) \cup Range(back)
  BY <1>1, RangeOfJoined
<1>9. Len(front \o back) = Len(s) - 1
  BY <1>1
<1>. QED BY <1>4, <1>6, <1>7, <1>8, <1>9

LEMMA RangeOfReplaced ==
  ASSUME NEW S, NEW s \in Seq(S), NEW k \in 1 .. Len(s), NEW e \in S
  PROVE  /\ [s EXCEPT ![k] = e] \in Seq(S)
         /\ Range([s EXCEPT ![k] = e]) \subseteq Range(s) \cup {e} /\ e \in Range([s EXCEPT ![k] = e])
         /\ Range(s) \subseteq Range([s EXCEPT ![k] = e]) \cup {s[k]}
BY DEF Range

LEMMA RangeOfTail ==
  ASSUME NEW S, NEW s \in Seq(S), s # <<>>
  PROVE  /\ s[1] \in S /\ s[1] \in Range(s) /\ Tail(s) \in Seq(S)
         /\ Range(Tail(s)) \subseteq Range(s) /\ Range(s) \subseteq Range(Tail(s)) \cup {s[1]}
<1>1. s[1] \in S /\ Tail(s) \in Seq(S) /\ DOMAIN s = 1 .. Len(s) /\ Len(s) \in Nat \ {0}
  OBVIOUS
<1>2. DOMAIN Tail(s) = 1 .. Len(s) - 1 /\ \A i \in 1 .. Len(s) - 1 : Tail(s)[i] = s[i + 1]
  OBVIOUS
<1>3. \A i \in 1 .. Len(s) : i = 1 \/ (i - 1 \in 1 .. Len(s) - 1 /\ Tail(s)[i - 1] = s[i])
  BY <1>1, <1>2
<1>4. \A i \in 1 .. Len(s) - 1 : i + 1 \in 1 .. Len(s)
  BY <1>1
<1>5. s[1] \in Range(s)
  BY <1>1 DEF Range
<1>6. \A x \in Range(Tail(s)) : x \in Range(s)
  BY <1>1, <1>2, <1>4 DEF Range
<1>7. \A x \in Range(s) : x \in Range(Tail(s)) \cup {s[1]}
  <2>. TAKE x \in Range(s)
  <2>1. PICK i \in 1 .. Len(s) : x = s[i]
    BY <1>1 DEF Range
  <2>2. CASE i = 1
    BY <2>1, <2>2
  <2>3. CASE i # 1
    BY <2>1, <2>3, <1>2, <1>3 DEF Range
  <2>. QED BY <2>2, <2>3
<1>. QED BY <1>1, <1>5, <1>6, <1>7

LEMMA DividedBy ==
  ASSUME NEW n \in Nat \ {0}, NEW i \in Nat
  PROVE  i \div n \in Nat /\ i % n \in 0 .. n - 1 /\ i = (i \div n) * n + (i % n)
OBVIOUS

LEMMA Times ==
  ASSUME NEW n \in Nat \ {0}, NEW p \in Nat, NEW q \in Nat
  PROVE  p * n \in Nat /\ q * n \in Nat /\ (p + 1) * n = p * n + n /\ (p < q => p * n + n <= q * n)
OBVIOUS

LEMMA Divided ==
  ASSUME NEW i \in Nat
  PROVE  i \div PAGE \in Nat /\ i % PAGE \in 0 .. PAGE - 1 /\ i = (i \div PAGE) * PAGE + (i % PAGE)
<1>1. PAGE \in Nat \ {0}
  BY ViewerAssumption
<1>. QED BY <1>1, DividedBy

LEMMA PageOf ==
  ASSUME NEW p \in Nat, NEW i \in p * PAGE .. p * PAGE + PAGE - 1
  PROVE  i \in Nat /\ i \div PAGE = p /\ i % PAGE = i - p * PAGE
<1>. DEFINE q == i \div PAGE
<1>1. PAGE \in Nat \ {0}
  BY ViewerAssumption
<1>2. p * PAGE \in Nat
  BY <1>1, Times
<1>3. i \in Nat
  BY <1>1, <1>2
<1>4. q \in Nat /\ i % PAGE \in 0 .. PAGE - 1 /\ i = q * PAGE + (i % PAGE)
  BY <1>3, Divided
<1>. HIDE DEF q
<1>5. q * PAGE \in Nat /\ (p < q => p * PAGE + PAGE <= q * PAGE) /\ (q < p => q * PAGE + PAGE <= p * PAGE)
  BY <1>1, <1>4, Times
<1>6. ~(p < q) /\ ~(q < p)
  <2>. DEFINE a == p * PAGE  b == q * PAGE
  <2>1. a \in Nat /\ b \in Nat /\ i \in a .. a + PAGE - 1 /\ i = b + (i % PAGE)
        /\ (p < q => a + PAGE <= b) /\ (q < p => b + PAGE <= a)
    BY <1>2, <1>4, <1>5
  <2>. HIDE DEF a, b
  <2>. QED BY <1>1, <1>4, <2>1
<1>7. p = q
  BY <1>4, <1>6
<1>8. i % PAGE = i - p * PAGE
  BY <1>1, <1>2, <1>3, <1>4, <1>7
<1>. QED BY <1>3, <1>7, <1>8 DEF q

LEMMA RowsHavePages ==
  ASSUME NEW i \in 0 .. (MaxPage + 1) * PAGE - 1
  PROVE  i \in Nat /\ i \div PAGE \in 0 .. MaxPage
<1>1. PAGE \in Nat \ {0} /\ MaxPage \in Nat
  BY ViewerAssumption
<1>2. (MaxPage + 1) * PAGE \in Nat
  BY <1>1, Times
<1>3. i \in Nat /\ i < (MaxPage + 1) * PAGE
  BY <1>2
<1>. DEFINE q == i \div PAGE  m == MaxPage + 1
<1>4. q \in Nat /\ i % PAGE \in Nat /\ i = q * PAGE + (i % PAGE)
  BY <1>1, <1>3, Divided
<1>. HIDE DEF q
<1>5. q * PAGE \in Nat /\ q * PAGE <= i
  BY <1>1, <1>4, Times
<1>6. m \in Nat /\ (m < q => m * PAGE + PAGE <= q * PAGE)
  BY <1>1, <1>4, Times
<1>7. q # m
  BY <1>3, <1>5
<1>8. q < m
  <2>. DEFINE a == q * PAGE  b == m * PAGE
  <2>1. a \in Nat /\ b \in Nat /\ i < b /\ a <= i /\ (m < q => b + PAGE <= a)
    BY <1>2, <1>3, <1>5, <1>6
  <2>. HIDE DEF a, b, m
  <2>. QED BY <1>1, <1>3, <1>4, <1>6, <1>7, <2>1
<1>. QED BY <1>1, <1>3, <1>4, <1>8 DEF q

\* A page is the part of its view it says it is.
LEMMA PageRowsRight ==
  ASSUME NEW f \in Capture, NEW q \in Text, NEW p \in Nat
  PROVE  LET n == Len(View[f][q])  rows == PageRows(f, q, p) IN
         /\ n \in Nat /\ p * PAGE \in Nat
         /\ rows \in Seq(Nat \ {0})
         /\ Len(rows) \in 0 .. PAGE
         /\ n <= p * PAGE => Len(rows) = 0
         /\ p * PAGE <= n => p * PAGE + Len(rows) <= n
         /\ p * PAGE <= n /\ Len(rows) < PAGE => p * PAGE + Len(rows) = n
         /\ \A i \in 1 .. Len(rows) : p * PAGE + i \in 1 .. n /\ rows[i] = View[f][q][p * PAGE + i]
<1>. DEFINE n == Len(View[f][q])  left == n - p * PAGE
            m == IF left < 0 THEN 0 ELSE IF left < PAGE THEN left ELSE PAGE
<1>1. View[f][q] \in Seq(Nat \ {0}) /\ n \in Nat /\ PAGE \in Nat \ {0}
  BY ViewerAssumption DEF Text
<1>2. p * PAGE \in Nat
  BY <1>1
<1>3. PageRows(f, q, p) = [i \in 1 .. m |-> View[f][q][p * PAGE + i]]
  BY DEF PageRows
<1>4. \A i \in 1 .. n : View[f][q][i] \in Nat \ {0}
  BY <1>1
<1>. HIDE DEF n
<1>5. m \in 0 .. PAGE /\ (n <= p * PAGE => m = 0) /\ (p * PAGE <= n => p * PAGE + m <= n)
      /\ (p * PAGE <= n /\ m < PAGE => p * PAGE + m = n) /\ \A i \in 1 .. m : p * PAGE + i \in 1 .. n
  BY <1>1, <1>2
<1>. HIDE DEF m
<1>6. PageRows(f, q, p) \in Seq(Nat \ {0}) /\ Len(PageRows(f, q, p)) = m
  BY <1>3, <1>4, <1>5
<1>. QED BY <1>1, <1>2, <1>3, <1>5, <1>6 DEF n

----------------------------------------------------------------------------
(* The invariant.                                                          *)

InFlight == Range(net)
IsPage(r) == r.kind = "page"

\* A row's number is a frame's; a request for a frame asks for one, and a link's for a
\* frame whose page there is room for; what waits for a page waits with that page's
\* request, and a page that is pending has one.
SoundRequest(r) ==
  /\ IsPage(r) => \A w \in Range(r.waits) : w[3] = r.page
  /\ r.kind = "frame" => r.num # 0
  /\ r.kind = "status" => r.num \in Linked

Sound ==
  /\ \A p \in 0 .. MaxPage : pages[p].rows \in Seq(Nat \ {0})
  /\ \A r \in InFlight : SoundRequest(r)
  /\ \A p \in 0 .. MaxPage : pages[p].is = "pending" => \E r \in InFlight : IsPage(r) /\ r.page = p

\* The view on screen, and a page that begins in it or at its end.
Shown     == View[file][filter]
Within(p) == p * PAGE <= Len(Shown)

\* While no page of an earlier view was on its way, what is on its way and what has
\* arrived is of this one; and what is asked for begins no further than the view's end,
\* which the page that tells the end has to.
OwnPages ==
  file # None /\ own =>
    /\ \A r \in InFlight :
         IsPage(r) => r.file = file /\ r.filter = filter /\ (filter # NoFilter => Within(r.page))
    /\ filter # NoFilter => \A w \in Range(ready) : Within(w[3])
    /\ \A p \in 0 .. MaxPage : Loaded(p) => pages[p].rows = PageRows(file, filter, p)

\* What is known of the view's length: all of it, or so many full pages.
Counted ==
  /\ file # None => total = Len(View[file][NoFilter])
  /\ file # None /\ filter = NoFilter => count = total /\ end
  /\ file # None /\ own /\ filter # NoFilter =>
       IF end THEN count = Len(Shown) ELSE \E m \in 0 .. MaxPage + 1 : count = m * PAGE /\ Within(m)

\* The selected frame's dissection is on screen or has been asked for, if it was not
\* refused; and where no other capture's was on its way, all are of the one on screen.
Dissecting ==
  /\ file # None /\ selIdx >= 0 /\ ~refused =>
       \/ tree \in [file : Capture, num : {want}]
       \/ \E r \in InFlight : r.kind = "frame" /\ r.file = file /\ r.num = want
  /\ file # None /\ alone =>
       /\ tree # None => tree.file = file
       /\ \A r \in InFlight : r.kind = "frame" => r.file \in {file, None}

\* The frame of a link is where the selection is; what is still looking for it has not
\* passed it by.
Found  == want = link /\ selIdx + 1 \in DOMAIN Shown /\ Shown[selIdx + 1] = link
InView == \E i \in DOMAIN Shown : Shown[i] = link
Seeks(w) ==
  IF filter = NoFilter THEN w = SelectAt(link - 1)
  ELSE w = LocateIn(link, w[3]) /\ \A i \in DOMAIN Shown : i <= w[3] * PAGE => Shown[i] # link

LinkFollowed ==
  link # None =>
    /\ link \in Nat \ {0}
    /\ file = None => ready = <<>> /\ \E f \in Capture, q \in Text : net = <<StatusReq(f, q, link)>>
    /\ file # None =>
         /\ own
         /\ \A r \in InFlight : r.kind \in {"page", "frame"}
         /\ \A r \in InFlight : IsPage(r) => \A w \in Range(r.waits) : Seeks(w)
         /\ \A w \in Range(ready) : Seeks(w) /\ Loaded(w[3])
         /\ selIdx = -1 \/ Found
         /\ InView /\ selIdx = -1 =>
              ready # <<>> \/ \E r \in InFlight : IsPage(r) /\ r.waits # <<>>

----------------------------------------------------------------------------
(* Helpers of the invariant.                                               *)

\* A row that is there is in a page that is there.
LEMMA RowFound ==
  ASSUME TypeOK, Sound, NEW i \in Nat, RowAt(i) # None
  PROVE  LET p == i \div PAGE  at == (i % PAGE) + 1 IN
         /\ p \in 0 .. MaxPage /\ Loaded(p)
         /\ at \in 1 .. Len(pages[p].rows) /\ RowAt(i) = pages[p].rows[at]
         /\ RowAt(i) \in Nat \ {0}
<1>1. i \div PAGE \in Nat /\ i % PAGE \in Nat /\ MaxPage \in Nat
  BY Divided, ViewerAssumption
<1>2. i \div PAGE <= MaxPage /\ Loaded(i \div PAGE) /\ (i % PAGE) + 1 <= Len(pages[i \div PAGE].rows)
      /\ RowAt(i) = pages[i \div PAGE].rows[(i % PAGE) + 1]
  BY DEF RowAt
<1>3. i \div PAGE \in 0 .. MaxPage /\ pages[i \div PAGE].rows \in Seq(Nat \ {0})
  BY <1>1, <1>2 DEF Sound
<1>. QED BY <1>1, <1>2, <1>3

LEMMA RequestFields ==
  ASSUME NEW r \in Request
  PROVE  /\ r.kind \in {"page", "frame", "check", "status"}
         /\ r.kind = "page" =>
              /\ r.file \in Capture \cup {None} /\ r.filter \in Text /\ r.page \in 0 .. MaxPage
              /\ r.waits \in Seq(Waiter)
              /\ r = PageReq(r.file, r.filter, r.page, r.waits)
         /\ r.kind = "frame" => r.file \in Capture \cup {None} /\ r.num \in Nat
         /\ r.kind = "check" => r.text \in Query
         /\ r.kind = "status" => r.file \in Capture /\ r.filter \in Text /\ r.num \in Nat
BY DEF Request, PageReq

LEMMA PageRequested ==
  ASSUME NEW f \in Capture \cup {None}, NEW q \in Text, NEW p \in 0 .. MaxPage, NEW waits \in Seq(Waiter)
  PROVE  /\ PageReq(f, q, p, waits) \in Request /\ IsPage(PageReq(f, q, p, waits))
         /\ PageReq(f, q, p, waits).file = f /\ PageReq(f, q, p, waits).filter = q
         /\ PageReq(f, q, p, waits).page = p /\ PageReq(f, q, p, waits).waits = waits
         /\ PageReq(f, q, p, waits).kind = "page"
BY DEF Request, PageReq, IsPage

LEMMA NoWaiter == <<>> \in Seq(Waiter) /\ Range(<<>>) = {}
BY DEF Range

LEMMA OneWaiter ==
  ASSUME NEW w \in Waiter
  PROVE  <<w>> \in Seq(Waiter) /\ Range(<<w>>) = {w} /\ <<w>> # <<>>
BY DEF Range

\* A page of the view on screen is asked for.
LEMMA PageAsked ==
  ASSUME TypeOK, NEW p \in 0 .. MaxPage, NEW ws \in Seq(Waiter), \A w \in Range(ws) : w[3] = p
  PROVE  LET r == PageReq(file, filter, p, ws) IN
         /\ r \in Request /\ IsPage(r) /\ SoundRequest(r)
         /\ r.kind = "page" /\ r.file = file /\ r.filter = filter /\ r.page = p /\ r.waits = ws
<1>. DEFINE r == PageReq(file, filter, p, ws)
<1>1. file \in Capture \cup {None} /\ filter \in Text
  BY DEF TypeOK
<1>2. r \in Request /\ IsPage(r) /\ r.kind = "page"
      /\ r.file = file /\ r.filter = filter /\ r.page = p /\ r.waits = ws
  BY <1>1, PageRequested
<1>. HIDE DEF r
<1>3. SoundRequest(r)
  BY <1>2 DEF SoundRequest
<1>. QED BY <1>2, <1>3 DEF r

LEMMA FrameRequested ==
  ASSUME TypeOK, NEW n \in Nat
  PROVE  FrameReq(n) \in Request /\ FrameReq(n) = [kind |-> "frame", file |-> file, num |-> n]
BY DEF Request, FrameReq, TypeOK

\* A page that is pending has a last request to wait for.
LEMMA Promised ==
  ASSUME TypeOK, Sound, NEW p \in 0 .. MaxPage, pages[p] = Pending
  PROVE  Promise(p) \in 1 .. Len(net) /\ net[Promise(p)].kind = "page" /\ net[Promise(p)].page = p
<1>. DEFINE For(k) == net[k].kind = "page" /\ net[k].page = p
            later == {Len(net) - k : k \in {j \in 1 .. Len(net) : For(j)}}
<1>1. Len(net) \in Nat /\ InFlight = {net[i] : i \in 1 .. Len(net)}
  BY RangeOf DEF TypeOK, InFlight
<1>2. PICK i \in 1 .. Len(net) : For(i)
  BY <1>1 DEF Sound, Pending, IsPage
<1>. HIDE DEF For
<1>3. later \subseteq Nat /\ later # {}
  BY <1>1, <1>2
<1>4. PICK m \in later : \A n \in later : ~(<<n, m>> \in OpToRel(<, Nat))
  BY <1>3, WFMin, NatLessThanWellFounded
<1>5. \A n \in later : ~(n < m)
  BY <1>3, <1>4 DEF OpToRel
<1>6. PICK k \in 1 .. Len(net) : For(k) /\ m = Len(net) - k
  BY <1>4
<1>7. \A j \in k + 1 .. Len(net) : ~For(j)
  <2>. SUFFICES ASSUME NEW j \in k + 1 .. Len(net), For(j)
                PROVE  FALSE
    OBVIOUS
  <2>1. j \in 1 .. Len(net)
    BY <1>1, <1>6
  <2>2. Len(net) - j \in later /\ Len(net) - j < m
    BY <1>1, <1>6, <2>1
  <2>. QED BY <2>2, <1>5
<1>8. \E n \in 1 .. Len(net) :
        /\ net[n].kind = "page" /\ net[n].page = p
        /\ \A j \in n + 1 .. Len(net) : net[j].kind = "page" => net[j].page # p
  BY <1>6, <1>7 DEF For
<1>. QED BY <1>8 DEF Promise

\* What awaits a page is added to a request for it.
LEMMA Awaited ==
  ASSUME TypeOK, Sound, NEW p \in 0 .. MaxPage, pages[p] = Pending, NEW w \in Waiter
  PROVE  /\ Await(p, w) \in Seq(Request)
         /\ \E r \in InFlight :
              LET more == PageReq(r.file, r.filter, p, Append(r.waits, w)) IN
              /\ IsPage(r) /\ r.page = p /\ more \in Request
              /\ Range(Await(p, w)) \subseteq InFlight \cup {more} /\ more \in Range(Await(p, w))
              /\ InFlight \subseteq Range(Await(p, w)) \cup {r}
<1>. DEFINE k == Promise(p)  r == net[k]  more == PageReq(r.file, r.filter, p, Append(r.waits, w))
<1>1. k \in 1 .. Len(net) /\ r.kind = "page" /\ r.page = p
  BY Promised
<1>2. net \in Seq(Request) /\ r \in Request /\ r \in InFlight
  BY <1>1, RangeOf DEF TypeOK, InFlight
<1>3. /\ r.file \in Capture \cup {None} /\ r.filter \in Text /\ r.waits \in Seq(Waiter)
      /\ r = PageReq(r.file, r.filter, r.page, r.waits)
  BY <1>1, <1>2, RequestFields
<1>4. Append(r.waits, w) \in Seq(Waiter)
  BY <1>3
<1>5. more \in Request
  BY <1>3, <1>4, PageRequested
<1>6. [r EXCEPT !.waits = Append(r.waits, w)] = more
  <2>. DEFINE ws == Append(r.waits, w)
  <2>2. [PageReq(r.file, r.filter, r.page, r.waits) EXCEPT !.waits = ws] = PageReq(r.file, r.filter, r.page, ws)
    <3>. HIDE DEF r, ws
    <3>. QED BY DEF PageReq
  <2>3. r = PageReq(r.file, r.filter, r.page, r.waits) /\ r.page = p
    BY <1>1, <1>3
  <2>. HIDE DEF r, ws
  <2>4. [r EXCEPT !.waits = ws] = PageReq(r.file, r.filter, p, ws)
    BY <2>2, <2>3
  <2>. QED BY <2>4 DEF ws
<1>7. Await(p, w) = [net EXCEPT ![k] = more]
  <2>1. Await(p, w) = [net EXCEPT ![k] = [r EXCEPT !.waits = Append(r.waits, w)]]
    BY DEF Await
  <2>. QED BY <1>6, <2>1
<1>. HIDE DEF k, more
<1>8. /\ [net EXCEPT ![k] = more] \in Seq(Request)
      /\ Range([net EXCEPT ![k] = more]) \subseteq Range(net) \cup {more}
      /\ more \in Range([net EXCEPT ![k] = more])
      /\ Range(net) \subseteq Range([net EXCEPT ![k] = more]) \cup {net[k]}
  BY <1>1, <1>2, <1>5, RangeOfReplaced
<1>. QED BY <1>1, <1>2, <1>5, <1>7, <1>8 DEF InFlight, IsPage, more

LEMMA Removed ==
  ASSUME TypeOK, NEW k \in 1 .. Len(net)
  PROVE  /\ net[k] \in Request /\ net[k] \in InFlight /\ RemoveAt(net, k) \in Seq(Request)
         /\ Range(RemoveAt(net, k)) \subseteq InFlight /\ InFlight \subseteq Range(RemoveAt(net, k)) \cup {net[k]}
<1>1. net \in Seq(Request) /\ net[k] \in Range(net)
  BY RangeOf DEF TypeOK
<1>2. net[k] \in Request
  BY <1>1
<1>. QED BY <1>1, <1>2, RangeOfRemoved DEF InFlight

LEMMA Appended ==
  ASSUME TypeOK, NEW r \in Request
  PROVE  Append(net, r) \in Seq(Request) /\ Range(Append(net, r)) = InFlight \cup {r}
BY RangeOfAppended DEF TypeOK, InFlight

\* Picking a row asks for its frame, and for the page of the row before it where nobody has.
LEMMA Picked ==
  ASSUME TypeOK, Sound, NEW i \in Nat, RowAt(i) # None, Pick(i)
  PROVE  LET q == (i - 1) \div PAGE  frame == [kind |-> "frame", file |-> file, num |-> RowAt(i)] IN
         /\ selIdx' = i /\ want' = RowAt(i) /\ RowAt(i) \in Nat \ {0}
         /\ net' \in Seq(Request) /\ frame \in Request
         /\ \/ pages' = pages /\ InFlight' = InFlight \cup {frame}
            \/ /\ i > 0 /\ q \in 0 .. MaxPage /\ pages[q] = Absent
               /\ pages' = [pages EXCEPT ![q] = Pending]
               /\ InFlight' = InFlight \cup {PageReq(file, filter, q, <<>>), frame}
<1>. DEFINE q == (i - 1) \div PAGE  frame == [kind |-> "frame", file |-> file, num |-> RowAt(i)]
            page == PageReq(file, filter, q, <<>>)
<1>1. RowAt(i) \in Nat \ {0} /\ i \div PAGE <= MaxPage
  BY RowFound
<1>2. frame \in Request /\ FrameReq(RowAt(i)) = frame
  BY <1>1, FrameRequested
<1>3. net \in Seq(Request)
  BY DEF TypeOK
<1>. HIDE DEF frame
<1>4. CASE i > 0 /\ pages[q] = Absent
  <2>1. q \in Nat /\ q <= i \div PAGE
    <3>1. i - 1 \in Nat /\ PAGE \in Nat \ {0}
      BY <1>4, ViewerAssumption
    <3>2. q \in Nat /\ (i - 1) % PAGE \in Nat /\ i - 1 = q * PAGE + ((i - 1) % PAGE)
      BY <3>1, Divided
    <3>3. i \div PAGE \in Nat /\ i % PAGE \in 0 .. PAGE - 1 /\ i = (i \div PAGE) * PAGE + (i % PAGE)
      BY Divided
    <3>. HIDE DEF q
    <3>. DEFINE p == i \div PAGE  a == p * PAGE  b == q * PAGE  c == (i - 1) % PAGE  d == i % PAGE
    <3>4. a \in Nat /\ b \in Nat /\ (p < q => a + PAGE <= b)
      BY <3>1, <3>2, <3>3, Times
    <3>5. c \in Nat /\ i - 1 = b + c /\ d \in 0 .. PAGE - 1 /\ i = a + d /\ p \in Nat
      BY <3>2, <3>3
    <3>. HIDE DEF a, b, c, d, p
    <3>6. ~(p < q)
      BY <3>1, <3>4, <3>5
    <3>. QED BY <3>2, <3>5, <3>6 DEF p
  <2>2. q \in 0 .. MaxPage
    <3>1. MaxPage \in Nat /\ i \div PAGE \in Nat
      BY Divided, ViewerAssumption
    <3>. QED BY <1>1, <2>1, <3>1
  <2>3. page \in Request
    <3>1. file \in Capture \cup {None} /\ filter \in Text /\ <<>> \in Seq(Waiter)
      BY DEF TypeOK
    <3>. QED BY <2>2, <3>1, PageRequested
  <2>4. net' = (net \o <<page>>) \o <<frame>>
    BY <1>2, <1>4 DEF Pick
  <2>. HIDE DEF page
  <2>5. net \o <<page>> = Append(net, page) /\ (net \o <<page>>) \o <<frame>> = Append(Append(net, page), frame)
    BY <1>2, <1>3, <2>3
  <2>6. net' \in Seq(Request) /\ InFlight' = InFlight \cup {page, frame}
    <3>1. Append(net, page) \in Seq(Request) /\ Range(Append(net, page)) = Range(net) \cup {page}
      BY <1>3, <2>3, RangeOfAppended
    <3>. DEFINE m == Append(net, page)
    <3>3. m \in Seq(Request)
      BY <3>1
    <3>. HIDE DEF m
    <3>2. Append(m, frame) \in Seq(Request) /\ Range(Append(m, frame)) = Range(m) \cup {frame}
      BY <1>2, <3>3, RangeOfAppended
    <3>. QED BY <2>4, <2>5, <3>1, <3>2 DEF InFlight, m
  <2>7. pages' = [pages EXCEPT ![q] = Pending] /\ selIdx' = i /\ want' = RowAt(i)
    BY <1>4 DEF Pick
  <2>. QED BY <1>1, <1>2, <1>4, <2>2, <2>6, <2>7 DEF frame, page
<1>5. CASE ~(i > 0 /\ pages[q] = Absent)
  <2>1. net' = (net \o <<>>) \o <<frame>>
    BY <1>2, <1>5 DEF Pick
  <2>2. (net \o <<>>) \o <<frame>> = Append(net, frame)
    BY <1>2, <1>3
  <2>3. net' \in Seq(Request) /\ InFlight' = InFlight \cup {frame}
    <3>1. Append(net, frame) \in Seq(Request) /\ Range(Append(net, frame)) = Range(net) \cup {frame}
      BY <1>2, <1>3, RangeOfAppended
    <3>. QED BY <2>1, <2>2, <3>1 DEF InFlight
  <2>4. pages' = pages /\ selIdx' = i /\ want' = RowAt(i)
    BY <1>5 DEF Pick
  <2>. QED BY <1>1, <1>2, <2>3, <2>4 DEF frame
<1>. QED BY <1>4, <1>5

----------------------------------------------------------------------------
(* Types, and what is in flight.                                           *)

PagesType == [0 .. MaxPage -> [is : {"absent", "pending", "rows"}, rows : Seq(Nat)]]

\* The pages stay as they are, and each that is asked for is.
LEMMA SoundStill ==
  ASSUME TypeOK, Sound, pages' = pages,
         \A r \in InFlight' : SoundRequest(r),
         \A r \in InFlight : IsPage(r) => \E s \in InFlight' : IsPage(s) /\ s.page = r.page
  PROVE  Sound'
<1>1. \A p \in 0 .. MaxPage : pages'[p].rows \in Seq(Nat \ {0})
  BY DEF Sound
<1>2. \A p \in 0 .. MaxPage : pages'[p].is = "pending" => \E r \in InFlight' : IsPage(r) /\ r.page = p
  BY DEF Sound
<1>. QED BY <1>1, <1>2 DEF Sound, SoundRequest, IsPage

\* One of them is asked for, and becomes a promise.
LEMMA SoundFetching ==
  ASSUME TypeOK, Sound, NEW p \in 0 .. MaxPage, pages' = [pages EXCEPT ![p] = Pending],
         InFlight \subseteq InFlight',
         \E r \in InFlight' : IsPage(r) /\ r.page = p,
         \A r \in InFlight' : SoundRequest(r)
  PROVE  Sound' /\ pages' \in PagesType
<1>1. pages \in PagesType /\ Pending \in [is : {"absent", "pending", "rows"}, rows : Seq(Nat)]
  BY DEF TypeOK, Pending, PagesType
<1>2. pages' \in PagesType
  BY <1>1 DEF PagesType
<1>3. /\ pages'[p] = Pending
      /\ \A o \in 0 .. MaxPage : o # p => pages'[o] = pages[o]
  BY <1>1 DEF PagesType
<1>4. \A o \in 0 .. MaxPage : pages'[o].rows \in Seq(Nat \ {0})
  BY <1>3 DEF Sound, Pending
<1>5. \A o \in 0 .. MaxPage : pages'[o].is = "pending" => \E r \in InFlight' : IsPage(r) /\ r.page = o
  BY <1>3 DEF Sound, Pending
<1>. QED BY <1>2, <1>4, <1>5 DEF Sound, SoundRequest, IsPage

\* One of them settles.
LEMMA SoundSettling ==
  ASSUME TypeOK, Sound, NEW k \in 1 .. Len(net), IsPage(net[k]), net' = RemoveAt(net, k),
         NEW to \in [is : {"absent", "rows"}, rows : Seq(Nat \ {0})],
         pages' = [pages EXCEPT ![net[k].page] = to]
  PROVE  Sound' /\ pages' \in PagesType
<1>. DEFINE p == net[k].page
<1>1. /\ net[k] \in Request /\ InFlight' \subseteq InFlight /\ InFlight \subseteq InFlight' \cup {net[k]}
  BY Removed DEF InFlight
<1>2. p \in 0 .. MaxPage
  BY <1>1, RequestFields DEF IsPage
<1>3. pages \in PagesType /\ to \in [is : {"absent", "pending", "rows"}, rows : Seq(Nat)]
  BY DEF TypeOK, PagesType
<1>. HIDE DEF p
<1>4. pages' = [pages EXCEPT ![p] = to]
  BY DEF p
<1>5. pages' \in PagesType
  BY <1>3, <1>4 DEF PagesType
<1>6. pages'[p] = to /\ \A o \in 0 .. MaxPage : o # p => pages'[o] = pages[o]
  BY <1>2, <1>3, <1>4 DEF PagesType
<1>7. \A o \in 0 .. MaxPage : pages'[o].rows \in Seq(Nat \ {0})
  BY <1>6 DEF Sound
<1>8. \A o \in 0 .. MaxPage : pages'[o].is = "pending" => \E r \in InFlight' : IsPage(r) /\ r.page = o
  <2>. TAKE o \in 0 .. MaxPage
  <2>. HAVE pages'[o].is = "pending"
  <2>1. o # p /\ pages[o].is = "pending"
    BY <1>6
  <2>2. PICK r \in InFlight : IsPage(r) /\ r.page = o
    BY <2>1 DEF Sound
  <2>. QED BY <1>1, <2>1, <2>2 DEF p
<1>9. \A r \in InFlight' : SoundRequest(r)
  BY <1>1 DEF Sound
<1>. QED BY <1>5, <1>7, <1>8, <1>9 DEF Sound, SoundRequest, IsPage

\* Another view: nothing is asked for, or its first page.
LEMMA SoundAnew ==
  ASSUME TypeOK, Sound, NEW p \in 0 .. MaxPage,
         \/ pages' = Blank
         \/ pages' = [Blank EXCEPT ![p] = Pending] /\ \E r \in InFlight' : IsPage(r) /\ r.page = p,
         \A r \in InFlight' : SoundRequest(r)
  PROVE  Sound' /\ pages' \in PagesType
<1>1. \A o \in 0 .. MaxPage : Blank[o] = Absent
  BY DEF Blank
<1>2. Blank \in PagesType /\ Pending \in [is : {"absent", "pending", "rows"}, rows : Seq(Nat)]
  BY DEF Blank, Absent, Pending, PagesType
<1>3. pages' \in PagesType
  BY <1>2 DEF PagesType
<1>4. \A o \in 0 .. MaxPage : pages'[o] = Absent \/
        (o = p /\ pages'[o] = Pending /\ \E r \in InFlight' : IsPage(r) /\ r.page = p)
  BY <1>1, <1>2 DEF PagesType
<1>5. \A o \in 0 .. MaxPage : pages'[o].rows \in Seq(Nat \ {0})
  <2>1. Absent.rows \in Seq(Nat \ {0}) /\ Pending.rows \in Seq(Nat \ {0})
    BY DEF Pending, Absent
  <2>. QED BY <1>4, <2>1
<1>6. \A o \in 0 .. MaxPage : pages'[o].is = "pending" => \E r \in InFlight' : IsPage(r) /\ r.page = o
  BY <1>4 DEF Absent
<1>. QED BY <1>3, <1>5, <1>6 DEF Sound, SoundRequest, IsPage

LEMMA InitTyped == Init => TypeOK /\ Sound
<1>. SUFFICES ASSUME Init PROVE TypeOK /\ Sound
  OBVIOUS
<1>1. Blank \in PagesType /\ \A p \in 0 .. MaxPage : Blank[p] = Absent
  BY DEF Blank, Absent, PagesType
<1>2. Range(<<>>) = {}
  BY DEF Range
<1>3. TypeOK
  <2>1. MaxActs \in Nat /\ NoFilter \in Text
    BY ViewerAssumption DEF Text
  <2>2. pages \in PagesType /\ <<>> \in Seq(Request) /\ <<>> \in Seq(Waiter)
    BY <1>1 DEF Init
  <2>3. 0 \in 0 .. MaxActs
    BY <2>1
  <2>. QED BY <2>1, <2>2, <2>3 DEF Init, TypeOK, PagesType
<1>4. Sound
  <2>1. Absent.rows \in Seq(Nat \ {0}) /\ Absent.is = "absent"
    BY DEF Absent
  <2>2. InFlight = {} /\ pages = Blank
    BY <1>2 DEF Init, InFlight
  <2>. QED BY <1>1, <2>1, <2>2 DEF Sound
<1>. QED BY <1>3, <1>4

LEMMA Fetching ==
  ASSUME TypeOK, Sound, NEW p \in 0 .. MaxPage, NEW ws \in Seq(Waiter), \A w \in Range(ws) : w[3] = p,
         net' = Append(net, PageReq(file, filter, p, ws)), pages' = [pages EXCEPT ![p] = Pending]
  PROVE  /\ Sound' /\ net' \in Seq(Request) /\ pages' \in PagesType
         /\ InFlight' = InFlight \cup {PageReq(file, filter, p, ws)}
<1>. DEFINE r == PageReq(file, filter, p, ws)
<1>1. r \in Request /\ IsPage(r) /\ r.page = p /\ SoundRequest(r)
  BY PageAsked
<1>2. net' = Append(net, r)
  OBVIOUS
<1>. HIDE DEF r
<1>3. net' \in Seq(Request) /\ InFlight' = InFlight \cup {r}
  BY <1>1, <1>2, Appended DEF InFlight
<1>4. \A x \in InFlight' : SoundRequest(x)
  BY <1>1, <1>3 DEF Sound
<1>5. Sound' /\ pages' \in PagesType
  BY <1>1, <1>3, <1>4, SoundFetching
<1>. QED BY <1>3, <1>5 DEF r

LEMMA Awaiting ==
  ASSUME TypeOK, Sound, NEW p \in 0 .. MaxPage, pages[p] = Pending, NEW w \in Waiter, w[3] = p,
         net' = Await(p, w), pages' = pages
  PROVE  Sound' /\ net' \in Seq(Request)
<1>1. net' \in Seq(Request)
  BY Awaited
<1>2. PICK r \in InFlight :
        LET more == PageReq(r.file, r.filter, p, Append(r.waits, w)) IN
        /\ IsPage(r) /\ r.page = p /\ more \in Request
        /\ InFlight' \subseteq InFlight \cup {more} /\ more \in InFlight' /\ InFlight \subseteq InFlight' \cup {r}
  BY Awaited DEF InFlight
<1>. DEFINE more == PageReq(r.file, r.filter, p, Append(r.waits, w))
<1>3. r.waits \in Seq(Waiter) /\ \A x \in Range(r.waits) : x[3] = p
  <2>1. r \in Request
    BY RangeOf DEF InFlight, TypeOK
  <2>. QED BY <1>2, <2>1, RequestFields DEF Sound, SoundRequest, IsPage
<1>4. \A x \in Range(Append(r.waits, w)) : x[3] = p
  BY <1>3, RangeOfAppended
<1>5. more.kind = "page" /\ more.page = p /\ more.waits = Append(r.waits, w)
  BY DEF PageReq
<1>. HIDE DEF more
<1>6. IsPage(more) /\ SoundRequest(more)
  BY <1>4, <1>5 DEF SoundRequest, IsPage
<1>7. \A x \in InFlight' : SoundRequest(x)
  BY <1>2, <1>6 DEF Sound, more
<1>8. \A x \in InFlight : IsPage(x) => \E s \in InFlight' : IsPage(s) /\ s.page = x.page
  BY <1>2, <1>5, <1>6 DEF more
<1>9. Sound'
  BY <1>7, <1>8, SoundStill
<1>. QED BY <1>1, <1>9

LEMMA Picking ==
  ASSUME TypeOK, Sound, NEW i \in Nat, RowAt(i) # None, Pick(i)
  PROVE  Sound' /\ net' \in Seq(Request) /\ pages' \in PagesType /\ selIdx' = i /\ want' \in Nat
<1>. DEFINE q == (i - 1) \div PAGE  frame == [kind |-> "frame", file |-> file, num |-> RowAt(i)]
            page == PageReq(file, filter, q, <<>>)
<1>1. /\ selIdx' = i /\ want' = RowAt(i) /\ RowAt(i) \in Nat \ {0} /\ net' \in Seq(Request)
      /\ \/ pages' = pages /\ InFlight' = InFlight \cup {frame}
         \/ /\ i > 0 /\ q \in 0 .. MaxPage
            /\ pages' = [pages EXCEPT ![q] = Pending] /\ InFlight' = InFlight \cup {page, frame}
  BY Picked
<1>2. SoundRequest(frame) /\ ~IsPage(frame)
  BY <1>1 DEF SoundRequest, IsPage
<1>. HIDE DEF frame
<1>3. CASE pages' = pages /\ InFlight' = InFlight \cup {frame}
  <2>1. \A r \in InFlight' : SoundRequest(r)
    BY <1>2, <1>3 DEF Sound
  <2>2. Sound'
    BY <1>3, <2>1, SoundStill
  <2>. QED BY <1>1, <1>3, <2>2 DEF TypeOK, PagesType
<1>4. CASE /\ i > 0 /\ q \in 0 .. MaxPage
           /\ pages' = [pages EXCEPT ![q] = Pending] /\ InFlight' = InFlight \cup {page, frame}
  <2>1. IsPage(page) /\ page.page = q /\ SoundRequest(page)
    BY <1>4, NoWaiter, PageAsked
  <2>. HIDE DEF page, q
  <2>2. \A r \in InFlight' : SoundRequest(r)
    BY <1>2, <1>4, <2>1 DEF Sound
  <2>3. Sound' /\ pages' \in PagesType
    BY <1>4, <2>1, <2>2, SoundFetching
  <2>. QED BY <1>1, <2>3
<1>. QED BY <1>1, <1>3, <1>4

LEMMA DrawTyped ==
  ASSUME TypeOK, Sound, NEW p \in 0 .. MaxPage, Draw(p)
  PROVE  TypeOK' /\ Sound'
<1>1. Sound' /\ net' \in Seq(Request) /\ pages' \in PagesType
  BY NoWaiter, Fetching DEF Draw
<1>2. TypeOK'
  BY <1>1 DEF TypeOK, PagesType, Draw, viewVars, selVars, seenVars
<1>. QED BY <1>1, <1>2

LEMMA SelectTyped ==
  ASSUME TypeOK, Sound, NEW i \in 0 .. (MaxPage + 1) * PAGE - 1, Select(i)
  PROVE  TypeOK' /\ Sound'
<1>. DEFINE p == i \div PAGE
<1>1. i \in Nat /\ p \in 0 .. MaxPage
  BY RowsHavePages
<1>2. SelectAt(i) \in Waiter /\ SelectAt(i)[3] = p
  BY <1>1 DEF SelectAt, Waiter
<1>3. acts' \in 0 .. MaxActs
  BY ViewerAssumption DEF Select, UserActs, TypeOK
<1>. HIDE DEF p
<1>4. CASE RowAt(i) # None /\ Pick(i)
  <2>1. Sound' /\ net' \in Seq(Request) /\ pages' \in PagesType /\ selIdx' = i /\ want' \in Nat
    BY <1>1, <1>4, Picking
  <2>2. TypeOK'
    BY <1>1, <1>3, <1>4, <2>1 DEF TypeOK, PagesType, Pick, Select, viewVars, seenVars
  <2>. QED BY <2>1, <2>2
<1>5. CASE pages[p] = Pending /\ net' = Await(p, SelectAt(i)) /\ UNCHANGED <<viewVars, pages, selVars, seenVars>>
  <2>1. Sound' /\ net' \in Seq(Request)
    BY <1>1, <1>2, <1>5, Awaiting
  <2>2. TypeOK'
    BY <1>3, <1>5, <2>1 DEF TypeOK, Select, viewVars, selVars, seenVars
  <2>. QED BY <2>1, <2>2
<1>6. CASE /\ pages' = [pages EXCEPT ![p] = Pending]
           /\ net' = Append(net, PageReq(file, filter, p, <<SelectAt(i)>>))
           /\ UNCHANGED <<viewVars, selVars, seenVars>>
  <2>1. Sound' /\ net' \in Seq(Request) /\ pages' \in PagesType
    BY <1>1, <1>2, <1>6, OneWaiter, Fetching
  <2>2. TypeOK'
    BY <1>3, <1>6, <2>1 DEF TypeOK, PagesType, Select, viewVars, selVars, seenVars
  <2>. QED BY <2>1, <2>2
<1>. QED BY <1>4, <1>5, <1>6 DEF Select, p

LEMMA PageArrivesTyped ==
  ASSUME TypeOK, Sound, NEW k \in 1 .. Len(net), PageArrives(k)
  PROVE  TypeOK' /\ Sound'
<1>. DEFINE r == net[k]  rows == PageRows(r.file, r.filter, r.page)
<1>1. r \in Request /\ IsPage(r) /\ r.file # None
  BY Removed DEF PageArrives, IsPage
<1>2. r.file \in Capture /\ r.filter \in Text /\ r.page \in Nat /\ r.waits \in Seq(Waiter)
  BY <1>1, RequestFields DEF IsPage
<1>3. rows \in Seq(Nat \ {0}) /\ r.page * PAGE + Len(rows) \in Nat
  <2>. HIDE DEF r
  <2>1. rows \in Seq(Nat \ {0}) /\ Len(rows) \in Nat /\ r.page * PAGE \in Nat
    BY <1>2, PageRowsRight
  <2>. HIDE DEF rows
  <2>. QED BY <2>1
<1>4. Got(rows) \in [is : {"absent", "rows"}, rows : Seq(Nat \ {0})]
  BY <1>3 DEF Got
<1>5. net' = RemoveAt(net, k) /\ pages' = [pages EXCEPT ![net[k].page] = Got(rows)]
  BY DEF PageArrives
<1>6. Sound' /\ pages' \in PagesType
  BY <1>1, <1>4, <1>5, SoundSettling
<1>7. net' \in Seq(Request) /\ ready' \in Seq(Waiter)
  BY <1>2, <1>5, Removed DEF PageArrives
<1>8. count' \in Nat /\ end' \in BOOLEAN
  BY <1>3 DEF PageArrives, TypeOK
<1>9. TypeOK'
  BY <1>6, <1>7, <1>8 DEF TypeOK, PagesType, PageArrives, selVars, seenVars
<1>. QED BY <1>6, <1>9

LEMMA PageFailsTyped ==
  ASSUME TypeOK, Sound, NEW k \in 1 .. Len(net), PageFails(k)
  PROVE  TypeOK' /\ Sound'
<1>1. net[k] \in Request /\ IsPage(net[k])
  BY Removed DEF PageFails, IsPage
<1>2. Absent \in [is : {"absent", "rows"}, rows : Seq(Nat \ {0})]
  BY DEF Absent
<1>3. net' = RemoveAt(net, k) /\ pages' = [pages EXCEPT ![net[k].page] = Absent]
  BY DEF PageFails
<1>4. Sound' /\ pages' \in PagesType
  BY <1>1, <1>2, <1>3, SoundSettling
<1>5. net' \in Seq(Request) /\ ready' \in Seq(Waiter)
  BY <1>1, <1>3, Removed, RequestFields DEF PageFails, IsPage
<1>6. TypeOK'
  BY <1>4, <1>5 DEF TypeOK, PagesType, PageFails, viewVars, selVars, seenVars
<1>. QED BY <1>4, <1>6

\* A request that is for no page is answered, and nothing is asked.
LEMMA OtherAnswered ==
  ASSUME TypeOK, Sound, NEW k \in 1 .. Len(net), ~IsPage(net[k]), net' = RemoveAt(net, k), pages' = pages
  PROVE  Sound' /\ net' \in Seq(Request)
<1>1. /\ RemoveAt(net, k) \in Seq(Request)
      /\ InFlight' \subseteq InFlight /\ InFlight \subseteq InFlight' \cup {net[k]}
  BY Removed DEF InFlight
<1>2. \A r \in InFlight : IsPage(r) => r \in InFlight'
  BY <1>1
<1>3. \A r \in InFlight' : SoundRequest(r)
  BY <1>1 DEF Sound
<1>4. Sound'
  BY <1>2, <1>3, SoundStill
<1>. QED BY <1>1, <1>4

LEMMA FrameArrivesTyped ==
  ASSUME TypeOK, Sound, NEW k \in 1 .. Len(net), FrameArrives(k)
  PROVE  TypeOK' /\ Sound'
<1>1. net[k] \in Request /\ net[k].kind = "frame" /\ net[k].file # None /\ SoundRequest(net[k])
  BY Removed DEF FrameArrives, Sound
<1>2. net[k].file \in Capture /\ net[k].num \in Nat \ {0}
  BY <1>1, RequestFields DEF SoundRequest
<1>3. Sound' /\ net' \in Seq(Request)
  BY <1>1, OtherAnswered DEF FrameArrives, IsPage
<1>4. tree' = None \/ tree' \in [file : Capture, num : Nat \ {0}]
  BY <1>2 DEF FrameArrives, TypeOK
<1>5. TypeOK'
  BY <1>3, <1>4 DEF TypeOK, FrameArrives, viewVars, seenVars
<1>. QED BY <1>3, <1>5

LEMMA FrameFailsTyped ==
  ASSUME TypeOK, Sound, NEW k \in 1 .. Len(net), FrameFails(k) \/ NotCompiled(k) \/ OpenFails(k)
  PROVE  TypeOK' /\ Sound'
<1>1. ~IsPage(net[k]) /\ net' = RemoveAt(net, k) /\ pages' = pages
  BY DEF FrameFails, NotCompiled, OpenFails, IsPage, viewVars
<1>2. Sound' /\ net' \in Seq(Request)
  BY <1>1, OtherAnswered
<1>3. TypeOK'
  BY <1>2 DEF TypeOK, Text, FrameFails, NotCompiled, OpenFails, viewVars, selVars, seenVars
<1>. QED BY <1>2, <1>3

\* The first of the handlers that are ready.
LEMMA FirstReady ==
  ASSUME TypeOK, ready # <<>>
  PROVE  /\ ready[1] \in Waiter /\ ready[1] \in Range(ready) /\ Tail(ready) \in Seq(Waiter)
         /\ ready[1][2] \in Nat /\ ready[1][3] \in 0 .. MaxPage
         /\ Range(Tail(ready)) \subseteq Range(ready)
<1>1. ready \in Seq(Waiter)
  BY DEF TypeOK
<1>2. /\ ready[1] \in Waiter /\ ready[1] \in Range(ready) /\ Tail(ready) \in Seq(Waiter)
      /\ Range(Tail(ready)) \subseteq Range(ready)
  BY <1>1, RangeOfTail
<1>. QED BY <1>2 DEF Waiter

LEMMA SelectResumesTyped ==
  ASSUME TypeOK, Sound, SelectResumes
  PROVE  TypeOK' /\ Sound'
<1>. DEFINE i == ready[1][2]  p == ready[1][3]
<1>1. i \in Nat /\ p \in 0 .. MaxPage /\ ready' \in Seq(Waiter)
  BY FirstReady DEF SelectResumes
<1>. HIDE DEF i, p
<1>2. CASE RowAt(i) # None /\ Pick(i)
  <2>1. Sound' /\ net' \in Seq(Request) /\ pages' \in PagesType /\ selIdx' = i /\ want' \in Nat
    BY <1>1, <1>2, Picking
  <2>2. TypeOK'
    BY <1>1, <1>2, <2>1 DEF TypeOK, PagesType, Pick, SelectResumes, viewVars, seenVars
  <2>. QED BY <2>1, <2>2
<1>3. CASE /\ pages' = [pages EXCEPT ![p] = Pending]
           /\ net' = Append(net, PageReq(file, filter, p, <<>>))
           /\ UNCHANGED <<viewVars, selVars, seenVars>>
  <2>1. Sound' /\ net' \in Seq(Request) /\ pages' \in PagesType
    BY <1>1, <1>3, NoWaiter, Fetching
  <2>2. TypeOK'
    BY <1>1, <1>3, <2>1 DEF TypeOK, PagesType, SelectResumes, viewVars, selVars, seenVars
  <2>. QED BY <2>1, <2>2
<1>4. CASE UNCHANGED <<pages, net>> /\ UNCHANGED <<viewVars, selVars, seenVars>>
  <2>1. Sound'
    BY <1>4 DEF Sound, InFlight, SoundRequest, IsPage
  <2>2. TypeOK'
    BY <1>1, <1>4 DEF TypeOK, SelectResumes, viewVars, selVars, seenVars
  <2>. QED BY <2>1, <2>2
<1>. QED BY <1>2, <1>3, <1>4 DEF SelectResumes, i, p

LEMMA LocateResumesTyped ==
  ASSUME TypeOK, Sound, LocateResumes
  PROVE  TypeOK' /\ Sound'
<1>. DEFINE num == ready[1][2]  p == ready[1][3]
            hits == {i \in p * PAGE .. p * PAGE + PAGE - 1 : RowAt(i) = num}
            w == LocateIn(num, p + 1)
<1>1. num \in Nat /\ p \in 0 .. MaxPage /\ Tail(ready) \in Seq(Waiter)
  BY FirstReady DEF LocateResumes
<1>2. ASSUME p < MaxPage
      PROVE  p + 1 \in 0 .. MaxPage /\ w \in Waiter /\ w[3] = p + 1
  <2>1. p + 1 \in 0 .. MaxPage
    BY <1>1, <1>2, ViewerAssumption
  <2>. QED BY <1>1, <2>1 DEF LocateIn, Waiter
<1>3. CASE (\E i \in hits : Pick(i)) /\ ready' = Tail(ready)
  <2>1. PICK i \in hits : Pick(i)
    BY <1>3
  <2>2. i \in Nat /\ RowAt(i) # None
    <3>1. i \in p * PAGE .. p * PAGE + PAGE - 1 /\ RowAt(i) = num
      BY <2>1
    <3>. HIDE DEF p, num
    <3>2. None \notin Nat
      BY ViewerAssumption
    <3>. QED BY <1>1, <3>1, <3>2, PageOf
  <2>3. Sound' /\ net' \in Seq(Request) /\ pages' \in PagesType /\ selIdx' = i /\ want' \in Nat
    BY <2>1, <2>2, Picking
  <2>4. TypeOK'
    BY <1>1, <1>3, <2>1, <2>2, <2>3 DEF TypeOK, PagesType, Pick, LocateResumes, viewVars, seenVars
  <2>. QED BY <2>3, <2>4
<1>. HIDE DEF num, p
<1>4. CASE ready' = Tail(ready) /\ UNCHANGED <<viewVars, pages, selVars, seenVars, net>>
  <2>1. Sound'
    BY <1>4 DEF Sound, InFlight, SoundRequest, IsPage
  <2>2. TypeOK'
    BY <1>1, <1>4 DEF TypeOK, LocateResumes, viewVars, selVars, seenVars
  <2>. QED BY <2>1, <2>2
<1>5. CASE /\ p < MaxPage /\ ready' = <<w>> \o Tail(ready)
           /\ UNCHANGED <<pages, net>> /\ UNCHANGED <<viewVars, selVars, seenVars>>
  <2>1. Sound'
    BY <1>5 DEF Sound, InFlight, SoundRequest, IsPage
  <2>2. ready' \in Seq(Waiter)
    <3>1. <<w>> \in Seq(Waiter)
      BY <1>2, <1>5, OneWaiter
    <3>. HIDE DEF w
    <3>. QED BY <1>1, <1>5, <3>1, RangeOfJoined
  <2>3. TypeOK'
    BY <2>2, <1>5 DEF TypeOK, LocateResumes, viewVars, selVars, seenVars
  <2>. QED BY <2>1, <2>3
<1>6. CASE /\ p < MaxPage /\ pages[p + 1] = Pending /\ net' = Await(p + 1, w) /\ ready' = Tail(ready)
           /\ UNCHANGED pages /\ UNCHANGED <<viewVars, selVars, seenVars>>
  <2>1. Sound' /\ net' \in Seq(Request)
    BY <1>2, <1>6, Awaiting
  <2>2. TypeOK'
    BY <1>1, <1>6, <2>1 DEF TypeOK, LocateResumes, viewVars, selVars, seenVars
  <2>. QED BY <2>1, <2>2
<1>7. CASE /\ p < MaxPage /\ pages' = [pages EXCEPT ![p + 1] = Pending]
           /\ net' = Append(net, PageReq(file, filter, p + 1, <<w>>)) /\ ready' = Tail(ready)
           /\ UNCHANGED <<viewVars, selVars, seenVars>>
  <2>1. Sound' /\ net' \in Seq(Request) /\ pages' \in PagesType
    BY <1>2, <1>7, OneWaiter, Fetching
  <2>2. TypeOK'
    BY <1>1, <1>7, <2>1 DEF TypeOK, PagesType, LocateResumes, viewVars, selVars, seenVars
  <2>. QED BY <2>1, <2>2
<1>. QED BY <1>3, <1>4, <1>5, <1>6, <1>7 DEF LocateResumes, num, p

LEMMA Refiltering ==
  ASSUME TypeOK, Sound, NEW q \in Text, NEW others \in Seq(Request),
         \A r \in Range(others) : SoundRequest(r), Refilter(q, others)
  PROVE  /\ Sound' /\ net' \in Seq(Request) /\ pages' \in PagesType
         /\ filter' = q /\ file' = file /\ total' = total /\ UNCHANGED seenVars /\ want' = want
         /\ count' \in Nat /\ end' \in BOOLEAN /\ own' \in BOOLEAN /\ selIdx' = -1 /\ tree' = None
         /\ InFlight' = Range(others) \cup {PageReq(file, q, 0, <<>>)}
<1>. DEFINE r == PageReq(file, q, 0, <<>>)
<1>1. 0 \in 0 .. MaxPage /\ file \in Capture \cup {None}
  BY ViewerAssumption DEF TypeOK
<1>2. r \in Request /\ IsPage(r) /\ r.kind = "page" /\ r.page = 0 /\ r.waits = <<>>
  <2>1. r \in Request
    BY <1>1, NoWaiter, PageRequested
  <2>. QED BY <2>1 DEF PageReq, IsPage
<1>3. net' = Append(others, r) /\ pages' = [Blank EXCEPT ![0] = Pending]
  BY DEF Refilter
<1>. HIDE DEF r
<1>4. SoundRequest(r)
  BY <1>2, NoWaiter DEF SoundRequest
<1>5. net' \in Seq(Request) /\ Range(net') = Range(others) \cup {r}
  BY <1>2, <1>3, RangeOfAppended
<1>6. \A x \in InFlight' : SoundRequest(x)
  BY <1>4, <1>5 DEF InFlight
<1>7. r \in InFlight'
  BY <1>5 DEF InFlight
<1>8. Sound' /\ pages' \in PagesType
  BY <1>1, <1>2, <1>3, <1>6, <1>7, SoundAnew
<1>9. /\ filter' = q /\ file' = file /\ total' = total /\ UNCHANGED seenVars /\ want' = want
      /\ count' \in Nat /\ end' \in BOOLEAN /\ own' \in BOOLEAN /\ selIdx' = -1 /\ tree' = None
  BY DEF Refilter, Rewind, TypeOK
<1>. QED BY <1>5, <1>8, <1>9 DEF InFlight, r

LEMMA SubmitTyped ==
  ASSUME TypeOK, Sound, NEW q \in Text, Submit(q)
  PROVE  TypeOK' /\ Sound'
<1>1. acts' \in 0 .. MaxActs
  BY ViewerAssumption DEF Submit, UserActs, TypeOK
<1>2. net \in Seq(Request) /\ \A r \in Range(net) : SoundRequest(r)
  BY DEF TypeOK, Sound, InFlight
<1>3. CASE q = NoFilter
  <2>1. Refilter(q, net)
    BY <1>3 DEF Submit
  <2>2. /\ Sound' /\ net' \in Seq(Request) /\ pages' \in PagesType
        /\ filter' = q /\ file' = file /\ total' = total /\ UNCHANGED seenVars /\ want' = want
        /\ count' \in Nat /\ end' \in BOOLEAN /\ own' \in BOOLEAN /\ selIdx' = -1 /\ tree' = None
    BY <1>2, <2>1, Refiltering
  <2>3. TypeOK'
    BY <1>1, <2>2 DEF TypeOK, PagesType, Submit, seenVars
  <2>. QED BY <2>2, <2>3
<1>4. CASE q # NoFilter
  <2>1. CheckReq(q) \in Request /\ CheckReq(q).kind = "check"
    BY <1>4 DEF CheckReq, Request, Text, TypeOK
  <2>2. net' = Append(net, CheckReq(q)) /\ pages' = pages
    BY <1>4 DEF Submit
  <2>3. net' \in Seq(Request) /\ InFlight' = InFlight \cup {CheckReq(q)}
    BY <2>1, <2>2, Appended DEF InFlight
  <2>4. \A r \in InFlight' : SoundRequest(r)
    BY <2>1, <2>3 DEF Sound, SoundRequest, IsPage
  <2>5. Sound'
    BY <2>2, <2>3, <2>4, SoundStill
  <2>6. TypeOK'
    BY <1>1, <1>4, <2>3 DEF TypeOK, Submit, viewVars, selVars, seenVars
  <2>. QED BY <2>5, <2>6
<1>. QED BY <1>3, <1>4

LEMMA CompiledTyped ==
  ASSUME TypeOK, Sound, NEW k \in 1 .. Len(net), Compiled(k)
  PROVE  TypeOK' /\ Sound'
<1>. DEFINE q == net[k].text  others == RemoveAt(net, k)
<1>1. q \in Query
  BY Removed, RequestFields DEF Compiled
<1>2. q \in Text /\ others \in Seq(Request) /\ \A r \in Range(others) : SoundRequest(r)
  BY <1>1, Removed DEF Text, Sound
<1>3. Refilter(q, others)
  BY DEF Compiled
<1>. HIDE DEF q, others
<1>4. /\ Sound' /\ net' \in Seq(Request) /\ pages' \in PagesType
      /\ filter' = q /\ file' = file /\ total' = total /\ UNCHANGED seenVars /\ want' = want
      /\ count' \in Nat /\ end' \in BOOLEAN /\ own' \in BOOLEAN /\ selIdx' = -1 /\ tree' = None
  BY <1>2, <1>3, Refiltering
<1>5. TypeOK'
  BY <1>2, <1>3, <1>4 DEF TypeOK, PagesType, Compiled, seenVars
<1>. QED BY <1>4, <1>5

LEMMA OpenTyped ==
  ASSUME TypeOK, Sound, NEW f \in Capture, NEW q \in Text, NEW n \in Linked, Open(f, q, n)
  PROVE  TypeOK' /\ Sound'
<1>1. acts' \in 0 .. MaxActs /\ n \in Nat
  BY ViewerAssumption DEF Open, UserActs, TypeOK
<1>. DEFINE r == StatusReq(f, q, n)
<1>2. r \in Request /\ r.kind = "status" /\ r.num = n
  BY <1>1 DEF StatusReq, Request
<1>3. net' = Append(net, r) /\ pages' = pages
  BY DEF Open
<1>. HIDE DEF r
<1>4. net' \in Seq(Request) /\ InFlight' = InFlight \cup {r}
  BY <1>2, <1>3, Appended DEF InFlight
<1>5. \A x \in InFlight' : SoundRequest(x)
  BY <1>2, <1>4 DEF Sound, SoundRequest, IsPage
<1>6. Sound'
  BY <1>3, <1>4, <1>5, SoundStill
<1>7. TypeOK'
  BY <1>1, <1>4 DEF TypeOK, Open, viewVars, selVars, seenVars
<1>. QED BY <1>6, <1>7

\* The page a link's frame is on, or the first of a filtered view.
LinkPage(q, n) == IF q = NoFilter THEN (n - 1) \div PAGE ELSE 0
LinkWaiter(q, n) == IF q = NoFilter THEN SelectAt(n - 1) ELSE LocateIn(n, 0)

LEMMA LinkTyped ==
  ASSUME NEW q \in Text, NEW n \in Linked \ {0}
  PROVE  /\ n \in Nat /\ n - 1 \in Nat /\ LinkPage(q, n) \in 0 .. MaxPage
         /\ LinkWaiter(q, n) \in Waiter /\ LinkWaiter(q, n)[3] = LinkPage(q, n)
<1>1. n \in Nat /\ n # 0 /\ (n - 1) \div PAGE <= MaxPage /\ MaxPage \in Nat
  BY ViewerAssumption
<1>2. n - 1 \in Nat /\ (n - 1) \div PAGE \in Nat
  BY <1>1, Divided
<1>3. (n - 1) \div PAGE \in 0 .. MaxPage /\ 0 \in 0 .. MaxPage
  BY <1>1, <1>2
<1>. QED BY <1>1, <1>2, <1>3 DEF LinkPage, LinkWaiter, SelectAt, LocateIn, Waiter

LEMMA Opening ==
  ASSUME TypeOK, Sound, NEW k \in 1 .. Len(net), Opened(k)
  PROVE  LET r == net[k]  others == RemoveAt(net, k)
             page == PageReq(r.file, r.filter, LinkPage(r.filter, r.num), <<LinkWaiter(r.filter, r.num)>>) IN
         /\ Sound' /\ net' \in Seq(Request) /\ pages' \in PagesType
         /\ r.file \in Capture /\ r.filter \in Text /\ r.num \in Linked
         /\ \/ r.num = 0 /\ InFlight' = Range(others) /\ pages' = Blank
            \/ /\ r.num # 0 /\ page \in Request /\ InFlight' = Range(others) \cup {page}
               /\ pages' = [Blank EXCEPT ![LinkPage(r.filter, r.num)] = Pending]
<1>. DEFINE r == net[k]  others == RemoveAt(net, k)
            p == LinkPage(r.filter, r.num)  w == LinkWaiter(r.filter, r.num)
            page == PageReq(r.file, r.filter, p, <<w>>)
<1>1. r \in Request /\ r.kind = "status" /\ SoundRequest(r)
  BY Removed DEF Opened, Sound
<1>2. r.file \in Capture /\ r.filter \in Text /\ r.num \in Linked
  BY <1>1, RequestFields DEF SoundRequest
<1>3. others \in Seq(Request) /\ \A x \in Range(others) : SoundRequest(x)
  BY Removed DEF Sound
<1>4. /\ r.num = 0 => pages' = Blank /\ net' = others
      /\ r.num # 0 => pages' = [Blank EXCEPT ![p] = Pending] /\ net' = Append(others, page)
  BY DEF Opened, LinkPage, LinkWaiter
<1>. HIDE DEF r, others, p, w
<1>5. CASE r.num = 0
  <2>1. 0 \in 0 .. MaxPage /\ \A x \in InFlight' : SoundRequest(x)
    BY <1>3, <1>4, <1>5, ViewerAssumption DEF InFlight
  <2>2. Sound' /\ pages' \in PagesType
    BY <1>4, <1>5, <2>1, SoundAnew
  <2>. QED BY <1>2, <1>3, <1>4, <1>5, <2>2 DEF r, others, InFlight
<1>6. CASE r.num # 0
  <2>1. p \in 0 .. MaxPage /\ w \in Waiter /\ w[3] = p
    BY <1>2, <1>6, LinkTyped DEF p, w
  <2>2. <<w>> \in Seq(Waiter) /\ Range(<<w>>) = {w}
    BY <2>1, OneWaiter
  <2>3. page \in Request /\ IsPage(page) /\ page.kind = "page" /\ page.page = p /\ page.waits = <<w>>
    <3>1. page \in Request
      BY <1>2, <2>1, <2>2, PageRequested
    <3>. QED BY <3>1 DEF PageReq, IsPage
  <2>. HIDE DEF page
  <2>4. SoundRequest(page)
    BY <2>1, <2>2, <2>3 DEF SoundRequest
  <2>5. net' \in Seq(Request) /\ InFlight' = Range(others) \cup {page}
    <3>1. net' = Append(others, page)
      BY <1>4, <1>6 DEF page
    <3>2. Append(others, page) \in Seq(Request) /\ Range(Append(others, page)) = Range(others) \cup {page}
      BY <1>3, <2>3, RangeOfAppended
    <3>. QED BY <3>1, <3>2 DEF InFlight
  <2>6. \A x \in InFlight' : SoundRequest(x)
    BY <1>3, <2>4, <2>5
  <2>7. Sound' /\ pages' \in PagesType
    BY <1>4, <1>6, <2>1, <2>3, <2>5, <2>6, SoundAnew
  <2>. QED BY <1>2, <1>4, <1>6, <2>3, <2>5, <2>7 DEF r, others, p, w, page
<1>. QED BY <1>5, <1>6

LEMMA OpenedTyped ==
  ASSUME TypeOK, Sound, NEW k \in 1 .. Len(net), Opened(k)
  PROVE  TypeOK' /\ Sound'
<1>. DEFINE r == net[k]
<1>1. /\ Sound' /\ net' \in Seq(Request) /\ pages' \in PagesType
      /\ r.file \in Capture /\ r.filter \in Text
  BY Opening
<1>2. Len(View[r.file][NoFilter]) \in Nat
  <2>1. NoFilter \in Query \cup {NoFilter}
    OBVIOUS
  <2>2. View[r.file][NoFilter] \in Seq(Nat \ {0})
    BY <1>1, <2>1, ViewerAssumption
  <2>. QED BY <2>2
<1>3. /\ file' = r.file /\ alone' \in BOOLEAN /\ total' = Len(View[r.file][NoFilter])
      /\ filter' = r.filter /\ end' \in BOOLEAN /\ own' \in BOOLEAN /\ selIdx' = -1 /\ tree' = None
      /\ count' \in {Len(View[r.file][NoFilter]), 0}
      /\ UNCHANGED <<want, refused, ready, acts>>
  BY DEF Opened, Rewind
<1>. HIDE DEF r
<1>4. TypeOK'
  BY <1>1, <1>2, <1>3 DEF TypeOK, PagesType
<1>. QED BY <1>1, <1>4

LEMMA LeftTyped ==
  ASSUME TypeOK, Sound, Deselect \/ Back \/ UNCHANGED vars
  PROVE  TypeOK' /\ Sound'
<1>1. Sound'
  BY DEF Deselect, Back, vars, Sound, InFlight, SoundRequest, IsPage
<1>2. CASE Deselect \/ Back
  <2>1. acts' \in 0 .. MaxActs
    BY <1>2, ViewerAssumption DEF Deselect, Back, UserActs, TypeOK
  <2>2. /\ UNCHANGED <<total, filter, count, end, pages, net, ready, own>>
        /\ file' \in Capture \cup {None} /\ UNCHANGED seenVars
        /\ selIdx' \in Nat \cup {-1} /\ want' \in Nat /\ (tree' = None \/ tree' = tree)
    <3>1. CASE Deselect
      BY <3>1 DEF Deselect, TypeOK, viewVars, seenVars
    <3>2. CASE Back
      BY <3>2 DEF Back, TypeOK, Text, selVars
    <3>. QED BY <1>2, <3>1, <3>2
  <2>. QED BY <1>1, <2>1, <2>2 DEF TypeOK, seenVars
<1>3. CASE UNCHANGED vars
  <2>1. UNCHANGED <<file, total, filter, count, end, pages, selIdx, want, tree, alone, refused, net, ready, own, acts>>
    BY <1>3 DEF vars, viewVars, selVars, seenVars
  <2>. QED BY <1>1, <2>1 DEF TypeOK
<1>. QED BY <1>2, <1>3

LEMMA NextTyped == TypeOK /\ Sound /\ [Next]_vars => TypeOK' /\ Sound'
<1>. SUFFICES ASSUME TypeOK, Sound, [Next]_vars
              PROVE  TypeOK' /\ Sound'
  OBVIOUS
<1>1. CASE User
  <2>1. CASE \E i \in 0 .. (MaxPage + 1) * PAGE - 1 : Select(i)
    BY <2>1, SelectTyped
  <2>2. CASE \E q \in Text : Submit(q)
    BY <2>2, SubmitTyped
  <2>3. CASE \E f \in Capture, q \in Text \ BadQuery, n \in Linked : Open(f, q, n)
    BY <2>3, OpenTyped
  <2>4. CASE Back \/ Pop
    BY <2>4, LeftTyped DEF Pop
  <2>. QED BY <1>1, <2>1, <2>2, <2>3, <2>4 DEF User
<1>2. CASE Answer
  BY <1>2, PageArrivesTyped, PageFailsTyped, FrameArrivesTyped, FrameFailsTyped, CompiledTyped, OpenedTyped
     DEF Answer
<1>3. CASE SelectResumes \/ LocateResumes
  BY <1>3, SelectResumesTyped, LocateResumesTyped
<1>4. CASE \E p \in 0 .. MaxPage : Draw(p)
  BY <1>4, DrawTyped
<1>5. CASE UNCHANGED vars
  BY <1>5, LeftTyped
<1>. QED BY <1>1, <1>2, <1>3, <1>4, <1>5 DEF Next

\* No request is made, and nothing kept, that the page could not have: what waits is
\* waiting for a page that has been asked for, whatever has been answered since (rowAt).
THEOREM SpecTyped == Spec => [](TypeOK /\ Sound)
<1>. QED BY InitTyped, NextTyped, PTL DEF Spec

----------------------------------------------------------------------------
(* The dissection.                                                         *)

Handles ==
  \/ \E p \in 0 .. MaxPage : Draw(p)
  \/ \E i \in 0 .. (MaxPage + 1) * PAGE - 1 : Select(i)
  \/ SelectResumes \/ LocateResumes

LEMMA LocateHits ==
  ASSUME TypeOK, NEW num \in Nat, NEW p \in 0 .. MaxPage, NEW i \in p * PAGE .. p * PAGE + PAGE - 1, RowAt(i) = num
  PROVE  i \in Nat /\ i \div PAGE = p /\ RowAt(i) # None
<1>1. None \notin Nat
  BY ViewerAssumption
<1>. QED BY <1>1, PageOf

\* Rows are drawn, selected and looked for without anything of the view being touched; what is asked for is pages, and the frame of a row that is selected.
LEMMA HandlerKeeps ==
  ASSUME TypeOK, Sound, Handles
  PROVE  /\ UNCHANGED <<viewVars, alone, own, tree>>
         /\ \A r \in InFlight : ~IsPage(r) => r \in InFlight'
         /\ \A r \in InFlight' : IsPage(r) \/ (r.kind = "frame" /\ r.file = file) \/ r \in InFlight
         /\ \/ UNCHANGED <<selIdx, want, refused>>
            \/ [kind |-> "frame", file |-> file, num |-> want'] \in InFlight'
<1>. DEFINE Goal == /\ UNCHANGED <<viewVars, alone, own, tree>>
                    /\ \A r \in InFlight : ~IsPage(r) => r \in InFlight'
                    /\ \A r \in InFlight' : IsPage(r) \/ (r.kind = "frame" /\ r.file = file) \/ r \in InFlight
                    /\ \/ UNCHANGED <<selIdx, want, refused>>
                       \/ [kind |-> "frame", file |-> file, num |-> want'] \in InFlight'
<1>. SUFFICES Goal
  OBVIOUS
<1>1. ASSUME NEW i \in Nat, RowAt(i) # None, Pick(i), own' = own
      PROVE  Goal
  <2>. DEFINE q == (i - 1) \div PAGE  frame == [kind |-> "frame", file |-> file, num |-> RowAt(i)]
              page == PageReq(file, filter, q, <<>>)
  <2>1. /\ want' = RowAt(i)
        /\ InFlight' = InFlight \cup {frame} \/ InFlight' = InFlight \cup {page, frame}
    BY <1>1, Picked
  <2>2. IsPage(page) /\ frame.kind = "frame" /\ frame.file = file
    BY DEF PageReq, IsPage
  <2>3. UNCHANGED <<viewVars, alone, own, tree>>
    BY <1>1 DEF Pick
  <2>4. [kind |-> "frame", file |-> file, num |-> want'] = frame
    BY <2>1
  <2>. HIDE DEF page, frame
  <2>. QED BY <2>1, <2>2, <2>3, <2>4
<1>2. ASSUME NEW p \in 0 .. MaxPage, NEW ws \in Seq(Waiter), net' = Append(net, PageReq(file, filter, p, ws)),
             UNCHANGED <<viewVars, selVars, seenVars, own>>
      PROVE  Goal
  <2>. DEFINE page == PageReq(file, filter, p, ws)
  <2>1. page \in Request /\ page.kind = "page"
    <3>1. file \in Capture \cup {None} /\ filter \in Text
      BY DEF TypeOK
    <3>. QED BY <3>1, PageRequested
  <2>2. net' = Append(net, page)
    BY <1>2
  <2>. HIDE DEF page
  <2>3. InFlight' = InFlight \cup {page}
    BY <2>1, <2>2, Appended DEF InFlight
  <2>. QED BY <1>2, <2>1, <2>3 DEF selVars, seenVars, IsPage
<1>3. ASSUME NEW p \in 0 .. MaxPage, pages[p] = Pending, NEW w \in Waiter, net' = Await(p, w),
             UNCHANGED <<viewVars, selVars, seenVars, own>>
      PROVE  Goal
  <2>1. PICK r \in InFlight :
          LET more == PageReq(r.file, r.filter, p, Append(r.waits, w)) IN
          IsPage(r) /\ InFlight' \subseteq InFlight \cup {more} /\ InFlight \subseteq InFlight' \cup {r}
    BY <1>3, Awaited DEF InFlight
  <2>2. PageReq(r.file, r.filter, p, Append(r.waits, w)).kind = "page"
    BY DEF PageReq
  <2>. QED BY <1>3, <2>1, <2>2 DEF selVars, seenVars, IsPage
<1>4. ASSUME UNCHANGED <<net, viewVars, selVars, seenVars, own>>
      PROVE  Goal
  BY <1>4 DEF selVars, seenVars, InFlight
<1>. HIDE DEF Goal
<1>5. CASE \E p \in 0 .. MaxPage : Draw(p)
  BY <1>2, <1>5, NoWaiter DEF Draw
<1>6. CASE \E i \in 0 .. (MaxPage + 1) * PAGE - 1 : Select(i)
  <2>1. PICK i \in 0 .. (MaxPage + 1) * PAGE - 1 : Select(i)
    BY <1>6
  <2>2. i \in Nat /\ i \div PAGE \in 0 .. MaxPage /\ SelectAt(i) \in Waiter
    BY RowsHavePages DEF SelectAt, Waiter
  <2>3. <<SelectAt(i)>> \in Seq(Waiter)
    BY <2>2, OneWaiter
  <2>. QED BY <1>1, <1>2, <1>3, <2>1, <2>2, <2>3 DEF Select
<1>7. CASE SelectResumes
  <2>1. ready[1][2] \in Nat /\ ready[1][3] \in 0 .. MaxPage
    BY <1>7, FirstReady DEF SelectResumes
  <2>. QED BY <1>1, <1>2, <1>4, <1>7, <2>1, NoWaiter DEF SelectResumes
<1>8. CASE LocateResumes
  <2>. DEFINE num == ready[1][2]  p == ready[1][3]  w == LocateIn(num, p + 1)
  <2>1. num \in Nat /\ p \in 0 .. MaxPage
    BY <1>8, FirstReady DEF LocateResumes
  <2>2. ASSUME p < MaxPage
        PROVE  p + 1 \in 0 .. MaxPage /\ w \in Waiter /\ <<w>> \in Seq(Waiter)
    <3>1. p + 1 \in 0 .. MaxPage
      BY <2>1, <2>2, ViewerAssumption
    <3>2. w \in Waiter
      BY <2>1, <3>1 DEF LocateIn, Waiter
    <3>. QED BY <3>1, <3>2, OneWaiter
  <2>3. CASE \E i \in p * PAGE .. p * PAGE + PAGE - 1 : RowAt(i) = num /\ Pick(i)
    BY <1>1, <1>8, <2>1, <2>3, LocateHits DEF LocateResumes
  <2>4. CASE UNCHANGED <<viewVars, selVars, seenVars, net>>
    BY <1>4, <1>8, <2>4 DEF LocateResumes
  <2>5. CASE p < MaxPage /\ pages[p + 1] = Pending /\ net' = Await(p + 1, w)
             /\ UNCHANGED <<viewVars, selVars, seenVars>>
    BY <1>3, <1>8, <2>2, <2>5 DEF LocateResumes
  <2>6. CASE p < MaxPage /\ net' = Append(net, PageReq(file, filter, p + 1, <<w>>))
             /\ UNCHANGED <<viewVars, selVars, seenVars>>
    BY <1>2, <1>8, <2>2, <2>6 DEF LocateResumes
  <2>. QED BY <1>8, <2>3, <2>4, <2>5, <2>6 DEF LocateResumes
<1>. QED BY <1>5, <1>6, <1>7, <1>8 DEF Handles

\* What an answer that is no status or compiled filter leaves.
LEMMA AnswerKeeps ==
  ASSUME TypeOK, NEW k \in 1 .. Len(net),
         PageArrives(k) \/ PageFails(k) \/ FrameArrives(k) \/ FrameFails(k)
  PROVE  /\ UNCHANGED <<file, total, filter, alone, own, selIdx, want>>
         /\ net[k].kind \in {"page", "frame"}
         /\ InFlight' \subseteq InFlight /\ InFlight \subseteq InFlight' \cup {net[k]}
<1>1. net' = RemoveAt(net, k)
  BY DEF PageArrives, PageFails, FrameArrives, FrameFails
<1>2. InFlight' \subseteq InFlight /\ InFlight \subseteq InFlight' \cup {net[k]}
  BY <1>1, Removed DEF InFlight
<1>3. /\ UNCHANGED <<file, total, filter, alone, own, selIdx, want>>
      /\ net[k].kind \in {"page", "frame"}
  BY DEF PageArrives, PageFails, FrameArrives, FrameFails, viewVars, selVars, seenVars
<1>. QED BY <1>2, <1>3

LEMMA DissectingNext == TypeOK /\ Sound /\ Dissecting /\ [Next]_vars => Dissecting'
<1>. SUFFICES ASSUME TypeOK, Sound, Dissecting, [Next]_vars
              PROVE  Dissecting'
  OBVIOUS
<1>1. CASE Handles
  <2>1. CASE UNCHANGED <<selIdx, want, refused>>
    BY <1>1, <2>1, HandlerKeeps DEF Dissecting, IsPage, viewVars
  <2>2. CASE [kind |-> "frame", file |-> file, num |-> want'] \in InFlight'
    BY <1>1, <2>2, HandlerKeeps DEF Dissecting, IsPage, viewVars
  <2>. QED BY <1>1, <2>1, <2>2, HandlerKeeps
<1>2. CASE \E q \in Text : Submit(q)
  <2>1. PICK q \in Text : Submit(q)
    BY <1>2
  <2>2. CASE q = NoFilter
    <3>1. PageReq(file, q, 0, <<>>) \in Request /\ PageReq(file, q, 0, <<>>).kind = "page"
      <4>1. file \in Capture \cup {None} /\ 0 \in 0 .. MaxPage
        BY ViewerAssumption DEF TypeOK
      <4>. QED BY <4>1, NoWaiter, PageRequested DEF PageReq
    <3>2. /\ InFlight' = InFlight \cup {PageReq(file, q, 0, <<>>)}
          /\ file' = file /\ selIdx' = -1 /\ tree' = None /\ alone' = alone
      BY <2>1, <2>2, <3>1, Appended DEF Submit, Refilter, Rewind, InFlight, seenVars
    <3>. QED BY <3>1, <3>2 DEF Dissecting
  <2>3. CASE q # NoFilter
    <3>1. CheckReq(q) \in Request /\ CheckReq(q).kind = "check"
      BY <2>1, <2>3 DEF CheckReq, Request, Text, TypeOK
    <3>2. InFlight' = InFlight \cup {CheckReq(q)} /\ UNCHANGED <<file, selIdx, want, tree, alone, refused>>
      BY <2>1, <2>3, <3>1, Appended DEF Submit, InFlight, viewVars, selVars, seenVars
    <3>. QED BY <3>1, <3>2 DEF Dissecting
  <2>. QED BY <2>2, <2>3
<1>3. CASE \E f \in Capture, q \in Text \ BadQuery, n \in Linked : Open(f, q, n)
  BY <1>3 DEF Open, viewVars, Dissecting
<1>4. CASE UNCHANGED vars
  BY <1>4 DEF vars, viewVars, selVars, seenVars, Dissecting, InFlight
<1>5. CASE Back \/ Deselect
  BY <1>5 DEF Back, Deselect, Dissecting, viewVars, seenVars, InFlight
<1>6. ASSUME NEW k \in 1 .. Len(net), PageArrives(k) \/ PageFails(k) \/ FrameFails(k)
      PROVE  Dissecting'
  <2>1. tree' = tree /\ \/ net[k].kind = "page" /\ refused' = refused
                        \/ refused' = (refused \/ net[k].num = want)
    BY <1>6 DEF PageArrives, PageFails, FrameFails, selVars, seenVars
  <2>. QED BY <1>6, <2>1, AnswerKeeps DEF Dissecting
<1>7. ASSUME NEW k \in 1 .. Len(net), FrameArrives(k)
      PROVE  Dissecting'
  <2>1. /\ net[k] \in InFlight /\ net[k].kind = "frame" /\ net[k].file # None /\ refused' = refused
        /\ UNCHANGED <<file, alone, selIdx, want>>
        /\ InFlight' \subseteq InFlight /\ InFlight \subseteq InFlight' \cup {net[k]}
    BY <1>7, Removed, AnswerKeeps DEF FrameArrives, seenVars
  <2>2. CASE want = net[k].num
    <3>1. tree' = [file |-> net[k].file, num |-> want]
      BY <1>7, <2>2 DEF FrameArrives
    <3>2. net[k].file \in Capture
      BY <1>7, <2>1, Removed, RequestFields
    <3>3. tree' \in [file : Capture, num : {want'}] /\ tree'.file = net[k].file
      BY <2>1, <3>1, <3>2
    <3>. QED BY <2>1, <3>3 DEF Dissecting
  <2>3. CASE want # net[k].num
    <3>1. tree' = tree
      BY <1>7, <2>3 DEF FrameArrives
    <3>. QED BY <2>1, <2>3, <3>1 DEF Dissecting
  <2>. QED BY <2>2, <2>3
<1>8. ASSUME NEW k \in 1 .. Len(net), Compiled(k)
      PROVE  Dissecting'
  <2>. DEFINE q == net[k].text  others == RemoveAt(net, k)
  <2>1. q \in Text /\ others \in Seq(Request) /\ Range(others) \subseteq InFlight /\ \A r \in Range(others) : SoundRequest(r)
    BY <1>8, Removed, RequestFields DEF Compiled, Text, Sound
  <2>2. Refilter(q, others)
    BY <1>8 DEF Compiled
  <2>. HIDE DEF q, others
  <2>3. /\ file' = file /\ UNCHANGED seenVars /\ selIdx' = -1 /\ tree' = None
        /\ InFlight' = Range(others) \cup {PageReq(file, q, 0, <<>>)}
    BY <2>1, <2>2, Refiltering
  <2>4. PageReq(file, q, 0, <<>>).kind = "page"
    BY DEF PageReq
  <2>. QED BY <2>1, <2>3, <2>4 DEF Dissecting, seenVars
<1>9. ASSUME NEW k \in 1 .. Len(net), OpenFails(k)
      PROVE  Dissecting'
  BY <1>9 DEF OpenFails, Dissecting
<1>10. ASSUME NEW k \in 1 .. Len(net), Opened(k)
       PROVE  Dissecting'
  <2>. DEFINE o == net[k]  others == RemoveAt(net, k)
              page == PageReq(o.file, o.filter, LinkPage(o.filter, o.num), <<LinkWaiter(o.filter, o.num)>>)
  <2>1. /\ file' = o.file /\ selIdx' = -1 /\ tree' = None
        /\ alone' = \A j \in DOMAIN others : others[j].kind = "frame" => others[j].file \in {o.file, None}
    BY <1>10 DEF Opened, Rewind
  <2>2. InFlight' = Range(others) \/ InFlight' = Range(others) \cup {page}
    BY <1>10, Opening DEF Opened, InFlight
  <2>3. page.kind = "page"
    BY DEF PageReq
  <2>4. Range(others) = {others[j] : j \in DOMAIN others}
    BY DEF Range
  <2>. HIDE DEF o, others, page
  <2>. QED BY <2>1, <2>2, <2>3, <2>4 DEF Dissecting
<1>11. ASSUME NEW k \in 1 .. Len(net), NotCompiled(k)
       PROVE  Dissecting'
  BY <1>11, Removed DEF NotCompiled, Dissecting, InFlight, viewVars, selVars, seenVars
<1>. QED BY <1>1, <1>2, <1>3, <1>4, <1>5, <1>6, <1>7, <1>8, <1>9, <1>10, <1>11
         DEF Next, User, Answer, Pop, Handles

\* Once the answers are in, the dissection on screen is of the number last clicked, in
\* whatever order the clicks are answered and however many captures there are - unless the
\* last one's was refused - and of the capture on screen, unless another's was on its way
\* when this one was opened (select asks want, not whose).
THEOREM SpecSelectionShown == Spec => []SelectionShown
<1>1. Init => Dissecting
  BY NoWaiter DEF Init, Dissecting, InFlight
<1>2. TypeOK /\ Dissecting => SelectionShown
  <2>. SUFFICES ASSUME TypeOK, Dissecting, Settled PROVE SelectionShown
    BY DEF SelectionShown
  <2>1. InFlight = {}
    BY NoWaiter DEF Settled, InFlight
  <2>2. None \notin [file : Capture, num : {want}]
    BY ViewerAssumption DEF TypeOK
  <2>. QED BY <2>1, <2>2 DEF Dissecting, SelectionShown
<1>. QED BY <1>1, <1>2, DissectingNext, SpecTyped, PTL DEF Spec

----------------------------------------------------------------------------
(* The length of the view.                                                 *)

LEMMA ViewLength ==
  ASSUME TypeOK, file # None
  PROVE  Shown \in Seq(Nat \ {0}) /\ Len(Shown) \in Nat /\ file \in Capture /\ filter \in Text
<1>1. file \in Capture /\ filter \in Query \cup {NoFilter}
  BY DEF TypeOK, Text
<1>2. View[file][filter] \in Seq(Nat \ {0})
  BY <1>1, ViewerAssumption
<1>. QED BY <1>1, <1>2 DEF Shown, Text

\* A row that can be scrolled to is on a page that begins in the view, or at its end.
LEMMA KnownWithin ==
  ASSUME TypeOK, Counted, file # None, own, filter # NoFilter, NEW p \in Nat,
         p * PAGE < count + (IF end THEN 0 ELSE PAGE)
  PROVE  Within(p)
<1>1. PAGE \in Nat \ {0} /\ MaxPage \in Nat
  BY ViewerAssumption
<1>2. p * PAGE \in Nat /\ Len(Shown) \in Nat /\ end \in BOOLEAN
  BY <1>1, ViewLength DEF TypeOK
<1>3. CASE end
  BY <1>2, <1>3 DEF Counted, Within
<1>4. CASE ~end
  <2>1. PICK m \in 0 .. MaxPage + 1 : count = m * PAGE /\ Within(m)
    BY <1>4 DEF Counted
  <2>2. m \in Nat
    BY <1>1
  <2>. DEFINE a == p * PAGE  b == m * PAGE
  <2>3. /\ a \in Nat /\ b \in Nat /\ a < b + PAGE
        /\ (m < p => b + PAGE <= a) /\ (p < m => a + PAGE <= b) /\ (p = m => a = b)
    BY <1>1, <1>4, <2>1, <2>2, Times
  <2>4. b <= Len(Shown)
    BY <2>1 DEF Within
  <2>. HIDE DEF a, b
  <2>5. a <= Len(Shown)
    BY <1>1, <1>2, <2>2, <2>3, <2>4
  <2>. QED BY <2>5 DEF Within, a
<1>. QED BY <1>2, <1>3, <1>4

\* The row before one that is there is on such a page too.
LEMMA PickWithin ==
  ASSUME TypeOK, Sound, OwnPages, file # None, own, NEW i \in Nat, RowAt(i) # None
  PROVE  /\ i + 1 \in DOMAIN Shown /\ RowAt(i) = Shown[i + 1]
         /\ i > 0 => Within((i - 1) \div PAGE)
<1>. DEFINE p == i \div PAGE  at == (i % PAGE) + 1  q == (i - 1) \div PAGE
<1>1. PAGE \in Nat \ {0} /\ p \in Nat /\ i % PAGE \in 0 .. PAGE - 1 /\ i = p * PAGE + (i % PAGE)
  <2>1. PAGE \in Nat \ {0}
    BY ViewerAssumption
  <2>. QED BY <2>1, Divided
<1>2. p \in 0 .. MaxPage /\ Loaded(p) /\ at \in 1 .. Len(pages[p].rows) /\ RowAt(i) = pages[p].rows[at]
  BY RowFound
<1>3. pages[p].rows = PageRows(file, filter, p)
  BY <1>2 DEF OwnPages
<1>4. Len(Shown) \in Nat /\ Shown \in Seq(Nat \ {0}) /\ file \in Capture /\ filter \in Text
  BY ViewLength
<1>5. p * PAGE \in Nat /\ p * PAGE + at \in 1 .. Len(Shown) /\ RowAt(i) = Shown[p * PAGE + at]
  <2>. DEFINE rows == PageRows(file, filter, p)
  <2>. HIDE DEF p, at
  <2>1. p * PAGE \in Nat /\ \A j \in 1 .. Len(rows) : p * PAGE + j \in 1 .. Len(Shown) /\ rows[j] = Shown[p * PAGE + j]
    BY <1>1, <1>4, PageRowsRight DEF Shown
  <2>2. pages[p].rows = rows
    BY <1>3
  <2>. HIDE DEF rows
  <2>. QED BY <1>2, <2>1, <2>2
<1>6. p * PAGE + at = i + 1
  BY <1>1, <1>5
<1>7. i + 1 \in DOMAIN Shown /\ RowAt(i) = Shown[i + 1]
  BY <1>4, <1>5, <1>6
<1>8. ASSUME i > 0 PROVE Within(q)
  <2>1. i - 1 \in Nat
    BY <1>8
  <2>2. q \in Nat /\ (i - 1) % PAGE \in Nat /\ i - 1 = q * PAGE + ((i - 1) % PAGE)
    BY <1>1, <2>1, Divided
  <2>. HIDE DEF q
  <2>. DEFINE a == q * PAGE  c == (i - 1) % PAGE
  <2>3. a \in Nat /\ c \in Nat /\ i - 1 = a + c
    BY <1>1, <2>2, Times
  <2>4. i + 1 <= Len(Shown)
    BY <1>4, <1>7
  <2>. HIDE DEF a, c
  <2>5. a <= Len(Shown)
    BY <1>4, <2>3, <2>4
  <2>. QED BY <2>5 DEF a, Within
<1>. QED BY <1>7, <1>8

\* A full page has one after it that begins in the view, or at its end.
LEMMA NextWithin ==
  ASSUME TypeOK, OwnPages, file # None, own, NEW p \in 0 .. MaxPage, Loaded(p), Len(pages[p].rows) = PAGE
  PROVE  Within(p + 1)
<1>1. PAGE \in Nat \ {0} /\ p \in Nat
  BY ViewerAssumption
<1>2. file \in Capture /\ filter \in Text /\ Len(PageRows(file, filter, p)) = PAGE
  BY ViewLength DEF OwnPages
<1>3. /\ Len(Shown) \in Nat /\ p * PAGE \in Nat
      /\ Len(Shown) <= p * PAGE => PAGE = 0
      /\ p * PAGE <= Len(Shown) => p * PAGE + PAGE <= Len(Shown)
  BY <1>1, <1>2, PageRowsRight DEF Shown
<1>4. (p + 1) * PAGE = p * PAGE + PAGE
  BY <1>1, Times
<1>. DEFINE a == p * PAGE  b == (p + 1) * PAGE
<1>5. a \in Nat /\ b = a + PAGE /\ (Len(Shown) <= a => PAGE = 0) /\ (a <= Len(Shown) => a + PAGE <= Len(Shown))
  BY <1>3, <1>4
<1>. HIDE DEF a, b
<1>6. b <= Len(Shown)
  BY <1>1, <1>3, <1>5
<1>. QED BY <1>6 DEF b, Within

LEMMA OwnFetching ==
  ASSUME TypeOK, Sound, OwnPages, NEW p \in 0 .. MaxPage, NEW ws \in Seq(Waiter),
         file # None /\ own /\ filter # NoFilter => Within(p),
         net' = Append(net, PageReq(file, filter, p, ws)), pages' = [pages EXCEPT ![p] = Pending],
         UNCHANGED <<viewVars, own>>, Range(ready') \subseteq Range(ready)
  PROVE  OwnPages'
<1>. DEFINE r == PageReq(file, filter, p, ws)
<1>1. r \in Request /\ r.file = file /\ r.filter = filter /\ r.page = p
  <2>1. file \in Capture \cup {None} /\ filter \in Text
    BY DEF TypeOK
  <2>2. r \in Request
    BY <2>1, PageRequested
  <2>. QED BY <2>2 DEF PageReq
<1>2. net' = Append(net, r)
  OBVIOUS
<1>. HIDE DEF r
<1>3. InFlight' = InFlight \cup {r}
  BY <1>1, <1>2, Appended DEF InFlight
<1>4. \A o \in 0 .. MaxPage : Loaded(o)' => Loaded(o) /\ pages'[o] = pages[o]
  BY DEF Loaded, TypeOK, Pending
<1>. QED BY <1>1, <1>3, <1>4 DEF OwnPages, Within, Shown, viewVars

LEMMA OwnAwaiting ==
  ASSUME TypeOK, Sound, OwnPages, NEW p \in 0 .. MaxPage, NEW w \in Waiter, pages[p] = Pending,
         net' = Await(p, w), pages' = pages,
         UNCHANGED <<viewVars, own>>, Range(ready') \subseteq Range(ready)
  PROVE  OwnPages'
<1>1. PICK r \in InFlight :
        LET more == PageReq(r.file, r.filter, p, Append(r.waits, w)) IN
        IsPage(r) /\ r.page = p /\ InFlight' \subseteq InFlight \cup {more}
  BY Awaited DEF InFlight
<1>. DEFINE more == PageReq(r.file, r.filter, p, Append(r.waits, w))
<1>2. more.file = r.file /\ more.filter = r.filter /\ more.page = r.page
  BY <1>1 DEF PageReq
<1>3. InFlight' \subseteq InFlight \cup {more}
  BY <1>1
<1>. HIDE DEF more
<1>. QED BY <1>1, <1>2, <1>3 DEF OwnPages, Within, Shown, viewVars, Loaded

LEMMA OwnPicking ==
  ASSUME TypeOK, Sound, OwnPages, NEW i \in Nat, RowAt(i) # None, Pick(i), own' = own,
         Range(ready') \subseteq Range(ready)
  PROVE  OwnPages'
<1>. DEFINE q == (i - 1) \div PAGE  frame == [kind |-> "frame", file |-> file, num |-> RowAt(i)]
            page == PageReq(file, filter, q, <<>>)
<1>1. \/ pages' = pages /\ InFlight' = InFlight \cup {frame}
      \/ /\ i > 0 /\ q \in 0 .. MaxPage
         /\ pages' = [pages EXCEPT ![q] = Pending] /\ InFlight' = InFlight \cup {page, frame}
  BY Picked
<1>2. ~IsPage(frame) /\ page.file = file /\ page.filter = filter /\ page.page = q
  BY DEF IsPage, PageReq
<1>3. i > 0 /\ file # None /\ own => Within(q)
  BY PickWithin
<1>4. UNCHANGED viewVars
  BY DEF Pick
<1>. HIDE DEF frame, page, q
<1>5. \A o \in 0 .. MaxPage : Loaded(o)' => Loaded(o) /\ pages'[o] = pages[o]
  <2>1. pages \in PagesType
    BY DEF TypeOK, PagesType
  <2>2. CASE pages' = pages
    BY <2>2 DEF Loaded
  <2>3. CASE q \in 0 .. MaxPage /\ pages' = [pages EXCEPT ![q] = Pending]
    BY <2>1, <2>3 DEF Loaded, PagesType, Pending
  <2>. QED BY <1>1, <2>2, <2>3
<1>6. \A r \in InFlight' : r \in InFlight \/ ~IsPage(r) \/ (r = page /\ i > 0)
  BY <1>1, <1>2
<1>. QED BY <1>2, <1>3, <1>4, <1>5, <1>6 DEF OwnPages, Within, Shown, viewVars

LEMMA OwnHandles ==
  ASSUME TypeOK, Sound, OwnPages, Counted, Handles
  PROVE  OwnPages'
<1>. DEFINE Asks == file # None /\ own /\ filter # NoFilter
<1>1. CASE \E p \in 0 .. MaxPage : Draw(p)
  <2>1. PICK p \in 0 .. MaxPage : Draw(p)
    BY <1>1
  <2>2. p \in Nat
    BY ViewerAssumption
  <2>3. Asks => Within(p)
    BY <2>1, <2>2, KnownWithin DEF Draw
  <2>4. UNCHANGED <<viewVars, own, ready>> /\ net' = Append(net, PageReq(file, filter, p, <<>>))
        /\ pages' = [pages EXCEPT ![p] = Pending]
    BY <2>1 DEF Draw
  <2>. QED BY <2>3, <2>4, NoWaiter, OwnFetching
<1>2. CASE \E i \in 0 .. (MaxPage + 1) * PAGE - 1 : Select(i)
  <2>1. PICK i \in 0 .. (MaxPage + 1) * PAGE - 1 : Select(i)
    BY <1>2
  <2>. DEFINE p == i \div PAGE
  <2>2. i \in Nat /\ p \in 0 .. MaxPage /\ p \in Nat /\ SelectAt(i) \in Waiter
    BY RowsHavePages DEF SelectAt, Waiter
  <2>3. <<SelectAt(i)>> \in Seq(Waiter)
    BY <2>2, OneWaiter
  <2>4. Asks => Within(p)
    <3>1. p * PAGE <= i
      <4>1. PAGE \in Nat \ {0}
        BY ViewerAssumption
      <4>2. p \in Nat /\ i % PAGE \in Nat /\ i = p * PAGE + (i % PAGE) /\ p * PAGE \in Nat
        BY <2>2, <4>1, Divided, Times
      <4>. QED BY <4>2
    <3>2. i < count + (IF end THEN 0 ELSE PAGE)
      BY <2>1 DEF Select
    <3>3. p * PAGE < count + (IF end THEN 0 ELSE PAGE)
      <4>1. PAGE \in Nat /\ count \in Nat
        BY ViewerAssumption DEF TypeOK
      <4>2. p * PAGE \in Nat
        BY <2>2, <4>1
      <4>. HIDE DEF p
      <4>. QED BY <2>2, <3>1, <3>2, <4>1, <4>2
    <3>. QED BY <2>2, <3>3, KnownWithin
  <2>5. UNCHANGED <<own, ready>>
    BY <2>1 DEF Select
  <2>. HIDE DEF p
  <2>6. CASE RowAt(i) # None /\ Pick(i)
    BY <2>2, <2>5, <2>6, OwnPicking
  <2>7. CASE pages[p] = Pending /\ net' = Await(p, SelectAt(i)) /\ UNCHANGED <<viewVars, pages, selVars, seenVars>>
    BY <2>2, <2>5, <2>7, OwnAwaiting
  <2>8. CASE /\ pages' = [pages EXCEPT ![p] = Pending]
             /\ net' = Append(net, PageReq(file, filter, p, <<SelectAt(i)>>))
             /\ UNCHANGED <<viewVars, selVars, seenVars>>
    BY <2>2, <2>3, <2>4, <2>5, <2>8, OwnFetching
  <2>. QED BY <2>1, <2>6, <2>7, <2>8 DEF Select, p
<1>3. CASE SelectResumes
  <2>. DEFINE i == ready[1][2]  p == ready[1][3]
  <2>1. /\ i \in Nat /\ p \in 0 .. MaxPage /\ ready[1] \in Range(ready)
        /\ Range(ready') \subseteq Range(ready) /\ own' = own
    BY <1>3, FirstReady DEF SelectResumes
  <2>2. Asks => Within(p)
    BY <2>1 DEF OwnPages
  <2>. HIDE DEF i, p
  <2>3. CASE RowAt(i) # None /\ Pick(i)
    BY <2>1, <2>3, OwnPicking
  <2>4. CASE /\ pages' = [pages EXCEPT ![p] = Pending]
             /\ net' = Append(net, PageReq(file, filter, p, <<>>))
             /\ UNCHANGED <<viewVars, selVars, seenVars>>
    BY <2>1, <2>2, <2>4, NoWaiter, OwnFetching
  <2>5. CASE UNCHANGED <<pages, net>> /\ UNCHANGED <<viewVars, selVars, seenVars>>
    BY <2>1, <2>5 DEF OwnPages, Within, Shown, viewVars, Loaded, InFlight
  <2>. QED BY <1>3, <2>3, <2>4, <2>5 DEF SelectResumes, i, p
<1>4. CASE LocateResumes
  <2>. DEFINE num == ready[1][2]  p == ready[1][3]  w == LocateIn(num, p + 1)
  <2>1. /\ num \in Nat /\ p \in 0 .. MaxPage /\ Tail(ready) \in Seq(Waiter)
        /\ Range(Tail(ready)) \subseteq Range(ready) /\ own' = own
    BY <1>4, FirstReady DEF LocateResumes
  <2>2. ASSUME p < MaxPage
        PROVE  p + 1 \in 0 .. MaxPage /\ w \in Waiter /\ <<w>> \in Seq(Waiter) /\ Range(<<w>>) = {w} /\ w[3] = p + 1
    <3>1. p + 1 \in 0 .. MaxPage
      BY <2>1, <2>2, ViewerAssumption
    <3>2. w \in Waiter /\ w[3] = p + 1
      BY <2>1, <3>1 DEF LocateIn, Waiter
    <3>. QED BY <3>1, <3>2, OneWaiter
  <2>3. ASSUME ~LocateStops(num, p), Asks
        PROVE  Within(p + 1)
    BY <2>1, <2>3, NextWithin DEF LocateStops
  <2>4. CASE ready' = Tail(ready) /\ \E i \in p * PAGE .. p * PAGE + PAGE - 1 : RowAt(i) = num /\ Pick(i)
    BY <2>1, <2>4, LocateHits, OwnPicking
  <2>5. CASE ready' = Tail(ready) /\ UNCHANGED <<viewVars, pages, selVars, seenVars, net>>
    BY <2>1, <2>5 DEF OwnPages, Within, Shown, viewVars, Loaded, InFlight
  <2>6. CASE /\ ~LocateStops(num, p) /\ p < MaxPage /\ ready' = <<w>> \o Tail(ready)
             /\ UNCHANGED <<pages, net>> /\ UNCHANGED <<viewVars, selVars, seenVars>>
    <3>1. Range(ready') = {w} \cup Range(Tail(ready))
      <4>. DEFINE one == <<w>>  rest == Tail(ready)
      <4>1. one \in Seq(Waiter) /\ rest \in Seq(Waiter) /\ Range(one) = {w} /\ ready' = one \o rest
        BY <2>1, <2>2, <2>6
      <4>. HIDE DEF one, rest
      <4>2. Range(one \o rest) = Range(one) \cup Range(rest)
        BY <4>1, RangeOfJoined
      <4>. QED BY <4>1, <4>2 DEF rest
    <3>2. \A x \in Range(ready') : x \in Range(ready) \/ x[3] = p + 1
      BY <2>1, <2>2, <2>6, <3>1
    <3>. QED BY <2>1, <2>3, <2>6, <3>2 DEF OwnPages, Within, Shown, viewVars, Loaded, InFlight
  <2>7. CASE /\ p < MaxPage /\ pages[p + 1] = Pending /\ net' = Await(p + 1, w) /\ ready' = Tail(ready)
             /\ UNCHANGED pages /\ UNCHANGED <<viewVars, selVars, seenVars>>
    BY <2>1, <2>2, <2>7, OwnAwaiting
  <2>8. CASE /\ ~LocateStops(num, p) /\ p < MaxPage /\ pages' = [pages EXCEPT ![p + 1] = Pending]
             /\ net' = Append(net, PageReq(file, filter, p + 1, <<w>>)) /\ ready' = Tail(ready)
             /\ UNCHANGED <<viewVars, selVars, seenVars>>
    BY <2>1, <2>2, <2>3, <2>8, OwnFetching
  <2>. QED BY <1>4, <2>4, <2>5, <2>6, <2>7, <2>8 DEF LocateResumes
<1>. QED BY <1>1, <1>2, <1>3, <1>4 DEF Handles

\* A page arrives: it is one of the view's, and what it says of the view's length holds.
LEMMA ArrivesCounted ==
  ASSUME TypeOK, Sound, OwnPages, Counted, NEW k \in 1 .. Len(net), PageArrives(k)
  PROVE  OwnPages' /\ Counted'
<1>. DEFINE r == net[k]  p == r.page  rows == PageRows(r.file, r.filter, p)
<1>1. r \in Request /\ r \in InFlight /\ IsPage(r) /\ r.file # None
  BY Removed DEF PageArrives, IsPage
<1>2. r.file \in Capture /\ r.filter \in Text /\ p \in 0 .. MaxPage /\ p \in Nat
  BY <1>1, RequestFields, ViewerAssumption DEF IsPage
<1>3. InFlight' \subseteq InFlight /\ UNCHANGED <<file, total, filter, own>>
  BY AnswerKeeps
<1>4. \A w \in Range(r.waits) : w[3] = p
  BY <1>1 DEF Sound, SoundRequest
<1>5. pages' = [pages EXCEPT ![p] = Got(rows)] /\ ready' = r.waits
  BY DEF PageArrives
<1>6. ASSUME file # None, own
      PROVE  r.file = file /\ r.filter = filter /\ (filter # NoFilter => Within(p))
  BY <1>1, <1>6 DEF OwnPages
<1>7. OwnPages'
  <2>. HIDE DEF r, p, rows
  <2>1. \A o \in 0 .. MaxPage : Loaded(o)' =>
          (Loaded(o) /\ pages'[o] = pages[o]) \/ (o = p /\ pages'[o].rows = rows)
    <3>1. pages \in PagesType
      BY DEF TypeOK, PagesType
    <3>. QED BY <1>2, <1>5, <3>1 DEF PagesType, Loaded, Got
  <2>2. file # None /\ own => rows = PageRows(file, filter, p)
    BY <1>6 DEF rows
  <2>. QED BY <1>3, <1>4, <1>5, <1>6, <2>1, <2>2 DEF OwnPages, Within, Shown
<1>8. Counted'
  <2>1. CASE filter = NoFilter
    BY <1>3, <2>1 DEF PageArrives, Counted
  <2>2. CASE filter # NoFilter
    <3>1. /\ file' = file /\ total' = total /\ filter' = filter /\ own' = own
          /\ file # None => total = Len(View[file][NoFilter])
      BY <1>3 DEF Counted
    <3>2. ASSUME file # None, own
          PROVE  IF end' THEN count' = Len(Shown) ELSE \E m \in 0 .. MaxPage + 1 : count' = m * PAGE /\ Within(m)
      <4>. DEFINE n == Len(Shown)  seen == p * PAGE + Len(rows)
      <4>1. PAGE \in Nat \ {0} /\ MaxPage \in Nat /\ n \in Nat /\ count \in Nat /\ end \in BOOLEAN
        BY <3>2, ViewLength, ViewerAssumption DEF TypeOK
      <4>2. p * PAGE <= n
        BY <1>6, <2>2, <3>2 DEF Within
      <4>3. /\ p * PAGE \in Nat /\ Len(rows) \in 0 .. PAGE
            /\ p * PAGE <= n => p * PAGE + Len(rows) <= n
            /\ p * PAGE <= n /\ Len(rows) < PAGE => p * PAGE + Len(rows) = n
        <5>. HIDE DEF r, p
        <5>1. r.file = file /\ r.filter = filter
          BY <1>6, <3>2
        <5>. QED BY <1>2, <5>1, PageRowsRight DEF Shown
      <4>4. seen \in Nat /\ seen <= n /\ (Len(rows) < PAGE => seen = n) /\ (~(Len(rows) < PAGE) => seen = (p + 1) * PAGE)
        <5>1. (p + 1) * PAGE = p * PAGE + PAGE
          BY <1>2, <4>1, Times
        <5>. DEFINE a == p * PAGE  b == Len(rows)  c == (p + 1) * PAGE
        <5>2. /\ a \in Nat /\ b \in 0 .. PAGE /\ a <= n /\ a + b <= n /\ (b < PAGE => a + b = n) /\ c = a + PAGE
          BY <4>2, <4>3, <5>1
        <5>. HIDE DEF a, b, c
        <5>3. a + b \in Nat /\ a + b <= n /\ (b < PAGE => a + b = n) /\ (~(b < PAGE) => a + b = c)
          BY <4>1, <5>2
        <5>. QED BY <5>3 DEF a, b, c
      <4>5. /\ Len(rows) < PAGE => count' = seen /\ end' = TRUE
            /\ ~(Len(rows) < PAGE) => count' = (IF seen > count THEN seen ELSE count) /\ end' = end
        BY <2>2 DEF PageArrives
      <4>6. p + 1 \in 0 .. MaxPage + 1
        BY <1>2, <4>1
      <4>7. IF end THEN count = n ELSE \E m \in 0 .. MaxPage + 1 : count = m * PAGE /\ m * PAGE <= n
        BY <2>2, <3>2 DEF Counted, Within
      <4>. HIDE DEF n, seen
      <4>8. CASE Len(rows) < PAGE
        BY <4>4, <4>5, <4>8 DEF n
      <4>9. CASE ~(Len(rows) < PAGE) /\ end
        <5>1. ~(seen > count)
          BY <4>1, <4>4, <4>7, <4>9
        <5>. QED BY <4>5, <4>7, <4>9, <5>1 DEF n
      <4>10. CASE ~(Len(rows) < PAGE) /\ ~end
        <5>1. CASE seen > count
          <6>1. count' = (p + 1) * PAGE /\ (p + 1) * PAGE <= n /\ ~end'
            BY <4>4, <4>5, <4>10, <5>1
          <6>. QED BY <4>6, <6>1 DEF n, Within
        <5>2. CASE ~(seen > count)
          <6>1. count' = count /\ ~end'
            BY <4>5, <4>10, <5>2
          <6>. QED BY <4>7, <4>10, <6>1 DEF n, Within
        <5>. QED BY <5>1, <5>2
      <4>. QED BY <4>8, <4>9, <4>10
    <3>. QED BY <2>2, <3>1, <3>2 DEF Counted, Within, Shown
  <2>. QED BY <2>1, <2>2
<1>. QED BY <1>7, <1>8

\* A page's request fails: nothing is learnt, and nothing that was loaded is lost but it.
LEMMA FailsCounted ==
  ASSUME TypeOK, Sound, OwnPages, Counted, NEW k \in 1 .. Len(net), PageFails(k)
  PROVE  OwnPages' /\ Counted'
<1>. DEFINE r == net[k]  p == r.page
<1>1. r \in Request /\ r \in InFlight /\ IsPage(r)
  BY Removed DEF PageFails, IsPage
<1>2. p \in 0 .. MaxPage /\ \A w \in Range(r.waits) : w[3] = p
  BY <1>1, RequestFields DEF IsPage, Sound, SoundRequest
<1>3. InFlight' \subseteq InFlight /\ UNCHANGED <<file, total, filter, count, end, own>>
  BY AnswerKeeps DEF PageFails, viewVars
<1>4. pages' = [pages EXCEPT ![p] = Absent] /\ ready' = r.waits
  BY DEF PageFails
<1>5. file # None /\ own /\ filter # NoFilter => Within(p)
  BY <1>1 DEF OwnPages
<1>. HIDE DEF r, p
<1>6. \A o \in 0 .. MaxPage : Loaded(o)' => Loaded(o) /\ pages'[o] = pages[o]
  <2>1. pages \in PagesType
    BY DEF TypeOK, PagesType
  <2>. QED BY <1>2, <1>4, <2>1 DEF PagesType, Loaded, Absent
<1>7. OwnPages'
  BY <1>2, <1>3, <1>4, <1>5, <1>6 DEF OwnPages, Within, Shown
<1>8. Counted'
  BY <1>3 DEF Counted, Within, Shown
<1>. QED BY <1>7, <1>8

\* What keeps the view, and loses requests or gains ones for no page, keeps its count.
LEMMA StillCounted ==
  ASSUME OwnPages, Counted, UNCHANGED <<total, filter, count, end, own, pages, ready>>,
         file' \in {file, None}, \A r \in InFlight' : IsPage(r) => r \in InFlight
  PROVE  OwnPages' /\ Counted'
<1>1. OwnPages'
  <2>1. CASE file' = file
    BY <2>1 DEF OwnPages, Within, Shown, Loaded
  <2>2. CASE file' = None
    BY <2>2 DEF OwnPages
  <2>. QED BY <2>1, <2>2
<1>2. Counted'
  <2>1. CASE file' = file
    BY <2>1 DEF Counted, Within, Shown
  <2>2. CASE file' = None
    BY <2>2 DEF Counted
  <2>. QED BY <2>1, <2>2
<1>. QED BY <1>1, <1>2

\* Another view begins: all of its length is known, or nothing.
LEMMA AnewCounted ==
  ASSUME TypeOK, NEW q \in Text, NEW frames, NEW others \in Seq(Request), Rewind(q, frames, others),
         file' \in Capture \cup {None},
         file' # None => total' = frames /\ frames = Len(View[file'][NoFilter]),
         \A p \in 0 .. MaxPage : ~Loaded(p)',
         ready' = <<>>,
         \A r \in InFlight' : IsPage(r) =>
           r \in Range(others) \/ (r.file = file' /\ r.filter = q /\ (q # NoFilter => r.page = 0))
  PROVE  OwnPages' /\ Counted'
<1>1. /\ filter' = q /\ count' = (IF q = NoFilter THEN frames ELSE 0) /\ end' = (q = NoFilter)
      /\ own' = ~\E k \in DOMAIN others : others[k].kind = "page"
  BY DEF Rewind
<1>2. own' => \A r \in Range(others) : ~IsPage(r)
  BY <1>1 DEF Range, IsPage
<1>3. file' # None => 0 * PAGE = 0 /\ 0 <= Len(View[file'][q]) /\ 0 \in 0 .. MaxPage + 1
  <2>. HAVE file' # None
  <2>1. View[file'][q] \in Seq(Nat \ {0}) /\ PAGE \in Nat /\ MaxPage \in Nat
    BY ViewerAssumption DEF Text
  <2>2. Len(View[file'][q]) \in Nat
    BY <2>1
  <2>. QED BY <2>1, <2>2
<1>4. file' # None => Within(0)'
  BY <1>1, <1>3 DEF Within, Shown
<1>5. OwnPages'
  <2>1. Range(ready') = {}
    BY NoWaiter
  <2>. QED BY <1>1, <1>2, <1>4, <2>1 DEF OwnPages
<1>6. Counted'
  BY <1>1, <1>3, <1>4 DEF Counted
<1>. QED BY <1>5, <1>6

LEMMA RefilterCounted ==
  ASSUME TypeOK, Sound, Counted, NEW q \in Text, NEW others \in Seq(Request), Range(others) \subseteq InFlight,
         Refilter(q, others), Idle, UNCHANGED ready
  PROVE  OwnPages' /\ Counted'
<1>. DEFINE r == PageReq(file, q, 0, <<>>)
<1>1. file' = file /\ total' = total /\ InFlight' = Range(others) \cup {r} /\ Rewind(q, total, others)
  <2>1. \A x \in Range(others) : SoundRequest(x)
    BY DEF Sound
  <2>. QED BY <2>1, Refiltering DEF Refilter
<1>2. r.file = file /\ r.filter = q /\ r.page = 0
  BY DEF PageReq
<1>3. \A p \in 0 .. MaxPage : ~Loaded(p)'
  BY DEF Refilter, Loaded, Blank, Absent, Pending
<1>4. ready' = <<>>
  BY DEF Idle
<1>5. file' \in Capture \cup {None} /\ (file' # None => total' = total /\ total = Len(View[file'][NoFilter]))
  BY <1>1 DEF Counted, TypeOK
<1>. HIDE DEF r
<1>. QED BY <1>1, <1>2, <1>3, <1>4, <1>5, AnewCounted

LEMMA OpenedCounted ==
  ASSUME TypeOK, Sound, NEW k \in 1 .. Len(net), Opened(k)
  PROVE  OwnPages' /\ Counted'
<1>. DEFINE s == net[k]  others == RemoveAt(net, k)  frames == Len(View[s.file][NoFilter])
            page == PageReq(s.file, s.filter, LinkPage(s.filter, s.num), <<LinkWaiter(s.filter, s.num)>>)
<1>1. /\ s.file \in Capture /\ s.filter \in Text /\ others \in Seq(Request)
      /\ \/ InFlight' = Range(others) /\ pages' = Blank
         \/ InFlight' = Range(others) \cup {page} /\ pages' = [Blank EXCEPT ![LinkPage(s.filter, s.num)] = Pending]
  BY Opening, Removed
<1>2. file' = s.file /\ total' = frames /\ Rewind(s.filter, frames, others) /\ ready' = <<>>
  BY DEF Opened, Idle
<1>3. page.file = s.file /\ page.filter = s.filter /\ (s.filter # NoFilter => page.page = 0)
  BY DEF PageReq, LinkPage
<1>4. \A p \in 0 .. MaxPage : ~Loaded(p)'
  <2>. DEFINE o == LinkPage(s.filter, s.num)
  <2>. HIDE DEF s, o
  <2>1. pages' = Blank \/ pages' = [Blank EXCEPT ![o] = Pending]
    BY <1>1 DEF o
  <2>2. \A p \in 0 .. MaxPage : Blank[p] = Absent
    BY DEF Blank
  <2>3. \A p \in 0 .. MaxPage : pages'[p] \in {Absent, Pending}
    <3>1. DOMAIN Blank = 0 .. MaxPage
      BY DEF Blank
    <3>. QED BY <2>1, <2>2, <3>1
  <2>4. Absent.is # "rows" /\ Pending.is # "rows"
    BY DEF Absent, Pending
  <2>. QED BY <2>3, <2>4 DEF Loaded
<1>. HIDE DEF s, others, page
<1>5. file' # None => total' = frames /\ frames = Len(View[file'][NoFilter])
  BY <1>2
<1>6. \A r \in InFlight' : IsPage(r) =>
        r \in Range(others) \/ (r.file = file' /\ r.filter = s.filter /\ (s.filter # NoFilter => r.page = 0))
  BY <1>1, <1>2, <1>3
<1>. HIDE DEF frames
<1>. QED BY <1>1, <1>2, <1>4, <1>5, <1>6, AnewCounted

LEMMA CountedNext == TypeOK /\ Sound /\ OwnPages /\ Counted /\ [Next]_vars => OwnPages' /\ Counted'
<1>. SUFFICES ASSUME TypeOK, Sound, OwnPages, Counted, [Next]_vars
              PROVE  OwnPages' /\ Counted'
  OBVIOUS
<1>1. CASE Handles
  <2>1. OwnPages' /\ UNCHANGED <<viewVars, own>>
    BY <1>1, OwnHandles, HandlerKeeps
  <2>2. Counted'
    BY <2>1 DEF viewVars, Counted, Within, Shown
  <2>. QED BY <2>1, <2>2
<1>2. CASE \E q \in Text : Submit(q)
  <2>1. PICK q \in Text : Submit(q)
    BY <1>2
  <2>2. CASE q = NoFilter
    <3>1. net \in Seq(Request) /\ Range(net) \subseteq InFlight
      BY DEF TypeOK, InFlight
    <3>2. Refilter(q, net) /\ Idle /\ UNCHANGED ready
      BY <2>1, <2>2 DEF Submit, UserActs
    <3>. QED BY <3>1, <3>2, RefilterCounted
  <2>3. CASE q # NoFilter
    <3>1. CheckReq(q) \in Request /\ CheckReq(q).kind = "check"
      BY <2>1, <2>3 DEF CheckReq, Request, Text, TypeOK
    <3>2. InFlight' = InFlight \cup {CheckReq(q)}
      BY <2>1, <2>3, <3>1, Appended DEF Submit, InFlight
    <3>3. \A r \in InFlight' : IsPage(r) => r \in InFlight
      BY <3>1, <3>2 DEF IsPage
    <3>4. UNCHANGED <<file, total, filter, count, end, own, pages, ready>>
      BY <2>1, <2>3 DEF Submit, viewVars
    <3>. QED BY <3>3, <3>4, StillCounted
  <2>. QED BY <2>2, <2>3
<1>3. CASE \E f \in Capture, q \in Text \ BadQuery, n \in Linked : Open(f, q, n)
  <2>1. PICK f \in Capture, q \in Text, n \in Linked : Open(f, q, n)
    BY <1>3
  <2>2. StatusReq(f, q, n) \in Request /\ ~IsPage(StatusReq(f, q, n))
    BY ViewerAssumption DEF StatusReq, Request, IsPage
  <2>3. InFlight' = InFlight \cup {StatusReq(f, q, n)}
    BY <2>1, <2>2, Appended DEF Open, InFlight
  <2>4. \A r \in InFlight' : IsPage(r) => r \in InFlight
    BY <2>2, <2>3
  <2>5. UNCHANGED <<file, total, filter, count, end, own, pages, ready>>
    BY <2>1 DEF Open, viewVars
  <2>. QED BY <2>4, <2>5, StillCounted
<1>4. CASE Deselect \/ Back \/ UNCHANGED vars
  <2>1. UNCHANGED <<total, filter, count, end, own, pages, ready>> /\ InFlight' = InFlight /\ file' \in {file, None}
    BY <1>4 DEF Deselect, Back, vars, viewVars, InFlight
  <2>. QED BY <2>1, StillCounted
<1>5. ASSUME NEW k \in 1 .. Len(net), PageArrives(k) \/ PageFails(k)
      PROVE  OwnPages' /\ Counted'
  BY <1>5, ArrivesCounted, FailsCounted
<1>6. ASSUME NEW k \in 1 .. Len(net), FrameArrives(k) \/ FrameFails(k) \/ NotCompiled(k) \/ OpenFails(k)
      PROVE  OwnPages' /\ Counted'
  <2>1. UNCHANGED <<total, filter, count, end, own, pages, ready>> /\ file' \in {file, None} /\ net' = RemoveAt(net, k)
    BY <1>6 DEF FrameArrives, FrameFails, NotCompiled, OpenFails, viewVars
  <2>2. InFlight' \subseteq InFlight
    BY <2>1, Removed DEF InFlight
  <2>. QED BY <2>1, <2>2, StillCounted
<1>7. ASSUME NEW k \in 1 .. Len(net), Compiled(k)
      PROVE  OwnPages' /\ Counted'
  <2>. DEFINE q == net[k].text  others == RemoveAt(net, k)
  <2>1. q \in Text
    BY <1>7, Removed, RequestFields DEF Compiled, Text
  <2>2. others \in Seq(Request) /\ Range(others) \subseteq InFlight
    BY Removed
  <2>3. Refilter(q, others) /\ Idle /\ UNCHANGED ready
    BY <1>7 DEF Compiled
  <2>. HIDE DEF q, others
  <2>. QED BY <2>1, <2>2, <2>3, RefilterCounted
<1>8. ASSUME NEW k \in 1 .. Len(net), Opened(k)
      PROVE  OwnPages' /\ Counted'
  BY <1>8, OpenedCounted
<1>. QED BY <1>1, <1>2, <1>3, <1>4, <1>5, <1>6, <1>7, <1>8
         DEF Next, User, Answer, Pop, Handles

LEMMA InitCounted == Init => OwnPages /\ Counted
BY DEF Init, OwnPages, Counted

LEMMA SpecCounted == Spec => [](TypeOK /\ Sound /\ OwnPages /\ Counted)
<1>. QED BY InitCounted, CountedNext, SpecTyped, PTL DEF Spec

\* The view's length is never overstated, and known once its end is: whatever pages
\* arrive, in whatever order, fail or are left over of other views of other captures,
\* for any views, any size of a page and any number of requests (fetchPage, rewind).
THEOREM SpecCountIsRight == Spec => []CountIsRight
<1>1. TypeOK /\ Counted => CountIsRight
  <2>. SUFFICES ASSUME TypeOK, Counted, file # None, own
                PROVE  count <= Len(Shown) /\ (end => count = Len(Shown))
    BY DEF Counted, CountIsRight, Shown
  <2>1. Len(Shown) \in Nat /\ count \in Nat
    BY ViewLength DEF TypeOK
  <2>2. CASE filter = NoFilter
    BY <2>1, <2>2 DEF Counted, Shown
  <2>3. CASE filter # NoFilter
    <3>1. IF end THEN count = Len(Shown) ELSE \E m \in 0 .. MaxPage + 1 : count = m * PAGE /\ m * PAGE <= Len(Shown)
      BY <2>3 DEF Counted, Within
    <3>. QED BY <2>1, <3>1
  <2>. QED BY <2>2, <2>3
<1>. QED BY <1>1, SpecCounted, PTL

----------------------------------------------------------------------------
(* The frame of a link.                                                    *)

\* A page that has arrived has every row of the view that is on it.
LEMMA RowThere ==
  ASSUME TypeOK, OwnPages, file # None, own, NEW i \in Nat, i + 1 \in DOMAIN Shown,
         i \div PAGE \in 0 .. MaxPage, Loaded(i \div PAGE)
  PROVE  RowAt(i) = Shown[i + 1] /\ RowAt(i) # None
<1>. DEFINE p == i \div PAGE  d == i % PAGE  rows == PageRows(file, filter, p)  n == Len(Shown)
<1>1. PAGE \in Nat \ {0} /\ MaxPage \in Nat /\ None \notin Nat
  BY ViewerAssumption
<1>2. n \in Nat /\ Shown \in Seq(Nat \ {0}) /\ file \in Capture /\ filter \in Text
  BY ViewLength
<1>3. p \in Nat /\ d \in 0 .. PAGE - 1 /\ i = p * PAGE + d
  BY Divided
<1>4. pages[p].rows = rows
  BY DEF OwnPages
<1>5. i + 1 <= n /\ Shown[i + 1] \in Nat
  BY <1>2
<1>6. /\ p * PAGE \in Nat /\ Len(rows) \in 0 .. PAGE
      /\ p * PAGE <= n => p * PAGE + Len(rows) <= n
      /\ p * PAGE <= n /\ Len(rows) < PAGE => p * PAGE + Len(rows) = n
      /\ \A j \in 1 .. Len(rows) : rows[j] = Shown[p * PAGE + j]
  <2>. HIDE DEF p
  <2>. QED BY <1>2, <1>3, PageRowsRight DEF Shown
<1>7. d + 1 \in 1 .. Len(rows) /\ p * PAGE + (d + 1) = i + 1
  <2>. DEFINE a == p * PAGE  l == Len(rows)
  <2>1. a \in Nat /\ l \in 0 .. PAGE /\ (a <= n /\ l < PAGE => a + l = n) /\ i = a + d
    BY <1>3, <1>6
  <2>. HIDE DEF a, l, d, n
  <2>2. d + 1 \in 1 .. l /\ a + (d + 1) = i + 1
    BY <1>1, <1>2, <1>3, <1>5, <2>1
  <2>. QED BY <2>2 DEF a, l
<1>8. RowAt(i) = pages[p].rows[d + 1]
  <2>. HIDE DEF rows
  <2>1. i >= 0 /\ p <= MaxPage /\ Loaded(p) /\ d + 1 <= Len(pages[p].rows)
    BY <1>1, <1>4, <1>7
  <2>. QED BY <2>1 DEF RowAt
<1>9. rows[d + 1] = Shown[i + 1]
  <2>. HIDE DEF rows, p, d
  <2>. QED BY <1>6, <1>7
<1>. HIDE DEF p, d, rows
<1>. QED BY <1>1, <1>4, <1>5, <1>8, <1>9

\* The view and the link stay; what waits seeks the link, and something does.
LEMMA Follows ==
  ASSUME LinkFollowed, file # None, link # None, UNCHANGED <<file, filter, own, link>>,
         \A r \in InFlight' : r.kind \in {"page", "frame"},
         \A r \in InFlight' : IsPage(r) => \A w \in Range(r.waits) : Seeks(w),
         \A w \in Range(ready') : Seeks(w) /\ Loaded(w[3])',
         selIdx' = -1 \/ Found',
         InView /\ selIdx' = -1 => ready' # <<>> \/ \E r \in InFlight' : IsPage(r) /\ r.waits # <<>>
  PROVE  LinkFollowed'
<1>1. own /\ link \in Nat \ {0}
  BY DEF LinkFollowed
<1>2. Shown' = Shown /\ InView' = InView
  BY DEF Shown, InView
<1>3. \A r \in InFlight' : IsPage(r) => \A w \in Range(r.waits) : Seeks(w)'
  BY <1>2 DEF Seeks
<1>4. \A w \in Range(ready') : Seeks(w)' /\ Loaded(w[3])'
  BY <1>2 DEF Seeks
<1>. QED BY <1>1, <1>2, <1>3, <1>4 DEF LinkFollowed, IsPage

\* Pages that had arrived still have when another is asked for.
LEMMA LoadedStill ==
  ASSUME TypeOK, NEW p \in 0 .. MaxPage, pages' = [pages EXCEPT ![p] = Pending], pages[p] = Absent
  PROVE  \A o \in 0 .. MaxPage : Loaded(o) => Loaded(o)'
<1>1. pages \in PagesType
  BY DEF TypeOK, PagesType
<1>2. ~Loaded(p)
  BY DEF Loaded, Absent
<1>. QED BY <1>1, <1>2 DEF Loaded, PagesType

\* What is ready is no page past the last.
LEMMA ReadyPages ==
  ASSUME TypeOK, NEW w \in Range(ready)
  PROVE  w[3] \in 0 .. MaxPage
<1>1. w \in Waiter
  BY RangeOf DEF TypeOK
<1>. QED BY <1>1 DEF Waiter

\* The row of the link's frame is picked.
LEMMA PickFollows ==
  ASSUME TypeOK, Sound, OwnPages, LinkFollowed, file # None, link # None, own' = own, link' = link,
         NEW i \in Nat, RowAt(i) # None, RowAt(i) = link, Pick(i), Range(ready') \subseteq Range(ready)
  PROVE  LinkFollowed'
<1>. DEFINE q == (i - 1) \div PAGE  frame == [kind |-> "frame", file |-> file, num |-> RowAt(i)]
            page == PageReq(file, filter, q, <<>>)
<1>1. /\ selIdx' = i /\ want' = RowAt(i)
      /\ \/ pages' = pages /\ InFlight' = InFlight \cup {frame}
         \/ /\ q \in 0 .. MaxPage /\ pages[q] = Absent
            /\ pages' = [pages EXCEPT ![q] = Pending] /\ InFlight' = InFlight \cup {page, frame}
  BY Picked
<1>2. frame.kind = "frame" /\ page.kind = "page" /\ page.waits = <<>> /\ Range(<<>>) = {}
  BY NoWaiter DEF PageReq
<1>3. UNCHANGED <<file, filter>>
  BY DEF Pick, viewVars
<1>4. own /\ i + 1 \in DOMAIN Shown /\ Shown[i + 1] = link
  <2>1. own
    BY DEF LinkFollowed
  <2>. QED BY <2>1, PickWithin
<1>5. Found'
  BY <1>1, <1>3, <1>4 DEF Found, Shown
<1>. HIDE DEF frame, page, q
<1>6. \A r \in InFlight' : r.kind \in {"page", "frame"}
  BY <1>1, <1>2 DEF LinkFollowed
<1>7. \A r \in InFlight' : IsPage(r) => \A w \in Range(r.waits) : Seeks(w)
  BY <1>1, <1>2 DEF LinkFollowed, IsPage
<1>8. \A w \in Range(ready') : Seeks(w) /\ Loaded(w[3])'
  <2>1. \A o \in 0 .. MaxPage : Loaded(o) => Loaded(o)'
    <3>1. CASE pages' = pages
      BY <3>1 DEF Loaded
    <3>2. CASE q \in 0 .. MaxPage /\ pages[q] = Absent /\ pages' = [pages EXCEPT ![q] = Pending]
      BY <3>2, LoadedStill
    <3>. QED BY <1>1, <3>1, <3>2
  <2>. QED BY <2>1, ReadyPages DEF LinkFollowed
<1>9. selIdx' # -1
  BY <1>1
<1>. QED BY <1>3, <1>5, <1>6, <1>7, <1>8, <1>9, Follows

\* A page is asked for, with nobody or what seeks the link waiting for it.
LEMMA FetchFollows ==
  ASSUME TypeOK, Sound, LinkFollowed, file # None, link # None, UNCHANGED <<file, filter, own, link, selIdx, want>>,
         NEW p \in 0 .. MaxPage, pages[p] = Absent, pages' = [pages EXCEPT ![p] = Pending],
         NEW ws \in Seq(Waiter), net' = Append(net, PageReq(file, filter, p, ws)),
         \A w \in Range(ws) : Seeks(w),
         Range(ready') \subseteq Range(ready), ready' = ready \/ ws # <<>>
  PROVE  LinkFollowed'
<1>. DEFINE page == PageReq(file, filter, p, ws)
<1>1. page \in Request /\ IsPage(page) /\ page.kind = "page" /\ page.waits = ws
  <2>1. file \in Capture \cup {None} /\ filter \in Text
    BY DEF TypeOK
  <2>. QED BY <2>1, PageRequested
<1>2. net' = Append(net, page)
  OBVIOUS
<1>. HIDE DEF page
<1>3. InFlight' = InFlight \cup {page}
  BY <1>1, <1>2, Appended DEF InFlight
<1>4. \A r \in InFlight' : r.kind \in {"page", "frame"}
  BY <1>1, <1>3 DEF LinkFollowed
<1>5. \A r \in InFlight' : IsPage(r) => \A w \in Range(r.waits) : Seeks(w)
  BY <1>1, <1>3 DEF LinkFollowed
<1>6. \A w \in Range(ready') : Seeks(w) /\ Loaded(w[3])'
  <2>1. \A o \in 0 .. MaxPage : Loaded(o) => Loaded(o)'
    BY LoadedStill
  <2>. QED BY <2>1, ReadyPages DEF LinkFollowed
<1>7. selIdx' = -1 \/ Found'
  BY DEF LinkFollowed, Found, Shown
<1>8. InView /\ selIdx' = -1 => ready' # <<>> \/ \E r \in InFlight' : IsPage(r) /\ r.waits # <<>>
  BY <1>1, <1>3 DEF LinkFollowed
<1>. QED BY <1>4, <1>5, <1>6, <1>7, <1>8, Follows

LEMMA SelectFollows ==
  ASSUME TypeOK, Sound, OwnPages, LinkFollowed, file # None, link # None, SelectResumes
  PROVE  LinkFollowed'
<1>. DEFINE i == ready[1][2]  p == ready[1][3]
<1>1. /\ ready[1] \in Range(ready) /\ i \in Nat /\ p \in 0 .. MaxPage
      /\ Range(ready') \subseteq Range(ready) /\ UNCHANGED <<own, link>> /\ ready[1][1] = "select"
  BY FirstReady DEF SelectResumes
<1>2. Seeks(ready[1]) /\ Loaded(p) /\ own /\ link \in Nat \ {0}
  BY <1>1 DEF LinkFollowed
<1>3. filter = NoFilter /\ i = link - 1 /\ p = i \div PAGE
  <2>1. filter = NoFilter
    <3>. SUFFICES ASSUME filter # NoFilter PROVE FALSE
      OBVIOUS
    <3>1. ready[1] = <<"locate", link, p>>
      BY <1>2 DEF Seeks, LocateIn
    <3>. QED BY <1>1, <3>1
  <2>2. ready[1] = <<"select", link - 1, (link - 1) \div PAGE>>
    BY <1>2, <2>1 DEF Seeks, SelectAt
  <2>. QED BY <2>1, <2>2
<1>4. Shown = [n \in 1 .. Len(Shown) |-> n] /\ Len(Shown) \in Nat
  <2>1. file \in Capture /\ Len(Shown) \in Nat
    BY ViewLength
  <2>2. View[file][NoFilter] = [n \in 1 .. Len(View[file][NoFilter]) |-> n]
    BY <2>1, ViewerAssumption
  <2>. QED BY <1>3, <2>1, <2>2 DEF Shown
<1>. HIDE DEF i, p
<1>5. CASE RowAt(i) # None /\ Pick(i)
  <2>1. i + 1 \in DOMAIN Shown /\ RowAt(i) = Shown[i + 1]
    BY <1>1, <1>2, <1>5, PickWithin
  <2>2. i + 1 = link
    BY <1>2, <1>3
  <2>3. RowAt(i) = link
    BY <1>4, <2>1, <2>2
  <2>. QED BY <1>1, <1>5, <2>3, PickFollows
<1>6. CASE RowAt(i) = None /\ ~(RowAt(i) # None /\ Pick(i))
  <2>1. pages[p] # Absent
    BY <1>2 DEF Loaded, Absent
  <2>2. ready' = Tail(ready) /\ UNCHANGED <<pages, net, viewVars, selVars>>
    BY <1>6, <2>1 DEF SelectResumes, i, p
  <2>3. UNCHANGED <<file, filter, selIdx, want>> /\ InFlight' = InFlight /\ \A o \in 0 .. MaxPage : Loaded(o) => Loaded(o)'
    BY <2>2 DEF viewVars, selVars, InFlight, Loaded
  <2>4. ~InView
    <3>. SUFFICES ASSUME NEW j \in DOMAIN Shown, Shown[j] = link PROVE FALSE
      BY DEF InView
    <3>1. j = link
      BY <1>4
    <3>2. i + 1 = link
      BY <1>2, <1>3
    <3>3. i + 1 \in DOMAIN Shown
      BY <3>1, <3>2
    <3>4. RowAt(i) # None
      BY <1>1, <1>2, <1>3, <3>3, RowThere
    <3>. QED BY <1>6, <3>4
  <2>5. \A r \in InFlight' : r.kind \in {"page", "frame"}
    BY <2>3 DEF LinkFollowed
  <2>6. \A r \in InFlight' : IsPage(r) => \A w \in Range(r.waits) : Seeks(w)
    BY <2>3 DEF LinkFollowed
  <2>7. \A w \in Range(ready') : Seeks(w) /\ Loaded(w[3])'
    BY <1>1, <2>3, ReadyPages DEF LinkFollowed
  <2>8. selIdx' = -1 \/ Found'
    BY <1>1, <2>3 DEF LinkFollowed, Found, Shown
  <2>. QED BY <1>1, <2>3, <2>4, <2>5, <2>6, <2>7, <2>8, Follows
<1>. QED BY <1>5, <1>6 DEF SelectResumes, i, p

\* The link's frame is on no page before the one that was looked at, nor on that one; and
\* a page that has no number past it has a page after it which may have it.
LEMMA NotOnPage ==
  ASSUME TypeOK, OwnPages, file # None, own, NEW p \in 0 .. MaxPage, Loaded(p), link \in Nat,
         \A j \in DOMAIN Shown : j <= p * PAGE => Shown[j] # link,
         {i \in p * PAGE .. p * PAGE + PAGE - 1 : RowAt(i) = link} = {}
  PROVE  /\ \A j \in DOMAIN Shown : j <= (p + 1) * PAGE => Shown[j] # link
         /\ LocateStops(link, p) => ~InView
<1>1. PAGE \in Nat \ {0} /\ p \in Nat
  BY ViewerAssumption
<1>2. file \in Capture /\ filter \in Text /\ Shown \in Seq(Nat \ {0}) /\ Len(Shown) \in Nat
  BY ViewLength
<1>3. p * PAGE \in Nat /\ (p + 1) * PAGE = p * PAGE + PAGE
  BY <1>1, Times
<1>4. ASSUME NEW j \in DOMAIN Shown, j <= (p + 1) * PAGE, Shown[j] = link
      PROVE  FALSE
  <2>. DEFINE a == p * PAGE  i == j - 1
  <2>1. j \in Nat \ {0} /\ ~(j <= a)
    BY <1>2, <1>4
  <2>2. a \in Nat /\ j <= a + PAGE
    BY <1>3, <1>4
  <2>3. i \in a .. a + PAGE - 1 /\ i + 1 = j
    <3>. HIDE DEF a
    <3>. QED BY <1>1, <2>1, <2>2
  <2>. HIDE DEF i
  <2>4. i \in Nat /\ i \div PAGE = p
    BY <1>1, <2>3, PageOf
  <2>5. RowAt(i) = Shown[i + 1]
    BY <1>4, <2>3, <2>4, RowThere
  <2>. QED BY <1>4, <2>3, <2>5
<1>5. ASSUME LocateStops(link, p), NEW j \in DOMAIN Shown, Shown[j] = link
      PROVE  FALSE
  <2>. DEFINE a == p * PAGE  rows == PageRows(file, filter, p)  n == Len(Shown)
  <2>1. j \in Nat /\ j <= n /\ n \in Nat
    BY <1>2, <1>5
  <2>2. a \in Nat /\ (p + 1) * PAGE = a + PAGE
    BY <1>3
  <2>3. ~(j <= (p + 1) * PAGE)
    BY <1>4, <1>5
  <2>4. /\ Len(rows) \in 0 .. PAGE /\ (a <= n /\ Len(rows) < PAGE => a + Len(rows) = n)
        /\ rows \in Seq(Nat \ {0})
        /\ \A o \in 1 .. Len(rows) : a + o \in 1 .. n /\ rows[o] = Shown[a + o]
    <3>1. LET all == Len(View[file][filter]) IN
          /\ rows \in Seq(Nat \ {0})
          /\ Len(rows) \in 0 .. PAGE
          /\ a <= all /\ Len(rows) < PAGE => a + Len(rows) = all
          /\ \A o \in 1 .. Len(rows) : a + o \in 1 .. all /\ rows[o] = View[file][filter][a + o]
      BY <1>1, <1>2, PageRowsRight
    <3>. QED BY <3>1 DEF Shown
  <2>5. pages[p].rows = rows
    BY DEF OwnPages
  <2>. HIDE DEF a, rows, n
  <2>6. Len(rows) = PAGE
    BY <1>1, <2>1, <2>2, <2>3, <2>4
  <2>7. Last(rows) = Shown[a + PAGE] /\ a + PAGE \in DOMAIN Shown /\ a + PAGE < j
    <3>1. PAGE \in 1 .. Len(rows)
      BY <1>1, <2>6
    <3>2. Last(rows) = rows[PAGE]
      BY <2>6 DEF Last
    <3>3. a + PAGE \in 1 .. n /\ rows[PAGE] = Shown[a + PAGE] /\ DOMAIN Shown = 1 .. n
      BY <1>2, <2>4, <3>1 DEF n
    <3>4. a + PAGE < j
      BY <1>1, <2>1, <2>2, <2>3
    <3>. QED BY <3>2, <3>3, <3>4
  <2>8. Last(rows) > link
    BY <1>5, <2>5, <2>6 DEF LocateStops
  <2>9. Shown[a + PAGE] < Shown[j]
    <3>1. \A x, y \in DOMAIN Shown : x < y => Shown[x] < Shown[y]
      BY <1>2, ViewerAssumption DEF Text, Shown
    <3>. QED BY <1>5, <2>7, <3>1
  <2>10. Shown[a + PAGE] \in Nat
    BY <1>2, <2>7
  <2>. QED BY <1>5, <2>7, <2>8, <2>9, <2>10
<1>. QED BY <1>4, <1>5 DEF InView

LEMMA LocateFollows ==
  ASSUME TypeOK, Sound, OwnPages, LinkFollowed, file # None, link # None, LocateResumes
  PROVE  LinkFollowed'
<1>. DEFINE num == ready[1][2]  p == ready[1][3]  w == LocateIn(num, p + 1)
            hits == {i \in p * PAGE .. p * PAGE + PAGE - 1 : RowAt(i) = num}
<1>1. /\ ready[1] \in Range(ready) /\ num \in Nat /\ p \in 0 .. MaxPage /\ Tail(ready) \in Seq(Waiter)
      /\ Range(Tail(ready)) \subseteq Range(ready) /\ UNCHANGED <<own, link>> /\ ready[1][1] = "locate"
  BY FirstReady DEF LocateResumes
<1>2. Seeks(ready[1]) /\ Loaded(p) /\ own /\ link \in Nat \ {0}
  BY <1>1 DEF LinkFollowed
<1>3. /\ filter # NoFilter /\ num = link
      /\ \A j \in DOMAIN Shown : j <= p * PAGE => Shown[j] # link
  <2>1. filter # NoFilter
    <3>. SUFFICES ASSUME filter = NoFilter PROVE FALSE
      OBVIOUS
    <3>1. ready[1] = <<"select", link - 1, (link - 1) \div PAGE>>
      BY <1>2 DEF Seeks, SelectAt
    <3>. QED BY <1>1, <3>1
  <2>2. ready[1] = <<"locate", link, p>>
    BY <1>2, <2>1 DEF Seeks, LocateIn
  <2>3. \A j \in DOMAIN Shown : j <= p * PAGE => Shown[j] # link
    BY <1>2, <2>1 DEF Seeks
  <2>. QED BY <2>1, <2>2, <2>3
<1>4. ASSUME hits = {}
      PROVE  /\ \A j \in DOMAIN Shown : j <= (p + 1) * PAGE => Shown[j] # link
             /\ LocateStops(num, p) => ~InView
  <2>. HIDE DEF num, p
  <2>. QED BY <1>1, <1>2, <1>3, <1>4, NotOnPage
<1>5. ASSUME hits = {}, p < MaxPage
      PROVE  /\ p + 1 \in 0 .. MaxPage /\ w \in Waiter /\ w[3] = p + 1 /\ Seeks(w)
             /\ <<w>> \in Seq(Waiter) /\ Range(<<w>>) = {w} /\ <<w>> # <<>>
  <2>1. p + 1 \in 0 .. MaxPage
    BY <1>1, <1>5, ViewerAssumption
  <2>2. w \in Waiter /\ w[3] = p + 1
    BY <1>1, <2>1 DEF LocateIn, Waiter
  <2>3. Seeks(w)
    <3>1. w = LocateIn(link, w[3])
      BY <1>3, <2>2
    <3>2. \A j \in DOMAIN Shown : j <= w[3] * PAGE => Shown[j] # link
      BY <1>4, <1>5, <2>2
    <3>. QED BY <1>3, <3>1, <3>2 DEF Seeks
  <2>. HIDE DEF w
  <2>. QED BY <2>1, <2>2, <2>3, OneWaiter
\* Nothing is asked for: the page is the last to look at, or the next is there.
<1>6. ASSUME NEW rest \in Seq(Waiter), ready' = rest, \A x \in Range(rest) : Seeks(x) /\ Loaded(x[3]),
             InView => rest # <<>>, UNCHANGED <<pages, net>>, UNCHANGED <<viewVars, selVars, seenVars>>
      PROVE  LinkFollowed'
  <2>1. UNCHANGED <<file, filter, selIdx, want>> /\ InFlight' = InFlight /\ \A o : Loaded(o) => Loaded(o)'
    BY <1>6 DEF viewVars, selVars, InFlight, Loaded
  <2>2. \A r \in InFlight' : r.kind \in {"page", "frame"}
    BY <2>1 DEF LinkFollowed
  <2>3. \A r \in InFlight' : IsPage(r) => \A x \in Range(r.waits) : Seeks(x)
    BY <2>1 DEF LinkFollowed
  <2>4. \A x \in Range(ready') : Seeks(x) /\ Loaded(x[3])'
    BY <1>6, <2>1
  <2>5. selIdx' = -1 \/ Found'
    BY <1>1, <2>1 DEF LinkFollowed, Found, Shown
  <2>6. InView /\ selIdx' = -1 => ready' # <<>> \/ \E r \in InFlight' : IsPage(r) /\ r.waits # <<>>
    BY <1>6
  <2>. QED BY <1>1, <2>1, <2>2, <2>3, <2>4, <2>5, <2>6, Follows
<1>7. CASE ready' = Tail(ready) /\ \E i \in hits : Pick(i)
  <2>1. PICK i \in hits : Pick(i)
    BY <1>7
  <2>2. i \in Nat /\ RowAt(i) # None /\ RowAt(i) = link
    BY <1>1, <1>3, <2>1, LocateHits
  <2>. QED BY <1>1, <1>7, <2>1, <2>2, PickFollows
<1>8. CASE /\ hits = {} /\ LocateStops(num, p) /\ ready' = Tail(ready)
           /\ UNCHANGED <<viewVars, pages, selVars, seenVars, net>>
  <2>1. ~InView
    BY <1>4, <1>8
  <2>2. \A x \in Range(Tail(ready)) : Seeks(x) /\ Loaded(x[3])
    BY <1>1 DEF LinkFollowed
  <2>. QED BY <1>1, <1>6, <1>8, <2>1, <2>2
<1>9. CASE /\ hits = {} /\ p < MaxPage /\ Loaded(p + 1) /\ ready' = <<w>> \o Tail(ready)
           /\ UNCHANGED <<pages, net>> /\ UNCHANGED <<viewVars, selVars, seenVars>>
  <2>. DEFINE one == <<w>>  left == Tail(ready)
  <2>1. one \in Seq(Waiter) /\ left \in Seq(Waiter) /\ Range(one) = {w} /\ ready' = one \o left /\ Len(one) = 1
    BY <1>1, <1>5, <1>9
  <2>2. \A x \in Range(left) : Seeks(x) /\ Loaded(x[3])
    BY <1>1 DEF LinkFollowed
  <2>. HIDE DEF one, left
  <2>3. one \o left \in Seq(Waiter) /\ Range(one \o left) = {w} \cup Range(left)
    BY <2>1, RangeOfJoined
  <2>4. one \o left # <<>>
    <3>1. Len(one \o left) # 0
      BY <2>1
    <3>. QED BY <3>1
  <2>5. Seeks(w) /\ Loaded(w[3])
    BY <1>5, <1>9
  <2>. HIDE DEF w
  <2>6. \A x \in Range(one \o left) : Seeks(x) /\ Loaded(x[3])
    BY <2>2, <2>3, <2>5
  <2>7. UNCHANGED <<pages, net>> /\ UNCHANGED <<viewVars, selVars, seenVars>>
    BY <1>9
  <2>. QED BY <1>6, <2>1, <2>3, <2>4, <2>6, <2>7
<1>10. CASE /\ hits = {} /\ p < MaxPage /\ pages[p + 1] = Pending /\ net' = Await(p + 1, w) /\ ready' = Tail(ready)
            /\ UNCHANGED pages /\ UNCHANGED <<viewVars, selVars, seenVars>>
  <2>. DEFINE q == p + 1
  <2>1. /\ q \in 0 .. MaxPage /\ pages[q] = Pending /\ w \in Waiter /\ Seeks(w)
        /\ net' = Await(q, w)
    BY <1>5, <1>10
  <2>2. UNCHANGED <<file, filter, selIdx, want, pages>>
    BY <1>10 DEF viewVars, selVars
  <2>. HIDE DEF q, w
  <2>3. PICK r \in InFlight :
          LET more == PageReq(r.file, r.filter, q, Append(r.waits, w)) IN
          /\ IsPage(r) /\ r.page = q
          /\ InFlight' \subseteq InFlight \cup {more} /\ more \in InFlight'
    BY <2>1, Awaited DEF InFlight
  <2>. DEFINE more == PageReq(r.file, r.filter, q, Append(r.waits, w))
  <2>4. r.waits \in Seq(Waiter) /\ \A x \in Range(r.waits) : Seeks(x)
    <3>1. r \in Request
      BY RangeOf DEF InFlight, TypeOK
    <3>. QED BY <2>3, <3>1, RequestFields DEF LinkFollowed, IsPage
  <2>5. /\ Range(Append(r.waits, w)) = Range(r.waits) \cup {w}
        /\ Append(r.waits, w) # <<>>
    <3>. DEFINE ws == r.waits
    <3>1. ws \in Seq(Waiter)
      BY <2>4
    <3>. HIDE DEF ws
    <3>2. w \in Waiter
      BY <2>1
    <3>3. Append(ws, w) \in Seq(Waiter) /\ Range(Append(ws, w)) = Range(ws) \cup {w}
      BY <3>1, <3>2, RangeOfAppended
    <3>4. Range(Append(ws, w)) # {}
      BY <3>3
    <3>5. Append(ws, w) # <<>>
      BY <3>4, NoWaiter
    <3>. QED BY <3>3, <3>5 DEF ws
  <2>6. more.kind = "page" /\ more.waits = Append(r.waits, w)
    BY DEF PageReq
  <2>7. InFlight' \subseteq InFlight \cup {more} /\ more \in InFlight'
    BY <2>3
  <2>. HIDE DEF more
  <2>8. \A x \in InFlight' : x.kind \in {"page", "frame"}
    BY <2>6, <2>7 DEF LinkFollowed
  <2>9. \A x \in InFlight' : IsPage(x) => \A y \in Range(x.waits) : Seeks(y)
    BY <2>1, <2>4, <2>5, <2>6, <2>7 DEF LinkFollowed
  <2>10. \A x \in Range(ready') : Seeks(x) /\ Loaded(x[3])'
    <3>1. Range(ready') \subseteq Range(ready)
      BY <1>1, <1>10
    <3>. QED BY <2>2, <3>1 DEF LinkFollowed, Loaded
  <2>11. selIdx' = -1 \/ Found'
    BY <1>1, <2>2 DEF LinkFollowed, Found, Shown
  <2>12. \E x \in InFlight' : IsPage(x) /\ x.waits # <<>>
    BY <2>5, <2>6, <2>7 DEF IsPage
  <2>. QED BY <1>1, <2>2, <2>8, <2>9, <2>10, <2>11, <2>12, Follows
<1>11. CASE /\ hits = {} /\ p < MaxPage /\ pages[p + 1] = Absent /\ pages' = [pages EXCEPT ![p + 1] = Pending]
            /\ net' = Append(net, PageReq(file, filter, p + 1, <<w>>)) /\ ready' = Tail(ready)
            /\ UNCHANGED <<viewVars, selVars, seenVars>>
  <2>. DEFINE q == p + 1  ws == <<w>>
  <2>1. /\ q \in 0 .. MaxPage /\ ws \in Seq(Waiter) /\ ws # <<>> /\ \A x \in Range(ws) : Seeks(x)
        /\ pages[q] = Absent /\ pages' = [pages EXCEPT ![q] = Pending]
        /\ net' = Append(net, PageReq(file, filter, q, ws))
    BY <1>5, <1>11
  <2>2. UNCHANGED <<file, filter, own, link, selIdx, want>> /\ Range(ready') \subseteq Range(ready)
    BY <1>1, <1>11 DEF viewVars, selVars
  <2>. HIDE DEF q, ws
  <2>. QED BY <2>1, <2>2, FetchFollows
<1>. QED BY <1>7, <1>8, <1>9, <1>10, <1>11 DEF LocateResumes

\* What waited for a page is ready when it arrives.
LEMMA ArrivesFollows ==
  ASSUME TypeOK, Sound, LinkFollowed, file # None, link # None, NEW k \in 1 .. Len(net),
         PageArrives(k) \/ FrameArrives(k)
  PROVE  LinkFollowed'
<1>. DEFINE r == net[k]
<1>1. /\ UNCHANGED <<file, filter, own, selIdx, want>> /\ r \in InFlight /\ r \in Request
      /\ InFlight' \subseteq InFlight /\ InFlight \subseteq InFlight' \cup {r}
  BY AnswerKeeps, Removed
<1>2. link' = link /\ ready = <<>>
  BY DEF PageArrives, FrameArrives, Idle
<1>3. \A x \in InFlight' : x.kind \in {"page", "frame"}
  BY <1>1 DEF LinkFollowed
<1>4. \A x \in InFlight' : IsPage(x) => \A w \in Range(x.waits) : Seeks(w)
  BY <1>1 DEF LinkFollowed
<1>5. selIdx' = -1 \/ Found'
  BY <1>1, <1>2 DEF LinkFollowed, Found, Shown
<1>6. CASE PageArrives(k)
  <2>. DEFINE rows == PageRows(r.file, r.filter, r.page)
  <2>1. IsPage(r) /\ r.page \in 0 .. MaxPage /\ ready' = r.waits /\ pages' = [pages EXCEPT ![r.page] = Got(rows)]
    BY <1>1, <1>6, RequestFields DEF PageArrives, IsPage
  <2>. HIDE DEF r, rows
  <2>2. \A o : o = r.page => Loaded(o)'
    <3>1. pages \in PagesType
      BY DEF TypeOK, PagesType
    <3>. QED BY <2>1, <3>1 DEF PagesType, Loaded, Got
  <2>3. \A w \in Range(ready') : Seeks(w) /\ Loaded(w[3])'
    BY <1>1, <2>1, <2>2 DEF LinkFollowed, Sound, SoundRequest
  <2>4. InView /\ selIdx' = -1 => ready' # <<>> \/ \E x \in InFlight' : IsPage(x) /\ x.waits # <<>>
    BY <1>1, <1>2, <2>1 DEF LinkFollowed
  <2>. QED BY <1>1, <1>2, <1>3, <1>4, <1>5, <2>3, <2>4, Follows
<1>7. CASE FrameArrives(k)
  <2>1. ready' = <<>> /\ ~IsPage(r)
    BY <1>2, <1>7 DEF FrameArrives, IsPage
  <2>2. \A w \in Range(ready') : Seeks(w) /\ Loaded(w[3])'
    BY <2>1, NoWaiter
  <2>3. InView /\ selIdx' = -1 => ready' # <<>> \/ \E x \in InFlight' : IsPage(x) /\ x.waits # <<>>
    BY <1>1, <1>2, <2>1 DEF LinkFollowed
  <2>. QED BY <1>1, <1>2, <1>3, <1>4, <1>5, <2>2, <2>3, Follows
<1>. QED BY <1>6, <1>7

\* The capture of the link is opened, and its frame looked for.
LEMMA OpenedFollows ==
  ASSUME TypeOK, Sound, LinkFollowed, file = None, link # None, NEW k \in 1 .. Len(net), Opened(k)
  PROVE  LinkFollowed'
<1>1. PICK f \in Capture, q \in Text : net = <<StatusReq(f, q, link)>>
  BY DEF LinkFollowed
<1>2. k = 1 /\ net[k] = StatusReq(f, q, link)
  BY <1>1
<1>. DEFINE s == net[k]  others == RemoveAt(net, k)  w == LinkWaiter(s.filter, s.num)
            page == PageReq(s.file, s.filter, LinkPage(s.filter, s.num), <<w>>)
<1>3. s.file = f /\ s.filter = q /\ s.num = link /\ link \in Nat \ {0}
  BY <1>2 DEF StatusReq, LinkFollowed
<1>4. others \in Seq(Request) /\ Len(others) = 0
  <2>1. net \in Seq(Request) /\ Len(net) = 1
    BY <1>1 DEF TypeOK
  <2>2. Len(others) = Len(net) - 1 /\ others \in Seq(Request)
    BY <2>1, RangeOfRemoved
  <2>. QED BY <2>1, <2>2
<1>5. others = <<>> /\ Range(others) = {}
  BY <1>4, NoWaiter
<1>6. s.num \in Linked /\ InFlight' = {page}
  <2>1. s.num \in Linked /\ (s.num = 0 \/ InFlight' = Range(others) \cup {page})
    BY Opening
  <2>. QED BY <1>3, <1>5, <2>1
<1>7. w \in Waiter
  <2>1. s.num \in Linked \ {0} /\ s.filter \in Text
    BY <1>3, <1>6
  <2>. HIDE DEF s
  <2>. QED BY <2>1, LinkTyped
<1>8. /\ file' = f /\ filter' = q /\ selIdx' = -1 /\ ready' = <<>> /\ link' = link
      /\ own' = ~\E j \in DOMAIN others : others[j].kind = "page"
  BY <1>3 DEF Opened, Rewind, Idle
<1>9. own'
  <2>1. DOMAIN others = {}
    BY <1>4
  <2>. QED BY <1>8, <2>1
<1>10. page.kind = "page" /\ page.waits = <<w>>
  BY DEF PageReq
<1>11. Range(<<w>>) = {w} /\ <<w>> # <<>>
  BY <1>7, OneWaiter
<1>12. \A x : x = w => Seeks(x)'
  <2>1. CASE q = NoFilter
    BY <1>3, <1>8, <2>1 DEF Seeks, LinkWaiter
  <2>2. CASE q # NoFilter
    <3>1. w = LocateIn(link, 0) /\ w[3] = 0
      BY <1>3, <2>2 DEF LinkWaiter, LocateIn
    <3>2. View[f][q] \in Seq(Nat \ {0}) /\ PAGE \in Nat
      BY ViewerAssumption DEF Text
    <3>3. \A j \in DOMAIN View[f][q] : ~(j <= 0 * PAGE)
      BY <3>2
    <3>4. Shown' = View[f][q]
      BY <1>8 DEF Shown
    <3>. QED BY <1>8, <2>2, <3>1, <3>3, <3>4 DEF Seeks
  <2>. QED BY <2>1, <2>2
<1>13. f # None
  BY ViewerAssumption
<1>. HIDE DEF page, w, s, others
<1>14. Range(ready') = {}
  BY <1>8, NoWaiter
<1>. QED BY <1>3, <1>6, <1>8, <1>9, <1>10, <1>11, <1>12, <1>13, <1>14 DEF LinkFollowed, IsPage

LEMMA FollowedNext == TypeOK /\ Sound /\ OwnPages /\ LinkFollowed /\ [Next]_vars => LinkFollowed'
<1>. SUFFICES ASSUME TypeOK, Sound, OwnPages, LinkFollowed, [Next]_vars, link' # None
              PROVE  LinkFollowed'
  BY DEF LinkFollowed
<1>1. ASSUME file = None, link # None
      PROVE  /\ ready = <<>> /\ Len(net) = 1 /\ \A k \in 1 .. Len(net) : net[k].kind = "status"
  <2>1. PICK f \in Capture, q \in Text : ready = <<>> /\ net = <<StatusReq(f, q, link)>>
    BY <1>1 DEF LinkFollowed
  <2>2. StatusReq(f, q, link).kind = "status"
    BY DEF StatusReq
  <2>. QED BY <2>1, <2>2
<1>2. ASSUME file # None, link # None
      PROVE  \A k \in 1 .. Len(net) : net[k].kind \in {"page", "frame"}
  BY <1>2, Removed DEF LinkFollowed
<1>3. CASE \E p \in 0 .. MaxPage : Draw(p)
  <2>1. PICK p \in 0 .. MaxPage : Draw(p)
    BY <1>3
  <2>2. /\ file # None /\ pages[p] = Absent /\ UNCHANGED <<file, filter, own, link, selIdx, want, ready>>
        /\ net' = Append(net, PageReq(file, filter, p, <<>>)) /\ pages' = [pages EXCEPT ![p] = Pending]
    BY <2>1 DEF Draw, viewVars, selVars
  <2>3. \A w \in Range(<<>>) : Seeks(w)
    BY NoWaiter
  <2>4. Range(ready') \subseteq Range(ready)
    BY <2>2
  <2>. QED BY <2>2, <2>3, <2>4, NoWaiter, FetchFollows
<1>4. CASE \E f \in Capture, q \in Text \ BadQuery, n \in Linked : Open(f, q, n)
  <2>1. PICK f \in Capture, q \in Text, n \in Linked : Open(f, q, n)
    BY <1>4
  <2>2. net = <<>> /\ n > 0 /\ link' = n /\ file' = None /\ ready' = <<>> /\ net' = Append(net, StatusReq(f, q, n))
    BY <2>1 DEF Open, UserActs, Idle, viewVars
  <2>3. net' = <<StatusReq(f, q, link')>> /\ link' \in Nat \ {0}
    BY <2>2, ViewerAssumption
  <2>. QED BY <2>2, <2>3 DEF LinkFollowed
<1>5. CASE SelectResumes
  <2>1. file # None /\ link # None
    BY <1>1, <1>5 DEF SelectResumes
  <2>. QED BY <1>5, <2>1, SelectFollows
<1>6. CASE LocateResumes
  <2>1. file # None /\ link # None
    BY <1>1, <1>6 DEF LocateResumes
  <2>. QED BY <1>6, <2>1, LocateFollows
<1>7. ASSUME NEW k \in 1 .. Len(net), PageArrives(k) \/ FrameArrives(k)
      PROVE  LinkFollowed'
  <2>1. link # None
    BY <1>7 DEF PageArrives, FrameArrives
  <2>2. file # None
    BY <1>1, <1>7, <2>1 DEF PageArrives, FrameArrives
  <2>. QED BY <1>7, <2>1, <2>2, ArrivesFollows
<1>8. ASSUME NEW k \in 1 .. Len(net), Opened(k)
      PROVE  LinkFollowed'
  <2>1. link # None
    BY <1>8 DEF Opened
  <2>2. file = None
    BY <1>2, <1>8, <2>1 DEF Opened
  <2>. QED BY <1>8, <2>1, <2>2, OpenedFollows
<1>9. ASSUME NEW k \in 1 .. Len(net), Compiled(k) \/ NotCompiled(k)
      PROVE  FALSE
  <2>1. link # None /\ net[k].kind = "check"
    BY <1>9 DEF Compiled, NotCompiled
  <2>. QED BY <1>1, <1>2, <2>1
<1>10. CASE UNCHANGED vars
  <2>1. /\ UNCHANGED <<file, filter, own, link, selIdx, want, ready, pages, net>>
    BY <1>10 DEF vars, viewVars, selVars
  <2>. QED BY <2>1 DEF LinkFollowed, InFlight, Found, InView, Seeks, Shown, Loaded, IsPage
<1>11. ~ \E k \in 1 .. Len(net) : PageFails(k) \/ FrameFails(k) \/ OpenFails(k)
  BY DEF PageFails, FrameFails, OpenFails
<1>12. /\ ~ \E i \in 0 .. (MaxPage + 1) * PAGE - 1 : Select(i)
       /\ ~ \E q \in Text : Submit(q)
       /\ ~Back /\ ~Pop
  BY DEF Select, Submit, Back, Pop, Deselect
<1>. QED BY <1>3, <1>4, <1>5, <1>6, <1>7, <1>8, <1>9, <1>10, <1>11, <1>12 DEF Next, User, Answer

\* A link opens its capture at its frame if its view has that frame, and at no frame if
\* not - for any view, on whichever page the frame is and in whatever order the pages
\* around it are asked for and arrive (openCapture, select, locate).
THEOREM SpecLinkFound == Spec => []LinkFound
<1>1. Init => LinkFollowed
  BY DEF Init, LinkFollowed
<1>2. TypeOK /\ LinkFollowed => LinkFound
  <2>. SUFFICES ASSUME TypeOK, LinkFollowed, link # None, file # None, Settled
                PROVE  IF \E i \in DOMAIN Shown : Shown[i] = link
                       THEN selIdx >= 0 /\ want = link /\ Shown[selIdx + 1] = link
                       ELSE selIdx = -1
    BY DEF LinkFound, Shown
  <2>1. InFlight = {} /\ ready = <<>>
    BY NoWaiter DEF Settled, InFlight
  <2>2. selIdx \in Nat \cup {-1}
    BY DEF TypeOK
  <2>3. (selIdx = -1 \/ Found) /\ ~(InView /\ selIdx = -1)
    BY <2>1 DEF LinkFollowed
  <2>. QED BY <2>2, <2>3 DEF Found, InView
<1>. QED BY <1>1, <1>2, FollowedNext, SpecCounted, PTL DEF Spec

=============================================================================

-------------------------- MODULE CaptureListProofs --------------------------
(***************************************************************************)
(* What CaptureList keeps, for any captures, boxes, times and protocols,   *)
(* and any number of things done to the list: it agrees with itself, and   *)
(* no capture's protocols are forgotten about.                             *)
(***************************************************************************)
EXTENDS CaptureList, FiniteSetTheorems, SequenceTheorems, TLAPS

Request == [kind : {"list"}, saw : SUBSET SUBSET Capture] \cup [kind : {"status"}, names : SUBSET Capture]

\* No scan is of a run that has not begun, and the one that is going on is of captures
\* that are listed.
Begun ==
  \A l \in loops :
    /\ l.gen <= scanning
    /\ l.gen = scanning => l.asked \in caps /\ Range(l.rest) \subseteq caps

IInv == Coherent /\ Begun /\ NoneForgotten

----------------------------------------------------------------------------
(* The operators.                                                          *)

LEMMA RequestsRemoved ==
  ASSUME NEW S, NEW s \in Seq(S), NEW k \in DOMAIN s
  PROVE  RemoveAt(s, k) \in Seq(S)
<1>1. k \in 1 .. Len(s)
  OBVIOUS
<1>2. SubSeq(s, 1, k - 1) \in Seq(S) /\ SubSeq(s, k + 1, Len(s)) \in Seq(S)
  BY <1>1
<1>. QED BY <1>2 DEF RemoveAt

\* The rows are a sequence of captures that are listed.
LEMMA RowsTyped ==
  ASSUME NEW cs \in SUBSET Capture, NEW read \in SUBSET cs, NEW box \in Box
  PROVE  /\ Filed(cs, read, box) \in Seq([name : Capture, verdict : {"maybe", "yes"}])
         /\ \A i \in DOMAIN Filed(cs, read, box) : Filed(cs, read, box)[i].name \in cs
<1>. DEFINE left == {c \in cs : Verdicts[box][c][(c \in read)] # "no"}
            rows == InOrder[left]
<1>1. left \subseteq cs /\ left \in SUBSET Capture
  OBVIOUS
<1>. HIDE DEF left
<1>2. rows \in Seq(Capture) /\ Range(rows) = left
  BY <1>1, CaptureListAssumption
<1>3. DOMAIN rows = 1 .. Len(rows) /\ \A i \in DOMAIN rows : rows[i] \in left /\ rows[i] \in Capture
  BY <1>2 DEF Range
<1>. HIDE DEF rows
<1>4. Filed(cs, read, box) =
        [i \in DOMAIN rows |->
          [name |-> rows[i], verdict |-> Verdicts[box][rows[i]][(rows[i] \in read)]]]
  BY DEF Filed, rows, left
<1>8. \A c \in left : Verdicts[box][c][(c \in read)] \in {"maybe", "yes"}
  <2>. TAKE c \in left
  <2>1. Verdicts[box][c][(c \in read)] # "no" /\ c \in Capture
    BY <1>1 DEF left
  <2>2. \A b \in BOOLEAN : Verdicts[box][c][b] = Matches(c, b, ParseFind(box))
    BY <2>1 DEF Verdicts
  <2>3. \A b \in BOOLEAN : Matches(c, b, ParseFind(box)) \in {"no", "maybe", "yes"}
    BY DEF Matches
  <2>4. \A b \in BOOLEAN : Verdicts[box][c][b] \in {"no", "maybe", "yes"}
    BY <2>2, <2>3
  <2>5. (c \in read) \in BOOLEAN
    OBVIOUS
  <2>6. Verdicts[box][c][(c \in read)] \in {"no", "maybe", "yes"}
    BY <2>4, <2>5, Zenon
  <2>. QED BY <2>1, <2>6
<1>5. \A i \in DOMAIN rows :
        /\ Filed(cs, read, box)[i] \in [name : Capture, verdict : {"maybe", "yes"}]
        /\ Filed(cs, read, box)[i].name \in cs
  BY <1>1, <1>3, <1>4, <1>8
<1>6. /\ DOMAIN Filed(cs, read, box) = 1 .. Len(rows) /\ Len(rows) \in Nat
      /\ Filed(cs, read, box) = [i \in 1 .. Len(rows) |-> Filed(cs, read, box)[i]]
  BY <1>2, <1>3, <1>4
<1>. HIDE DEF Filed
<1>7. Filed(cs, read, box) \in [1 .. Len(rows) -> [name : Capture, verdict : {"maybe", "yes"}]]
  BY <1>3, <1>5, <1>6
<1>. QED BY <1>3, <1>5, <1>6, <1>7, SeqDef

\* A run takes the first capture it has left, and keeps the rest.
LEMMA ScansTyped ==
  ASSUME NEW gen \in Nat, NEW rest \in Seq(Capture)
  PROVE  /\ Scans(gen, rest) \subseteq [gen : Nat, asked : Capture, rest : Seq(Capture)]
         /\ \A l \in Scans(gen, rest) :
              l.gen = gen /\ l.asked \in Range(rest) /\ Range(l.rest) \subseteq Range(rest)
         /\ ~file => \A c \in Range(rest) :
              \E l \in Scans(gen, rest) : c \in {l.asked} \cup Range(l.rest)
<1>1. CASE rest = <<>>
  BY <1>1 DEF Scans, Range
<1>2. CASE rest # <<>>
  <2>1. Head(rest) \in Capture /\ Tail(rest) \in Seq(Capture)
    BY <1>2
  <2>2. \A c \in Range(rest) : c \in {Head(rest)} \cup Range(Tail(rest))
    <3>. TAKE c \in Range(rest)
    <3>1. PICK i \in 1 .. Len(rest) : c = rest[i]
      BY DEF Range
    <3>2. CASE i = 1
      BY <3>1, <3>2, <1>2
    <3>3. CASE i # 1
      <4>1. i - 1 \in DOMAIN Tail(rest) /\ Tail(rest)[i - 1] = rest[i]
        BY <3>1, <3>3, <1>2, HeadTailProperties
      <4>. QED BY <3>1, <4>1 DEF Range
    <3>. QED BY <3>2, <3>3
  <2>5. Head(rest) \in Range(rest) /\ Range(Tail(rest)) \subseteq Range(rest)
    <3>1. 1 \in DOMAIN rest /\ Head(rest) = rest[1]
      BY <1>2
    <3>2. \A i \in DOMAIN Tail(rest) : i + 1 \in DOMAIN rest /\ Tail(rest)[i] = rest[i + 1]
      BY <1>2, HeadTailProperties
    <3>. QED BY <3>1, <3>2 DEF Range
  <2>3. CASE file
    BY <2>3 DEF Scans
  <2>4. CASE ~file
    <3>. DEFINE l == [gen |-> gen, asked |-> Head(rest), rest |-> Tail(rest)]
    <3>1. Scans(gen, rest) = {l}
      BY <1>2, <2>4 DEF Scans
    <3>2. l \in [gen : Nat, asked : Capture, rest : Seq(Capture)]
      BY <2>1
    <3>4. l.asked \in Range(rest) /\ Range(l.rest) \subseteq Range(rest)
      BY <2>5
    <3>3. l.gen = gen /\ \A c \in Range(rest) : c \in {l.asked} \cup Range(l.rest)
      BY <2>2
    <3>. HIDE DEF l
    <3>. QED BY <3>1, <3>2, <3>3, <3>4
  <2>. QED BY <2>3, <2>4
<1>. QED BY <1>1, <1>2

----------------------------------------------------------------------------
(* The steps that leave the listing and the box alone.                     *)

\* Nothing is forgotten by a step that does not come back to the list, nor take a listing
\* off its way, if what it picks is on the list.
LEMMA ListLeft ==
  ASSUME IInv, UNCHANGED <<listVars, find>>,
         file' \in BOOLEAN, picked' \subseteq picked \cup caps, anchor' \in Nat, press' \in Nat,
         net' \in Seq(Request), dir' \subseteq Capture, sending' \in Seq(Capture),
         acts' \in 0 .. MaxActs, dirs' \in 0 .. MaxDir,
         file' \/ Listing' \/ (~file /\ ~Listing)
  PROVE  IInv'
<1>. USE DEF IInv, Coherent, listVars
<1>1. TypeOK'
  BY DEF TypeOK, Request
<1>2. FiledRight' /\ PicksListed' /\ Begun'
  BY DEF FiledRight, PicksListed, Begun
<1>3. NoneForgotten'
  BY DEF NoneForgotten
<1>. QED BY <1>1, <1>2, <1>3

LEMMA NetTyped == ASSUME IInv PROVE net \in Seq(Request)
BY DEF IInv, Coherent, TypeOK, Request

LEMMA RowsListed ==
  ASSUME IInv PROVE \A i \in DOMAIN filed : filed[i].name \in caps
BY RowsTyped DEF IInv, Coherent, TypeOK, FiledRight

LEMMA PicksKept ==
  ASSUME IInv, NEW i \in Nat, NEW through, PickRow(i, through)
  PROVE  picked' \subseteq picked \cup caps /\ anchor' \in Nat
<1>. USE DEF IInv, Coherent, TypeOK
<1>1. CASE i \notin DOMAIN filed
  BY <1>1 DEF PickRow, pickVars
<1>2. CASE i \in DOMAIN filed /\ through /\ anchor \in DOMAIN filed
  <2>. DEFINE from == IF anchor < i THEN anchor ELSE i
              to   == IF anchor < i THEN i ELSE anchor
  <2>1. picked' = picked \cup {filed[j].name : j \in from .. to} /\ anchor' = anchor
    BY <1>2 DEF PickRow
  <2>2. DOMAIN filed = 1 .. Len(filed) /\ Len(filed) \in Nat
    OBVIOUS
  <2>3. from .. to \subseteq DOMAIN filed
    BY <1>2, <2>2
  <2>. HIDE DEF from, to
  <2>. QED BY <2>1, <2>3, RowsListed
<1>3. CASE i \in DOMAIN filed /\ ~(through /\ anchor \in DOMAIN filed)
  <2>1. anchor' = i /\ picked' \subseteq picked \cup {filed[i].name}
    BY <1>3 DEF PickRow
  <2>. QED BY <1>3, <2>1, RowsListed
<1>. QED BY <1>1, <1>2, <1>3

\* A request goes out.
LEMMA RequestOut ==
  ASSUME IInv, NEW r \in Request, net' = Append(net, r)
  PROVE  /\ net' \in Seq(Request)
         /\ Listing => Listing'
         /\ r.kind = "list" => Listing'
<1>1. net \in Seq(Request) /\ net' \in Seq(Request)
  BY NetTyped
<1>2. /\ DOMAIN net' = 1 .. Len(net) + 1 /\ DOMAIN net = 1 .. Len(net) /\ Len(net) \in Nat
      /\ \A k \in DOMAIN net : net'[k] = net[k]
      /\ net'[Len(net) + 1] = r
  BY <1>1
<1>. QED BY <1>1, <1>2 DEF Listing

LEMMA ClicksKept ==
  ASSUME IInv, NEW i \in Nat, NEW mods, RowClicked(i, mods)
  PROVE  /\ picked' \subseteq picked \cup caps /\ anchor' \in Nat
         /\ net' \in Seq(Request) /\ (Listing => Listing')
<1>1. CASE net' = net /\ \E through \in BOOLEAN : PickRow(i, through)
  BY <1>1, PicksKept, NetTyped DEF Listing
<1>2. CASE i \in DOMAIN filed /\ OpenCapture({filed[i].name}) /\ UNCHANGED pickVars
  <2>1. StatusReq({filed[i].name}) \in Request
    BY <1>2, RowsListed DEF StatusReq, Request, IInv, Coherent, TypeOK
  <2>. QED
    BY <1>2, <2>1, RequestOut DEF OpenCapture, pickVars, IInv, Coherent, TypeOK
<1>. QED BY <1>1, <1>2 DEF RowClicked

LEMMA ChangesKept ==
  ASSUME IInv, NEW d \in SUBSET Capture, Changes(d)
  PROVE  net' \in Seq(Request) /\ (Listing => Listing') /\ dir' \subseteq Capture
<1>1. net \in Seq(Request)
  BY NetTyped
<1>2. \A k \in DOMAIN net : net[k] \in Request
  BY <1>1
<1>3. DOMAIN net' = DOMAIN net /\ \A k \in DOMAIN net : net'[k].kind = net[k].kind /\ net'[k] \in Request
  BY <1>2 DEF Changes, Request
<1>4. net' \in Seq(Request)
  <2>1. net' \in [1 .. Len(net) -> Request] /\ Len(net) \in Nat
    BY <1>1, <1>3 DEF Changes
  <2>. QED BY <2>1, SeqDef
<1>. QED BY <1>3, <1>4 DEF Changes, Listing

LEMMA UserKeeps == ASSUME IInv, User, ~\E b \in Box : Find(b) PROVE IInv'
<1>. USE DEF Acts, Idles, listVars, pickVars
<1>1. /\ MaxActs \in Nat /\ acts \in 0 .. MaxActs /\ dirs \in 0 .. MaxDir /\ file \in BOOLEAN
      /\ anchor \in Nat /\ press \in Nat /\ dir \subseteq Capture /\ sending \in Seq(Capture)
      /\ picked \subseteq Capture /\ caps \subseteq Capture /\ net \in Seq(Request)
  BY CaptureListAssumption, NetTyped DEF IInv, Coherent, TypeOK
<1>11. Acts => acts' \in 0 .. MaxActs
  BY <1>1
<1>12. \A i \in 1 .. Cardinality(Capture) : i \in Nat
  <2>1. Cardinality(Capture) \in Nat
    BY CaptureListAssumption, FS_CardinalityType
  <2>. QED BY <2>1
<1>2. ASSUME NEW i \in 1 .. Cardinality(Capture), PressDown(i) PROVE IInv'
  <2>1. i \in Nat
    BY <1>12
  <2>. QED BY <1>1, <1>2, <2>1, ListLeft DEF PressDown, Listing
<1>3. ASSUME NEW i \in 1 .. Cardinality(Capture), NEW mods \in {"", "ctrl", "shift"}, Click(i, mods)
      PROVE  IInv'
  <2>1. i \in Nat
    BY <1>12
  <2>2. /\ picked' \subseteq picked \cup caps /\ anchor' \in Nat
        /\ net' \in Seq(Request) /\ (Listing => Listing')
    BY <1>3, <2>1, ClicksKept DEF Click
  <2>. QED BY <1>1, <1>11, <1>3, <2>2, ListLeft DEF Click
<1>4. CASE PressFires
  BY <1>1, <1>4, PicksKept, ListLeft DEF PressFires, Listing
<1>5. CASE LetGo
  BY <1>1, <1>5, ListLeft DEF LetGo, Listing
<1>6. CASE Tap
  BY <1>1, <1>6, ClicksKept, ListLeft DEF Tap
<1>7. CASE OpenPicked
  <2>1. StatusReq(picked) \in Request /\ net' = Append(net, StatusReq(picked))
    BY <1>1, <1>7 DEF OpenPicked, OpenCapture, StatusReq, Request
  <2>2. net' \in Seq(Request) /\ (Listing => Listing')
    BY <2>1, RequestOut
  <2>. QED BY <1>1, <1>7, <2>2, ListLeft DEF OpenPicked
<1>8. CASE PickNone
  BY <1>1, <1>8, ListLeft DEF PickNone, Listing
<1>9. CASE CloseCapture
  <2>1. ListReq(dir) \in Request /\ ListReq(dir).kind = "list" /\ net' = Append(net, ListReq(dir))
    BY <1>1, <1>9 DEF CloseCapture, Files, ListReq, Request
  <2>2. net' \in Seq(Request) /\ Listing'
    BY <2>1, RequestOut
  <2>3. acts' \in 0 .. MaxActs /\ file' = FALSE
    BY <1>11, <1>9 DEF CloseCapture, Files
  <2>. HIDE DEF Acts
  <2>. QED BY <1>1, <1>9, <2>2, <2>3, ListLeft DEF CloseCapture
<1>10. ASSUME NEW ns \in UploadSeqs, Upload(ns) PROVE IInv'
  <2>1. ns \in Seq(Capture)
    BY CaptureListAssumption
  <2>2. acts' \in 0 .. MaxActs
    BY <1>11, <1>10 DEF Upload
  <2>. HIDE DEF Acts
  <2>. QED BY <1>1, <1>10, <2>1, <2>2, ListLeft DEF Upload, Listing
<1>. QED BY <1>2, <1>3, <1>4, <1>5, <1>6, <1>7, <1>8, <1>9, <1>10 DEF User

LEMMA ServerKeeps ==
  ASSUME IInv, Directory \/ Uploaded \/ UploadFails \/ \E k \in DOMAIN net : Opened(k) \/ OpenFails(k)
  PROVE  IInv'
<1>. USE DEF listVars, pickVars
<1>1. /\ MaxDir \in Nat /\ acts \in 0 .. MaxActs /\ dirs \in 0 .. MaxDir /\ file \in BOOLEAN
      /\ anchor \in Nat /\ press \in Nat /\ dir \subseteq Capture /\ sending \in Seq(Capture)
      /\ picked \subseteq Capture /\ caps \subseteq Capture /\ net \in Seq(Request)
  BY CaptureListAssumption, NetTyped DEF IInv, Coherent, TypeOK
<1>2. CASE Directory
  <2>1. PICK d \in SUBSET Capture : Changes(d)
    BY <1>1, <1>2 DEF Directory
  <2>2. net' \in Seq(Request) /\ (Listing => Listing') /\ dir' \subseteq Capture
    BY <2>1, ChangesKept
  <2>3. dirs' \in 0 .. MaxDir
    BY <1>1, <1>2 DEF Directory
  <2>. QED BY <1>1, <1>2, <2>2, <2>3, ListLeft DEF Directory
<1>3. CASE Uploaded
  <2>1. Tail(sending) \in Seq(Capture) /\ Head(sending) \in Capture
    BY <1>1, <1>3 DEF Uploaded
  <2>2. CASE Tail(sending) # <<>>
    <3>1. Changes(dir \cup {Head(sending)}) /\ file' = file
      BY <1>3, <2>2 DEF Uploaded
    <3>2. net' \in Seq(Request) /\ (Listing => Listing') /\ dir' \subseteq Capture
      BY <1>1, <2>1, <3>1, ChangesKept
    <3>. QED BY <1>1, <1>3, <2>1, <3>1, <3>2, ListLeft DEF Uploaded
  <2>3. CASE Tail(sending) = <<>>
    <3>. DEFINE told == [k \in DOMAIN net |->
                          IF net[k].kind = "list" THEN [net[k] EXCEPT !.saw = @ \cup {dir'}]
                          ELSE net[k]]
    <3>1. dir' \subseteq Capture /\ file' = FALSE
      BY <1>1, <1>3, <2>1, <2>3 DEF Uploaded
    <3>2. told \in Seq(Request)
      <4>1. \A k \in DOMAIN net : net[k] \in Request
        BY <1>1
      <4>2. \A k \in DOMAIN net : told[k] \in Request
        BY <3>1, <4>1 DEF Request
      <4>. HIDE DEF told
      <4>3. told \in [1 .. Len(net) -> Request] /\ Len(net) \in Nat
        BY <1>1, <4>2 DEF told
      <4>. QED BY <4>3, SeqDef
    <3>3. net' = Append(told, ListReq(dir'))
      BY <1>3, <2>3 DEF Uploaded
    <3>. HIDE DEF told
    <3>4. ListReq(dir') \in Request /\ ListReq(dir').kind = "list"
      BY <3>1 DEF ListReq, Request
    <3>5. net' \in Seq(Request) /\ Listing'
      BY <3>2, <3>3, <3>4, AppendProperties DEF Listing
    <3>. QED BY <1>1, <1>3, <2>1, <3>1, <3>5, ListLeft DEF Uploaded
  <2>. QED BY <2>2, <2>3
<1>4. CASE UploadFails
  BY <1>1, <1>4, ListLeft, EmptySeq DEF UploadFails, Listing
<1>5. ASSUME NEW k \in DOMAIN net, Opened(k) PROVE IInv'
  BY <1>1, <1>5, RequestsRemoved, ListLeft DEF Opened
<1>6. ASSUME NEW k \in DOMAIN net, OpenFails(k) PROVE IInv'
  <2>1. RemoveAt(net, k) \in Seq(Request)
    BY <1>1, RequestsRemoved
  <2>2. ListReq(dir) \in Request /\ ListReq(dir).kind = "list"
    BY <1>1 DEF ListReq, Request
  <2>3. net' = Append(RemoveAt(net, k), ListReq(dir)) /\ file' = FALSE
    BY <1>6 DEF OpenFails, Files
  <2>4. net' \in Seq(Request) /\ Listing'
    BY <2>1, <2>2, <2>3, AppendProperties DEF Listing
  <2>. QED BY <1>1, <1>6, <2>3, <2>4, ListLeft DEF OpenFails
<1>. QED BY <1>2, <1>3, <1>4, <1>5, <1>6

----------------------------------------------------------------------------
(* The steps of the listing, the scans and the box.                        *)

LEMMA ListKeeps ==
  ASSUME IInv, NEW k \in DOMAIN net, ListArrives(k) \/ ListFails(k)
  PROVE  IInv'
<1>1. /\ scanning \in Nat /\ caps \subseteq Capture /\ picked \subseteq Capture
      /\ loops \subseteq [gen : Nat, asked : Capture, rest : Seq(Capture)]
      /\ net \in Seq(Request) /\ file \in BOOLEAN
  BY NetTyped DEF IInv, Coherent, TypeOK
<1>2. net' \in Seq(Request) /\ UNCHANGED <<file, find, anchor, press, dir, sending, acts, dirs>>
  BY <1>1, RequestsRemoved DEF ListArrives, ListFails
<1>3. CASE ListArrives(k)
  <2>1. caps' \subseteq Capture /\ known' \subseteq caps' /\ picked' \subseteq picked \cap caps'
    <3>1. \A s \in net[k].saw : s \subseteq Capture
      <4>1. net[k] \in Request
        BY <1>1
      <4>. QED BY <1>3, <4>1 DEF ListArrives, Request
    <3>. QED BY <1>3, <3>1 DEF ListArrives
  <2>. DEFINE left == InOrder[caps' \ known']
  <2>2. left \in Seq(Capture) /\ Range(left) = caps' \ known'
    BY <2>1, CaptureListAssumption
  <2>3. /\ scanning' = scanning + 1 /\ scanning' \in Nat /\ unscanned' = {}
        /\ loops' = loops \cup Scans(scanning', left)
        /\ filed' = Filed(caps', known', find)
    BY <1>1, <1>3 DEF ListArrives, DrawFiles
  <2>. HIDE DEF left
  <2>4. /\ Scans(scanning', left) \subseteq [gen : Nat, asked : Capture, rest : Seq(Capture)]
        /\ \A l \in Scans(scanning', left) :
             l.gen = scanning' /\ l.asked \in Range(left) /\ Range(l.rest) \subseteq Range(left)
        /\ ~file => \A c \in Range(left) :
             \E l \in Scans(scanning', left) : c \in {l.asked} \cup Range(l.rest)
    BY <2>2, <2>3, ScansTyped
  <2>5. TypeOK'
    BY <1>1, <1>2, <2>1, <2>3, <2>4, RowsTyped DEF IInv, Coherent, TypeOK, Request
  <2>6. FiledRight' /\ PicksListed'
    BY <1>2, <2>1, <2>3 DEF FiledRight, PicksListed
  <2>7. Begun'
    BY <1>1, <2>2, <2>3, <2>4 DEF IInv, Begun
  <2>8. NoneForgotten'
    BY <1>2, <2>2, <2>3, <2>4 DEF NoneForgotten
  <2>. QED BY <2>5, <2>6, <2>7, <2>8 DEF IInv, Coherent
<1>4. CASE ListFails(k)
  <2>1. /\ caps' = {} /\ known' = {} /\ picked' = {} /\ unscanned' = {} /\ loops' = loops
        /\ scanning' = scanning + 1 /\ scanning' \in Nat
        /\ filed' = Filed(caps', known', find)
    BY <1>1, <1>4 DEF ListFails, DrawFiles
  <2>2. TypeOK'
    BY <1>1, <1>2, <2>1, RowsTyped DEF IInv, Coherent, TypeOK, Request
  <2>3. FiledRight' /\ PicksListed' /\ NoneForgotten'
    BY <1>2, <2>1 DEF FiledRight, PicksListed, NoneForgotten
  <2>4. Begun'
    BY <1>1, <2>1 DEF IInv, Begun
  <2>. QED BY <2>2, <2>3, <2>4 DEF IInv, Coherent
<1>. QED BY <1>3, <1>4

LEMMA ScanKeeps ==
  ASSUME IInv, NEW l \in loops, ScanArrives(l) \/ ScanFails(l)
  PROVE  IInv'
<1>1. /\ scanning \in Nat /\ caps \subseteq Capture /\ known \subseteq caps /\ find \in Box
      /\ loops \subseteq [gen : Nat, asked : Capture, rest : Seq(Capture)]
      /\ l.gen \in Nat /\ l.asked \in Capture /\ l.rest \in Seq(Capture)
  BY DEF IInv, Coherent, TypeOK
<1>2. UNCHANGED <<file, caps, find, picked, anchor, press, scanning, net, dir, sending, acts, dirs>>
  BY DEF ScanArrives, ScanFails, pickVars
<1>3. CASE l.gen # scanning
  <2>1. loops' = loops \ {l} /\ UNCHANGED <<known, filed, unscanned>>
    BY <1>3 DEF ScanArrives, ScanFails
  <2>. QED
    BY <1>1, <1>2, <1>3, <2>1
    DEF IInv, Coherent, TypeOK, FiledRight, PicksListed, Begun, NoneForgotten, Listing
<1>4. CASE l.gen = scanning
  <2>1. /\ Scans(l.gen, l.rest) \subseteq [gen : Nat, asked : Capture, rest : Seq(Capture)]
        /\ \A m \in Scans(l.gen, l.rest) :
             m.gen = l.gen /\ m.asked \in Range(l.rest) /\ Range(m.rest) \subseteq Range(l.rest)
        /\ ~file => \A c \in Range(l.rest) :
             \E m \in Scans(l.gen, l.rest) : c \in {m.asked} \cup Range(m.rest)
    BY <1>1, ScansTyped
  <2>2. loops' = (loops \ {l}) \cup Scans(l.gen, l.rest)
    BY <1>4 DEF ScanArrives, ScanFails
  <2>3. \/ known' = known \cup {l.asked} /\ unscanned' = unscanned /\ filed' = Filed(caps, known', find)
        \/ known' = known /\ filed' = filed /\ unscanned' = unscanned \cup {l.asked}
    BY <1>4 DEF ScanArrives, ScanFails, DrawFiles
  <2>4. l.asked \in caps /\ Range(l.rest) \subseteq caps
    BY <1>4 DEF IInv, Begun
  <2>5. TypeOK'
    <3>1. known' \subseteq caps /\ filed' \in Seq([name : Capture, verdict : {"maybe", "yes"}]) /\ unscanned' \subseteq Capture
      <4>1. known' \in SUBSET caps /\ caps \in SUBSET Capture
        BY <1>1, <2>3, <2>4
      <4>2. Filed(caps, known', find) \in Seq([name : Capture, verdict : {"maybe", "yes"}])
        BY <1>1, <4>1, RowsTyped
      <4>3. filed \in Seq([name : Capture, verdict : {"maybe", "yes"}]) /\ unscanned \subseteq Capture
        BY DEF IInv, Coherent, TypeOK
      <4>. QED BY <1>1, <2>3, <4>1, <4>2, <4>3
    <3>2. loops' \subseteq [gen : Nat, asked : Capture, rest : Seq(Capture)]
      BY <1>1, <2>1, <2>2
    <3>3. sending' = sending
      BY DEF ScanArrives, ScanFails
    <3>. QED BY <1>2, <3>1, <3>2, <3>3 DEF IInv, Coherent, TypeOK
  <2>6. FiledRight' /\ PicksListed'
    BY <1>2, <2>3 DEF IInv, Coherent, FiledRight, PicksListed
  <2>7. Begun'
    BY <1>1, <1>2, <1>4, <2>1, <2>2, <2>4 DEF IInv, Begun
  <2>8. NoneForgotten'
    <3>. SUFFICES ASSUME ~file, ~Listing, NEW c \in caps \ (known' \cup unscanned')
                  PROVE  \E m \in loops' : m.gen = scanning /\ c \in {m.asked} \cup Range(m.rest)
      BY <1>2 DEF NoneForgotten, Listing
    <3>1. c \notin known /\ c \notin unscanned /\ c # l.asked
      BY <2>3
    <3>2. PICK m \in loops : m.gen = scanning /\ c \in {m.asked} \cup Range(m.rest)
      BY <3>1 DEF IInv, NoneForgotten
    <3>3. CASE m # l
      BY <2>2, <3>2, <3>3
    <3>4. CASE m = l
      BY <1>4, <2>1, <2>2, <3>1, <3>2, <3>4
    <3>. QED BY <3>3, <3>4
  <2>. QED BY <2>5, <2>6, <2>7, <2>8 DEF IInv, Coherent
<1>. QED BY <1>3, <1>4

LEMMA FindKeeps == ASSUME IInv, NEW box \in Box, Find(box) PROVE IInv'
<1>1. /\ UNCHANGED <<file, caps, known, picked, press, scanning, loops, unscanned, net, dir, sending, dirs>>
      /\ find' = box /\ anchor' = 0 /\ filed' = Filed(caps, known, box) /\ acts' \in 0 .. MaxActs
  <2>1. MaxActs \in Nat /\ acts \in 0 .. MaxActs
    BY CaptureListAssumption DEF IInv, Coherent, TypeOK
  <2>. QED BY <2>1 DEF Find, Acts, Idles, DrawFiles
<1>2. TypeOK'
  BY <1>1, RowsTyped DEF IInv, Coherent, TypeOK
<1>3. FiledRight' /\ PicksListed' /\ Begun' /\ NoneForgotten'
  BY <1>1 DEF IInv, Coherent, FiledRight, PicksListed, Begun, NoneForgotten, Listing
<1>. QED BY <1>2, <1>3 DEF IInv, Coherent

LEMMA ListBegins == Init => IInv
<1>. SUFFICES ASSUME Init PROVE IInv
  OBVIOUS
<1>. USE DEF Init
<1>1. dir \subseteq Capture /\ MaxActs \in Nat /\ MaxDir \in Nat
  BY CaptureListAssumption
<1>2. \/ picked = {} /\ net = <<ListReq(dir)>>
      \/ \E ns \in SUBSET Capture : picked \subseteq ns /\ net = <<StatusReq(ns)>>
  OBVIOUS
<1>3. picked \subseteq Capture /\ net \in Seq(Request)
  <2>1. CASE picked = {} /\ net = <<ListReq(dir)>>
    <3>1. ListReq(dir) \in Request
      BY <1>1 DEF ListReq, Request
    <3>. QED BY <2>1, <3>1
  <2>2. ASSUME NEW ns \in SUBSET Capture, picked \subseteq ns, net = <<StatusReq(ns)>>
        PROVE  picked \subseteq Capture /\ net \in Seq(Request)
    <3>1. StatusReq(ns) \in Request
      BY DEF StatusReq, Request
    <3>. QED BY <2>2, <3>1
  <2>. QED BY <1>2, <2>1, <2>2
<1>4. filed = Filed({}, {}, find)
  <2>1. Filed({}, {}, find) \in Seq([name : Capture, verdict : {"maybe", "yes"}])
    BY RowsTyped
  <2>2. DOMAIN Filed({}, {}, find) = {}
    BY RowsTyped
  <2>. QED BY <2>1, <2>2
<1>5. TypeOK
  <2>1. filed \in Seq([name : Capture, verdict : {"maybe", "yes"}]) /\ sending \in Seq(Capture)
    BY EmptySeq
  <2>2. net \in Seq([kind : {"list"}, saw : SUBSET SUBSET Capture] \cup [kind : {"status"}, names : SUBSET Capture])
    BY <1>3 DEF Request
  <2>3. /\ file \in BOOLEAN /\ find \in Box /\ caps = {} /\ known = {} /\ loops = {} /\ unscanned = {}
        /\ anchor = 0 /\ press = 0 /\ scanning = 0 /\ acts = 0 /\ dirs = 0
    OBVIOUS
  <2>. QED BY <1>1, <1>3, <2>1, <2>2, <2>3 DEF TypeOK
<1>6. FiledRight /\ PicksListed /\ Begun /\ NoneForgotten
  BY <1>4 DEF FiledRight, PicksListed, Begun, NoneForgotten
<1>. QED BY <1>5, <1>6 DEF IInv, Coherent

\* The list keeps agreeing with itself, and no capture on it is forgotten about.
THEOREM ListInvariance == Spec => []IInv
<1>1. Init => IInv
  BY ListBegins
<1>2. IInv /\ [Next]_vars => IInv'
  <2>. SUFFICES ASSUME IInv, [Next]_vars PROVE IInv'
    OBVIOUS
  <2>1. CASE UNCHANGED vars
    BY <2>1
    DEF vars, listVars, pickVars, IInv, Coherent, TypeOK, FiledRight, PicksListed, Begun,
        NoneForgotten, Listing
  <2>2. CASE User
    BY <2>2, UserKeeps, FindKeeps
  <2>3. CASE Answers
    BY <2>3, ListKeeps, ScanKeeps, ServerKeeps DEF Answers
  <2>4. CASE Directory
    BY <2>4, ServerKeeps
  <2>. QED BY <2>1, <2>2, <2>3, <2>4 DEF Next
<1>. QED BY <1>1, <1>2, PTL DEF Spec

\* Its rows are what the box leaves of the listing, and what is picked is on it.
THEOREM ListAgrees == Spec => []Coherent
<1>1. IInv => Coherent
  BY DEF IInv
<1>. QED BY <1>1, ListInvariance, PTL

\* On the list, what is not known was refused or is going to be read.
THEOREM NothingLeftUnread == Spec => []NoneForgotten
<1>1. IInv => NoneForgotten
  BY DEF IInv
<1>. QED BY <1>1, ListInvariance, PTL

----------------------------------------------------------------------------
(* Protocols that arrive.                                                  *)

\* What they settle of a term was open before, and what was settled they leave.
LEMMA VerdictsSettle ==
  ASSUME NEW c, NEW terms
  PROVE  /\ Matches(c, FALSE, terms) = "yes" => Matches(c, TRUE, terms) = "yes"
         /\ Matches(c, FALSE, terms) = "no" => Matches(c, TRUE, terms) = "no"
         /\ Matches(c, TRUE, terms) # "maybe"
<1>1. \A i \in DOMAIN terms :
        /\ TermHit(c, FALSE, terms[i]) = TermUnread(c, terms[i])
        /\ TermUnread(c, terms[i]) # "unread" => TermHit(c, TRUE, terms[i]) = TermUnread(c, terms[i])
        /\ TermHit(c, TRUE, terms[i]) # "unread"
  BY DEF TermHit, Hit
<1>2. \A i \in DOMAIN terms : Wrong(terms[i]) # "unread"
  BY DEF Wrong
<1>. HIDE DEF Wrong
<1>. QED BY <1>1, <1>2 DEF Matches

\* A row that stays, or comes, was there; a sure one stays.
LEMMA RowsSettle ==
  ASSUME NEW cs \in SUBSET Capture, NEW read \in SUBSET cs, NEW more \in SUBSET cs,
         read \subseteq more, NEW box \in Box
  PROVE  /\ \A j \in DOMAIN Filed(cs, more, box) : \E i \in DOMAIN Filed(cs, read, box) :
              /\ Filed(cs, read, box)[i].name = Filed(cs, more, box)[j].name
              /\ Filed(cs, more, box)[j].verdict = "maybe" => Filed(cs, read, box)[i].verdict = "maybe"
         /\ \A i \in DOMAIN Filed(cs, read, box) : Filed(cs, read, box)[i].verdict = "yes" =>
              \E j \in DOMAIN Filed(cs, more, box) : Filed(cs, more, box)[j] = Filed(cs, read, box)[i]
<1>. DEFINE V(r, c) == Verdicts[box][c][(c \in r)]
            Left(r) == {c \in cs : V(r, c) # "no"}
            terms   == ParseFind(box)
<1>1. \A c \in Capture : \A b \in BOOLEAN : Verdicts[box][c][b] = Matches(c, b, terms)
  BY DEF Verdicts
<1>2. ASSUME NEW r, NEW c \in Capture
      PROVE  V(r, c) = IF c \in r THEN Matches(c, TRUE, terms) ELSE Matches(c, FALSE, terms)
  <2>1. CASE c \in r
    BY <1>1, <2>1
  <2>2. CASE c \notin r
    <3>1. (c \in r) = FALSE
      BY <2>2
    <3>2. V(r, c) = Verdicts[box][c][FALSE]
      BY <3>1, Zenon
    <3>. QED BY <1>1, <2>2, <3>2
  <2>. QED BY <2>1, <2>2
<1>3. ASSUME NEW r \in SUBSET cs
      PROVE  LET rows == Filed(cs, r, box) IN
             /\ \A i \in DOMAIN rows :
                  /\ rows[i].name \in Left(r)
                  /\ rows[i] = [name |-> rows[i].name, verdict |-> V(r, rows[i].name)]
             /\ \A c \in Left(r) : \E i \in DOMAIN rows : rows[i].name = c
  <2>. DEFINE order == InOrder[Left(r)]
  <2>1. Range(order) = Left(r)
    <3>1. Left(r) \in SUBSET Capture
      OBVIOUS
    <3>. QED BY <3>1, CaptureListAssumption
  <2>2. Filed(cs, r, box) = [i \in DOMAIN order |-> [name |-> order[i], verdict |-> V(r, order[i])]]
    BY DEF Filed
  <2>. HIDE DEF order, V, Left
  <2>. QED BY <2>1, <2>2 DEF Range
<1>. HIDE DEF V, terms
<1>4. ASSUME NEW c \in Capture
      PROVE  /\ V(more, c) # "no" => V(read, c) # "no"
             /\ V(more, c) = "maybe" => V(read, c) = "maybe"
             /\ V(read, c) \notin {"no", "maybe"} => V(more, c) = V(read, c)
  <2>1. \A b \in BOOLEAN : Matches(c, b, terms) \in {"no", "maybe", "yes"}
    BY DEF Matches
  <2>2. /\ V(read, c) = IF c \in read THEN Matches(c, TRUE, terms) ELSE Matches(c, FALSE, terms)
        /\ V(more, c) = IF c \in more THEN Matches(c, TRUE, terms) ELSE Matches(c, FALSE, terms)
    BY <1>2
  <2>3. CASE c \in read
    <3>1. V(read, c) = V(more, c)
      BY <2>2, <2>3
    <3>. QED BY <3>1
  <2>4. CASE c \notin more
    <3>1. V(read, c) = V(more, c)
      BY <2>2, <2>4
    <3>. QED BY <3>1
  <2>5. CASE c \notin read /\ c \in more
    <3>1. V(read, c) = Matches(c, FALSE, terms) /\ V(more, c) = Matches(c, TRUE, terms)
      BY <2>2, <2>5
    <3>. QED BY <2>1, <3>1, VerdictsSettle
  <2>. QED BY <2>3, <2>4, <2>5
<1>5. read \in SUBSET cs /\ more \in SUBSET cs /\ cs \subseteq Capture
  OBVIOUS
<1>. DEFINE old == Filed(cs, read, box)
            new == Filed(cs, more, box)
<1>6. /\ \A i \in DOMAIN old :
           old[i].name \in Left(read)
           /\ old[i] = [name |-> old[i].name, verdict |-> V(read, old[i].name)]
      /\ \A c \in Left(read) : \E i \in DOMAIN old : old[i].name = c
  BY <1>3
<1>7. /\ \A j \in DOMAIN new :
           new[j].name \in Left(more)
           /\ new[j] = [name |-> new[j].name, verdict |-> V(more, new[j].name)]
      /\ \A c \in Left(more) : \E j \in DOMAIN new : new[j].name = c
  BY <1>3
<1>. HIDE DEF old, new
<1>8. ASSUME NEW j \in DOMAIN new
      PROVE  \E i \in DOMAIN old : old[i].name = new[j].name /\ (new[j].verdict = "maybe" => old[i].verdict = "maybe")
  <2>1. new[j].name \in Capture /\ new[j].name \in Left(read)
    BY <1>4, <1>5, <1>7
  <2>2. PICK i \in DOMAIN old : old[i].name = new[j].name
    BY <1>6, <2>1
  <2>3. new[j].verdict = V(more, new[j].name)
    BY <1>7
  <2>4. old[i].verdict = V(read, old[i].name)
    BY <1>6
  <2>. QED BY <1>4, <2>1, <2>2, <2>3, <2>4
<1>9. ASSUME NEW i \in DOMAIN old, old[i].verdict = "yes"
      PROVE  \E j \in DOMAIN new : new[j] = old[i]
  <2>1. old[i].name \in Capture /\ old[i].name \in Left(read)
    BY <1>5, <1>6
  <2>2. V(read, old[i].name) = "yes"
    BY <1>6, <1>9
  <2>3. V(more, old[i].name) = V(read, old[i].name) /\ old[i].name \in Left(more)
    BY <1>4, <2>1, <2>2
  <2>4. PICK j \in DOMAIN new : new[j].name = old[i].name
    BY <1>7, <2>3
  <2>5. new[j] = [name |-> old[i].name, verdict |-> V(more, old[i].name)]
    BY <1>7, <2>4
  <2>. QED BY <1>6, <2>3, <2>5
<1>. QED BY <1>8, <1>9 DEF old, new

\* With the listing and the box as they were, protocols that arrive only take tentative
\* rows away.
THEOREM RowsAreTaken == Spec => RowsOnlyLeave
<1>1. ASSUME IInv, IInv', [Next]_vars, find' = find, scanning' = scanning
      PROVE  caps' = caps /\ known \subseteq known'
  <2>1. scanning \in Nat
    BY <1>1 DEF IInv, Coherent, TypeOK
  <2>2. ASSUME NEW k \in DOMAIN net PROVE ~ListArrives(k) /\ ~ListFails(k)
    BY <1>1, <2>1 DEF ListArrives, ListFails
  <2>3. CASE UNCHANGED vars \/ User \/ Directory
    BY <2>3
    DEF vars, listVars, User, Find, PressDown, Click, PressFires, LetGo, Tap, OpenPicked, PickNone,
        CloseCapture, Upload, Directory
  <2>4. CASE Answers
    <3>1. ASSUME NEW l \in loops, ScanArrives(l) \/ ScanFails(l) PROVE caps' = caps /\ known \subseteq known'
      BY <3>1 DEF ScanArrives, ScanFails
    <3>2. ASSUME \/ Uploaded \/ UploadFails
                 \/ \E k \in DOMAIN net : Opened(k) \/ OpenFails(k)
          PROVE  caps' = caps /\ known \subseteq known'
      BY <3>2 DEF Uploaded, UploadFails, Opened, OpenFails, listVars
    <3>. QED BY <2>2, <2>4, <3>1, <3>2 DEF Answers
  <2>. QED BY <1>1, <2>3, <2>4 DEF Next
<1>2. ASSUME IInv, IInv', [Next]_vars, find' = find, scanning' = scanning
      PROVE  /\ \A j \in DOMAIN filed' : \E i \in DOMAIN filed :
                  filed[i].name = filed'[j].name /\ (filed'[j].verdict = "maybe" => filed[i].verdict = "maybe")
             /\ \A i \in DOMAIN filed : filed[i].verdict = "yes" =>
                  \E j \in DOMAIN filed' : filed'[j] = filed[i]
  <2>1. caps' = caps /\ known \subseteq known' /\ caps \in SUBSET Capture /\ find \in Box
        /\ known \in SUBSET caps /\ known' \in SUBSET caps
        /\ filed = Filed(caps, known, find) /\ filed' = Filed(caps, known', find)
    BY <1>1, <1>2 DEF IInv, Coherent, TypeOK, FiledRight
  <2>2. /\ \A j \in DOMAIN Filed(caps, known', find) : \E i \in DOMAIN Filed(caps, known, find) :
             /\ Filed(caps, known, find)[i].name = Filed(caps, known', find)[j].name
             /\ Filed(caps, known', find)[j].verdict = "maybe" => Filed(caps, known, find)[i].verdict = "maybe"
        /\ \A i \in DOMAIN Filed(caps, known, find) : Filed(caps, known, find)[i].verdict = "yes" =>
             \E j \in DOMAIN Filed(caps, known', find) :
               Filed(caps, known', find)[j] = Filed(caps, known, find)[i]
    <3>. DEFINE more == known'
    <3>1. more \in SUBSET caps /\ known \subseteq more
      BY <2>1
    <3>. HIDE DEF more
    <3>2. /\ \A j \in DOMAIN Filed(caps, more, find) : \E i \in DOMAIN Filed(caps, known, find) :
               /\ Filed(caps, known, find)[i].name = Filed(caps, more, find)[j].name
               /\ Filed(caps, more, find)[j].verdict = "maybe" => Filed(caps, known, find)[i].verdict = "maybe"
          /\ \A i \in DOMAIN Filed(caps, known, find) : Filed(caps, known, find)[i].verdict = "yes" =>
               \E j \in DOMAIN Filed(caps, more, find) :
                 Filed(caps, more, find)[j] = Filed(caps, known, find)[i]
      BY <2>1, <3>1, RowsSettle
    <3>. QED BY <3>2 DEF more
  <2>. QED BY <2>1, <2>2
<1>3. IInv /\ IInv' /\ [Next]_vars =>
        [ find' = find /\ scanning' = scanning =>
            /\ \A j \in DOMAIN filed' : \E i \in DOMAIN filed :
                 filed[i].name = filed'[j].name /\ (filed'[j].verdict = "maybe" => filed[i].verdict = "maybe")
            /\ \A i \in DOMAIN filed : filed[i].verdict = "yes" =>
                 \E j \in DOMAIN filed' : filed'[j] = filed[i] ]_vars
  BY <1>2
<1>. QED BY <1>3, ListInvariance, PTL DEF Spec, RowsOnlyLeave
=============================================================================

----------------------------- MODULE CaptureList -----------------------------
(***************************************************************************)
(* The capture list (src/web/app.js): the listing and the uploads, the     *)
(* protocols scanned for one file at a time, the filter that hides rows    *)
(* while they are still being read, the rows picked out to be opened as    *)
(* one.                                                                    *)
(*                                                                         *)
(* A browser runs one handler at a time.  Each await is a request, and the *)
(* code after it runs on its answer.  What a capture is called, when its   *)
(* frames were taken and which protocols are in it is fixed data; what a   *)
(* word of the box matches is a table over it.  Left out: the footer's     *)
(* messages, the pool of row elements, and the clock that moves an age.    *)
(***************************************************************************)
EXTENDS Integers, Sequences, FiniteSets, SequencesExt

CONSTANTS
  Capture,    \* the names of captures
  InOrder,    \* InOrder[s]: those in s as the server lists them
  Word,       \* the words a box may hold
  Token,      \* Token: [neg, facet, sign, word] as typed between two blanks
  Box,        \* the texts of the box: sequences of tokens
  Moment,     \* Moment[w]: the stretch of time w names, or NoTime
  InName, InStamp,   \* [c][w]: w is in c's name, in its time as written
  Speaks,     \* Speaks[c][w]: one of c's protocols has a part that starts with w
  First, Final, Mtime,   \* the times of c's first and last frame and of its file, 0 unknown
  NoWord, NoTime,
  UploadSeqs, \* what is chosen to be uploaded: sequences of captures
  Failing,    \* the kinds of request the server may refuse
  MaxActs,    \* things the user does (bound)
  StartDir,   \* what the directory may hold when the page is opened
  MaxDir      \* changes others make to the directory (bound)

ASSUME CaptureListAssumption ==
  /\ IsFiniteSet(Capture)
  /\ \A t \in Token : t.facet \in {"", "name", "proto", "time", "after", "before"}
  /\ \A t \in Token : t.neg \in BOOLEAN /\ t.word \in Word \cup {NoWord}
  /\ Moment[NoWord] = NoTime
  /\ \A b \in Box : \A i \in DOMAIN b : b[i] \in Token
  /\ InOrder \in [SUBSET Capture -> Seq(Capture)]
  /\ \A s \in SUBSET Capture : Range(InOrder[s]) = s /\ IsInjective(InOrder[s])
  /\ StartDir \subseteq SUBSET Capture
  /\ UploadSeqs \subseteq Seq(Capture)
  /\ MaxActs \in Nat /\ MaxDir \in Nat

----------------------------------------------------------------------------
(* Filtering the list.                                                     *)

\* parseFind: a facet that is an operator spelled out gives way to one written.
ParseToken(t) ==
  [neg   |-> t.neg,
   facet |-> IF t.facet \in {"after", "before"} THEN "time" ELSE t.facet,
   op    |-> IF t.sign # "" THEN t.sign
             ELSE IF t.facet = "after" THEN ">" ELSE IF t.facet = "before" THEN "<" ELSE "",
   word  |-> t.word,
   at    |-> Moment[t.word]]

ParseFind(box) == [i \in DOMAIN box |-> ParseToken(box[i])]

\* taken: the capture's own clock where it has one, the file's where it says nothing.
From(c) == IF First[c] # 0 THEN First[c] ELSE Mtime[c]
Upto(c) == IF First[c] = 0 THEN Mtime[c] ELSE IF Final[c] # 0 THEN Final[c] ELSE First[c]

Overlaps(c, t) ==
  /\ From(c) # 0
  /\ \/ t.op \in {">", ">="} /\ Upto(c) >= t.at.from
     \/ t.op \in {"<", "<="} /\ From(c) <= t.at.to
     \/ t.op = "" /\ From(c) <= t.at.to /\ Upto(c) >= t.at.from

\* What is said of a term without reading protocols: its hit, its miss, or
\* Unread where only they can tell.
Hit(b) == IF b THEN "hit" ELSE "miss"

TermUnread(c, t) ==
  IF t.word = NoWord /\ t.at = NoTime THEN "hit"
  ELSE IF t.facet = "time" \/ t.op # "" THEN Hit(t.at # NoTime /\ Overlaps(c, t))
  ELSE IF t.facet = "name" THEN Hit(InName[c][t.word])
  ELSE IF t.facet = "proto" THEN "unread"
  ELSE IF InName[c][t.word] \/ InStamp[c][t.word] \/ (t.at # NoTime /\ Overlaps(c, t)) THEN "hit"
  ELSE "unread"

\* term: ...and with them where they are known.
TermHit(c, read, t) ==
  IF TermUnread(c, t) = "unread" /\ read THEN Hit(Speaks[c][t.word]) ELSE TermUnread(c, t)

\* matches: a term that misses hides the row whatever the others say.
Wrong(t) == IF t.neg THEN "hit" ELSE "miss"

MatchesAsMissed(c, read, terms) ==
  IF \E i \in DOMAIN terms : TermHit(c, read, terms[i]) \in {Wrong(terms[i]), "unread"} THEN "no"
  ELSE "yes"

Matches(c, read, terms) ==
  IF \E i \in DOMAIN terms : TermHit(c, read, terms[i]) = Wrong(terms[i]) THEN "no"
  ELSE IF \E i \in DOMAIN terms : TermHit(c, read, terms[i]) = "unread" THEN "maybe"
  ELSE "yes"

----------------------------------------------------------------------------

VARIABLES
  file,      \* whether S.file is set: a capture is open, and the list behind it
  caps,      \* S.caps
  known,     \* those of them that have their protocols
  find,      \* S.find
  filed,     \* S.filed: [name, verdict], tentative where that is "maybe"
  picked,    \* S.picked
  anchor,    \* the row a shift-click reaches back to, 0 for none
  press,     \* the row a finger is held on, 0 once it has picked or was lifted
  scanning,  \* the generation of the last scanAll
  loops,     \* the scanAll runs that have a scan out: [gen, asked, rest]
  unscanned, \* the captures of this listing whose scan was refused (history)
  net,       \* the other requests: a listing with what the directory has been since
  dir,       \* the captures on the server
  sending,   \* the upload under way: the names left, None where there is none
  acts, dirs \* what the user and the directory have done, counted

listVars == <<caps, known, filed, scanning, loops, unscanned>>
pickVars == <<picked, anchor>>
vars == <<file, listVars, find, pickVars, press, net, dir, sending, acts, dirs>>

Verdicts ==
  [box \in Box |-> [c \in Capture |-> [read \in BOOLEAN |-> Matches(c, read, ParseFind(box))]]]

\* drawFiles: the rows the filter leaves, tentative where the verdict waits for protocols.
Filed(cs, read, box) ==
  LET rows == InOrder[{c \in cs : Verdicts[box][c][(c \in read)] # "no"}]
  IN  [i \in DOMAIN rows |->
        [name |-> rows[i], verdict |-> Verdicts[box][rows[i]][(rows[i] \in read)]]]

DrawFiles(cs, read, box) == filed' = Filed(cs, read, box)

ListReq(d)    == [kind |-> "list", saw |-> {d}]
StatusReq(ns) == [kind |-> "status", names |-> ns]
Listing == \E k \in DOMAIN net : net[k].kind = "list"

\* The directory changes: an answer on its way may be from before or after it.
Changes(d) ==
  /\ dir' = d
  /\ net' = [k \in DOMAIN net |->
              IF net[k].kind = "list" THEN [net[k] EXCEPT !.saw = @ \cup {d}] ELSE net[k]]

Idles == acts < MaxActs
Acts  == Idles /\ acts' = acts + 1

\* restore: the list, or the capture of a link - picked, where it is several.
Init ==
  /\ file = FALSE /\ caps = {} /\ known = {} /\ find \in Box /\ filed = <<>>
  /\ dir \in StartDir
  /\ \/ picked = {} /\ net = <<ListReq(dir)>>
     \/ \E ns \in SUBSET Capture \ {{}} :
          /\ picked = (IF Cardinality(ns) > 1 THEN ns ELSE {})
          /\ net = <<StatusReq(ns)>>
  /\ anchor = 0 /\ press = 0
  /\ scanning = 0 /\ loops = {} /\ unscanned = {}
  /\ sending = <<>>
  /\ acts = 0 /\ dirs = 0

----------------------------------------------------------------------------
(* The listing and the scan.                                               *)

\* files, up to its await.
Files(others, d) ==
  /\ file' = FALSE
  /\ net' = Append(others, ListReq(d))

\* scanAll from where the captures in rest are left to be looked at.
Scans(gen, rest) ==
  IF file \/ rest = <<>> THEN {} ELSE {[gen |-> gen, asked |-> Head(rest), rest |-> Tail(rest)]}

\* ...and its answer, which has the protocols of what the server has scanned already:
\* picks of captures that are gone go with them, and a new scan of the rest begins.
ListArrives(k) ==
  /\ net[k].kind = "list"
  /\ \E s \in net[k].saw : caps' = s /\ known' \in SUBSET s /\ picked' = picked \cap s
  /\ DrawFiles(caps', known', find)
  /\ scanning' = scanning + 1
  /\ loops' = loops \cup Scans(scanning + 1, InOrder[caps' \ known'])
  /\ unscanned' = {}
  /\ net' = RemoveAt(net, k)
  /\ UNCHANGED <<file, find, anchor, press, dir, sending, acts, dirs>>

ListFails(k) ==
  /\ net[k].kind = "list" /\ "list" \in Failing
  /\ caps' = {} /\ known' = {} /\ picked' = {}
  /\ DrawFiles({}, {}, find)
  /\ scanning' = scanning + 1
  /\ unscanned' = {}
  /\ net' = RemoveAt(net, k)
  /\ UNCHANGED <<file, find, anchor, press, loops, dir, sending, acts, dirs>>

ScanArrivesUndrawn(l) ==
  /\ IF l.gen # scanning
     THEN loops' = loops \ {l} /\ UNCHANGED <<known, filed>>
     ELSE /\ known' = known \cup {l.asked}
          /\ loops' = (loops \ {l}) \cup Scans(l.gen, l.rest)
          /\ UNCHANGED <<filed>>
  /\ UNCHANGED <<file, caps, find, pickVars, press, scanning, unscanned, net, dir, sending, acts, dirs>>

\* What a run does with an answer to its scan, unless another run has begun.
ScanArrives(l) ==
  /\ IF l.gen # scanning
     THEN loops' = loops \ {l} /\ UNCHANGED <<known, filed>>
     ELSE /\ known' = known \cup {l.asked}
          /\ DrawFiles(caps, known', find)
          /\ loops' = (loops \ {l}) \cup Scans(l.gen, l.rest)
  /\ UNCHANGED <<file, caps, find, pickVars, press, scanning, unscanned, net, dir, sending, acts, dirs>>

ScanFailsForGood(l) ==
  /\ l.asked \notin dir \/ "scan" \in Failing
  /\ loops' = loops \ {l}
  /\ unscanned' = IF l.gen = scanning THEN unscanned \cup {l.asked} ELSE unscanned
  /\ UNCHANGED <<file, caps, known, filed, scanning, find, pickVars, press, net, dir, sending, acts, dirs>>

ScanFailsRequeued(l) ==
  /\ l.asked \notin dir \/ "scan" \in Failing
  /\ loops' = (loops \ {l}) \cup
       (IF l.gen = scanning THEN Scans(l.gen, Append(l.rest, l.asked)) ELSE {})
  /\ UNCHANGED <<file, caps, known, filed, scanning, unscanned, find, pickVars, press, net, dir, sending, acts, dirs>>

\* A refusal is skipped: the protocols stay unknown, and the run goes on.
ScanFails(l) ==
  /\ l.asked \notin dir \/ "scan" \in Failing
  /\ loops' = (loops \ {l}) \cup (IF l.gen = scanning THEN Scans(l.gen, l.rest) ELSE {})
  /\ unscanned' = IF l.gen = scanning THEN unscanned \cup {l.asked} ELSE unscanned
  /\ UNCHANGED <<file, caps, known, filed, scanning, find, pickVars, press, net, dir, sending, acts, dirs>>

\* find: another text in the box.
Find(box) ==
  /\ Acts /\ ~file
  /\ find' = box
  /\ anchor' = 0
  /\ DrawFiles(caps, known, box)
  /\ UNCHANGED <<file, caps, known, picked, press, scanning, loops, unscanned, net, dir, sending, dirs>>

----------------------------------------------------------------------------
(* Opening rows, and picking several.                                      *)

OpenCapture(ns) ==
  /\ net' = Append(net, StatusReq(ns))

\* pickRow, with the rows as they are now: the run since the anchor, or the row.
PickRow(i, through) ==
  IF i \notin DOMAIN filed THEN UNCHANGED pickVars
  ELSE IF through /\ anchor \in DOMAIN filed
  THEN LET from == IF anchor < i THEN anchor ELSE i
           to   == IF anchor < i THEN i ELSE anchor IN
       /\ picked' = picked \cup {filed[j].name : j \in from .. to}
       /\ UNCHANGED anchor
  ELSE LET c == filed[i].name IN
       /\ picked' = IF c \in picked THEN picked \ {c} ELSE picked \cup {c}
       /\ anchor' = i

\* What a click on a row does.  The index is the one the row was painted with, and
\* the rows may be others by now: any index, and perhaps of no row.
RowClicked(i, mods) ==
  IF mods = "shift" THEN PickRow(i, TRUE) /\ UNCHANGED net
  ELSE IF mods = "ctrl" \/ picked # {} THEN PickRow(i, FALSE) /\ UNCHANGED net
  ELSE /\ i \in DOMAIN filed
       /\ OpenCapture({filed[i].name})
       /\ UNCHANGED pickVars

Click(i, mods) ==
  /\ Acts /\ ~file
  /\ RowClicked(i, mods)
  /\ UNCHANGED <<file, listVars, find, press, dir, sending, dirs>>

\* With a finger: down, held long enough to pick, which swallows the click to come,
\* or up again as a click or as the end of a scroll.
PressDown(i) ==
  /\ Acts /\ ~file
  /\ press' = i
  /\ UNCHANGED <<file, listVars, find, pickVars, net, dir, sending, dirs>>

PressFires ==
  /\ press # 0
  /\ press' = 0
  /\ PickRow(press, FALSE)
  /\ UNCHANGED <<file, listVars, find, net, dir, sending, acts, dirs>>

LetGo ==
  /\ press # 0
  /\ press' = 0
  /\ UNCHANGED <<file, listVars, find, pickVars, net, dir, sending, acts, dirs>>

Tap ==
  /\ press # 0 /\ ~file
  /\ RowClicked(press, "")
  /\ press' = 0
  /\ UNCHANGED <<file, listVars, find, dir, sending, acts, dirs>>

\* The footer's bar and its Clear, which Escape and the back gesture are too.
OpenPicked ==
  /\ Acts /\ ~file
  /\ picked # {}
  /\ OpenCapture(picked)
  /\ UNCHANGED <<file, listVars, find, pickVars, press, dir, sending, dirs>>

PickNone ==
  /\ Acts /\ ~file
  /\ picked # {}
  /\ picked' = {} /\ anchor' = 0
  /\ UNCHANGED <<file, listVars, find, press, net, dir, sending, dirs>>

\* openCapture's answer puts the list away; the way back and a failure list again.
Opened(k) ==
  /\ net[k].kind = "status"
  /\ file' = TRUE
  /\ net' = RemoveAt(net, k)
  /\ UNCHANGED <<listVars, find, pickVars, press, dir, sending, acts, dirs>>

OpenFails(k) ==
  /\ net[k].kind = "status"
  /\ "status" \in Failing \/ ~(net[k].names \subseteq dir)
  /\ Files(RemoveAt(net, k), dir)
  /\ UNCHANGED <<listVars, find, pickVars, press, dir, sending, acts, dirs>>

CloseCapture ==
  /\ Acts /\ file
  /\ Files(net, dir)
  /\ UNCHANGED <<listVars, find, pickVars, press, dir, sending, dirs>>

----------------------------------------------------------------------------
(* Uploads, one file after the other, and what others do to the directory. *)

Upload(ns) ==
  /\ Acts /\ sending = <<>> /\ ns # <<>>
  /\ sending' = ns
  /\ UNCHANGED <<file, listVars, find, pickVars, press, net, dir, dirs>>

Uploaded ==
  /\ sending # <<>> /\ Head(sending) \notin dir
  /\ sending' = Tail(sending)
  /\ IF Tail(sending) # <<>>
     THEN Changes(dir \cup {Head(sending)}) /\ UNCHANGED file
     ELSE /\ dir' = dir \cup {Head(sending)}
          /\ file' = FALSE
          /\ net' = Append([k \in DOMAIN net |->
                              IF net[k].kind = "list" THEN [net[k] EXCEPT !.saw = @ \cup {dir'}]
                              ELSE net[k]], ListReq(dir'))
  /\ UNCHANGED <<listVars, find, pickVars, press, acts, dirs>>

UploadFails ==
  /\ sending # <<>>
  /\ Head(sending) \in dir \/ "upload" \in Failing
  /\ sending' = <<>>
  /\ UNCHANGED <<file, listVars, find, pickVars, press, net, dir, acts, dirs>>

Directory ==
  /\ dirs < MaxDir /\ dirs' = dirs + 1
  /\ \E c \in Capture : Changes(IF c \in dir THEN dir \ {c} ELSE dir \cup {c})
  /\ UNCHANGED <<file, listVars, find, pickVars, press, sending, acts>>

----------------------------------------------------------------------------

Answers ==
  \/ \E k \in DOMAIN net : ListArrives(k) \/ ListFails(k) \/ Opened(k) \/ OpenFails(k)
  \/ \E l \in loops : ScanArrives(l) \/ ScanFails(l)
  \/ Uploaded \/ UploadFails

User ==
  \/ \E b \in Box : Find(b)
  \/ \E i \in 1 .. Cardinality(Capture) : PressDown(i) \/ \E mods \in {"", "ctrl", "shift"} : Click(i, mods)
  \/ PressFires \/ LetGo \/ Tap
  \/ OpenPicked \/ PickNone \/ CloseCapture
  \/ \E ns \in UploadSeqs : Upload(ns)

Next == Answers \/ User \/ Directory

Spec == Init /\ [][Next]_vars

\* The server answers, or the connection breaks.
FairSpec == Spec /\ WF_vars(Answers)

----------------------------------------------------------------------------
(* Properties.                                                             *)

TypeOK ==
  /\ file \in BOOLEAN /\ find \in Box
  /\ caps \subseteq Capture /\ known \subseteq caps
  /\ filed \in Seq([name : Capture, verdict : {"maybe", "yes"}])
  /\ picked \subseteq Capture
  /\ anchor \in Nat /\ press \in Nat
  /\ scanning \in Nat
  /\ loops \subseteq [gen : Nat, asked : Capture, rest : Seq(Capture)]
  /\ unscanned \subseteq Capture
  /\ net \in Seq([kind : {"list"}, saw : SUBSET SUBSET Capture] \cup [kind : {"status"}, names : SUBSET Capture])
  /\ dir \subseteq Capture /\ sending \in Seq(Capture)
  /\ acts \in 0 .. MaxActs /\ dirs \in 0 .. MaxDir

\* The list is what the filter leaves of the listing, whichever of the two changed last
\* and however many protocols have landed since: drawFiles is never left out.
FiledRight == filed = Filed(caps, known, find)

\* On the list, with no listing on its way, a capture whose protocols are not known was
\* refused or is one the running scan has yet to read (scanAll): an opened capture, a
\* failed scan and a newer listing in between lose none.
NoneForgotten ==
  ~file /\ ~Listing =>
    \A c \in caps \ (known \cup unscanned) :
      \E l \in loops : l.gen = scanning /\ c \in {l.asked} \cup Range(l.rest)

\* Once a listing has landed, what is picked is on it (files).
PicksListed == scanning > 0 => picked \subseteq caps

\* The list agrees with itself, whatever has arrived since: its rows with the box and its
\* picks with the listing (drawFiles, files).
Coherent == TypeOK /\ FiledRight /\ PicksListed

\* With the listing and the box as they were, protocols that arrive only ever take
\* rows away, and only rows that were tentative; the sure ones stay sure (matches).
RowsOnlyLeave ==
  [][find' = find /\ scanning' = scanning =>
       /\ \A j \in DOMAIN filed' : \E i \in DOMAIN filed :
            filed[i].name = filed'[j].name /\ (filed'[j].verdict = "maybe" => filed[i].verdict = "maybe")
       /\ \A i \in DOMAIN filed : filed[i].verdict = "yes" =>
            \E j \in DOMAIN filed' : filed'[j] = filed[i]]_vars

\* On the list everything is read in the end, or has been refused.
ListSettles ==
  ~file ~> (file \/ (~Listing /\ caps = known \cup unscanned))
=============================================================================

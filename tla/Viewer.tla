------------------------------- MODULE Viewer -------------------------------
(***************************************************************************)
(* The page with a capture open (src/web/app.js): rows fetched a page at a *)
(* time, a display filter, a selected frame and its dissection, and the    *)
(* way back to the capture list.                                           *)
(*                                                                         *)
(* A browser runs one handler at a time.  What an await leaves behind is a *)
(* request in net, answered in any order or refused, with all the code     *)
(* after the await run on the answer.  A handler that awaits a page already*)
(* asked for is queued on that request and goes to ready when it settles:  *)
(* a microtask, which runs before anything else does.                      *)
(*                                                                         *)
(* Of the filter box there is only what is entered in it: its text, what   *)
(* types into it, completes and checks it, and its mark are FilterBar's.   *)
(*                                                                         *)
(* Left out: layout, colours, the flow view's lanes, and a draw behind the *)
(* capture list (it asks for pages of no capture, which the server         *)
(* refuses).                                                               *)
(***************************************************************************)
EXTENDS Integers, Sequences, SequencesExt

CONSTANTS
  Capture,    \* references the list opens
  Query,      \* display filters, NoFilter aside
  BadQuery,   \* the ones that do not compile
  NoFilter,   \* no filter
  View,       \* View[f][q]: the frame numbers of f that q leaves, in order
  Linked,     \* the frame numbers links carry, 0 for none
  PAGE,       \* frames per /api/frames call
  MaxPage,    \* the last page any view or link has, one empty page past its end included
  Failing,    \* the kinds of request the server may refuse
  MaxOut,     \* requests in flight (bound)
  MaxActs,    \* things the user does (bound)
  None

ASSUME ViewerAssumption ==
  /\ BadQuery \subseteq Query /\ NoFilter \notin Query
  /\ PAGE \in Nat \ {0} /\ MaxPage \in Nat /\ MaxOut \in Nat /\ MaxActs \in Nat
  /\ \A f \in Capture : \A q \in Query \cup {NoFilter} :
       /\ View[f][q] \in Seq(Nat \ {0})
       /\ \A i, j \in DOMAIN View[f][q] : i < j => View[f][q][i] < View[f][q][j]
  /\ \A f \in Capture : View[f][NoFilter] = [n \in 1 .. Len(View[f][NoFilter]) |-> n]
  /\ Linked \subseteq Nat /\ \A n \in Linked \ {0} : (n - 1) \div PAGE <= MaxPage
  /\ None \notin Capture \cup Nat \cup [file : Capture, num : Nat]

VARIABLES
  file, total, filter, count, end,   \* S.file, S.total, S.filter, S.count, S.end
  pages,     \* S.pages: rows, or Pending (a promise), or Absent
  selIdx, want,                      \* S.selIdx, S.want
  tree,      \* the dissection on screen: of which frame of which capture
  net,       \* requests whose answers are not in yet, in the order they were made
  ready,     \* handlers whose await has settled
  own,       \* history: no page of an earlier view was on its way when this one began
  alone,     \* history: no dissection of another capture was, when this one was opened
  refused,   \* history: a dissection of the frame last selected was refused
  link,      \* history: the frame a link asked for, while nothing else has been asked since
  acts       \* what the user has done so far, counted

viewVars == <<file, total, filter, count, end>>
selVars  == <<selIdx, want, tree>>
seenVars == <<alone, refused>>
vars == <<viewVars, pages, selVars, seenVars, net, ready, own, link, acts>>

Absent  == [is |-> "absent", rows |-> <<>>]
Pending == [is |-> "pending", rows |-> <<>>]
Got(rows) == [is |-> "rows", rows |-> rows]
Text    == Query \cup {NoFilter}
Blank   == [p \in 0 .. MaxPage |-> Absent]

----------------------------------------------------------------------------
(* What the server answers: the rows of a page of a view.                  *)

PageRows(f, q, p) ==
  LET left == Len(View[f][q]) - p * PAGE
      n == IF left < 0 THEN 0 ELSE IF left < PAGE THEN left ELSE PAGE
  IN  [i \in 1 .. n |-> View[f][q][p * PAGE + i]]

Loaded(p) == pages[p].is = "rows"

\* S.pages at row i: its frame number, or None.
RowAt(i) ==
  LET p == i \div PAGE  at == (i % PAGE) + 1 IN
  IF i >= 0 /\ p <= MaxPage /\ Loaded(p) /\ at <= Len(pages[p].rows)
  THEN pages[p].rows[at] ELSE None

PageReq(f, q, p, waits) ==
  [kind |-> "page", file |-> f, filter |-> q, page |-> p, waits |-> waits]
FrameReq(n)        == [kind |-> "frame", file |-> file, num |-> n]
CheckReq(q)        == [kind |-> "check", file |-> file, text |-> q]
StatusReq(f, q, n) == [kind |-> "status", file |-> f, filter |-> q, num |-> n]

\* What awaits a page: select(i), or locate(num) looking at page p.
Waiter == {"select", "locate"} \X Nat \X (0 .. MaxPage)
SelectAt(i)      == <<"select", i, i \div PAGE>>
LocateIn(num, p) == <<"locate", num, p>>

Request ==
  [kind : {"page"}, file : Capture \cup {None}, filter : Text, page : 0 .. MaxPage,
   waits : Seq(Waiter)]
  \cup [kind : {"frame"}, file : Capture \cup {None}, num : Nat]
  \cup [kind : {"check"}, file : Capture \cup {None}, text : Query]
  \cup [kind : {"status"}, file : Capture, filter : Text, num : Nat]

\* The promise S.pages holds for p: the last of its requests.
Promise(p) ==
  CHOOSE k \in 1 .. Len(net) :
    /\ net[k].kind = "page" /\ net[k].page = p
    /\ \A j \in k + 1 .. Len(net) : net[j].kind = "page" => net[j].page # p

Await(p, w) == [net EXCEPT ![Promise(p)].waits = Append(@, w)]

Room(n) == Len(net) + n <= MaxOut
Idle == ready = <<>>
UserActs == Idle /\ acts < MaxActs /\ acts' = acts + 1

Init ==
  /\ file = None /\ total = 0 /\ filter = NoFilter /\ count = 0 /\ end = TRUE
  /\ pages = Blank
  /\ selIdx = -1 /\ want = 0 /\ tree = None
  /\ net = <<>> /\ ready = <<>>
  /\ own = TRUE /\ alone = TRUE /\ refused = FALSE /\ link = None /\ acts = 0

----------------------------------------------------------------------------
(* Pages.                                                                  *)

\* draw: a row in the window whose page has never been asked for.  The rows that
\* can be scrolled to are the ones known of, and a page more where there may be more.
Draw(p) ==
  /\ Idle /\ Room(1)
  /\ file # None
  /\ pages[p] = Absent
  /\ p * PAGE < count + (IF end THEN 0 ELSE PAGE)
  /\ pages' = [pages EXCEPT ![p] = Pending]
  /\ net' = Append(net, PageReq(file, filter, p, <<>>))
  /\ UNCHANGED <<viewVars, selVars, seenVars, ready, own, link, acts>>

\* fetchPage's answer.  A short page is the end of the view.
PageArrivesFull(k) ==
  LET r == net[k]  rows == PageRows(r.file, r.filter, r.page)  seen == r.page * PAGE + Len(rows) IN
  /\ Idle
  /\ r.kind = "page" /\ r.file # None
  /\ pages' = [pages EXCEPT ![r.page] = Got(rows)]
  /\ IF filter = NoFilter THEN UNCHANGED <<count, end>>
     ELSE IF Len(rows) <= PAGE THEN count' = seen /\ end' = TRUE
     ELSE count' = (IF seen > count THEN seen ELSE count) /\ UNCHANGED end
  /\ ready' = r.waits
  /\ net' = RemoveAt(net, k)
  /\ UNCHANGED <<file, total, filter, selVars, seenVars, own, link, acts>>

PageArrives(k) ==
  LET r == net[k]  rows == PageRows(r.file, r.filter, r.page)  seen == r.page * PAGE + Len(rows) IN
  /\ Idle
  /\ r.kind = "page" /\ r.file # None
  /\ pages' = [pages EXCEPT ![r.page] = Got(rows)]
  /\ IF filter = NoFilter THEN UNCHANGED <<count, end>>
     ELSE IF Len(rows) < PAGE THEN count' = seen /\ end' = TRUE
     ELSE count' = (IF seen > count THEN seen ELSE count) /\ UNCHANGED end
  /\ ready' = r.waits
  /\ net' = RemoveAt(net, k)
  /\ UNCHANGED <<file, total, filter, selVars, seenVars, own, link, acts>>

PageFails(k) ==
  LET r == net[k] IN
  /\ Idle
  /\ r.kind = "page"
  /\ r.file = None \/ "page" \in Failing
  /\ pages' = [pages EXCEPT ![r.page] = Absent]
  /\ ready' = r.waits
  /\ net' = RemoveAt(net, k)
  /\ link' = None
  /\ UNCHANGED <<viewVars, selVars, seenVars, own, acts>>

----------------------------------------------------------------------------
(* Selecting a frame.                                                      *)

\* select from where it has a row: the frame is asked for, and the row before it
\* looked up, whose page may never have been asked for.
Pick(i) ==
  LET q == (i - 1) \div PAGE  fetches == i > 0 /\ pages[q] = Absent IN
  /\ Room(2)
  /\ selIdx' = i
  /\ want' = RowAt(i)
  /\ refused' = FALSE
  /\ pages' = IF fetches THEN [pages EXCEPT ![q] = Pending] ELSE pages
  /\ net' = net \o (IF fetches THEN <<PageReq(file, filter, q, <<>>)>> ELSE <<>>)
                \o <<FrameReq(RowAt(i))>>
  /\ UNCHANGED <<viewVars, tree, alone>>

\* A click on a drawn row, or a key that moves the selection.
Select(i) ==
  LET p == i \div PAGE IN
  /\ UserActs
  /\ file # None
  /\ i < count + (IF end THEN 0 ELSE PAGE)
  /\ Room(2)
  /\ link' = None
  /\ \/ RowAt(i) # None /\ Pick(i)
     \/ /\ pages[p] = Pending
        /\ net' = Await(p, SelectAt(i))
        /\ UNCHANGED <<viewVars, pages, selVars, seenVars>>
     \/ /\ pages[p] = Absent
        /\ pages' = [pages EXCEPT ![p] = Pending]
        /\ net' = Append(net, PageReq(file, filter, p, <<SelectAt(i)>>))
        /\ UNCHANGED <<viewVars, selVars, seenVars>>
  /\ UNCHANGED <<ready, own>>

\* ...and what is left of it once the page it waited for has settled: the row, if
\* there is one by now.  A page that failed is asked for again, and not waited for.
SelectResumes ==
  LET i == ready[1][2]  p == ready[1][3] IN
  /\ ready # <<>> /\ ready[1][1] = "select"
  /\ ready' = Tail(ready)
  /\ Room(2)
  /\ \/ RowAt(i) # None /\ Pick(i)
     \/ /\ RowAt(i) = None
        /\ IF pages[p] = Absent
           THEN /\ pages' = [pages EXCEPT ![p] = Pending]
                /\ net' = Append(net, PageReq(file, filter, p, <<>>))
           ELSE UNCHANGED <<pages, net>>
        /\ UNCHANGED <<viewVars, selVars, seenVars>>
  /\ UNCHANGED <<own, link, acts>>

\* The dissection arrives, unless a faster click won.
FrameArrivesAnyway(k) ==
  LET r == net[k] IN
  /\ Idle
  /\ r.kind = "frame" /\ r.file # None
  /\ tree' = [file |-> r.file, num |-> r.num]
  /\ net' = RemoveAt(net, k)
  /\ UNCHANGED <<viewVars, pages, selIdx, want, seenVars, ready, own, link, acts>>

FrameArrives(k) ==
  LET r == net[k] IN
  /\ Idle
  /\ r.kind = "frame" /\ r.file # None
  /\ tree' = IF want = r.num THEN [file |-> r.file, num |-> r.num] ELSE tree
  /\ net' = RemoveAt(net, k)
  /\ UNCHANGED <<viewVars, pages, selIdx, want, seenVars, ready, own, link, acts>>

FrameFails(k) ==
  /\ Idle
  /\ net[k].kind = "frame"
  /\ net[k].file = None \/ "frame" \in Failing
  /\ net' = RemoveAt(net, k)
  /\ refused' = (refused \/ net[k].num = want)
  /\ link' = None
  /\ UNCHANGED <<viewVars, pages, selVars, alone, ready, own, acts>>

Deselect ==
  /\ UserActs
  /\ selIdx >= 0
  /\ selIdx' = -1 /\ want' = 0 /\ tree' = None
  /\ link' = None
  /\ UNCHANGED <<viewVars, pages, seenVars, net, ready, own>>

----------------------------------------------------------------------------
(* The filter.                                                             *)

\* rewind: the rows are those of another view.
Rewind(q, frames, others) ==
  /\ filter' = q
  /\ count' = IF q = NoFilter THEN frames ELSE 0
  /\ end' = (q = NoFilter)
  /\ selIdx' = -1
  /\ tree' = None
  /\ own' = ~\E k \in DOMAIN others : others[k].kind = "page"
  /\ UNCHANGED want

\* filter, once the text is known to compile: a rewind, and the first page.
Refilter(q, others) ==
  /\ Rewind(q, total, others)
  /\ pages' = [Blank EXCEPT ![0] = Pending]
  /\ net' = Append(others, PageReq(file, q, 0, <<>>))
  /\ UNCHANGED <<file, total, seenVars>>

\* filter is entered; with nothing in the box there is nothing to compile.
Submit(q) ==
  /\ UserActs
  /\ file # None /\ Room(1)
  /\ link' = None
  /\ IF q = NoFilter THEN Refilter(q, net)
     ELSE /\ net' = Append(net, CheckReq(q))
          /\ UNCHANGED <<viewVars, pages, selVars, seenVars, own>>
  /\ UNCHANGED ready

\* compile's answer, however many round trips it took.
Compiled(k) ==
  /\ Idle
  /\ net[k].kind = "check" /\ net[k].text \notin BadQuery
  /\ Refilter(net[k].text, RemoveAt(net, k))
  /\ UNCHANGED <<ready, link, acts>>

NotCompiled(k) ==
  /\ Idle
  /\ net[k].kind = "check"
  /\ net[k].text \in BadQuery \/ "check" \in Failing
  /\ net' = RemoveAt(net, k)
  /\ UNCHANGED <<viewVars, pages, selVars, seenVars, ready, own, link, acts>>

----------------------------------------------------------------------------
(* Opening a capture and going back.                                       *)

\* openCapture, from a row of the list or from a link with a filter and a frame in it.
Open(f, q, n) ==
  /\ UserActs
  /\ file = None /\ Room(1)
  /\ net' = Append(net, StatusReq(f, q, n))
  /\ link' = IF net = <<>> /\ n > 0 THEN n ELSE None
  /\ UNCHANGED <<viewVars, pages, selVars, seenVars, ready, own>>

\* Its answer: the view is built, and the frame of the link looked for - by its
\* number where nothing is filtered, page by page where something is.
Opened(k) ==
  LET r == net[k]  others == RemoveAt(net, k)
      p == IF r.filter = NoFilter THEN (r.num - 1) \div PAGE ELSE 0
      w == IF r.filter = NoFilter THEN SelectAt(r.num - 1) ELSE LocateIn(r.num, 0) IN
  /\ Idle
  /\ r.kind = "status"
  /\ file' = r.file
  /\ total' = Len(View[r.file][NoFilter])
  /\ Rewind(r.filter, Len(View[r.file][NoFilter]), others)
  /\ IF r.num = 0 THEN pages' = Blank /\ net' = others
     ELSE /\ pages' = [Blank EXCEPT ![p] = Pending]
          /\ net' = Append(others, PageReq(r.file, r.filter, p, <<w>>))
  /\ alone' = \A j \in DOMAIN others : others[j].kind = "frame" => others[j].file \in {r.file, None}
  /\ UNCHANGED <<refused, ready, link, acts>>

OpenFails(k) ==
  /\ Idle
  /\ net[k].kind = "status" /\ "status" \in Failing
  /\ net' = RemoveAt(net, k)
  /\ file' = None
  /\ link' = None
  /\ UNCHANGED <<total, filter, count, end, pages, selVars, seenVars, ready, own, acts>>

\* locate, with page p settled: the frame is in it; or this page says that no later
\* one has it; or the next page is waited for, asked for first where nobody has.
LocateStopsEarly(num, p) ==
  Loaded(p) /\ Len(pages[p].rows) = PAGE => Last(pages[p].rows) > num - 2
LocateStops(num, p) ==
  Loaded(p) /\ Len(pages[p].rows) = PAGE => Last(pages[p].rows) > num

LocateResumes ==
  LET num == ready[1][2]  p == ready[1][3]
      hits == {i \in p * PAGE .. p * PAGE + PAGE - 1 : RowAt(i) = num} IN
  /\ ready # <<>> /\ ready[1][1] = "locate"
  /\ Room(2)
  /\ \/ /\ \E i \in hits : Pick(i)
        /\ ready' = Tail(ready)
     \/ /\ hits = {} /\ LocateStops(num, p)
        /\ ready' = Tail(ready)
        /\ UNCHANGED <<viewVars, pages, selVars, seenVars, net>>
     \/ /\ hits = {} /\ ~LocateStops(num, p) /\ p < MaxPage
        /\ \/ /\ Loaded(p + 1)
              /\ ready' = <<LocateIn(num, p + 1)>> \o Tail(ready)
              /\ UNCHANGED <<pages, net>>
           \/ /\ pages[p + 1] = Pending
              /\ net' = Await(p + 1, LocateIn(num, p + 1))
              /\ ready' = Tail(ready)
              /\ UNCHANGED pages
           \/ /\ pages[p + 1] = Absent
              /\ pages' = [pages EXCEPT ![p + 1] = Pending]
              /\ net' = Append(net, PageReq(file, filter, p + 1, <<LocateIn(num, p + 1)>>))
              /\ ready' = Tail(ready)
        /\ UNCHANGED <<viewVars, selVars, seenVars>>
  /\ UNCHANGED <<own, link, acts>>

\* closeCapture, from the header's button: the list is shown.
\* (The listing, and the close the server is asked for, are no part of this module.)
Back ==
  /\ UserActs
  /\ file # None
  /\ file' = None
  /\ link' = None
  /\ UNCHANGED <<total, filter, count, end, pages, selVars, seenVars, net, ready, own>>

\* pop, the back gesture and Escape: what it finds to close, innermost first.
PopTakes == selIdx >= 0 \/ file # None
Pop ==
  \/ selIdx >= 0 /\ Deselect
  \/ selIdx < 0 /\ Back

----------------------------------------------------------------------------

Answer ==
  \E k \in 1 .. Len(net) :
    \/ PageArrives(k) \/ PageFails(k) \/ FrameArrives(k) \/ FrameFails(k)
    \/ Compiled(k) \/ NotCompiled(k) \/ Opened(k) \/ OpenFails(k)

User ==
  \/ \E i \in 0 .. (MaxPage + 1) * PAGE - 1 : Select(i)
  \/ \E q \in Text : Submit(q)
  \/ \E f \in Capture, q \in Text \ BadQuery, n \in Linked : Open(f, q, n)
  \/ Back \/ Pop

Next ==
  \/ User \/ Answer \/ SelectResumes \/ LocateResumes
  \/ \E p \in 0 .. MaxPage : Draw(p)

Spec == Init /\ [][Next]_vars

----------------------------------------------------------------------------

TypeOK ==
  /\ file \in Capture \cup {None} /\ total \in Nat /\ filter \in Text
  /\ count \in Nat /\ end \in BOOLEAN /\ own \in BOOLEAN /\ alone \in BOOLEAN /\ refused \in BOOLEAN
  /\ pages \in [0 .. MaxPage -> [is : {"absent", "pending", "rows"}, rows : Seq(Nat)]]
  /\ selIdx \in Nat \cup {-1} /\ want \in Nat
  /\ tree = None \/ tree \in [file : Capture, num : Nat \ {0}]
  /\ net \in Seq(Request) /\ ready \in Seq(Waiter)
  /\ acts \in 0 .. MaxActs

Settled == net = <<>> /\ ready = <<>>

\* Once the answers are in, the dissection on screen is of the selected frame's number,
\* however many rows were clicked before it and in whatever order they were answered -
\* unless that frame's own was refused, which leaves the one before on screen.  It is of
\* the capture on screen as well, unless one of another capture was still on its way when
\* this one was opened: select compares the number only.
SelectionShown ==
  /\ TypeOK
  /\ file # None /\ selIdx >= 0 /\ Settled /\ ~refused =>
       tree \in [file : IF alone THEN {file} ELSE Capture, num : {want}]

\* An unfiltered view knows its length from the status, whatever answers for filtered
\* ones are still to come.  A filtered one learns it from its pages: never more than there
\* is, and all of it once the end is known, though pages arrive out of order and fail -
\* those of an earlier view aside (CountKnown).
CountIsRight ==
  /\ file # None /\ filter = NoFilter => count = total /\ end
  /\ file # None /\ own =>
       LET n == Len(View[file][filter]) IN count <= n /\ (end => count = n)

\* A link to a frame of a view selects it if the view has it, and nothing if not.
LinkFound ==
  link # None /\ file # None /\ Settled =>
    IF \E i \in DOMAIN View[file][filter] : View[file][filter][i] = link
    THEN selIdx >= 0 /\ want = link /\ View[file][filter][selIdx + 1] = link
    ELSE selIdx = -1

\* app.js:160 "count: frames known to be in the current view": never more than the
\* view has, whatever rows of the view before are still on their way.
CountKnown == file # None => count <= Len(View[file][filter])

=============================================================================

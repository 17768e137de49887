---------------------------- MODULE FlowDiagram ----------------------------
(***************************************************************************)
(* The sequence diagram of an open capture (src/web/app.js): a lane for    *)
(* each address of the pages fetched so far, the lanes dragged about, and  *)
(* a lane taken out by a filter that is worked out from the capture.       *)
(*                                                                         *)
(* A browser runs one handler at a time.  Each await is a request answered *)
(* in any order, or refused.  A frame is the addresses its columns show,   *)
(* the fields of its dissection, outermost first, what a filter finds in   *)
(* it, whether it has a network layer, and the addresses in headers that   *)
(* its columns do not show (a tunnel's, those an ICMP error quotes).  Left *)
(* out: widths, scrolling, arrows, the frame selected, and what becomes    *)
(* of a hide that is answered on the capture list.                         *)
(***************************************************************************)
EXTENDS Integers, Sequences, FiniteSets, SequencesExt

CONSTANTS
  Capture,
  Frames,     \* Frames[c], in order: [src, dst, fields, has, net, carries]
  Fields,     \* the field names sharkd knows, for a filter to name
  NoField,
  Address, NoAddress,
  Kind,       \* Kind[a]: whether a is spelt as a mac, a v4, a v6 or a name
  Both, Other,  \* [f]: f spelt for both ends, and for the other one, or NoField
  Guess,      \* Guess[kind]: the field tried for an address no field owned up to
  PAGE, MaxPage,
  Failing,    \* the kinds of request the server may refuse
  Linked,     \* the filters a link may open a capture with
  MaxPages,   \* pages scrolled to in flight (bound)
  MaxOut,     \* hides, and filters, in flight (bound)
  MaxActs     \* things the user does (bound)

\* Of sharkd: a filter that names a field finds the frames that have the address in it, and
\* one that names both ends those that have it in either; what it finds is in the
\* dissection, or in a header the columns do not show.  A column shows the address of the
\* innermost network layer, and a mac only where there is none.
ASSUME FlowAssumption ==
  /\ NoAddress \notin Address
  /\ NoField \notin Fields
  /\ \A c \in Capture : Frames[c] \in Seq(Range(Frames[c]))
  /\ \A c \in Capture : \A i \in DOMAIN Frames[c] :
       LET f     == Frames[c][i]
           shown == {f.src, f.dst}
       IN
       /\ shown \subseteq Address \cup {NoAddress}
       /\ f.carries \subseteq Address /\ f.net \in BOOLEAN /\ f.fields \in Seq(Range(f.fields))
       /\ \A j \in DOMAIN f.fields :
            LET g == f.fields[j] IN
            /\ g.name \in Fields /\ g.value \in Address /\ g.shows \subseteq Address
            /\ <<g.name, g.value>> \in f.has
            /\ Both[g.name] \in Fields => <<Both[g.name], g.value>> \in f.has
            /\ IF f.net /\ Kind[g.value] = "mac"
               THEN ({g.value} \cup g.shows) \cap shown = {}
               ELSE g.value \in f.carries \/ ({g.value} \cup g.shows) \cap shown # {}
       /\ \A x \in f.has : x[2] \in f.carries \/ \E j \in DOMAIN f.fields : f.fields[j].value = x[2]
  /\ \A f \in Fields : Other[f] \in Fields => Both[Other[f]] = Both[f]
  /\ PAGE \in Nat \ {0} /\ MaxPage \in Nat /\ MaxPages \in Nat /\ MaxOut \in Nat /\ MaxActs \in Nat

VARIABLES
  file, filter, \* S.file; S.filter, as the terms it leaves out
  pages,      \* S.pages: Absent, Pending or the frames of it
  nodes,      \* S.nodes, and so S.node, the place of each
  order,      \* S.order
  drag,       \* the lane that is held, NoAddress for none
  hides,      \* hide() looking for a term: [addr, of, num, at, hit, lost]
  checks,     \* filter() under way: [hide, term, text], of the hide its last term is of
  net,        \* the pages asked for
  acts        \* what the user has done, counted

viewVars == <<filter, pages, nodes, net>>
vars == <<file, filter, pages, nodes, order, drag, hides, checks, net, acts>>

----------------------------------------------------------------------------
(* What a filter leaves, and the lanes of rows.                            *)

\* Numbers from the least on, and what of a sequence is at some of its places.
InOrder(is) == [k \in 1 .. Cardinality(is) |-> CHOOSE i \in is : Cardinality({j \in is : j < i}) = k - 1]
At(s, is)   == LET ks == InOrder(is) IN [k \in DOMAIN ks |-> s[ks[k]]]

Ends(c, n) == {Frames[c][n].src, Frames[c][n].dst} \ {NoAddress}

Term(names, value, link) == [names |-> names, value |-> value, link |-> link]
NoTerm == Term({}, NoAddress, FALSE)

Finds(t, c, n) ==
  /\ \E f \in t.names : <<f, t.value>> \in Frames[c][n].has
  /\ t.link => ~Frames[c][n].net

View(c, fs) == InOrder({n \in DOMAIN Frames[c] : \A t \in fs : ~Finds(t, c, n)})

PageRows(c, fs, p) ==
  LET rows == View(c, fs)
      last == IF Len(rows) < (p + 1) * PAGE THEN Len(rows) ELSE (p + 1) * PAGE
  IN  [i \in 1 .. last - p * PAGE |-> rows[p * PAGE + i]]

Absent  == [is |-> "absent", of |-> NoAddress, rows |-> <<>>]
Pending == [Absent EXCEPT !.is = "pending"]
Blank   == [p \in 0 .. MaxPage |-> Absent]

\* arrange: those that were put somewhere in that order, the rest behind them as they
\* were (the sort is stable).
Arrange(ns) ==
  IF order = <<>> THEN ns
  ELSE At(order, {i \in DOMAIN order : order[i] \in Range(ns)})
       \o At(ns, {i \in DOMAIN ns : ns[i] \notin Range(order)})

\* nodes: the addresses of rows that have no lane yet, in the order of the rows.
Added(c, rows) ==
  LET as == [i \in 1 .. 2 * Len(rows) |->
               IF i % 2 = 1 THEN Frames[c][rows[(i + 1) \div 2]].src ELSE Frames[c][rows[i \div 2]].dst]
  IN  nodes \o At(as, {i \in DOMAIN as : /\ as[i] \notin Range(nodes) \cup {NoAddress}
                                        /\ \A j \in 1 .. i - 1 : as[j] # as[i]})

NodesUnarranged(c, rows) == Added(c, rows)

Nodes(c, rows) == IF Added(c, rows) = nodes THEN nodes ELSE Arrange(Added(c, rows))

----------------------------------------------------------------------------

Acts == acts < MaxActs /\ acts' = acts + 1

Init ==
  /\ file \in Capture /\ filter \in Linked
  /\ pages = Blank /\ nodes = <<>> /\ order = <<>> /\ drag = NoAddress
  /\ hides = <<>> /\ checks = <<>> /\ net = <<>>
  /\ acts = 0

\* rewind: the lanes are the pages', and go with them.
Rewind == pages' = Blank /\ nodes' = <<>>

PageReq(over, p) == [of |-> file, over |-> over, page |-> p]

\* openCapture, with the filter of a link, and the list between the two left out.
Open(c) ==
  /\ Acts
  /\ file' = c /\ filter' \in Linked /\ order' = <<>>
  /\ Rewind
  /\ UNCHANGED <<drag, hides, checks, net>>

\* fetchPage, for a row that is drawn and not there, which may be past the last a filter
\* leaves; and its answer, whatever is on screen by then.
FetchPage(p) ==
  /\ pages[p] = Absent /\ Len(net) < MaxPages
  /\ p * PAGE < Len(View(file, filter)) + (IF filter = {} THEN 0 ELSE PAGE)
  /\ pages' = [pages EXCEPT ![p] = Pending]
  /\ net' = Append(net, PageReq(filter, p))
  /\ UNCHANGED <<file, filter, nodes, order, drag, hides, checks, acts>>

PageArrives(k) ==
  LET rows == PageRows(net[k].of, net[k].over, net[k].page) IN
  /\ pages' = [pages EXCEPT ![net[k].page] = [is |-> "rows", of |-> net[k].of, rows |-> rows]]
  /\ nodes' = Nodes(net[k].of, rows)
  /\ net' = RemoveAt(net, k)
  /\ UNCHANGED <<file, filter, order, drag, hides, checks, acts>>

PageFails(k) ==
  /\ "page" \in Failing
  /\ pages' = [pages EXCEPT ![net[k].page] = Absent]
  /\ net' = RemoveAt(net, k)
  /\ UNCHANGED <<file, filter, nodes, order, drag, hides, checks, acts>>

----------------------------------------------------------------------------
(* Moving a lane.                                                          *)

\* While a lane is held everything else goes on.
Drag(a) ==
  /\ Acts
  /\ drag = NoAddress /\ a \in Range(nodes)
  /\ drag' = a
  /\ UNCHANGED <<file, filter, pages, nodes, order, hides, checks, net>>

\* place, while it is held over the lane to; it may have gone meanwhile.
Place(to) ==
  /\ Acts
  /\ drag # NoAddress
  /\ drag \in Range(nodes) /\ nodes[to] # drag
  /\ nodes' = InsertAt(At(nodes, {i \in DOMAIN nodes : nodes[i] # drag}), to, drag)
  /\ order' = nodes'
  /\ UNCHANGED <<file, filter, pages, drag, hides, checks, net>>

Dropped ==
  /\ drag # NoAddress
  /\ drag' = NoAddress
  /\ UNCHANGED <<file, filter, pages, nodes, order, hides, checks, net, acts>>

----------------------------------------------------------------------------
(* Taking a lane out.                                                      *)

\* filter from its text on: the first page of the new view is asked for at once.
Refilter(fs) ==
  /\ filter' = fs
  /\ nodes' = <<>>
  /\ pages' = [Blank EXCEPT ![0] = Pending]
  /\ net' = Append(net, PageReq(fs, 0))

\* filter, up to its await; fs is nothing where the box is emptied, and t is the term it
\* was put together for, if there is one.
Filter(j, t, fs) ==
  IF fs = {} THEN Refilter(fs) /\ UNCHANGED checks
  ELSE
    /\ Len(checks) < MaxOut
    /\ checks' = Append(checks, [hide |-> j, term |-> t, text |-> fs])
    /\ UNCHANGED viewVars

\* hide with its term: whatever the filter is by now, less what the term finds.
HideBy(j, t) == Filter(j, t, filter \cup {t})

\* guess, for want of a field: a name has none.
HidesByGuess(j) ==
  LET kind == Kind[j.addr] IN
  IF kind = "name" THEN UNCHANGED <<viewVars, checks>>
  ELSE HideBy(j, Term({Guess[kind]}, j.addr, kind = "mac"))

\* addrTerm: a mac in the columns is of a frame with nothing above the link layer.
TermOfAnyLayer(names, value) == Term(names, value, FALSE)

TermOf(names, value) == Term(names, value, Kind[value] = "mac")

\* holder: the first field that holds the address, or whose label shows it.
Holders(c, n, addr) ==
  {i \in DOMAIN Frames[c][n].fields :
     LET f == Frames[c][n].fields[i] IN Kind[f.value] # "name" /\ addr \in {f.value} \cup f.shows}

Holder(c, n, addr) ==
  Frames[c][n].fields[CHOOSE i \in Holders(c, n, addr) : \A j \in Holders(c, n, addr) : i <= j]

\* ends: the spelling of a field tried next, or the one the frame had.
Tries(hit, at) == IF at = "both" THEN Both[hit.name] ELSE Other[hit.name]
Spelt(hit, at) == IF at = "both" THEN {Both[hit.name]} ELSE {hit.name, Other[hit.name]}

\* Where the search goes once spelling at has been passed over: "" where it is over.
After(hit, at) ==
  IF at = "" /\ Both[hit.name] # NoField THEN "both"
  ELSE IF at \in {"", "both"} /\ Other[hit.name] # NoField THEN "other" ELSE "one"

GoesOn(k, j, hit, at) ==
  LET next == After(hit, at) IN
  IF next = "one"
  THEN HideBy([j EXCEPT !.hit = hit], TermOf({hit.name}, hit.value)) /\ hides' = RemoveAt(hides, k)
  ELSE hides' = [hides EXCEPT ![k] = [j EXCEPT !.at = next, !.hit = hit]]
       /\ UNCHANGED <<viewVars, checks>>

\* The frames using finds in the pages there are: it takes one of them.
Using(addr) ==
  UNION {{<<pages[p].of, n>> : n \in {m \in Range(pages[p].rows) : addr \in Ends(pages[p].of, m)}} :
    p \in {q \in DOMAIN pages : pages[q].is = "rows"}}

NoHit == [name |-> NoField, value |-> NoAddress]

\* lost is no part of it: what sharkd said of a spelling has not come back.
NoHide == [addr |-> NoAddress, of |-> file, num |-> 0, at |-> "frame", hit |-> NoHit, lost |-> FALSE]

\* The x of a lane.  The frame is asked of the capture that is open, by its number.
Hide(a) ==
  LET j == [NoHide EXCEPT !.addr = a] IN
  /\ Acts
  /\ a \in Range(nodes)
  /\ IF Using(a) = {} THEN HidesByGuess(j) /\ UNCHANGED hides
     ELSE /\ Len(hides) < MaxOut
          /\ \E u \in Using(a) : hides' = Append(hides, [j EXCEPT !.num = u[2]])
          /\ UNCHANGED <<viewVars, checks>>
  /\ UNCHANGED <<file, order, drag>>

FrameArrives(k) ==
  LET j == hides[k] IN
  /\ j.at = "frame" /\ j.num \in DOMAIN Frames[j.of]
  /\ IF Holders(j.of, j.num, j.addr) = {}
     THEN HidesByGuess(j) /\ hides' = RemoveAt(hides, k)
     ELSE LET f == Holder(j.of, j.num, j.addr)
          IN  GoesOn(k, j, [name |-> f.name, value |-> f.value], "")
  /\ UNCHANGED <<file, order, drag, acts>>

FrameFails(k) ==
  LET j == hides[k] IN
  /\ j.at = "frame"
  /\ "frame" \in Failing \/ j.num \notin DOMAIN Frames[j.of]
  /\ HidesByGuess(j)
  /\ hides' = RemoveAt(hides, k)
  /\ UNCHANGED <<file, order, drag, acts>>

\* compiles: what sharkd says of the spelling, the one lost taken for a no.
Compiles(k) ==
  LET j == hides[k] IN
  /\ j.at \in {"both", "other"}
  /\ Tries(j.hit, j.at) \in Fields
  /\ HideBy(j, TermOf(Spelt(j.hit, j.at), j.hit.value))
  /\ hides' = RemoveAt(hides, k)
  /\ UNCHANGED <<file, order, drag, acts>>

CompilesNot(k) ==
  LET j == hides[k] IN
  /\ j.at \in {"both", "other"}
  /\ \/ Tries(j.hit, j.at) \notin Fields /\ GoesOn(k, j, j.hit, j.at)
     \/ "check" \in Failing /\ GoesOn(k, [j EXCEPT !.lost = TRUE], j.hit, j.at)
  /\ UNCHANGED <<file, order, drag, acts>>

\* The box edited: a term taken out of it is a lane that comes back.
Edit(fs) ==
  /\ Acts
  /\ Filter(NoHide, NoTerm, fs)
  /\ UNCHANGED <<file, order, drag, hides>>

\* filter, once its text has compiled, which it does if it is answered.
Filters(k) ==
  /\ Refilter(checks[k].text)
  /\ checks' = RemoveAt(checks, k)
  /\ UNCHANGED <<file, order, drag, hides, acts>>

FiltersNot(k) ==
  /\ "check" \in Failing
  /\ checks' = RemoveAt(checks, k)
  /\ UNCHANGED <<file, filter, pages, nodes, order, drag, hides, net, acts>>

----------------------------------------------------------------------------

Answers ==
  \/ \E k \in DOMAIN net : PageArrives(k) \/ PageFails(k)
  \/ \E k \in DOMAIN hides : FrameArrives(k) \/ FrameFails(k) \/ Compiles(k) \/ CompilesNot(k)
  \/ \E k \in DOMAIN checks : Filters(k) \/ FiltersNot(k)

User ==
  \/ \E c \in Capture : Open(c)
  \/ \E p \in 0 .. MaxPage : FetchPage(p)
  \/ \E a \in Address : Drag(a) \/ Hide(a)
  \/ \E to \in DOMAIN nodes : Place(to)
  \/ Dropped
  \/ \E fs \in SUBSET filter : Edit(fs)

Next == Answers \/ User

Spec == Init /\ [][Next]_vars

----------------------------------------------------------------------------
(* Properties.                                                             *)

TypeOK ==
  /\ file \in Capture /\ drag \in Address \cup {NoAddress}
  /\ DOMAIN pages = 0 .. MaxPage
  /\ nodes \in Seq(Address) /\ order \in Seq(Address)
  /\ acts \in 0 .. MaxActs

\* Every row that is drawn has a lane for each of its ends and no address has two.  S.order
\* is the lanes as they stood on screen when one was last moved, and what there is of them
\* is on screen in that order and before the rest, whatever pages and filters came since -
\* a lane that a filter had taken out when another was moved is not among them, wherever
\* it had been put, and comes back behind those that are (nodes, place, arrange).
LanesRight ==
  /\ TypeOK
  /\ IsInjective(nodes)
  /\ \A p \in DOMAIN pages : \A n \in Range(pages[p].rows) : Ends(pages[p].of, n) \subseteq Range(nodes)
  /\ IsPrefix(At(order, {i \in DOMAIN order : order[i] \in Range(nodes)}), nodes)

\* What a lane's label may stand for: itself, or what is in a field that shows it.
StandsFor(addr, v) ==
  \/ v = addr
  \/ \E c \in Capture : \E n \in DOMAIN Frames[c] : \E g \in Range(Frames[c][n].fields) :
       g.value = v /\ addr \in g.shows

\* A frame has v at an end the columns show, or in a header they do not; a mac below the
\* network layer is neither.
IsOf(c, n, v) ==
  \/ v \in Frames[c][n].carries
  \/ \E g \in Range(Frames[c][n].fields) : g.value = v /\ ({v} \cup g.shows) \cap Ends(c, n) # {}

\* The frames a lane draws that have its address where hide j found it - in the field of
\* that name, or in that of the other end unless an answer about the names was lost.
Held(j, c, n) ==
  \E g \in Range(Frames[c][n].fields) :
    /\ g.value = j.hit.value /\ j.addr \in {g.value} \cup g.shows /\ j.addr \in Ends(c, n)
    /\ g.name \in {j.hit.name} \cup (IF j.lost THEN {} ELSE {Other[j.hit.name]})

\* When the filter a lane's x asked for is in place, no frame is left in view that the lane
\* draws from the field its address was found in, at either end of it; and its term finds
\* no frame that has nothing of the address - a mac's not the traffic over the same link,
\* which has lanes of its own.  That is so however many questions the term takes, and
\* whatever is lost, asked, answered, moved, edited and opened meanwhile (hide, addrTerm,
\* linkOnly, holder, ends).  It is less than "the clause matching the frames a node column
\* drew": frames of another encapsulation, that have the address in another field, are
\* left, all of them where the field had to be guessed; a frame goes that has it in a
\* tunnel's header or quotes it in an ICMP error; and the text is put together over the
\* filter there was, so what was filtered on meanwhile is undone by it.
HidesItsLane ==
  [][\A k \in DOMAIN checks :
       LET j == checks[k].hide
           t == checks[k].term
       IN  j.addr # NoAddress /\ Filters(k) =>
             /\ \A n \in Range(View(file, filter')) : ~Held(j, file, n)
             /\ \A n \in DOMAIN Frames[file] :
                  Finds(t, file, n) => \E v \in Address : StandsFor(j.addr, v) /\ IsOf(file, n, v)]_vars
=============================================================================

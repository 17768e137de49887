---------------------------- MODULE OperatorPage ----------------------------
(***************************************************************************)
(* The operator's page (operator/internal/ui/web/app.js) over the API the  *)
(* operator serves it (ui.go): the pods polled from the cluster, the       *)
(* search and the ticks that say which of them a capture is of, the        *)
(* captures made, paused and deleted, the cards they are shown as.         *)
(*                                                                         *)
(* The page is one thread of handlers over requests that are answered in   *)
(* any order or fail; the cluster goes its own way meanwhile.  What a      *)
(* capture is of is told as the controller's targets() reads the object.   *)
(* Left out: the frame that shows webshark, toasts, and all of a capture's *)
(* form that is handed on as typed.                                        *)
(***************************************************************************)
EXTENDS Integers, Sequences, FiniteSets, SequencesExt, FiniteSetsExt, TLC

CONSTANTS
  Namespace, NoNamespace,
  Pod,        \* pods, a name in a namespace
  PodOrder,   \* all of them by namespace and name
  ListOrder,  \* all of them as the API lists them, by name
  NsOf, NameOf,            \* [p]: where it is and what it is called there
  Letter,     \* what names, labels and words are made of, a slash one of them
  NsText, NameText, Labels, \* letters, for the search: Labels[p] is a set of texts
  Query,      \* the texts of the search box
  Blank,      \* the empty one
  Words,      \* [q]: its words as letters, none for a selector
  Selects,    \* [q]: the pods a selector picks, all of them for the rest
  Malformed,  \* the selectors the API refuses to parse
  Webshark, WsOf,          \* in the order the API lists them; where each is
  NoWebshark,
  Name,       \* the names captures get
  DefaultTargets,          \* 10 in the code
  Starts,     \* [ns, phase]: the namespace remembered, and what the pods do, as the page is opened
  Asked,      \* the places of refreshes out at once, numbers (bound)
  MaxEvents   \* things the user does and things that happen in the cluster (bound)

IsSelector(q) == Words[q] = <<>> /\ q # Blank
Selector(q)   == IF IsSelector(q) THEN q ELSE Blank

ASSUME OperatorPageAssumption ==
  /\ PodOrder \in Seq(Pod) /\ Range(PodOrder) = Pod /\ IsInjective(PodOrder)
  /\ ListOrder \in Seq(Pod) /\ Range(ListOrder) = Pod /\ IsInjective(ListOrder)
  /\ NsOf \in [Pod -> Namespace] /\ NoNamespace \notin Namespace
  /\ \A p, r \in Pod : NsOf[p] = NsOf[r] /\ NameOf[p] = NameOf[r] => p = r
  /\ Blank \in Query /\ Words[Blank] = <<>> /\ Selects[Blank] = Pod
  /\ \A q \in Query : Selects[q] \subseteq Pod /\ (~IsSelector(q) => Selects[q] = Pod)
  /\ Malformed \subseteq {q \in Query : IsSelector(q)}
  /\ Webshark \in Seq(Range(Webshark)) /\ IsInjective(Webshark) /\ NoWebshark \notin Range(Webshark)
  /\ \A i \in DOMAIN Webshark : WsOf[Webshark[i]] \in Namespace
  /\ "/" \in Letter /\ NsText \in [Namespace -> Seq(Letter)] /\ NameText \in [Pod -> Seq(Letter)]
  /\ \A p \in Pod : Labels[p] \subseteq Seq(Letter) /\ IsFiniteSet(Labels[p])
  /\ \A q \in Query : Words[q] \in Seq(Seq(Letter) \ {<<>>})
  /\ Starts \subseteq [ns : Namespace \cup {NoNamespace}, phase : [Pod -> {"running", "stopped", "gone"}]]
  /\ Asked \subseteq Nat /\ Asked # {} /\ IsFiniteSet(Asked)
  /\ MaxEvents \in Nat /\ DefaultTargets \in Nat \ {0}

----------------------------------------------------------------------------
(* Searching.                                                              *)

\* podName: as its row shows it.
PodText(p, n) == IF n # NoNamespace THEN NameText[p] ELSE NsText[NsOf[p]] \o <<"/">> \o NameText[p]

Least(a, b) == IF a < b THEN a ELSE b

Places(text, letter, from) == {i \in from .. Len(text) : text[i] = letter}

StartsWord(text, i) == i = 1 \/ text[i - 1] \in {"-", "_", ".", "/", "=", ":"}

NoMatch   == [score |-> 0, from |-> 0, run |-> 0]
Unmatched == [NoMatch EXCEPT !.from = 1]

\* align: every letter after the first taken where it first can be.
AlignLetter(word, text, start, i, m) ==
  LET places == IF i = 1 THEN {start} ELSE Places(text, word[i], m.from)
      at     == Min(places)
      run    == IF at = m.from /\ m.from > 1 THEN m.run + 1 ELSE 0
  IN  IF m = NoMatch \/ places = {} THEN NoMatch
      ELSE [score |-> m.score + 10 + 6 * run - Least(at - m.from, 12)
                        + (IF StartsWord(text, at) THEN 8 ELSE 0),
            from |-> at + 1, run |-> run]

Align(word, text, start) ==
  LET m[i \in 0 .. Len(word)] == IF i = 0 THEN Unmatched ELSE AlignLetter(word, text, start, i, m[i - 1])
  IN  m[Len(word)]

\* fuzzy: from every place its first letter appears.  The scores of the matches.
Fuzzy(word, text) ==
  {m.score : m \in {Align(word, text, at) : at \in Places(text, Head(word), 1)} \ {NoMatch}}

\* What a word scores for a pod: its best in the name, which counts double, or in a label.
WordScores(word, p, n) ==
  {2 * s : s \in Fuzzy(word, PodText(p, n))} \cup UNION {Fuzzy(word, l) : l \in Labels[p]}

\* What the words of a search score together.  Every one has to be somewhere.
TotalOfAny(q, p, n) ==
  LET best(i) == WordScores(Words[q][i], p, n) IN
  [found |-> \E i \in DOMAIN Words[q] : best(i) # {},
   score |-> 0]

Total(q, p, n) ==
  LET best(i) == WordScores(Words[q][i], p, n)
      sum[i \in 0 .. Len(Words[q])] == IF i = 0 THEN 0 ELSE sum[i - 1] + Max(best(i))
      found == \A i \in DOMAIN Words[q] : best(i) # {} IN
  [found |-> found, score |-> IF found THEN sum[Len(Words[q])] ELSE 0]

View  == Namespace \cup {NoNamespace}
Found == {x \in Query \X View \X Pod : Total(x[1], x[3], x[2]).found}

Rank(p, order) == CHOOSE i \in DOMAIN order : order[i] = p

\* What comes before what in a list; and what is in a set, as in the list.
InOrder(order) == {xy \in Range(order) \X Range(order) : Rank(xy[1], order) < Rank(xy[2], order)}
AllOf(S)       == [1 .. Cardinality(S) -> S]
Listed(S, before) == CHOOSE s \in AllOf(S) : \A i, j \in DOMAIN s : i < j => <<s[i], s[j]>> \in before

\* The order of the names as they are shown.
NameOrder(n) == IF n = NoNamespace THEN PodOrder ELSE ListOrder

Above(a, b, q, n) ==
  LET left == Total(q, a.pod, n).score  right == Total(q, b.pod, n).score IN
  IF a.running # b.running THEN a.running
  ELSE IF left # right THEN left > right
  ELSE Rank(a.pod, NameOrder(n)) < Rank(b.pod, NameOrder(n))

Row   == [pod : Pod, running : BOOLEAN]
Ahead == {x \in Query \X View \X Row \X Row : Above(x[3], x[4], x[1], x[2])}

\* search: a selector, or nothing, leaves the pods as they were listed.
Search(rows, q, n) ==
  IF Words[q] = <<>> THEN rows
  ELSE LET found == {r \in Range(rows) : <<q, n, r.pod>> \in Found}
       IN  CHOOSE s \in AllOf(found) :
             \A i, j \in DOMAIN s : i < j => <<q, n, s[i], s[j]>> \in Ahead

----------------------------------------------------------------------------

VARIABLES
  cluster,   \* [phase: each pod's, sharks, objs: the PacketCaptures by name]
  ns, query, picked, webshark,   \* S.ns, S.query, S.picked, S.webshark
  all,       \* the box that ticks every row in view
  pods,      \* S.pods: [pod, running]
  shown,     \* S.shown, as painted
  listed,    \* the selector S.pods was asked for with
  sharks,    \* S.websharks
  go,        \* what the Capture button says, as count() last left it
  cards,     \* the cards painted: [open, paused, there], by name
  folds,     \* S.folds: "" where nothing is said
  typing,    \* the timer a selector that is typed waits for
  asked,     \* refreshes out: [ns, sel, saw], saw what the cluster has been since
  writes,    \* creations, pauses and deletions on their way: [kind, body, done]
  events     \* what the user and the cluster have done, counted

listVars == <<pods, shown, listed, sharks>>
cardVars == <<cards, folds>>
userVars == <<ns, query, picked, webshark, all>>
vars == <<cluster, userVars, listVars, go, cardVars, typing, asked, writes, events>>

NoRequest == [ns |-> NoNamespace, sel |-> Blank, saw |-> {}]
NoCard    == [there |-> FALSE, open |-> FALSE, paused |-> FALSE]
NoCapture == [there |-> FALSE]

Running(rows) == {p \in Pod : \E r \in Range(rows) : r.pod = p /\ r.running}
Stopped(rows) == {p \in Pod : \E r \in Range(rows) : r.pod = p /\ ~r.running}

\* matched: the pods an unticked Capture takes by name.
Matched(q, rows) == IF Words[q] = <<>> THEN {} ELSE Running(rows)

\* count: what the button says it takes, and whether it can be pressed.
Says(pk, rows, q, ws) ==
  LET take == IF pk # {} THEN Cardinality(pk) ELSE Cardinality(Matched(q, rows)) IN
  [take |-> take,
   else |-> IF take > 0 THEN "pods" ELSE IF IsSelector(q) THEN "what matches"
            ELSE IF q # Blank THEN "" ELSE "everything",
   off  |-> ws = <<>> \/ (Words[q] # <<>> /\ take = 0)]

\* paintPods: ticks of pods that have stopped go, and the search is made again.
PaintPods(rows, pk, q, ws) ==
  /\ picked' = pk \ Stopped(rows)
  /\ shown' = Search(rows, q, ns)
  /\ go' = Says(picked', shown', q, ws)

OpensByItself(fs, o, n) == o.capturing

\* paintCaptures: a card opens itself while it captures, and after that is as it was
\* left - the toggle a card painted open makes says so.  Without captures nothing is
\* done about the folds.
Opens(fs, o, n) == IF fs[n] = "" THEN o.capturing ELSE fs[n] = "open"

CardsOf(fs, objs) ==
  [n \in Name |->
    IF objs[n] = NoCapture THEN NoCard
    ELSE [there |-> TRUE, open |-> Opens(fs, objs[n], n), paused |-> objs[n].paused]]

PaintCaptures(objs) ==
  /\ cards' = CardsOf(folds, objs)
  /\ folds' = IF \A n \in Name : objs[n] = NoCapture THEN folds
              ELSE [n \in Name |-> IF objs[n] = NoCapture THEN ""
                                   ELSE IF Opens(folds, objs[n], n) THEN "open" ELSE folds[n]]

RowsInOrder   == {ab \in Row \X Row : <<ab[1].pod, ab[2].pod>> \in InOrder(ListOrder)}
SharksInOrder == InOrder(Webshark)

\* What the API answers: pods(), by namespace and selector, and the rest.
PodsOf(c, n, sel) ==
  LET there == {p \in Selects[sel] : c.phase[p] # "gone" /\ n \in {NoNamespace, NsOf[p]}}
  IN  Listed({[pod |-> p, running |-> c.phase[p] = "running"] : p \in there}, RowsInOrder)

SharksOf(c) == Listed(c.sharks, SharksInOrder)

Becomes(c) ==
  /\ cluster' = c
  /\ asked' = [k \in Asked |-> IF asked[k] = NoRequest THEN NoRequest
                               ELSE [asked[k] EXCEPT !.saw = @ \cup {c}]]

RefreshListed(n) ==
  \E k \in Asked :
    /\ asked[k] = NoRequest /\ \A j \in Asked : asked[j] = NoRequest => k <= j
    /\ asked' = [asked EXCEPT ![k] = [ns |-> n, sel |-> listed, saw |-> {cluster}]]

\* refresh, up to its await.
Refresh(n) ==
  \E k \in Asked :
    /\ asked[k] = NoRequest /\ \A j \in Asked : asked[j] = NoRequest => k <= j
    /\ asked' = [asked EXCEPT ![k] = [ns |-> n, sel |-> Selector(query), saw |-> {cluster}]]

Act == events < MaxEvents /\ events' = events + 1

Init ==
  /\ \E s \in Starts :
       /\ ns = s.ns
       /\ cluster = [phase |-> s.phase, sharks |-> Range(Webshark), objs |-> [n \in Name |-> NoCapture]]
  /\ query = Blank /\ picked = {} /\ all = FALSE
  /\ webshark = NoWebshark
  /\ pods = <<>> /\ shown = <<>> /\ listed = Blank /\ sharks = <<>>
  /\ go = [take |-> 0, else |-> "", off |-> FALSE]
  /\ cards = [n \in Name |-> NoCard] /\ folds = [n \in Name |-> ""]
  /\ typing = FALSE /\ writes = <<>>
  /\ asked = [k \in Asked |->
       IF k = Min(Asked) THEN [ns |-> ns, sel |-> Blank, saw |-> {cluster}] ELSE NoRequest]
  /\ events = 0

----------------------------------------------------------------------------
(* The polling loop.                                                       *)

\* The interval, when no other read is out (bound).
Poll ==
  /\ \A k \in Asked : asked[k] = NoRequest
  /\ Refresh(ns)
  /\ UNCHANGED <<cluster, userVars, listVars, go, cardVars, typing, writes, events>>

\* paintWebsharks: the one chosen, or the first where it is not there any longer.
Chosen(ws) == IF webshark \in Range(ws) THEN webshark
              ELSE IF ws = <<>> THEN NoWebshark ELSE Head(ws)

\* refresh's answers, all three of them, each from any moment since they were asked for.
RefreshArrives(k) ==
  /\ asked[k] # NoRequest /\ asked[k].sel \notin Malformed
  /\ asked' = [asked EXCEPT ![k] = NoRequest]
  /\ UNCHANGED <<cluster, ns, query, typing, writes, events>>
  /\ all' = FALSE
  /\ listed' = asked[k].sel
  /\ \E c \in asked[k].saw : pods' = PodsOf(c, asked[k].ns, asked[k].sel)
  /\ \E c \in asked[k].saw : sharks' = SharksOf(c)
  /\ webshark' = Chosen(sharks')
  /\ PaintPods(pods', picked, query, sharks')
  /\ \E c \in asked[k].saw : PaintCaptures(c.objs)

\* tick: a blip, or a selector that does not parse, leaves the page as it was.
RefreshFails(k) ==
  /\ asked[k] # NoRequest
  /\ asked' = [asked EXCEPT ![k] = NoRequest]
  /\ UNCHANGED <<cluster, userVars, listVars, go, cardVars, typing, writes, events>>

----------------------------------------------------------------------------
(* Finding pods and ticking them.                                          *)

\* What is typed narrows the rows at once; a selector is left to a timer to ask for.
Type(q) ==
  /\ Act
  /\ query' = q
  /\ PaintPods(pods, picked, q, sharks)
  /\ all' = FALSE
  /\ typing' = (typing \/ Selector(q) # listed)
  /\ UNCHANGED <<cluster, ns, webshark, pods, listed, sharks, cardVars, asked, writes>>

Typed ==
  /\ typing /\ typing' = FALSE
  /\ Refresh(ns)
  /\ UNCHANGED <<cluster, userVars, listVars, go, cardVars, writes, events>>

\* Another namespace: the ticks go; rows and button stay as they are until the answer.
ChangeNamespace(n) ==
  /\ Act
  /\ ns' = n /\ picked' = {}
  /\ Refresh(n)
  /\ UNCHANGED <<cluster, query, webshark, all, listVars, go, cardVars, typing, writes>>

ChooseWebshark(w) ==
  /\ Act /\ w \in Range(sharks)
  /\ webshark' = w
  /\ go' = Says(picked, shown, query, sharks)
  /\ UNCHANGED <<cluster, ns, query, picked, all, listVars, cardVars, typing, asked, writes>>

Tick(p) ==
  /\ Act /\ p \in Running(shown)
  /\ picked' = IF p \in picked THEN picked \ {p} ELSE picked \cup {p}
  /\ go' = Says(picked', shown, query, sharks)
  /\ UNCHANGED <<cluster, ns, query, webshark, all, listVars, cardVars, typing, asked, writes>>

TickAll ==
  /\ Act
  /\ all' = ~all
  /\ PaintPods(pods, IF all' THEN picked \cup Running(shown) ELSE picked \ Running(shown), query, sharks)
  /\ UNCHANGED <<cluster, ns, query, webshark, pods, listed, sharks, cardVars, typing, asked, writes>>

----------------------------------------------------------------------------
(* Captures.                                                               *)

Spaces(ps) == {NsOf[p] : p \in ps}

BodyWide ==
  LET meant == IF picked # {} THEN picked ELSE Matched(query, shown)
      wide  == Cardinality(Spaces(meant)) > 1 \/ ns = NoNamespace
  IN  [ns    |-> IF wide THEN (IF webshark # NoWebshark THEN WsOf[webshark]
                               ELSE IF meant = {} THEN NoNamespace ELSE CHOOSE n \in Spaces(meant) : TRUE)
                 ELSE IF meant # {} THEN CHOOSE n \in Spaces(meant) : TRUE ELSE ns,
       wide  |-> wide,
       names |-> {NameOf[p] : p \in meant},
       sel   |-> Selector(query),
       max   |-> Max({DefaultTargets, Cardinality(meant)}),
       meant |-> meant]

\* What is asked of the API when Capture is pressed.  The pods of one namespace put the
\* object there; of several, or a selector over them all, next to its Webshark, and widen
\* it to every namespace.  meant is no part of it: the pods the page says it is of.
Body ==
  LET meant == IF picked # {} THEN picked ELSE Matched(query, shown)
      wide  == Cardinality(Spaces(meant)) > 1 \/ (meant = {} /\ ns = NoNamespace)
  IN  [ns    |-> IF wide THEN (IF webshark # NoWebshark THEN WsOf[webshark]
                               ELSE IF meant = {} THEN NoNamespace ELSE CHOOSE n \in Spaces(meant) : TRUE)
                 ELSE IF meant # {} THEN CHOOSE n \in Spaces(meant) : TRUE ELSE ns,
       wide  |-> wide,
       names |-> {NameOf[p] : p \in meant},
       sel   |-> Selector(query),
       max   |-> Max({DefaultTargets, Cardinality(meant)}),
       meant |-> meant]

Write(w) ==
  /\ writes' = Append(writes, w)
  /\ UNCHANGED <<cluster, userVars, listVars, go, cardVars, typing, asked>>

Submit ==
  /\ Act /\ ~go.off
  /\ Body.ns # NoNamespace
  /\ Write([kind |-> "create", body |-> Body, done |-> FALSE])

\* The buttons of a card: pause, or resume, as it was painted, and delete.
Pause(n) ==
  /\ Act /\ cards[n].there
  /\ Write([kind |-> "pause", body |-> [name |-> n, paused |-> ~cards[n].paused], done |-> FALSE])

Delete(n) ==
  /\ Act /\ cards[n].there
  /\ Write([kind |-> "delete", body |-> [name |-> n], done |-> FALSE])

Fold(n) ==
  /\ Act /\ cards[n].there
  /\ cards' = [cards EXCEPT ![n].open = ~@]
  /\ folds' = [folds EXCEPT ![n] = IF cards[n].open THEN "shut" ELSE "open"]
  /\ UNCHANGED <<cluster, userVars, listVars, go, typing, asked, writes>>

\* create, pause, delete: what the server does with them.
Created(b) ==
  [there |-> TRUE, paused |-> FALSE, capturing |-> FALSE, ns |-> b.ns, wide |-> b.wide,
   names |-> b.names, sel |-> b.sel, max |-> b.max, meant |-> b.meant]

CarryOut(i) ==
  LET w == writes[i] IN
  /\ ~w.done
  /\ \/ /\ w.kind = "create"
        /\ \E n \in Name : /\ cluster.objs[n] = NoCapture
                          /\ Becomes([cluster EXCEPT !.objs[n] = Created(w.body)])
     \/ /\ w.kind = "pause" /\ cluster.objs[w.body.name] # NoCapture
        /\ Becomes([cluster EXCEPT !.objs[w.body.name].paused = w.body.paused])
     \/ /\ w.kind = "delete" /\ cluster.objs[w.body.name] # NoCapture
        /\ Becomes([cluster EXCEPT !.objs[w.body.name] = NoCapture])
  /\ writes' = [writes EXCEPT ![i].done = TRUE]
  /\ UNCHANGED <<userVars, listVars, go, cardVars, typing, events>>

\* It is answered: a creation takes the ticks with it, and the button stays as it is;
\* either way the page is read again.
Answered(i) ==
  /\ writes[i].done
  /\ writes' = RemoveAt(writes, i)
  /\ picked' = IF writes[i].kind = "create" THEN {} ELSE picked
  /\ UNCHANGED <<ns, query>>
  /\ Refresh(ns)
  /\ UNCHANGED <<cluster, webshark, all, listVars, go, cardVars, typing, events>>

\* It is refused, or the answer is lost: a toast, and nothing else.
Fails(i) ==
  /\ writes' = RemoveAt(writes, i)
  /\ UNCHANGED <<cluster, userVars, listVars, go, cardVars, typing, asked, events>>

----------------------------------------------------------------------------
(* The cluster.                                                            *)

PodChanges(p) ==
  \E to \in {"running", "stopped", "gone"} \ {cluster.phase[p]} :
    Becomes([cluster EXCEPT !.phase[p] = to])

SharkChanges(w) ==
  Becomes([cluster EXCEPT !.sharks = IF w \in @ THEN @ \ {w} ELSE @ \cup {w}])

CaptureChanges(n) ==
  /\ cluster.objs[n] # NoCapture
  /\ Becomes([cluster EXCEPT !.objs[n].capturing = ~@])

Changes ==
  /\ Act
  /\ \/ \E p \in Pod : PodChanges(p)
     \/ \E w \in Range(Webshark) : SharkChanges(w)
     \/ \E n \in Name : CaptureChanges(n)
  /\ UNCHANGED <<userVars, listVars, go, cardVars, typing, writes>>

----------------------------------------------------------------------------

User ==
  \/ \E q \in Query : Type(q)
  \/ \E n \in View : ChangeNamespace(n)
  \/ \E w \in Range(Webshark) : ChooseWebshark(w)
  \/ \E p \in Pod : Tick(p)
  \/ TickAll \/ Submit
  \/ \E n \in Name : Pause(n) \/ Delete(n) \/ Fold(n)

Next ==
  \/ User \/ Poll \/ Typed
  \/ \E k \in Asked : RefreshArrives(k) \/ RefreshFails(k)
  \/ \E i \in DOMAIN writes : CarryOut(i) \/ Answered(i) \/ Fails(i)
  \/ Changes

Spec == Init /\ [][Next]_vars

\* The interval goes on; a read is answered or fails, and not for ever the latter.
FairSpec ==
  /\ Spec
  /\ WF_vars(Poll)
  /\ \A k \in Asked : /\ WF_vars(RefreshFails(k) \/ RefreshArrives(k))
                      /\ SF_vars(RefreshArrives(k))

----------------------------------------------------------------------------
(* Properties.                                                             *)

Bodies == [ns : Namespace, wide : BOOLEAN, names : SUBSET {NameOf[p] : p \in Pod}, sel : Query,
          max : Nat, meant : SUBSET Pod]

TypeOK ==
  /\ cluster.phase \in [Pod -> {"running", "stopped", "gone"}]
  /\ cluster.sharks \subseteq Range(Webshark)
  /\ \A n \in Name : cluster.objs[n] # NoCapture => cluster.objs[n].ns \in Namespace
  /\ ns \in View /\ query \in Query /\ listed \in Query
  /\ picked \subseteq Pod \ Stopped(pods)
  /\ webshark \in Range(sharks) \cup {NoWebshark} /\ (sharks # <<>> => webshark # NoWebshark)
  /\ pods \in Seq(Row) /\ shown \in Seq(Row)
  /\ go.take \in 0 .. Cardinality(Pod)
  /\ cards \in [Name -> [there : BOOLEAN, open : BOOLEAN, paused : BOOLEAN]]
  /\ folds \in [Name -> {"", "open", "shut"}]
  /\ all \in BOOLEAN /\ typing \in BOOLEAN
  /\ \A k \in Asked : asked[k] = NoRequest \/ asked[k].saw # {}
  /\ events \in 0 .. MaxEvents

\* A word is in a text: its letters in order, gaps allowed.
Spells(word, text) ==
  \E f \in [DOMAIN word -> DOMAIN text] :
    /\ \A i \in DOMAIN word : text[f[i]] = word[i]
    /\ \A i, j \in DOMAIN word : i < j => f[i] < f[j]

Spelled ==
  {x \in Query \X View \X Pod :
    \A i \in DOMAIN Words[x[1]] :
      \E text \in {PodText(x[3], x[2])} \cup Labels[x[3]] : Spells(Words[x[1]][i], text)}

\* The rows are the listed pods that have every word typed, in the name or in a label, as
\* the names read in the namespace they were painted for - and those a capture can be of
\* before the others, whatever was listed, typed and chosen since (search); and no pod that
\* was listed as stopped is ticked (TypeOK).
ShownIsFound ==
  /\ TypeOK
  /\ IF Words[query] = <<>> THEN shown = pods
     ELSE /\ \E n \in View : Range(shown) = {r \in Range(pods) : <<query, n, r.pod>> \in Spelled}
          /\ \A i, j \in DOMAIN shown : i < j /\ shown[j].running => shown[i].running
  /\ IsInjective(shown)

\* The pods a PacketCapture is of, as the controller finds them (targets).
Targets(o) ==
  LET of == {p \in Pod : /\ cluster.phase[p] = "running"
                         /\ o.wide \/ NsOf[p] = o.ns
                         /\ o.names = {} \/ NameOf[p] \in o.names
                         /\ p \in Selects[o.sel]}
  IN  {p \in of : Cardinality({q \in of : Rank(q, PodOrder) < Rank(p, PodOrder)}) < o.max}

Objects == {cluster.objs[n] : n \in Name} \ {NoCapture}

\* A pod that has the name of one that was meant.  Names are sent without namespaces.
Namesake(o, p) == \E q \in o.meant : NameOf[q] = NameOf[p]

\* A capture made of pods, ticked or found by a search, is of those that run and of no
\* other, whatever was typed, chosen and listed between the tick and the press and however
\* long ago the page last saw the cluster (the form's submit, targets) - but for two things
\* operator/README.md does not say.  A selector in the box at the press is sent along, and
\* takes out of what was ticked the pods it does not pick: ticked pods do not win over it.
\* Pods of several namespaces are looked for by name in all of them, so a namesake that was
\* not ticked is captured as well, and may use up the room of one that was.
CapturesWhatWasMeant ==
  \A o \in Objects :
    o.meant # {} =>
      LET running == {p \in Selects[o.sel] : cluster.phase[p] = "running"}
      IN  /\ Targets(o) \subseteq {p \in running : Namesake(o, p)}
          /\ \/ Cardinality(Spaces(o.meant)) = 1
             \/ \A p \in Pod : Namesake(o, p) => p \in o.meant
             => Targets(o) = o.meant \cap running

\* "A capture opens itself while it is running, and after that it is the reader's to open
\* and close": no answer, however it reads the capture, closes a card that is open or
\* opens one the reader has closed (paintCaptures).
CardsStay ==
  [][\A n \in Name :
       /\ cards[n].there /\ cards'[n].there /\ ~Fold(n)
       /\ cards[n].open \/ folds[n] = "shut"
       => cards'[n].open = cards[n].open]_vars

\* The page comes to show the cluster as it is: pods as the box and the namespace ask for
\* them, the captures there are, and a button that says what pressing it takes - unless
\* the box holds a selector the API refuses, and nothing is read any more (refresh).
Current ==
  /\ listed = Selector(query)
  /\ pods = PodsOf(cluster, ns, listed)
  /\ go = Says(picked, shown, query, SharksOf(cluster))
  /\ \A n \in Name : /\ cards[n].there = (cluster.objs[n] # NoCapture)
                    /\ cards[n].there => cards[n].paused = cluster.objs[n].paused

Converges == <>[](query \in Malformed \/ Current)
=============================================================================

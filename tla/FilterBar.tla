------------------------------ MODULE FilterBar ------------------------------
(***************************************************************************)
(* The display filter box of an open capture (src/web/app.js): the check   *)
(* of what is being typed, the field names offered for it, the quotes put  *)
(* around values that need them, and what ends up as the filter.           *)
(*                                                                         *)
(* A browser runs one handler at a time.  Every await is a job or a request*)
(* whose answer may come after anything else, or be an error.  A text is   *)
(* the sequence of the pieces the box cuts it into, with the caret behind  *)
(* the last.  Left out: the keys' names, focus, wording, and the rows.     *)
(***************************************************************************)
EXTENDS Integers, Sequences, FiniteSets, SequencesExt

CONSTANTS
  Word,        \* bare words: field names, values, connectives
  Typed,       \* the texts that are typed
  FieldText,   \* the filters of fields picked in a dissection
  Linked,      \* the filters captures are opened with: nothing, or what a link says
  Accepts,     \* the texts sharkd compiles
  TakesString, \* the words that name a field that holds a string
  Offers,      \* Offers[w]: the field names sharkd completes w to, in its order
  NoWord,
  Failing,     \* the kinds of request the server may refuse
  MaxJobs, MaxComps,   \* compilations and completions under way (bounds)
  MaxActs      \* things the user does (bound)

\* A piece that is no value and no word has none: its v is NoWord.
Pieces == [is : {"bare", "string", "op", "in", "{", ",", "}"}, v : Word \cup {NoWord}]
Text == Seq(Pieces)

ASSUME FilterBarAssumption ==
  /\ NoWord \notin Word /\ TakesString \subseteq Word
  /\ Typed \subseteq Text /\ FieldText \subseteq Text /\ Linked \subseteq Text
  /\ \A w \in Word : Offers[w] \in Seq(Word)
  /\ MaxJobs \in Nat /\ MaxComps \in Nat /\ MaxActs \in Nat

VARIABLES
  open,      \* whether a capture is open
  box,       \* the text of the box
  bad,       \* whether it is marked as no filter
  filter,    \* S.filter
  timer,     \* whether liveTimer is set
  jobs,      \* compile() under way: for whom, of which text, and how far
  stringy,   \* stringy: what is known of a field's type, or that it was asked
  asked,     \* compAsked
  wanted,    \* the field last asked for since the list was last closed (history)
  comps,     \* the fields whose completions are under way
  items,     \* compItems, with the list shown wherever there are any
  idx,       \* compIdx, 0 for none
  draft,     \* whether the box holds what was typed or picked since anything was
             \* filtered on, or refused (history)
  acts       \* what the user has done, counted

listVars == <<asked, wanted, comps, items, idx>>
boxVars == <<box, draft>>
vars == <<open, boxVars, bad, filter, timer, jobs, stringy, listVars, acts>>

----------------------------------------------------------------------------
(* Pieces of a filter, and the quotes that are put in.                     *)

Piece(is) == [is |-> is, v |-> NoWord]
Bare(w) == [is |-> "bare", v |-> w]
Str(w)  == [is |-> "string", v |-> w]
Compare == {"op", "in"}

\* requote, piece by piece: the field the next values are compared against, whether
\* there is a set of them, and the values found so far.
NothingFound == [field |-> NoWord, many |-> FALSE, found |-> {}]

StepAlwaysOne(text, i, at) ==
  LET t == text[i] IN
  IF t.is \in Compare
  THEN [at EXCEPT !.field = IF i > 1 /\ text[i - 1].is = "bare" THEN text[i - 1].v ELSE NoWord,
                  !.many = (t.is = "in")]
  ELSE IF at.field = NoWord \/ (at.many /\ t.is \in {"{", ","}) THEN at
  ELSE [field |-> NoWord, many |-> at.many,
        found |-> IF t.is = "bare" THEN at.found \cup {<<i, at.field>>} ELSE at.found]

StepOver(text, i, at) ==
  LET t == text[i] IN
  IF t.is \in Compare
  THEN [at EXCEPT !.field = IF i > 1 /\ text[i - 1].is = "bare" THEN text[i - 1].v ELSE NoWord,
                  !.many = (t.is = "in")]
  ELSE IF at.field = NoWord \/ (at.many /\ t.is \in {"{", ","}) THEN at
  ELSE [field |-> IF at.many /\ t.is = "bare" THEN at.field ELSE NoWord,
        many  |-> at.many,
        found |-> IF t.is = "bare" THEN at.found \cup {<<i, at.field>>} ELSE at.found]

Found(text) ==
  LET at[i \in 0 .. Len(text)] == IF i = 0 THEN NothingFound ELSE StepOver(text, i, at[i - 1])
  IN  at[Len(text)].found

FieldsOf(text) == {v[2] : v \in Found(text)}

Requoted(text, takes) ==
  LET quoted == {v[1] : v \in {u \in Found(text) : u[2] \in takes}}
  IN  [i \in DOMAIN text |-> IF i \in quoted THEN Str(text[i].v) ELSE text[i]]

\* fieldAt, with the caret at the end; and a text with that token replaced.
FieldAt(text) == IF text # <<>> /\ Last(text).is = "bare" THEN Last(text).v ELSE NoWord

Completed(text, w) ==
  IF FieldAt(text) = NoWord THEN Append(text, Bare(w)) ELSE Append(Front(text), Bare(w))

----------------------------------------------------------------------------

Jobs == [who : {"live", "pick", "filter"}, text : Text, at : {"check", "types", "retry"}, fixed : Text]
Job(who, text) == [who |-> who, text |-> text, at |-> "check", fixed |-> text]

\* A job whose fields' types have all come is run before anything else is.
TypesIn(j) == \A f \in FieldsOf(j.text) : stringy[f] \in {"string", "other"}
Idle == \A k \in DOMAIN jobs : jobs[k].at = "types" => ~TypesIn(jobs[k])

Acts == Idle /\ acts < MaxActs /\ acts' = acts + 1

Init ==
  /\ open = TRUE /\ box \in Linked /\ filter = box /\ bad = FALSE /\ draft = FALSE
  /\ timer = FALSE /\ jobs = <<>> /\ stringy = [w \in Word |-> "unasked"]
  /\ asked = NoWord /\ wanted = NoWord /\ comps = <<>> /\ items = <<>> /\ idx = 0
  /\ acts = 0

----------------------------------------------------------------------------
(* The list of field names.                                                *)

CloseCompleteOnly ==
  /\ timer' = FALSE
  /\ items' = <<>> /\ idx' = 0 /\ wanted' = NoWord
  /\ UNCHANGED <<asked, comps>>

CloseComplete ==
  /\ timer' = FALSE
  /\ items' = <<>> /\ idx' = 0
  /\ asked' = NoWord /\ wanted' = NoWord
  /\ UNCHANGED comps

\* complete, up to its await.
Complete(field) ==
  IF field = NoWord THEN CloseComplete
  ELSE /\ Len(comps) < MaxComps
       /\ asked' = field /\ wanted' = field
       /\ comps' = Append(comps, field)
       /\ UNCHANGED <<timer, items, idx>>

\* ...and its answer, unless something else was asked since.
CompArrivesAt(k) ==
  /\ Idle
  /\ comps' = RemoveAt(comps, k)
  /\ IF comps[k] = asked THEN items' = Offers[asked] ELSE UNCHANGED items
  /\ UNCHANGED <<open, boxVars, bad, filter, timer, jobs, stringy, asked, wanted, idx, acts>>

CompArrives(k) ==
  /\ Idle
  /\ comps' = RemoveAt(comps, k)
  /\ IF comps[k] = asked THEN items' = Offers[asked] /\ idx' = 0 ELSE UNCHANGED <<items, idx>>
  /\ UNCHANGED <<open, boxVars, bad, filter, timer, jobs, stringy, asked, wanted, acts>>

CompFails(k) ==
  /\ Idle
  /\ ~open \/ "complete" \in Failing
  /\ comps' = RemoveAt(comps, k)
  /\ UNCHANGED <<open, boxVars, bad, filter, timer, jobs, stringy, asked, wanted, items, idx, acts>>

\* The arrows, which go round; dir is 1 or -1.
Highlight(dir) ==
  /\ Acts
  /\ items # <<>>
  /\ idx' = IF idx = 0 THEN (IF dir = 1 THEN 1 ELSE Len(items))
            ELSE ((idx - 1 + dir + Len(items)) % Len(items)) + 1
  /\ UNCHANGED <<open, boxVars, bad, filter, timer, jobs, stringy, asked, wanted, comps, items>>

\* Tab, Enter on one, or a click on the ith: the field name goes in and is checked,
\* and nothing is offered for it.
PickComplete(i) ==
  /\ Acts /\ Len(jobs) < MaxJobs
  /\ i \in DOMAIN items
  /\ box' = Completed(box, items[i]) /\ draft' = TRUE
  /\ CloseComplete
  /\ jobs' = Append(jobs, Job("pick", box'))
  /\ UNCHANGED <<open, bad, filter, stringy>>

\* Escape with the list on screen, and the box losing the focus at any time.
Blur ==
  /\ Acts
  /\ CloseComplete
  /\ UNCHANGED <<open, boxVars, bad, filter, jobs, stringy>>

----------------------------------------------------------------------------
(* Typing, and the check of what was typed.                                *)

Type(text) ==
  /\ Acts /\ open
  /\ box' = text /\ draft' = TRUE
  /\ timer' = TRUE
  /\ UNCHANGED <<open, bad, filter, jobs, stringy, listVars>>

\* liveCheck, 150 ms later.
TimerFires ==
  /\ Idle /\ timer
  /\ IF box = <<>>
     THEN bad' = FALSE /\ CloseComplete /\ UNCHANGED jobs
     ELSE /\ Len(jobs) < MaxJobs
          /\ jobs' = Append(jobs, Job("live", box))
          /\ timer' = FALSE
          /\ UNCHANGED <<bad, listVars>>
  /\ UNCHANGED <<open, boxVars, filter, stringy, acts>>

\* filter, with the box as it will be; nothing is what every frame passes.
Filter(text, others) ==
  /\ box' = text /\ draft' = FALSE
  /\ CloseComplete
  /\ IF text = <<>>
     THEN filter' = <<>> /\ bad' = FALSE /\ jobs' = others
     ELSE /\ Len(others) < MaxJobs
          /\ jobs' = Append(others, Job("filter", text))
          /\ UNCHANGED <<filter, bad>>

Submit ==
  /\ Acts /\ open
  /\ Filter(box, jobs)
  /\ UNCHANGED <<open, stringy>>

\* Escape with no list on screen.
Clear ==
  /\ Acts /\ open
  /\ items = <<>>
  /\ Filter(<<>>, jobs)
  /\ UNCHANGED <<open, stringy>>

\* The footer, when a field of the dissection is in it.
FilterOnField(text) ==
  /\ Acts /\ open
  /\ Filter(text, jobs)
  /\ UNCHANGED <<open, stringy>>

\* The way back to the list.
Back ==
  /\ Acts /\ open
  /\ open' = FALSE
  /\ box' = <<>> /\ bad' = FALSE
  /\ CloseComplete
  /\ UNCHANGED <<draft, filter, jobs, stringy>>

\* openCapture, once the status is in; a second one may be under way.  What a link says
\* is filtered on as it is.
Open(want) ==
  /\ Acts
  /\ open' = TRUE
  /\ box' = want /\ filter' = want /\ draft' = FALSE
  /\ UNCHANGED <<bad, timer, jobs, stringy, listVars>>

----------------------------------------------------------------------------
(* compile.                                                                *)

\* What a job is for, done with the text that compiles or with the one that does not.
SettleUnwritten(j, others, ok, use) ==
  IF j.who = "filter"
  THEN /\ IF ok THEN filter' = use /\ bad' = FALSE /\ draft' = FALSE /\ UNCHANGED box
          ELSE bad' = TRUE /\ draft' = (draft \/ box = j.text) /\ UNCHANGED <<box, filter>>
       /\ UNCHANGED <<timer, listVars>>
       /\ jobs' = others
  ELSE /\ bad' = IF box = j.text THEN ~ok ELSE bad
       /\ UNCHANGED <<boxVars, filter>>
       /\ jobs' = others
       /\ IF j.who = "live" THEN Complete(FieldAt(j.text)) ELSE UNCHANGED <<timer, listVars>>

Settle(j, others, ok, use) ==
  IF j.who = "filter"
  THEN /\ IF ok THEN box' = use /\ filter' = use /\ bad' = FALSE /\ draft' = FALSE
          ELSE bad' = TRUE /\ draft' = (draft \/ box = j.text) /\ UNCHANGED <<box, filter>>
       /\ UNCHANGED <<timer, listVars>>
       /\ jobs' = others
  ELSE /\ bad' = IF box = j.text THEN ~ok ELSE bad
       /\ UNCHANGED <<boxVars, filter>>
       /\ jobs' = others
       /\ IF j.who = "live" THEN Complete(FieldAt(j.text)) ELSE UNCHANGED <<timer, listVars>>

Goes(k, j) == jobs' = [jobs EXCEPT ![k] = j]

\* The first check.  What does not compile is looked at for values to quote, and the
\* types of their fields are asked for, each once.
CheckOk(k) ==
  LET j == jobs[k] IN
  /\ Idle
  /\ j.at = "check" /\ j.text \in Accepts
  /\ Settle(j, RemoveAt(jobs, k), TRUE, j.text)
  /\ UNCHANGED <<open, stringy, acts>>

CheckNotOk(k) ==
  LET j == jobs[k] IN
  /\ Idle
  /\ j.at = "check" /\ (j.text \notin Accepts \/ ~open \/ "check" \in Failing)
  /\ IF Found(j.text) = {}
     THEN Settle(j, RemoveAt(jobs, k), FALSE, j.text) /\ UNCHANGED stringy
     ELSE /\ Goes(k, [j EXCEPT !.at = "types"])
          /\ stringy' = [w \in Word |-> IF w \in FieldsOf(j.text) /\ stringy[w] = "unasked"
                                        THEN "asked" ELSE stringy[w]]
          /\ UNCHANGED <<boxVars, bad, filter, timer, listVars>>
  /\ UNCHANGED <<open, acts>>

\* takesString: what came back is kept, an error as a no.
TypeArrives(w) ==
  /\ Idle
  /\ stringy[w] = "asked"
  /\ \/ stringy' = [stringy EXCEPT ![w] = IF w \in TakesString THEN "string" ELSE "other"]
     \/ (~open \/ "type" \in Failing) /\ stringy' = [stringy EXCEPT ![w] = "other"]
  /\ UNCHANGED <<open, boxVars, bad, filter, timer, jobs, listVars, acts>>

Requotes(k) ==
  LET j == jobs[k]
      fixed == Requoted(j.text, {w \in Word : stringy[w] = "string"}) IN
  /\ j.at = "types" /\ TypesIn(j)
  /\ IF fixed = j.text THEN Settle(j, RemoveAt(jobs, k), FALSE, j.text)
     ELSE Goes(k, [j EXCEPT !.at = "retry", !.fixed = fixed])
          /\ UNCHANGED <<boxVars, bad, filter, timer, listVars>>
  /\ UNCHANGED <<open, stringy, acts>>

RetryUnread(k) ==
  LET j == jobs[k] IN
  /\ Idle
  /\ j.at = "retry"
  /\ Settle(j, RemoveAt(jobs, k), TRUE, j.fixed)
  /\ UNCHANGED <<open, stringy, acts>>

\* The rewrite has to compile in its turn.
Retry(k) ==
  LET j == jobs[k] IN
  /\ Idle
  /\ j.at = "retry"
  /\ \/ j.fixed \in Accepts /\ Settle(j, RemoveAt(jobs, k), TRUE, j.fixed)
     \/ /\ j.fixed \notin Accepts \/ ~open \/ "check" \in Failing
        /\ Settle(j, RemoveAt(jobs, k), FALSE, j.text)
  /\ UNCHANGED <<open, stringy, acts>>

----------------------------------------------------------------------------

Answers ==
  \/ \E k \in DOMAIN jobs : CheckOk(k) \/ CheckNotOk(k) \/ Requotes(k) \/ Retry(k)
  \/ \E k \in DOMAIN comps : CompArrives(k) \/ CompFails(k)
  \/ \E w \in Word : TypeArrives(w)
  \/ TimerFires

User ==
  \/ \E text \in Typed : Type(text)
  \/ \E dir \in {1, -1} : Highlight(dir)
  \/ \E i \in DOMAIN items : PickComplete(i)
  \/ Blur \/ Submit \/ Clear \/ Back
  \/ \E want \in Linked : Open(want)
  \/ \E text \in FieldText : FilterOnField(text)

Next == Answers \/ User

Spec == Init /\ [][Next]_vars

----------------------------------------------------------------------------
(* Properties.                                                             *)

\* The one highlighted is one of those offered.
TypeOK ==
  /\ open \in BOOLEAN /\ bad \in BOOLEAN /\ timer \in BOOLEAN /\ draft \in BOOLEAN
  /\ box \in Text /\ filter \in Text
  /\ jobs \in Seq(Jobs)
  /\ stringy \in [Word -> {"unasked", "asked", "string", "other"}]
  /\ asked \in Word \cup {NoWord} /\ wanted \in Word \cup {NoWord}
  /\ comps \in Seq(Word)
  /\ items \in Seq(Word) /\ idx \in 0 .. Len(items)
  /\ acts \in 0 .. MaxActs

\* A list opens on the answer for what was asked last ("the caret moved on while this
\* was out"), and never on what was asked before it was closed and not since.
OpensForLastAsked ==
  [][items' \notin {items, <<>>} => wanted # NoWord /\ items' = Offers[wanted]]_vars

\* Whatever was typed, picked or answered meanwhile, what comes to be filtered on is
\* nothing, or a text that compiles, and it is the one left in the box: "what is filtered
\* on is never something unwritten" (filter, compile).  What a capture is opened with is
\* in the box as well (BoxIsFilter), and no one has compiled it (openCapture).
FiltersOnWhatCompiled ==
  [][filter' # filter =>
       \/ box' = filter' /\ (filter' = <<>> \/ filter' \in Accepts)
       \/ \E want \in Linked : Open(want)]_vars

\* With a capture open the box says what is filtered on, or what is being compiled to be,
\* unless it was typed in or completed since, or what it says was refused: in whatever
\* order filters are submitted, answered and rewritten, and captures left and opened.
BoxIsFilter ==
  open /\ ~draft =>
    box = filter \/ \E k \in DOMAIN jobs : jobs[k].who = "filter" /\ jobs[k].text = box

\* The values a field is compared against: what stands right behind a comparison, and
\* the members of a set, quoted ones among them or not.
InSet(text, k, i) ==
  text[k].is = "in" /\ \A m \in k + 1 .. i - 1 : text[m].is \in {"bare", "string", ",", "{"}

Compared(text) ==
  {v \in (DOMAIN text) \X Word :
    /\ text[v[1]].is = "bare"
    /\ \E k \in 2 .. v[1] - 1 :
         /\ text[k - 1] = Bare(v[2])
         /\ (text[k].is = "op" /\ k = v[1] - 1) \/ InSet(text, k, v[1])}

\* Behind a member of the same set that is quoted already.
BehindQuoted(text, i) ==
  \E k \in 2 .. i - 1 : InSet(text, k, i) /\ \E m \in k + 1 .. i - 1 : text[m].is = "string"

\* Only values that a field is compared against are found, each with that field; and all
\* of them, but for the members of a set behind one that is quoted already: requote takes
\* that one for the end of the set (app.js:1453), against "a quoted value wherever one is
\* compared" (app.js:1435).  A text with its values quoted has no more to quote.
QuotesWhatIsCompared ==
  /\ Found(box) \subseteq Compared(box)
  /\ \A v \in Compared(box) : v \in Found(box) \/ BehindQuoted(box, v[1])
  /\ \A takes \in SUBSET FieldsOf(box) : Requoted(Requoted(box, takes), takes) = Requoted(box, takes)
=============================================================================

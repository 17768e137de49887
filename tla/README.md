# webshark, modelled and checked

webshark is Wireshark in the browser: a Go server over `sharkd` processes, a page,
a Kubernetes operator that takes captures and hands them to it, Lua and C plugins
for sharkd, and an Android shell around the server. This directory holds TLA+
modules translated from that source, the TLC configurations that check them on
small instances, and proofs, checked by TLAPS, of what holds for instances of any
size. Paths below are relative to the repository's root.

Run a check with `tlc -config X.cfg M.tla`, a proof with `tlapm M.tla`.

## The system

| component | source | state it keeps | operations | what is hard |
|---|---|---|---|---|
| sharkd pool | `src/sharkd.go` | the published session of each reference; per session a mutex, a dead flag, a last-used stamp, the process and its temp merge | call, acquire (hit, miss and eviction, load, publish), do, drop, closeFile, reap, close | two mutexes, loads outside both; sessions let go of while requests are queued on them; retries; processes that die |
| merge of captures | `src/merge.go` | none of its own: a temp file handed to a session | canonicalise a reference, check sizes, run mergecap | the file must outlive its reader and then go |
| capture scanner, capture times | `src/capture.go` | a mutex and a cache of scans keyed by name, size and mtime | listing, scan; the walk of a pcapng from either end | files growing while scanned, listed and walked |
| HTTP API | `src/main.go` | the capture directory | upload, download, captures, frames | upload against capture and listing |
| web UI: packet list and dissection | `src/web/app.js` | pages of rows, filter, selection | fetch, filter, select, open, locate, back | answers arriving out of order after the question has changed |
| web UI: capture list | `src/web/app.js` | the listing, the rows the box leaves, the set picked out | list, scan each, find, pick, open, upload | protocols that land one file at a time under a filter, a newer listing, an open capture |
| web UI: filter box | `src/web/app.js` | the text, what is known of a field's type, the list of fields on offer | check, requote, complete, submit | three awaits between what was typed and what is filtered on |
| web UI: flow diagram | `src/web/app.js` | a lane for each address of the pages, the order they were dragged into | add, drag, take out by a filter, arrange again | a filter worked out over several awaits; lanes that go with their pages and come back |
| web UI: columns, byte pane, drawer, theme | `src/web/app.js` | widths, preferences | draw, measure | not modelled: layout |
| PacketCapture controller | `operator/internal/controller/packetcapture_controller.go` | objects in the API server: finalizer, ephemeral containers or pods, status | reconcile: choose targets, start, observe, pause, resume, stop, clean up | stale cached reads, write conflicts, restarts between two writes |
| capture pod | `operator/internal/controller/sniffer.go` | a shell script's processes and its upload | tcpdump piped into curl, timer, signals | exit status of one of several failing processes |
| Webshark controller | `operator/internal/controller/webshark_controller.go` | owned objects | apply deployment, service, claim, ingress | partial application, objects of the same name |
| operator page | `operator/internal/ui/web/app.js`, `ui.go` | what was last read of pods, captures and Websharks; the search, the ticks, the folds of the cards | poll, search, tick, capture, pause, delete | reads answered in any order, ticks that outlive what they were made under |
| operator proxy, status | `operator/internal/ui/proxy.go`, `status.go` | none | hand a request on, say how things are | not modelled: nothing kept |
| IMS correlation | `plugins/ims.lua` | a union of identities, per-frame widened key sets | dissect, unite, widen | classes that merge after a frame was labelled |
| IMS checks | `plugins/ims_check.lua` | per-transaction bookkeeping | listener, then postdissector | two phases over the same frames |
| ESP key recovery | `plugins/ims_esp/packet-ims-esp.c` | key material | dissect, derive | disabled in the Dockerfile |
| Android app | `android/app/src/main/java/net/webshark/` | server process state, a file waiting to be shown | start, open, show | two threads and a page that is still loading |
| packaging | `Dockerfile*`, `charts/`, `operator/main.go` | none | none | not modelled: no behaviour of its own |

How they interact: the page calls the HTTP API; its handlers call the pool and the
scanner, which start and talk to sharkd processes over pipes; sharkd loads the
plugins. The operator's page reads pods and writes PacketCaptures through the API server,
from which the operator's controllers work; a capture pod
uploads its capture through the HTTP API; the Android app runs the server as a child
and the page in a web view.

## Modules

| module | what it is | proofs |
|---|---|---|
| `SharkdSession` | abstract: the life of one session, as a user of the pool may rely on it | |
| `SharkdPool` | `src/sharkd.go` and the temp file of `src/merge.go` | `SharkdPoolProofs`: its inductive invariant and safety theorems, that it implements `SharkdSession`, that what it publishes is new, how far it may exceed its limit |
| `CaptureScan` | the scanner of `src/capture.go` with the listings, scans and uploads of `src/main.go` that meet in it | `CaptureScanProofs` |
| `CaptureList` | the capture list of `src/web/app.js`: listing, scans, filter, picks, uploads | `CaptureListProofs` |
| `FilterBar` | the display filter box of `src/web/app.js`: live check, quoting, field names, submit | `FilterBarProofs` |
| `OperatorPage` | the operator's page, `operator/internal/ui/web/app.js`, over the API of `ui.go` and `targets` of the controller | `OperatorPageProofs` |
| `FlowDiagram` | the flow view of `src/web/app.js`: its lanes, dragging them and taking one out | `FlowDiagramProofs` |
| `Viewer` | the page of `src/web/app.js` with a capture open, and the page of rows `server.frames` answers | `ViewerProofs` |
| `PacketCapture` | one PacketCapture and its controller, `operator/internal/controller/packetcapture_controller.go` | `PacketCaptureProofs` |

`MC*` modules hold what TLC's instances need: model values, symmetry sets, a view.
Definitions that a plausible slip in the code would turn another into stand before it,
under a name that says what has slipped (`RetryUnread` before `Retry`); nothing uses
them unless one is put in the other's place, to see that a property notices.

### SharkdPool

State: `live` is `pool.live`; `dead`, `lock`, `tmp` are `session.dead`, `session.mu`,
`session.tmp`; `proc` and `closed` are the operating system's side of a session (is
the process there, has its stdin been closed); `asked` is what has been written to
its pipe and not been read back; `newer` is the order of the `used` stamps, which is
all the code reads from them; `retiring` holds the sessions with a `go s.close()`
still to run. `pc`, `want`, `cur` and `tries` are the locals of each HTTP handler
inside `pool.call`.

Atomicity: every critical section of `pool.mu` is one action, since it takes no other
lock and does no I/O. `session.mu` is held over a request, so it is a variable, and a
step that takes it is disabled while it is held. Between critical sections a caller
is at a label: `acquire`, `spawn` (merging, starting a process), `loading`, `do`
(has a session, has not got its mutex), `reading`, `refused` (an error came back and
`dead` has not been looked at yet), `drop`, `closing`.

What is abstracted: the contents of requests and answers (an answer is the caller it
answers); times (only their order; the reaper takes any least recent part of the
pool at any moment, which covers every cutoff); `mergecap` (it works or it does not).
`session.used` is read under another mutex than it is written under; both stamps
carry a monotonic reading, so the race returns one of the two values, as a model in
which the write is atomic does.

### SharkdSession

`phase` (unborn, open, broken, closed, ended), `busy` and `file`. It says that a
session answers one request at a time, is closed only between two, never answers
once broken, and that its merge is removed only when its process has been waited for.
`SharkdPool!Life` is the refinement mapping.

### CaptureScan

State: `size` is the directory, a file being its length in frames (it only grows, so
name and length stand for the name, size and mtime of `scanKey`); `mu` and `done` are
the scanner's. `at`, `name`, `info`, `read`, `todo`, `rows` are the locals of the
requests. `wrote` is a history variable: which uploads have written to a file.

A scan stats its file (`ScanBegin`), waits for the mutex and holds it over the whole of
`hierarchy` (`Get`, `Load`, `Tap`, or `HierarchyFails` at any point), or finds another
asker's result (`GetCached`). A listing stats one file after another and takes the same
mutex for each (`ListStat`, `ListRow`). Uploads create with O_EXCL and copy. What a scan
finds is how many frames it read and whether it calls that a sample.

Fairness is strong, per request: `sync.Mutex` hands itself to whoever has waited for
longer than a millisecond, so no asker is passed over for ever. sharkd is assumed to
answer or die. Uploads have none: a client may stop sending.

### Viewer

State: `file`, `total`, `filter`, `count`, `end`, `pages`, `selIdx`, `want` are the
fields of `S` of those names; `tree` is the dissection on screen. `net` is the requests
in flight. `alone` (no dissection of another capture was on its way when this one was
opened) and `refused` (a dissection of the frame last selected was refused) are histories.
`own` (no page of an earlier view was on its way when this view began), `link` (the frame
a link asked for, while nothing else has happened) and `acts` (what the user has done,
counted) serve properties and bounds only.

A handler runs to its first `await` in one action (`Select`, `Submit`, `Open`, `Back`,
`Pop`), and from there on the answer (`PageArrives`, `FrameArrives`, `Compiled`,
`Opened`, and the ways each fails). A handler that awaits the promise another one has
stored in `S.pages` is queued on that request; when it settles, the handler goes to
`ready`, and nothing else happens until `ready` is empty (`Idle`): it is a microtask.
`SelectResumes` and `LocateResumes` are those continuations.

Left out: layout, the flow view, and drawing behind the capture list. A filter is one
of those that compile or one that does not; what is typed in the box, its live check and
its mark, and what the box has to do with the filter, are `FilterBar`.

### CaptureList

State: `caps`, `find`, `filed`, `picked` are `S.caps`, `S.find`, `S.filed`, `S.picked`;
`known` is which captures have their `protos`; `scanning` is the counter of that name, and
`loops` the `scanAll` runs that have a scan out, each with the captures it has yet to look
at; `press` and `anchor` are row numbers, as in the code. `dir` is the server's
directory. `unscanned` is a history: whose scan was refused since the last listing.

What a token of the box matches is `parseFind`, `term`, `matches` and `overlaps`
(`ParseToken`, `TermUnread`, `TermHit`, `Matches`, `Overlaps`) over tables that say which
words are in a name, a time as written, a protocol. A word that is a moment is given
with its stretch. `drawFiles` is part of every step that calls it (`DrawFiles`).

A listing in flight carries every state the directory has had since it was asked for,
and is answered with one of them (`saw`); the protocols the server has scanned before
come with it. Rows are clicked by number, and the number may be of a row that is
another by now: `PickRow` and `RowClicked` do then what the code does. A long press
(`PressDown`, `PressFires`, `LetGo`, `Tap`) picks by the number the finger went down on.

Fairness: what has been asked is answered or the connection breaks, as one condition
on all answers together. Users and directory have none.

### FilterBar

State: `box` and `bad` are the text and the mark of the box, `filter` is `S.filter`; `timer`
is `liveTimer`; `jobs` are the calls of `compile` under way, with what each is for (the live check, a field picked, a filter
submitted) and how far it has come (the first check, the types of the fields, the second
check); `stringy` is the map of that name; `asked`, `items`, `idx` are `compAsked`,
`compItems`, `compIdx`; `comps` the completions out. Two histories: `wanted` is what was
last asked for since the list was closed, `draft` whether the box was typed in, completed
or refused since it was last made to say the filter. A capture is opened with the text of a
link, which nobody has compiled (`Open`), or with none.

A text is the sequence of pieces that `PIECE` cuts it into: a bare word, a quoted string,
an operator, `in`, a brace or a comma. `Found` is the loop of `requote` as a fold over the
pieces. What sharkd accepts and offers, and which fields hold a string, are given. The
caret stands at the end.

A job whose fields' types have all come goes on before anything else happens (`Idle`):
it is a microtask. Field types, checks and completions come in any order or fail.

### OperatorPage

State: `ns`, `query`, `picked`, `webshark`, `pods`, `shown`, `folds` are the fields of `S`;
`listed` and `typing` the variables of those names; `all` the box over the rows; `go` what
the Capture button says; `cards` what is painted. `asked` is the refreshes out, each with
every state the cluster has had since it was asked for: its three reads are each answered
from one of them. `writes` is the creations, pauses and deletions under way, carried out
by the server before they are answered (`CarryOut`, `Answered`), or lost (`Fails`).
`cluster` is pods, Websharks and PacketCaptures.

The search is the code's: `Align`, `Fuzzy` and `Total` score letters, and `Search` is the
rows found in the order of `Above`: by whether a pod runs, by score and by name. Which
pods a search finds and which row is before which (`Found`, `Ahead`) are relations of the
constants alone, so that TLC works them out once. `Body` is what the form sends. What a
PacketCapture is of is `Targets`, the controller's own choice. `meant` is no part of the
object: it is what the page said the capture was of.

Fairness: the interval goes on, a refresh is answered or fails, and not for ever the
latter. Left out: the frame webshark opens in, the names a capture is given, and the
fields of the form that are handed on as typed.

### FlowDiagram

State: `pages`, `nodes`, `order`, `filter` are `S.pages`, `S.nodes` (and `S.node`, which is
its inverse), `S.order`, `S.filter`, the last as the set of terms it leaves out; `drag` is
the lane that is held. `hides` are the calls of `hide` looking for a term, by how far
`addrTerm` has come (the frame asked for, then each spelling `ends` tries); `checks` the
calls of `filter` under way, each with the hide and the term it was made for; `net` the
pages asked for. `lost` in a hide is a history: an answer about one of its spellings has
not come back. A capture is opened with the filter of a link or with none.

A frame is given by what the code looks at: the addresses in its columns, the fields of its
dissection with the addresses their labels show, which of them a filter finds, whether it has
a network layer, and the addresses of headers its columns do not show. Which fields sharkd
knows, and how a field would be spelt for both ends or the other one, are tables.

`Hide`, `FrameArrives`, `Compiles`, `CompilesNot` follow the awaits; every way `addrTerm` ends
goes on into `filter` in the same step (`HideBy`), with the filter as it is by then.

What a hide is held to is `HidesItsLane`: the frames that go (`Held`) are those its lane
draws from the field the address was found in, in the capture then open; the frames its
term finds have the address (`IsOf`), shown or in a header that is not shown. It is less
than what the comment at `src/web/app.js:943` promises; see below what stays and what goes.

### PacketCapture

State: `object` is the PacketCapture in the API server: is it there, being deleted,
held by the finalizer, paused, and its `status.targets`. `target` and `capturer` are
what each selected pod and its capture pod are doing; `leaving` the capture pods
that have been deleted and are not gone yet. `cache` is the operator's cached copy;
`at`, `read`, `pods`, `left`, `kept` are a pass of `reconcile`.

Resource versions are two booleans: is the cached copy, and is the copy the pass read,
still how the object is. A write succeeds only if the latter is (`Write`), and else the
pass is over and another one follows (`Conflict`). Pods are not cached
(`operator/main.go:75`), and are created and deleted without a version.

A pass is `PassBegins`, then by what it read: `AddFinalizer`; or `ListTargets` (or
`NoWebshark`), one `Observe` or `Resume` for each entry, one `Start` for each new pod
while there is room, `Looked`, `Finish`; or one `Stop` for each capture pod and
`Release`. `NoWebshark` is free: it may be so in any pass and in all of them, since a
namespace may stay without a Webshark, or with two. Between any two of these everything else may happen: users create, pause and
delete, pods start, leave and end, capture pods end, the cache catches up, and the pass
breaks off (`PassBreaksOff`: an error of the API server, or a restart, which lose the
same). `Adopts`, `Skips`, `Starts`, `Fails`, `TargetWent` are the outcomes of `start`;
`Fails` includes a pod that was made though Create answered with an error.

Pending and Capturing are one phase, Completed and Failed another, since no condition
of the code tells them apart. There is one operator. Files, times, events and
conditions are left out, except that a pass may find only those to write.

Fairness: a pass is requeued after every poll and every error, a watch delivers, the
kubelet removes what has been deleted. Users and targets have none. That a Webshark can be
told is no fairness: `CaptureStarts` and `CaptureStops` are said of behaviours in which
passes can tell one from some point on (`WebsharkStays`), and `DeleteEnds` of all.

## Runs

| run | checks | bounds |
|---|---|---|
| `pool_safety` | types, answers, mutex, closing, nothing lost, merges, how far the pool exceeds its limit | 2 callers, 2 references (1 a merge), pool of 1, 3 processes, crashes |
| `pool_live` | every call returns, what is let go of ends (liveness); the refinement | 2 callers, 1 reference (a merge), 2 processes, crashes |
| `pool_merge_leak` | finding: a broken session keeps its temp merge | 1 caller, 1 reference, 2 processes, crashes |
| `scan` | the cache against the files, one scan at a time, everyone returns (liveness) | 1 file of up to 3 frames, a sample of 2, 2 scans, 1 listing, 2 uploads |
| `scan_listing` | finding: a listing waits for a scan | as `scan`, 1 upload |
| `viewer` | counts, selection and links, whatever the order of the answers | 2 captures, interchangeable, 1 filter that compiles and 1 that does not, 3 requests in flight, any of which may be refused, 4 acts of the user |
| `viewer_stale_page` | finding: a page of the view before is counted in this one | 1 capture, 1 filter, nothing fails, 4 acts |
| `capture` | no orphans, what is reported over is over, nothing forgotten; deletion, and while passes can tell a Webshark starting and stopping (liveness) | 2 pods, 1 target, 3 acts |
| `list` | the rows against box, listing and protocols; no capture left unread; rows only leave as protocols land; the scans end (liveness) | 2 captures, 4 texts of the box, 3 acts, 1 change of the directory by others |
| `filterbar` | what is highlighted, what is quoted, what is offered, what is filtered on, and that the box says it | 5 words, 4 texts typed, 1 picked and 1 of a link, 2 checks and 2 completions in flight, 5 acts |
| `operator` | the rows against the search, what is captured against what was meant, the cards, and that the page comes to show the cluster (liveness) | 3 pods in 2 namespaces, 1 capture, 2 refreshes in flight, 3 events |
| `flow` | lanes against pages and arrangement; a lane taken out takes what it drew from the field found, and nothing that has nothing of its address | 2 captures of 2 and 3 frames, 6 addresses, 1 filter of a link, 1 page scrolled to, 2 hides and 2 filters in flight, 3 acts |

Pool: two callers are enough for every race in it: the second one is the other side of
a race to publish, the one that evicts, the one whose close waits. Three processes let a
reference be evicted, spawned again and raced for; a pool of one makes every miss an
eviction. `MCView` forgets the stamps of sessions that can no longer be compared and
what an ended session held: no guard reads them. The run of liveness uses no symmetry,
and has one reference, so that both callers meet at every session.
Handlers get strong fairness for the mutex, as in `CaptureScan`; a process whose stdin
is closed exits or is killed two seconds later, so its end gets weak fairness. That a
sharkd which was asked something answers or exits is assumed: the code has no timeout
on it (see the hazards).

Scan: with a sample of two, a file of three frames passes through empty, shorter than
the sample, as long and longer. Two scans race for the lock; a listing behind them is
every listing, since listings share nothing but that lock. A second name would only add
rows and files that do not meet: the mutex is the scanner's, not the file's.

Viewer: two rows to a page; a capture has five frames (its last page short), the
filter leaves four (its last page full), so both ways of finding the end are met, on
four pages at the most. Four acts are a link, a click, a filter and one more, or a click
in one capture, the way back, and another opened and clicked in while that click's
dissection is out; the counterexample of the finding needs no more. The two captures are
alike, which makes swapping them a symmetry.

Capture: two pods and one target make the second one compete for room; three acts are,
for example, a pause, a failure and a deletion at any three points. Acts bound what
users, nodes and failures do and not what the operator does; creating objects and pods
is free, since to be gone costs them an act each.

List: one capture says when it was taken and one does not; the boxes hold a word that a
name settles, one that only protocols can, a facet, a time and a negation. One listing
can be overtaken by another while a scan of the first is out, and by an upload and a
deletion. Three acts are a filter, a pick and an opening at any three points.

Filter box: a field that takes a string and one that does not, a comparison and a set,
texts that compile as typed, once quoted, and never, one of these in a link; a set with a
member quoted already; the beginning of a field's name, for
which two are offered. Five acts are enough for two checks of different texts with a
submit and a blur between their answers.

Flow diagram: the Ethernet capture has IP traffic between two MACs and an ICMP error; the
merge one of them under a vendor's name, the other in an Ethernet frame and in Linux cooked
ones, with nothing above it and with a host's traffic to itself. The cooked field has no
spelling for both ends, so all three ends of `ends` are met, and a hide meets frames it does
not take. A link filters by a MAC with nothing above it. Two frames to a page. Three acts are two lanes taken out and
a filter edited, or a lane put elsewhere, and an opening in between.

Operator: two pods have one name in two namespaces, one has another; a search of two
words finds some by name and some by label; one selector picks pods and one is refused
by the API server. Two refreshes out at once can be answered in either order.

## What is proved

For any sets of callers, references and processes and any positive `Max`, from
`PoolAssumption` (and, for the bound, `FiniteCallers`):

- `Invariance`: `IInv` is inductive. The safety properties are not by themselves:
  that a caller reads its own answer needs the mutex to be held exactly by whoever is
  `loading` or `reading`, with one request on the pipe (`LockInv`); that nothing is
  closed in flight needs that only a live session is locked and that stdin is closed
  only after `dead` is set (`LifeInv`); that nothing is lost needs that a session
  still loading is neither published nor retired (`LoadingInv`), or a discarded
  session could be one another caller had published.
- `TypeCorrect`, `AnswersFromOwnCapture`, `ReadsOnlyOwnAnswer`, `NoCloseInFlight`,
  `NoSessionLost`, `MergeKept`: the safety properties of `pool_safety`, each from `IInv`.
- `PublishesOnlyNew`: the action property, from `IInv`.
- `PoolImplementsLife`: the refinement. Each effect a step can have on a session is
  shown to be one step of `SharkdSession`, and every action to have one such effect
  or none.
- `BoundedOvershoot`: the pool exceeds its limit by fewer than there are callers; by
  an invariant of its own (`BoundInv`) that counts the callers still spawning. (The
  comment at `src/sharkd.go:8` promises "at most `max`"; the first eviction after the
  race takes the pool back to it.)

For any names, requests, uploads, sample and file sizes, from `ScanAssumption`:

- `ScanInvariance`: the inductive invariant of `CaptureScan`. That what is cached for a
  file as it is now is what a scan of it would find, though stat, lock and load are three
  steps, needs that the file is never shorter than what was stat'ed, loaded or cached:
  a result under the key of an older size is of at least that size, and of exactly that
  size if the file has not grown since. `Locked` ties the mutex to the scan under way.
- `CacheIsCurrent`, `ListingIsCovered`, `ScansOnce`, `WrittenByOne`: its safety
  properties, from it.

For any pods (numbers, for the order of their names), limit and acts, from
`CaptureAssumption`:

- `CaptureInvariance`: the inductive invariant of `PacketCapture`. That no capture pod
  runs without an object that can stop it is not inductive: a pass works on a copy that
  may be old. It needs that a copy with the finalizer, not being deleted, means that the
  object still has it (`Guarded`), which survives `Release` only because whoever releases
  has read the object as it is, being deleted, and deletion is never undone, so that
  the cache holds no older copy by then that a later pass could act on (`NoneOlder`).
  `Stage` says what a pass has read by how far it has come; `Reported` what it is going
  to write, which stays true until it is written because a capture pod that has been
  deleted or has ended does not capture again.
- `CaptureTypes`, `NoneOrphaned`, `OverMeansOver`, `NoneForgotten`: type, `NoOrphans`,
  and the action properties `OverIsOver` and `NothingForgotten`, from it.

For any captures, texts, times, protocols, directories and uploads, from
`CaptureListAssumption`:

- `ListInvariance`: the inductive invariant of `CaptureList`. That no capture is left
  unread needs that no run has a number still to come, and that the one with the newest has
  only captures of this listing before it (`Begun`).
- `ListAgrees`, `NothingLeftUnread`: `Coherent` and `NoneForgotten`, from it; `RowsAreTaken`:
  the action property `RowsOnlyLeave`, from what `Matches` says of more protocols.

For any words, texts and fields, what sharkd accepts and offers, and any number of
requests in flight, from `FilterBarAssumption`:

- `FilterBarInvariance`: the inductive invariant of `FilterBar`: the types, and that
  `compAsked`, with which an answer is compared, is what was asked for since the list
  was last closed.
- `FilterBarTypes`, `OffersAreCurrent`, `FilterIsWritten`: `TypeOK` and the action properties
  `OpensForLastAsked` and `FiltersOnWhatCompiled`. The latter is said of every change of the
  filter in an open capture; what a capture is opened with nobody has compiled.
- `SpecBoxIsFilter`: `BoxIsFilter`, inductive beside `IInv`: whatever is rewritten, refused,
  left and opened, what changes the box without the filter makes it a draft.
- `SpecQuotes`: `QuotesWhatIsCompared`, of any text: what is found is a value compared, and a
  value compared is found, except behind a member of its set that is quoted (see below). `Found` is a fold over the pieces of the
  text; what the fold has found after each piece is shown by the least piece at which it
  would be something else.

For any captures, views of them, sizes of a page and numbers of requests, from
`ViewerAssumption` (a view is frame numbers in ascending order, the view without a
filter all of them from one, and a link's frame is on a page the model has):

- `SpecTyped`: `TypeOK`, and that a page awaited has been asked for (`Sound`).
- `SpecCountIsRight`: `CountIsRight`. It needs that, while no page of an earlier view is out,
  all pages under way and kept are of this view (`OwnPages`), and that the length of a view
  whose end has not been met is a whole number of full pages of it (`Counted`).
- `SpecLinkFound`: `LinkFound`, from `LinkFollowed`: until the frame is selected there is one
  handler seeking it, on a page or about to go on from one, and what it has found is right;
  a selection is of the frame, or there is none.
- `SpecSelectionShown`: `SelectionShown`, from `Dissecting`, of any captures: once nothing is
  out, the dissection is of the selected number unless that frame's own was refused, which
  leaves the one before on screen, and of this capture unless one of another was on its way
  when it was opened. Both exceptions are what the code does (see below), and the run meets
  both.

For any cluster, names, labels, words and reads under way, from `OperatorPageAssumption` (a
pod is a name in a namespace, the lists the API answers in are orders of what there is):

- `SpecCapturesWhatWasMeant`, `SpecCardsStay`: `CapturesWhatWasMeant` and the action property
  `CardsStay`, from `Kept`. A capture's targets are among the running pods of the names meant
  that the selector sent along picks, and are all the meant ones of those, and no others, if
  they are of one namespace or have no other namesake; both conditions are needed (see
  below). Every object, and every creation under way, was made of pods
  the page named with a bound no smaller than their number; a card that is open is said to
  be in the folds, which is what the next painting reads.
- `SpecShownIsFound`: `ShownIsFound`, from `Choosing` (what is chosen is or was listed) and
  `Rows`: what is painted is the search of what was listed, for some namespace, and no pod
  ticked is listed as stopped. That the search is what it should be takes two facts about
  the code's algorithm. Taking each letter at the first place it can be misses no
  occurrence of a word (`AlignedSpells`: the letters so taken are never behind those of any
  other occurrence), so that the pods found are those that spell the words
  (`FoundIsSpelled`). And the comparison is a total order (`AheadOrders`), so that there is
  one list of the rows in that order (`Ordered`, from how many rows are before each), which
  has each of them once and those that run first (`SearchRight`).

For any captures, frames, fields, addresses and drags, from `FlowAssumption`:

- `SpecLanesRight`: `LanesRight`, from `Lanes`: the places given are to lanes there were, one
  to each, and an answer under way is of a page of a capture.
- `SpecHidesItsLane`: the action property `HidesItsLane`, from `Hiding`: a search that has its
  frame's answer has a field that holds or shows the lane's address (`Searches`), and a check
  under way is of a text with a term in it that fits its hide (`Aimed`, `Fits`): it finds what
  the lane draws from that field and nothing that has nothing of the address. That a term
  names the field found, and the other end's if no answer was lost, is shown of the code's
  search through the spellings (`SearchGoesOn`). What is assumed is about sharkd alone: what a
  filter on a field finds, what is in a dissection and what the columns show of it.

Sums and scans that the code makes in a loop are recursive functions in the models, and
what is said of them is proved from the least index at which it would fail, since the
well-foundedness of the numbers needs no operator as a parameter.

Only model-checked: liveness, which is beyond the prover (`RetiredEnds`, `CallReturns`,
`RequestsReturn`, `DeleteEnds`, `CaptureStarts`, `CaptureStops`, `ListSettles`,
`Converges`). Every other property of a passing run is a theorem.

## Findings

- `pool_merge_leak`: a session `do()` found broken is already marked dead when
  `close()` runs, which then returns at once: stdin stays open, the process is not
  waited for, and the temp merge is not removed.
- `scan_listing`: `/api/captures` takes the mutex a scan holds over a whole dissection,
  for every file it lists, though the scan "is never on the path of a listing".
- `viewer_stale_page`: `fetchPage` stores and counts an answer without asking whether the
  view it was asked for is still the one on screen.

Seen while modelling, and checked by no run:

- "Ticked pods win over either" a search or a selector, says `operator/README.md:199`, but
  the form sends the selector along with the ticked names
  (`operator/internal/ui/web/app.js:496`), and the controller takes what is in both.
  So "those and no others" holds of the ticks only with no selector in the box.
- `place` keeps the order of the lanes now shown (`src/web/app.js:854`): those a filter has
  taken out, or whose pages have not come, lose where they were put, though "the addresses
  that come back have to land where they were put" (`:847`). `LanesRight` is said of the
  lanes on screen at the last move.
- The clause of a hide is to match "the frames a node column drew" (`src/web/app.js:943`), and
  does not quite. In a merge of encapsulations the frames that have the address in another
  field stay, and the lane with them; so it may where no field was found and one is guessed.
  Frames go that carry the address in a header their columns do not show: an ICMP error
  that quotes it, the outer header of a tunnel.
- Of two lanes taken out in quick succession the second is added to the filter as it was
  before the first, and the first comes back; one whose check is lost on the way is taken
  out by the narrower spelling (`src/web/app.js:1046`), and may stay.
- A link or a reload is filtered on as it is (`src/web/app.js:2032`, from `:2239`), whether it
  compiles or not, and is not quoted; a page of it is then refused each time it is asked for.
- `select` compares frame numbers alone to tell that "a faster click won"
  (`src/web/app.js:426`), and nothing clears `S.want`: a dissection of the capture that was
  open before, or asked for before a filter, passes for one of this. A dissection that is
  refused leaves the one before under the row selected.
- A capture pod made by a pass whose status write then conflicts has no entry in the
  status; if its target has gone by the next pass, nothing stops it when the
  PacketCapture is paused (deleting the PacketCapture does). While no Webshark can be
  told, passes look at no target at all (`packetcapture_controller.go:103`): a paused
  capture goes on, though `paused: true` "ends every running capture"
  (`operator/README.md:111`, `:201`), and so does one whose pod has gone.
- Only pods among the first `maxTargets` by name are resumed, so a paused target can be
  pushed out of the list by pods that are not targets.
- An upload that breaks off leaves what was copied as a capture (`src/main.go:212`), in
  the way of the same upload tried again.
- `SHARKD_SESSIONS=0` makes the eviction loop close a nil session (`src/sharkd.go:97`).
- A negated protocol still being typed, `-proto:`, hides every row, since `matches`
  reads the hit of an unfinished term against its sign; the comment at
  `src/web/app.js:1876` says such a term narrows nothing.
- A member of a set that is quoted already ends the set for `requote`
  (`src/web/app.js:1453`): bare members after it are not quoted, though a field is to have
  "a quoted value wherever one is compared" (`:1435`).
- A field whose type could not be asked for is kept as no string until the page is
  loaded again (`src/web/app.js:1479`).
- The anchor of a shift-click and the row under a held finger are row numbers, which a
  scan that lands in between makes those of other rows.
- A capture of pods of several namespaces sends their names alone, and is of every pod of
  those names in any namespace (`operator/internal/ui/web/app.js:495`).
- Ticks made while a creation is out are cleared when it is answered, and the folds of
  cards are kept when the last capture goes (`operator/internal/ui/web/app.js:511`, `:333`).
- The ingress is deleted by its name, whoever owns it (`webshark_controller.go:186`).

## Plan

Done: `SharkdPool`, `CaptureScan`, `PacketCapture`, `CaptureList`, `FilterBar`, `Viewer`,
`OperatorPage` and `FlowDiagram`, with the proofs above. Next, in this order:

1. Abstract specifications of the page's components, as `SharkdSession` is of the pool, and
   that the models implement them.
2. `Sniffer`: the capture pod's script, its signals and exit status, and its upload;
   composed with `PacketCapture` for the file names a resume takes again.
3. `ImsCorrelation`: the union of identities and the sets kept per frame; that a kept
   set is the one `relate` would answer.
4. `CaptureTimes`: the pcapng walk from either end over a file being written, checked
   against the blocks that are in it.
5. `Handover`: the Android app's threads and its page; `Webshark`: the objects its
   controller applies.

## Not modelled

Layout, drawing and preferences in the pages: the pools of row elements, the byte pane,
the columns, the flow diagram's arrows and widths, the drawer and the themes, the
footer's messages, the frame webshark opens in on the operator's page. Dissection itself
(sharkd, the C plugin); the operator's proxy and health pages; packaging. Reasons are with each
component in `PROJECT.json`, and the hazards of parts that are still to come are listed
there with what is planned for them.

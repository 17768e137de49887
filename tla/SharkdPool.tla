----------------------------- MODULE SharkdPool -----------------------------
(***************************************************************************)
(* The pool of sharkd processes (src/sharkd.go): one process per open      *)
(* reference, at most Max of them published, the least recently used one   *)
(* evicted, idle ones reaped, a broken one replaced.                       *)
(*                                                                         *)
(* Every critical section of pool.mu is short and takes no other lock, so  *)
(* it is one action.  session.mu is held over a whole request, so it is a  *)
(* variable.  What the pool does between two critical sections - merging,  *)
(* starting a process, loading a capture, waiting for an answer - is where *)
(* the interleavings are, and each of those is a value of pc.              *)
(*                                                                         *)
(* session.used is written under session.mu and read under pool.mu.  Both  *)
(* stamps carry Go's monotonic reading, and Before compares that one word, *)
(* so a racing read yields the old stamp or the new one: the same as the   *)
(* write happening before or after the read, which is how it is modelled.  *)
(***************************************************************************)
EXTENDS Naturals, Sequences, FiniteSets

CONSTANTS
  Caller,    \* requests of the HTTP handlers in progress at the same time
  Ref,       \* references: a capture, or several to be read as one
  Merged,    \* the references that name several captures
  Session,   \* sharkd processes ever started (the bound of a finite instance)
  Max,       \* SHARKD_SESSIONS
  MayCrash,  \* whether a sharkd may die, or answer garbage, by itself
  None       \* no session, no reference, no holder of a mutex

ASSUME PoolAssumption ==
  /\ Merged \subseteq Ref
  /\ Max \in Nat \ {0}
  /\ MayCrash \in BOOLEAN
  /\ None \notin Session \cup Caller \cup Ref

ASSUME FiniteCallers == IsFiniteSet(Caller)

VARIABLES
  live,      \* pool.live: the published session of each reference
  holds,     \* the reference a session was spawned for
  proc,      \* its process: unborn, up, exited (not yet waited for), waited
  dead,      \* session.dead
  closed,    \* stdin closed and the goroutine waiting for the process started
  lock,      \* the holder of session.mu
  asked,     \* requests written to the process, their answers not yet read
  newer,     \* newer[s]: the sessions whose `used` is later than that of s
  retiring,  \* sessions with a `go s.close()` still to run
  tmp,       \* the sessions whose temp merge is on disk
  pc, want, cur, tries   \* of each caller; tries: the attempts its call has left

poolVars    == <<live, newer, retiring>>
sessionVars == <<holds, proc, dead, closed, lock, asked>>
callerVars  == <<pc, want, cur, tries>>
vars == <<poolVars, sessionVars, tmp, callerVars>>

Open      == {r \in Ref : live[r] # None}
Published == {live[r] : r \in Ref} \ {None}

\* Callers between the miss that evicts and the publication of what they spawn.
Spawning == {c \in Caller : pc[c] \in {"spawn", "loading"}}

TypeOK ==
  /\ live \in [Ref -> Session \cup {None}]
  /\ holds \in [Session -> Ref \cup {None}]
  /\ proc \in [Session -> {"unborn", "up", "exited", "waited"}]
  /\ dead \in [Session -> BOOLEAN]
  /\ closed \in [Session -> BOOLEAN]
  /\ lock \in [Session -> Caller \cup {None}]
  /\ asked \in [Session -> Seq(Caller)]
  /\ newer \in [Session -> SUBSET Session]
  /\ retiring \subseteq Session
  /\ tmp \subseteq Session
  /\ pc \in [Caller -> {"idle", "acquire", "spawn", "loading", "do", "reading",
                        "refused", "drop", "closing"}]
  /\ want \in [Caller -> Ref \cup {None}]
  /\ cur \in [Caller -> Session \cup {None}]
  /\ tries \in [Caller -> 0 .. 2]

Init ==
  /\ live = [r \in Ref |-> None]
  /\ holds = [s \in Session |-> None]
  /\ proc = [s \in Session |-> "unborn"]
  /\ dead = [s \in Session |-> FALSE]
  /\ closed = [s \in Session |-> FALSE]
  /\ lock = [s \in Session |-> None]
  /\ asked = [s \in Session |-> <<>>]
  /\ newer = [s \in Session |-> {}]
  /\ retiring = {}
  /\ tmp = {}
  /\ pc = [c \in Caller |-> "idle"]
  /\ want = [c \in Caller |-> None]
  /\ cur = [c \in Caller |-> None]
  /\ tries = [c \in Caller |-> 0]

----------------------------------------------------------------------------
(* Helpers.                                                                *)

\* s.used = time.Now(): s is now newer than every session there is.
Touch(s) ==
  newer' = [t \in Session |-> IF t = s \/ proc[t] = "unborn" THEN {}
                              ELSE newer[t] \cup {s}]

Goto(c, label) == pc' = [pc EXCEPT ![c] = label]

\* The call (or the close) of c is over.
Return(c) ==
  /\ Goto(c, "idle")
  /\ want' = [want EXCEPT ![c] = None]
  /\ cur' = [cur EXCEPT ![c] = None]
  /\ tries' = [tries EXCEPT ![c] = 0]

\* The references that leave when the sessions used least recently do: nothing
\* that stays was used before anything that goes.
LeastRecent(gone) ==
  \A r \in gone, k \in Open \ gone : live[r] \notin newer[live[k]]

Retire(gone) ==
  /\ live' = [r \in Ref |-> IF r \in gone THEN None ELSE live[r]]
  /\ retiring' = retiring \cup {live[r] : r \in gone}

\* session.close, whole: it runs under session.mu, and after the first one (or
\* after a broken request) there is nothing left for it to do.
CloseUnlocked(s) ==
  IF dead[s] THEN UNCHANGED <<dead, closed>>
  ELSE /\ dead' = [dead EXCEPT ![s] = TRUE]
       /\ closed' = [closed EXCEPT ![s] = TRUE]
Close(s) ==
  /\ lock[s] = None
  /\ IF dead[s] THEN UNCHANGED <<dead, closed>>
     ELSE /\ dead' = [dead EXCEPT ![s] = TRUE]
          /\ closed' = [closed EXCEPT ![s] = TRUE]

\* go s.close() in acquire, on losing the race to publish.
DiscardForgets(s) == UNCHANGED retiring
Discard(s) == retiring' = retiring \cup {s}

\* A broken request leaves the session dead and the lock free.
MarkDeadLocked(s) ==
  /\ dead' = [dead EXCEPT ![s] = TRUE]
  /\ asked' = [asked EXCEPT ![s] = <<>>]
  /\ UNCHANGED lock
MarkDead(s) ==
  /\ dead' = [dead EXCEPT ![s] = TRUE]
  /\ asked' = [asked EXCEPT ![s] = <<>>]
  /\ lock' = [lock EXCEPT ![s] = None]

----------------------------------------------------------------------------
(* pool.call and pool.acquire.                                             *)

CallThrice(c, r) ==
  /\ pc[c] = "idle"
  /\ Goto(c, "acquire")
  /\ want' = [want EXCEPT ![c] = r]
  /\ tries' = [tries EXCEPT ![c] = 3]
  /\ UNCHANGED <<poolVars, sessionVars, tmp, cur>>

Call(c, r) ==
  /\ pc[c] = "idle"
  /\ Goto(c, "acquire")
  /\ want' = [want EXCEPT ![c] = r]
  /\ tries' = [tries EXCEPT ![c] = 2]
  /\ UNCHANGED <<poolVars, sessionVars, tmp, cur>>

\* There is a session for the reference, and it is not known to be broken.
Usable(r) == live[r] # None /\ ~dead[live[r]]

AcquireHit(c) ==
  LET s == live[want[c]] IN
  /\ pc[c] = "acquire"
  /\ Usable(want[c])
  /\ Touch(s)
  /\ cur' = [cur EXCEPT ![c] = s]
  /\ tries' = [tries EXCEPT ![c] = @ - 1]
  /\ Goto(c, "do")
  /\ UNCHANGED <<live, retiring, sessionVars, tmp, want>>

\* The eviction loop: least recent first, until there is room for one more.
EvictsLate(gone) ==
  /\ LeastRecent(gone)
  /\ IF Cardinality(Open) <= Max THEN gone = {}
                                 ELSE Cardinality(Open \ gone) = Max
Evicts(gone) ==
  /\ LeastRecent(gone)
  /\ IF Cardinality(Open) < Max THEN gone = {}
                                ELSE Cardinality(Open \ gone) = Max - 1

MissTakesOver(c) ==
  /\ pc[c] = "acquire"
  /\ ~Usable(want[c])
  /\ IF Cardinality(Open) < Max
     THEN Goto(c, "spawn") /\ UNCHANGED cur
     ELSE Goto(c, "do") /\ \E r \in Open : cur' = [cur EXCEPT ![c] = live[r]]
  /\ tries' = [tries EXCEPT ![c] = @ - 1]
  /\ UNCHANGED <<poolVars, sessionVars, tmp, want>>

AcquireMiss(c) ==
  /\ pc[c] = "acquire"
  /\ ~Usable(want[c])
  /\ \E gone \in SUBSET Open : Evicts(gone) /\ Retire(gone)
  /\ tries' = [tries EXCEPT ![c] = @ - 1]
  /\ Goto(c, "spawn")
  /\ UNCHANGED <<newer, sessionVars, tmp, want, cur>>

----------------------------------------------------------------------------
(* merger.file, pool.start and pool.spawn, all outside pool.mu.            *)

\* No such capture, too much to merge, mergecap failed or the process would not
\* start: the error is returned, and a merge already made is removed.
SpawnFails(c) ==
  /\ pc[c] = "spawn"
  /\ Return(c)
  /\ UNCHANGED <<poolVars, sessionVars, tmp>>

\* A process, and a session around it that owns the merge if there is one.  Nobody
\* else has the session yet, so the load takes its lock without waiting.
Spawn(c, s) ==
  /\ pc[c] = "spawn"
  /\ proc[s] = "unborn"
  /\ proc' = [proc EXCEPT ![s] = "up"]
  /\ holds' = [holds EXCEPT ![s] = want[c]]
  /\ tmp' = IF want[c] \in Merged THEN tmp \cup {s} ELSE tmp
  /\ lock' = [lock EXCEPT ![s] = c]
  /\ asked' = [asked EXCEPT ![s] = Append(@, c)]
  /\ Touch(s)
  /\ cur' = [cur EXCEPT ![c] = s]
  /\ Goto(c, "loading")
  /\ UNCHANGED <<live, retiring, dead, closed, want, tries>>

----------------------------------------------------------------------------
(* session.do: one request at a time down the pipe.                        *)

AskUnlocked(c) ==
  LET s == cur[c] IN
  /\ pc[c] = "do"
  /\ ~dead[s]
  /\ lock' = [lock EXCEPT ![s] = c]
  /\ asked' = [asked EXCEPT ![s] = Append(@, c)]
  /\ Goto(c, "reading")
  /\ UNCHANGED <<poolVars, holds, proc, dead, closed, tmp, want, cur, tries>>

Ask(c) ==
  LET s == cur[c] IN
  /\ pc[c] = "do"
  /\ lock[s] = None
  /\ ~dead[s]
  /\ lock' = [lock EXCEPT ![s] = c]
  /\ asked' = [asked EXCEPT ![s] = Append(@, c)]
  /\ Touch(s)
  /\ Goto(c, "reading")
  /\ UNCHANGED <<live, retiring, holds, proc, dead, closed, tmp, want, cur, tries>>

\* Closed, or found broken, between acquire and the lock: io.ErrClosedPipe.
AskDead(c) ==
  LET s == cur[c] IN
  /\ pc[c] = "do"
  /\ lock[s] = None
  /\ dead[s]
  /\ Goto(c, "drop")
  /\ UNCHANGED <<poolVars, sessionVars, tmp, want, cur, tries>>

\* The next answer on the pipe is read, and the lock given up.
ReadAnswer(c) ==
  LET s == cur[c] IN
  /\ proc[s] = "up"
  /\ asked[s] # <<>>
  /\ asked' = [asked EXCEPT ![s] = Tail(@)]
  /\ lock' = [lock EXCEPT ![s] = None]
  /\ UNCHANGED <<holds, proc, dead, closed, tmp>>

Answered(c) ==
  /\ pc[c] = "reading"
  /\ ReadAnswer(c)
  /\ Return(c)
  /\ UNCHANGED poolVars

\* A JSON-RPC error is an answer.  call() still looks at session.dead, outside
\* the mutex, to tell it from a broken pipe.
Refused(c) ==
  /\ pc[c] = "reading"
  /\ ReadAnswer(c)
  /\ Goto(c, "refused")
  /\ UNCHANGED <<poolVars, want, cur, tries>>

AfterRefusal(c) ==
  /\ pc[c] = "refused"
  /\ IF dead[cur[c]]
     THEN Goto(c, "drop") /\ UNCHANGED <<want, cur, tries>>
     ELSE Return(c)
  /\ UNCHANGED <<poolVars, sessionVars, tmp>>

\* The load is over and the session published - unless another caller published
\* the same reference meanwhile: theirs is kept, and ours let go.  A dead one is
\* overwritten.
Loaded(c) ==
  LET s == cur[c]  r == want[c] IN
  /\ pc[c] = "loading"
  /\ ReadAnswer(c)
  /\ IF Usable(r)
     THEN /\ Discard(s)
          /\ cur' = [cur EXCEPT ![c] = live[r]]
          /\ UNCHANGED live
     ELSE /\ live' = [live EXCEPT ![r] = s]
          /\ UNCHANGED <<retiring, cur>>
  /\ Goto(c, "do")
  /\ UNCHANGED <<newer, want, tries>>

\* spawn closes the session it was making; a failed load is not retried.
LoadFails(c) ==
  /\ Goto(c, "closing")
  /\ tries' = [tries EXCEPT ![c] = 0]

LoadRefused(c) ==
  /\ pc[c] = "loading"
  /\ ReadAnswer(c)
  /\ LoadFails(c)
  /\ UNCHANGED <<poolVars, want, cur>>

\* The pipe is broken (the process is gone, and the write or the read says so) or
\* what came back does not parse: either way the session is dead from here on.
Broken(c) ==
  LET s == cur[c] IN
  /\ pc[c] \in {"reading", "loading"}
  /\ proc[s] # "up" \/ MayCrash
  /\ MarkDead(s)
  /\ IF pc[c] = "loading"
     THEN LoadFails(c)
     ELSE Goto(c, "drop") /\ UNCHANGED tries
  /\ UNCHANGED <<poolVars, holds, proc, closed, tmp, want, cur>>

----------------------------------------------------------------------------
(* Letting a session go.                                                   *)

\* pool.drop: only if it is still the one published.  After the second attempt
\* there is no third, and the call returns "not answering".
Drop(c) ==
  /\ pc[c] = "drop"
  /\ live' = [live EXCEPT ![want[c]] = IF @ = cur[c] THEN None ELSE @]
  /\ Goto(c, "closing")
  /\ UNCHANGED <<newer, retiring, sessionVars, tmp, want, cur, tries>>

\* pool.closeFile, from the "close" button.
CloseFile(c, r) ==
  /\ pc[c] = "idle"
  /\ live[r] # None
  /\ live' = [live EXCEPT ![r] = None]
  /\ cur' = [cur EXCEPT ![c] = live[r]]
  /\ Goto(c, "closing")
  /\ UNCHANGED <<newer, retiring, sessionVars, tmp, want, tries>>

\* The synchronous close that ends drop, closeFile and a failed spawn; only after
\* drop may there be another attempt.
CloseThen(c) ==
  /\ pc[c] = "closing"
  /\ Close(cur[c])
  /\ IF tries[c] > 0
     THEN /\ Goto(c, "acquire")
          /\ cur' = [cur EXCEPT ![c] = None]
          /\ UNCHANGED <<want, tries>>
     ELSE Return(c)
  /\ UNCHANGED <<poolVars, holds, proc, lock, asked, tmp>>

\* go s.close(), after an eviction, a reap or a lost race to publish.
CloseRetiredEager(s) ==
  /\ s \in retiring
  /\ Close(s)
  /\ retiring' = retiring \ {s}
  /\ tmp' = tmp \ {s}
  /\ UNCHANGED <<live, newer, holds, proc, lock, asked, callerVars>>

CloseRetired(s) ==
  /\ s \in retiring
  /\ Close(s)
  /\ retiring' = retiring \ {s}
  /\ UNCHANGED <<live, newer, holds, proc, lock, asked, tmp, callerVars>>

\* pool.reap, each minute: whatever was last used before the cutoff.
Reap(gone) ==
  /\ gone # {}
  /\ LeastRecent(gone)
  /\ Retire(gone)
  /\ UNCHANGED <<newer, sessionVars, tmp, callerVars>>

----------------------------------------------------------------------------
(* The processes (outside this code).                                      *)

Crash(s) ==
  /\ MayCrash
  /\ proc[s] = "up"
  /\ proc' = [proc EXCEPT ![s] = "exited"]
  /\ UNCHANGED <<poolVars, holds, dead, closed, lock, asked, tmp, callerVars>>

EndKeepsMerge(s) ==
  /\ closed[s]
  /\ proc[s] \in {"up", "exited"}
  /\ proc' = [proc EXCEPT ![s] = "waited"]
  /\ UNCHANGED <<poolVars, tmp, holds, dead, closed, lock, asked, callerVars>>

\* The goroutine close started: the process exits on end of file, is killed two
\* seconds later or is gone already; it is waited for, and only then is the merge
\* it was reading removed.
End(s) ==
  /\ closed[s]
  /\ proc[s] \in {"up", "exited"}
  /\ proc' = [proc EXCEPT ![s] = "waited"]
  /\ tmp' = tmp \ {s}
  /\ UNCHANGED <<poolVars, holds, dead, closed, lock, asked, callerVars>>

----------------------------------------------------------------------------

Step(c) ==
  \/ AcquireHit(c) \/ AcquireMiss(c)
  \/ SpawnFails(c) \/ \E s \in Session : Spawn(c, s)
  \/ Loaded(c) \/ LoadRefused(c)
  \/ Ask(c) \/ AskDead(c)
  \/ Answered(c) \/ Refused(c) \/ AfterRefusal(c) \/ Broken(c)
  \/ Drop(c) \/ CloseThen(c)

Next ==
  \/ \E c \in Caller : Step(c) \/ \E r \in Ref : Call(c, r) \/ CloseFile(c, r)
  \/ \E s \in Session : CloseRetired(s) \/ Crash(s) \/ End(s)
  \/ \E gone \in SUBSET Open : Reap(gone)

Spec == Init /\ [][Next]_vars

\* Handlers and goroutines are scheduled; a mutex of Go's is not starved (its
\* starvation mode hands it over after a millisecond), hence the strong fairness
\* of what waits for one; a process whose stdin is closed exits or is killed.
\* That a sharkd asked for something answers or exits is assumed: the code has no
\* timeout on it.
Fairness ==
  /\ \A c \in Caller : SF_vars(Step(c))
  /\ \A s \in Session : SF_vars(CloseRetired(s))
  /\ \A s \in Session : WF_vars(End(s))

FairSpec == Spec /\ Fairness

----------------------------------------------------------------------------
(* Invariants.                                                             *)

Working == {"loading", "do", "reading", "refused", "drop"}

\* A request is answered from the capture it names: whatever session acquire came
\* up with, after however many evictions and races, was spawned for that reference.
AnswersOwnCapture ==
  \A c \in Caller : pc[c] \in Working => holds[cur[c]] = want[c]

\* Nothing in do() compares the id of a response with that of the request, so the
\* mutex alone makes the line read the answer to the line written.
ReadsOwnAnswer ==
  \A c \in Caller : pc[c] \in {"loading", "reading"} =>
    lock[cur[c]] = c /\ asked[cur[c]] = <<c>>

\* An eviction, a reap or the close button never takes a sharkd away from a request
\* it is working on: its stdin is open for as long as the mutex is held.
NeverClosedInFlight ==
  \A s \in Session : lock[s] # None => ~closed[s]

InHand == {"loading", "closing"}
Owned(s) ==
  \/ \E r \in Ref : live[r] = s
  \/ s \in retiring
  \/ \E c \in Caller : cur[c] = s /\ pc[c] \in InHand

\* No session is forgotten: one that is not broken is published, on its way to be
\* closed, or in the hands of a caller that will publish or close it.
NoneLost ==
  \A s \in Session : proc[s] # "unborn" /\ ~dead[s] => Owned(s)

\* A temp merge is there for as long as a process may be reading it.
MergeOutlivesReader ==
  \A s \in Session : proc[s] = "up" /\ holds[s] \in Merged => s \in tmp

\* The pool makes room before it spawns and publishes after, so it can exceed Max -
\* but by no more than the callers that were spawning at the same time.
OvershootBound ==
  Cardinality(Open) + Cardinality(Spawning) < Max + Cardinality(Caller)

(* Action and temporal properties.                                         *)

\* What the pool publishes has loaded, and was never handed out or let go before.
PublishesNewOnly ==
  [][\A r \in Ref : live'[r] \notin {None, live[r]} =>
       LET s == live'[r] IN
       /\ proc[s] = "up" /\ ~dead[s] /\ lock'[s] = None
       /\ s \notin Published \cup retiring]_vars

\* Every call comes to an end: attempts are bounded, and nobody waits for a mutex
\* whose holder waits for him.
CallReturns == \A c \in Caller : pc[c] # "idle" ~> pc[c] = "idle"

\* What was retired ends and its merge goes, the requests still queued on it
\* notwithstanding - unless one of them found it broken first.
RetiredEnds ==
  \A s \in Session :
    s \in retiring ~> \/ proc[s] = "waited" /\ s \notin tmp
                      \/ MayCrash /\ dead[s] /\ ~closed[s]

\* sharkd.go:39 "a merge this session is holding, removed when it ends".
MergeRemovedWhenItEnds ==
  \A s \in Session : dead[s] ~> s \notin tmp

(* What each session promises (SharkdSession), and how it is kept here.    *)
phase ==
  [s \in Session |->
    IF proc[s] = "unborn" THEN "unborn"
    ELSE IF proc[s] = "waited" THEN "ended"
    ELSE IF closed[s] THEN "closed"
    ELSE IF dead[s] THEN "broken" ELSE "open"]
busy == [s \in Session |-> lock[s] # None]

Life == INSTANCE SharkdSession WITH phase <- phase, busy <- busy, file <- tmp

\* Whatever the callers, the evictions, the reaper and the crashes do, each session
\* goes through the life SharkdSession promises.
ImplementsLife == Life!Spec

=============================================================================

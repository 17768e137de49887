---------------------------- MODULE PacketCapture ---------------------------
(***************************************************************************)
(* One PacketCapture and the operator that serves it                       *)
(* (operator/internal/controller/packetcapture_controller.go): the object  *)
(* in the API server, the pods it selects, the pods that capture for it,   *)
(* and the passes of Reconcile over them.                                  *)
(*                                                                         *)
(* The object is read from a cache that may lag; pods are read from the    *)
(* API server itself.  Writes of the object fail when it has changed since *)
(* it was read: instead of a resource version the model keeps whether what *)
(* was read, and what is cached, is still the object.  The name of a       *)
(* capture pod is derived from its target's, so it goes by that.  Pending  *)
(* and Capturing are one phase, and Completed and Failed one: no condition *)
(* of the code tells them apart.  Left out are times, files, events, and   *)
(* the conditions and counts of the status, except that they may be all    *)
(* that a pass has to write.                                               *)
(***************************************************************************)
EXTENDS Integers, FiniteSets

CONSTANTS
  Pod,          \* pods the selectors pick, numbered in the order of their names
  MaxTargets,   \* maxTargets(pc)
  MaxActs       \* acts of users, nodes and failures there are at most (bound)

ASSUME CaptureAssumption ==
  Pod \subseteq Nat /\ MaxTargets \in Nat \ {0} /\ MaxActs \in Nat

VARIABLES
  object,      \* the PacketCapture
  target,      \* what each selected pod is doing
  capturer,    \* and the pod that captures it
  leaving,     \* the capture pods that have been deleted and are still there
  cache,       \* the PacketCapture as the operator's cache has it
  cacheNow,    \* is that how it is
  at,          \* how far the operator's pass has come
  read,        \* pc, as the pass has it
  readNow,     \* is that how it is
  pods,        \* pods, as the pass listed them
  left,        \* the pods it has still to look at
  kept,        \* the targets it will report
  acts         \* acts so far

cluster  == <<target, capturer, leaving>>
cached   == <<cache, cacheNow>>
locals   == <<pods, left, kept>>
pass     == <<at, read, readNow, locals>>
vars     == <<object, cluster, cached, pass, acts>>

CaptureTarget ==
  [phase : {"Unlisted", "Capturing", "Completed"},
   paused : BOOLEAN, capturer : BOOLEAN]
PacketCapture ==
  [there : BOOLEAN, deleting : BOOLEAN, finalizer : BOOLEAN, paused : BOOLEAN,
   targets : [Pod -> CaptureTarget]]

Entry(phase, paused, named) == [phase |-> phase, paused |-> paused, capturer |-> named]
Unlisted == Entry("Unlisted", FALSE, FALSE)
Nobody   == [p \in Pod |-> Unlisted]
Absent ==
  [there |-> FALSE, deleting |-> FALSE, finalizer |-> FALSE, paused |-> FALSE,
   targets |-> Nobody]
Fresh == [Absent EXCEPT !.there = TRUE]

Listed(targets) == {p \in Pod : targets[p].phase # "Unlisted"}
Active(t) == t.phase = "Capturing"
Over(t)   == t.phase = "Completed"

\* pod.Status.Phase is Running, for a target on its way out as well.
Runs(state) == state \in {"running", "leaving"}
Captures(p) == capturer[p] = "running" /\ p \notin leaving

\* What targets() finds: pods that run and are not on their way out, in the order of
\* their names, MaxTargets of them at the most.
Selected ==
  LET running == {p \in Pod : target[p] = "running"}
  IN  {p \in running : Cardinality({q \in running : q < p}) < MaxTargets}

Init ==
  /\ object = Absent /\ cache = Absent /\ cacheNow = TRUE
  /\ target = [p \in Pod |-> "none"] /\ capturer = [p \in Pod |-> "none"]
  /\ leaving = {}
  /\ at = "idle" /\ read = Absent /\ readNow = FALSE
  /\ pods = {} /\ left = {} /\ kept = Nobody
  /\ acts = 0

----------------------------------------------------------------------------
(* Everyone else.                                                          *)

\* Objects and pods are made again at no cost: to be gone costs them an act each.
Act == acts < MaxActs /\ acts' = acts + 1

\* Someone else writes the object: nobody's reading of it is how it is any longer.
OthersWrite(new) ==
  /\ object' = new
  /\ cacheNow' = FALSE /\ readNow' = FALSE
  /\ UNCHANGED <<cluster, cache, at, read, locals>>

UserCreates == ~object.there /\ OthersWrite(Fresh) /\ UNCHANGED acts

UserPauses ==
  /\ object.there /\ Act
  /\ OthersWrite([object EXCEPT !.paused = ~object.paused])

\* An object with a finalizer is marked, one without is gone.
UserDeletes ==
  /\ object.there /\ ~object.deleting /\ Act
  /\ OthersWrite(IF object.finalizer THEN [object EXCEPT !.deleting = TRUE]
                 ELSE Absent)

TargetBecomes(p, state) ==
  /\ target' = [target EXCEPT ![p] = state]
  /\ UNCHANGED <<object, capturer, leaving, cached, pass>>

TargetStarts(p) == target[p] = "none" /\ TargetBecomes(p, "running") /\ UNCHANGED acts
TargetLeaves(p) == Act /\ target[p] = "running" /\ TargetBecomes(p, "leaving")
TargetEnds(p)   == Act /\ target[p] = "running" /\ TargetBecomes(p, "ended")
TargetGoes(p) ==
  /\ target[p] \in {"leaving", "ended"}
  /\ TargetBecomes(p, "none")
  /\ UNCHANGED acts

CapturerBecomes(p, state) ==
  /\ capturer' = [capturer EXCEPT ![p] = state]
  /\ UNCHANGED <<object, target, cached, pass, acts>>

\* The script is through, or its pod is turned down or fails.
CapturerEnds(p) ==
  capturer[p] = "running" /\ CapturerBecomes(p, "ended") /\ UNCHANGED leaving

CapturerGoes(p) ==
  /\ p \in leaving
  /\ CapturerBecomes(p, "none")
  /\ leaving' = leaving \ {p}

UserDeletesCapturer(p) ==
  /\ Act
  /\ capturer[p] # "none" /\ p \notin leaving
  /\ leaving' = leaving \cup {p}
  /\ UNCHANGED <<object, target, capturer, cached, pass>>

----------------------------------------------------------------------------
(* The operator: its cache, and the steps of a pass.                       *)

CacheSync ==
  /\ ~cacheNow
  /\ cache' = object /\ cacheNow' = TRUE
  /\ UNCHANGED <<object, cluster, pass, acts>>

\* The pass is over; what it had is forgotten.
PassEnds ==
  /\ at' = "idle" /\ read' = Absent /\ readNow' = FALSE
  /\ pods' = {} /\ left' = {} /\ kept' = Nobody

\* The pass's own write of the object goes through if the object is as it was read.
Write(new) == object' = new /\ cacheNow' = FALSE /\ UNCHANGED cache

NextStep(pc) ==
  IF pc.deleting THEN "stop" ELSE IF pc.finalizer THEN "targets" ELSE "finalizer"

\* reconcile, up to its first write.
PassBegins ==
  /\ at = "idle" /\ cache.there
  /\ at' = NextStep(cache)
  /\ read' = cache /\ readNow' = cacheNow
  /\ UNCHANGED <<object, cluster, cached, locals, acts>>

AddFinalizerBlindly ==
  /\ at = "finalizer"
  /\ at' = "targets"
  /\ IF readNow
     THEN /\ Write([object EXCEPT !.finalizer = TRUE])
          /\ read' = [read EXCEPT !.finalizer = TRUE]
     ELSE UNCHANGED <<object, cached, read>>
  /\ UNCHANGED <<cluster, readNow, locals, acts>>

AddFinalizer ==
  /\ at = "finalizer" /\ readNow
  /\ Write([object EXCEPT !.finalizer = TRUE])
  /\ read' = [read EXCEPT !.finalizer = TRUE]
  /\ at' = "targets"
  /\ UNCHANGED <<cluster, readNow, locals, acts>>

\* There is no telling the Webshark to upload to, or which pods: nothing is looked at,
\* and the targets are reported as they were.  It may be so in any pass, and in all.
NoWebshark ==
  /\ at = "targets"
  /\ at' = "finish"
  /\ kept' = read.targets
  /\ UNCHANGED <<object, cluster, cached, read, readNow, pods, left, acts>>

ListTargets ==
  /\ at = "targets"
  /\ at' = "each"
  /\ pods' = Selected
  /\ left' = Listed(read.targets) \cup Selected
  /\ kept' = read.targets
  /\ UNCHANGED <<object, cluster, cached, read, readNow, acts>>

\* The target of an entry as observe is given it: as it was listed, or else as it is
\* now, or else nil.
PodOf(p) ==
  IF p \in pods THEN "running" ELSE IF Active(read.targets[p]) THEN target[p] ELSE "none"

\* observeCapturePod.
SeenRaw(p) == Entry(capturer[p], FALSE, TRUE)
Seen(p) == Entry(IF capturer[p] = "running" THEN "Capturing" ELSE "Completed", FALSE, TRUE)

Observes(p) == read.targets[p].capturer /\ Active(read.targets[p])
StopReasonWhenGone(p) == PodOf(p) = "none" \/ read.paused
StopReason(p) == ~Runs(PodOf(p)) \/ read.paused

Observed(p) ==
  IF ~Observes(p) THEN read.targets[p]
  ELSE IF capturer[p] = "none" THEN Entry("Completed", FALSE, TRUE)
  ELSE IF StopReason(p) THEN Entry("Completed", Runs(PodOf(p)), TRUE)
  ELSE Seen(p)

ResumesNever(p) == FALSE
Resumes(p) ==
  /\ read.targets[p].paused
  /\ ~read.paused
  /\ p \in pods

Report(p, t) ==
  /\ kept' = [kept EXCEPT ![p] = t]
  /\ left' = left \ {p}
  /\ UNCHANGED <<object, target, cached, at, read, readNow, pods>>

\* start: adopt the capture pod there is, skip when it is on its way out, create one.
Adopts(p) ==
  /\ capturer[p] # "none" /\ p \notin leaving
  /\ Report(p, Seen(p))
  /\ UNCHANGED <<capturer, leaving, acts>>

Skips(p, t) ==
  /\ p \in leaving \/ (capturer[p] = "none" /\ read.paused)
  /\ Report(p, t)
  /\ UNCHANGED <<capturer, leaving, acts>>

Creates(p, t) ==
  /\ capturer[p] = "none" /\ ~read.paused
  /\ capturer' = [capturer EXCEPT ![p] = "running"]
  /\ Report(p, t)

Starts(p) == Creates(p, Entry("Capturing", FALSE, TRUE)) /\ UNCHANGED <<leaving, acts>>

\* Create fails: the pod is refused, or it is made and the answer lost.
Fails(p, t) ==
  /\ Act /\ UNCHANGED leaving
  /\ \/ Creates(p, t)
     \/ capturer[p] = "none" /\ ~read.paused /\ Report(p, t) /\ UNCHANGED capturer

\* Create finds the target's namespace gone, or a conflict: the next pass tries again.
TargetWent(p) ==
  /\ Act
  /\ capturer[p] = "none" /\ ~read.paused
  /\ Report(p, Unlisted)
  /\ UNCHANGED <<capturer, leaving>>

ObserveLeavesItRunning(p) ==
  /\ at = "each" /\ p \in left /\ p \in Listed(read.targets)
  /\ ~Resumes(p)
  /\ Report(p, Observed(p))
  /\ UNCHANGED <<capturer, leaving, acts>>

Observe(p) ==
  /\ at = "each" /\ p \in left /\ p \in Listed(read.targets)
  /\ ~Resumes(p)
  /\ Report(p, Observed(p))
  /\ leaving' = IF Observes(p) /\ capturer[p] # "none" /\ StopReason(p)
                THEN leaving \cup {p} ELSE leaving
  /\ UNCHANGED <<capturer, acts>>

Resume(p) ==
  /\ at = "each" /\ p \in left /\ p \in Listed(read.targets)
  /\ Resumes(p)
  /\ \/ Adopts(p)
     \/ Skips(p, read.targets[p])
     \/ Starts(p)
     \/ Fails(p, read.targets[p])

\* Pods without an entry come after the entries, in order, while there is room.
Old == left \cap Listed(read.targets)
Room == Cardinality(Listed(kept)) < MaxTargets

Start(p) ==
  /\ at = "each" /\ Old = {} /\ Room
  /\ p \in left /\ \A q \in left : p <= q
  /\ \/ Adopts(p)
     \/ Skips(p, Unlisted)
     \/ Starts(p)
     \/ Fails(p, Entry("Completed", FALSE, FALSE))
     \/ TargetWent(p)

Looked ==
  /\ at = "each" /\ Old = {} /\ (left = {} \/ ~Room)
  /\ at' = "finish"
  /\ pods' = {} /\ left' = {}
  /\ UNCHANGED <<object, cluster, cached, read, readNow, kept, acts>>

FinishBlindly ==
  /\ at = "finish"
  /\ object.there
  /\ Write([object EXCEPT !.targets = kept])
  /\ PassEnds
  /\ UNCHANGED <<cluster, acts>>

\* Nothing to write, or only conditions and counts, or the targets.
Finish ==
  /\ at = "finish"
  /\ \/ kept = read.targets /\ UNCHANGED <<object, cached>>
     \/ readNow /\ Write([object EXCEPT !.targets = kept])
  /\ PassEnds
  /\ UNCHANGED <<cluster, acts>>

\* stopAll: every capture pod there is, and then the finalizer.
StopEnded(p) ==
  /\ at = "stop"
  /\ capturer[p] = "ended" /\ p \notin leaving
  /\ leaving' = leaving \cup {p}
  /\ UNCHANGED <<object, target, capturer, cached, pass, acts>>

Stop(p) ==
  /\ at = "stop"
  /\ capturer[p] # "none" /\ p \notin leaving
  /\ leaving' = leaving \cup {p}
  /\ UNCHANGED <<object, target, capturer, cached, pass, acts>>

Release ==
  /\ at = "stop" /\ readNow
  /\ \A p \in Pod : capturer[p] # "none" => p \in leaving
  /\ Write(Absent)
  /\ PassEnds
  /\ UNCHANGED <<cluster, acts>>

\* A write that finds the object changed: round again.
Conflict ==
  /\ ~readNow
  /\ \/ at = "finalizer"
     \/ at = "finish"
     \/ at = "stop" /\ \A p \in Pod : capturer[p] # "none" => p \in leaving
  /\ PassEnds
  /\ UNCHANGED <<object, cluster, cached, acts>>

\* The API server answers with an error, or the operator goes down and comes back.
PassBreaksOff ==
  /\ at # "idle" /\ Act
  /\ PassEnds
  /\ UNCHANGED <<object, cluster, cached>>

----------------------------------------------------------------------------

Users ==
  \/ UserCreates \/ UserPauses \/ UserDeletes
  \/ \E p \in Pod : UserDeletesCapturer(p)

Nodes ==
  \E p \in Pod :
    \/ TargetStarts(p) \/ TargetLeaves(p) \/ TargetEnds(p) \/ TargetGoes(p)
    \/ CapturerEnds(p) \/ CapturerGoes(p)

PassGoesOn ==
  \/ PassBegins \/ AddFinalizer \/ NoWebshark \/ ListTargets \/ Looked \/ Finish
  \/ Release \/ Conflict
  \/ \E p \in Pod : Observe(p) \/ Resume(p) \/ Start(p) \/ Stop(p)

Next == Users \/ Nodes \/ CacheSync \/ PassGoesOn \/ PassBreaksOff

Spec == Init /\ [][Next]_vars

\* A pass is requeued after every Poll or Idle and on every error; a watch delivers; the
\* kubelet removes what has been deleted.
FairSpec ==
  /\ Spec
  /\ WF_vars(CacheSync) /\ WF_vars(PassGoesOn)
  /\ \A p \in Pod : WF_vars(CapturerGoes(p))

----------------------------------------------------------------------------

TypeOK ==
  /\ object \in PacketCapture /\ cache \in PacketCapture /\ read \in PacketCapture
  /\ cacheNow \in BOOLEAN /\ readNow \in BOOLEAN
  /\ target \in [Pod -> {"none", "running", "leaving", "ended"}]
  /\ capturer \in [Pod -> {"none", "running", "ended"}]
  /\ leaving \subseteq Pod /\ pods \subseteq Pod /\ left \subseteq Pod
  /\ at \in {"idle", "finalizer", "targets", "each", "finish", "stop"}
  /\ kept \in [Pod -> CaptureTarget]
  /\ acts \in 0 .. MaxActs

\* sniffer.go: "a capture that outlived the object that asked for it would be a capture
\* nobody could stop at all": what captures has an object whose finalizer stops it.
NoOrphans == \A p \in Pod : Captures(p) => object.there /\ object.finalizer

\* When a target is reported over, no tcpdump is running for it any more: what has not
\* ended by itself has been deleted.
OverIsOver ==
  [][ \A p \in Pod :
        LET t == object'.targets[p] IN
        t # object.targets[p] /\ Over(t) /\ t.capturer => ~Captures(p) ]_vars

\* "Finished captures stay on it": no pass, however stale what it read, takes an entry
\* off the status or brings back one that is over, but to resume it.
NothingForgotten ==
  [][ object.there /\ object'.there =>
        \A p \in Pod :
          LET t == object.targets[p] IN
          /\ t.phase # "Unlisted" => object'.targets[p].phase # "Unlisted"
          /\ Over(t) /\ ~t.paused => object'.targets[p] = t ]_object

\* Deleting the object ends it, whatever is going on.
DeleteEnds == []<>~object.deleting

\* Which pods there are, and whether the object is paused, is looked at only in a pass
\* that can tell the Webshark to upload to.  What follows is said of when passes come to
\* be able to and stay so; until then nothing is started, and a capture that is paused,
\* or whose pod has gone, goes on, for all that operator/README.md says of a pause.
WebsharkStays == <>[][~NoWebshark]_vars

\* A pod that is selected is not passed over for ever: not one without an entry while
\* there is room, nor one whose capture was paused once it is no longer.
Served == object.there /\ ~object.deleting
Wanted(p) ==
  /\ Served /\ ~object.paused /\ p \in Selected
  /\ \/ object.targets[p].paused
     \/ object.targets[p].phase = "Unlisted" /\ Cardinality(Listed(object.targets)) < MaxTargets
CaptureStarts == WebsharkStays => \A p \in Pod : []<>~Wanted(p)

\* A capture the status calls running does not go on for ever under a pause, nor after
\* the pod it captures, unless it is for ever that passes cannot tell a Webshark.
Overdue(p) ==
  /\ Served /\ Captures(p)
  /\ Active(object.targets[p])
  /\ object.paused \/ ~Runs(target[p])
CaptureStops == WebsharkStays => \A p \in Pod : []<>~Overdue(p)

=============================================================================

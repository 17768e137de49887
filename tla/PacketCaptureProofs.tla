------------------------ MODULE PacketCaptureProofs -------------------------
(***************************************************************************)
(* What PacketCapture keeps, for any pods and any number of targets and    *)
(* acts: nothing captures without an object that can stop it, and what the *)
(* status says of a target that is over stays said, and is so.             *)
(***************************************************************************)
EXTENDS PacketCapture, TLAPS

\* What the cache and the pass have is the object, when they are said to be current.
Current ==
  /\ cacheNow => cache = object
  /\ readNow => at # "idle" /\ read = object

\* An object read with its finalizer, and not deleted, still has it: only the operator
\* takes it off, in a pass that has read the object deleted.
Guards(pc) == pc.finalizer /\ ~pc.deleting => object.there /\ object.finalizer
Guarded ==
  /\ Guards(cache) /\ Guards(read)
  /\ object.finalizer => object.there

\* What a pass has read, by how far it has come.
Stage ==
  /\ at = "finalizer" => read.there /\ ~read.deleting
  /\ at \in {"targets", "each", "finish"} => read.finalizer /\ ~read.deleting
  /\ at = "stop" => read.deleting

\* A pass that is about to release the object has no older one left to be read.
NoneOlder == at = "stop" /\ readNow => ~(cache.finalizer /\ ~cache.deleting)

\* What a pass is going to report of an entry t that it read.
Stays(t, k) ==
  /\ t.phase # "Unlisted" => k.phase # "Unlisted"
  /\ Over(t) /\ ~t.paused => k = t
Reported ==
  at \in {"each", "finish"} =>
    \A p \in Pod :
      /\ Stays(read.targets[p], kept[p])
      /\ kept[p] # read.targets[p] /\ Over(kept[p]) /\ kept[p].capturer => ~Captures(p)

IInv == TypeOK /\ Current /\ Guarded /\ Stage /\ NoneOlder /\ NoOrphans /\ Reported

----------------------------------------------------------------------------

LEMMA BlankTyped ==
  /\ Absent \in PacketCapture /\ Fresh \in PacketCapture /\ Nobody \in [Pod -> CaptureTarget]
  /\ ~Absent.there /\ Fresh.there /\ ~Absent.finalizer /\ ~Fresh.finalizer
  /\ Absent.targets = Nobody /\ Fresh.targets = Nobody
BY DEF Absent, Fresh, Nobody, Unlisted, Entry, PacketCapture, CaptureTarget

LEMMA EntryTyped ==
  ASSUME NEW f \in {"Unlisted", "Capturing", "Completed"}, NEW a \in BOOLEAN, NEW b \in BOOLEAN
  PROVE  /\ Entry(f, a, b) \in CaptureTarget
         /\ Entry(f, a, b).phase = f /\ Entry(f, a, b).paused = a
         /\ Entry(f, a, b).capturer = b
BY DEF Entry, CaptureTarget

\* When a pass is over, what it read binds no one any more.
LEMMA EndKeeps ==
  ASSUME IInv, PassEnds, UNCHANGED <<object, cluster, cached>>, acts' \in 0 .. MaxActs
  PROVE  IInv'
<1>1. TypeOK'
  BY BlankTyped DEF IInv, TypeOK, PassEnds, cluster, cached
<1>2. Current' /\ Stage' /\ NoneOlder' /\ Reported'
  BY DEF IInv, Current, Stage, NoneOlder, Reported, PassEnds, cached
<1>3. Guarded' /\ NoOrphans'
  BY BlankTyped DEF IInv, Guarded, Guards, NoOrphans, Captures, PassEnds, cluster, cached
<1>. QED BY <1>1, <1>2, <1>3 DEF IInv

\* Someone else's write of the object keeps it all, if it takes no finalizer off.
LEMMA OthersKeep ==
  ASSUME IInv, NEW new \in PacketCapture, OthersWrite(new), acts' \in 0 .. MaxActs,
         new.finalizer => new.there,
         object.there /\ object.finalizer => new.there /\ new.finalizer
  PROVE  IInv'
<1>. USE DEF OthersWrite, cluster, locals
<1>1. TypeOK'
  BY DEF IInv, TypeOK
<1>2. Current' /\ Stage' /\ NoneOlder'
  BY DEF IInv, Current, Stage, NoneOlder
<1>3. Guarded' /\ NoOrphans'
  BY DEF IInv, Guarded, Guards, NoOrphans, Captures
<1>4. Reported'
  BY DEF IInv, Reported, Captures
<1>. QED BY <1>1, <1>2, <1>3, <1>4 DEF IInv

LEMMA UsersKeep == ASSUME IInv, Users PROVE IInv'
<1>1. CASE UserCreates
  <2>1. ~object.there /\ OthersWrite(Fresh) /\ acts' \in 0 .. MaxActs
    BY <1>1 DEF UserCreates, IInv, TypeOK
  <2>. QED BY <2>1, BlankTyped, OthersKeep
<1>2. CASE UserPauses
  <2>. DEFINE new == [object EXCEPT !.paused = ~object.paused]
  <2>1. /\ new \in PacketCapture /\ new.there = object.there
        /\ new.finalizer = object.finalizer
    BY DEF IInv, TypeOK, PacketCapture
  <2>2. OthersWrite(new) /\ acts' \in 0 .. MaxActs
    BY <1>2, CaptureAssumption DEF UserPauses, Act, IInv, TypeOK
  <2>3. object.finalizer => object.there
    BY DEF IInv, Guarded
  <2>. HIDE DEF new
  <2>. QED BY <2>1, <2>2, <2>3, OthersKeep
<1>3. CASE UserDeletes
  <2>1. acts' \in 0 .. MaxActs
    BY <1>3, CaptureAssumption DEF UserDeletes, Act, IInv, TypeOK
  <2>2. CASE object.finalizer
    <3>. DEFINE new == [object EXCEPT !.deleting = TRUE]
    <3>1. /\ new \in PacketCapture /\ new.there = object.there
          /\ new.finalizer = object.finalizer
      BY DEF IInv, TypeOK, PacketCapture
    <3>2. OthersWrite(new)
      BY <1>3, <2>2 DEF UserDeletes
    <3>3. object.finalizer => object.there
      BY DEF IInv, Guarded
    <3>. HIDE DEF new
    <3>. QED BY <3>1, <3>2, <3>3, <2>1, OthersKeep
  <2>3. CASE ~object.finalizer
    <3>1. OthersWrite(Absent)
      BY <1>3, <2>3 DEF UserDeletes
    <3>. QED BY <3>1, <2>1, <2>3, BlankTyped, OthersKeep
  <2>. QED BY <2>2, <2>3
<1>4. ASSUME NEW p \in Pod, UserDeletesCapturer(p) PROVE IInv'
  <2>. USE <1>4 DEF UserDeletesCapturer, cached, pass, locals
  <2>1. TypeOK'
    BY CaptureAssumption DEF IInv, TypeOK, Act
  <2>2. Current' /\ Guarded' /\ Stage' /\ NoneOlder'
    BY DEF IInv, Current, Guarded, Guards, Stage, NoneOlder
  <2>3. NoOrphans' /\ Reported'
    BY DEF IInv, NoOrphans, Reported, Captures
  <2>. QED BY <2>1, <2>2, <2>3 DEF IInv
<1>. QED BY <1>1, <1>2, <1>3, <1>4 DEF Users

LEMMA NodesKeep == ASSUME IInv, Nodes PROVE IInv'
<1>1. ASSUME NEW p \in Pod,
             TargetStarts(p) \/ TargetLeaves(p) \/ TargetEnds(p) \/ TargetGoes(p)
      PROVE  IInv'
  <2>1. \E s \in {"none", "running", "leaving", "ended"} : TargetBecomes(p, s)
    BY <1>1 DEF TargetStarts, TargetLeaves, TargetEnds, TargetGoes
  <2>2. acts' \in 0 .. MaxActs
    BY <1>1, CaptureAssumption
    DEF TargetStarts, TargetLeaves, TargetEnds, TargetGoes, Act, IInv, TypeOK
  <2>. USE DEF TargetBecomes, cached, pass, locals
  <2>3. TypeOK'
    BY <2>1, <2>2 DEF IInv, TypeOK
  <2>4. Current' /\ Guarded' /\ Stage' /\ NoneOlder' /\ NoOrphans' /\ Reported'
    BY <2>1
    DEF IInv, Current, Guarded, Guards, Stage, NoneOlder, NoOrphans, Reported, Captures
  <2>. QED BY <2>3, <2>4 DEF IInv
<1>2. ASSUME NEW p \in Pod, CapturerEnds(p) \/ CapturerGoes(p) PROVE IInv'
  <2>. USE DEF CapturerEnds, CapturerGoes, CapturerBecomes, cached, pass, locals
  <2>1. TypeOK'
    BY <1>2 DEF IInv, TypeOK
  <2>2. \A q \in Pod : Captures(q)' => Captures(q)
    BY <1>2 DEF IInv, TypeOK, Captures
  <2>3. Current' /\ Guarded' /\ Stage' /\ NoneOlder'
    BY <1>2 DEF IInv, Current, Guarded, Guards, Stage, NoneOlder
  <2>4. NoOrphans' /\ Reported'
    BY <1>2, <2>2 DEF IInv, NoOrphans, Reported
  <2>. QED BY <2>1, <2>2, <2>3, <2>4 DEF IInv
<1>. QED BY <1>1, <1>2 DEF Nodes

----------------------------------------------------------------------------
(* The steps of a pass.                                                    *)

LEMMA CacheKeeps == ASSUME IInv, CacheSync PROVE IInv'
<1>. USE DEF CacheSync, cluster, pass, locals
<1>1. TypeOK' /\ Current' /\ Stage' /\ Reported'
  BY DEF IInv, TypeOK, Current, Stage, Reported, Captures
<1>2. Guarded' /\ NoOrphans'
  BY DEF IInv, Guarded, Guards, NoOrphans, Captures
<1>3. NoneOlder'
  BY DEF IInv, NoneOlder, Current, Stage
<1>. QED BY <1>1, <1>2, <1>3 DEF IInv

LEMMA BeginKeeps == ASSUME IInv, PassBegins PROVE IInv'
<1>. USE DEF PassBegins, cluster, cached, locals
<1>1. /\ at' \in {"stop", "targets", "finalizer"}
      /\ at' = "stop" => cache.deleting
      /\ at' = "targets" => ~cache.deleting /\ cache.finalizer
      /\ at' = "finalizer" => ~cache.deleting
  BY DEF NextStep
<1>2. TypeOK'
  BY <1>1 DEF IInv, TypeOK
<1>3. Current' /\ Stage' /\ NoneOlder' /\ Reported'
  BY <1>1 DEF IInv, Current, Stage, NoneOlder, Reported
<1>4. Guarded' /\ NoOrphans'
  BY DEF IInv, Guarded, Guards, NoOrphans, Captures
<1>. QED BY <1>2, <1>3, <1>4 DEF IInv

LEMMA FinalizerKeeps == ASSUME IInv, AddFinalizer PROVE IInv'
<1>. USE DEF AddFinalizer, Write, cluster, locals
<1>1. /\ object' = [object EXCEPT !.finalizer = TRUE] /\ read' = object'
      /\ object \in PacketCapture /\ read = object
  BY DEF IInv, TypeOK, Current
<1>2. /\ object' \in PacketCapture /\ object'.finalizer
      /\ object'.there = object.there /\ object'.deleting = object.deleting
  BY <1>1 DEF PacketCapture
<1>3. object.there /\ ~object.deleting
  BY <1>1 DEF IInv, Stage
<1>4. TypeOK'
  BY <1>1, <1>2 DEF IInv, TypeOK
<1>5. Current' /\ Stage' /\ NoneOlder' /\ Reported'
  BY <1>1, <1>2, <1>3 DEF IInv, Current, Stage, NoneOlder, Reported
<1>6. Guarded' /\ NoOrphans'
  BY <1>1, <1>2, <1>3 DEF IInv, Guarded, Guards, NoOrphans, Captures
<1>. QED BY <1>4, <1>5, <1>6 DEF IInv

\* Listing, or not being able to, and having looked at them all.
LEMMA LookKeeps == ASSUME IInv, NoWebshark \/ ListTargets \/ Looked PROVE IInv'
<1>. USE DEF NoWebshark, ListTargets, Looked, cluster, cached
<1>1. acts' \in 0 .. MaxActs
  BY CaptureAssumption DEF Act, IInv, TypeOK
<1>2. Selected \subseteq Pod /\ Listed(read.targets) \subseteq Pod
  BY DEF Selected, Listed
<1>3. kept' \in [Pod -> CaptureTarget]
  BY DEF IInv, TypeOK, PacketCapture
<1>4. TypeOK'
  BY <1>1, <1>2, <1>3 DEF IInv, TypeOK
<1>5. Current' /\ Guarded' /\ Stage' /\ NoneOlder' /\ NoOrphans'
  BY DEF IInv, Current, Guarded, Guards, Stage, NoneOlder, NoOrphans, Captures
<1>6. Reported'
  BY DEF IInv, Reported, Stays, Captures
<1>. QED BY <1>4, <1>5, <1>6 DEF IInv

\* A pass that reports t for p keeps it all, if t is what may be reported, and what it
\* does to capture pods it does to p's.
LEMMA ReportKeeps ==
  ASSUME IInv, at = "each", NEW p \in Pod, NEW t \in CaptureTarget, Report(p, t),
         acts' \in 0 .. MaxActs,
         capturer' \in [Pod -> {"none", "running", "ended"}], leaving' \subseteq Pod,
         \A q \in Pod : q # p => (Captures(q)' => Captures(q)),
         Stays(read.targets[p], t),
         t # read.targets[p] /\ Over(t) /\ t.capturer => ~Captures(p)'
  PROVE  IInv'
<1>. USE DEF Report, cached
<1>1. TypeOK'
  BY DEF IInv, TypeOK
<1>2. Current' /\ Guarded' /\ Stage' /\ NoneOlder'
  BY DEF IInv, Current, Guarded, Guards, Stage, NoneOlder
<1>3. NoOrphans'
  BY DEF IInv, NoOrphans, Guarded, Guards, Stage
<1>4. kept'[p] = t /\ \A q \in Pod : q # p => kept'[q] = kept[q]
  BY DEF IInv, TypeOK
<1>5. Reported'
  <2>. SUFFICES ASSUME NEW q \in Pod
                PROVE  /\ Stays(read'.targets[q], kept'[q])
                       /\ kept'[q] # read'.targets[q] /\ Over(kept'[q]) /\ kept'[q].capturer
                            => ~Captures(q)'
    BY DEF Reported
  <2>1. CASE q = p
    BY <2>1, <1>4
  <2>2. CASE q # p
    BY <2>2, <1>4 DEF IInv, Reported
  <2>. QED BY <2>1, <2>2
<1>. QED BY <1>1, <1>2, <1>3, <1>5 DEF IInv

LEMMA SeenIsSo ==
  ASSUME IInv, NEW p \in Pod, capturer[p] # "none"
  PROVE  /\ Seen(p) \in CaptureTarget /\ Seen(p).phase # "Unlisted"
         /\ Over(Seen(p)) => ~Captures(p)
<1>1. CASE capturer[p] = "running"
  BY <1>1, EntryTyped DEF Seen, Over
<1>2. CASE capturer[p] # "running"
  BY <1>2, EntryTyped DEF Seen, Captures
<1>. QED BY <1>1, <1>2

LEMMA ObserveKeeps == ASSUME IInv, NEW p \in Pod, Observe(p) PROVE IInv'
<1>. DEFINE t == read.targets[p]
            k == Observed(p)
<1>1. /\ at = "each" /\ Report(p, k) /\ UNCHANGED <<capturer, acts>>
      /\ t \in CaptureTarget /\ t.phase # "Unlisted"
  BY DEF Observe, Listed, IInv, TypeOK, PacketCapture
<1>2. leaving \subseteq leaving' /\ leaving' \subseteq leaving \cup {p}
  BY DEF Observe
<1>3. \A q \in Pod : Captures(q)' => Captures(q)
  BY <1>1, <1>2 DEF Captures
<1>4. k \in CaptureTarget /\ Stays(t, k)
      /\ (k # t /\ Over(k) /\ k.capturer => ~Captures(p)')
  <2>1. CASE ~Observes(p)
    BY <2>1, <1>1 DEF Observed, Stays
  <2>2. CASE Observes(p)
    <3>1. ~Over(t)
      BY <2>2 DEF Observes, Active, Over
    <3>2. CASE capturer[p] = "none"
      <4>1. k = Entry("Completed", FALSE, TRUE)
        BY <2>2, <3>2 DEF Observed
      <4>. QED BY <4>1, <3>1, <3>2, <1>1, EntryTyped DEF Stays, Captures
    <3>3. CASE capturer[p] # "none" /\ StopReason(p)
      <4>1. k = Entry("Completed", Runs(PodOf(p)), TRUE)
        BY <2>2, <3>3 DEF Observed
      <4>2. Runs(PodOf(p)) \in BOOLEAN
        BY DEF Runs
      <4>3. p \in leaving'
        BY <2>2, <3>3 DEF Observe
      <4>. QED BY <4>1, <4>2, <4>3, <3>1, EntryTyped DEF Stays, Captures
    <3>4. CASE capturer[p] # "none" /\ ~StopReason(p)
      <4>1. k = Seen(p)
        BY <2>2, <3>4 DEF Observed
      <4>. QED BY <4>1, <3>1, <3>4, <1>3, SeenIsSo DEF Stays
    <3>. QED BY <3>2, <3>3, <3>4
  <2>. QED BY <2>1, <2>2
<1>5. /\ acts' \in 0 .. MaxActs /\ leaving' \subseteq Pod
      /\ capturer' \in [Pod -> {"none", "running", "ended"}]
  BY <1>1, <1>2 DEF IInv, TypeOK
<1>. HIDE DEF k
<1>. QED BY <1>1, <1>3, <1>4, <1>5, ReportKeeps

\* start, for an entry that is to be resumed or for a pod without one: t is what is
\* reported when nothing is started, or when it could not be.
LEMMA StartKeeps ==
  ASSUME IInv, at = "each", NEW p \in Pod, NEW t \in CaptureTarget,
         Stays(read.targets[p], t),
         t # read.targets[p] => ~(Over(t) /\ t.capturer),
         Over(read.targets[p]) => read.targets[p].paused,
         Adopts(p) \/ Skips(p, t) \/ Starts(p) \/ Fails(p, t)
  PROVE  IInv'
<1>1. CASE Adopts(p)
  <2>1. /\ Report(p, Seen(p)) /\ UNCHANGED <<capturer, leaving, acts>> /\ capturer[p] # "none"
    BY <1>1 DEF Adopts
  <2>2. \A q \in Pod : Captures(q)' = Captures(q)
    BY <2>1 DEF Captures
  <2>3. /\ Seen(p) \in CaptureTarget /\ Stays(read.targets[p], Seen(p))
        /\ Over(Seen(p)) => ~Captures(p)'
    BY <2>1, <2>2, SeenIsSo DEF Stays
  <2>4. /\ acts' \in 0 .. MaxActs /\ leaving' \subseteq Pod
        /\ capturer' \in [Pod -> {"none", "running", "ended"}]
    BY <2>1 DEF IInv, TypeOK
  <2>. QED BY <2>1, <2>2, <2>3, <2>4, ReportKeeps
<1>2. CASE Skips(p, t)
  <2>1. Report(p, t) /\ UNCHANGED <<capturer, leaving, acts>>
    BY <1>2 DEF Skips
  <2>2. \A q \in Pod : Captures(q)' = Captures(q)
    BY <2>1 DEF Captures
  <2>3. /\ acts' \in 0 .. MaxActs /\ leaving' \subseteq Pod
        /\ capturer' \in [Pod -> {"none", "running", "ended"}]
    BY <2>1 DEF IInv, TypeOK
  <2>. QED BY <2>1, <2>2, <2>3, ReportKeeps
<1>3. CASE Starts(p)
  <2>. DEFINE k == Entry("Capturing", FALSE, TRUE)
  <2>1. /\ Report(p, k) /\ UNCHANGED <<leaving, acts>>
        /\ capturer' = [capturer EXCEPT ![p] = "running"]
    BY <1>3 DEF Starts, Creates
  <2>2. \A q \in Pod : q # p => (Captures(q)' => Captures(q))
    BY <2>1 DEF Captures, IInv, TypeOK
  <2>3. k \in CaptureTarget /\ Stays(read.targets[p], k) /\ ~Over(k)
    BY EntryTyped DEF Stays, Over
  <2>4. /\ acts' \in 0 .. MaxActs /\ leaving' \subseteq Pod
        /\ capturer' \in [Pod -> {"none", "running", "ended"}]
    BY <2>1 DEF IInv, TypeOK
  <2>. HIDE DEF k
  <2>. QED BY <2>1, <2>2, <2>3, <2>4, ReportKeeps
<1>4. CASE Fails(p, t)
  <2>1. /\ Report(p, t) /\ UNCHANGED leaving
        /\ capturer' = [capturer EXCEPT ![p] = "running"] \/ UNCHANGED capturer
    BY <1>4 DEF Fails, Creates
  <2>2. \A q \in Pod : q # p => (Captures(q)' => Captures(q))
    BY <2>1 DEF Captures, IInv, TypeOK
  <2>3. /\ acts' \in 0 .. MaxActs /\ leaving' \subseteq Pod
        /\ capturer' \in [Pod -> {"none", "running", "ended"}]
    BY <2>1, <1>4, CaptureAssumption DEF IInv, TypeOK, Fails, Act
  <2>. QED BY <2>1, <2>2, <2>3, ReportKeeps
<1>. QED BY <1>1, <1>2, <1>3, <1>4

LEMMA ResumeKeeps == ASSUME IInv, NEW p \in Pod, Resume(p) PROVE IInv'
<1>1. /\ at = "each" /\ read.targets[p] \in CaptureTarget /\ read.targets[p].paused
  BY DEF Resume, Resumes, IInv, TypeOK, PacketCapture
<1>. QED BY <1>1, StartKeeps DEF Resume, Stays

LEMMA NewKeeps == ASSUME IInv, NEW p \in Pod, Start(p) PROVE IInv'
<1>1. at = "each" /\ read.targets[p].phase = "Unlisted"
  BY DEF Start, Old, Listed
<1>2. ~Over(read.targets[p]) /\ \A k : Stays(read.targets[p], k)
  BY <1>1 DEF Over, Stays
<1>. DEFINE no   == Entry("Completed", FALSE, FALSE)
<1>3. no \in CaptureTarget /\ ~no.capturer
  BY EntryTyped
<1>4. Unlisted \in CaptureTarget /\ ~Over(Unlisted)
  BY EntryTyped DEF Unlisted, Over
<1>5. CASE Adopts(p) \/ Skips(p, Unlisted) \/ Starts(p)
  BY <1>5, <1>1, <1>2, <1>4, StartKeeps
<1>6. CASE Fails(p, no)
  <2>. HIDE DEF no
  <2>. QED BY <1>6, <1>1, <1>2, <1>3, StartKeeps
<1>7. CASE TargetWent(p)
  <2>1. Report(p, Unlisted) /\ UNCHANGED <<capturer, leaving>> /\ acts' \in 0 .. MaxActs
    BY <1>7, CaptureAssumption DEF TargetWent, Act, IInv, TypeOK
  <2>2. \A q \in Pod : Captures(q)' = Captures(q)
    BY <2>1 DEF Captures
  <2>3. leaving' \subseteq Pod /\ capturer' \in [Pod -> {"none", "running", "ended"}]
    BY <2>1 DEF IInv, TypeOK
  <2>. QED BY <1>1, <1>2, <1>4, <2>1, <2>2, <2>3, ReportKeeps
<1>. QED BY <1>5, <1>6, <1>7 DEF Start

LEMMA FinishKeeps == ASSUME IInv, Finish PROVE IInv'
<1>1. CASE UNCHANGED <<object, cached>>
  BY <1>1, EndKeeps DEF Finish, IInv, TypeOK
<1>2. CASE readNow /\ Write([object EXCEPT !.targets = kept])
  <2>. USE DEF Write, cluster
  <2>1. /\ object' = [object EXCEPT !.targets = kept] /\ ~cacheNow' /\ cache' = cache
        /\ PassEnds /\ UNCHANGED <<cluster, acts>>
    BY <1>2 DEF Finish
  <2>2. /\ object' \in PacketCapture /\ object'.there = object.there
        /\ object'.finalizer = object.finalizer
    BY <2>1 DEF IInv, TypeOK, PacketCapture
  <2>3. TypeOK'
    BY <2>1, <2>2, <1>2, BlankTyped DEF IInv, TypeOK, PassEnds
  <2>4. Current' /\ Stage' /\ NoneOlder' /\ Reported'
    BY <2>1 DEF Current, Stage, NoneOlder, Reported, PassEnds
  <2>5. Guarded' /\ NoOrphans'
    BY <2>1, <2>2, BlankTyped DEF IInv, Guarded, Guards, NoOrphans, Captures, PassEnds
  <2>. QED BY <2>3, <2>4, <2>5 DEF IInv
<1>. QED BY <1>1, <1>2 DEF Finish

LEMMA StopKeeps == ASSUME IInv, NEW p \in Pod, Stop(p) PROVE IInv'
<1>. USE DEF Stop, cached, pass, locals
<1>1. TypeOK' /\ Current' /\ Guarded' /\ Stage' /\ NoneOlder'
  BY DEF IInv, TypeOK, Current, Guarded, Guards, Stage, NoneOlder
<1>2. NoOrphans' /\ Reported'
  BY DEF IInv, NoOrphans, Reported, Captures
<1>. QED BY <1>1, <1>2 DEF IInv

\* The finalizer goes when all that captures has been deleted, and with no older reading
\* of the object left for another pass to start from.
LEMMA ReleaseKeeps == ASSUME IInv, Release PROVE IInv'
<1>. USE DEF Write, cluster
<1>1. /\ object' = Absent /\ cacheNow' = FALSE /\ cache' = cache
      /\ PassEnds /\ UNCHANGED <<cluster, acts>>
      /\ \A p \in Pod : capturer[p] # "none" => p \in leaving
  BY DEF Release
<1>2. ~(cache.finalizer /\ ~cache.deleting)
  BY DEF Release, IInv, NoneOlder
<1>3. TypeOK'
  <2>1. object' \in PacketCapture /\ read' \in PacketCapture /\ kept' \in [Pod -> CaptureTarget]
    BY <1>1, BlankTyped DEF PassEnds
  <2>2. /\ cacheNow' \in BOOLEAN /\ readNow' \in BOOLEAN
        /\ at' \in {"idle", "finalizer", "targets", "each", "finish", "stop"}
        /\ pods' \subseteq Pod /\ left' \subseteq Pod
    BY <1>1 DEF PassEnds
  <2>. QED BY <1>1, <2>1, <2>2 DEF IInv, TypeOK
<1>4. Current' /\ Stage' /\ NoneOlder' /\ Reported'
  BY <1>1 DEF Current, Stage, NoneOlder, Reported, PassEnds
<1>5. Guarded' /\ NoOrphans'
  BY <1>1, <1>2, BlankTyped DEF Guarded, Guards, NoOrphans, Captures, PassEnds
<1>. QED BY <1>3, <1>4, <1>5 DEF IInv

LEMMA BreakKeeps == ASSUME IInv, Conflict \/ PassBreaksOff PROVE IInv'
<1>1. acts' \in 0 .. MaxActs
  BY CaptureAssumption DEF Conflict, PassBreaksOff, Act, IInv, TypeOK
<1>. QED BY <1>1, EndKeeps DEF Conflict, PassBreaksOff

LEMMA StepKeeps == ASSUME IInv, [Next]_vars PROVE IInv'
<1>1. CASE UNCHANGED vars
  <2>. USE <1>1 DEF vars, cluster, cached, pass, locals
  <2>1. TypeOK' /\ Current' /\ Guarded' /\ Stage' /\ NoneOlder'
    BY DEF IInv, TypeOK, Current, Guarded, Guards, Stage, NoneOlder
  <2>2. NoOrphans' /\ Reported'
    BY DEF IInv, NoOrphans, Reported, Captures
  <2>. QED BY <2>1, <2>2 DEF IInv
<1>2. CASE PassGoesOn
  BY <1>2, BeginKeeps, FinalizerKeeps, LookKeeps, FinishKeeps, ReleaseKeeps, BreakKeeps,
     ObserveKeeps, ResumeKeeps, NewKeeps, StopKeeps DEF PassGoesOn
<1>. QED BY <1>1, <1>2, UsersKeep, NodesKeep, CacheKeeps, BreakKeeps DEF Next

\* IInv is inductive, whatever the pods, the limit and the number of acts.
THEOREM CaptureInvariance == Spec => []IInv
<1>1. Init => IInv
  <2>. SUFFICES ASSUME Init PROVE IInv
    OBVIOUS
  <2>1. TypeOK
    <3>1. /\ object \in PacketCapture /\ cache \in PacketCapture /\ read \in PacketCapture
          /\ kept \in [Pod -> CaptureTarget]
      BY BlankTyped DEF Init
    <3>2. /\ target \in [Pod -> {"none", "running", "leaving", "ended"}]
          /\ capturer \in [Pod -> {"none", "running", "ended"}]
          /\ leaving \subseteq Pod /\ pods \subseteq Pod /\ left \subseteq Pod
      BY DEF Init
    <3>3. acts \in 0 .. MaxActs
      BY CaptureAssumption DEF Init
    <3>4. /\ cacheNow \in BOOLEAN /\ readNow \in BOOLEAN
          /\ at \in {"idle", "finalizer", "targets", "each", "finish", "stop"}
      BY DEF Init
    <3>. QED BY <3>1, <3>2, <3>3, <3>4 DEF TypeOK
  <2>2. Current /\ Guarded /\ Stage /\ NoneOlder /\ NoOrphans /\ Reported
    BY BlankTyped
    DEF Init, Current, Guarded, Guards, Stage, NoneOlder, NoOrphans, Reported, Captures
  <2>. QED BY <2>1, <2>2 DEF IInv
<1>. QED BY <1>1, StepKeeps, PTL DEF Spec

\* Every variable keeps its type: no entry of the status is ever anything else than the
\* API server would accept.
THEOREM CaptureTypes == Spec => []TypeOK
BY CaptureInvariance, PTL DEF IInv

\* The finalizer's promise: there is never a capture pod running for a PacketCapture that
\* could not stop it, however the cache lags, writes conflict and passes break off.
THEOREM NoneOrphaned == Spec => []NoOrphans
BY CaptureInvariance, PTL DEF IInv

\* What a step may do to the status: leave it, empty it with the object, or report.
LEMMA StatusSteps ==
  ASSUME IInv, [Next]_vars
  PROVE  \/ object'.targets = object.targets
         \/ object'.targets = Nobody /\ ~(object.there /\ object'.there)
         \/ /\ object'.targets = kept /\ object.targets = read.targets
            /\ at = "finish" /\ UNCHANGED cluster
<1>1. Absent.targets = Nobody /\ Fresh.targets = Nobody /\ ~Absent.there
  BY BlankTyped
<1>2. CASE Users
  BY <1>1, <1>2
  DEF Users, UserCreates, UserPauses, UserDeletes, UserDeletesCapturer, OthersWrite,
      IInv, TypeOK, PacketCapture
<1>3. CASE AddFinalizer
  BY <1>3 DEF AddFinalizer, Write, IInv, TypeOK, PacketCapture
<1>4. CASE Release
  BY <1>1, <1>4 DEF Release, Write
<1>5. CASE Finish
  BY <1>5 DEF Finish, Write, IInv, Current, TypeOK, PacketCapture
<1>6. ASSUME NEW p \in Pod, Observe(p) \/ Resume(p) \/ Start(p) \/ Stop(p)
      PROVE  object' = object
  BY <1>6
  DEF Observe, Resume, Start, Stop, Adopts, Skips, Starts, Fails, Creates, TargetWent, Report
<1>7. CASE Nodes
  BY <1>7
  DEF Nodes, TargetStarts, TargetLeaves, TargetEnds, TargetGoes, TargetBecomes,
      CapturerEnds, CapturerGoes, CapturerBecomes
<1>8. ASSUME \/ CacheSync \/ PassBegins \/ NoWebshark \/ ListTargets \/ Looked \/ Conflict
             \/ PassBreaksOff \/ UNCHANGED vars
      PROVE  object' = object
  BY <1>8
  DEF CacheSync, PassBegins, NoWebshark, ListTargets, Looked, Conflict, PassBreaksOff, vars
<1>. QED BY <1>2, <1>3, <1>4, <1>5, <1>6, <1>7, <1>8 DEF Next, PassGoesOn

\* A target is reported over when nothing captures it any more.
THEOREM OverMeansOver == Spec => OverIsOver
<1>1. ASSUME IInv, [Next]_vars, NEW p \in Pod,
             object'.targets[p] # object.targets[p],
             Over(object'.targets[p]), object'.targets[p].capturer
      PROVE  ~Captures(p)
  <2>1. ~Over(Nobody[p])
    BY EntryTyped DEF Nobody, Unlisted, Over
  <2>2. object'.targets = kept /\ object.targets = read.targets /\ at = "finish"
    BY <1>1, <2>1, StatusSteps
  <2>. QED BY <1>1, <2>2 DEF IInv, Reported
<1>2. IInv /\ [Next]_vars =>
        [ \A p \in Pod :
            LET t == object'.targets[p] IN
            t # object.targets[p] /\ Over(t) /\ t.capturer => ~Captures(p) ]_vars
  BY <1>1
<1>. QED BY <1>2, CaptureInvariance, PTL DEF Spec, OverIsOver

\* No pass takes an entry off the status, nor brings back one that is over, unless to
\* resume it, though what it read may be older than what it writes over.
THEOREM NoneForgotten == Spec => NothingForgotten
<1>1. ASSUME IInv, [Next]_vars, object.there, object'.there, NEW p \in Pod
      PROVE  Stays(object.targets[p], object'.targets[p])
  <2>1. CASE object'.targets = object.targets
    BY <2>1 DEF Stays
  <2>2. CASE object'.targets = kept /\ object.targets = read.targets /\ at = "finish"
    BY <2>2, <1>1 DEF IInv, Reported
  <2>. QED BY <1>1, <2>1, <2>2, StatusSteps
<1>2. IInv /\ [Next]_vars =>
        [ object.there /\ object'.there =>
            \A p \in Pod :
              LET t == object.targets[p] IN
              /\ t.phase # "Unlisted" => object'.targets[p].phase # "Unlisted"
              /\ Over(t) /\ ~t.paused => object'.targets[p] = t ]_object
  BY <1>1 DEF Stays
<1>. QED BY <1>2, CaptureInvariance, PTL DEF Spec, NothingForgotten
=============================================================================

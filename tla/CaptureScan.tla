---------------------------- MODULE CaptureScan -----------------------------
(***************************************************************************)
(* The capture directory as the server sees it (src/capture.go, and its    *)
(* callers in src/main.go): uploads that make its files grow, scans of the *)
(* protocols of a file, one at a time and cached, and listings that report *)
(* what has been scanned.                                                  *)
(*                                                                         *)
(* Every request is a goroutine.  A file is its length in frames: it only  *)
(* grows, so name and length stand for the name, size and mtime of a scan's*)
(* key.  What a scan learns is how many frames it read; the names of the   *)
(* protocols and their order are left out, and so are the frame times.     *)
(***************************************************************************)
EXTENDS Integers, FiniteSets

CONSTANTS
  Name,      \* capture names
  Scan,      \* goroutines of /api/scan
  List,      \* goroutines of /api/captures
  Upload,    \* goroutines of POST /api/file
  FRAMES,    \* SCAN_FRAMES, frames a scan loads
  MaxSize,   \* frames a file grows to (bound)
  None

ASSUME ScanAssumption ==
  /\ FRAMES \in Nat \ {0} /\ MaxSize \in Nat
  /\ Scan \cap List = {} /\ None \notin Scan \cup Name

VARIABLES
  size,     \* frames in each file of the directory, Missing where there is none
  wrote,    \* the uploads that have written to each file
  upload,   \* the file each upload is writing, or None
  mu,       \* the scan holding scanner.mu, or None
  done,     \* scanner.done: by name and size, what was found
  at,       \* how far each request has come
  name,     \* the file it is about
  info,     \* the size that file had when it was stat'ed
  read,     \* the size it had when sharkd loaded it
  todo,     \* names a listing has still to look at
  rows      \* what it has found

files  == <<size, wrote, upload>>
server == <<mu, done>>
calls  == <<at, name, info, read, todo, rows>>
vars   == <<files, server, calls>>

Missing == -1
Request == Scan \cup List
Key     == Name \X (0 .. MaxSize)
Result  == [saw : 0 .. MaxSize, partial : BOOLEAN]

Exists(n) == size[n] # Missing
Fewer(a, b) == IF a < b THEN a ELSE b

\* flatten of the tap over a load bounded to FRAMES: the count reaching the limit is
\* the only sign there was more of the file.
FoundPast(len) == [saw |-> Fewer(len, FRAMES), partial |-> Fewer(len, FRAMES) > FRAMES]
Found(len) == [saw |-> Fewer(len, FRAMES), partial |-> Fewer(len, FRAMES) >= FRAMES]

scanKeyByName(n, len) == <<n, 0>>
scanKey(n, len) == <<n, len>>

KeyOf(r) == scanKey(name[r], info[r])

\* A request is answered, and its locals are gone.
Returns(r) ==
  /\ at' = [at EXCEPT ![r] = "idle"]
  /\ name' = [name EXCEPT ![r] = None]
  /\ info' = [info EXCEPT ![r] = 0]

Init ==
  /\ size = [n \in Name |-> Missing] /\ wrote = [n \in Name |-> {}]
  /\ upload = [u \in Upload |-> None]
  /\ mu = None /\ done = [k \in Key |-> None]
  /\ at = [r \in Request |-> "idle"] /\ name = [r \in Request |-> None]
  /\ info = [r \in Request |-> 0] /\ read = [r \in Scan |-> 0]
  /\ todo = [l \in List |-> {}] /\ rows = [l \in List |-> {}]

----------------------------------------------------------------------------
(* upload: created with O_EXCL, then copied from the body as it arrives.   *)

Create(u, n) ==
  /\ upload[u] = None
  /\ ~Exists(n)
  /\ size' = [size EXCEPT ![n] = 0]
  /\ upload' = [upload EXCEPT ![u] = n]
  /\ UNCHANGED <<wrote, server, calls>>

Copy(u) ==
  LET n == upload[u] IN
  /\ n # None
  /\ size[n] < MaxSize
  /\ size' = [size EXCEPT ![n] = @ + 1]
  /\ wrote' = [wrote EXCEPT ![n] = @ \cup {u}]
  /\ UNCHANGED <<upload, server, calls>>

\* The body ends, or breaks off: what was copied stays either way.
UploadEnds(u) ==
  /\ upload[u] # None
  /\ upload' = [upload EXCEPT ![u] = None]
  /\ UNCHANGED <<size, wrote, server, calls>>

----------------------------------------------------------------------------
(* scan: stat, then scanner.get.                                           *)

ScanBeginBlind(q, n) ==
  /\ at[q] = "idle"
  /\ at' = [at EXCEPT ![q] = "get"]
  /\ name' = [name EXCEPT ![q] = n]
  /\ info' = [info EXCEPT ![q] = size[n]]
  /\ UNCHANGED <<files, server, read, todo, rows>>

ScanBegin(q, n) ==
  /\ at[q] = "idle"
  /\ Exists(n)
  /\ at' = [at EXCEPT ![q] = "get"]
  /\ name' = [name EXCEPT ![q] = n]
  /\ info' = [info EXCEPT ![q] = size[n]]
  /\ UNCHANGED <<files, server, read, todo, rows>>

\* get finds the result under the lock: this one's, or another asker's.
GetCached(q) ==
  /\ at[q] = "get" /\ mu = None
  /\ done[KeyOf(q)] # None
  /\ Returns(q)
  /\ UNCHANGED <<files, server, read, todo, rows>>

\* get does not, and holds the lock from here on.
GetUnlocked(q) ==
  /\ at[q] = "get"
  /\ done[KeyOf(q)] = None
  /\ mu' = q
  /\ at' = [at EXCEPT ![q] = "load"]
  /\ UNCHANGED <<files, done, name, info, read, todo, rows>>

Get(q) ==
  /\ at[q] = "get" /\ mu = None
  /\ done[KeyOf(q)] = None
  /\ mu' = q
  /\ at' = [at EXCEPT ![q] = "load"]
  /\ UNCHANGED <<files, done, name, info, read, todo, rows>>

\* hierarchy loads the file, as long as it is by now.
Load(q) ==
  /\ at[q] = "load"
  /\ read' = [read EXCEPT ![q] = size[name[q]]]
  /\ at' = [at EXCEPT ![q] = "tap"]
  /\ UNCHANGED <<files, server, name, info, todo, rows>>

\* ...and its answer is kept under the key of the file as it was stat'ed.
Tap(q) ==
  /\ at[q] = "tap"
  /\ done' = [done EXCEPT ![KeyOf(q)] = Found(read[q])]
  /\ mu' = None
  /\ read' = [read EXCEPT ![q] = 0]
  /\ Returns(q)
  /\ UNCHANGED <<files, todo, rows>>

\* sharkd did not start, would not load the file, or died: nothing is kept.
HierarchyFailsLocked(q) ==
  /\ at[q] \in {"load", "tap"}
  /\ read' = [read EXCEPT ![q] = 0]
  /\ Returns(q)
  /\ UNCHANGED <<files, server, todo, rows>>

HierarchyFails(q) ==
  /\ at[q] \in {"load", "tap"}
  /\ mu' = None
  /\ read' = [read EXCEPT ![q] = 0]
  /\ Returns(q)
  /\ UNCHANGED <<files, done, todo, rows>>

----------------------------------------------------------------------------
(* captures: a row for every file there is, its protocols if cached has    *)
(* them.                                                                   *)

ListBegin(l) ==
  /\ at[l] = "idle"
  /\ at' = [at EXCEPT ![l] = "list"]
  /\ todo' = [todo EXCEPT ![l] = {n \in Name : Exists(n)}]
  /\ UNCHANGED <<files, server, name, info, read, rows>>

ListStat(l, n) ==
  /\ at[l] = "list" /\ n \in todo[l]
  /\ at' = [at EXCEPT ![l] = "cached"]
  /\ todo' = [todo EXCEPT ![l] = @ \ {n}]
  /\ name' = [name EXCEPT ![l] = n]
  /\ info' = [info EXCEPT ![l] = size[n]]
  /\ UNCHANGED <<files, server, read, rows>>

ListRow(l) ==
  /\ at[l] = "cached" /\ mu = None
  /\ at' = [at EXCEPT ![l] = "list"]
  /\ rows' = [rows EXCEPT ![l] =
       @ \cup {[name |-> name[l], size |-> info[l], scan |-> done[KeyOf(l)]]}]
  /\ UNCHANGED <<files, server, name, info, read, todo>>

ListEnd(l) ==
  /\ at[l] = "list" /\ todo[l] = {}
  /\ rows' = [rows EXCEPT ![l] = {}]
  /\ Returns(l)
  /\ UNCHANGED <<files, server, read, todo>>

----------------------------------------------------------------------------

Uploads == \E u \in Upload : (\E n \in Name : Create(u, n)) \/ Copy(u) \/ UploadEnds(u)

ScanGoesOn(q) ==
  GetCached(q) \/ Get(q) \/ Load(q) \/ Tap(q) \/ HierarchyFails(q)

ListGoesOn(l) ==
  (\E n \in Name : ListStat(l, n)) \/ ListRow(l) \/ ListEnd(l)

Next ==
  \/ Uploads
  \/ \E q \in Scan : (\E n \in Name : ScanBegin(q, n)) \/ ScanGoesOn(q)
  \/ \E l \in List : ListBegin(l) \/ ListGoesOn(l)

Spec == Init /\ [][Next]_vars

\* A goroutine runs; sharkd answers or dies; and sync.Mutex hands itself to whoever has
\* waited longer than a millisecond, so that no one is passed over for ever.
FairSpec ==
  /\ Spec
  /\ \A q \in Scan : SF_vars(ScanGoesOn(q))
  /\ \A l \in List : SF_vars(ListGoesOn(l))

----------------------------------------------------------------------------

TypeOK ==
  /\ size \in [Name -> Missing .. MaxSize] /\ wrote \in [Name -> SUBSET Upload]
  /\ upload \in [Upload -> Name \cup {None}]
  /\ mu \in Scan \cup {None} /\ done \in [Key -> Result \cup {None}]
  /\ at \in [Request -> {"idle", "get", "load", "tap", "list", "cached"}]
  /\ name \in [Request -> Name \cup {None}]
  /\ info \in [Request -> 0 .. MaxSize] /\ read \in [Scan -> 0 .. MaxSize]
  /\ todo \in [List -> SUBSET Name]
  /\ \A l \in List : \A r \in rows[l] :
       r \in [name : Name, size : 0 .. MaxSize, scan : Result \cup {None}]

\* What is cached for a file as it is now is what a scan of it now would find, though
\* the file was stat'ed before the lock was waited for and loaded after it.
CachedIsCurrent ==
  \A n \in Name :
    Exists(n) /\ done[scanKey(n, size[n])] # None =>
      done[scanKey(n, size[n])] = Found(size[n])

\* A row's protocols are of no less of the file than the row's size says, unless the
\* row says that they are a sample.
RowsAreCovered ==
  \A l \in List : \A r \in rows[l] :
    r.scan # None => r.scan.partial \/ r.scan.saw >= r.size

\* capture.go:330-332: one scan at a time, and the second asker for a file finds the
\* first one's result rather than starting its own.
Scanning(q) == at[q] \in {"load", "tap"}
ScannedOnce ==
  \A q \in Scan : Scanning(q) =>
    /\ done[KeyOf(q)] = None
    /\ \A o \in Scan : Scanning(o) => o = q

\* An upload does not replace a capture, nor write into the one another is writing.
OneWriter == \A n \in Name : Cardinality(wrote[n]) <= 1

\* Listings and scans return, however many others there are and whatever fails.
RequestsReturn == \A r \in List \cup Scan : at[r] # "idle" ~> at[r] = "idle"

\* capture.go:25 "it is cached and it is never on the path of a listing".
NeverOnListing ==
  \A l \in List, q \in Scan : ~(at[l] = "cached" /\ mu = q)

=============================================================================

------------------------- MODULE CaptureScanProofs --------------------------
(***************************************************************************)
(* What CaptureScan keeps, for any names, requests, sample and file sizes: *)
(* IInv is inductive, and the safety properties follow from it.            *)
(***************************************************************************)
EXTENDS CaptureScan, FiniteSetTheorems, TLAPS

\* The lock is held by the scan that is dissecting, and by no other.
Locked == \A q \in Scan : Scanning(q) <=> mu = q

\* Nobody else has cached what is being dissected.
Unscanned == \A q \in Scan : Scanning(q) => done[KeyOf(q)] = None

\* A request is about a file that is no shorter than when it was stat'ed...
About ==
  \A r \in Request : at[r] \in {"get", "load", "tap", "cached"} =>
    name[r] \in Name /\ info[r] <= size[name[r]]

\* ...and was loaded in between.
Loaded ==
  \A q \in Scan : at[q] = "tap" => info[q] <= read[q] /\ read[q] <= size[name[q]]

\* What is cached was found in the file when it was no shorter than its key says, and
\* no longer than it is.
Kept ==
  \A n \in Name, len \in 0 .. MaxSize :
    done[<<n, len>>] # None =>
      \E t \in len .. size[n] : done[<<n, len>>] = Found(t)

\* A file is written by the upload that created it, and by nobody once that has ended.
Owned ==
  /\ \A u \in Upload : upload[u] # None => Exists(upload[u]) /\ wrote[upload[u]] \subseteq {u}
  /\ \A u, v \in Upload : upload[u] # None /\ upload[u] = upload[v] => u = v
  /\ \A n \in Name : ~Exists(n) => wrote[n] = {}
  /\ \A n \in Name : \A u, v \in wrote[n] : u = v

\* Kinds of request: a scan never is where a listing gets, nor the other way round.
Kinds ==
  /\ \A q \in Scan : at[q] \in {"idle", "get", "load", "tap"}
  /\ \A l \in List : at[l] \in {"idle", "list", "cached"}

\* What a listing has still to look at is there.
Todo == \A l \in List : \A n \in todo[l] : Exists(n)

IInv ==
  /\ TypeOK /\ Kinds /\ Todo /\ Locked /\ Unscanned
  /\ About /\ Loaded /\ Kept /\ Owned /\ RowsAreCovered

----------------------------------------------------------------------------

\* What a scan of len frames finds is a result, and is of all of them or says it is not.
LEMMA FoundCovers ==
  ASSUME NEW len \in 0 .. MaxSize
  PROVE  /\ Found(len) \in Result
         /\ \A k \in 0 .. len : Found(len).partial \/ Found(len).saw >= k
<1>. DEFINE saw == Fewer(len, FRAMES)
<1>1. saw \in 0 .. MaxSize /\ (saw = len \/ (saw = FRAMES /\ FRAMES <= len))
  <2>1. CASE len < FRAMES
    BY <2>1, ScanAssumption DEF Fewer
  <2>2. CASE ~(len < FRAMES)
    BY <2>2, ScanAssumption DEF Fewer
  <2>. QED BY <2>1, <2>2
<1>2. Found(len) = [saw |-> saw, partial |-> saw >= FRAMES]
  BY DEF Found
<1>3. Found(len).saw = saw /\ Found(len).partial = (saw >= FRAMES)
  BY <1>2
<1>4. Found(len) \in Result
  BY <1>1, <1>2 DEF Result
<1>5. ASSUME NEW k \in 0 .. len PROVE Found(len).partial \/ Found(len).saw >= k
  <2>. HIDE DEF saw
  <2>1. CASE saw = len
    BY <2>1, <1>3
  <2>2. CASE saw = FRAMES
    <3>1. saw >= FRAMES
      BY <2>2, ScanAssumption
    <3>2. Found(len).partial
      BY <3>1, <1>3, Zenon
    <3>. QED BY <3>2
  <2>. QED BY <2>1, <2>2, <1>1
<1>. QED BY <1>4, <1>5

\* The key of a request that is about a file is one of the cache's.
LEMMA KeyInCache ==
  ASSUME IInv, NEW r \in Request, at[r] \in {"get", "load", "tap", "cached"}
  PROVE  KeyOf(r) \in Key /\ KeyOf(r) = <<name[r], info[r]>> /\ Exists(name[r])
  BY ScanAssumption DEF IInv, TypeOK, About, KeyOf, scanKey, Key, Exists, Missing

\* An empty directory, nothing asked.
LEMMA InitIInv == Init => IInv
  BY ScanAssumption
  DEF Init, IInv, TypeOK, Kinds, Todo, Locked, Unscanned, About, Loaded, Kept, Owned,
      RowsAreCovered, Scanning, Exists, Missing, Key, Request


----------------------------------------------------------------------------

\* An upload makes files longer, which nothing a request knows forbids.
LEMMA UploadKeeps ==
  ASSUME IInv, Uploads PROVE IInv'
<1>. USE ScanAssumption
<1>1. PICK u \in Upload : (\E n \in Name : Create(u, n)) \/ Copy(u) \/ UploadEnds(u)
  BY DEF Uploads
<1>3. /\ size' \in [Name -> Missing .. MaxSize]
      /\ \A n \in Name : size[n] <= size'[n] /\ (Exists(n) => Exists(n)')
  BY <1>1 DEF IInv, TypeOK, Create, Copy, UploadEnds, Exists, Missing
<1>4. UNCHANGED <<server, calls>>
  BY <1>1 DEF Create, Copy, UploadEnds
<1>5. TypeOK'
  BY <1>1, <1>3, <1>4 DEF IInv, TypeOK, Create, Copy, UploadEnds, server, calls
<1>6. Kinds' /\ Locked' /\ Unscanned' /\ RowsAreCovered'
  BY <1>4 DEF IInv, Kinds, Locked, Unscanned, RowsAreCovered, Scanning, KeyOf, server, calls
<1>7. About'
  <2>. SUFFICES ASSUME NEW r \in Request, at[r] \in {"get", "load", "tap", "cached"}
               PROVE  name[r] \in Name /\ info[r] <= size'[name[r]]
    BY <1>4 DEF About, calls
  <2>1. name[r] \in Name /\ info[r] <= size[name[r]] /\ info[r] \in Int
    BY DEF IInv, TypeOK, About
  <2>. QED BY <2>1, <1>3 DEF IInv, TypeOK, Missing
<1>10. Loaded'
  <2>. SUFFICES ASSUME NEW q \in Scan, at[q] = "tap"
               PROVE  info[q] <= read[q] /\ read[q] <= size'[name[q]]
    BY <1>4 DEF Loaded, calls
  <2>1. /\ info[q] <= read[q] /\ read[q] <= size[name[q]] /\ read[q] \in Int
        /\ name[q] \in Name
    BY DEF IInv, TypeOK, About, Loaded, Request
  <2>. QED BY <2>1, <1>3 DEF IInv, TypeOK, Missing
<1>8. Kept'
  <2>. SUFFICES ASSUME NEW n \in Name, NEW len \in 0 .. MaxSize, done[<<n, len>>] # None
               PROVE  \E t \in len .. size'[n] : done[<<n, len>>] = Found(t)
    BY <1>4 DEF Kept, server, Found, Fewer
  <2>1. PICK t \in len .. size[n] : done[<<n, len>>] = Found(t)
    BY DEF IInv, Kept
  <2>2. t \in len .. size'[n]
    BY <1>3 DEF IInv, TypeOK, Missing
  <2>. QED BY <2>1, <2>2
<1>11. Todo'
  BY <1>3, <1>4 DEF IInv, TypeOK, Todo, calls
<1>9. Owned'
  BY <1>1, <1>3 DEF IInv, TypeOK, Owned, Create, Copy, UploadEnds, Exists, Missing
<1>. QED BY <1>5, <1>6, <1>7, <1>8, <1>9, <1>10, <1>11 DEF IInv

\* A scan is begun and goes on: it caches what it found in a file that is longer than
\* its key says, if anything.
LEMMA ScanKeeps ==
  ASSUME IInv, NEW q \in Scan, (\E n \in Name : ScanBegin(q, n)) \/ ScanGoesOn(q)
  PROVE  IInv'
<1>. USE ScanAssumption
<1>0. q \in Request /\ q \notin List /\ q # None
  BY DEF Request
<1>1. UNCHANGED files /\ UNCHANGED <<todo, rows>>
  BY DEF ScanBegin, ScanGoesOn, GetCached, Get, Load, Tap, HierarchyFails, Returns, files
<1>2. Owned' /\ RowsAreCovered' /\ Todo'
  BY <1>1 DEF IInv, Owned, Todo, RowsAreCovered, files, Exists
<1>3. ASSUME NEW n \in Name, ScanBegin(q, n) PROVE IInv'
  <2>1. size[n] \in 0 .. MaxSize
    BY <1>3 DEF IInv, TypeOK, ScanBegin, Exists, Missing
  <2>2. TypeOK' /\ Kinds'
    BY <1>0, <1>3, <2>1 DEF IInv, TypeOK, Kinds, ScanBegin, files, server
  <2>3. Locked' /\ Unscanned'
    BY <1>0, <1>3 DEF IInv, TypeOK, Locked, Unscanned, Scanning, ScanBegin, server, KeyOf
  <2>4. About' /\ Loaded'
    BY <1>0, <1>3, <2>1 DEF IInv, TypeOK, About, Loaded, ScanBegin, files
  <2>5. Kept'
    BY <1>3 DEF IInv, Kept, ScanBegin, files, server, Found, Fewer
  <2>. QED BY <1>2, <2>2, <2>3, <2>4, <2>5 DEF IInv
<1>4. CASE GetCached(q)
  <2>1. TypeOK' /\ Kinds'
    BY <1>0, <1>4 DEF IInv, TypeOK, Kinds, GetCached, Returns, files, server
  <2>2. Locked' /\ Unscanned'
    BY <1>0, <1>4 DEF IInv, TypeOK, Locked, Unscanned, Scanning, GetCached, Returns, server, KeyOf
  <2>3. About' /\ Loaded'
    BY <1>0, <1>4 DEF IInv, TypeOK, About, Loaded, GetCached, Returns, files
  <2>4. Kept'
    BY <1>4 DEF IInv, Kept, GetCached, files, server, Found, Fewer
  <2>. QED BY <1>2, <2>1, <2>2, <2>3, <2>4 DEF IInv
<1>5. CASE Get(q)
  <2>1. TypeOK' /\ Kinds'
    BY <1>0, <1>5 DEF IInv, TypeOK, Kinds, Get, files
  <2>2. Locked' /\ Unscanned'
    BY <1>0, <1>5 DEF IInv, TypeOK, Locked, Unscanned, Scanning, Get, KeyOf
  <2>3. About' /\ Loaded'
    BY <1>0, <1>5 DEF IInv, TypeOK, About, Loaded, Get, files
  <2>4. Kept'
    BY <1>5 DEF IInv, Kept, Get, files, Found, Fewer
  <2>. QED BY <1>2, <2>1, <2>2, <2>3, <2>4 DEF IInv
<1>6. CASE Load(q)
  <2>0. /\ name[q] \in Name /\ info[q] \in 0 .. MaxSize /\ info[q] <= size[name[q]]
        /\ size[name[q]] \in 0 .. MaxSize
    BY <1>0, <1>6 DEF IInv, TypeOK, About, Load, Missing
  <2>1. TypeOK' /\ Kinds'
    BY <1>0, <1>6, <2>0 DEF IInv, TypeOK, Kinds, Load, files, server
  <2>2. Locked' /\ Unscanned'
    BY <1>0, <1>6 DEF IInv, TypeOK, Locked, Unscanned, Scanning, Load, server, KeyOf
  <2>3. About' /\ Loaded'
    BY <1>0, <1>6, <2>0 DEF IInv, TypeOK, About, Loaded, Load, files
  <2>4. Kept'
    BY <1>6 DEF IInv, Kept, Load, files, server, Found, Fewer
  <2>. QED BY <1>2, <2>1, <2>2, <2>3, <2>4 DEF IInv
<1>7. CASE Tap(q)
  <2>0. /\ name[q] \in Name /\ read[q] \in info[q] .. size[name[q]]
        /\ read[q] \in 0 .. MaxSize /\ KeyOf(q) \in Key /\ KeyOf(q) = <<name[q], info[q]>>
    BY <1>0, <1>7, KeyInCache DEF IInv, TypeOK, About, Loaded, Tap, Missing
  <2>1. Found(read[q]) \in Result
    BY <2>0, FoundCovers
  <2>2. TypeOK' /\ Kinds'
    BY <1>0, <1>7, <2>0, <2>1 DEF IInv, TypeOK, Kinds, Tap, Returns, files
  <2>3. \A o \in Scan \ {q} : ~Scanning(o) /\ ~Scanning(o)'
    BY <1>0, <1>7 DEF IInv, TypeOK, Locked, Scanning, Tap, Returns
  <2>4. Locked' /\ Unscanned'
    BY <1>0, <1>7, <2>3 DEF IInv, TypeOK, Locked, Unscanned, Scanning, Tap, Returns
  <2>5. About' /\ Loaded'
    BY <1>0, <1>7 DEF IInv, TypeOK, About, Loaded, Tap, Returns, files
  <2>6. Kept'
    <3>. SUFFICES ASSUME NEW n \in Name, NEW len \in 0 .. MaxSize, done'[<<n, len>>] # None
                 PROVE  \E t \in len .. size[n] : done'[<<n, len>>] = Found(t)
      BY <1>1 DEF Kept, files, Found, Fewer
    <3>1. CASE <<n, len>> = KeyOf(q)
      <4>1. n = name[q] /\ len = info[q] /\ done'[<<n, len>>] = Found(read[q])
        BY <3>1, <1>7, <2>0 DEF IInv, TypeOK, Tap
      <4>. QED BY <4>1, <2>0
    <3>2. CASE <<n, len>> # KeyOf(q)
      <4>1. done'[<<n, len>>] = done[<<n, len>>]
        BY <3>2, <1>7 DEF IInv, TypeOK, Tap, Key
      <4>. QED BY <4>1 DEF IInv, Kept
    <3>. QED BY <3>1, <3>2
  <2>. QED BY <1>2, <2>2, <2>4, <2>5, <2>6 DEF IInv
<1>8. CASE HierarchyFails(q)
  <2>1. TypeOK' /\ Kinds'
    BY <1>0, <1>8 DEF IInv, TypeOK, Kinds, HierarchyFails, Returns, files
  <2>2. \A o \in Scan \ {q} : ~Scanning(o) /\ ~Scanning(o)'
    BY <1>0, <1>8 DEF IInv, TypeOK, Locked, Scanning, HierarchyFails, Returns
  <2>3. Locked' /\ Unscanned'
    BY <1>0, <1>8, <2>2 DEF IInv, TypeOK, Locked, Unscanned, Scanning, HierarchyFails, Returns
  <2>4. About' /\ Loaded'
    BY <1>0, <1>8 DEF IInv, TypeOK, About, Loaded, HierarchyFails, Returns, files
  <2>5. Kept'
    BY <1>8 DEF IInv, Kept, HierarchyFails, files, Found, Fewer
  <2>. QED BY <1>2, <2>1, <2>3, <2>4, <2>5 DEF IInv
<1>. QED BY <1>3, <1>4, <1>5, <1>6, <1>7, <1>8 DEF ScanGoesOn

\* A listing reads the cache, and no more.
LEMMA ListKeeps ==
  ASSUME IInv, NEW l \in List, ListBegin(l) \/ ListGoesOn(l)
  PROVE  IInv'
<1>. USE ScanAssumption
<1>0. l \in Request /\ l \notin Scan
  BY DEF Request
<1>1. UNCHANGED <<files, server, read>>
  BY DEF ListBegin, ListGoesOn, ListStat, ListRow, ListEnd
<1>2. Locked' /\ Unscanned' /\ Loaded' /\ Kept' /\ Owned'
  <2>1. \A q \in Scan : at'[q] = at[q] /\ name'[q] = name[q] /\ info'[q] = info[q]
    BY <1>0 DEF IInv, TypeOK, Request, ListBegin, ListGoesOn, ListStat, ListRow, ListEnd, Returns
  <2>2. Locked' /\ Unscanned' /\ Loaded'
    BY <2>1, <1>1 DEF IInv, Locked, Unscanned, Loaded, Scanning, KeyOf, scanKey, files, server
  <2>3. Kept' /\ Owned'
    BY <1>1 DEF IInv, Kept, Owned, Exists, Found, Fewer, files, server
  <2>. QED BY <2>2, <2>3
<1>3. CASE ListBegin(l)
  <2>1. TypeOK' /\ Kinds' /\ Todo' /\ About' /\ RowsAreCovered'
    BY <1>0, <1>3 DEF IInv, TypeOK, Kinds, Todo, About, RowsAreCovered, ListBegin, Exists,
                      files, server
  <2>. QED BY <1>2, <2>1 DEF IInv
<1>4. ASSUME NEW n \in Name, ListStat(l, n) PROVE IInv'
  <2>1. size[n] \in 0 .. MaxSize
    BY <1>4 DEF IInv, TypeOK, Todo, ListStat, Exists, Missing
  <2>2. TypeOK' /\ Kinds' /\ Todo'
    BY <1>0, <1>4, <2>1 DEF IInv, TypeOK, Kinds, Todo, ListStat, Exists, files, server
  <2>3. About' /\ RowsAreCovered'
    BY <1>0, <1>4, <2>1 DEF IInv, TypeOK, About, RowsAreCovered, ListStat, files
  <2>. QED BY <1>2, <2>2, <2>3 DEF IInv
<1>5. CASE ListRow(l)
  <2>. DEFINE row == [name |-> name[l], size |-> info[l], scan |-> done[KeyOf(l)]]
  <2>1. /\ KeyOf(l) \in Key /\ KeyOf(l) = <<name[l], info[l]>>
        /\ name[l] \in Name /\ info[l] \in 0 .. MaxSize /\ size[name[l]] \in 0 .. MaxSize
    BY <1>0, <1>5, KeyInCache DEF IInv, TypeOK, About, Missing, ListRow, Exists
  <2>2. row \in [name : Name, size : 0 .. MaxSize, scan : Result \cup {None}]
    BY <2>1 DEF IInv, TypeOK
  <2>3. row.scan # None => row.scan.partial \/ row.scan.saw >= row.size
    <3>1. SUFFICES ASSUME done[KeyOf(l)] # None
                   PROVE  done[KeyOf(l)].partial \/ done[KeyOf(l)].saw >= info[l]
      OBVIOUS
    <3>2. PICK t \in info[l] .. size[name[l]] : done[KeyOf(l)] = Found(t)
      BY <2>1, <3>1 DEF IInv, Kept
    <3>3. t \in 0 .. MaxSize /\ info[l] \in 0 .. t
      BY <2>1, <3>2
    <3>. QED BY <3>2, <3>3, FoundCovers
  <2>4. rows' = [rows EXCEPT ![l] = @ \cup {row}]
    BY <1>5 DEF ListRow
  <2>. HIDE DEF row
  <2>5. TypeOK'
    BY <1>0, <1>5, <2>2, <2>4 DEF IInv, TypeOK, ListRow, files, server
  <2>6. RowsAreCovered'
    BY <2>3, <2>4 DEF IInv, RowsAreCovered, TypeOK
  <2>7. Kinds' /\ Todo' /\ About'
    BY <1>0, <1>5 DEF IInv, TypeOK, Kinds, Todo, About, ListRow, Exists, files
  <2>. QED BY <1>2, <2>5, <2>6, <2>7 DEF IInv
<1>6. CASE ListEnd(l)
  <2>1. TypeOK' /\ Kinds' /\ Todo'
    BY <1>0, <1>6 DEF IInv, TypeOK, Kinds, Todo, ListEnd, Returns, Exists, files, server
  <2>2. About' /\ RowsAreCovered'
    BY <1>0, <1>6 DEF IInv, TypeOK, About, RowsAreCovered, ListEnd, Returns, files
  <2>. QED BY <1>2, <2>1, <2>2 DEF IInv
<1>. QED BY <1>3, <1>4, <1>5, <1>6 DEF ListGoesOn

----------------------------------------------------------------------------

\* IInv holds of every state (the actions of src/capture.go 298-344 and their callers).
THEOREM ScanInvariance == Spec => []IInv
<1>1. IInv /\ [Next]_vars => IInv'
  <2>. SUFFICES ASSUME IInv, [Next]_vars PROVE IInv'
    OBVIOUS
  <2>1. CASE Next
    BY <2>1, UploadKeeps, ScanKeeps, ListKeeps DEF Next
  <2>2. CASE UNCHANGED vars
    BY <2>2
    DEF vars, files, server, calls, IInv, TypeOK, Kinds, Todo, Locked, Unscanned, About,
        Loaded, Kept, Owned, RowsAreCovered, Scanning, Exists, KeyOf, Found, Fewer
  <2>. QED BY <2>1, <2>2
<1>. QED BY InitIInv, <1>1, PTL DEF Spec

\* Every variable keeps its type.
THEOREM ScanTypeCorrect == Spec => []TypeOK
<1>1. IInv => TypeOK
  BY DEF IInv
<1>. QED BY ScanInvariance, <1>1, PTL

\* What is cached for a file as it is now is what a scan of it now would find: the only
\* length between that of its key and its own is its own.
THEOREM CacheIsCurrent == Spec => []CachedIsCurrent
<1>1. IInv => CachedIsCurrent
  <2>. SUFFICES ASSUME IInv, NEW n \in Name, Exists(n), done[<<n, size[n]>>] # None
               PROVE  done[<<n, size[n]>>] = Found(size[n])
    BY DEF CachedIsCurrent, scanKey
  <2>1. size[n] \in 0 .. MaxSize
    BY ScanAssumption DEF IInv, TypeOK, Exists, Missing
  <2>2. PICK t \in size[n] .. size[n] : done[<<n, size[n]>>] = Found(t)
    BY <2>1 DEF IInv, Kept
  <2>3. t = size[n]
    BY <2>1, <2>2
  <2>. QED BY <2>2, <2>3
<1>. QED BY ScanInvariance, <1>1, PTL

\* A listed file's protocols are of all of the row's size, or said to be a sample.
THEOREM ListingIsCovered == Spec => []RowsAreCovered
<1>1. IInv => RowsAreCovered
  BY DEF IInv
<1>. QED BY ScanInvariance, <1>1, PTL

\* One scan at a time, and none of what another has found.
THEOREM ScansOnce == Spec => []ScannedOnce
<1>1. IInv => ScannedOnce
  BY DEF IInv, ScannedOnce, Locked, Unscanned
<1>. QED BY ScanInvariance, <1>1, PTL

\* A file is of one upload.
THEOREM WrittenByOne == Spec => []OneWriter
<1>1. IInv => OneWriter
  <2>. SUFFICES ASSUME IInv, NEW n \in Name PROVE Cardinality(wrote[n]) <= 1
    BY DEF OneWriter
  <2>1. CASE wrote[n] = {}
    BY <2>1, FS_EmptySet
  <2>2. ASSUME NEW u \in wrote[n] PROVE Cardinality(wrote[n]) <= 1
    <3>1. wrote[n] = {u}
      BY <2>2 DEF IInv, Owned
    <3>2. Cardinality({u}) = 1
      BY FS_Singleton
    <3>. QED BY <3>1, <3>2
  <2>. QED BY <2>1, <2>2
<1>. QED BY ScanInvariance, <1>1, PTL

=============================================================================

------------------------ MODULE OpenVPNStatus_proofs ------------------------
(***************************************************************************)
(* Theorems about OpenVPNStatus, for any number of status files, requests  *)
(* and uploads, any sizes and any set of failures.                         *)
(***************************************************************************)
EXTENDS OpenVPNStatus, SequenceLemmas

LockOK == holder \in Actors \cup {Free} /\ waiters \in Seq(Actors)

\* The mutex keeps its type whoever takes it,
LEMMA AcquireType ==
  ASSUME LockOK, NEW a \in Actors, Acquire(a)
  PROVE  LockOK'
BY DEF LockOK, Acquire

\* releases it
LEMMA ReleaseType ==
  ASSUME LockOK, Release
  PROVE  LockOK'
<1>1. CASE waiters = <<>>
  BY <1>1 DEF LockOK, Release
<1>2. CASE waiters # <<>>
  <2>1. Head(waiters) \in Actors /\ Tail(waiters) \in Seq(Actors)
    BY <1>2, HeadTailProperties DEF LockOK
  <2> QED  BY <1>2, <2>1 DEF LockOK, Release
<1> QED  BY <1>1, <1>2

\* or stops waiting for it.
LEMMA ForgetType ==
  ASSUME LockOK, NEW a \in Actors, Forget(a)
  PROVE  LockOK'
<1>1. CASE holder = a
  BY <1>1, ReleaseType DEF Forget
<1>2. CASE holder # a
  <2>1. PICK i \in 1 .. Len(waiters) : waiters' = RemoveAt(waiters, i) /\ UNCHANGED holder
    BY <1>2 DEF Forget
  <2>2. SubSeq(waiters, 1, i - 1) \in Seq(Actors) /\ SubSeq(waiters, i + 1, Len(waiters)) \in Seq(Actors)
    BY DEF LockOK
  <2> QED  BY <2>1, <2>2 DEF LockOK, RemoveAt
<1> QED  BY <1>1, <1>2

LEMMA InitType == Init => TypeOK
<1> SUFFICES ASSUME Init PROVE TypeOK
  OBVIOUS
<1>1. status \in [Files -> Content]
  BY ContentsAssumption, BoundsAssumption DEF Init, Content
<1>2. 1 \in Files
  BY FilesAssumption DEF Files
<1> QED
  BY <1>1, <1>2, BoundsAssumption DEF Init, TypeOK, Clients, Actors

\* Going on with the next file, or pausing, keeps the collector's place typed.
LEMMA NextItemType ==
  ASSUME TypeOK, NextItem
  PROVE  /\ pc' \in {"item", "pause"}
         /\ cur' \in Files
         /\ pauseLeft' \in 0 .. SamplingInterval
         /\ LockOK'
<1>1. CASE cur < NFiles
  BY <1>1, FilesAssumption DEF NextItem, TypeOK, Files, lockVars, LockOK
<1>2. CASE ~(cur < NFiles)
  BY <1>2, ReleaseType, BoundsAssumption DEF NextItem, TypeOK, LockOK
<1> QED  BY <1>1, <1>2

LEMMA PanicType ==
  ASSUME TypeOK, Panic
  PROVE  pc' = "dead" /\ commands' \in 0 .. MaxUpdates /\ LockOK'
BY ReleaseType, BoundsAssumption DEF Panic, TypeOK, LockOK

LEMMA ContentFacts ==
  ASSUME TypeOK
  PROVE  /\ sample.ts \in 1 .. MaxTs
         /\ sample.rows \in Seq(Lines)
         /\ Len(sample.rows) \in 0 .. MaxRows
         /\ 1 \in Files
         /\ \A f \in Files : status[f].ts \in 1 .. MaxTs
<1>1. sample.rows \in Seq(Lines) /\ Len(sample.rows) <= MaxRows
  BY DEF TypeOK, Content
<1>2. Len(sample.rows) \in Nat
  BY <1>1, LenProperties
<1>3. Len(sample.rows) \in 0 .. MaxRows
  BY <1>1, <1>2, BoundsAssumption
<1>4. sample.ts \in 1 .. MaxTs /\ \A f \in Files : status[f].ts \in 1 .. MaxTs
  BY DEF TypeOK, Content
<1>5. 1 \in Files
  BY FilesAssumption DEF Files
<1> QED  BY <1>1, <1>3, <1>4, <1>5

LEMMA CollectorType ==
  ASSUME TypeOK, CollectorNext
  PROVE  TypeOK'
<1> USE BoundsAssumption DEF cacheVars, lockVars, requestVars, historyVars
<1>a. LockOK
  BY DEF TypeOK, LockOK
<1>1. CASE Tick
  BY <1>1 DEF Tick, TypeOK
<1>2. CASE PauseOver
  <2>1. LockOK'
    BY <1>2, <1>a, AcquireType DEF PauseOver, Actors
  <2> QED  BY <1>2, <2>1 DEF PauseOver, LockOK, TypeOK
<1>3. CASE StartSampling
  BY <1>3, ContentFacts DEF StartSampling, TypeOK
<1>4. CASE SkipItem
  <2>1. NextItem
    BY <1>4 DEF SkipItem
  <2> QED  BY <1>4, <2>1, NextItemType DEF SkipItem, LockOK, TypeOK
<1>5. CASE SampleItem
  <2>1. sample' \in Content /\ line' \in 1 .. MaxRows + 1
    BY <1>5 DEF SampleItem, TypeOK
  <2>2. /\ pc' \in {"pause", "lock", "item", "rows", "dead"}
        /\ cur' \in Files
        /\ pauseLeft' \in 0 .. SamplingInterval
        /\ LockOK'
        /\ commands' \in 0 .. MaxUpdates
        /\ lastUpdate' \in [Files -> 0 .. MaxTs]
    <3>1. CASE status[cur].head = "bad"
      <4>1. NextItem /\ UNCHANGED commands /\ lastUpdate' = [lastUpdate EXCEPT ![cur] = 0]
        BY <1>5, <3>1 DEF SampleItem
      <4> QED  BY <4>1, NextItemType DEF TypeOK
    <3>2. CASE status[cur].head = "ok" /\ ~NewData(cur, status[cur].ts)
      <4>1. NextItem /\ UNCHANGED commands /\ lastUpdate' = [lastUpdate EXCEPT ![cur] = status[cur].ts]
        BY <1>5, <3>2 DEF SampleItem
      <4>2. status[cur].ts \in 0 .. MaxTs
        BY ContentFacts DEF TypeOK
      <4> QED  BY <4>1, <4>2, NextItemType DEF TypeOK
    <3>3. CASE status[cur].head = "ok" /\ NewData(cur, status[cur].ts)
      BY <1>5, <3>3, <1>a DEF SampleItem, TypeOK, LockOK
    <3>4. CASE status[cur].head = "short"
      <4>1. Panic
        BY <1>5, <3>4 DEF SampleItem
      <4> QED  BY <4>1, PanicType DEF Panic, TypeOK
    <3> QED  BY <1>5, <3>1, <3>2, <3>3, <3>4 DEF SampleItem
  <2> QED  BY <1>5, <2>1, <2>2 DEF SampleItem, TypeOK, LockOK
<1>6. CASE AppendRow
  <2>1. line \in 1 .. MaxRows /\ line + 1 \in 1 .. MaxRows + 1
    <3>1. line <= Len(sample.rows) /\ line \in 1 .. MaxRows + 1
      BY <1>6 DEF AppendRow, TypeOK
    <3> QED  BY <3>1, ContentFacts
  <2>2. [ts |-> sample.ts, n |-> line] \in Row
    BY <2>1, ContentFacts DEF Row
  <2>3. cache' \in [Files -> Seq(Row)]
    BY <1>6, <2>2 DEF AppendRow, TypeOK
  <2> QED  BY <1>6, <2>1, <2>3 DEF AppendRow, TypeOK
<1>7. CASE SkipBadDate
  <2>1. line + 1 \in 1 .. MaxRows + 1
    <3>1. line <= Len(sample.rows) /\ line \in 1 .. MaxRows + 1
      BY <1>7 DEF SkipBadDate, TypeOK
    <3> QED  BY <3>1, ContentFacts
  <2> QED  BY <1>7, <2>1 DEF SkipBadDate, TypeOK
<1>8. CASE RowError
  <2>1. NextItem
    BY <1>8 DEF RowError
  <2> QED  BY <1>8, <2>1, NextItemType DEF RowError, LockOK, TypeOK
<1>9. CASE RowPanic
  <2>1. Panic
    BY <1>9 DEF RowPanic
  <2> QED  BY <1>9, <2>1, PanicType DEF RowPanic, Panic, LockOK, TypeOK
<1>10. CASE ItemDone
  <2>1. NextItem
    BY <1>10 DEF ItemDone
  <2>2. lastUpdate' \in [Files -> 0 .. MaxTs]
    <3>1. sample.ts \in 0 .. MaxTs
      BY ContentFacts
    <3> QED  BY <1>10, <3>1 DEF ItemDone, TypeOK
  <2> QED  BY <1>10, <2>1, <2>2, NextItemType DEF ItemDone, LockOK, TypeOK
<1> QED
  BY <1>1, <1>2, <1>3, <1>4, <1>5, <1>6, <1>7, <1>8, <1>9, <1>10 DEF CollectorNext

\* The end of a request passes the mutex on.
LEMMA FinishType ==
  ASSUME TypeOK, NEW a \in Clients, Finish(a)
  PROVE  /\ reqPc' \in [Clients -> {"idle", "waiting", "split", "copy", "done"}]
         /\ LockOK'
<1>1. LockOK
  BY DEF TypeOK, LockOK
<1> QED  BY <1>1, ReleaseType DEF Finish, TypeOK

LEMMA SplitRows ==
  ASSUME TypeOK, NEW f \in Files
  PROVE  /\ Taken(f) \in 0 .. Len(cache[f])
         /\ SubSeq(cache[f], 1, Taken(f)) \in Seq(Row)
         /\ Rest(f) \in Seq(Row)
         /\ \A n \in 0 .. Len(Rest(f)) : SubSeq(Rest(f), 1, n) \in Seq(Row)
<1>1. cache[f] \in Seq(Row) /\ Len(cache[f]) \in Nat
  BY LenProperties DEF TypeOK
<1>2. Taken(f) \in 0 .. Len(cache[f])
  BY <1>1, BoundsAssumption DEF Taken
<1>3. SubSeq(cache[f], 1, Taken(f)) \in Seq(Row)
  BY <1>1, <1>2, SubSeqProperties
<1>4. Rest(f) \in Seq(Row)
  BY <1>1, <1>2, SubSeqProperties DEF Rest
<1> QED  BY <1>2, <1>3, <1>4, SubSeqProperties

LEMMA ServeType ==
  ASSUME TypeOK, NEW r \in Requests, Serve(r)
  PROVE  TypeOK'
<1> USE DEF collectorVars, cacheVars, lockVars, requestVars, historyVars
<1>a. r \in Clients /\ reqFile[r] \in Files
  BY DEF TypeOK, Clients
<1>1. CASE PassThrough(r)
  BY <1>1, <1>a, FinishType DEF PassThrough, TypeOK, LockOK
<1>2. CASE SplitCache(r)
  <2>1. resp' \in [Requests -> Seq(Row)]
    BY <1>2, <1>a, SplitRows DEF SplitCache, TypeOK
  <2>2. cacheTmp' \in [Files -> Seq(Row)]
    <3>1. PICK n \in 0 .. Len(Rest(reqFile[r])) :
            cacheTmp' = [cacheTmp EXCEPT ![reqFile[r]] = SubSeq(Rest(reqFile[r]), 1, n)]
      BY <1>2 DEF SplitCache
    <3>2. SubSeq(Rest(reqFile[r]), 1, n) \in Seq(Row)
      BY <1>a, <3>1, SplitRows
    <3> QED  BY <3>1, <3>2 DEF TypeOK
  <2> QED  BY <1>2, <1>a, <2>1, <2>2 DEF SplitCache, TypeOK
<1>3. CASE SplitError(r)
  <2>1. cacheTmp' \in [Files -> Seq(Row)]
    <3>1. PICK n \in 0 .. Len(Rest(reqFile[r])) :
            cacheTmp' = [cacheTmp EXCEPT ![reqFile[r]] = SubSeq(Rest(reqFile[r]), 1, n)]
      BY <1>3 DEF SplitError
    <3>2. SubSeq(Rest(reqFile[r]), 1, n) \in Seq(Row)
      BY <1>a, <3>1, SplitRows
    <3> QED  BY <3>1, <3>2 DEF TypeOK
  <2>2. Finish(r)
    BY <1>3 DEF SplitError
  <2> QED  BY <1>3, <1>a, <2>1, <2>2, FinishType DEF SplitError, TypeOK, LockOK
<1>4. CASE TruncateCache(r)
  BY <1>4, <1>a DEF TruncateCache, TypeOK
<1>5. CASE CopyRow(r)
  <2> DEFINE f == reqFile[r]
  <2>1. cache[f] \in Seq(Row) /\ cacheTmp[f] \in Seq(Row)
    BY <1>a DEF TypeOK
  <2>2. Len(cache[f]) \in Nat /\ Len(cacheTmp[f]) \in Nat /\ Len(cache[f]) < Len(cacheTmp[f])
    BY <1>5, <2>1, LenProperties DEF CopyRow
  <2>3. cacheTmp[f][Len(cache[f]) + 1] \in Row
    BY <2>1, <2>2, ElementOfSeq
  <2>4. Append(cache[f], cacheTmp[f][Len(cache[f]) + 1]) \in Seq(Row)
    BY <2>1, <2>3, AppendProperties
  <2> QED  BY <1>5, <1>a, <2>4 DEF CopyRow, TypeOK
<1>6. CASE CopyError(r)
  BY <1>6, <1>a, FinishType DEF CopyError, TypeOK, LockOK
<1>7. CASE AnswerStatus(r)
  <2>1. answered' \in [Files -> Seq(Row)]
    <3>1. answered[reqFile[r]] \o resp[r] \in Seq(Row)
      <4>1. answered[reqFile[r]] \in Seq(Row) /\ resp[r] \in Seq(Row)
        BY <1>a DEF TypeOK
      <4> QED  BY <4>1, ConcatProperties
    <3>2. answered' = [answered EXCEPT ![reqFile[r]] = answered[reqFile[r]] \o resp[r]]
      BY <1>7 DEF AnswerStatus
    <3> QED  BY <1>a, <3>1, <3>2 DEF TypeOK
  <2>2. Finish(r)
    BY <1>7 DEF AnswerStatus
  <2>3. cacheTmp' \in [Files -> Seq(Row)]
    BY <1>7, <1>a, EmptySeq DEF AnswerStatus, TypeOK
  <2>4. UNCHANGED <<status, lastUpdate, cache, collectorVars, commands, reqFile, resp, bootTs>>
    BY <1>7 DEF AnswerStatus
  <2> QED  BY <1>a, <2>1, <2>2, <2>3, <2>4, FinishType DEF TypeOK, LockOK
<1> QED  BY <1>1, <1>2, <1>3, <1>4, <1>5, <1>6, <1>7 DEF Serve

LEMMA NextType == TypeOK /\ [Next]_vars => TypeOK'
<1> SUFFICES ASSUME TypeOK, [Next]_vars PROVE TypeOK'
  OBVIOUS
<1> USE DEF collectorVars, cacheVars, lockVars, requestVars, historyVars
<1>a. LockOK
  BY DEF TypeOK, LockOK
<1>1. CASE \E f \in Files : OpenVPNWrite(f)
  <2>1. PICK f \in Files : OpenVPNWrite(f)
    BY <1>1
  <2>2. status' \in [Files -> Content]
    <3>1. PICK c \in Contents, t \in {status[f].ts, status[f].ts + 1} :
            /\ t <= MaxTs
            /\ status' = [status EXCEPT ![f] = [ts |-> t, head |-> c.head, rows |-> c.rows]]
      BY <2>1 DEF OpenVPNWrite
    <3>2. [ts |-> t, head |-> c.head, rows |-> c.rows] \in Content
      BY <3>1, ContentFacts, ContentsAssumption DEF Content
    <3> QED  BY <3>1, <3>2 DEF TypeOK
  <2> QED  BY <2>1, <2>2 DEF OpenVPNWrite, TypeOK
<1>2. CASE CollectorNext
  BY <1>2, CollectorType
<1>3. CASE UpdateStatus
  BY <1>3, BoundsAssumption DEF UpdateStatus, TypeOK
<1>4. ASSUME NEW r \in Requests, NEW f \in Files, GetStatus(r, f) PROVE TypeOK'
  <2>1. r \in Actors /\ r \in Clients
    BY DEF Actors, Clients
  <2>2. LockOK'
    BY <1>4, <1>a, <2>1, AcquireType DEF GetStatus
  <2> QED  BY <1>4, <2>1, <2>2 DEF GetStatus, TypeOK, LockOK
<1>5. ASSUME NEW r \in Requests, Serve(r) PROVE TypeOK'
  BY <1>5, ServeType
<1>6. ASSUME NEW u \in Uploads, StartUpload(u) PROVE TypeOK'
  <2>1. u \in Actors /\ u \in Clients
    BY DEF Actors, Clients
  <2>2. LockOK'
    BY <1>6, <1>a, <2>1, AcquireType DEF StartUpload
  <2> QED  BY <1>6, <2>1, <2>2 DEF StartUpload, TypeOK, LockOK
<1>7. ASSUME NEW u \in Uploads, EndUpload(u) PROVE TypeOK'
  <2>1. u \in Clients
    BY DEF Clients
  <2> QED  BY <1>7, <2>1, FinishType DEF EndUpload, TypeOK, LockOK
<1>8. ASSUME NEW a \in Clients, Cancel(a) PROVE TypeOK'
  <2>1. a \in Actors
    BY DEF Actors
  <2>2. LockOK'
    BY <1>8, <1>a, <2>1, ForgetType DEF Cancel
  <2> QED  BY <1>8, <2>2 DEF Cancel, TypeOK, LockOK
<1>9. CASE Crash
  <2>1. waiters' \in Seq(Actors) /\ holder' \in Actors \cup {Free}
    BY <1>9 DEF Crash
  <2>2. bootTs' \in [Files -> 1 .. MaxTs] /\ lastUpdate' \in [Files -> 0 .. MaxTs]
    BY <1>9, ContentFacts, BoundsAssumption DEF Crash
  <2> QED  BY <1>9, <2>1, <2>2, BoundsAssumption DEF Crash, TypeOK
<1>10. CASE UNCHANGED vars
  BY <1>10 DEF vars, TypeOK
<1> QED
  BY <1>1, <1>2, <1>3, <1>4, <1>5, <1>6, <1>7, <1>8, <1>9, <1>10 DEF Next

\* Every variable keeps its type: the collector's place, the mutex and its
\* queue, the requests and the rows of the files.
THEOREM TypeCorrect == Spec => []TypeOK
<1> QED  BY InitType, NextType, PTL DEF Spec

-----------------------------------------------------------------------------
(* The inductive invariant. *)

LEMMA InitInv == Init => Inv
<1> SUFFICES ASSUME Init PROVE Inv
  OBVIOUS
<1>1. TypeOK
  BY InitType
<1>2. CacheBound
  BY BoundsAssumption DEF Init, CacheBound
<1>3. \A r \in Requests : reqPc[r] = "idle"
  BY DEF Init, Clients
<1> QED
  BY <1>1, <1>2, <1>3 DEF Init, Inv, Exclusion, RowsBound, SplitOK, CopyOK

\* Releasing the mutex: no one samples or rewrites a cache then.
LEMMA ReleaseExclusion ==
  ASSUME pc' \notin {"item", "rows"},
         \A r \in Requests : reqPc'[r] \notin {"split", "copy"}
  PROVE  Exclusion'
BY DEF Exclusion

LEMMA FinishExclusion ==
  ASSUME Inv, NEW a \in Clients, holder = a, Finish(a), UNCHANGED pc
  PROVE  /\ Exclusion'
         /\ \A r \in Requests : reqPc'[r] \notin {"split", "copy"}
         /\ pc' # "rows"
<1>1. pc \notin {"item", "rows"}
  BY ActorsAssumption DEF Inv, Exclusion
<1>2. \A r \in Requests : reqPc'[r] \notin {"split", "copy"}
  BY DEF Inv, Exclusion, Finish, TypeOK, Clients
<1> QED  BY <1>1, <1>2, ReleaseExclusion

\* What an action leaves of the invariant when it writes no file and no request
\* starts to rewrite one.
LEMMA FilesUnchanged ==
  ASSUME Inv, UNCHANGED <<cacheVars, reqFile, resp>>,
         \A r \in Requests : reqPc'[r] \in {"split", "copy"} => reqPc'[r] = reqPc[r]
  PROVE  CacheBound' /\ \A r \in Requests : SplitOK(r)' /\ CopyOK(r)'
<1>1. CacheBound'
  BY DEF Inv, CacheBound, cacheVars
<1>2. ASSUME NEW r \in Requests PROVE SplitOK(r)' /\ CopyOK(r)'
  BY <1>2 DEF Inv, SplitOK, CopyOK, cacheVars, Taken, Rest
<1> QED  BY <1>1, <1>2

LEMMA CollectorInv ==
  ASSUME Inv, CollectorNext
  PROVE  Inv'
<1> USE DEF collectorVars, cacheVars, lockVars, requestVars, historyVars
<1>t. TypeOK /\ TypeOK'
  BY CollectorType DEF Inv
<1>r. UNCHANGED requestVars
  BY DEF CollectorNext, Tick, PauseOver, StartSampling, SkipItem, SampleItem,
         AppendRow, SkipBadDate, RowError, RowPanic, ItemDone
<1>n. ASSUME pc \in {"item", "rows"}, NextItem PROVE Exclusion' /\ pc' # "rows"
  <2>1. \A r \in Requests : reqPc'[r] \notin {"split", "copy"}
    BY <1>n, <1>r, ActorsAssumption DEF Inv, Exclusion, Clients
  <2>2. pc' # "rows" /\ (pc' = "item" => holder' = holder)
    BY <1>n DEF NextItem
  <2> QED  BY <1>n, <2>1, <2>2 DEF Inv, Exclusion, NextItem
<1>p. ASSUME pc \in {"item", "rows"}, Panic PROVE Exclusion' /\ pc' # "rows"
  <2>1. \A r \in Requests : reqPc'[r] \notin {"split", "copy"}
    BY <1>p, <1>r, ActorsAssumption DEF Inv, Exclusion, Clients
  <2> QED  BY <1>p, <2>1 DEF Exclusion, Panic
<1>1. CASE ~AppendRow
  <2>1. CacheBound' /\ \A r \in Requests : SplitOK(r)' /\ CopyOK(r)'
    <3>1. UNCHANGED cacheVars
      BY <1>1 DEF CollectorNext, Tick, PauseOver, StartSampling, SkipItem, SampleItem,
                  SkipBadDate, RowError, RowPanic, ItemDone
    <3> QED  BY <1>r, <3>1, FilesUnchanged
  <2>2. Exclusion' /\ RowsBound'
    <3>1. CASE Tick
      BY <3>1 DEF Tick, Inv, Exclusion, RowsBound
    <3>2. CASE PauseOver
      <4>1. Exclusion'
        BY <3>2, ActorsAssumption DEF PauseOver, Acquire, Inv, Exclusion, Actors, Clients
      <4> QED  BY <3>2, <4>1 DEF PauseOver, RowsBound
    <3>3. CASE StartSampling
      <4>1. Exclusion'
        BY <3>3 DEF StartSampling, Inv, Exclusion
      <4> QED  BY <3>3, <4>1 DEF StartSampling, RowsBound
    <3>4. CASE SkipItem
      BY <3>4, <1>n DEF SkipItem, RowsBound
    <3>5. CASE SampleItem
      <4>1. CASE status[cur].head = "ok" /\ NewData(cur, status[cur].ts)
        <5>1. pc = "item" /\ pc' = "rows" /\ line' = 1 /\ UNCHANGED <<cur, cache, lockVars, reqPc>>
          BY <3>5, <4>1 DEF SampleItem
        <5>2. Len(cache[cur]) <= CacheMaxSize
          <6>1. Len(cache[cur]) \in Nat
            BY <1>t, LenProperties DEF TypeOK
          <6>2. ~(Len(cache[cur]) > CacheMaxSize)
            BY <3>5 DEF SampleItem, CacheTooBig
          <6> QED  BY <6>1, <6>2, BoundsAssumption
        <5>3. RowsBound'
          BY <5>1, <5>2, BoundsAssumption DEF RowsBound
        <5> QED  BY <5>1, <5>3 DEF Inv, Exclusion
      <4>2. CASE ~(status[cur].head = "ok" /\ NewData(cur, status[cur].ts))
        <5>1. pc = "item" /\ (NextItem \/ Panic)
          BY <3>5, <4>2 DEF SampleItem
        <5> QED  BY <5>1, <1>n, <1>p DEF RowsBound
      <4> QED  BY <4>1, <4>2
    <3>6. CASE SkipBadDate
      <4>1. RowsBound'
        <5>1. Len(cache[cur]) \in Nat /\ line \in Nat
          BY <1>t, LenProperties DEF TypeOK
        <5> QED  BY <5>1, <3>6, BoundsAssumption DEF SkipBadDate, Inv, RowsBound
      <4> QED  BY <3>6, <4>1 DEF SkipBadDate, Inv, Exclusion
    <3>7. CASE RowError
      BY <3>7, <1>n DEF RowError, RowsBound
    <3>8. CASE RowPanic
      BY <3>8, <1>p DEF RowPanic, RowsBound
    <3>9. CASE ItemDone
      BY <3>9, <1>n DEF ItemDone, RowsBound
    <3> QED  BY <1>1, <3>1, <3>2, <3>3, <3>4, <3>5, <3>6, <3>7, <3>8, <3>9 DEF CollectorNext
  <2> QED  BY <1>t, <2>1, <2>2 DEF Inv
<1>2. CASE AppendRow
  <2>1. \A r \in Requests : reqPc'[r] \notin {"split", "copy"}
    BY <1>2, <1>r, ActorsAssumption DEF AppendRow, Inv, Exclusion, Clients
  <2>2. Exclusion'
    BY <1>2, <2>1 DEF AppendRow, Inv, Exclusion
  <2>3. Len(cache'[cur]) = Len(cache[cur]) + 1 /\ Len(cache[cur]) \in Nat
    BY <1>2, <1>t, LenProperties DEF AppendRow, TypeOK
  <2>4. line \in 1 .. MaxRows
    <3>1. line <= Len(sample.rows) /\ line \in 1 .. MaxRows + 1
      BY <1>2, <1>t DEF AppendRow, TypeOK
    <3>2. Len(sample.rows) \in 0 .. MaxRows
      BY <1>t, ContentFacts
    <3> QED  BY <3>1, <3>2, BoundsAssumption
  <2>5. Len(cache[cur]) <= CacheMaxSize + line - 1
    BY <1>2 DEF AppendRow, Inv, RowsBound
  <2>6. RowsBound'
    BY <1>2, <2>3, <2>4, <2>5, BoundsAssumption DEF AppendRow, RowsBound
  <2>7. CacheBound'
    <3>1. Len(cache'[cur]) <= CacheMaxSize + MaxRows
      BY <2>3, <2>4, <2>5, BoundsAssumption
    <3>2. \A f \in Files : f # cur => cache'[f] = cache[f]
      BY <1>2, <1>t DEF AppendRow, TypeOK
    <3> QED  BY <3>1, <3>2 DEF Inv, CacheBound
  <2> QED  BY <1>t, <2>1, <2>2, <2>6, <2>7 DEF Inv, SplitOK, CopyOK
<1> QED  BY <1>1, <1>2

\* How many rows head_remove takes and leaves.
LEMMA SplitLengths ==
  ASSUME TypeOK, NEW f \in Files
  PROVE  /\ Len(SubSeq(cache[f], 1, Taken(f))) = Taken(f)
         /\ Taken(f) <= RequestMaxLines
         /\ Taken(f) < RequestMaxLines => Rest(f) = <<>>
         /\ Len(Rest(f)) = Len(cache[f]) - Taken(f)
         /\ \A n \in 0 .. Len(Rest(f)) : Len(SubSeq(Rest(f), 1, n)) = n
<1>1. cache[f] \in Seq(Row) /\ Len(cache[f]) \in Nat
  BY LenProperties DEF TypeOK
<1>2. Taken(f) \in 0 .. Len(cache[f]) /\ Taken(f) <= RequestMaxLines
  BY <1>1, BoundsAssumption DEF Taken
<1>3. Len(SubSeq(cache[f], 1, Taken(f))) = Taken(f)
  BY <1>1, <1>2, SubSeqProperties
<1>4. Rest(f) \in Seq(Row) /\ Len(Rest(f)) = Len(cache[f]) - Taken(f)
  BY <1>1, <1>2, SubSeqProperties DEF Rest
<1>5. Taken(f) < RequestMaxLines => Rest(f) = <<>>
  <2>1. Taken(f) < RequestMaxLines => Taken(f) = Len(cache[f])
    BY <1>1, BoundsAssumption DEF Taken
  <2> QED  BY <1>1, <2>1, SubSeqEmpty DEF Rest
<1>6. ASSUME NEW n \in 0 .. Len(Rest(f)) PROVE Len(SubSeq(Rest(f), 1, n)) = n
  BY <1>4, SubSeqProperties
<1> QED  BY <1>2, <1>3, <1>4, <1>5, <1>6

\* A request that rewrites a cache is alone: the other requests and the
\* collector are outside.
LEMMA Alone ==
  ASSUME Inv, NEW r \in Requests, holder = r
  PROVE  /\ pc \notin {"item", "rows"}
         /\ \A q \in Requests : q # r => reqPc[q] \notin {"split", "copy"}
BY ActorsAssumption DEF Inv, Exclusion, Clients

LEMMA ServeInv ==
  ASSUME Inv, NEW r \in Requests, Serve(r)
  PROVE  Inv'
<1> DEFINE f == reqFile[r]
<1> USE DEF collectorVars, cacheVars, lockVars, requestVars, historyVars
<1>t. TypeOK /\ TypeOK'
  BY ServeType DEF Inv
<1>a. r \in Clients /\ f \in Files /\ cache[f] \in Seq(Row) /\ cacheTmp[f] \in Seq(Row)
  BY <1>t DEF TypeOK, Clients
<1>h. holder = r
  BY DEF Serve, PassThrough, SplitCache, SplitError, TruncateCache, CopyRow, CopyError,
         AnswerStatus, Inv, Exclusion
<1>c. UNCHANGED <<pc, reqFile>>
  BY DEF Serve, PassThrough, SplitCache, SplitError, TruncateCache, CopyRow, CopyError,
         AnswerStatus
<1>o. pc \notin {"item", "rows"} /\ \A q \in Requests : q # r => reqPc[q] \notin {"split", "copy"}
  BY <1>h, Alone
<1>b. RowsBound'
  BY <1>o, <1>c DEF RowsBound
<1>1. CASE Finish(r) /\ UNCHANGED cache
  <2>1. Exclusion' /\ \A q \in Requests : reqPc'[q] \notin {"split", "copy"}
    BY <1>1, <1>a, <1>h, <1>c, FinishExclusion
  <2>2. CacheBound'
    BY <1>1 DEF Inv, CacheBound
  <2> QED  BY <1>t, <1>b, <2>1, <2>2 DEF Inv, SplitOK, CopyOK
<1>2. CASE SplitCache(r)
  <2>1. UNCHANGED <<cache, holder>> /\ reqPc' = [reqPc EXCEPT ![r] = "split"]
    BY <1>2 DEF SplitCache
  <2>2. Exclusion' /\ CacheBound'
    BY <1>c, <1>h, <1>o, <2>1 DEF Inv, Exclusion, CacheBound, TypeOK, Clients
  <2>3. SplitOK(r)'
    <3>1. resp'[r] = SubSeq(cache[f], 1, Taken(f))
      BY <1>2, <1>t DEF SplitCache, TypeOK
    <3>2. \E n \in 0 .. Len(Rest(f)) :
            /\ n = Len(Rest(f)) \/ "flush" \in Faults
            /\ cacheTmp'[f] = SubSeq(Rest(f), 1, n)
      BY <1>2, <1>t, <1>a DEF SplitCache, TypeOK
    <3> QED  BY <1>c, <2>1, <3>1, <3>2 DEF SplitOK, Taken, Rest
  <2>4. ASSUME NEW q \in Requests PROVE (q # r => SplitOK(q)') /\ CopyOK(q)'
    <3>1. reqPc'[q] # "copy" /\ (q # r => reqPc'[q] # "split")
      BY <1>t, <1>o, <2>1 DEF TypeOK, Clients
    <3> QED  BY <3>1 DEF SplitOK, CopyOK
  <2> QED  BY <1>t, <1>b, <2>2, <2>3, <2>4 DEF Inv
<1>3. CASE TruncateCache(r)
  <2>1. /\ UNCHANGED <<cacheTmp, holder, resp>> /\ reqPc' = [reqPc EXCEPT ![r] = "copy"]
        /\ cache' = [cache EXCEPT ![f] = <<>>] /\ reqPc[r] = "split"
    BY <1>3 DEF TruncateCache
  <2>2. Exclusion'
    BY <1>c, <1>h, <1>o, <2>1 DEF Inv, Exclusion
  <2>3. CacheBound'
    <3>1. ASSUME NEW g \in Files PROVE cache'[g] = cache[g] \/ Len(cache'[g]) = 0
      BY <1>t, <2>1, EmptySeq DEF TypeOK
    <3> QED  BY <3>1, BoundsAssumption DEF Inv, CacheBound
  <2>4. CopyOK(r)'
    <3>1. PICK n \in 0 .. Len(Rest(f)) : cacheTmp[f] = SubSeq(Rest(f), 1, n)
      BY <2>1 DEF Inv, SplitOK
    <3>2. resp[r] = SubSeq(cache[f], 1, Taken(f))
      BY <2>1 DEF Inv, SplitOK
    <3>3. Len(cacheTmp[f]) = n /\ Len(Rest(f)) = Len(cache[f]) - Taken(f) /\ Taken(f) \in Nat
      BY <1>t, <1>a, <3>1, SplitLengths, SplitRows
    <3>4. Len(cacheTmp[f]) <= CacheMaxSize + MaxRows
      <4>1. Len(cache[f]) <= CacheMaxSize + MaxRows
        BY <1>a DEF Inv, CacheBound
      <4>2. Len(cache[f]) \in Nat
        BY <1>a, LenProperties
      <4> QED  BY <3>3, <4>1, <4>2, BoundsAssumption
    <3>5. Len(resp[r]) <= RequestMaxLines
      BY <1>t, <1>a, <3>2, SplitLengths
    <3>6. Len(resp[r]) < RequestMaxLines => cacheTmp[f] = <<>>
      <4>1. SUFFICES ASSUME Len(resp[r]) < RequestMaxLines PROVE cacheTmp[f] = <<>>
        OBVIOUS
      <4>2. Rest(f) = <<>>
        BY <1>t, <1>a, <3>2, <4>1, SplitLengths
      <4>3. n = 0
        BY <4>2, EmptySeq
      <4> QED  BY <3>1, <4>3, SubSeqEmpty
    <3>7. cache'[f] = <<>> /\ Len(cache'[f]) = 0 /\ Len(cacheTmp[f]) \in Nat
      BY <1>a, <1>t, <2>1, EmptySeq, LenProperties DEF TypeOK
    <3>8. cache'[f] = SubSeq(cacheTmp[f], 1, Len(cache'[f]))
      BY <3>7, SubSeqEmpty
    <3> QED  BY <1>c, <2>1, <3>4, <3>5, <3>6, <3>7, <3>8 DEF CopyOK
  <2>5. ASSUME NEW q \in Requests PROVE SplitOK(q)' /\ (q # r => CopyOK(q)')
    <3>1. reqPc'[q] # "split" /\ (q # r => reqPc'[q] # "copy")
      BY <1>t, <1>o, <2>1 DEF TypeOK, Clients
    <3> QED  BY <3>1 DEF SplitOK, CopyOK
  <2> QED  BY <1>t, <1>b, <2>2, <2>3, <2>4, <2>5 DEF Inv
<1>4. CASE CopyRow(r)
  <2>1. /\ UNCHANGED <<cacheTmp, holder, resp, reqPc>> /\ reqPc[r] = "copy"
        /\ cache' = [cache EXCEPT ![f] = Append(cache[f], cacheTmp[f][Len(cache[f]) + 1])]
        /\ Len(cache[f]) < Len(cacheTmp[f])
    BY <1>4 DEF CopyRow
  <2>2. Exclusion'
    BY <1>c, <2>1 DEF Inv, Exclusion
  <2>3. Len(cache[f]) \in Nat /\ Len(cacheTmp[f]) \in Nat
    BY <1>a, LenProperties
  <2>4. cache'[f] = Append(cache[f], cacheTmp[f][Len(cache[f]) + 1])
    BY <1>a, <1>t, <2>1 DEF TypeOK
  <2>5. Len(cache'[f]) = Len(cache[f]) + 1
    BY <1>a, <2>4
  <2>6. CopyOK(r)
    BY DEF Inv
  <2>7. cache'[f] = SubSeq(cacheTmp[f], 1, Len(cache'[f]))
    <3> DEFINE k == Len(cache[f]) + 1
    <3>1. cache[f] = SubSeq(cacheTmp[f], 1, k - 1)
      BY <2>1, <2>3, <2>6 DEF CopyOK
    <3>2. k \in 1 .. Len(cacheTmp[f]) /\ cacheTmp[f][k] \in Row
      <4>1. k \in 1 .. Len(cacheTmp[f])
        BY <2>1, <2>3
      <4> HIDE DEF k
      <4> QED  BY <1>a, <4>1, ElementOfSeq
    <3>3. SubSeq(cacheTmp[f], 1, k) = SubSeq(cacheTmp[f], 1, k - 1) \o <<cacheTmp[f][k]>>
      BY <1>a, <3>2, PrefixStep
    <3>4. Append(cache[f], cacheTmp[f][k]) = cache[f] \o <<cacheTmp[f][k]>>
      BY <1>a, <3>2, AppendIsConcat
    <3> QED  BY <2>4, <2>5, <3>1, <3>3, <3>4
  <2>8. CopyOK(r)'
    BY <1>c, <2>1, <2>3, <2>5, <2>6, <2>7 DEF CopyOK
  <2>9. CacheBound'
    <3>1. Len(cache'[f]) <= CacheMaxSize + MaxRows
      BY <2>1, <2>3, <2>5, <2>6, BoundsAssumption DEF CopyOK
    <3>2. \A g \in Files : g # f => cache'[g] = cache[g]
      BY <1>t, <2>1 DEF TypeOK
    <3> QED  BY <3>1, <3>2 DEF Inv, CacheBound
  <2>10. ASSUME NEW q \in Requests PROVE SplitOK(q)' /\ (q # r => CopyOK(q)')
    BY <1>t, <1>o, <1>a, <2>1 DEF SplitOK, CopyOK, TypeOK
  <2> QED  BY <1>t, <1>b, <2>2, <2>8, <2>9, <2>10 DEF Inv
<1> QED
  BY <1>1, <1>2, <1>3, <1>4 DEF Serve, PassThrough, SplitError, CopyError, AnswerStatus

LEMMA NextInv == Inv /\ [Next]_vars => Inv'
<1> SUFFICES ASSUME Inv, [Next]_vars PROVE Inv'
  OBVIOUS
<1> USE DEF collectorVars, cacheVars, lockVars, requestVars, historyVars
<1>t. TypeOK /\ TypeOK'
  BY NextType DEF Inv
<1>1. CASE \E f \in Files : OpenVPNWrite(f)
  <2>1. UNCHANGED <<cacheVars, lockVars, collectorVars, requestVars>>
    BY <1>1 DEF OpenVPNWrite
  <2> QED  BY <1>t, <2>1, FilesUnchanged DEF Inv, Exclusion, RowsBound
<1>2. CASE CollectorNext
  BY <1>2, CollectorInv
<1>3. CASE UpdateStatus
  <2>1. UNCHANGED <<cacheVars, lockVars, collectorVars, requestVars>>
    BY <1>3 DEF UpdateStatus
  <2> QED  BY <1>t, <2>1, FilesUnchanged DEF Inv, Exclusion, RowsBound
<1>4. ASSUME NEW r \in Requests, NEW f \in Files, GetStatus(r, f) PROVE Inv'
  <2>1. reqPc' = [reqPc EXCEPT ![r] = "waiting"] /\ Acquire(r) /\ UNCHANGED <<cacheVars, pc, cur, line, resp>>
    BY <1>4 DEF GetStatus
  <2>2. Exclusion'
    BY <1>t, <2>1, ActorsAssumption DEF Inv, Exclusion, Acquire, TypeOK, Actors, Clients
  <2>3. \A q \in Requests : reqPc'[q] \in {"split", "copy"} => reqPc'[q] = reqPc[q] /\ reqFile'[q] = reqFile[q]
    BY <1>4, <1>t, <2>1 DEF GetStatus, TypeOK, Clients
  <2>4. CacheBound' /\ RowsBound'
    BY <2>1 DEF Inv, CacheBound, RowsBound
  <2>5. ASSUME NEW q \in Requests PROVE SplitOK(q)' /\ CopyOK(q)'
    <3>1. CASE reqPc'[q] \in {"split", "copy"}
      <4>1. UNCHANGED <<reqPc[q], reqFile[q], resp, cache, cacheTmp>>
        BY <2>1, <2>3, <3>1
      <4>2. SplitOK(q) /\ CopyOK(q)
        BY DEF Inv
      <4> QED  BY <4>1, <4>2 DEF SplitOK, CopyOK, Taken, Rest
    <3>2. CASE reqPc'[q] \notin {"split", "copy"}
      BY <3>2 DEF SplitOK, CopyOK
    <3> QED  BY <3>1, <3>2
  <2> QED  BY <1>t, <2>2, <2>4, <2>5 DEF Inv
<1>5. ASSUME NEW r \in Requests, Serve(r) PROVE Inv'
  BY <1>5, ServeInv
<1>6. ASSUME NEW u \in Uploads, StartUpload(u) PROVE Inv'
  <2>1. reqPc' = [reqPc EXCEPT ![u] = "waiting"] /\ Acquire(u)
        /\ UNCHANGED <<cacheVars, pc, cur, line, reqFile, resp>>
    BY <1>6 DEF StartUpload
  <2>2. Exclusion'
    BY <1>t, <2>1, ActorsAssumption DEF Inv, Exclusion, Acquire, TypeOK, Actors, Clients
  <2>3. \A q \in Requests : reqPc'[q] \in {"split", "copy"} => reqPc'[q] = reqPc[q]
    BY <1>t, <2>1 DEF TypeOK, Clients
  <2> QED  BY <1>t, <2>1, <2>2, <2>3, FilesUnchanged DEF Inv, RowsBound
<1>7. ASSUME NEW u \in Uploads, EndUpload(u) PROVE Inv'
  <2>1. u \in Clients /\ holder = u /\ Finish(u) /\ UNCHANGED <<cacheVars, pc, cur, line, reqFile, resp>>
    BY <1>7 DEF EndUpload, Clients
  <2>2. Exclusion' /\ (\A r \in Requests : reqPc'[r] \notin {"split", "copy"}) /\ pc' # "rows"
    BY <2>1, FinishExclusion
  <2> QED  BY <1>t, <2>1, <2>2, FilesUnchanged DEF Inv, RowsBound
<1>8. ASSUME NEW a \in Clients, Cancel(a) PROVE Inv'
  <2>1. /\ reqPc' = [reqPc EXCEPT ![a] = "done"] /\ Forget(a)
        /\ UNCHANGED <<cacheVars, pc, cur, line, reqFile, resp>>
    BY <1>8 DEF Cancel
  <2>2. \A q \in Requests : reqPc'[q] \in {"split", "copy"} => reqPc'[q] = reqPc[q]
    BY <1>t, <2>1 DEF TypeOK
  <2>3. Exclusion'
    <3>1. CASE holder = a
      <4>1. Finish(a)
        BY <2>1, <3>1 DEF Forget, Finish
      <4> QED  BY <2>1, <3>1, <4>1, FinishExclusion
    <3>2. CASE holder # a
      <4>1. UNCHANGED holder
        BY <2>1, <3>2 DEF Forget
      <4> QED  BY <2>1, <2>2, <4>1 DEF Inv, Exclusion
    <3> QED  BY <3>1, <3>2
  <2> QED  BY <1>t, <2>1, <2>2, <2>3, FilesUnchanged DEF Inv, RowsBound
<1>9. CASE Crash
  <2>1. UNCHANGED <<cacheVars, reqFile, resp>> /\ pc' = "pause"
    BY <1>9 DEF Crash
  <2>2. \A r \in Requests : reqPc'[r] \notin {"split", "copy"}
    BY <1>9 DEF Crash, Clients
  <2> QED  BY <1>t, <2>1, <2>2, FilesUnchanged, ReleaseExclusion DEF Inv, RowsBound
<1>10. CASE UNCHANGED vars
  <2>1. UNCHANGED <<cacheVars, lockVars, collectorVars, requestVars>>
    BY <1>10 DEF vars
  <2> QED  BY <1>t, <2>1, FilesUnchanged DEF Inv, Exclusion, RowsBound
<1> QED
  BY <1>1, <1>2, <1>3, <1>4, <1>5, <1>6, <1>7, <1>8, <1>9, <1>10 DEF Next

\* The mutex keeps the collector and the requests out of each other's files,
\* the size check keeps its bound, and a cache is always what a rewriting
\* request has taken and has still to put back.
THEOREM Invariant == Spec => []Inv
<1> QED  BY InitInv, NextInv, PTL DEF Spec

\* A cache file never holds more than its maximum and one snapshot: the check
\* at the start of collect_status_data is enough whatever head_remove does.
THEOREM CacheBounded == Spec => []CacheBound
<1>1. Inv => CacheBound
  BY DEF Inv
<1> QED  BY <1>1, Invariant, PTL

-----------------------------------------------------------------------------
\* The queue of the mutex.

\* Removing an element closes the gap it leaves.
LEMMA Removed ==
  ASSUME NEW s \in Seq(Actors), NEW k \in 1 .. Len(s)
  PROVE  /\ RemoveAt(s, k) \in Seq(Actors)
         /\ Len(RemoveAt(s, k)) = Len(s) - 1
         /\ \A i \in 1 .. Len(s) - 1 : RemoveAt(s, k)[i] = IF i < k THEN s[i] ELSE s[i + 1]
<1> DEFINE before == SubSeq(s, 1, k - 1)
           after == SubSeq(s, k + 1, Len(s))
<1>1. Len(s) \in Nat /\ k \in Nat /\ 1 <= k /\ k <= Len(s)
  BY LenProperties
<1>2. /\ before \in Seq(Actors) /\ Len(before) = k - 1
      /\ \A i \in 1 .. k - 1 : before[i] = s[i]
  <2>1. \A i \in 1 .. k - 1 : s[i] \in Actors
    BY <1>1, ElementOfSeq
  <2> QED  BY <1>1, <2>1, SubSeqProperties
<1>3. /\ after \in Seq(Actors) /\ Len(after) = Len(s) - k
      /\ \A i \in 1 .. Len(s) - k : after[i] = s[k + i]
  <2>1. \A i \in k + 1 .. Len(s) : s[i] \in Actors
    BY <1>1, ElementOfSeq
  <2>2. /\ after \in Seq(Actors)
        /\ Len(after) = IF k + 1 <= Len(s) THEN Len(s) - (k + 1) + 1 ELSE 0
        /\ \A i \in 1 .. Len(s) - (k + 1) + 1 : after[i] = s[(k + 1) + i - 1]
    BY <1>1, <2>1, SubSeqProperties
  <2> HIDE DEF after
  <2> QED  BY <1>1, <2>2
<1> HIDE DEF before, after
<1>4. /\ before \o after \in Seq(Actors)
      /\ Len(before \o after) = Len(before) + Len(after)
      /\ \A i \in 1 .. Len(before) + Len(after) :
           (before \o after)[i] = IF i <= Len(before) THEN before[i] ELSE after[i - Len(before)]
  BY <1>2, <1>3, ConcatProperties
<1>5. ASSUME NEW i \in 1 .. Len(s) - 1
      PROVE  (before \o after)[i] = IF i < k THEN s[i] ELSE s[i + 1]
  <2>1. (before \o after)[i] = IF i <= k - 1 THEN before[i] ELSE after[i - (k - 1)]
    BY <1>1, <1>2, <1>3, <1>4
  <2>2. CASE i < k
    BY <1>1, <1>2, <2>1, <2>2
  <2>3. CASE ~(i < k)
    <3>1. i - (k - 1) \in 1 .. Len(s) - k /\ k + (i - (k - 1)) = i + 1
      BY <1>1, <2>3
    <3> QED  BY <1>1, <1>3, <2>1, <2>3, <3>1
  <2> QED  BY <2>2, <2>3
<1>6. Len(before \o after) = Len(s) - 1
  BY <1>1, <1>2, <1>3, <1>4
<1> QED  BY <1>4, <1>5, <1>6 DEF RemoveAt, before, after

\* Who asks for the mutex gets it or a place in the queue,
LEMMA AcquireQueue ==
  ASSUME LockOK, QueueOK, NEW a \in Actors, ~Awaits(a), Acquire(a)
  PROVE  QueueOK' /\ \A b \in Actors : Awaits(b)' <=> Awaits(b) \/ b = a
<1>1. CASE holder = Free
  <2>1. waiters = <<>> /\ waiters' = <<>> /\ holder' = a
    BY <1>1 DEF Acquire, QueueOK
  <2>2. Len(waiters) = 0 /\ Len(waiters') = 0 /\ holder' # Free
    BY <2>1, ActorsAssumption
  <2> QED  BY <1>1, <2>1, <2>2, ActorsAssumption DEF QueueOK, Awaits
<1>2. CASE holder # Free
  <2>1. holder' = holder /\ waiters' = Append(waiters, a)
    BY <1>2 DEF Acquire
  <2>2. /\ Len(waiters) \in Nat /\ Len(waiters') = Len(waiters) + 1
        /\ \A i \in 1 .. Len(waiters) : waiters'[i] = waiters[i]
        /\ waiters'[Len(waiters) + 1] = a
    BY <2>1, AppendProperties, LenProperties DEF LockOK
  <2>3. \A i \in 1 .. Len(waiters') : i \in 1 .. Len(waiters) \/ i = Len(waiters) + 1
    BY <2>2
  <2>4. \A i \in 1 .. Len(waiters) : i \in 1 .. Len(waiters')
    BY <2>2
  <2>5. Len(waiters) + 1 \in 1 .. Len(waiters')
    BY <2>2
  <2>6. holder # a /\ \A i \in 1 .. Len(waiters) : waiters[i] # a
    BY DEF Awaits
  <2>7. QueueOK'
    BY <1>2, <2>1, <2>2, <2>3, <2>6 DEF QueueOK
  <2>8. ASSUME NEW b \in Actors PROVE Awaits(b)' <=> Awaits(b) \/ b = a
    BY <2>1, <2>2, <2>3, <2>4, <2>5 DEF Awaits
  <2> QED  BY <2>7, <2>8
<1> QED  BY <1>1, <1>2

\* who releases it leaves it to the first of the queue,
LEMMA ReleaseQueue ==
  ASSUME LockOK, QueueOK, holder \in Actors, Release
  PROVE  QueueOK' /\ \A b \in Actors : Awaits(b)' <=> Awaits(b) /\ b # holder
<1>1. CASE waiters = <<>>
  <2>1. holder' = Free /\ waiters' = <<>>
    BY <1>1 DEF Release
  <2>2. Len(waiters) = 0 /\ Len(waiters') = 0
    BY <1>1, <2>1
  <2> QED  BY <2>1, <2>2, ActorsAssumption DEF QueueOK, Awaits
<1>2. CASE waiters # <<>>
  <2>1. holder' = Head(waiters) /\ waiters' = Tail(waiters)
    BY <1>2 DEF Release
  <2>2. Len(waiters) \in Nat /\ 1 \in 1 .. Len(waiters) /\ Head(waiters) = waiters[1]
    BY <1>2, LenProperties, EmptySeq, HeadTailProperties DEF LockOK
  <2>3. Len(waiters') = Len(waiters) - 1
        /\ \A i \in 1 .. Len(waiters') : waiters'[i] = waiters[i + 1]
    BY <1>2, <2>1, <2>2, HeadTailProperties DEF LockOK
  <2>4. \A i \in 1 .. Len(waiters') : i + 1 \in 1 .. Len(waiters) /\ i + 1 # 1
    BY <2>2, <2>3
  <2>5. \A i \in 1 .. Len(waiters) : i = 1 \/ (i - 1 \in 1 .. Len(waiters') /\ (i - 1) + 1 = i)
    BY <2>2, <2>3
  <2>6. holder' \in Actors /\ holder' # Free /\ holder' = waiters[1]
    BY <2>1, <2>2, ElementOfSeq, ActorsAssumption DEF LockOK
  <2>7. QueueOK'
    <3>1. \A i \in 1 .. Len(waiters') : waiters'[i] # holder'
      BY <2>2, <2>3, <2>4, <2>6 DEF QueueOK
    <3>2. ASSUME NEW i \in 1 .. Len(waiters'), NEW j \in 1 .. Len(waiters'), waiters'[i] = waiters'[j]
          PROVE  i = j
      <4>1. i + 1 = j + 1
        BY <2>3, <2>4, <3>2 DEF QueueOK
      <4> QED  BY <2>2, <2>3, <4>1
    <3> QED  BY <2>6, <3>1, <3>2 DEF QueueOK
  <2>8. ASSUME NEW b \in Actors PROVE Awaits(b)' <=> Awaits(b) /\ b # holder
    <3>1. Awaits(b)' => Awaits(b) /\ b # holder
      BY <2>2, <2>3, <2>4, <2>6 DEF QueueOK, Awaits
    <3>2. ASSUME NEW i \in 1 .. Len(waiters), waiters[i] = b PROVE Awaits(b)'
      BY <2>3, <2>5, <2>6, <3>2 DEF Awaits
    <3> QED  BY <3>1, <3>2 DEF Awaits
  <2> QED  BY <2>7, <2>8
<1> QED  BY <1>1, <1>2

\* and who stops waiting leaves the others where they are.
LEMMA ForgetQueue ==
  ASSUME LockOK, QueueOK, NEW a \in Actors, Forget(a)
  PROVE  QueueOK' /\ \A b \in Actors : Awaits(b)' <=> Awaits(b) /\ b # a
<1>1. CASE holder = a
  BY <1>1, ReleaseQueue DEF Forget
<1>2. CASE holder # a
  <2>1. PICK k \in 1 .. Len(waiters) :
          waiters[k] = a /\ waiters' = RemoveAt(waiters, k) /\ holder' = holder
    BY <1>2 DEF Forget
  <2>2. /\ Len(waiters) \in Nat /\ Len(waiters') = Len(waiters) - 1
        /\ \A i \in 1 .. Len(waiters') : waiters'[i] = IF i < k THEN waiters[i] ELSE waiters[i + 1]
    BY <2>1, Removed, LenProperties DEF LockOK
  <2>3. \A i \in 1 .. Len(waiters') : i \in 1 .. Len(waiters) /\ i + 1 \in 1 .. Len(waiters)
    BY <2>2
  <2>4. \A i \in 1 .. Len(waiters) :
          \/ i = k
          \/ i < k /\ i \in 1 .. Len(waiters')
          \/ ~(i - 1 < k) /\ i - 1 \in 1 .. Len(waiters') /\ (i - 1) + 1 = i
    BY <2>2
  <2>5. holder # Free
    <3>1. waiters # <<>>
      BY <2>1
    <3> QED  BY <3>1 DEF QueueOK
  <2>6. QueueOK'
    <3>1. \A i \in 1 .. Len(waiters') : waiters'[i] # holder'
      BY <2>1, <2>2, <2>3 DEF QueueOK
    <3>2. ASSUME NEW i \in 1 .. Len(waiters'), NEW j \in 1 .. Len(waiters'), waiters'[i] = waiters'[j]
          PROVE  i = j
      <4> DEFINE old(n) == IF n < k THEN n ELSE n + 1
      <4>1. waiters'[i] = waiters[old(i)] /\ waiters'[j] = waiters[old(j)]
        BY <2>2
      <4>2. old(i) \in 1 .. Len(waiters) /\ old(j) \in 1 .. Len(waiters)
        BY <2>3
      <4>3. old(i) = old(j)
        BY <3>2, <4>1, <4>2 DEF QueueOK
      <4> QED  BY <2>2, <4>3
    <3> QED  BY <2>1, <2>5, <3>1, <3>2 DEF QueueOK
  <2>7. ASSUME NEW b \in Actors PROVE Awaits(b)' <=> Awaits(b) /\ b # a
    <3>1. ASSUME NEW i \in 1 .. Len(waiters'), waiters'[i] = b PROVE Awaits(b) /\ b # a
      <4> DEFINE o == IF i < k THEN i ELSE i + 1
      <4>1. o \in 1 .. Len(waiters) /\ o # k /\ waiters[o] = b
        BY <2>2, <2>3, <3>1
      <4> QED  BY <2>1, <4>1 DEF QueueOK, Awaits
    <3>2. ASSUME NEW i \in 1 .. Len(waiters), waiters[i] = b, b # a PROVE Awaits(b)'
      BY <2>1, <2>2, <2>4, <3>2 DEF Awaits
    <3> QED  BY <1>2, <2>1, <3>1, <3>2 DEF Awaits
  <2> QED  BY <2>6, <2>7
<1> QED  BY <1>1, <1>2

\* Where a step leaves the mutex and who wants it alone,
LEMMA SameQueue ==
  ASSUME MutexQueue, UNCHANGED lockVars, \A a \in Actors : Wants(a)' <=> Wants(a)
  PROVE  MutexQueue'
BY DEF MutexQueue, QueueOK, Awaits, lockVars

\* and where actor a asks for it, releases it or stops waiting for it.
LEMMA AskQueue ==
  ASSUME TypeOK, MutexQueue, NEW a \in Actors, Acquire(a), ~Wants(a),
         \A b \in Actors : Wants(b)' <=> Wants(b) \/ b = a
  PROVE  MutexQueue'
<1>1. QueueOK' /\ \A b \in Actors : Awaits(b)' <=> Awaits(b) \/ b = a
  BY AcquireQueue DEF TypeOK, LockOK, MutexQueue
<1> QED  BY <1>1 DEF MutexQueue

LEMMA LeaveQueue ==
  ASSUME TypeOK, MutexQueue, NEW a \in Actors, (holder = a /\ Release) \/ Forget(a),
         \A b \in Actors : Wants(b)' <=> Wants(b) /\ b # a
  PROVE  MutexQueue'
<1>1. QueueOK' /\ \A b \in Actors : Awaits(b)' <=> Awaits(b) /\ b # a
  BY ReleaseQueue, ForgetQueue DEF TypeOK, LockOK, MutexQueue
<1> QED  BY <1>1 DEF MutexQueue

\* An actor is the collector or a client, never both.
LEMMA WhoWants ==
  /\ Collector \in Actors
  /\ \A a \in Actors : a # Collector => a \in Clients
  /\ \A a \in Clients : a \in Actors /\ a # Collector
BY ActorsAssumption DEF Actors

LEMMA CollectorQueue ==
  ASSUME Inv, MutexQueue, CollectorNext
  PROVE  MutexQueue'
<1> USE DEF collectorVars, cacheVars, requestVars, historyVars
<1>t. TypeOK
  BY DEF Inv
<1>1. reqPc' = reqPc
  BY DEF CollectorNext, Tick, PauseOver, StartSampling, SkipItem, SampleItem, AppendRow,
         SkipBadDate, RowError, RowPanic, ItemDone
<1>2. \A a \in Actors \ {Collector} : Wants(a)' <=> Wants(a)
  BY <1>1 DEF Wants
<1>3. ASSUME pc \in {"lock", "item", "rows"} <=> pc' \in {"lock", "item", "rows"},
             UNCHANGED lockVars
      PROVE  MutexQueue'
  <2>1. \A a \in Actors : Wants(a)' <=> Wants(a)
    BY <1>1, <1>3 DEF Wants
  <2> QED  BY <1>3, <2>1, SameQueue
<1>4. ASSUME pc \in {"item", "rows"}, pc' \notin {"lock", "item", "rows"}, Release
      PROVE  MutexQueue'
  <2>1. holder = Collector
    BY <1>4 DEF Inv, Exclusion
  <2>2. \A a \in Actors : Wants(a)' <=> Wants(a) /\ a # Collector
    BY <1>2, <1>4 DEF Wants
  <2> QED  BY <1>t, <1>4, <2>1, <2>2, WhoWants, LeaveQueue
<1>5. ASSUME pc \in {"item", "rows"}, NextItem PROVE MutexQueue'
  <2>1. CASE cur < NFiles
    BY <1>3, <1>5, <2>1 DEF NextItem
  <2>2. CASE ~(cur < NFiles)
    BY <1>4, <1>5, <2>2 DEF NextItem
  <2> QED  BY <2>1, <2>2
<1>6. ASSUME pc \in {"item", "rows"}, Panic PROVE MutexQueue'
  BY <1>4, <1>6 DEF Panic
<1>7. CASE Tick
  BY <1>3, <1>7 DEF Tick
<1>8. CASE PauseOver
  <2>1. Acquire(Collector) /\ ~Wants(Collector)
    BY <1>8 DEF PauseOver, Wants
  <2>2. \A a \in Actors : Wants(a)' <=> Wants(a) \/ a = Collector
    BY <1>2, <1>8 DEF PauseOver, Wants
  <2> QED  BY <1>t, <2>1, <2>2, WhoWants, AskQueue
<1>9. CASE StartSampling \/ AppendRow \/ SkipBadDate
  BY <1>3, <1>9 DEF StartSampling, AppendRow, SkipBadDate
<1>10. CASE SkipItem \/ RowError \/ ItemDone
  BY <1>5, <1>10 DEF SkipItem, RowError, ItemDone
<1>11. CASE SampleItem
  <2>1. NextItem \/ Panic \/ (pc' = "rows" /\ UNCHANGED lockVars)
    BY <1>11 DEF SampleItem
  <2> QED  BY <1>3, <1>5, <1>6, <1>11, <2>1 DEF SampleItem
<1>12. CASE RowPanic
  BY <1>6, <1>12 DEF RowPanic
<1> QED
  BY <1>7, <1>8, <1>9, <1>10, <1>11, <1>12 DEF CollectorNext

\* What a client does to its place in its request.
LEMMA ClientWants ==
  ASSUME TypeOK, NEW a \in Clients, NEW p, reqPc' = [reqPc EXCEPT ![a] = p], UNCHANGED pc
  PROVE  /\ \A b \in Actors : b # a => (Wants(b)' <=> Wants(b))
         /\ Wants(a)' <=> p \in {"waiting", "split", "copy"}
<1>1. reqPc'[a] = p /\ \A b \in Clients : b # a => reqPc'[b] = reqPc[b]
  BY DEF TypeOK
<1> QED  BY <1>1, WhoWants DEF Wants

LEMMA NextQueueOfMutex == Inv /\ MutexQueue /\ [Next]_vars => MutexQueue'
<1> SUFFICES ASSUME Inv, MutexQueue, [Next]_vars PROVE MutexQueue'
  OBVIOUS
<1> USE DEF collectorVars, cacheVars, requestVars, historyVars
<1>t. TypeOK
  BY DEF Inv
<1>1. ASSUME UNCHANGED <<lockVars, pc, reqPc>> PROVE MutexQueue'
  BY <1>1, SameQueue DEF Wants
<1>2. ASSUME NEW a \in Clients, reqPc[a] = "idle", reqPc' = [reqPc EXCEPT ![a] = "waiting"],
             UNCHANGED pc, Acquire(a)
      PROVE  MutexQueue'
  BY <1>t, <1>2, ClientWants, WhoWants, AskQueue DEF Wants
<1>3. ASSUME NEW a \in Clients, reqPc' = [reqPc EXCEPT ![a] = "done"], UNCHANGED pc,
             (holder = a /\ Release) \/ Forget(a)
      PROVE  MutexQueue'
  <2>1. ~Wants(a)' /\ \A b \in Actors : b # a => (Wants(b)' <=> Wants(b))
    <3>1. pc' = pc /\ "done" \notin {"waiting", "split", "copy"}
      BY <1>3
    <3> QED  BY <1>t, <1>3, <3>1, ClientWants, Zenon
  <2>2. \A b \in Actors : Wants(b)' <=> Wants(b) /\ b # a
    BY <2>1
  <2>3. a \in Actors
    BY WhoWants
  <2> QED  BY <1>t, <1>3, <2>2, <2>3, LeaveQueue
<1>4. ASSUME NEW a \in Clients, reqPc[a] \in {"waiting", "split", "copy"}, UNCHANGED <<lockVars, pc>>,
             NEW p \in {"split", "copy"}, reqPc' = [reqPc EXCEPT ![a] = p]
      PROVE  MutexQueue'
  <2>1. Wants(a)' /\ Wants(a)
    BY <1>t, <1>4, ClientWants, WhoWants DEF Wants
  <2> QED  BY <1>t, <1>4, <2>1, ClientWants, SameQueue
<1>5. CASE \E f \in Files : OpenVPNWrite(f)
  BY <1>1, <1>5 DEF OpenVPNWrite
<1>6. CASE CollectorNext
  BY <1>6, CollectorQueue
<1>7. CASE UpdateStatus
  BY <1>1, <1>7 DEF UpdateStatus
<1>8. ASSUME NEW r \in Requests, NEW f \in Files, GetStatus(r, f) PROVE MutexQueue'
  BY <1>2, <1>8 DEF GetStatus, Clients
<1>9. ASSUME NEW r \in Requests, Serve(r) PROVE MutexQueue'
  <2>1. CASE PassThrough(r) \/ SplitError(r)
    BY <1>3, <2>1 DEF PassThrough, SplitError, Finish, Clients
  <2>2. CASE CopyError(r) \/ AnswerStatus(r)
    <3>1. holder = r
      BY <2>2 DEF CopyError, AnswerStatus, Inv, Exclusion
    <3> QED  BY <1>3, <2>2, <3>1 DEF CopyError, AnswerStatus, Finish, Clients
  <2>3. CASE SplitCache(r)
    BY <1>4, <2>3 DEF SplitCache, Clients
  <2>4. CASE TruncateCache(r)
    BY <1>4, <2>4 DEF TruncateCache, Clients
  <2>5. CASE CopyRow(r)
    BY <1>1, <2>5 DEF CopyRow
  <2> QED  BY <1>9, <2>1, <2>2, <2>3, <2>4, <2>5 DEF Serve
<1>10. ASSUME NEW u \in Uploads, StartUpload(u) PROVE MutexQueue'
  BY <1>2, <1>10 DEF StartUpload, Clients
<1>11. ASSUME NEW u \in Uploads, EndUpload(u) PROVE MutexQueue'
  BY <1>3, <1>11 DEF EndUpload, Finish, Clients
<1>12. ASSUME NEW a \in Clients, Cancel(a) PROVE MutexQueue'
  BY <1>3, <1>12 DEF Cancel
<1>13. CASE Crash
  <2>1. holder' = Free /\ waiters' = <<>> /\ Len(waiters') = 0
    BY <1>13 DEF Crash
  <2>2. \A a \in Actors : ~Wants(a)'
    BY <1>13, WhoWants DEF Crash, Wants
  <2> QED  BY <2>1, <2>2, ActorsAssumption DEF MutexQueue, QueueOK, Awaits
<1>14. CASE UNCHANGED vars
  BY <1>1, <1>14 DEF vars
<1> QED
  BY <1>5, <1>6, <1>7, <1>8, <1>9, <1>10, <1>11, <1>12, <1>13, <1>14 DEF Next

\* The mutex is lost to nobody: who wants it holds it or has its one place in the
\* queue, and nobody else does, whoever panics, fails, gives up or starts again.
THEOREM MutexQueued == Spec => []MutexQueue
<1>1. Init => MutexQueue
  <2> SUFFICES ASSUME Init PROVE MutexQueue
    OBVIOUS
  <2>1. holder = Free /\ waiters = <<>> /\ Len(waiters) = 0
    BY DEF Init
  <2>2. \A a \in Actors : ~Wants(a)
    BY WhoWants DEF Init, Wants
  <2> QED  BY <2>1, <2>2, ActorsAssumption DEF MutexQueue, QueueOK, Awaits
<1> QED  BY <1>1, NextQueueOfMutex, Invariant, PTL DEF Spec
=============================================================================

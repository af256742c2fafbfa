---------------------- MODULE OpenVPNStatus_refinement ----------------------
(***************************************************************************)
(* OpenVPNStatus implements StatusQueue: the cache files, with what a      *)
(* request that rewrites one holds in memory, are the abstract queue.      *)
(***************************************************************************)
EXTENDS OpenVPNStatus_proofs

NoneCopies == \A r \in Requests : reqPc[r] # "copy"

\* Pending is the cache, except for the file being rewritten.
LEMMA PendingAtRest ==
  ASSUME TypeOK, NoneCopies
  PROVE  Pending = cache
<1>1. \A f \in Files : ~Copying(f)
  BY DEF NoneCopies, Copying
<1> QED  BY <1>1 DEF Pending, TypeOK

LEMMA PendingAtRestNext ==
  ASSUME TypeOK', NoneCopies'
  PROVE  Pending' = cache'
<1>1. \A f \in Files : ~Copying(f)'
  BY DEF NoneCopies, Copying
<1> QED  BY <1>1 DEF Pending, TypeOK

LEMMA PendingCopied ==
  ASSUME Inv, NEW r \in Requests, reqPc[r] = "copy"
  PROVE  Pending = [cache EXCEPT ![reqFile[r]] = resp[r] \o cacheTmp[reqFile[r]]]
<1>1. holder = r
  BY DEF Inv, Exclusion
<1> QED  BY <1>1 DEF Pending, Copying, Inv, TypeOK

LEMMA PendingCopiedNext ==
  ASSUME Inv', NEW r \in Requests, reqPc'[r] = "copy"
  PROVE  Pending' = [cache' EXCEPT ![reqFile'[r]] = resp'[r] \o cacheTmp'[reqFile'[r]]]
<1>1. holder' = r
  BY DEF Inv, Exclusion
<1> QED  BY <1>1 DEF Pending, Copying, Inv, TypeOK

\* A step that leaves the files, and who rewrites which, is a stutter.
LEMMA Steady ==
  ASSUME Inv, Inv', UNCHANGED <<cacheVars, resp>>,
         \A q \in Requests : /\ reqPc'[q] = "copy" <=> reqPc[q] = "copy"
                             /\ reqPc[q] = "copy" => reqFile'[q] = reqFile[q]
  PROVE  Pending' = Pending
<1>1. CASE NoneCopies
  <2>1. NoneCopies'
    BY <1>1 DEF NoneCopies
  <2> QED  BY <1>1, <2>1, PendingAtRest, PendingAtRestNext DEF Inv, cacheVars
<1>2. CASE ~NoneCopies
  <2>1. PICK r \in Requests : reqPc[r] = "copy"
    BY <1>2 DEF NoneCopies
  <2>2. reqPc'[r] = "copy" /\ reqFile'[r] = reqFile[r]
    BY <2>1
  <2>3. Pending = [cache EXCEPT ![reqFile[r]] = resp[r] \o cacheTmp[reqFile[r]]]
    BY <2>1, PendingCopied
  <2>4. Pending' = [cache' EXCEPT ![reqFile'[r]] = resp'[r] \o cacheTmp'[reqFile'[r]]]
    BY <2>2, PendingCopiedNext
  <2> QED  BY <2>2, <2>3, <2>4 DEF cacheVars
<1> QED  BY <1>1, <1>2

\* The end of a rewriting that hands out nothing leaves one run of the rows.
LEMMA GivenUp ==
  ASSUME Inv, Inv', NEW r \in Requests, reqPc[r] = "copy", NoneCopies',
         UNCHANGED <<cache, answered>>, Faults # {}
  PROVE  Queue!Lose(reqFile[r])
<1> DEFINE f == reqFile[r]
           all == resp[r] \o cacheTmp[f]
           k == Len(cache[f])
<1>1. f \in Files /\ cache[f] \in Seq(Row) /\ cacheTmp[f] \in Seq(Row) /\ resp[r] \in Seq(Row)
  BY DEF Inv, TypeOK
<1>2. k \in Nat /\ Len(resp[r]) \in Nat /\ Len(cacheTmp[f]) \in Nat /\ k <= Len(cacheTmp[f])
      /\ cache[f] = SubSeq(cacheTmp[f], 1, k)
  BY <1>1, LenProperties DEF Inv, CopyOK
<1>4. cache[f] = SubSeq(all, Len(resp[r]) + 1, Len(resp[r]) + k)
  <2>1. k \in 0 .. Len(cacheTmp[f])
    BY <1>2
  <2> HIDE DEF k
  <2>2. SubSeq(all, Len(resp[r]) + 1, Len(resp[r]) + k) = SubSeq(cacheTmp[f], 1, k)
    BY <1>1, <2>1, MiddleOfConcat
  <2> QED  BY <1>2, <2>2
<1>5. Pending = [cache EXCEPT ![f] = all]
  BY PendingCopied
<1>6. Pending' = cache
  BY PendingAtRestNext DEF Inv
<1>7. Pending[f] = all /\ Pending' = [Pending EXCEPT ![f] = cache[f]]
  BY <1>1, <1>5, <1>6 DEF Inv, TypeOK
<1> HIDE DEF all, k
<1>8. k \in 0 .. Len(cacheTmp[f])
  BY <1>2 DEF k
<1>9. Len(resp[r]) + 1 \in 1 .. Len(Pending[f]) + 1 /\ Len(resp[r]) + k \in 0 .. Len(Pending[f])
  BY <1>1, <1>7, <1>8, ConcatPlaces DEF all
<1>10. \E i \in 1 .. Len(Pending[f]) + 1, j \in 0 .. Len(Pending[f]) :
        Pending' = [Pending EXCEPT ![f] = SubSeq(Pending[f], i, j)]
  BY <1>4, <1>7, <1>9
<1> QED  BY <1>10 DEF Queue!Lose

\* The truncation hands the rows over from the cache to the request: all of
\* them, or without the ones a failed flush has dropped.
LEMMA HandOver ==
  ASSUME Inv, Inv', NEW r \in Requests, TruncateCache(r)
  PROVE  Pending' = Pending \/ Queue!Lose(reqFile[r])
<1> DEFINE f == reqFile[r]
           t == Taken(f)
<1>1. /\ reqPc[r] = "split" /\ reqPc'[r] = "copy" /\ UNCHANGED <<cacheTmp, reqFile, resp, answered>>
      /\ cache' = [cache EXCEPT ![f] = <<>>] /\ f \in Files /\ holder = r
  BY DEF TruncateCache, Inv, Exclusion, TypeOK, Clients, historyVars
<1>2. NoneCopies
  BY <1>1, Alone DEF NoneCopies
<1>3. Pending = cache
  BY <1>2, PendingAtRest DEF Inv
<1>4. Pending' = [cache EXCEPT ![f] = resp[r] \o cacheTmp[f]]
  <2>1. Pending' = [cache' EXCEPT ![f] = resp[r] \o cacheTmp[f]]
    BY <1>1, PendingCopiedNext
  <2> QED  BY <1>1, <2>1 DEF Inv, TypeOK
<1>5. PICK n \in 0 .. Len(Rest(f)) : /\ n = Len(Rest(f)) \/ "flush" \in Faults
                                    /\ cacheTmp[f] = SubSeq(Rest(f), 1, n)
  BY <1>1 DEF Inv, SplitOK
<1>6. resp[r] = SubSeq(cache[f], 1, t)
  BY <1>1 DEF Inv, SplitOK
<1>7. cache[f] \in Seq(Row) /\ Len(cache[f]) \in Nat /\ t \in 0 .. Len(cache[f])
      /\ Len(Rest(f)) = Len(cache[f]) - t
  BY <1>1, LenProperties, SplitRows, SplitLengths DEF Inv, TypeOK
<1>8. cacheTmp[f] = SubSeq(cache[f], t + 1, t + n)
  <2>1. SubSeq(SubSeq(cache[f], t + 1, Len(cache[f])), 1, n) = SubSeq(cache[f], t + 1, t + n)
    BY <1>5, <1>7, PrefixOfSuffix
  <2> QED  BY <1>5, <2>1 DEF Rest
<1>9. resp[r] \o cacheTmp[f] = SubSeq(cache[f], 1, t + n)
  <2>1. t \in 1 - 1 .. Len(cache[f]) /\ t + n \in t .. Len(cache[f]) /\ 1 \in 1 .. Len(cache[f]) + 1
    BY <1>5, <1>7
  <2> HIDE DEF t
  <2> QED  BY <1>6, <1>7, <1>8, <2>1, ConcatAdjacentSubSeq
<1>10. CASE n = Len(Rest(f))
  <2>1. SubSeq(cache[f], 1, t + n) = cache[f]
    BY <1>7, <1>10, SubSeqFull
  <2> QED  BY <1>3, <1>4, <1>9, <2>1 DEF Inv, TypeOK
<1>11. CASE "flush" \in Faults
  <2>1. 1 \in 1 .. Len(cache[f]) + 1 /\ t + n \in 0 .. Len(cache[f])
    BY <1>5, <1>7
  <2>2. \E i \in 1 .. Len(Pending[f]) + 1, j \in 0 .. Len(Pending[f]) :
          Pending' = [Pending EXCEPT ![f] = SubSeq(Pending[f], i, j)]
    BY <1>3, <1>4, <1>9, <2>1
  <2> QED  BY <1>1, <1>11, <2>2 DEF Queue!Lose
<1> QED  BY <1>5, <1>10, <1>11

\* Answering hands out the oldest rows, as many as a request may take.
LEMMA Answered ==
  ASSUME Inv, Inv', NEW r \in Requests, AnswerStatus(r)
  PROVE  Queue!Answer(reqFile[r])
<1> DEFINE f == reqFile[r]
           all == resp[r] \o cacheTmp[f]
<1>1. /\ reqPc[r] = "copy" /\ UNCHANGED cache /\ f \in Files /\ holder = r /\ r \in Clients
      /\ answered' = [answered EXCEPT ![f] = answered[f] \o resp[r]]
      /\ Len(cache[f]) = Len(cacheTmp[f]) /\ Finish(r) /\ UNCHANGED pc
  BY DEF AnswerStatus, Inv, Exclusion, TypeOK, Clients, collectorVars
<1>2. NoneCopies'
  BY <1>1, FinishExclusion DEF NoneCopies
<1>3. cache[f] \in Seq(Row) /\ cacheTmp[f] \in Seq(Row) /\ resp[r] \in Seq(Row)
  BY <1>1 DEF Inv, TypeOK
<1>4. cache[f] = cacheTmp[f]
  <2>1. cache[f] = SubSeq(cacheTmp[f], 1, Len(cacheTmp[f]))
    BY <1>1 DEF Inv, CopyOK
  <2> QED  BY <1>3, <2>1, SubSeqFull
<1>5. Pending = [cache EXCEPT ![f] = all] /\ Pending' = cache
  BY <1>1, <1>2, PendingCopied, PendingAtRestNext DEF Inv
<1>6. Pending[f] = all /\ Pending' = [Pending EXCEPT ![f] = cacheTmp[f]]
  BY <1>1, <1>4, <1>5 DEF Inv, TypeOK
<1>8. Queue!Oldest(f) = Len(resp[r])
  <2>1. Len(resp[r]) <= RequestMaxLines /\ (Len(resp[r]) < RequestMaxLines => cacheTmp[f] = <<>>)
    BY <1>1 DEF Inv, CopyOK
  <2>2. Queue!Oldest(f) = IF Len(all) < RequestMaxLines THEN Len(all) ELSE RequestMaxLines
    BY <1>6 DEF Queue!Oldest
  <2> QED  BY <1>3, <2>1, <2>2, ConcatTaken, BoundsAssumption
<1>9. SubSeq(all, 1, Len(resp[r])) = resp[r] /\ SubSeq(all, Len(resp[r]) + 1, Len(all)) = cacheTmp[f]
  BY <1>3, HeadOfConcat, TailOfConcat
<1> HIDE DEF all
<1> QED  BY <1>1, <1>6, <1>8, <1>9 DEF Queue!Answer

\* What AppendRow adds, in the file it adds it to.
LEMMA RowAppended ==
  ASSUME Inv, Inv', AppendRow
  PROVE  /\ cur \in Files /\ pc = "rows" /\ UNCHANGED <<answered, cur, sample, pc>>
         /\ [ts |-> sample.ts, n |-> line] \in Row
         /\ Pending' = [Pending EXCEPT ![cur] = Append(Pending[cur], [ts |-> sample.ts, n |-> line])]
         /\ Pending \in [Files -> Seq(Row)]
<1>1. /\ holder = Collector /\ UNCHANGED <<reqPc, answered, cur, sample, pc>> /\ cur \in Files
      /\ cache' = [cache EXCEPT ![cur] = Append(cache[cur], [ts |-> sample.ts, n |-> line])]
      /\ pc = "rows"
  BY DEF AppendRow, Inv, Exclusion, TypeOK, requestVars, historyVars
<1>2. NoneCopies /\ NoneCopies'
  BY <1>1, ActorsAssumption DEF NoneCopies, Inv, Exclusion, Clients
<1>3. Pending = cache /\ Pending' = cache'
  BY <1>2, PendingAtRest, PendingAtRestNext DEF Inv
<1>4. [ts |-> sample.ts, n |-> line] \in Row
  <2>1. sample.ts \in 1 .. MaxTs /\ Len(sample.rows) \in 0 .. MaxRows
    BY ContentFacts DEF Inv
  <2>2. line <= Len(sample.rows) /\ line \in 1 .. MaxRows + 1
    BY DEF AppendRow, Inv, TypeOK
  <2>3. line \in 1 .. MaxRows
    BY <2>1, <2>2, BoundsAssumption
  <2> QED
    BY <2>1, <2>3 DEF Row
<1> QED
  BY <1>1, <1>3, <1>4 DEF Inv, TypeOK

\* A row appended is a row collected.
LEMMA Appended ==
  ASSUME Inv, Inv', AppendRow
  PROVE  Queue!Collect(cur)
BY RowAppended DEF Queue!Collect

LEMMA InitQueue == Init => Queue!Init
<1> SUFFICES ASSUME Init PROVE Queue!Init
  OBVIOUS
<1>1. NoneCopies
  BY DEF Init, NoneCopies, Clients
<1>2. Pending = cache
  BY <1>1, InitType, PendingAtRest
<1> QED  BY <1>2 DEF Init, Queue!Init

\* Rows come by AppendRow only; every other step takes some out, or none.
LEMMA NextRows ==
  ASSUME Inv, Inv', [Next]_vars
  PROVE  \/ UNCHANGED <<Pending, answered>>
         \/ AppendRow
         \/ \E f \in Files : Queue!Answer(f) \/ Queue!Lose(f)
<1> USE DEF collectorVars, cacheVars, lockVars, requestVars, historyVars
<1>t. TypeOK
  BY DEF Inv
<1>1. CASE \E f \in Files : OpenVPNWrite(f)
  <2>1. UNCHANGED <<cacheVars, requestVars, answered>>
    BY <1>1 DEF OpenVPNWrite
  <2> QED  BY <2>1, Steady
<1>2. CASE CollectorNext
  <2>1. CASE AppendRow
    BY <2>1
  <2>2. CASE ~AppendRow
    <3>1. UNCHANGED <<cacheVars, requestVars, answered>>
      BY <1>2, <2>2 DEF CollectorNext, Tick, PauseOver, StartSampling, SkipItem, SampleItem,
                        SkipBadDate, RowError, RowPanic, ItemDone
    <3> QED  BY <3>1, Steady
  <2> QED  BY <2>1, <2>2
<1>3. CASE UpdateStatus
  <2>1. UNCHANGED <<cacheVars, requestVars, answered>>
    BY <1>3 DEF UpdateStatus
  <2> QED  BY <2>1, Steady
<1>4. ASSUME NEW r \in Requests, NEW f \in Files, GetStatus(r, f)
      PROVE  UNCHANGED <<Pending, answered>>
  <2>1. UNCHANGED <<cacheVars, resp, answered>>
    BY <1>4 DEF GetStatus
  <2>2. \A q \in Requests : /\ reqPc'[q] = "copy" <=> reqPc[q] = "copy"
                            /\ reqPc[q] = "copy" => reqFile'[q] = reqFile[q]
    BY <1>4, <1>t DEF GetStatus, TypeOK, Clients
  <2> QED  BY <2>1, <2>2, Steady
<1>5. ASSUME NEW r \in Requests, Serve(r)
      PROVE  \/ UNCHANGED <<Pending, answered>>
             \/ \E f \in Files : Queue!Answer(f) \/ Queue!Lose(f)
  <2>1. r \in Clients /\ reqFile[r] \in Files
    BY <1>t DEF TypeOK, Clients
  <2>2. CASE PassThrough(r) \/ SplitCache(r) \/ SplitError(r)
    <3>1. UNCHANGED <<cache, reqFile, answered>> /\ holder = r /\ reqPc[r] = "waiting"
          /\ \E p \in {"done", "split"} : reqPc' = [reqPc EXCEPT ![r] = p]
      BY <2>2 DEF PassThrough, SplitCache, SplitError, Finish
    <3>2. NoneCopies
      BY <3>1, Alone DEF NoneCopies
    <3>3. NoneCopies'
      BY <3>1, <3>2, <1>t DEF NoneCopies, TypeOK, Clients
    <3> QED  BY <3>1, <3>2, <3>3, PendingAtRest, PendingAtRestNext DEF Inv
  <2>3. CASE TruncateCache(r)
    <3>1. UNCHANGED answered
      BY <2>3 DEF TruncateCache
    <3> QED  BY <2>1, <2>3, <3>1, HandOver
  <2>4. CASE CopyRow(r)
    <3>1. /\ reqPc[r] = "copy" /\ UNCHANGED <<cacheTmp, reqPc, reqFile, resp, answered>>
          /\ cache' = [cache EXCEPT ![reqFile[r]] = Append(cache[reqFile[r]],
                                     cacheTmp[reqFile[r]][Len(cache[reqFile[r]]) + 1])]
      BY <2>4 DEF CopyRow
    <3>2. Pending = [cache EXCEPT ![reqFile[r]] = resp[r] \o cacheTmp[reqFile[r]]]
      BY <3>1, PendingCopied
    <3>3. Pending' = [cache' EXCEPT ![reqFile[r]] = resp[r] \o cacheTmp[reqFile[r]]]
      BY <3>1, PendingCopiedNext
    <3> QED  BY <1>t, <3>1, <3>2, <3>3 DEF TypeOK
  <2>5. CASE CopyError(r)
    <3>1. reqPc[r] = "copy" /\ UNCHANGED <<cache, answered, pc>> /\ Finish(r) /\ holder = r
          /\ Faults # {}
      BY <2>5 DEF CopyError, Inv, Exclusion
    <3>2. NoneCopies'
      BY <2>1, <3>1, FinishExclusion DEF NoneCopies
    <3> QED  BY <2>1, <3>1, <3>2, GivenUp
  <2>6. CASE AnswerStatus(r)
    BY <2>1, <2>6, Answered
  <2> QED  BY <1>5, <2>2, <2>3, <2>4, <2>5, <2>6 DEF Serve
<1>6. ASSUME NEW u \in Uploads, StartUpload(u) \/ EndUpload(u)
      PROVE  UNCHANGED <<Pending, answered>>
  <2>1. UNCHANGED <<cacheVars, reqFile, resp, answered>>
        /\ \E p \in {"waiting", "done"} : reqPc' = [reqPc EXCEPT ![u] = p]
    BY <1>6 DEF StartUpload, EndUpload, Finish
  <2>2. \A q \in Requests : reqPc'[q] = reqPc[q]
    BY <1>t, <2>1, ActorsAssumption DEF TypeOK, Clients
  <2> QED  BY <2>1, <2>2, Steady
<1>7. ASSUME NEW a \in Clients, Cancel(a)
      PROVE  UNCHANGED <<Pending, answered>>
  <2>1. UNCHANGED <<cacheVars, reqFile, resp, answered>>
        /\ reqPc' = [reqPc EXCEPT ![a] = "done"] /\ reqPc[a] = "waiting"
    BY <1>7 DEF Cancel
  <2>2. \A q \in Requests : reqPc'[q] = "copy" <=> reqPc[q] = "copy"
    BY <1>t, <2>1 DEF TypeOK, Clients
  <2> QED  BY <2>1, <2>2, Steady
<1>8. CASE Crash
  <2>1. UNCHANGED <<cache, answered>> /\ Faults # {} /\ NoneCopies'
    BY <1>8 DEF Crash, NoneCopies, Clients
  <2>2. CASE NoneCopies
    BY <2>1, <2>2, PendingAtRest, PendingAtRestNext DEF Inv
  <2>3. CASE ~NoneCopies
    <3>1. PICK r \in Requests : reqPc[r] = "copy"
      BY <2>3 DEF NoneCopies
    <3>2. reqFile[r] \in Files
      BY <1>t DEF TypeOK
    <3> QED  BY <2>1, <3>1, <3>2, GivenUp
  <2> QED  BY <2>2, <2>3
<1>9. CASE UNCHANGED vars
  <2>1. UNCHANGED <<cacheVars, requestVars, answered>>
    BY <1>9 DEF vars
  <2> QED  BY <2>1, Steady
<1> QED
  BY <1>1, <1>2, <1>3, <1>4, <1>5, <1>6, <1>7, <1>8, <1>9 DEF Next

LEMMA NextQueue == Inv /\ Inv' /\ [Next]_vars => [Queue!Next]_(Queue!vars)
<1> SUFFICES ASSUME Inv, Inv', [Next]_vars
             PROVE  UNCHANGED <<Pending, answered>>
                    \/ \E f \in Files : Queue!Collect(f) \/ Queue!Answer(f) \/ Queue!Lose(f)
  BY DEF Queue!Next, Queue!vars
<1>1. AppendRow => Queue!Collect(cur) /\ cur \in Files
  BY Appended DEF Inv, TypeOK
<1> QED  BY <1>1, NextRows

\* The status pipeline is a queue of rows: what the collector appends, the
\* requests hand out once, in order and at most RequestMaxLines at a time, for
\* any number of files, requests and uploads; only a failure of the file
\* system or of the process loses rows, and it never reorders or repeats them.
THEOREM ImplementsQueue == Spec => QueueSpec
<1> QED  BY InitQueue, NextQueue, Invariant, PTL DEF Spec, QueueSpec, Queue!Spec
=============================================================================

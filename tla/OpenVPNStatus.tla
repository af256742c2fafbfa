--------------------------- MODULE OpenVPNStatus ---------------------------
(***************************************************************************)
(* The OpenVPN status pipeline of the agent.  A collector thread samples   *)
(* the status file each OpenVPN server rewrites and appends its client     *)
(* rows to a cache file; status requests remove the oldest rows of the     *)
(* cache and answer with them.  The collector, the requests and the file   *)
(* uploads exclude each other with one tokio mutex, cfg.mutex.openvpn,     *)
(* which queues its waiters first in, first out.                           *)
(*                                                                         *)
(* Rows, lines and timestamps are abstract: a sampled row is identified by *)
(* the "Updated" time of its snapshot and its place in it, and sizes are   *)
(* counted in rows.                                                        *)
(***************************************************************************)
EXTENDS Integers, Sequences, SequencesExt

CONSTANTS NFiles,            \* Status files configured.
          Requests,          \* Status requests; each identifies one request.
          Uploads,           \* Upload requests, which hold the mutex while the body arrives.
          Contents,          \* What OpenVPN may leave in a status file.
          MaxRows,           \* Client lines of a status file at most.
          MaxTs,             \* Last "Updated" time (bound).
          CacheMaxSize,      \* OPENVPN_STATUS_CACHE_MAX_SIZE, in rows.
          RequestMaxLines,   \* OPENVPN_STATUS_REQUEST_MAX_LINES.
          SamplingInterval,  \* OPENVPN_STATUS_SAMPLING_INTERVAL, in seconds.
          MaxUpdates,        \* Update commands pending at once (bound).
          Faults,            \* The failures that may happen.
          Collector, Free    \* The collector thread; the mutex unlocked.

Files == 1 .. NFiles
Clients == Requests \cup Uploads
Actors == Clients \cup {Collector}

\* The first lines of a status file: it does not exist; its "Updated" line
\* parses; that line is not there or does not parse; it is shorter than
\* "Updated,"; it is not valid UTF-8.
Heads == {"absent", "ok", "bad", "short", "garbled"}

\* A client line: it has its five fields; its date does not parse; it has
\* fewer than five fields; it is not valid UTF-8.
Lines == {"client", "badDate", "short", "garbled"}

\* Where a failure may happen: the sampling copy, the append to the cache,
\* the flush of the rewritten cache, the reading of the cache, the copy over
\* the cache, the whole process.
FaultKinds == {"io", "append", "flush", "read", "copy", "crash"}

ASSUME FilesAssumption == NFiles \in Nat \ {0}
ASSUME ActorsAssumption ==
  /\ Requests \cap Uploads = {}
  /\ Collector \notin Clients
  /\ Free \notin Actors
ASSUME ContentsAssumption ==
  \A c \in Contents : /\ c.head \in Heads
                      /\ c.rows \in Seq(Lines)
                      /\ Len(c.rows) <= MaxRows
ASSUME BoundsAssumption ==
  /\ MaxRows \in Nat /\ CacheMaxSize \in Nat /\ RequestMaxLines \in Nat
  /\ SamplingInterval \in Nat /\ MaxUpdates \in Nat
  /\ MaxTs \in Nat \ {0}
ASSUME FaultsAssumption == Faults \subseteq FaultKinds

\* A cached row: row n of the snapshot with "Updated" time ts.
Row == [ts : 1 .. MaxTs, n : 1 .. MaxRows]

VARIABLES
  status,      \* status[f]: the status file OpenVPN writes.
  lastUpdate,  \* lastUpdate[f]: last_update of the collector's entry, 0 for none.
  cache,       \* cache[f]: rows of the cache file (absent is empty).
  cacheTmp,    \* cacheTmp[f]: rows of the cache file's ".tmp" companion.
  holder,      \* Who holds the mutex.
  waiters,     \* Who waits for it, in order.
  pc,          \* Where the collector is.
  cur,         \* The file it is on.
  sample,      \* Its private copy of that status file.
  line,        \* The next client line of the sample.
  pauseLeft,   \* Seconds left of its pause.
  commands,    \* Update commands in its channel.
  reqPc,       \* Where each client's request is.
  reqFile,     \* The file a status request names.
  resp,        \* The rows a status request has taken.
  answered,    \* History: rows handed to clients, per file.
  bootTs       \* History: "Updated" time of each file when the agent started.

lockVars == <<holder, waiters>>
collectorVars == <<pc, cur, sample, line, pauseLeft>>
cacheVars == <<cache, cacheTmp>>
requestVars == <<reqPc, reqFile, resp>>
historyVars == <<answered, bootTs>>
vars == <<status, lastUpdate, cacheVars, lockVars, collectorVars, commands,
          requestVars, historyVars>>

Content == {c \in [ts : 1 .. MaxTs, head : Heads, rows : Seq(Lines)] : Len(c.rows) <= MaxRows}

TypeOK ==
  /\ status \in [Files -> Content]
  /\ lastUpdate \in [Files -> 0 .. MaxTs]
  /\ cache \in [Files -> Seq(Row)]
  /\ cacheTmp \in [Files -> Seq(Row)]
  /\ holder \in Actors \cup {Free}
  /\ waiters \in Seq(Actors)
  /\ pc \in {"pause", "lock", "item", "rows", "dead"}
  /\ cur \in Files
  /\ sample \in Content
  /\ line \in 1 .. MaxRows + 1
  /\ pauseLeft \in 0 .. SamplingInterval
  /\ commands \in 0 .. MaxUpdates
  /\ reqPc \in [Clients -> {"idle", "waiting", "split", "copy", "done"}]
  /\ reqFile \in [Requests -> Files]
  /\ resp \in [Requests -> Seq(Row)]
  /\ answered \in [Files -> Seq(Row)]
  /\ bootTs \in [Files -> 1 .. MaxTs]

Init ==
  /\ \E c \in [Files -> Contents] :
       status = [f \in Files |-> [ts |-> 1, head |-> c[f].head, rows |-> c[f].rows]]
  /\ lastUpdate = [f \in Files |-> 0]
  /\ cache = [f \in Files |-> <<>>]
  /\ cacheTmp = [f \in Files |-> <<>>]
  /\ holder = Free
  /\ waiters = <<>>
  /\ pc = "pause" /\ cur = 1 /\ sample = status[1] /\ line = 1
  /\ pauseLeft = 0
  /\ commands = 0
  /\ reqPc = [a \in Clients |-> "idle"]
  /\ reqFile = [r \in Requests |-> 1]
  /\ resp = [r \in Requests |-> <<>>]
  /\ answered = [f \in Files |-> <<>>]
  /\ bootTs = [f \in Files |-> 1]

-----------------------------------------------------------------------------
\* The mutex.  A release hands it to the first waiter.

Acquire(a) ==
  IF holder = Free
  THEN holder' = a /\ UNCHANGED waiters
  ELSE waiters' = Append(waiters, a) /\ UNCHANGED holder

Release ==
  IF waiters = <<>>
  THEN holder' = Free /\ UNCHANGED waiters
  ELSE holder' = Head(waiters) /\ waiters' = Tail(waiters)

\* A dropped lock() future leaves the queue; if it had just been handed the
\* mutex, it passes it on.
Forget(a) ==
  IF holder = a
  THEN Release
  ELSE \E i \in 1 .. Len(waiters) :
         /\ waiters[i] = a
         /\ waiters' = RemoveAt(waiters, i)
         /\ UNCHANGED holder

-----------------------------------------------------------------------------
\* OpenVPN rewrites a status file: a new snapshot, or more of the same one
\* (it does not take the mutex, so a snapshot may be seen half written).
OpenVPNWrite(f) ==
  /\ \E c \in Contents, t \in {status[f].ts, status[f].ts + 1} :
       /\ t <= MaxTs
       /\ status' = [status EXCEPT ![f] = [ts |-> t, head |-> c.head, rows |-> c.rows]]
  /\ UNCHANGED <<lastUpdate, cacheVars, lockVars, collectorVars, commands,
                 requestVars, historyVars>>

-----------------------------------------------------------------------------
\* The collector thread.

\* Slip: the pause loop runs once too often.
TickOnceMore ==
  /\ pc = "pause"
  /\ pauseLeft' = pauseLeft - 1
  /\ UNCHANGED <<status, lastUpdate, cacheVars, lockVars, pc, cur, sample, line,
                 commands, requestVars, historyVars>>

\* Slip: the channel is not looked at in the last second.
TickDeaf ==
  /\ pc = "pause" /\ pauseLeft > 0
  /\ IF commands > 0 /\ pauseLeft > 1
     THEN commands' = commands - 1 /\ pauseLeft' = 0
     ELSE pauseLeft' = pauseLeft - 1 /\ UNCHANGED commands
  /\ UNCHANGED <<status, lastUpdate, cacheVars, lockVars, pc, cur, sample, line,
                 requestVars, historyVars>>

\* One second of the pause; an update command ends it.
Tick ==
  /\ pc = "pause" /\ pauseLeft > 0
  /\ IF commands > 0
     THEN commands' = commands - 1 /\ pauseLeft' = 0
     ELSE pauseLeft' = pauseLeft - 1 /\ UNCHANGED commands
  /\ UNCHANGED <<status, lastUpdate, cacheVars, lockVars, pc, cur, sample, line,
                 requestVars, historyVars>>

PauseOver ==
  /\ pc = "pause" /\ pauseLeft = 0
  /\ pc' = "lock"
  /\ Acquire(Collector)
  /\ UNCHANGED <<status, lastUpdate, cacheVars, cur, sample, line, pauseLeft,
                 commands, requestVars, historyVars>>

StartSampling ==
  /\ pc = "lock" /\ holder = Collector
  /\ pc' = "item" /\ cur' = 1
  /\ UNCHANGED <<status, lastUpdate, cacheVars, lockVars, sample, line, pauseLeft,
                 commands, requestVars, historyVars>>

\* collect_all_files_data goes on with the next file whatever became of this
\* one; after the last one the collector releases the mutex and pauses.
NextItem ==
  IF cur < NFiles
  THEN pc' = "item" /\ cur' = cur + 1 /\ UNCHANGED <<pauseLeft, lockVars>>
  ELSE pc' = "pause" /\ pauseLeft' = SamplingInterval /\ Release /\ UNCHANGED cur

\* Slip: the thread ends with the mutex still locked.
PanicKeepingMutex ==
  /\ pc' = "dead" /\ commands' = 0
  /\ UNCHANGED <<lockVars, lastUpdate, cur, pauseLeft>>

\* Indexing past the end of a short line panics: the thread unwinds, dropping
\* the guard of the mutex and the receiving end of the command channel.
Panic ==
  /\ pc' = "dead" /\ commands' = 0
  /\ Release
  /\ UNCHANGED <<lastUpdate, cur, pauseLeft>>

\* Slip: the size of the companion file is checked.
CacheTooBigByTmp(f) == Len(cacheTmp[f]) > CacheMaxSize

CacheTooBig(f) == Len(cache[f]) > CacheMaxSize

\* The item is left alone: its cache is too big, or its status file cannot be
\* copied or its "Updated" line not read.
SkipItem ==
  /\ pc = "item"
  /\ \/ CacheTooBig(cur)
     \/ status[cur].head \in {"absent", "garbled"}
     \/ "io" \in Faults
  /\ NextItem
  /\ UNCHANGED <<status, lastUpdate, cacheVars, sample, line, commands,
                 requestVars, historyVars>>

\* Slip: the first cycle is not skipped.
NewDataAtOnce(f, ts) == ts # lastUpdate[f]

\* Whether the "Updated" time ts of a sample tells of new rows.
NewData(f, ts) == lastUpdate[f] # 0 /\ ts # lastUpdate[f]

\* The status file is copied and its "Updated" line read.  A line that does
\* not parse leaves last_update at 0; a time that is the first one seen, or
\* the one seen before, is recorded and no row collected.
SampleItem ==
  /\ pc = "item" /\ ~CacheTooBig(cur)
  /\ sample' = status[cur] /\ line' = 1
  /\ \/ /\ status[cur].head = "bad"
        /\ lastUpdate' = [lastUpdate EXCEPT ![cur] = 0]
        /\ NextItem /\ UNCHANGED commands
     \/ /\ status[cur].head = "ok" /\ ~NewData(cur, status[cur].ts)
        /\ lastUpdate' = [lastUpdate EXCEPT ![cur] = status[cur].ts]
        /\ NextItem /\ UNCHANGED commands
     \/ /\ status[cur].head = "ok" /\ NewData(cur, status[cur].ts)
        /\ pc' = "rows"
        /\ UNCHANGED <<lastUpdate, cur, pauseLeft, lockVars, commands>>
     \/ status[cur].head = "short" /\ Panic
  /\ UNCHANGED <<status, cacheVars, requestVars, historyVars>>

AppendRow ==
  /\ pc = "rows" /\ line <= Len(sample.rows) /\ sample.rows[line] = "client"
  /\ cache' = [cache EXCEPT ![cur] = Append(@, [ts |-> sample.ts, n |-> line])]
  /\ line' = line + 1
  /\ UNCHANGED <<status, lastUpdate, cacheTmp, lockVars, pc, cur, sample, pauseLeft,
                 commands, requestVars, historyVars>>

SkipBadDate ==
  /\ pc = "rows" /\ line <= Len(sample.rows) /\ sample.rows[line] = "badDate"
  /\ line' = line + 1
  /\ UNCHANGED <<status, lastUpdate, cacheVars, lockVars, pc, cur, sample, pauseLeft,
                 commands, requestVars, historyVars>>

\* Slip: the error of one file ends the sampling of all.
RowErrorEndsSampling ==
  /\ pc = "rows" /\ line <= Len(sample.rows) /\ sample.rows[line] = "garbled"
  /\ pc' = "pause" /\ pauseLeft' = SamplingInterval /\ Release
  /\ UNCHANGED <<status, lastUpdate, cacheVars, cur, sample, line, commands,
                 requestVars, historyVars>>

\* An unreadable line, or a failed write, ends the item with an error before
\* last_update is set; the rows already appended stay.
RowError ==
  /\ pc = "rows" /\ line <= Len(sample.rows)
  /\ sample.rows[line] = "garbled" \/ (sample.rows[line] = "client" /\ "append" \in Faults)
  /\ NextItem
  /\ UNCHANGED <<status, lastUpdate, cacheVars, sample, line, commands,
                 requestVars, historyVars>>

RowPanic ==
  /\ pc = "rows" /\ line <= Len(sample.rows) /\ sample.rows[line] = "short"
  /\ Panic
  /\ UNCHANGED <<status, cacheVars, sample, line, requestVars, historyVars>>

ItemDone ==
  /\ pc = "rows" /\ line > Len(sample.rows)
  /\ lastUpdate' = [lastUpdate EXCEPT ![cur] = sample.ts]
  /\ NextItem
  /\ UNCHANGED <<status, cacheVars, sample, line, commands, requestVars, historyVars>>

CollectorNext ==
  \/ Tick \/ PauseOver \/ StartSampling
  \/ SkipItem \/ SampleItem
  \/ AppendRow \/ SkipBadDate \/ RowError \/ RowPanic \/ ItemDone

-----------------------------------------------------------------------------
\* Requests.

\* update_status: the send fails, and nothing changes, once the thread is dead.
UpdateStatus ==
  /\ pc # "dead" /\ commands < MaxUpdates
  /\ commands' = commands + 1
  /\ UNCHANGED <<status, lastUpdate, cacheVars, lockVars, collectorVars,
                 requestVars, historyVars>>

GetStatus(r, f) ==
  /\ reqPc[r] = "idle"
  /\ reqPc' = [reqPc EXCEPT ![r] = "waiting"]
  /\ reqFile' = [reqFile EXCEPT ![r] = f]
  /\ Acquire(r)
  /\ UNCHANGED <<status, lastUpdate, cacheVars, collectorVars, commands, resp, historyVars>>

Finish(a) ==
  /\ reqPc' = [reqPc EXCEPT ![a] = "done"]
  /\ Release

\* The request takes and releases the mutex and leaves the cache alone: a
\* status request whose list is not of one file or whose cache is empty, and
\* the files_remove and files_sha256 requests.
PassThrough(r) ==
  /\ reqPc[r] = "waiting" /\ holder = r
  /\ Finish(r)
  /\ UNCHANGED <<status, lastUpdate, cacheVars, collectorVars, commands,
                 reqFile, resp, historyVars>>

Taken(f) == IF Len(cache[f]) < RequestMaxLines THEN Len(cache[f]) ELSE RequestMaxLines
Rest(f) == SubSeq(cache[f], Taken(f) + 1, Len(cache[f]))

\* Slip: head_remove is called without the mutex.
SplitCacheUnlocked(r) ==
  LET f == reqFile[r]
  IN  /\ reqPc[r] = "waiting" /\ cache[f] # <<>>
      /\ reqPc' = [reqPc EXCEPT ![r] = "split"]
      /\ resp' = [resp EXCEPT ![r] = SubSeq(cache[f], 1, Taken(f))]
      /\ cacheTmp' = [cacheTmp EXCEPT ![f] = Rest(f)]
      /\ UNCHANGED <<status, lastUpdate, cache, lockVars, collectorVars, commands,
                     reqFile, historyVars>>

\* head_remove reads the cache, keeping the first lines and writing the others
\* to the temporary file.  The buffered writer is dropped, not flushed: when
\* the device fails then, a suffix of the file is missing and nobody is told.
SplitCache(r) ==
  LET f == reqFile[r]
  IN  /\ reqPc[r] = "waiting" /\ holder = r /\ cache[f] # <<>>
      /\ reqPc' = [reqPc EXCEPT ![r] = "split"]
      /\ resp' = [resp EXCEPT ![r] = SubSeq(cache[f], 1, Taken(f))]
      /\ \E n \in 0 .. Len(Rest(f)) :
           /\ n = Len(Rest(f)) \/ "flush" \in Faults
           /\ cacheTmp' = [cacheTmp EXCEPT ![f] = SubSeq(Rest(f), 1, n)]
      /\ UNCHANGED <<status, lastUpdate, cache, lockVars, collectorVars, commands,
                     reqFile, historyVars>>

\* The cache cannot be read or its companion not written: an error answer, and
\* part of the companion file is left behind.
SplitError(r) ==
  LET f == reqFile[r]
  IN  /\ reqPc[r] = "waiting" /\ holder = r /\ "read" \in Faults
      /\ \E n \in 0 .. Len(Rest(f)) :
           cacheTmp' = [cacheTmp EXCEPT ![f] = SubSeq(Rest(f), 1, n)]
      /\ Finish(r)
      /\ UNCHANGED <<status, lastUpdate, cache, collectorVars, commands,
                     reqFile, resp, historyVars>>

\* fs::copy truncates the cache, then writes it row by row.
TruncateCache(r) ==
  /\ reqPc[r] = "split"
  /\ reqPc' = [reqPc EXCEPT ![r] = "copy"]
  /\ cache' = [cache EXCEPT ![reqFile[r]] = <<>>]
  /\ UNCHANGED <<status, lastUpdate, cacheTmp, lockVars, collectorVars, commands,
                 reqFile, resp, historyVars>>

CopyRow(r) ==
  LET f == reqFile[r]
  IN  /\ reqPc[r] = "copy" /\ Len(cache[f]) < Len(cacheTmp[f])
      /\ cache' = [cache EXCEPT ![f] = Append(@, cacheTmp[f][Len(@) + 1])]
      /\ UNCHANGED <<status, lastUpdate, cacheTmp, lockVars, collectorVars, commands,
                     requestVars, historyVars>>

\* The copy fails: an error answer, without the rows that were taken.
CopyError(r) ==
  /\ reqPc[r] = "copy" /\ "copy" \in Faults
  /\ Finish(r)
  /\ UNCHANGED <<status, lastUpdate, cacheVars, collectorVars, commands,
                 reqFile, resp, historyVars>>

\* Slip: the rewritten companion is not copied over the cache.
AnswerWithoutCopy(r) ==
  /\ reqPc[r] = "split"
  /\ answered' = [answered EXCEPT ![reqFile[r]] = @ \o resp[r]]
  /\ Finish(r)
  /\ UNCHANGED <<status, lastUpdate, cacheVars, collectorVars, commands,
                 reqFile, resp, bootTs>>

\* The companion file is removed, the mutex released and the rows answered.
AnswerStatus(r) ==
  LET f == reqFile[r]
  IN  /\ reqPc[r] = "copy" /\ Len(cache[f]) = Len(cacheTmp[f])
      /\ cacheTmp' = [cacheTmp EXCEPT ![f] = <<>>]
      /\ answered' = [answered EXCEPT ![f] = @ \o resp[r]]
      /\ Finish(r)
      /\ UNCHANGED <<status, lastUpdate, cache, collectorVars, commands,
                     reqFile, resp, bootTs>>

\* files_upload awaits the body with the mutex held: it ends when its client
\* has sent everything, sends something wrong or goes away.
StartUpload(u) ==
  /\ reqPc[u] = "idle"
  /\ reqPc' = [reqPc EXCEPT ![u] = "waiting"]
  /\ Acquire(u)
  /\ UNCHANGED <<status, lastUpdate, cacheVars, collectorVars, commands,
                 reqFile, resp, historyVars>>

EndUpload(u) ==
  /\ reqPc[u] = "waiting" /\ holder = u
  /\ Finish(u)
  /\ UNCHANGED <<status, lastUpdate, cacheVars, collectorVars, commands,
                 reqFile, resp, historyVars>>

\* A client that goes away while its request waits for the mutex.
Cancel(a) ==
  /\ reqPc[a] = "waiting"
  /\ reqPc' = [reqPc EXCEPT ![a] = "done"]
  /\ Forget(a)
  /\ UNCHANGED <<status, lastUpdate, cacheVars, collectorVars, commands,
                 reqFile, resp, historyVars>>

\* What a status request does once it has the mutex.
Serve(r) == \/ PassThrough(r) \/ SplitCache(r) \/ SplitError(r)
            \/ TruncateCache(r) \/ CopyRow(r) \/ CopyError(r) \/ AnswerStatus(r)

-----------------------------------------------------------------------------
\* The process is killed and started again: files stay as they are, everything
\* in memory goes.
Crash ==
  /\ "crash" \in Faults
  /\ lastUpdate' = [f \in Files |-> 0]
  /\ holder' = Free /\ waiters' = <<>>
  /\ pc' = "pause" /\ pauseLeft' = 0
  /\ commands' = 0
  /\ reqPc' = [a \in Clients |-> IF reqPc[a] = "idle" THEN "idle" ELSE "done"]
  /\ bootTs' = [f \in Files |-> status[f].ts]
  /\ UNCHANGED <<status, cacheVars, cur, sample, line, reqFile, resp, answered>>

Next ==
  \/ \E f \in Files : OpenVPNWrite(f)
  \/ CollectorNext
  \/ UpdateStatus
  \/ \E r \in Requests : (\E f \in Files : GetStatus(r, f)) \/ Serve(r)
  \/ \E u \in Uploads : StartUpload(u) \/ EndUpload(u)
  \/ \E a \in Clients : Cancel(a)
  \/ Crash

Spec == Init /\ [][Next]_vars

\* The collector is a thread of its own and a request, once it runs, does not
\* stop before its answer.  Nothing makes OpenVPN write, a client ask, send
\* its body or go away, or a failure happen.
Fairness == /\ WF_vars(CollectorNext)
            /\ \A r \in Requests : WF_vars(Serve(r))

FairSpec == Spec /\ Fairness

-----------------------------------------------------------------------------
(* The inductive invariant. *)

\* Only the holder of the mutex samples or rewrites a cache.
Exclusion ==
  /\ pc \in {"item", "rows"} => holder = Collector
  /\ \A r \in Requests : reqPc[r] \in {"split", "copy"} => holder = r

\* The size check before a sampling bounds the cache to one snapshot more than
\* its maximum, requests, failed samplings and restarts notwithstanding.
CacheBound == \A f \in Files : Len(cache[f]) <= CacheMaxSize + MaxRows

RowsBound == pc = "rows" => Len(cache[cur]) <= CacheMaxSize + line - 1

\* After the split, the cache is what the request has taken followed by its
\* companion, up to the rows a failed flush has dropped.
SplitOK(r) ==
  LET f == reqFile[r]
  IN  reqPc[r] = "split" =>
        /\ resp[r] = SubSeq(cache[f], 1, Taken(f))
        /\ \E n \in 0 .. Len(Rest(f)) :
             /\ n = Len(Rest(f)) \/ "flush" \in Faults
             /\ cacheTmp[f] = SubSeq(Rest(f), 1, n)

\* During the copy, the cache is the part of the companion copied so far; the
\* request has taken as many rows as it may, or all.
CopyOK(r) ==
  LET f == reqFile[r]
  IN  reqPc[r] = "copy" =>
        /\ Len(cacheTmp[f]) <= CacheMaxSize + MaxRows
        /\ Len(cache[f]) <= Len(cacheTmp[f])
        /\ cache[f] = SubSeq(cacheTmp[f], 1, Len(cache[f]))
        /\ Len(resp[r]) <= RequestMaxLines
        /\ Len(resp[r]) < RequestMaxLines => cacheTmp[f] = <<>>

Inv == /\ TypeOK
       /\ Exclusion
       /\ CacheBound
       /\ RowsBound
       /\ \A r \in Requests : SplitOK(r) /\ CopyOK(r)

\* Whether actor a is between asking for the mutex and being done with it.
Wants(a) == IF a = Collector
            THEN pc \in {"lock", "item", "rows"}
            ELSE reqPc[a] \in {"waiting", "split", "copy"}

\* Whether actor a holds the mutex or is in its queue.
Awaits(a) == holder = a \/ \E i \in 1 .. Len(waiters) : waiters[i] = a

\* Nobody waits for a free mutex, and nobody waits twice.
QueueOK ==
  /\ holder = Free => waiters = <<>>
  /\ \A i \in 1 .. Len(waiters) : waiters[i] # holder
  /\ \A i, j \in 1 .. Len(waiters) : waiters[i] = waiters[j] => i = j

\* The mutex is lost to nobody: whoever wants it holds it or has its one place
\* in the queue, and nobody else does -- not the thread that has panicked, nor
\* the request that has failed, has answered or was given up while it waited,
\* even at the moment it was handed the mutex.
MutexQueue == QueueOK /\ \A a \in Actors : Wants(a) <=> Awaits(a)

-----------------------------------------------------------------------------
(* The abstract queue. *)

\* While a request rewrites the cache, the rows not handed out are the ones it
\* has taken and the ones it is copying back.
Copying(f) == holder \in Requests /\ reqPc[holder] = "copy" /\ reqFile[holder] = f
Pending == [f \in Files |-> IF Copying(f) THEN resp[holder] \o cacheTmp[f] ELSE cache[f]]

Queue == INSTANCE StatusQueue
           WITH pending <- Pending, MaxLines <- RequestMaxLines, Lossy <- Faults # {}

\* The cache files are the queue: whatever the interleaving of the collector
\* (collect_status_data) with the status requests (head_remove), each row it
\* appends is answered to one client, once and in order, at most
\* RequestMaxLines a request.  With failures rows may be lost, and nothing else.
QueueSpec == Queue!Spec

-----------------------------------------------------------------------------
(* Properties. *)

Earlier(a, b) == a.ts < b.ts \/ (a.ts = b.ts /\ a.n < b.n)

\* No snapshot is collected twice, nor out of order: the rows handed out and
\* the rows still cached, together, are in the order OpenVPN wrote them, each
\* one once, across restarts of the agent and failures of its files other than
\* one in the middle of a sampling (see CollectedOnce).
Collected(f) == answered[f] \o Pending[f]
RowsInOrder ==
  \A f \in Files : \A i, j \in 1 .. Len(Collected(f)) :
    i < j => Earlier(Collected(f)[i], Collected(f)[j])

\* Rows come only from snapshots written since the agent started: "Skip the
\* first sampling cycle" keeps out the file of a server that does not run.
OnlyFreshRows ==
  [][\A f \in Files :
       Len(Pending'[f]) = Len(Pending[f]) + 1 => Pending'[f][Len(Pending'[f])].ts > bootTs[f]]_vars

\* The collector catches up with a status file: when OpenVPN leaves it well
\* formed for good, the cache does not stay full and no upload keeps the mutex
\* for ever, the collector ends up with the file's last "Updated" time.
WellFormed(f) == /\ status[f].head = "ok"
                 /\ \A i \in 1 .. Len(status[f].rows) : status[f].rows[i] \in {"client", "badDate"}
UploadsEnd == \A u \in Uploads : []<>(holder # u)
CatchesUp ==
  UploadsEnd =>
    \A f \in Files :
      (<>[]WellFormed(f) /\ []<>~CacheTooBig(f) /\ []<>(pc # "dead"))
        => <>[](lastUpdate[f] = status[f].ts)

\* A status request that waits for the mutex is answered or given up, as long
\* as no upload keeps the mutex for ever: the collector's panic, the requests
\* given up while they wait and the ones that fail all pass the mutex on.
RequestsServed ==
  UploadsEnd => \A r \in Requests : reqPc[r] = "waiting" ~> reqPc[r] = "done"

\* An update command that has been accepted is taken from the channel, and the
\* pause it meets ends with it, however many requests and failures the collector
\* goes through first: it neither waits for a mutex nobody passes on nor pauses
\* without looking at the channel.  A thread that dies drops the channel.
UpdatesTaken == UploadsEnd => (commands > 0 ~> commands = 0)

-----------------------------------------------------------------------------
(* What the documents and comments say and the code does not do. *)

\* collect_status_data compares the "Updated" time with the previous one "in
\* order to see if we have new data into it": a snapshot is appended once.
CollectedOnce ==
  \A f \in Files : \A i, j \in 1 .. Len(Collected(f)) :
    i < j => Collected(f)[i] # Collected(f)[j]
=============================================================================

------------------------ MODULE OpenVPNStatus_order ------------------------
(***************************************************************************)
(* The order of the rows of OpenVPNStatus: which snapshots they come from, *)
(* and that no snapshot is collected twice or after a later one.           *)
(***************************************************************************)
EXTENDS OpenVPNStatus_refinement

-----------------------------------------------------------------------------
(* Which snapshots rows come from. *)

\* What the collector has of a file is not newer than the file, and not older
\* than the start; what it is sampling is newer than what it had.
Times ==
  /\ \A f \in Files : /\ lastUpdate[f] <= status[f].ts /\ bootTs[f] <= status[f].ts
                      /\ lastUpdate[f] # 0 => bootTs[f] <= lastUpdate[f]
  /\ pc = "rows" => /\ lastUpdate[cur] # 0 /\ lastUpdate[cur] < sample.ts
                    /\ sample.ts <= status[cur].ts

\* The steps that have nothing to do with what is sampled.
LEMMA Elsewhere ==
  ASSUME [Next]_vars
  PROVE  \/ CollectorNext \/ Crash \/ \E f \in Files : OpenVPNWrite(f)
         \/ UNCHANGED <<status, lastUpdate, collectorVars, bootTs>>
BY DEF Next, UpdateStatus, GetStatus, Serve, PassThrough, SplitCache, SplitError, TruncateCache,
       CopyRow, CopyError, AnswerStatus, StartUpload, EndUpload, Cancel, vars, historyVars

LEMMA TypesOfTimes ==
  ASSUME TypeOK
  PROVE  /\ cur \in Files /\ line \in Nat /\ sample.ts \in Nat
         /\ \A f \in Files : /\ status[f].ts \in Nat \ {0} /\ lastUpdate[f] \in Nat
                             /\ bootTs[f] \in Nat
<1>1. cur \in Files /\ line \in Nat
  BY BoundsAssumption DEF TypeOK
<1>2. lastUpdate \in [Files -> 0 .. MaxTs] /\ bootTs \in [Files -> 1 .. MaxTs] /\ MaxTs \in Nat
  BY BoundsAssumption DEF TypeOK
<1>3. \A f \in Files : lastUpdate[f] \in Nat /\ bootTs[f] \in Nat
  BY <1>2
<1>4. sample.ts \in Nat /\ \A f \in Files : status[f].ts \in Nat \ {0}
  BY <1>2, ContentFacts
<1> QED
  BY <1>1, <1>3, <1>4

\* The ways the collector goes on.
LEMMA CollectorSteps ==
  ASSUME TypeOK, CollectorNext
  PROVE  /\ UNCHANGED <<status, bootTs>>
         /\ \/ UNCHANGED lastUpdate /\ pc # "rows" /\ pc' # "rows"
            \/ /\ pc = "item" /\ pc' # "rows"
               /\ \/ lastUpdate' = [lastUpdate EXCEPT ![cur] = 0]
                  \/ lastUpdate' = [lastUpdate EXCEPT ![cur] = status[cur].ts]
            \/ /\ pc = "item" /\ pc' = "rows" /\ UNCHANGED <<lastUpdate, cur>>
               /\ NewData(cur, status[cur].ts) /\ sample' = status[cur] /\ line' = 1
            \/ /\ pc = "rows" /\ pc' = "rows" /\ UNCHANGED <<lastUpdate, cur, sample>>
               /\ line' = line + 1
            \/ RowError /\ pc = "rows" /\ pc' # "rows" /\ UNCHANGED lastUpdate
            \/ pc = "rows" /\ pc' = "dead" /\ UNCHANGED lastUpdate
            \/ /\ pc = "rows" /\ pc' # "rows"
               /\ lastUpdate' = [lastUpdate EXCEPT ![cur] = sample.ts]
<1> USE DEF historyVars
<1>1. CASE Tick \/ PauseOver \/ StartSampling
  BY <1>1 DEF Tick, PauseOver, StartSampling
<1>2. CASE SkipItem
  BY <1>2 DEF SkipItem, NextItem
<1>3. CASE SampleItem
  BY <1>3 DEF SampleItem, NextItem, Panic
<1>4. CASE AppendRow \/ SkipBadDate
  BY <1>4 DEF AppendRow, SkipBadDate
<1>5. CASE RowError
  BY <1>5 DEF RowError, NextItem
<1>6. CASE RowPanic
  BY <1>6 DEF RowPanic, Panic
<1>7. CASE ItemDone
  BY <1>7 DEF ItemDone, NextItem
<1> QED
  BY <1>1, <1>2, <1>3, <1>4, <1>5, <1>6, <1>7 DEF CollectorNext

LEMMA NextTimes == TypeOK /\ Times /\ [Next]_vars => Times'
<1> SUFFICES ASSUME TypeOK, Times, [Next]_vars PROVE Times'
  OBVIOUS
<1>1. CASE CollectorNext
  <2>1. lastUpdate \in [Files -> 0 .. MaxTs] /\ UNCHANGED <<status, bootTs>>
    BY <1>1, CollectorSteps DEF TypeOK
  <2>2. CASE pc = "item" /\ pc' = "rows" /\ UNCHANGED <<lastUpdate, cur>>
             /\ NewData(cur, status[cur].ts) /\ sample' = status[cur]
    BY <2>1, <2>2, TypesOfTimes DEF Times, NewData
  <2>3. CASE pc = "rows" /\ pc' = "rows" /\ UNCHANGED <<lastUpdate, cur, sample>>
    BY <2>1, <2>3 DEF Times
  <2>4. CASE pc' # "rows" /\ UNCHANGED lastUpdate
    BY <2>1, <2>4 DEF Times
  <2>5. CASE /\ pc' # "rows"
             /\ \/ lastUpdate' = [lastUpdate EXCEPT ![cur] = 0]
                \/ lastUpdate' = [lastUpdate EXCEPT ![cur] = status[cur].ts]
    BY <2>1, <2>5, TypesOfTimes DEF Times
  <2>6. CASE pc = "rows" /\ pc' # "rows" /\ lastUpdate' = [lastUpdate EXCEPT ![cur] = sample.ts]
    <3>1. bootTs[cur] <= sample.ts /\ sample.ts <= status[cur].ts
      BY <2>6, TypesOfTimes DEF Times
    <3> QED
      BY <2>1, <2>6, <3>1, TypesOfTimes DEF Times
  <2> QED
    BY <1>1, <2>2, <2>3, <2>4, <2>5, <2>6, CollectorSteps
<1>2. CASE Crash
  BY <1>2, TypesOfTimes DEF Crash, Times
<1>3. CASE \E f \in Files : OpenVPNWrite(f)
  <2>1. PICK f \in Files : OpenVPNWrite(f)
    BY <1>3
  <2>2. /\ UNCHANGED <<lastUpdate, bootTs, pc, cur, sample>>
        /\ status'[f].ts \in {status[f].ts, status[f].ts + 1}
        /\ \A g \in Files \ {f} : status'[g] = status[g]
    BY <2>1 DEF OpenVPNWrite, TypeOK, collectorVars, historyVars
  <2>3. \A g \in Files : status'[g].ts \in Nat /\ status[g].ts <= status'[g].ts
    BY <2>2, TypesOfTimes
  <2> QED
    BY <2>2, <2>3, TypesOfTimes DEF Times
<1>4. CASE UNCHANGED <<status, lastUpdate, collectorVars, bootTs>>
  BY <1>4 DEF Times, collectorVars
<1> QED
  BY <1>1, <1>2, <1>3, <1>4, Elsewhere

LEMMA TimesAlways == Spec => []Times
<1>1. Init => Times
  BY FilesAssumption, BoundsAssumption DEF Init, Times, Files
<1>2. Inv => TypeOK
  BY DEF Inv
<1> QED
  BY <1>1, <1>2, NextTimes, Invariant, PTL DEF Spec

-----------------------------------------------------------------------------
(* Fresh rows. *)

\* What is pending is a sequence of rows.
LEMMA PendingType ==
  ASSUME Inv
  PROVE  Pending \in [Files -> Seq(Row)]
<1>1. CASE NoneCopies
  BY <1>1, PendingAtRest DEF Inv, TypeOK
<1>2. ASSUME NEW r \in Requests, reqPc[r] = "copy" PROVE Pending \in [Files -> Seq(Row)]
  <2>1. resp[r] \o cacheTmp[reqFile[r]] \in Seq(Row)
    BY ConcatProperties DEF Inv, TypeOK
  <2> QED
    BY <1>2, <2>1, PendingCopied DEF Inv, TypeOK
<1> QED
  BY <1>1, <1>2 DEF NoneCopies

\* Answers and losses leave a part of what is pending, which is not longer.
LEMMA NotLonger ==
  ASSUME NEW s \in Seq(Row), NEW i \in 1 .. Len(s) + 1, NEW j \in 0 .. Len(s)
  PROVE  Len(SubSeq(s, i, j)) # Len(s) + 1
<1>1. Len(s) \in Nat
  BY LenProperties
<1>2. \A k \in i .. j : s[k] \in Row
  BY <1>1, ElementOfSeq
<1>3. Len(SubSeq(s, i, j)) = IF i <= j THEN j - i + 1 ELSE 0
  BY <1>1, <1>2, SubSeqProperties
<1> QED
  BY <1>1, <1>3

\* "Skip the first sampling cycle": a row that is collected is of a snapshot
\* written after the start, whatever has been left in the status files and
\* whatever fails.
THEOREM RowsAreFresh == Spec => OnlyFreshRows
<1>1. ASSUME Inv, Inv', Times, [Next]_vars, NEW f \in Files,
             Len(Pending'[f]) = Len(Pending[f]) + 1
      PROVE  Pending'[f][Len(Pending'[f])].ts > bootTs[f]
  <2>1. Pending \in [Files -> Seq(Row)] /\ Pending[f] \in Seq(Row) /\ Len(Pending[f]) \in Nat
    BY <1>1, PendingType, LenProperties
  <2>2. CASE AppendRow
    <3>1. Pending'[f] = IF f = cur THEN Append(Pending[f], [ts |-> sample.ts, n |-> line]) ELSE Pending[f]
      BY <1>1, <2>1, <2>2, RowAppended
    <3>2. f = cur
      BY <1>1, <2>1, <3>1
    <3>3. Pending'[f][Len(Pending'[f])] = [ts |-> sample.ts, n |-> line]
      BY <1>1, <2>1, <2>2, <3>1, <3>2, RowAppended, AppendProperties
    <3>4. sample.ts > bootTs[f]
      BY <1>1, <2>2, <3>2, RowAppended, TypesOfTimes DEF Times, Inv
    <3> QED
      BY <3>3, <3>4
  <2>3. ASSUME NEW g \in Files, Queue!Answer(g) \/ Queue!Lose(g) PROVE FALSE
    <3>1. g = f
      BY <1>1, <2>1, <2>3 DEF Queue!Answer, Queue!Lose
    <3>2. CASE Queue!Answer(g)
      <4>1. Queue!Oldest(f) \in 0 .. Len(Pending[f])
        BY <2>1, BoundsAssumption DEF Queue!Oldest
      <4>2. Queue!Oldest(f) + 1 \in 1 .. Len(Pending[f]) + 1 /\ Len(Pending[f]) \in 0 .. Len(Pending[f])
        BY <2>1, <4>1
      <4>3. Pending'[f] = SubSeq(Pending[f], Queue!Oldest(f) + 1, Len(Pending[f]))
        BY <2>1, <3>1, <3>2 DEF Queue!Answer
      <4> QED
        BY <1>1, <2>1, <4>2, <4>3, NotLonger
    <3>3. CASE Queue!Lose(g)
      <4>1. PICK i \in 1 .. Len(Pending[f]) + 1, j \in 0 .. Len(Pending[f]) :
              Pending' = [Pending EXCEPT ![f] = SubSeq(Pending[f], i, j)]
        BY <3>1, <3>3 DEF Queue!Lose
      <4>2. Pending'[f] = SubSeq(Pending[f], i, j)
        BY <2>1, <4>1
      <4> QED
        BY <1>1, <2>1, <4>2, NotLonger
    <3> QED
      BY <2>3, <3>2, <3>3
  <2>4. CASE UNCHANGED <<Pending, answered>>
    BY <1>1, <2>1, <2>4
  <2> QED
    BY <1>1, <2>2, <2>3, <2>4, NextRows
<1>2. ASSUME Inv, Inv', Times, [Next]_vars
      PROVE  [\A f \in Files : Len(Pending'[f]) = Len(Pending[f]) + 1 =>
                Pending'[f][Len(Pending'[f])].ts > bootTs[f]]_vars
  BY <1>1, <1>2
<1> QED
  BY <1>2, Invariant, TimesAlways, PTL DEF Spec, OnlyFreshRows

-----------------------------------------------------------------------------
(* The order of the rows. *)

\* No sampling fails midway: RowError does not happen.
Readable(c) == \A i \in 1 .. Len(c.rows) : c.rows[i] # "garbled"
WholeSamplings == "append" \notin Faults /\ \A c \in Contents : Readable(c)
AllReadable == Readable(sample) /\ \A f \in Files : Readable(status[f])

LEMMA NextReadable == WholeSamplings /\ TypeOK /\ AllReadable /\ [Next]_vars => AllReadable'
<1> SUFFICES ASSUME WholeSamplings, TypeOK, AllReadable, [Next]_vars PROVE AllReadable'
  OBVIOUS
<1>1. \/ sample' \in {sample, status[cur]} /\ UNCHANGED status
      \/ UNCHANGED sample /\ \E f \in Files : OpenVPNWrite(f)
  <2>1. CASE CollectorNext
    BY <2>1 DEF CollectorNext, Tick, PauseOver, StartSampling, SkipItem, SampleItem,
                AppendRow, SkipBadDate, RowError, RowPanic, ItemDone
  <2>2. CASE Crash \/ \E f \in Files : OpenVPNWrite(f)
    BY <2>2 DEF Crash, OpenVPNWrite, collectorVars
  <2>3. CASE UNCHANGED <<status, lastUpdate, collectorVars, bootTs>>
    BY <2>3 DEF collectorVars
  <2> QED
    BY <2>1, <2>2, <2>3, Elsewhere
<1>2. CASE sample' \in {sample, status[cur]} /\ UNCHANGED status
  BY <1>2 DEF AllReadable, TypeOK
<1>3. ASSUME NEW f \in Files, OpenVPNWrite(f), UNCHANGED sample PROVE AllReadable'
  <2>1. PICK c \in Contents : status'[f].rows = c.rows /\ \A g \in Files \ {f} : status'[g] = status[g]
    BY <1>3 DEF OpenVPNWrite, TypeOK
  <2>2. \A i \in 1 .. Len(status'[f].rows) : status'[f].rows[i] # "garbled"
    BY <2>1 DEF WholeSamplings, Readable
  <2> QED
    BY <1>3, <2>1, <2>2 DEF AllReadable, Readable
<1> QED
  BY <1>1, <1>2, <1>3

LEMMA NoRowError ==
  ASSUME WholeSamplings, TypeOK, AllReadable
  PROVE  ~RowError
<1>1. line <= Len(sample.rows) => line \in 1 .. Len(sample.rows)
  BY ContentFacts DEF TypeOK
<1> QED
  BY <1>1 DEF WholeSamplings, AllReadable, Readable, RowError

\* A row of file f is of a snapshot that has been written; as long as the
\* collector has a time for the file, it is not newer than that, and when it
\* samples the file it is earlier than the row it is on.
Before(f, row) ==
  /\ row.ts <= status[f].ts
  /\ lastUpdate[f] # 0 /\ pc # "dead" =>
       IF pc = "rows" /\ cur = f THEN Earlier(row, [ts |-> sample.ts, n |-> line])
                                 ELSE row.ts <= lastUpdate[f]

LEMMA StillBefore ==
  ASSUME TypeOK, Times, Times', [Next]_vars, ~RowError, NEW f \in Files, NEW row \in Row, Before(f, row)
  PROVE  Before(f, row)'
<1> DEFINE here == [ts |-> sample.ts, n |-> line]
<1>1. row.ts \in Nat /\ row.n \in Nat
  BY BoundsAssumption DEF Row
<1>2. CASE CollectorNext
  <2>1. lastUpdate \in [Files -> 0 .. MaxTs] /\ UNCHANGED <<status, bootTs>>
    BY <1>2, CollectorSteps DEF TypeOK
  <2>2. CASE UNCHANGED lastUpdate /\ pc # "rows" /\ pc' # "rows"
    <3>1. pc = "dead" => pc' = "dead"
      BY <1>2 DEF CollectorNext, Tick, PauseOver, StartSampling, SkipItem, SampleItem,
                  AppendRow, SkipBadDate, RowError, RowPanic, ItemDone
    <3> QED
      BY <2>1, <2>2, <3>1 DEF Before
  <2>3. CASE /\ pc = "item" /\ pc' # "rows"
             /\ \/ lastUpdate' = [lastUpdate EXCEPT ![cur] = 0]
                \/ lastUpdate' = [lastUpdate EXCEPT ![cur] = status[cur].ts]
    BY <2>1, <2>3 DEF Before
  <2>4. CASE /\ pc = "item" /\ pc' = "rows" /\ UNCHANGED <<lastUpdate, cur>>
             /\ NewData(cur, status[cur].ts) /\ sample' = status[cur] /\ line' = 1
    <3>1. lastUpdate[cur] < status[cur].ts
      BY <2>4, TypesOfTimes DEF Times, NewData
    <3>2. cur = f => row.ts < sample'.ts
      BY <1>1, <2>4, <3>1, TypesOfTimes DEF Before, NewData
    <3> QED
      BY <2>1, <2>4, <3>2 DEF Before, Earlier
  <2>5. CASE pc = "rows" /\ pc' = "rows" /\ UNCHANGED <<lastUpdate, cur, sample>> /\ line' = line + 1
    BY <1>1, <2>1, <2>5, TypesOfTimes DEF Before, Earlier
  <2>6. CASE pc' = "dead" /\ UNCHANGED lastUpdate
    BY <2>1, <2>6 DEF Before
  <2>7. CASE pc = "rows" /\ pc' # "rows" /\ lastUpdate' = [lastUpdate EXCEPT ![cur] = sample.ts]
    <3>1. cur = f => row.ts <= sample.ts
      BY <1>1, <2>7, TypesOfTimes DEF Before, Earlier, Times
    <3> QED
      BY <2>1, <2>7, <3>1 DEF Before
  <2> QED
    BY <1>2, <2>2, <2>3, <2>4, <2>5, <2>6, <2>7, CollectorSteps
<1>3. CASE Crash
  BY <1>3 DEF Crash, Before
<1>4. CASE \E g \in Files : OpenVPNWrite(g)
  <2>1. PICK g \in Files : OpenVPNWrite(g)
    BY <1>4
  <2>2. /\ UNCHANGED <<lastUpdate, pc, cur, sample, line>>
        /\ status'[g].ts \in {status[g].ts, status[g].ts + 1}
        /\ g # f => status'[f] = status[f]
    BY <2>1 DEF OpenVPNWrite, TypeOK, collectorVars
  <2>3. status'[f].ts \in Nat /\ status[f].ts <= status'[f].ts
    BY <2>2, TypesOfTimes
  <2> QED
    BY <1>1, <2>2, <2>3, TypesOfTimes DEF Before
<1>5. CASE UNCHANGED <<status, lastUpdate, collectorVars, bootTs>>
  BY <1>5 DEF Before, collectorVars
<1> QED
  BY <1>2, <1>3, <1>4, <1>5, Elsewhere

\* What is collected is in order, and what comes next is later than all of it.
Ordered ==
  /\ RowsInOrder
  /\ \A f \in Files : \A i \in 1 .. Len(Collected(f)) : Before(f, Collected(f)[i])

\* When rows are dropped, the ones left keep their order.
LEMMA PlacesKept ==
  ASSUME NEW S, NEW a \in Seq(S), NEW p \in Seq(S),
         NEW i \in 1 .. Len(p) + 1, NEW j \in 0 .. Len(p)
  PROVE  LET new == a \o SubSeq(p, i, j)
             old == a \o p
         IN  \E g \in [1 .. Len(new) -> 1 .. Len(old)] :
               /\ \A m \in 1 .. Len(new) : new[m] = old[g[m]]
               /\ \A m, n \in 1 .. Len(new) : m < n => g[m] < g[n]
<1> DEFINE q == SubSeq(p, i, j)
           new == a \o q
           old == a \o p
           g == [m \in 1 .. Len(new) |-> IF m <= Len(a) THEN m ELSE m + i - 1]
<1>1. Len(a) \in Nat /\ Len(p) \in Nat
  BY LenProperties
<1>2. /\ q \in Seq(S) /\ Len(q) = IF i <= j THEN j - i + 1 ELSE 0
      /\ \A m \in 1 .. j - i + 1 : q[m] = p[i + m - 1]
  <2>1. \A m \in i .. j : p[m] \in S
    BY <1>1, ElementOfSeq
  <2> QED
    BY <1>1, <2>1, SubSeqProperties
<1> HIDE DEF q
<1>3. /\ Len(new) = Len(a) + Len(q) /\ Len(old) = Len(a) + Len(p)
      /\ \A m \in 1 .. Len(a) + Len(q) : new[m] = IF m <= Len(a) THEN a[m] ELSE q[m - Len(a)]
      /\ \A m \in 1 .. Len(a) + Len(p) : old[m] = IF m <= Len(a) THEN a[m] ELSE p[m - Len(a)]
  BY <1>1, <1>2, ConcatProperties
<1> HIDE DEF new, old
<1>4. ASSUME NEW m \in 1 .. Len(new), m > Len(a)
      PROVE  m + i - 1 \in 1 .. Len(old) /\ new[m] = old[m + i - 1]
  <2>1. i <= j /\ Len(q) = j - i + 1
    BY <1>1, <1>2, <1>3, <1>4
  <2>2. m - Len(a) \in 1 .. j - i + 1 /\ m + i - 1 \in 1 .. Len(a) + Len(p) /\ m + i - 1 > Len(a)
    BY <1>1, <1>3, <1>4, <2>1
  <2>3. new[m] = p[i + (m - Len(a)) - 1]
    <3>1. m \in 1 .. Len(a) + Len(q) /\ ~(m <= Len(a))
      BY <1>1, <1>3, <1>4, <2>1
    <3>2. new[m] = q[m - Len(a)]
      BY <1>3, <3>1
    <3>3. q[m - Len(a)] = p[i + (m - Len(a)) - 1]
      BY <1>2, <2>2
    <3> QED
      BY <3>2, <3>3
  <2>4. old[m + i - 1] = p[(m + i - 1) - Len(a)]
    BY <1>1, <1>3, <2>2
  <2>5. i + (m - Len(a)) - 1 = (m + i - 1) - Len(a)
    BY <1>1, <1>3
  <2> QED
    BY <1>3, <2>2, <2>3, <2>4, <2>5
<1>5. ASSUME NEW m \in 1 .. Len(new), m <= Len(a)
      PROVE  m \in 1 .. Len(old) /\ new[m] = old[m]
  <2>1. m \in 1 .. Len(a) + Len(q) /\ m \in 1 .. Len(a) + Len(p)
    BY <1>1, <1>3, <1>5
  <2> QED
    BY <1>3, <1>5, <2>1
<1>6. g \in [1 .. Len(new) -> 1 .. Len(old)] /\ \A m \in 1 .. Len(new) : new[m] = old[g[m]]
  <2>1. \A m \in 1 .. Len(new) : g[m] \in 1 .. Len(old) /\ new[m] = old[g[m]]
    <3>1. ASSUME NEW m \in 1 .. Len(new) PROVE g[m] \in 1 .. Len(old) /\ new[m] = old[g[m]]
      <4>1. CASE m <= Len(a)
        BY <1>5, <4>1
      <4>2. CASE m > Len(a)
        <5>1. g[m] = m + i - 1
          BY <1>1, <4>2
        <5> QED
          BY <1>4, <4>2, <5>1
      <4> QED
        BY <1>1, <1>3, <4>1, <4>2
    <3> QED
      BY <3>1
  <2>2. g = [m \in 1 .. Len(new) |-> g[m]]
    OBVIOUS
  <2> HIDE DEF g
  <2> QED
    BY <2>1, <2>2
<1>7. \A m, n \in 1 .. Len(new) : m < n => g[m] < g[n]
  BY <1>1, <1>3
<1> HIDE DEF g
<1>8. \E h \in [1 .. Len(new) -> 1 .. Len(old)] :
        /\ \A m \in 1 .. Len(new) : new[m] = old[h[m]]
        /\ \A m, n \in 1 .. Len(new) : m < n => h[m] < h[n]
  BY <1>6, <1>7
<1> QED
  BY <1>8 DEF new, old, q

\* Handing rows out moves them from the head of what is pending.
LEMMA HandedOut ==
  ASSUME Inv, NEW f \in Files, Queue!Answer(f)
  PROVE  \A g \in Files : Collected(g)' = Collected(g)
<1> DEFINE k == Queue!Oldest(f)
           p == Pending[f]
<1>1. Pending \in [Files -> Seq(Row)] /\ answered \in [Files -> Seq(Row)]
  BY PendingType DEF Inv, TypeOK
<1>2. p \in Seq(Row) /\ answered[f] \in Seq(Row) /\ Len(p) \in Nat
  BY <1>1, LenProperties
<1>3. k \in 0 .. Len(p)
  BY <1>2, BoundsAssumption DEF Queue!Oldest
<1>4. /\ answered' = [answered EXCEPT ![f] = answered[f] \o SubSeq(p, 1, k)]
      /\ Pending' = [Pending EXCEPT ![f] = SubSeq(p, k + 1, Len(p))]
  BY <1>1 DEF Queue!Answer
<1> HIDE DEF k, p
<1>5. SubSeq(p, 1, k) \in Seq(Row) /\ SubSeq(p, k + 1, Len(p)) \in Seq(Row)
  <2>1. \A m \in 1 .. Len(p) : p[m] \in Row
    BY <1>2, ElementOfSeq
  <2>2. \A m \in 1 .. k : p[m] \in Row
    BY <1>2, <1>3, <2>1
  <2>3. \A m \in k + 1 .. Len(p) : p[m] \in Row
    BY <1>2, <1>3, <2>1
  <2> QED
    BY <1>2, <1>3, <2>2, <2>3, SubSeqProperties
<1>6. SubSeq(p, 1, k) \o SubSeq(p, k + 1, Len(p)) = p
  <2>1. 1 \in 1 .. Len(p) + 1 /\ k \in 1 - 1 .. Len(p) /\ Len(p) \in k .. Len(p)
    BY <1>2, <1>3
  <2>2. SubSeq(p, 1, k) \o SubSeq(p, k + 1, Len(p)) = SubSeq(p, 1, Len(p))
    BY <1>2, <2>1, ConcatAdjacentSubSeq
  <2> QED
    BY <1>2, <2>2, SubSeqFull
<1>7. (answered[f] \o SubSeq(p, 1, k)) \o SubSeq(p, k + 1, Len(p)) = answered[f] \o p
  <2>1. \A s, u, v \in Seq(Row) : (s \o u) \o v = s \o (u \o v)
    <3>1. ASSUME NEW s \in Seq(Row), NEW u \in Seq(Row), NEW v \in Seq(Row)
          PROVE  (s \o u) \o v = s \o (u \o v)
      BY ConcatAssociative
    <3> QED
      BY <3>1
  <2>2. (answered[f] \o SubSeq(p, 1, k)) \o SubSeq(p, k + 1, Len(p))
          = answered[f] \o (SubSeq(p, 1, k) \o SubSeq(p, k + 1, Len(p)))
    BY <1>2, <1>5, <2>1, Zenon
  <2> QED
    BY <1>6, <2>2, Zenon
<1>8. ASSUME NEW g \in Files PROVE Collected(g)' = Collected(g)
  <2>1. CASE g = f
    BY <1>1, <1>4, <1>7, <2>1 DEF Collected, p
  <2>2. CASE g # f
    BY <1>1, <1>4, <2>2 DEF Collected
  <2> QED
    BY <2>1, <2>2
<1> QED
  BY <1>8

LEMMA CollectedType ==
  ASSUME Inv
  PROVE  \A f \in Files : Collected(f) \in Seq(Row)
<1>1. ASSUME NEW f \in Files PROVE answered[f] \o Pending[f] \in Seq(Row)
  <2>1. answered[f] \in Seq(Row) /\ Pending[f] \in Seq(Row)
    BY PendingType DEF Inv, TypeOK
  <2> QED
    BY <2>1, ConcatProperties
<1> QED
  BY <1>1 DEF Collected

\* StillBefore, for all rows at once.
LEMMA BeforeNext ==
  ASSUME TypeOK, Times, Times', [Next]_vars, ~RowError, NEW f \in Files
  PROVE  \A x \in Row : Before(f, x) =>
           /\ x.ts <= status'[f].ts
           /\ lastUpdate'[f] # 0 /\ pc' # "dead" =>
                IF pc' = "rows" /\ cur' = f THEN Earlier(x, [ts |-> sample'.ts, n |-> line'])
                                            ELSE x.ts <= lastUpdate'[f]
<1>1. ASSUME NEW x \in Row, Before(f, x) PROVE Before(f, x)'
  BY <1>1, StillBefore
<1> QED
  BY <1>1 DEF Before, Earlier

\* Rows that stay, stay in order and before what comes next.
LEMMA StayOrdered ==
  ASSUME Inv, Times, Times', [Next]_vars, ~RowError, Ordered,
         \A f \in Files :
           \E g \in [1 .. Len(Collected(f)') -> 1 .. Len(Collected(f))] :
             /\ \A m \in 1 .. Len(Collected(f)') : Collected(f)'[m] = Collected(f)[g[m]]
             /\ \A m, n \in 1 .. Len(Collected(f)') : m < n => g[m] < g[n]
  PROVE  Ordered'
<1>1. ASSUME NEW f \in Files, NEW m \in 1 .. Len(Collected(f)') PROVE Before(f, Collected(f)[m])'
  <2>1. PICK n \in 1 .. Len(Collected(f)) : Collected(f)'[m] = Collected(f)[n]
    OBVIOUS
  <2>2. Collected(f)[n] \in Row /\ Before(f, Collected(f)[n])
    BY CollectedType, ElementOfSeq DEF Ordered
  <2> QED
    BY <2>1, <2>2, BeforeNext DEF Before, Earlier, Inv
<1>2. RowsInOrder'
  <2>1. ASSUME NEW f \in Files, NEW m \in 1 .. Len(Collected(f)'), NEW n \in 1 .. Len(Collected(f)'), m < n
        PROVE  Earlier(Collected(f)'[m], Collected(f)'[n])
    <3>1. PICK i \in 1 .. Len(Collected(f)), j \in 1 .. Len(Collected(f)) :
            i < j /\ Collected(f)'[m] = Collected(f)[i] /\ Collected(f)'[n] = Collected(f)[j]
      BY <2>1
    <3> QED
      BY <3>1 DEF Ordered, RowsInOrder
  <2> QED
    BY <2>1 DEF RowsInOrder, Earlier
<1> QED
  BY <1>1, <1>2 DEF Ordered

\* What a row added at the end of the second of two sequences is.
LEMMA AddedLast ==
  ASSUME NEW S, NEW a \in Seq(S), NEW p \in Seq(S), NEW e \in S
  PROVE  /\ Len(a \o Append(p, e)) = Len(a \o p) + 1
         /\ \A m \in 1 .. Len(a \o p) : (a \o Append(p, e))[m] = (a \o p)[m]
         /\ (a \o Append(p, e))[Len(a \o p) + 1] = e
<1>1. Len(a) \in Nat /\ Len(p) \in Nat
  BY LenProperties
<1>2. /\ Append(p, e) \in Seq(S) /\ Len(Append(p, e)) = Len(p) + 1
      /\ \A m \in 1 .. Len(p) : Append(p, e)[m] = p[m]
      /\ Append(p, e)[Len(p) + 1] = e
  BY AppendProperties
<1> DEFINE q == Append(p, e)
<1>3. /\ Len(a \o p) = Len(a) + Len(p)
      /\ \A m \in 1 .. Len(a) + Len(p) : (a \o p)[m] = IF m <= Len(a) THEN a[m] ELSE p[m - Len(a)]
  BY ConcatProperties
<1> HIDE DEF q
<1>4. /\ Len(a \o q) = Len(a) + Len(q)
      /\ \A m \in 1 .. Len(a) + Len(q) : (a \o q)[m] = IF m <= Len(a) THEN a[m] ELSE q[m - Len(a)]
  BY <1>2, ConcatProperties DEF q
<1>5. Len(a \o q) = Len(a \o p) + 1
  BY <1>1, <1>2, <1>3, <1>4 DEF q
<1>6. ASSUME NEW m \in 1 .. Len(a \o p) PROVE (a \o q)[m] = (a \o p)[m]
  <2>1. m \in 1 .. Len(a) + Len(p) /\ m \in 1 .. Len(a) + Len(q)
    BY <1>1, <1>2, <1>3 DEF q
  <2>2. m > Len(a) => m - Len(a) \in 1 .. Len(p)
    BY <1>1, <2>1
  <2>3. \A i \in 1 .. Len(p) : q[i] = p[i]
    BY <1>2 DEF q
  <2> QED
    BY <1>1, <1>3, <1>4, <2>1, <2>2, <2>3
<1>7. (a \o q)[Len(a \o p) + 1] = e
  <2>1. Len(a) + Len(p) + 1 \in 1 .. Len(a) + Len(q) /\ Len(a) + Len(p) + 1 > Len(a)
        /\ (Len(a) + Len(p) + 1) - Len(a) = Len(p) + 1
    BY <1>1, <1>2 DEF q
  <2>2. q[Len(p) + 1] = e
    BY <1>2 DEF q
  <2> QED
    BY <1>3, <1>4, <2>1, <2>2
<1> QED
  BY <1>5, <1>6, <1>7 DEF q

\* The row the collector is on comes after all those of its file.
LEMMA AppendOrdered ==
  ASSUME Inv, Inv', Times, Times', [Next]_vars, ~RowError, Ordered, AppendRow
  PROVE  Ordered'
<1> DEFINE here == [ts |-> sample.ts, n |-> line]
<1>1. /\ cur \in Files /\ pc = "rows" /\ UNCHANGED <<answered, cur, sample, pc, lastUpdate, status>>
      /\ line' = line + 1 /\ here \in Row
      /\ Pending' = [Pending EXCEPT ![cur] = Append(Pending[cur], here)]
      /\ Pending \in [Files -> Seq(Row)] /\ answered \in [Files -> Seq(Row)]
  BY RowAppended DEF AppendRow, Inv, TypeOK
<1>2. /\ lastUpdate[cur] # 0 /\ sample.ts <= status[cur].ts
      /\ sample.ts \in Nat /\ line \in Nat
  BY <1>1, TypesOfTimes DEF Times, Inv
<1>c. PICK c \in Files : c = cur
  BY <1>1
<1>3. \A f \in Files : Collected(f) \in Seq(Row) /\ Len(Collected(f)) \in Nat
  BY CollectedType, LenProperties
<1>4. \A f \in Files \ {c} : Collected(f)' = Collected(f)
  BY <1>1, <1>c DEF Collected
<1>5. /\ Len(Collected(c)') = Len(Collected(c)) + 1
      /\ \A m \in 1 .. Len(Collected(c)) : Collected(c)'[m] = Collected(c)[m]
      /\ Collected(c)'[Len(Collected(c)) + 1] = here
  <2>1. Collected(c)' = answered[c] \o Append(Pending[c], here)
    BY <1>1, <1>c DEF Collected
  <2>2. answered[c] \in Seq(Row) /\ Pending[c] \in Seq(Row)
    BY <1>1
  <2> HIDE DEF here
  <2> QED
    BY <1>1, <2>1, <2>2, AddedLast DEF Collected
<1>6. \A f \in Files : \A m \in 1 .. Len(Collected(f)) : Collected(f)[m] \in Row /\ Before(f, Collected(f)[m])
  BY <1>3, ElementOfSeq DEF Ordered
<1>7. \A m \in 1 .. Len(Collected(c)) : Earlier(Collected(c)[m], here)
  BY <1>1, <1>c, <1>2, <1>6 DEF Before
<1>8. ASSUME NEW f \in Files, NEW m \in 1 .. Len(Collected(f)')
      PROVE  \/ Collected(f)'[m] \in Row /\ Before(f, Collected(f)'[m])
             \/ f = c /\ Collected(f)'[m] = here
  BY <1>3, <1>4, <1>5, <1>6
<1>9. ASSUME NEW f \in Files, NEW m \in 1 .. Len(Collected(f)') PROVE Before(f, Collected(f)[m])'
  <2>1. CASE Collected(f)'[m] \in Row /\ Before(f, Collected(f)'[m])
    BY <2>1, BeforeNext DEF Before, Earlier, Inv
  <2>2. CASE f = c /\ Collected(f)'[m] = here
    BY <1>1, <1>c, <1>2, <2>2 DEF Before, Earlier
  <2> QED
    BY <1>8, <2>1, <2>2
<1>10. ASSUME NEW f \in Files, NEW m \in 1 .. Len(Collected(f)'), NEW n \in 1 .. Len(Collected(f)'), m < n
       PROVE  Earlier(Collected(f)'[m], Collected(f)'[n])
  <2>1. \A i, j \in 1 .. Len(Collected(f)) : i < j => Earlier(Collected(f)[i], Collected(f)[j])
    BY DEF Ordered, RowsInOrder
  <2>2. CASE f # c
    BY <1>4, <1>10, <2>1, <2>2
  <2>3. CASE f = c /\ n \in 1 .. Len(Collected(f))
    BY <1>3, <1>5, <1>10, <2>1, <2>3
  <2>4. CASE f = c /\ n = Len(Collected(f)) + 1
    BY <1>3, <1>5, <1>7, <1>10, <2>4
  <2> QED
    BY <1>3, <1>5, <2>2, <2>3, <2>4
<1> QED
  BY <1>9, <1>10 DEF Ordered, RowsInOrder, Earlier

LEMMA NextOrdered ==
  ASSUME Inv, Inv', Times, Times', [Next]_vars, ~RowError, Ordered
  PROVE  Ordered'
<1> DEFINE Kept(f) == \E g \in [1 .. Len(Collected(f)') -> 1 .. Len(Collected(f))] :
                        /\ \A m \in 1 .. Len(Collected(f)') : Collected(f)'[m] = Collected(f)[g[m]]
                        /\ \A m, n \in 1 .. Len(Collected(f)') : m < n => g[m] < g[n]
<1>1. ASSUME NEW f \in Files, Collected(f)' = Collected(f) PROVE Kept(f)
  <2> DEFINE g == [m \in 1 .. Len(Collected(f)) |-> m]
  <2>1. g \in [1 .. Len(Collected(f)') -> 1 .. Len(Collected(f))]
    BY <1>1
  <2>2. \A m \in 1 .. Len(Collected(f)') : Collected(f)'[m] = Collected(f)[g[m]]
    BY <1>1
  <2>3. \A m, n \in 1 .. Len(Collected(f)') : m < n => g[m] < g[n]
    BY <1>1
  <2> HIDE DEF g
  <2> QED
    BY <2>1, <2>2, <2>3
<1>2. CASE UNCHANGED <<Pending, answered>>
  <2>1. \A f \in Files : Collected(f)' = Collected(f)
    BY <1>2 DEF Collected
  <2>2. \A f \in Files : Kept(f)
    BY <1>1, <2>1
  <2> QED
    BY <2>2, StayOrdered
<1>3. CASE AppendRow
  BY <1>3, AppendOrdered
<1>4. ASSUME NEW e \in Files, Queue!Answer(e) PROVE Ordered'
  <2>1. \A f \in Files : Collected(f)' = Collected(f)
    BY <1>4, HandedOut
  <2>2. \A f \in Files : Kept(f)
    BY <1>1, <2>1
  <2> QED
    BY <2>2, StayOrdered
<1>5. ASSUME NEW e \in Files, Queue!Lose(e) PROVE Ordered'
  <2>1. Pending \in [Files -> Seq(Row)] /\ answered \in [Files -> Seq(Row)]
    BY PendingType DEF Inv, TypeOK
  <2>2. PICK i \in 1 .. Len(Pending[e]) + 1, j \in 0 .. Len(Pending[e]) :
          Pending' = [Pending EXCEPT ![e] = SubSeq(Pending[e], i, j)]
    BY <1>5, <2>1 DEF Queue!Lose
  <2>3. UNCHANGED answered
    BY <1>5 DEF Queue!Lose
  <2>4. ASSUME NEW f \in Files \ {e} PROVE Collected(f)' = Collected(f)
    BY <2>1, <2>2, <2>3 DEF Collected
  <2>5. Collected(e) = answered[e] \o Pending[e] /\ Collected(e)' = answered[e] \o SubSeq(Pending[e], i, j)
    BY <2>1, <2>2, <2>3 DEF Collected
  <2>6. answered[e] \in Seq(Row) /\ Pending[e] \in Seq(Row)
    BY <2>1
  <2>7. Kept(e)
    <3> DEFINE a == answered[e]
               p == Pending[e]
               new == a \o SubSeq(p, i, j)
               old == a \o p
    <3>1. a \in Seq(Row) /\ p \in Seq(Row) /\ i \in 1 .. Len(p) + 1 /\ j \in 0 .. Len(p)
      BY <2>6
    <3>2. Collected(e) = old /\ Collected(e)' = new
      BY <2>5
    <3> HIDE DEF a, p
    <3>3. \E g \in [1 .. Len(new) -> 1 .. Len(old)] :
            /\ \A m \in 1 .. Len(new) : new[m] = old[g[m]]
            /\ \A m, n \in 1 .. Len(new) : m < n => g[m] < g[n]
      BY <3>1, PlacesKept, ZenonT(60)
    <3> HIDE DEF new, old
    <3>4. PICK g \in [1 .. Len(new) -> 1 .. Len(old)] :
            /\ \A m \in 1 .. Len(new) : new[m] = old[g[m]]
            /\ \A m, n \in 1 .. Len(new) : m < n => g[m] < g[n]
      BY <3>3
    <3>5. g \in [1 .. Len(Collected(e)') -> 1 .. Len(Collected(e))]
      BY <3>2
    <3>6. \A m \in 1 .. Len(Collected(e)') : Collected(e)'[m] = Collected(e)[g[m]]
      BY <3>2, <3>4
    <3>7. \A m, n \in 1 .. Len(Collected(e)') : m < n => g[m] < g[n]
      BY <3>2, <3>4
    <3> QED
      BY <3>5, <3>6, <3>7
  <2>8. \A f \in Files : Kept(f)
    <3>1. ASSUME NEW f \in Files \ {e} PROVE Kept(f)
      BY <1>1, <2>4
    <3> HIDE DEF Kept
    <3> QED
      BY <2>7, <3>1
  <2> QED
    BY <2>8, StayOrdered
<1> QED
  BY <1>2, <1>3, <1>4, <1>5, NextRows

\* Rows are handed out in the order OpenVPN wrote them, each one once, across
\* restarts, lost rows and rows that do not parse, for any number of files,
\* requests and uploads: only a sampling that fails midway, whose snapshot is
\* collected again, can break it.
THEOREM RowsKeptInOrder == ASSUME WholeSamplings PROVE Spec => []RowsInOrder
<1>1. Init => AllReadable /\ Ordered
  <2> SUFFICES ASSUME Init PROVE AllReadable /\ Ordered
    OBVIOUS
  <2>1. AllReadable
    <3>1. ASSUME NEW f \in Files PROVE Readable(status[f])
      BY DEF Init, WholeSamplings, Readable
    <3>2. 1 \in Files /\ sample = status[1]
      BY FilesAssumption DEF Init, Files
    <3> QED
      BY <3>1, <3>2 DEF AllReadable, Readable
  <2>2. ASSUME NEW f \in Files PROVE Collected(f) = <<>>
    <3>1. NoneCopies
      BY DEF Init, NoneCopies, Clients
    <3>2. Pending = cache
      BY <3>1, InitType, PendingAtRest
    <3>3. answered[f] = <<>> /\ Pending[f] = <<>>
      BY <3>2 DEF Init
    <3> QED
      BY <3>3, ConcatEmptySeq, EmptySeq DEF Collected
  <2>3. \A f \in Files : 1 .. Len(Collected(f)) = {}
    BY <2>2
  <2> QED
    BY <2>1, <2>3 DEF Ordered, RowsInOrder
<1>2. TypeOK /\ AllReadable /\ [Next]_vars => AllReadable'
  BY NextReadable
<1>3. Inv /\ Inv' /\ Times /\ Times' /\ AllReadable /\ [Next]_vars /\ Ordered => Ordered'
  BY NextOrdered, NoRowError DEF Inv
<1>4. (Inv => TypeOK) /\ (Ordered => RowsInOrder)
  BY DEF Inv, Ordered
<1> QED
  BY <1>1, <1>2, <1>3, <1>4, Invariant, TimesAlways, PTL DEF Spec
=============================================================================

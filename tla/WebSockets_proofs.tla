-------------------------- MODULE WebSockets_proofs --------------------------
(***************************************************************************)
(* Proofs about WebSockets, for any number of workers, WebSockets and      *)
(* requests, whatever they print: its type correctness, the bound of the   *)
(* map of WebSockets, who is told to finish, that every WebSocket is an    *)
(* OutputStream, and that a stream one request uses is closed complete.    *)
(***************************************************************************)
EXTENDS WebSockets, FiniteSetTheorems, FunctionTheorems, SequenceTheorems, TLAPS

\* Every reachable state has its types.
THEOREM TypeCorrect == Spec => []TypeOK
<1>1. Init => TypeOK
  BY LimitsAssumption DEF Init, TypeOK
<1>2. TypeOK /\ [Next]_vars => TypeOK'
  <2> SUFFICES ASSUME TypeOK, [Next]_vars PROVE TypeOK'
    OBVIOUS
  <2> USE DEF TypeOK
  <2>1. ASSUME NEW i \in Sockets, CheckLimit(i) PROVE TypeOK'
    BY <2>1 DEF CheckLimit, RemoveExpired, commandVars, historyVars
  <2>2. ASSUME NEW i \in Sockets, Insert(i) PROVE TypeOK'
    BY <2>2 DEF Insert, commandVars, historyVars, dataVars
  <2>3. ASSUME NEW i \in Sockets, Poll(i) PROVE TypeOK'
    BY <2>3 DEF Poll, commandVars, historyVars
  <2>4. ASSUME NEW i \in Sockets, ClientGone(i) PROVE TypeOK'
    BY <2>4 DEF ClientGone, commandVars, historyVars, dataVars
  <2>5. ASSUME NEW i \in Sockets, Expire(i) PROVE TypeOK'
    BY <2>5 DEF Expire, commandVars, historyVars, dataVars, socketVars, historyVars
  <2>6. ASSUME NEW c \in Commands, Request(c) PROVE TypeOK'
    BY <2>6 DEF Request, dataVars, socketVars, historyVars
  <2>7. ASSUME NEW c \in Commands, GiveUp(c) PROVE TypeOK'
    BY <2>7 DEF GiveUp, Goto, dataVars, socketVars, historyVars
  <2>8. ASSUME NEW c \in Commands, Handle(c) PROVE TypeOK'
    <3>1. CASE Lookup(c)
      BY <3>1 DEF Lookup, StartCommand, Goto, dataVars, socketVars, historyVars
    <3>2. CASE LockScript(c)
      BY <3>2 DEF LockScript, Goto, dataVars, socketVars, historyVars
    <3>3. CASE Uploaded(c)
      BY <3>3 DEF Uploaded, StartCommand, Goto, dataVars, socketVars, historyVars
    <3>4. CASE PrintLine(c)
      <4>1. printed[c] + 1 \in 1 .. MaxLines
        BY <3>4, LimitsAssumption DEF PrintLine
      <4>2. printed' \in [Commands -> 0 .. MaxLines] /\ printed'[c] = printed[c] + 1
        BY <3>4, <4>1 DEF PrintLine
      <4>3. <<c, printed'[c]>> \in Line
        BY <4>1, <4>2 DEF Line
      <4>4. lines' \in [Sockets -> Seq(Line)]
        BY <3>4, <4>3 DEF PrintLine
      <4> QED
        BY <3>4, <4>2, <4>4 DEF PrintLine, socketVars, historyVars
    <3>5. CASE EndOutput(c)
      BY <3>5 DEF EndOutput, Goto, socketVars, historyVars
    <3>6. CASE ReadError(c)
      BY <3>6 DEF ReadError, Goto, dataVars, socketVars, historyVars
    <3>7. CASE Exit(c)
      BY <3>7 DEF Exit, Goto, dataVars, socketVars, historyVars
    <3>8. CASE LoadPolicy(c)
      BY <3>8 DEF LoadPolicy, StartCommand, Goto, dataVars, socketVars, historyVars
    <3>9. CASE RemoveSocket(c)
      BY <3>9 DEF RemoveSocket, Goto, dataVars, historyVars
    <3> QED
      BY <2>8, <3>1, <3>2, <3>3, <3>4, <3>5, <3>6, <3>7, <3>8, <3>9 DEF Handle
  <2>9. CASE UNCHANGED vars
    BY <2>9 DEF vars, socketVars, dataVars, commandVars, historyVars
  <2> QED
    BY <2>1, <2>2, <2>3, <2>4, <2>5, <2>6, <2>7, <2>8, <2>9 DEF Next
<1> QED
  BY <1>1, <1>2, PTL DEF Spec

-----------------------------------------------------------------------------
\* Whatever subset of the WebSockets the map is, it is finite.
LEMMA FiniteMap ==
  ASSUME NEW S \in SUBSET Sockets
  PROVE  IsFiniteSet(S) /\ Cardinality(S) \in Nat
BY FS_Subset, FS_CardinalityType, WorkersAssumption

\* A step that adds nothing to the map, and starts no addition, keeps the
\* bound.
LEMMA BoundKept ==
  ASSUME TypeOK, CheckedBound, TypeOK',
         wsMap' \subseteq wsMap, Checked' \subseteq Checked, wsWorker' = wsWorker
  PROVE  CheckedBound'
<1>1. Cardinality(wsMap') <= Cardinality(wsMap) /\ Cardinality(wsMap') \in Nat
      /\ Cardinality(wsMap) \in Nat
  BY FiniteMap, FS_Subset DEF TypeOK
<1>2. Cardinality(Checked') <= Cardinality(Checked) /\ Cardinality(Checked') \in Nat
      /\ Cardinality(Checked) \in Nat
  <2>1. Checked \in SUBSET Sockets /\ Checked' \in SUBSET Sockets
    BY DEF Checked
  <2> QED
    BY <2>1, FiniteMap, FS_Subset
<1>3. Cardinality(Workers) \in Nat
  BY FS_CardinalityType, WorkersAssumption
<1> QED
  BY <1>1, <1>2, <1>3, LimitsAssumption DEF CheckedBound

\* The check takes the last place at most, and its worker is not checking for
\* another WebSocket.
LEMMA BoundCheckLimit ==
  ASSUME TypeOK, CheckedBound, TypeOK', NEW i \in Sockets, CheckLimit(i)
  PROVE  CheckedBound'
<1>1. wsMap' \subseteq wsMap /\ wsWorker' = wsWorker
  BY DEF CheckLimit, RemoveExpired
<1>2. CASE ~UnderLimit
  <2>1. Checked' \subseteq Checked
    BY <1>2 DEF CheckLimit, Checked, TypeOK
  <2> QED
    BY <1>1, <2>1, BoundKept
<1>3. CASE UnderLimit
  <2>1. Checked' = Checked \cup {i}
    BY <1>3 DEF CheckLimit, Checked, TypeOK
  <2>2. \A j \in Checked : wsWorker[j] # wsWorker[i]
    BY DEF CheckLimit, FreeWorker
  <2>3. \A j, k \in Checked' : wsWorker'[j] = wsWorker'[k] => j = k
    BY <1>1, <2>1, <2>2 DEF CheckedBound
  <2>4. (IsFiniteSet(Checked) /\ Cardinality(Checked) <= Cardinality(Workers))'
    <3> DEFINE f == [j \in Checked' |-> wsWorker'[j]]
    <3>1. f \in Injection(Checked', Workers)
      BY <2>3 DEF Checked, TypeOK, Injection, IsInjective
    <3> QED
      BY <3>1, FS_Injection, WorkersAssumption
  <2>5. Cardinality(wsMap') < MaxConcurrent
    BY <1>3 DEF UnderLimit
  <2>6. Cardinality(wsMap') \in Nat /\ Cardinality(Checked') \in Nat
        /\ Cardinality(Workers) \in Nat
    BY <2>4, FiniteMap, FS_CardinalityType, WorkersAssumption DEF TypeOK
  <2> QED
    BY <2>3, <2>4, <2>5, <2>6, LimitsAssumption DEF CheckedBound
<1> QED
  BY <1>2, <1>3

\* The addition moves a WebSocket from those being added to the map.
LEMMA BoundInsert ==
  ASSUME TypeOK, CheckedBound, TypeOK', NEW i \in Sockets, Insert(i)
  PROVE  CheckedBound'
<1>1. i \in Checked /\ Checked' = Checked \ {i}
  BY DEF Insert, Checked, TypeOK
<1>2. wsMap' = wsMap \cup {i} /\ wsWorker' = wsWorker
  BY DEF Insert
<1>3. IsFiniteSet(Checked) /\ IsFiniteSet(wsMap)
  <2>1. Checked \in SUBSET Sockets
    BY DEF Checked
  <2> QED
    BY <2>1, FiniteMap DEF TypeOK
<1>4. Cardinality(Checked') = Cardinality(Checked) - 1
  BY <1>1, <1>3, FS_RemoveElement
<1>5. Cardinality(wsMap') <= Cardinality(wsMap) + 1
  <2>1. Cardinality(wsMap) \in Nat
    BY <1>3, FS_CardinalityType
  <2>2. Cardinality(wsMap \cup {i}) = IF i \in wsMap THEN Cardinality(wsMap)
                                                   ELSE Cardinality(wsMap) + 1
    BY <1>3, FS_AddElement
  <2> QED
    BY <1>2, <2>1, <2>2
<1>6. Cardinality(Checked) \in Nat /\ Cardinality(wsMap) \in Nat
      /\ Cardinality(Workers) \in Nat /\ Cardinality(wsMap') \in Nat
  BY <1>3, FS_CardinalityType, FiniteMap, WorkersAssumption DEF TypeOK
<1> QED
  BY <1>1, <1>2, <1>4, <1>5, <1>6, LimitsAssumption DEF CheckedBound

\* The WebSockets in the map and the ones about to be added are never more
\* than the limit and the workers but one.
THEOREM CheckedBounded == Spec => []CheckedBound
<1>1. Init => CheckedBound
  <2> SUFFICES ASSUME Init PROVE CheckedBound
    OBVIOUS
  <2>1. Checked = {} /\ wsMap = {}
    BY DEF Init, Checked
  <2>2. Cardinality(Workers) \in Nat
    BY FS_CardinalityType, WorkersAssumption
  <2> QED
    BY <2>1, <2>2, FS_EmptySet, LimitsAssumption DEF CheckedBound
<1>2. TypeOK /\ CheckedBound /\ [Next]_vars /\ TypeOK' => CheckedBound'
  <2> SUFFICES ASSUME TypeOK, CheckedBound, [Next]_vars, TypeOK' PROVE CheckedBound'
    OBVIOUS
  <2>1. ASSUME NEW i \in Sockets, CheckLimit(i) PROVE CheckedBound'
    BY <2>1, BoundCheckLimit
  <2>2. ASSUME NEW i \in Sockets, Insert(i) PROVE CheckedBound'
    BY <2>2, BoundInsert
  <2>3. ASSUME NEW i \in Sockets, Poll(i) \/ ClientGone(i) \/ Expire(i) PROVE CheckedBound'
    <3>1. wsMap' = wsMap /\ wsWorker' = wsWorker /\ Checked' \subseteq Checked
      BY <2>3 DEF Poll, ClientGone, Expire, socketVars, Checked, TypeOK
    <3> QED
      BY <3>1, BoundKept
  <2>4. ASSUME NEW c \in Commands, Request(c) \/ GiveUp(c) \/ Handle(c) PROVE CheckedBound'
    <3>1. wsMap' \subseteq wsMap /\ wsWorker' = wsWorker /\ wsPc' = wsPc
      BY <2>4 DEF Request, GiveUp, Handle, Lookup, LockScript, Uploaded, PrintLine, EndOutput,
                  ReadError, Exit, LoadPolicy, RemoveSocket, socketVars
    <3>2. Checked' \subseteq Checked
      BY <3>1 DEF Checked
    <3> QED
      BY <3>1, <3>2, BoundKept
  <2>5. CASE UNCHANGED vars
    <3>1. wsMap' = wsMap /\ wsWorker' = wsWorker /\ Checked' = Checked
      BY <2>5 DEF vars, socketVars, Checked
    <3> QED
      BY <3>1, BoundKept
  <2> QED
    BY <2>1, <2>2, <2>3, <2>4, <2>5 DEF Next
<1> QED
  BY <1>1, <1>2, TypeCorrect, PTL DEF Spec

\* cfg.ws_map holds at most WS_MAX_CONCURRENT - 1 + workers WebSockets.
THEOREM MapBounded == Spec => []MapBound
<1>1. TypeOK /\ CheckedBound => MapBound
  <2> SUFFICES ASSUME TypeOK, CheckedBound PROVE MapBound
    OBVIOUS
  <2>1. Checked \in SUBSET Sockets /\ wsMap \in SUBSET Sockets
    BY DEF Checked, TypeOK
  <2>2. Cardinality(Checked) \in Nat /\ Cardinality(wsMap) \in Nat
        /\ Cardinality(Workers) \in Nat
    BY <2>1, FiniteMap, FS_CardinalityType, WorkersAssumption
  <2> QED
    BY <2>2, LimitsAssumption DEF CheckedBound, MapBound
<1> QED
  BY <1>1, TypeCorrect, CheckedBounded, PTL

-----------------------------------------------------------------------------
\* How far request c is from needing nobody: one that waits for a script mutex
\* or a worker may wait for one that has the mutex or the worker, and so on.
Distance(c) == CASE cmdPc[c] = "idle" -> 4
                 [] cmdPc[c] = "lock" /\ c \in Scripts -> 3
                 [] cmdPc[c] = "upload" -> 2
                 [] cmdPc[c] = "lock" /\ c \notin Scripts -> 1
                 [] OTHER -> 0

\* A request only waits for requests that are nearer to their end.
LEMMA WaitsForNearer ==
  ASSUME TypeOK, NEW c \in Commands, NEW d \in Commands, WaitsFor(c, d)
  PROVE  Distance(d) < Distance(c)
<1>1. cmdPc[c] \in {"idle", "lock", "upload", "run", "exit", "load", "remove", "done"}
      /\ cmdPc[d] \in {"idle", "lock", "upload", "run", "exit", "load", "remove", "done"}
  BY DEF TypeOK
<1>2. CASE cmdPc[c] = "lock" /\ SameMutex(c, d) /\ Holds(d)
  <2>1. CASE c \in Plugins /\ d \in Plugins
    BY <1>1, <1>2, <2>1, RequestsAssumption DEF Holds, Distance
  <2>2. CASE c \in Scripts /\ d \in Scripts
    BY <1>1, <1>2, <2>2, RequestsAssumption DEF Holds, Distance
  <2> QED
    BY <1>2, <2>1, <2>2 DEF SameMutex
<1>3. CASE Blocks(d) /\ (cmdPc[c] = "idle" \/ (c \in Scripts /\ cmdPc[c] \in {"lock", "upload"}))
  <2>1. Distance(d) \in {0, 1}
    BY <1>1, <1>3 DEF Blocks, Distance
  <2>2. Distance(c) \in {2, 3, 4}
    BY <1>3 DEF Distance
  <2> QED
    BY <2>1, <2>2
<1> QED
  BY <1>2, <1>3 DEF WaitsFor

\* The requests never wait for each other in a circle.
THEOREM DeadlockFree == Spec => []NoDeadlock
<1>1. TypeOK => NoDeadlock
  <2> SUFFICES ASSUME TypeOK, NEW waiting \in SUBSET Commands, waiting # {}
               PROVE  \E c \in waiting : \A d \in waiting : ~WaitsFor(c, d)
    BY DEF NoDeadlock
  <2>1. \A c \in waiting : Distance(c) \in 0 .. 4
    BY DEF Distance
  <2>2. \E c \in waiting : \A d \in waiting : ~(Distance(d) < Distance(c))
    <3> DEFINE At(n) == \E c \in waiting : Distance(c) = n
    <3>1. At(0) \/ At(1) \/ At(2) \/ At(3) \/ At(4)
      BY <2>1
    <3> QED
      BY <2>1, <3>1
  <2> QED
    BY <2>2, WaitsForNearer
<1> QED
  BY <1>1, TypeCorrect, PTL

-----------------------------------------------------------------------------
\* The command of a request ends after the actor has been told, and a WebSocket
\* leaves the map after its command has ended or when its actor is told: neither
\* fact is inductive without the other.
LEMMA ToldFirst == Spec => [](OrphansFinished /\ FinishedBeforeExit)
<1> DEFINE IInv == TypeOK /\ OrphansFinished /\ FinishedBeforeExit
<1>1. Init => OrphansFinished /\ FinishedBeforeExit
  BY DEF Init, OrphansFinished, FinishedBeforeExit
<1>2. IInv /\ [Next]_vars => (OrphansFinished /\ FinishedBeforeExit)'
  <2> SUFFICES ASSUME TypeOK, OrphansFinished, FinishedBeforeExit, [Next]_vars
               PROVE  OrphansFinished' /\ FinishedBeforeExit'
    OBVIOUS
  <2> USE DEF TypeOK, OrphansFinished, FinishedBeforeExit, Broken
  <2>1. ASSUME NEW i \in Sockets, CheckLimit(i) PROVE OrphansFinished' /\ FinishedBeforeExit'
    <3>1. \A j \in wsMap \ wsMap' : finished'[j]
      BY <2>1 DEF CheckLimit, RemoveExpired
    <3>2. \A j \in Sockets : /\ finished[j] => finished'[j]
                             /\ wsPc'[j] = "live" => wsPc[j] = "live"
      BY <2>1 DEF CheckLimit, RemoveExpired
    <3>3. OrphansFinished'
      BY <2>1, <3>1, <3>2 DEF CheckLimit, commandVars, historyVars
    <3> QED
      BY <2>1, <3>2, <3>3 DEF CheckLimit, commandVars, historyVars
  <2>2. ASSUME NEW i \in Sockets, Insert(i) PROVE OrphansFinished' /\ FinishedBeforeExit'
    BY <2>2 DEF Insert, commandVars, dataVars, historyVars
  <2>3. ASSUME NEW i \in Sockets, Poll(i) \/ ClientGone(i) \/ Expire(i)
        PROVE  OrphansFinished' /\ FinishedBeforeExit'
    <3>1. \A j \in Sockets : wsPc'[j] = "live" => wsPc[j] = "live"
      BY <2>3 DEF Poll, ClientGone, Expire, socketVars
    <3>2. UNCHANGED <<wsMap, finished, commandVars, broken>>
      BY <2>3 DEF Poll, ClientGone, Expire, socketVars, dataVars, historyVars
    <3> QED
      BY <3>1, <3>2 DEF commandVars
  <2>4. ASSUME NEW c \in Commands,
               Request(c) \/ GiveUp(c) \/ Lookup(c) \/ LockScript(c) \/ Uploaded(c)
        PROVE  OrphansFinished' /\ FinishedBeforeExit'
    BY <2>4 DEF Request, GiveUp, Lookup, LockScript, Uploaded, StartCommand, Goto,
                socketVars, dataVars, historyVars
  <2>5. ASSUME NEW c \in Commands, PrintLine(c) PROVE OrphansFinished' /\ FinishedBeforeExit'
    BY <2>5 DEF PrintLine, socketVars, historyVars
  <2>6. ASSUME NEW c \in Commands, EndOutput(c) PROVE OrphansFinished' /\ FinishedBeforeExit'
    <3>1. \A j \in Sockets : finished[j] => finished'[j]
      BY <2>6 DEF EndOutput
    <3>2. stage[c] = "last" /\ cmdWs[c] \in Sockets => finished'[cmdWs[c]]
      BY <2>6 DEF EndOutput, Finishes
    <3>3. \A d \in Commands \ {c} : cmdPc'[d] = cmdPc[d]
      BY <2>6 DEF EndOutput, Goto
    <3>4. cmdPc'[c] # "remove"
      BY <2>6 DEF EndOutput, Goto
    <3> QED
      BY <2>6, <3>1, <3>2, <3>3, <3>4 DEF EndOutput, socketVars, historyVars
  <2>7. ASSUME NEW c \in Commands, Exit(c) PROVE OrphansFinished' /\ FinishedBeforeExit'
    BY <2>7 DEF Exit, Goto, socketVars, dataVars, historyVars
  <2>8. ASSUME NEW c \in Commands, LoadPolicy(c) PROVE OrphansFinished' /\ FinishedBeforeExit'
    BY <2>8 DEF LoadPolicy, StartCommand, Goto, socketVars, dataVars, historyVars
  <2>9. ASSUME NEW c \in Commands, RemoveSocket(c) PROVE OrphansFinished' /\ FinishedBeforeExit'
    BY <2>9 DEF RemoveSocket, Goto, dataVars, historyVars
  <2>10. ASSUME NEW c \in Commands, ReadError(c) PROVE OrphansFinished' /\ FinishedBeforeExit'
    BY <2>10 DEF ReadError, Goto, socketVars, dataVars, historyVars
  <2>11. CASE UNCHANGED vars
    BY <2>11 DEF vars, socketVars, dataVars, commandVars, historyVars
  <2> QED
    BY <2>1, <2>2, <2>3, <2>4, <2>5, <2>6, <2>7, <2>8, <2>9, <2>10, <2>11 DEF Next, Handle
<1> QED
  BY <1>1, <1>2, TypeCorrect, PTL DEF Spec

\* No actor is forgotten: the ones the map no longer knows have been told to
\* finish, unless reading the output of their command has failed.
THEOREM OrphansToldToFinish == Spec => []OrphansFinished
BY ToldFirst, PTL

\* A request whose last command has ended has told its actor to finish before it
\* removes the WebSocket or answers, unless reading the output has failed.
THEOREM ToldBeforeExit == Spec => []FinishedBeforeExit
BY ToldFirst, PTL

-----------------------------------------------------------------------------
\* A request names a WebSocket whose client knows its id.
NamesTold == \A c \in Commands : cmdPc[c] # "idle" => cmdWs[c] \in Told

\* A WebSocket that has had its first message stays one that had it.
LEMMA NamedTold == Spec => []NamesTold
<1>1. Init => NamesTold
  BY DEF Init, NamesTold
<1>2. TypeOK /\ NamesTold /\ [Next]_vars => NamesTold'
  <2> SUFFICES ASSUME TypeOK, NamesTold, [Next]_vars PROVE NamesTold'
    OBVIOUS
  <2> USE DEF NamesTold
  <2>1. Told \subseteq Told'
    <3>1. ASSUME NEW i \in Sockets, CheckLimit(i) \/ Insert(i) \/ Poll(i) \/ ClientGone(i)
          PROVE  Told \subseteq Told'
      BY <3>1 DEF CheckLimit, Insert, Poll, ClientGone, Told, TypeOK
    <3>2. CASE UNCHANGED wsPc
      BY <3>2 DEF Told
    <3>3. ASSUME NEW i \in Sockets, Expire(i) PROVE UNCHANGED wsPc
      BY <3>3 DEF Expire, socketVars
    <3>4. ASSUME NEW c \in Commands, Request(c) \/ GiveUp(c) \/ Handle(c) PROVE UNCHANGED wsPc
      BY <3>4 DEF Request, GiveUp, Handle, Lookup, LockScript, Uploaded, PrintLine, EndOutput,
                  ReadError, Exit, LoadPolicy, RemoveSocket, socketVars
    <3>5. CASE UNCHANGED vars
      BY <3>2, <3>5 DEF vars, socketVars
    <3> QED
      BY <3>1, <3>2, <3>3, <3>4, <3>5 DEF Next
  <2>2. ASSUME NEW c \in Commands, Request(c) PROVE NamesTold'
    BY <2>1, <2>2 DEF Request, TypeOK
  <2>3. ASSUME NEW c \in Commands, GiveUp(c) \/ Handle(c) PROVE NamesTold'
    <3>1. cmdPc[c] # "idle" /\ cmdWs' = cmdWs /\ \A d \in Commands \ {c} : cmdPc'[d] = cmdPc[d]
      BY <2>3 DEF GiveUp, Handle, Lookup, LockScript, Uploaded, PrintLine, EndOutput, Goto,
                  StartCommand, ReadError, Exit, LoadPolicy, RemoveSocket, TypeOK
    <3> QED
      BY <2>1, <3>1
  <2>4. ASSUME NEW i \in Sockets,
               CheckLimit(i) \/ Insert(i) \/ Poll(i) \/ ClientGone(i) \/ Expire(i)
        PROVE  NamesTold'
    BY <2>1, <2>4 DEF CheckLimit, Insert, Poll, ClientGone, Expire, commandVars
  <2>5. CASE UNCHANGED vars
    BY <2>1, <2>5 DEF vars, commandVars
  <2> QED
    BY <2>2, <2>3, <2>4, <2>5 DEF Next
<1> QED
  BY <1>1, <1>2, TypeCorrect, PTL DEF Spec

-----------------------------------------------------------------------------
\* A step of WebSocket i that leaves what its stream consists of alone.
LEMMA StreamUnchanged ==
  ASSUME NEW i \in Sockets, delivered'[i] = delivered[i], lines'[i] = lines[i],
         finished'[i] = finished[i], StreamState(i)' = StreamState(i)
  PROVE  UNCHANGED Stream(i)!vars
BY DEF Stream!vars

LEMMA InitStream ==
  ASSUME Init, NEW i \in Sockets
  PROVE  Stream(i)!Init
BY DEF Init, Stream!Init, StreamState

\* What comes after s is seen.
LEMMA LongerConcat ==
  ASSUME NEW S, NEW s \in Seq(S), NEW t \in Seq(S), t # <<>>
  PROVE  s # s \o t
<1>1. Len(s \o t) = Len(s) + Len(t) /\ Len(s) \in Nat /\ Len(t) \in Nat
  BY LenProperties, ConcatProperties
<1>2. Len(t) # 0
  BY EmptySeq
<1>3. Len(s \o t) # Len(s)
  BY <1>1, <1>2
<1> QED
  BY <1>3, Zenon

\* Every step of the agent is, for the stream of WebSocket i, a step of
\* OutputStream or none.
LEMMA StepStream ==
  ASSUME TypeOK, NamesTold, [Next]_vars, NEW i \in Sockets
  PROVE  UNCHANGED Stream(i)!vars \/ Stream(i)!Next
<1> DEFINE Goal == UNCHANGED Stream(i)!vars \/ Stream(i)!Next
           SameData == /\ delivered'[i] = delivered[i] /\ lines'[i] = lines[i]
           Same == /\ SameData /\ finished'[i] = finished[i] /\ wsPc'[i] = wsPc[i]
<1> SUFFICES Goal
  OBVIOUS
<1> HIDE DEF Goal
<1>1. Same => Goal
  BY StreamUnchanged DEF StreamState, Goal
<1>2. CASE UNCHANGED vars
  BY <1>1, <1>2 DEF vars, socketVars, dataVars, historyVars
<1>3. ASSUME SameData, finished'[i], wsPc'[i] = wsPc[i] PROVE Goal
  <2>1. Stream(i)!Finish
    BY <1>3 DEF Stream!Finish, StreamState
  <2> QED
    BY <2>1 DEF Goal, Stream!Next
<1>4. ASSUME SameData, finished'[i] = finished[i], StreamState(i)' = StreamState(i) PROVE Goal
  BY <1>4, StreamUnchanged DEF Goal
<1>5. ASSUME NEW j \in Sockets, CheckLimit(j) PROVE Goal
  <2>1. SameData /\ (finished'[i] = finished[i] \/ finished'[i])
    BY <1>5 DEF CheckLimit, RemoveExpired, historyVars, TypeOK
  <2>2. CASE i # j
    <3>1. wsPc'[i] = wsPc[i]
      BY <1>5, <2>2 DEF CheckLimit, TypeOK
    <3> QED
      BY <1>1, <1>3, <2>1, <3>1
  <2>3. CASE i = j
    <3>1. StreamState(i)' = StreamState(i)
      BY <1>5, <2>3 DEF CheckLimit, TypeOK, StreamState
    <3>2. CASE finished'[i] = finished[i]
      BY <1>4, <2>1, <3>1, <3>2
    <3>3. CASE finished'[i]
      <4>1. Stream(i)!Finish
        BY <2>1, <3>1, <3>3 DEF Stream!Finish
      <4> QED
        BY <4>1 DEF Goal, Stream!Next
    <3> QED
      BY <2>1, <3>2, <3>3
  <2> QED
    BY <2>2, <2>3
<1>6. ASSUME NEW j \in Sockets, Insert(j) PROVE Goal
  <2>1. SameData /\ finished'[i] = finished[i]
    BY <1>6 DEF Insert, dataVars, historyVars
  <2>2. CASE i # j
    BY <1>1, <1>6, <2>1, <2>2 DEF Insert, TypeOK
  <2>3. CASE i = j
    <3>1. StreamState(i) = "new" /\ StreamState(i)' \in {"open", "lost"}
      BY <1>6, <2>3 DEF Insert, TypeOK, StreamState
    <3>2. Stream(i)!Open
      BY <2>1, <3>1 DEF Stream!Open
    <3> QED
      BY <3>2 DEF Goal, Stream!Next
  <2> QED
    BY <2>2, <2>3
<1>7. ASSUME NEW j \in Sockets, Poll(j) PROVE Goal
  <2>1. CASE i # j
    BY <1>1, <1>7, <2>1 DEF Poll, TypeOK
  <2>2. CASE i = j
    <3>1. /\ delivered'[i] = delivered[i] \o lines[i] /\ lines'[i] = <<>>
          /\ finished'[i] = finished[i]
          /\ delivered[i] \in Seq(Line) /\ lines[i] \in Seq(Line)
      BY <1>7, <2>2 DEF Poll, TypeOK
    <3>2. delivered'[i] \o lines'[i] = delivered[i] \o lines[i]
      BY <3>1
    <3>3. delivered[i] # delivered[i] \o lines[i] \/ finished[i]
      <4>1. lines[i] # <<>> \/ finished[i]
        BY <1>7, <2>2 DEF Poll
      <4>2. lines[i] # <<>> => delivered[i] # delivered[i] \o lines[i]
        BY <3>1, LongerConcat, Zenon
      <4> QED
        BY <4>1, <4>2, Zenon
    <3>4. StreamState(i) = "open"
      BY <1>7, <2>2 DEF Poll, StreamState
    <3>5. StreamState(i)' = IF finished[i] THEN "closed" ELSE "open"
      BY <1>7, <2>2 DEF Poll, TypeOK, StreamState
    <3>6. Stream(i)!Deliver
      BY <3>1, <3>2, <3>3, <3>4, <3>5 DEF Stream!Deliver
    <3> QED
      BY <3>6 DEF Goal, Stream!Next
  <2> QED
    BY <2>1, <2>2
<1>8. ASSUME NEW j \in Sockets, ClientGone(j) PROVE Goal
  <2>1. SameData /\ finished'[i] = finished[i]
    BY <1>8 DEF ClientGone, dataVars, historyVars
  <2>2. CASE i # j
    BY <1>1, <1>8, <2>1, <2>2 DEF ClientGone, TypeOK
  <2>3. CASE i = j
    <3>1. StreamState(i) = "open" /\ StreamState(i)' = "lost"
      BY <1>8, <2>3 DEF ClientGone, TypeOK, StreamState
    <3>2. Stream(i)!Lose
      BY <2>1, <3>1 DEF Stream!Lose
    <3> QED
      BY <3>2 DEF Goal, Stream!Next
  <2> QED
    BY <2>2, <2>3
<1>9. ASSUME NEW j \in Sockets, Expire(j) PROVE Goal
  BY <1>1, <1>9 DEF Expire, socketVars, dataVars, historyVars
<1>10. ASSUME NEW c \in Commands, PrintLine(c) PROVE Goal
  <2>1. finished'[i] = finished[i] /\ wsPc'[i] = wsPc[i] /\ delivered'[i] = delivered[i]
    BY <1>10 DEF PrintLine, socketVars, historyVars
  <2>2. CASE i # cmdWs[c]
    BY <1>1, <1>10, <2>1, <2>2 DEF PrintLine
  <2>3. CASE i = cmdWs[c]
    <3> DEFINE line == <<c, printed'[c]>>
    <3>1. line \in Line
      BY <1>10, LimitsAssumption DEF PrintLine, TypeOK, Line
    <3>2. lines'[i] = Append(lines[i], line)
      BY <1>10, <2>3 DEF PrintLine
    <3>3. delivered'[i] \o lines'[i] = Append(delivered[i] \o lines[i], line)
      <4> HIDE DEF line
      <4> QED
        BY <2>1, <3>1, <3>2 DEF TypeOK
    <3>4. StreamState(i)' = StreamState(i) /\ StreamState(i) # "new"
      <4>1. wsPc[i] \in {"live", "closed", "gone"}
        BY <1>10, <2>3, RequestsAssumption DEF PrintLine, NamesTold, Told
      <4> QED
        BY <2>1, <4>1 DEF StreamState
    <3>5. Stream(i)!Push
      <4> HIDE DEF line
      <4> QED
        BY <2>1, <3>1, <3>3, <3>4 DEF Stream!Push
    <3> QED
      BY <3>5 DEF Goal, Stream!Next
  <2> QED
    BY <2>2, <2>3
<1>11. ASSUME NEW c \in Commands, EndOutput(c) PROVE Goal
  <2>1. SameData /\ wsPc'[i] = wsPc[i] /\ (finished'[i] = finished[i] \/ finished'[i])
    BY <1>11 DEF EndOutput, socketVars, historyVars, TypeOK
  <2> QED
    BY <1>1, <1>3, <2>1
<1>12. ASSUME NEW c \in Commands,
              \/ Request(c) \/ GiveUp(c) \/ Lookup(c) \/ LockScript(c) \/ Uploaded(c)
              \/ ReadError(c) \/ Exit(c) \/ LoadPolicy(c) \/ RemoveSocket(c)
       PROVE  Goal
  BY <1>1, <1>12 DEF Request, GiveUp, Lookup, LockScript, Uploaded, ReadError, Exit, LoadPolicy,
                     RemoveSocket, socketVars, dataVars, historyVars
<1> QED
  BY <1>2, <1>5, <1>6, <1>7, <1>8, <1>9, <1>10, <1>11, <1>12 DEF Next, Handle

\* The client of a WebSocket gets the lines pushed to it, each once and in the
\* order they were pushed, and the agent closes it only when it is finished and
\* all of them are sent.
THEOREM ImplementsStream == Spec => StreamSpec
<1>1. Init => \A i \in Sockets : Stream(i)!Init
  BY InitStream
<1>2. TypeOK /\ NamesTold /\ [Next]_vars
        => [\A i \in Sockets : UNCHANGED Stream(i)!vars \/ Stream(i)!Next]_vars
  BY StepStream
<1> QED
  BY <1>1, <1>2, TypeCorrect, NamedTold, PTL DEF Spec, StreamSpec

-----------------------------------------------------------------------------
(* Streams of one request. *)

\* The first k lines of request c.
Lines(c, k) == [n \in 1 .. k |-> <<c, n>>]

\* A request that has left, after its last command.
Left(c) == stage[c] = "last" /\ cmdPc[c] \in {"exit", "remove", "done"}

\* What is pushed to a WebSocket nobody has named, and to one that only
\* request c has; it is finished by its expiry, or by the last command of c.
Unused(i) == delivered[i] \o lines[i] = <<>> /\ (finished[i] => expired[i])
UsedBy(i, c) == /\ delivered[i] \o lines[i] = Lines(c, printed[c])
                /\ finished[i] => expired[i] \/ Left(c)
                /\ wsPc[i] = "closed" => expired[i] \/ lines[i] = <<>>
OneUser ==
  /\ \A i \in Sockets : /\ wsPc[i] = "closed" => finished[i]
                        /\ Users(i) = {} => Unused(i)
                        /\ \A c \in Commands : Users(i) = {c} => UsedBy(i, c)
  /\ \A c \in Commands : cmdPc[c] = "idle" => printed[c] = 0

LEMMA NoLines == ASSUME NEW c PROVE Lines(c, 0) = <<>>
<1>1. 1 .. 0 = {}
  OBVIOUS
<1> QED
  BY <1>1 DEF Lines

LEMMA OneMoreLine ==
  ASSUME NEW c \in Commands, NEW k \in 0 .. MaxLines, k < MaxLines
  PROVE  Append(Lines(c, k), <<c, k + 1>>) = Lines(c, k + 1)
<1>1. k \in Nat /\ MaxLines \in Nat
  BY LimitsAssumption
<1>2. Lines(c, k) \in Seq(Line) /\ Lines(c, k + 1) \in Seq(Line) /\ <<c, k + 1>> \in Line
      /\ Len(Lines(c, k)) = k /\ Len(Lines(c, k + 1)) = k + 1
  BY <1>1 DEF Lines, Line
<1>3. \A n \in 1 .. k + 1 : Append(Lines(c, k), <<c, k + 1>>)[n] = <<c, n>>
  BY <1>1, <1>2, AppendProperties DEF Lines
<1>4. \A n \in 1 .. k + 1 : Lines(c, k + 1)[n] = <<c, n>>
  BY <1>1 DEF Lines
<1>5. Append(Lines(c, k), <<c, k + 1>>) \in Seq(Line)
      /\ Len(Append(Lines(c, k), <<c, k + 1>>)) = k + 1
  BY <1>2, AppendProperties
<1> QED
  BY <1>2, <1>3, <1>4, <1>5, SeqEqual

\* Steps that neither print, nor end the output, nor deliver.
LEMMA Quiet ==
  ASSUME OneUser, UNCHANGED <<delivered, lines, printed, cmdWs>>,
         \A i \in Sockets : /\ finished[i] => finished'[i]
                            /\ finished'[i] => finished[i] \/ expired[i]
                            /\ expired[i] => expired'[i]
                            /\ wsPc'[i] = "closed" => wsPc[i] = "closed",
         \A c \in Commands : /\ cmdPc'[c] = "idle" => cmdPc[c] = "idle"
                             /\ Left(c) => Left(c)'
  PROVE  OneUser'
<1>1. ASSUME NEW i \in Sockets, Users(i)' = {} PROVE Unused(i)'
  <2>1. Users(i) = {}
    BY <1>1 DEF Users
  <2> QED
    BY <2>1 DEF OneUser, Unused
<1>2. ASSUME NEW i \in Sockets, NEW c \in Commands, Users(i)' = {c} PROVE UsedBy(i, c)'
  <2>1. CASE Users(i) = {c}
    BY <2>1 DEF OneUser, UsedBy
  <2>2. CASE Users(i) = {}
    <3>1. cmdPc[c] = "idle" /\ printed[c] = 0
      BY <1>2, <2>2 DEF Users, OneUser
    <3>2. Unused(i) /\ (wsPc[i] = "closed" => finished[i])
      BY <2>2 DEF OneUser
    <3> QED
      BY <3>1, <3>2, NoLines DEF Unused, UsedBy
  <2>3. Users(i) \subseteq {c}
    BY <1>2 DEF Users
  <2> QED
    BY <2>1, <2>2, <2>3
<1>3. \A i \in Sockets : wsPc'[i] = "closed" => finished'[i]
  BY DEF OneUser
<1>4. \A c \in Commands : cmdPc'[c] = "idle" => printed'[c] = 0
  BY DEF OneUser
<1> QED
  BY <1>1, <1>2, <1>3, <1>4 DEF OneUser

LEMMA PollOneUser ==
  ASSUME TypeOK, OneUser, NEW j \in Sockets, Poll(j)
  PROVE  OneUser'
<1>1. /\ UNCHANGED <<finished, expired, cmdPc, cmdWs, stage, printed>>
      /\ wsPc[j] = "live" /\ lines'[j] = <<>> /\ delivered'[j] = delivered[j] \o lines[j]
      /\ wsPc'[j] = "closed" => finished[j]
      /\ \A i \in Sockets \ {j} : delivered'[i] = delivered[i] /\ lines'[i] = lines[i] /\ wsPc'[i] = wsPc[i]
  BY DEF Poll, commandVars, TypeOK
<1>2. \A i \in Sockets : delivered'[i] \o lines'[i] = delivered[i] \o lines[i]
  <2>1. delivered[j] \o lines[j] \in Seq(Line)
    BY ConcatProperties DEF TypeOK
  <2>2. (delivered[j] \o lines[j]) \o <<>> = delivered[j] \o lines[j]
    BY <2>1, ConcatEmptySeq, Zenon
  <2> QED
    BY <1>1, <2>2
<1>3. \A i \in Sockets : Users(i)' = Users(i)
  BY <1>1 DEF Users
<1>4. ASSUME NEW i \in Sockets, Users(i) = {} PROVE Unused(i)'
  BY <1>1, <1>2, <1>4 DEF OneUser, Unused
<1>5. ASSUME NEW i \in Sockets, NEW c \in Commands, Users(i) = {c} PROVE UsedBy(i, c)'
  <2>1. UsedBy(i, c)
    BY <1>5 DEF OneUser
  <2>2. delivered'[i] \o lines'[i] = Lines(c, printed'[c])
    BY <1>1, <1>2, <2>1 DEF UsedBy
  <2>3. wsPc'[i] = "closed" => expired'[i] \/ lines'[i] = <<>>
    BY <1>1, <2>1 DEF UsedBy
  <2> QED
    BY <1>1, <2>1, <2>2, <2>3 DEF UsedBy, Left
<1>6. \A i \in Sockets : wsPc'[i] = "closed" => finished'[i]
  BY <1>1 DEF OneUser
<1>7. \A c \in Commands : cmdPc'[c] = "idle" => printed'[c] = 0
  BY <1>1 DEF OneUser
<1> QED
  BY <1>3, <1>4, <1>5, <1>6, <1>7 DEF OneUser

\* Only a request that has the WebSocket finishes it, and it has left then.
LEMMA EndOneUser ==
  ASSUME TypeOK, OneUser, NEW e \in Commands, EndOutput(e)
  PROVE  OneUser'
<1>1. /\ UNCHANGED <<wsPc, lines, delivered, expired, cmdWs, stage, printed>>
      /\ cmdPc[e] = "run" /\ cmdPc'[e] \in {"done", "exit"}
      /\ \A c \in Commands \ {e} : cmdPc'[c] = cmdPc[c]
      /\ \A i \in Sockets : /\ finished[i] => finished'[i]
                            /\ finished'[i] => \/ finished[i]
                                               \/ i = cmdWs[e] /\ stage[e] = "last"
  BY DEF EndOutput, Goto, Finishes, socketVars, historyVars, TypeOK
<1>2. \A i \in Sockets : Users(i)' = Users(i) /\ (i = cmdWs[e] => e \in Users(i))
  BY <1>1 DEF Users
<1>3. ASSUME NEW i \in Sockets, Users(i) = {} PROVE Unused(i)'
  BY <1>1, <1>2, <1>3 DEF OneUser, Unused
<1>4. ASSUME NEW i \in Sockets, NEW c \in Commands, Users(i) = {c} PROVE UsedBy(i, c)'
  <2>1. UsedBy(i, c)
    BY <1>4 DEF OneUser
  <2>2. Left(c) => Left(c)'
    BY <1>1 DEF Left
  <2>3. finished'[i] => finished[i] \/ Left(c)'
    BY <1>1, <1>2, <1>4 DEF Left
  <2> QED
    BY <1>1, <2>1, <2>2, <2>3 DEF UsedBy
<1>5. \A i \in Sockets : wsPc'[i] = "closed" => finished'[i]
  BY <1>1 DEF OneUser
<1>6. \A c \in Commands : cmdPc'[c] = "idle" => printed'[c] = 0
  BY <1>1 DEF OneUser
<1> QED
  BY <1>2, <1>3, <1>4, <1>5, <1>6 DEF OneUser

\* A request that has not left finds its WebSocket open, unless it has expired.
LEMMA PrintOneUser ==
  ASSUME TypeOK, OneUser, NEW e \in Commands, PrintLine(e)
  PROVE  OneUser'
<1>1. /\ UNCHANGED <<wsPc, finished, delivered, expired, cmdPc, cmdWs, stage>>
      /\ cmdPc[e] = "run" /\ printed[e] < MaxLines
      /\ printed[e] \in 0 .. MaxLines /\ printed'[e] = printed[e] + 1
      /\ \A c \in Commands \ {e} : printed'[c] = printed[c]
      /\ \A i \in Sockets : lines'[i] = IF i = cmdWs[e] THEN Append(lines[i], <<e, printed[e] + 1>>)
                                                        ELSE lines[i]
  BY DEF PrintLine, socketVars, historyVars, TypeOK
<1>2. \A i \in Sockets : Users(i)' = Users(i) /\ (i = cmdWs[e] <=> e \in Users(i))
  BY <1>1 DEF Users
<1>3. ASSUME NEW i \in Sockets, Users(i) = {} PROVE Unused(i)'
  BY <1>1, <1>2, <1>3 DEF OneUser, Unused
<1>4. ASSUME NEW i \in Sockets, NEW c \in Commands, Users(i) = {c} PROVE UsedBy(i, c)'
  <2>1. UsedBy(i, c) /\ (wsPc[i] = "closed" => finished[i])
    BY <1>4 DEF OneUser
  <2>2. CASE c # e
    BY <1>1, <1>2, <1>4, <2>1, <2>2 DEF UsedBy, Left
  <2>3. CASE c = e
    <3>1. ~Left(e)
      BY <1>1 DEF Left
    <3>2. finished[i] => expired[i]
      BY <2>1, <2>3, <3>1 DEF UsedBy
    <3>3. delivered'[i] \o lines'[i] = Lines(c, printed'[c])
      <4> DEFINE line == <<e, printed[e] + 1>>
      <4>1. line \in Line
        BY <1>1, LimitsAssumption DEF Line
      <4>2. lines'[i] = Append(lines[i], line) /\ delivered'[i] = delivered[i]
        BY <1>1, <1>2, <1>4, <2>3
      <4>3. Append(Lines(e, printed[e]), line) = Lines(e, printed[e] + 1)
        BY <1>1, OneMoreLine
      <4> HIDE DEF line
      <4>4. delivered[i] \o Append(lines[i], line) = Append(delivered[i] \o lines[i], line)
        BY <4>1 DEF TypeOK
      <4> QED
        BY <1>1, <2>1, <2>3, <4>2, <4>3, <4>4 DEF UsedBy
    <3> QED
      BY <1>1, <2>1, <3>2, <3>3 DEF UsedBy
  <2> QED
    BY <2>2, <2>3
<1>5. \A i \in Sockets : wsPc'[i] = "closed" => finished'[i]
  BY <1>1 DEF OneUser
<1>6. \A c \in Commands : cmdPc'[c] = "idle" => printed'[c] = 0
  BY <1>1 DEF OneUser
<1> QED
  BY <1>2, <1>3, <1>4, <1>5, <1>6 DEF OneUser

LEMMA NextOneUser == TypeOK /\ OneUser /\ [Next]_vars => OneUser'
<1> SUFFICES ASSUME TypeOK, OneUser, [Next]_vars PROVE OneUser'
  OBVIOUS
<1> USE DEF socketVars, dataVars, commandVars, historyVars
<1>1. ASSUME NEW i \in Sockets, CheckLimit(i) PROVE OneUser'
  <2>1. UNCHANGED <<delivered, lines, expired, commandVars>>
        /\ \A j \in Sockets : /\ finished[j] => finished'[j]
                              /\ finished'[j] => finished[j] \/ expired[j]
                              /\ wsPc'[j] = "closed" => wsPc[j] = "closed"
    BY <1>1 DEF CheckLimit, RemoveExpired, Overdue, TypeOK
  <2> QED
    BY <2>1, Quiet DEF Left
<1>2. ASSUME NEW i \in Sockets, Insert(i) \/ ClientGone(i) \/ Expire(i) PROVE OneUser'
  <2>1. UNCHANGED <<delivered, lines, finished, commandVars>>
        /\ \A j \in Sockets : /\ expired[j] => expired'[j]
                              /\ wsPc'[j] = "closed" => wsPc[j] = "closed"
    BY <1>2 DEF Insert, ClientGone, Expire, TypeOK
  <2> QED
    BY <2>1, Quiet DEF Left
<1>3. ASSUME NEW i \in Sockets, Poll(i) PROVE OneUser'
  BY <1>3, PollOneUser
<1>4. ASSUME NEW c \in Commands, PrintLine(c) \/ EndOutput(c) PROVE OneUser'
  BY <1>4, PrintOneUser, EndOneUser
<1>5. ASSUME NEW c \in Commands,
             \/ Request(c) \/ GiveUp(c) \/ Lookup(c) \/ LockScript(c) \/ Uploaded(c)
             \/ ReadError(c) \/ Exit(c) \/ LoadPolicy(c) \/ RemoveSocket(c)
      PROVE  OneUser'
  <2>1. UNCHANGED <<delivered, lines, finished, expired, printed, cmdWs, wsPc>>
    BY <1>5 DEF Request, GiveUp, Lookup, LockScript, Uploaded, ReadError, Exit, LoadPolicy, RemoveSocket
  <2>2. \A d \in Commands \ {c} : cmdPc'[d] = cmdPc[d] /\ stage'[d] = stage[d]
    BY <1>5 DEF Request, GiveUp, Lookup, LockScript, Uploaded, ReadError, Exit, LoadPolicy,
                RemoveSocket, StartCommand, Goto, TypeOK
  <2>3. cmdPc'[c] # "idle" /\ (Left(c) => Left(c)')
    BY <1>5 DEF Request, GiveUp, Lookup, LockScript, Uploaded, ReadError, Exit, LoadPolicy,
                RemoveSocket, StartCommand, Goto, Left, TypeOK
  <2>4. \A d \in Commands : /\ cmdPc'[d] = "idle" => cmdPc[d] = "idle"
                            /\ Left(d) => Left(d)'
    BY <2>2, <2>3 DEF Left
  <2> QED
    BY <2>1, <2>4, Quiet
<1>6. CASE UNCHANGED vars
  BY <1>6, Quiet DEF vars, Left
<1> QED
  BY <1>1, <1>2, <1>3, <1>4, <1>5, <1>6 DEF Next, Handle

\* A WebSocket the agent closes, and that one request has used, has given its
\* client every line the commands of the request printed, in order, unless it
\* has expired: the installation of a script does not finish it, and its last
\* command does so after its last line.
THEOREM StreamsComplete == Spec => []StreamComplete
<1>1. Init => OneUser
  <2> SUFFICES ASSUME Init PROVE OneUser
    OBVIOUS
  <2>1. \A i \in Sockets : Users(i) = {} /\ wsPc[i] # "closed" /\ ~finished[i] /\ delivered[i] \o lines[i] = <<>>
    BY DEF Init, Users
  <2>2. \A c \in Commands : printed[c] = 0
    BY DEF Init
  <2> QED
    BY <2>1, <2>2 DEF OneUser, Unused
<1>2. TypeOK /\ OneUser => StreamComplete
  <2> SUFFICES ASSUME TypeOK, OneUser, NEW i \in Sockets, NEW c \in Commands,
                      wsPc[i] = "closed", ~expired[i], Users(i) = {c}
               PROVE  delivered[i] = Lines(c, printed[c])
    BY DEF StreamComplete, Lines
  <2>1. UsedBy(i, c) /\ finished[i]
    BY DEF OneUser
  <2>2. lines[i] = <<>> /\ delivered[i] \o lines[i] = Lines(c, printed[c])
    BY <2>1 DEF UsedBy
  <2>3. delivered[i] \o <<>> = delivered[i]
    BY ConcatEmptySeq DEF TypeOK
  <2> QED
    BY <2>2, <2>3
<1> QED
  BY <1>1, <1>2, NextOneUser, TypeCorrect, PTL DEF Spec
=============================================================================

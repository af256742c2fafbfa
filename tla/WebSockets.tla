----------------------------- MODULE WebSockets -----------------------------
(***************************************************************************)
(* The WebSockets of the agent and the commands that stream their output   *)
(* to them.  A client opens a WebSocket and is told its id; it then sends, *)
(* with that id, a plugin request, a fwcloud_script upload or a test       *)
(* request, whose handler runs a command and pushes the lines it prints to *)
(* the data of the WebSocket.  The actor of the WebSocket polls that data  *)
(* and sends the lines to the client.  cfg.ws_map finds the data by id.    *)
(*                                                                         *)
(* Every connection belongs to one worker thread of the HTTP server.  The  *)
(* handlers run commands, and wait for the std mutex of the plugins,       *)
(* without yielding: meanwhile nothing else on their worker runs.          *)
(***************************************************************************)
EXTENDS Integers, Sequences, FiniteSets

CONSTANTS Sockets,        \* WebSocket requests; each identifies one WebSocket.
          Plugins,        \* Plugin requests,
          Scripts,        \* fwcloud_script upload requests,
          Tests,          \* and WebSocket test requests.
          Workers,        \* The worker threads.
          MaxConcurrent,  \* WS_MAX_CONCURRENT.
          MaxLines,       \* Lines the commands of a request print at most (bound).
          NoSocket        \* A request with no ws_id.

Commands == Plugins \cup Scripts \cup Tests

ASSUME RequestsAssumption ==
  /\ Plugins \cap Scripts = {} /\ Plugins \cap Tests = {} /\ Scripts \cap Tests = {}
  /\ NoSocket \notin Sockets
ASSUME LimitsAssumption ==
  MaxConcurrent \in Nat \ {0} /\ MaxLines \in Nat
ASSUME WorkersAssumption == IsFiniteSet(Workers) /\ IsFiniteSet(Sockets)

VARIABLES
  wsMap,      \* The ids in cfg.ws_map.
  wsPc,       \* wsPc[i]: where the request and the actor of WebSocket i are.
  wsWorker,   \* wsWorker[i]: the worker of its connection.
  lines,      \* lines[i]: the lines pushed and not polled.
  finished,   \* finished[i].
  expired,    \* expired[i]: whether created_at is WS_SECONDS_THRESHOLD ago.
  cmdPc,      \* cmdPc[c]: where the handler of request c is.
  cmdWorker,  \* cmdWorker[c]: the worker of its connection.
  cmdWs,      \* cmdWs[c]: the WebSocket it names.
  stage,      \* stage[c]: whether it installs the script or runs its last command.
  printed,    \* printed[c]: lines its commands have printed.
  delivered,  \* History: delivered[i], the lines sent to the client.
  broken      \* History: the requests whose reading of a command has failed.

socketVars == <<wsMap, wsPc, wsWorker>>
dataVars == <<lines, finished>>
commandVars == <<cmdPc, cmdWorker, cmdWs, stage, printed>>
historyVars == <<delivered, broken>>
vars == <<socketVars, dataVars, expired, commandVars, historyVars>>

Line == Commands \X (1 .. MaxLines)

TypeOK ==
  /\ wsMap \subseteq Sockets
  /\ wsPc \in [Sockets -> {"idle", "refused", "checked", "failed", "live", "closed", "gone"}]
  /\ wsWorker \in [Sockets -> Workers]
  /\ lines \in [Sockets -> Seq(Line)]
  /\ finished \in [Sockets -> BOOLEAN]
  /\ expired \in [Sockets -> BOOLEAN]
  /\ cmdPc \in [Commands -> {"idle", "lock", "upload", "run", "exit", "load", "remove", "done"}]
  /\ cmdWorker \in [Commands -> Workers]
  /\ cmdWs \in [Commands -> Sockets \cup {NoSocket}]
  /\ stage \in [Commands -> {"install", "last"}]
  /\ printed \in [Commands -> 0 .. MaxLines]
  /\ delivered \in [Sockets -> Seq(Line)]
  /\ broken \subseteq Commands

Init ==
  /\ wsMap = {}
  /\ wsPc = [i \in Sockets |-> "idle"]
  /\ wsWorker \in [Sockets -> Workers]
  /\ lines = [i \in Sockets |-> <<>>]
  /\ finished = [i \in Sockets |-> FALSE]
  /\ expired = [i \in Sockets |-> FALSE]
  /\ cmdPc = [c \in Commands |-> "idle"]
  /\ cmdWorker \in [Commands -> Workers]
  /\ cmdWs \in [Commands -> Sockets \cup {NoSocket}]
  /\ stage = [c \in Commands |-> IF c \in Scripts THEN "install" ELSE "last"]
  /\ printed = [c \in Commands |-> 0]
  /\ delivered = [i \in Sockets |-> <<>>]
  /\ broken = {}

-----------------------------------------------------------------------------
(* Locks and workers. *)

\* Whether request c holds the mutex of its kind, until its handler returns.
Holds(c) ==
  \/ c \in Plugins /\ cmdPc[c] \in {"run", "exit", "remove"}
  \/ c \in Scripts /\ cmdPc[c] \in {"upload", "run", "exit", "load", "remove"}

SameMutex(c, d) == {c, d} \subseteq Plugins \/ {c, d} \subseteq Scripts

MutexFree(c) == \A d \in Commands \ {c} : SameMutex(c, d) => ~Holds(d)

\* Slip: the script mutex is a std mutex too.
BlocksWaiting(c) == cmdPc[c] \in {"lock", "run", "exit", "load", "remove"}

\* Whether the handler of c keeps its worker from anything else: a script
\* request yields while it waits for its tokio mutex and while it uploads.
Blocks(c) == \/ cmdPc[c] \in {"run", "exit", "load", "remove"}
             \/ cmdPc[c] = "lock" /\ c \notin Scripts

Checked == {i \in Sockets : wsPc[i] = "checked"}

FreeWorker(w) == /\ \A c \in Commands : Blocks(c) => cmdWorker[c] # w
                 /\ \A i \in Checked : wsWorker[i] # w

-----------------------------------------------------------------------------
(* The WebSocket requests and the actors. *)

Overdue == {i \in wsMap : expired[i]}

\* Slip: the actor is not told.
RemoveExpiredQuietly == /\ wsMap' = wsMap \ Overdue
                        /\ UNCHANGED finished

\* Expired WebSockets leave the map, and their actors are told to finish.
RemoveExpired ==
  /\ finished' = [i \in Sockets |-> finished[i] \/ i \in Overdue]
  /\ wsMap' = wsMap \ Overdue

\* Slip: the limit lets one more in.
UnderLimitOrAt == Cardinality(wsMap') <= MaxConcurrent

UnderLimit == Cardinality(wsMap') < MaxConcurrent

\* websocket locks the map, removes the expired and checks the limit ...
CheckLimit(i) ==
  /\ wsPc[i] = "idle" /\ FreeWorker(wsWorker[i])
  /\ RemoveExpired
  /\ wsPc' = [wsPc EXCEPT ![i] = IF UnderLimit THEN "checked" ELSE "refused"]
  /\ UNCHANGED <<wsWorker, lines, expired, commandVars, historyVars>>

\* ... and releases it; FwcAgentWs::new locks it again and adds the WebSocket.
\* A request that is no WebSocket handshake gets no actor.
Insert(i) ==
  /\ wsPc[i] = "checked"
  /\ wsMap' = wsMap \cup {i}
  /\ \E pc \in {"live", "failed"} : wsPc' = [wsPc EXCEPT ![i] = pc]
  /\ UNCHANGED <<wsWorker, dataVars, expired, commandVars, historyVars>>

\* Slip: it looks at finished first, and leaves the lines where they are.
PollFinishedFirst(i) ==
  /\ wsPc[i] = "live" /\ FreeWorker(wsWorker[i])
  /\ lines[i] # <<>> \/ finished[i]
  /\ delivered' = [delivered EXCEPT ![i] = IF finished[i] THEN @ ELSE @ \o lines[i]]
  /\ lines' = [lines EXCEPT ![i] = IF finished[i] THEN @ ELSE <<>>]
  /\ wsPc' = [wsPc EXCEPT ![i] = IF finished[i] THEN "closed" ELSE "live"]
  /\ UNCHANGED <<wsMap, wsWorker, finished, expired, commandVars, broken>>

\* The polling task of the actor, when its worker runs it: it sends every line
\* and, if the WebSocket is finished, closes the connection.
Poll(i) ==
  /\ wsPc[i] = "live" /\ FreeWorker(wsWorker[i])
  /\ lines[i] # <<>> \/ finished[i]
  /\ delivered' = [delivered EXCEPT ![i] = @ \o lines[i]]
  /\ lines' = [lines EXCEPT ![i] = <<>>]
  /\ wsPc' = [wsPc EXCEPT ![i] = IF finished[i] THEN "closed" ELSE "live"]
  /\ UNCHANGED <<wsMap, wsWorker, finished, expired, commandVars, broken>>

\* The client closes the connection, or it is lost: the actor stops, and the
\* map keeps its entry.
ClientGone(i) ==
  /\ wsPc[i] = "live"
  /\ wsPc' = [wsPc EXCEPT ![i] = "gone"]
  /\ UNCHANGED <<wsMap, wsWorker, dataVars, expired, commandVars, historyVars>>

Expire(i) ==
  /\ i \in wsMap /\ ~expired[i]
  /\ expired' = [expired EXCEPT ![i] = TRUE]
  /\ UNCHANGED <<socketVars, dataVars, commandVars, historyVars>>

-----------------------------------------------------------------------------
(* The requests that run commands. *)

\* The id of a WebSocket is the first message its client gets.
Told == {i \in Sockets : wsPc[i] \in {"live", "closed", "gone"}} \cup {NoSocket}

Request(c) ==
  /\ cmdPc[c] = "idle" /\ FreeWorker(cmdWorker[c])
  /\ cmdWs[c] \in Told /\ (c \in Tests => cmdWs[c] # NoSocket)
  /\ cmdPc' = [cmdPc EXCEPT ![c] = "lock"]
  /\ UNCHANGED <<socketVars, dataVars, expired, cmdWorker, cmdWs, stage, printed, historyVars>>

Goto(c, pc) == cmdPc' = [cmdPc EXCEPT ![c] = pc]

\* The data of the WebSocket is looked up, and the command started.
StartCommand(c) ==
  \/ cmdWs[c] \in wsMap \cup {NoSocket} /\ Goto(c, "run")
  \/ (cmdWs[c] \notin wsMap \cup {NoSocket} \/ c \notin Tests) /\ Goto(c, "done")

\* plugin, with its mutex; websocket_test, which takes none.
Lookup(c) ==
  /\ cmdPc[c] = "lock" /\ c \notin Scripts /\ MutexFree(c)
  /\ StartCommand(c)
  /\ UNCHANGED <<socketVars, dataVars, expired, cmdWorker, cmdWs, stage, printed, historyVars>>

LockScript(c) ==
  /\ cmdPc[c] = "lock" /\ c \in Scripts /\ MutexFree(c) /\ FreeWorker(cmdWorker[c])
  /\ Goto(c, "upload")
  /\ UNCHANGED <<socketVars, dataVars, expired, cmdWorker, cmdWs, stage, printed, historyVars>>

\* The upload ends, well or with an error; from there on the handler does not
\* yield.
Uploaded(c) ==
  /\ cmdPc[c] = "upload" /\ FreeWorker(cmdWorker[c])
  /\ StartCommand(c)
  /\ UNCHANGED <<socketVars, dataVars, expired, cmdWorker, cmdWs, stage, printed, historyVars>>

\* Slip: the lines are counted from zero, and one too many.
PrintLineOnceMore(c) ==
  /\ cmdPc[c] = "run" /\ printed[c] <= MaxLines
  /\ printed' = [printed EXCEPT ![c] = @ + 1]
  /\ lines' = [i \in Sockets |->
                 IF i = cmdWs[c] THEN Append(lines[i], <<c, printed[c]>>) ELSE lines[i]]
  /\ UNCHANGED <<socketVars, finished, expired, cmdPc, cmdWorker, cmdWs, stage, historyVars>>

\* The command prints a line; run_cmd keeps what run_cmd_ws pushes.
PrintLine(c) ==
  /\ cmdPc[c] = "run" /\ printed[c] < MaxLines
  /\ printed' = [printed EXCEPT ![c] = @ + 1]
  /\ lines' = [i \in Sockets |->
                 IF i = cmdWs[c] THEN Append(lines[i], <<c, printed'[c]>>) ELSE lines[i]]
  /\ UNCHANGED <<socketVars, finished, expired, cmdPc, cmdWorker, cmdWs, stage, historyVars>>

\* Slip: installing the script finishes the WebSocket.
FinishesAlways(c) == TRUE

\* Slip: no command finishes the WebSocket.
FinishesNever(c) == FALSE

\* finish_ws: the last command of the request.
Finishes(c) == stage[c] = "last"

EndOutput(c) ==
  /\ cmdPc[c] = "run"
  /\ finished' = [i \in Sockets |-> finished[i] \/ (i = cmdWs[c] /\ Finishes(c))]
  /\ Goto(c, IF c \in Tests THEN "done" ELSE "exit")
  /\ UNCHANGED <<socketVars, lines, expired, cmdWorker, cmdWs, stage, printed, historyVars>>

\* An error ends the reading as the end of the output does, but the WebSocket
\* is not finished.
ReadError(c) ==
  /\ cmdPc[c] = "run" /\ c \notin Tests
  /\ Goto(c, "exit")
  /\ broken' = broken \cup {c}
  /\ UNCHANGED <<socketVars, dataVars, expired, cmdWorker, cmdWs, stage, printed, delivered>>

\* The exit status of the command.  On failure the handler returns the error,
\* and the WebSocket stays in the map.
Exit(c) ==
  /\ cmdPc[c] = "exit"
  /\ \/ Goto(c, "done")
     \/ stage[c] = "install" /\ Goto(c, "load")
     \/ stage[c] = "last" /\ cmdWs[c] # NoSocket /\ Goto(c, "remove")
  /\ UNCHANGED <<socketVars, dataVars, expired, cmdWorker, cmdWs, stage, printed, historyVars>>

\* fwcloud_script runs the first script found of fwcloud_script_paths, if any.
LoadPolicy(c) ==
  /\ cmdPc[c] = "load"
  /\ \/ stage' = [stage EXCEPT ![c] = "last"] /\ StartCommand(c)
     \/ Goto(c, "done") /\ UNCHANGED stage
  /\ UNCHANGED <<socketVars, dataVars, expired, cmdWorker, cmdWs, printed, historyVars>>

RemoveSocket(c) ==
  /\ cmdPc[c] = "remove"
  /\ wsMap' = wsMap \ {cmdWs[c]}
  /\ Goto(c, "done")
  /\ UNCHANGED <<wsPc, wsWorker, dataVars, expired, cmdWorker, cmdWs, stage, printed, historyVars>>

\* A client that goes away while its request waits for the tokio mutex: the
\* handler is dropped.
GiveUp(c) ==
  /\ cmdPc[c] = "lock" /\ c \in Scripts
  /\ Goto(c, "done")
  /\ UNCHANGED <<socketVars, dataVars, expired, cmdWorker, cmdWs, stage, printed, historyVars>>

\* What the handler of c does after it is called.
Handle(c) == \/ Lookup(c) \/ LockScript(c) \/ Uploaded(c) \/ PrintLine(c) \/ EndOutput(c)
             \/ ReadError(c) \/ Exit(c) \/ LoadPolicy(c) \/ RemoveSocket(c)

Next ==
  \/ \E i \in Sockets : CheckLimit(i) \/ Insert(i) \/ Poll(i) \/ ClientGone(i) \/ Expire(i)
  \/ \E c \in Commands : Request(c) \/ GiveUp(c) \/ Handle(c)

Spec == Init /\ [][Next]_vars

\* A worker runs its handlers and its actors; commands end, and so do uploads.
\* Nothing makes a client ask or go away.
Fairness == /\ \A i \in Sockets : WF_vars(Insert(i)) /\ WF_vars(Poll(i))
            /\ \A c \in Commands : WF_vars(Handle(c))

FairSpec == Spec /\ Fairness

-----------------------------------------------------------------------------
(* Properties. *)

\* The limit is checked and the WebSocket added under two lockings of the map:
\* between them each other worker may add one, and no more, because the worker
\* that has checked does nothing else before it adds.
MapBound == Cardinality(wsMap) <= MaxConcurrent - 1 + Cardinality(Workers)

\* The inductive form: the WebSockets about to be added are counted.
CheckedBound ==
  /\ \A i, j \in Checked : wsWorker[i] = wsWorker[j] => i = j
  /\ Cardinality(wsMap) + Cardinality(Checked) <= MaxConcurrent - 1 + Cardinality(Workers)

\* The client of a WebSocket the agent closes has got every line of the one
\* request that used it, in order: nothing closes the WebSocket between the two
\* commands of a fwcloud_script, nor before the last lines are sent, unless it
\* has expired.
Users(i) == {c \in Commands : cmdWs[c] = i /\ cmdPc[c] # "idle"}
StreamComplete ==
  \A i \in Sockets : \A c \in Commands :
    wsPc[i] = "closed" /\ ~expired[i] /\ Users(i) = {c}
      => delivered[i] = [n \in 1 .. printed[c] |-> <<c, n>>]

\* The stream of WebSocket i, as OutputStream has it.
StreamState(i) == CASE wsPc[i] \in {"idle", "refused", "checked"} -> "new"
                    [] wsPc[i] = "live" -> "open"
                    [] wsPc[i] = "closed" -> "closed"
                    [] wsPc[i] \in {"failed", "gone"} -> "lost"

Stream(i) == INSTANCE OutputStream WITH
               pushed <- delivered[i] \o lines[i], delivered <- delivered[i],
               told <- finished[i], state <- StreamState(i)

\* Whoever pushes to it, however many do, and whenever it is removed, expires
\* or is finished, every WebSocket is a stream: its client gets the lines once,
\* in the order they were pushed, and all of them before the agent closes it.
StreamSpec == /\ \A i \in Sockets : Stream(i)!Init
              /\ [][\A i \in Sockets : UNCHANGED Stream(i)!vars \/ Stream(i)!Next]_vars

\* Whether some request that uses WebSocket i has failed to read a command.
Broken(i) == \E c \in broken : cmdWs[c] = i

\* An actor the map no longer knows has been told to finish: nobody else could
\* tell it, and it would send its heart beats for ever.  The code keeps this up
\* as long as it reads its commands without error.
OrphansFinished ==
  \A i \in Sockets : wsPc[i] = "live" /\ i \notin wsMap => finished[i] \/ Broken(i)

\* The inductive form: the last command of a request ends after it has told the
\* actor, and only then is the WebSocket removed.
FinishedBeforeExit ==
  \A c \in Commands :
    /\ cmdPc[c] = "remove" => cmdWs[c] \in Sockets /\ stage[c] = "last"
    /\ cmdPc[c] \in {"exit", "remove"} /\ stage[c] = "last" /\ cmdWs[c] \in Sockets
         => finished[cmdWs[c]] \/ c \in broken

\* Whether request c cannot go on before request d does: d holds its mutex, or
\* keeps its worker.  A request that is not read yet, and a script request that
\* waits for its mutex or uploads, need their worker to be free.
WaitsFor(c, d) ==
  \/ cmdPc[c] = "lock" /\ SameMutex(c, d) /\ Holds(d)
  \/ /\ cmdPc[c] = "idle" \/ (c \in Scripts /\ cmdPc[c] \in {"lock", "upload"})
     /\ Blocks(d) /\ cmdWorker[d] = cmdWorker[c]

\* No requests wait for each other, in whatever number and on whatever workers:
\* the script mutex, held during an upload that needs its worker, is one whose
\* waiters leave their workers free; the plugin mutex, whose waiters do not, is
\* held by requests that need nothing.
NoDeadlock ==
  \A waiting \in (SUBSET Commands) \ {{}} :
    \E c \in waiting : \A d \in waiting : ~WaitsFor(c, d)

\* A request that runs a command is answered: no worker waits for a mutex whose
\* holder needs that worker.
CommandsEnd == \A c \in Commands : cmdPc[c] = "lock" ~> cmdPc[c] = "done"

\* A WebSocket whose request has gone well, or that has been removed as
\* expired, is closed, unless reading its command has failed.
StreamsClose ==
  \A i \in Sockets : wsPc[i] = "live" /\ i \notin wsMap ~> wsPc[i] # "live" \/ Broken(i)

=============================================================================
